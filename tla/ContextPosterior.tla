-------------------------- MODULE ContextPosterior --------------------------
(***************************************************************************)
(* One decision slot of the joint posterior forecast, from the batch that  *)
(* reserves it to the results in the forecast ledger:                      *)
(*   decision_cycle/trigger.py          the dispatch builder               *)
(*   forecast/context/posterior_preparation.py  reserve, close_seed        *)
(*   forecast/context/posterior_workflow.py     the Temporal workflow      *)
(*   forecast/context/executor.py, posterior_execution.py  the activity    *)
(*   forecast/repository.py, contract_repository.py        the ledger      *)
(*                                                                         *)
(* The builder is process 0; the activity executions the workflow starts   *)
(* are processes 1, 2, ...  Temporal gives up an execution it hears        *)
(* nothing of, but a thread cannot be cancelled: an abandoned execution    *)
(* runs on beside the next one until it ends or its worker dies.           *)
(***************************************************************************)
EXTENDS Naturals, Sequences, FiniteSets

CONSTANTS NTargets,     \* contracts of the joint behaviour
          MaxAttempts,  \* retry_maximum_attempts
          MaxExecs,     \* bound of the activity executions
          MaxBatches,   \* bound of the batches that find the slot latest
          Causes        \* what may have made the slot

ASSUME PosteriorAssumption ==
    /\ NTargets \in Nat \ {0} /\ MaxAttempts \in Nat \ {0}
    /\ MaxExecs \in Nat \ {0} /\ MaxBatches \in Nat \ {0}
    /\ Causes \subseteq {"CADENCE", "MATERIAL"}

VARIABLES late,       \* the completion deadline of the slot is past
          cause,      \* what made the slot
          prior,      \* target -> its prior was estimated
          duty,       \* targets with a recorded obligation
          forecast,   \* target -> the answer its Forecast was taken from, or 0
          absence,    \* target -> the process that wrote its NO_ESTIMATE, or None
          batch,      \* the batch at hand: its number, created after the deadline
          procs,      \* process -> its state
          flow,       \* the workflow at hand
          seeds,      \* the seeds of the workflows started, in order
          assessed,   \* workflow -> the execution whose world model stands, or 0
          published   \* workflows whose world model update was published

posteriorVars == <<late, cause, prior, duty, forecast, absence, batch, procs,
                   flow, seeds, assessed, published>>

Targets   == 1..NTargets
Execs     == 1..MaxExecs
Workflows == 1..MaxBatches
Builder   == 0
None      == MaxExecs + 1
Ended     == {"SUCCEEDED", "NO_ESTIMATE", "FAILED"}

\* mode: what a process writes.  tell: publish the world model at the end.
Off == [pc |-> "off", work |-> "none", w |-> 0, seed |-> {}, at |-> 1,
        mode |-> "absence", answer |-> 0, known |-> {}, tell |-> FALSE]
NoFlow == [pc |-> "none", exec |-> 0, tries |-> 0]

PosteriorTypeOK ==
    /\ late \in BOOLEAN /\ cause \in Causes /\ prior \in [Targets -> BOOLEAN]
    /\ duty \subseteq Targets
    /\ forecast \in [Targets -> 0..MaxExecs]
    /\ absence \in [Targets -> 0..None]
    /\ flow.pc \in {"none", "starting", "run", "close"} \cup Ended
    /\ flow.exec \in 0..MaxExecs /\ flow.tries \in 0..MaxAttempts
    /\ DOMAIN seeds \subseteq Workflows
    /\ published \subseteq DOMAIN seeds
    /\ \A p \in DOMAIN procs :
         /\ procs[p].at \in 1..(NTargets + 1)
         /\ procs[p].seed \subseteq Targets
         /\ procs[p].pc \in {"off", "reserve", "prepare", "assess", "assessing",
              "posterior", "asking", "check", "insert", "publish", "done",
              "raised", "dead"}

PosteriorInit ==
    /\ late \in BOOLEAN
    /\ cause \in Causes
    /\ prior \in [Targets -> BOOLEAN]
    /\ duty = {}
    /\ forecast = [t \in Targets |-> 0]
    /\ absence = [t \in Targets |-> None]
    /\ batch = [n |-> 1, late |-> late]
    /\ procs = [p \in {Builder} \cup Execs |->
                  IF p = Builder
                  THEN [Off EXCEPT !.pc = "reserve", !.work = "reserve"] ELSE Off]
    /\ flow = NoFlow
    /\ seeds = <<>>
    /\ assessed = [w \in Workflows |-> 0]
    /\ published = {}

Terminal(t) == forecast[t] # 0 \/ absence[t] # None

Is(p, pc) == procs[p].pc = pc
Set(p, new) == procs' = [procs EXCEPT ![p] = new]
End(s, pc) == [Off EXCEPT !.pc = pc, !.w = s.w, !.mode = s.mode]
Goto(p, pc) == Set(p, End(procs[p], pc))      \* where nothing else matters

ledger == <<duty, forecast, absence>>
course == <<late, cause, prior, batch>>
cognition == <<assessed, published>>

-----------------------------------------------------------------------------
(* Writing results, target by target in contract order.  Every write reads *)
(* the other kind of result first and inserts in a step of its own: only   *)
(* the rows of its own kind are unique.                                    *)

\* Where a process goes when it has written the last of its targets.
AfterLast(s) == IF s.work = "run" /\ s.tell THEN "publish" ELSE "done"

Onward(p) ==
    LET s    == procs[p]
        rest == {t \in s.seed : t > s.at}
    IN  IF s.work = "reserve" THEN [s EXCEPT !.pc = "reserve", !.at = @ + 1]
        ELSE IF rest = {} THEN End(s, AfterLast(s))
        ELSE [s EXCEPT !.pc = "check",
                       !.at = CHOOSE t \in rest : \A u \in rest : t <= u]

\* The first target a process has to write.
Writing(s, mode, answer, known) ==
    [s EXCEPT !.pc = "check", !.mode = mode, !.answer = answer, !.known = known,
              !.at = CHOOSE t \in s.seed : \A u \in s.seed : t <= u]

\* close_seed(): the workflow is over and gives no estimate.
CloseSeed(s)   == Writing(s, "absence", 0, {})

\* The execution itself finds that there is none.
NoEstimates(s) == Writing(s, "absence", 0, {})

Check(p) ==
    LET s == procs[p]
        t == s.at
    IN  /\ Is(p, "check")
        /\ Set(p,
             IF s.mode = "forecast"
             THEN IF t \in s.known THEN Onward(p)
                  ELSE IF absence[t] # None THEN End(s, "raised")
                  ELSE [s EXCEPT !.pc = "insert"]
             ELSE IF absence[t] # None THEN Onward(p)
                  ELSE IF forecast[t] # 0
                  THEN IF s.work = "reserve" THEN Onward(p)
                       ELSE End(s, "raised")
                  ELSE [s EXCEPT !.pc = "insert"])
        /\ UNCHANGED <<ledger, course, flow, seeds, cognition>>

\* Mutant of Insert: a row that is there already is left and passed over.
InsertIfAbsent(p) ==
    LET s == procs[p]
        t == s.at
    IN  /\ Is(p, "insert")
        /\ IF s.mode = "forecast"
           THEN /\ forecast' = [forecast EXCEPT ![t] = IF @ = 0 THEN s.answer ELSE @]
                /\ UNCHANGED absence
           ELSE /\ absence' = [absence EXCEPT ![t] = IF @ = None THEN p ELSE @]
                /\ UNCHANGED forecast
        /\ Set(p, Onward(p))
        /\ UNCHANGED <<duty, course, flow, seeds, cognition>>

\* A row that is there already must be the same row.
Insert(p) ==
    LET s == procs[p]
        t == s.at
    IN  /\ Is(p, "insert")
        /\ IF s.mode = "forecast"
           THEN /\ forecast' = IF forecast[t] = 0
                               THEN [forecast EXCEPT ![t] = s.answer] ELSE forecast
                /\ UNCHANGED absence
                /\ Set(p, IF forecast[t] \in {0, s.answer} THEN Onward(p)
                          ELSE End(s, "raised"))
           ELSE /\ absence' = IF absence[t] = None
                              THEN [absence EXCEPT ![t] = p] ELSE absence
                /\ UNCHANGED forecast
                /\ Set(p, IF absence[t] \in {None, p} THEN Onward(p)
                          ELSE End(s, "raised"))
        /\ UNCHANGED <<duty, course, flow, seeds, cognition>>

-----------------------------------------------------------------------------
(* The builder of the batch that holds the slot.                           *)

\* reserve(): one obligation per contract; what is not terminal and can
\* still be answered joins the seed, the rest is closed at once.
Reserve ==
    LET s == procs[Builder]
        t == s.at
    IN  /\ Is(Builder, "reserve")
        /\ IF t > NTargets
           THEN /\ Set(Builder, IF s.seed = {} THEN End(s, "done")
                                ELSE [s EXCEPT !.pc = "prepare"])
                /\ UNCHANGED duty
           ELSE /\ duty' = duty \cup {t}
                /\ Set(Builder,
                       IF Terminal(t) THEN [s EXCEPT !.at = t + 1]
                       ELSE IF ~prior[t] \/ batch.late THEN [s EXCEPT !.pc = "check"]
                       ELSE [s EXCEPT !.at = t + 1, !.seed = @ \cup {t}])
        /\ UNCHANGED <<forecast, absence, course, flow, seeds, cognition>>

FrozenRetry == [Off EXCEPT !.pc = "reserve", !.work = "reserve"]

\* The packet is prepared, the request frozen and the call admitted.  The
\* same frozen batch is built again when the packet or the admission must
\* wait; a request past its deadline is a contract error that fails the
\* batch for good.
Prepare ==
    LET s == procs[Builder] IN
    /\ Is(Builder, "prepare")
    /\ \/ /\ Set(Builder, CloseSeed([s EXCEPT !.work = "shut"]))
          /\ UNCHANGED <<flow, seeds>>
       \/ /\ Set(Builder, FrozenRetry)
          /\ UNCHANGED <<flow, seeds>>
       \/ /\ late
          /\ Goto(Builder, "raised")
          /\ UNCHANGED <<flow, seeds>>
       \/ /\ ~late
          /\ Goto(Builder, "done")
          /\ IF \E w \in DOMAIN seeds : seeds[w] = s.seed
             THEN UNCHANGED <<flow, seeds>>          \* REJECT_DUPLICATE
             ELSE /\ seeds' = Append(seeds, s.seed)
                  /\ flow' = [NoFlow EXCEPT !.pc = "starting"]
    /\ UNCHANGED <<ledger, course, cognition>>

\* The worker of the builder dies, or a store fails: the batch is rebuilt.
BuilderDies ==
    /\ procs[Builder].pc \notin {"done", "raised"}
    /\ procs[Builder] # FrozenRetry
    /\ Set(Builder, FrozenRetry)
    /\ UNCHANGED <<ledger, course, flow, seeds, cognition>>

\* A later batch meets a cadence slot again while it is the latest one.
NextBatch ==
    /\ cause = "CADENCE"
    /\ batch.n < MaxBatches
    /\ procs[Builder].pc \in {"done", "raised"}
    /\ flow.pc \in {"none"} \cup Ended
    /\ batch' = [n |-> batch.n + 1, late |-> late]
    /\ Set(Builder, FrozenRetry)
    /\ UNCHANGED <<ledger, late, cause, prior, flow, seeds, cognition>>

DeadlinePasses ==
    /\ ~late
    /\ late' = TRUE
    /\ UNCHANGED <<ledger, cause, prior, batch, procs, flow, seeds, cognition>>

-----------------------------------------------------------------------------
(* The workflow.                                                           *)

Used == {p \in Execs : procs[p].pc # "off"}

Launch(work) ==
    LET p == Cardinality(Used) + 1
        s == [Off EXCEPT !.work = work, !.w = Len(seeds), !.seed = seeds[Len(seeds)]]
    IN  /\ p \in Execs
        /\ Set(p, IF work = "run" THEN [s EXCEPT !.pc = "assess"]
                  ELSE CloseSeed(s))
        /\ flow' = [pc |-> work, exec |-> p,
                    tries |-> IF work = "run" THEN flow.tries + 1 ELSE flow.tries]

StartFlow ==
    /\ flow.pc = "starting"
    /\ Launch(IF late THEN "close" ELSE "run")
    /\ UNCHANGED <<ledger, course, seeds, cognition>>

\* A run that raised a contract error is closed; a close that did fails.
Heard ==
    /\ flow.pc \in {"run", "close"}
    /\ procs[flow.exec].pc \in {"done", "raised"}
    /\ IF Is(flow.exec, "done")
       THEN /\ flow' = [flow EXCEPT !.pc = IF procs[flow.exec].mode = "forecast"
                                           THEN "SUCCEEDED" ELSE "NO_ESTIMATE"]
            /\ UNCHANGED procs
       ELSE IF flow.pc = "run" THEN Launch("close")
       ELSE flow' = [flow EXCEPT !.pc = "FAILED"] /\ UNCHANGED procs
    /\ UNCHANGED <<ledger, course, seeds, cognition>>

\* A timeout: the attempts of a run are limited and end with the deadline,
\* those of a close are not.
GiveUp ==
    /\ flow.pc \in {"run", "close"}
    /\ procs[flow.exec].pc \notin {"done", "raised"}
    /\ \/ flow.pc = "run" /\ ~late /\ flow.tries < MaxAttempts /\ Launch("run")
       \/ flow.pc = "run" /\ (late \/ flow.tries = MaxAttempts) /\ Launch("close")
       \/ flow.pc = "close" /\ Launch("close")
    /\ UNCHANGED <<ledger, course, seeds, cognition>>

-----------------------------------------------------------------------------
(* An execution of the activity: the world model, then its posterior.      *)

\* The stage after a world model: late, its seed is closed and it is told.
AfterWorldModel(s) ==
    IF late THEN CloseSeed([s EXCEPT !.tell = TRUE])
    ELSE [s EXCEPT !.pc = "posterior", !.tell = TRUE]

Assess(p) ==
    /\ Is(p, "assess")
    /\ Set(p, IF assessed[procs[p].w] # 0 THEN AfterWorldModel(procs[p])
              ELSE [procs[p] EXCEPT !.pc = "assessing"])
    /\ UNCHANGED <<ledger, course, flow, seeds, cognition>>

\* One world model per packet and behaviour: another one is an error.
RecordAssessment(p) ==
    LET s == procs[p]
    IN  IF assessed[s.w] = 0
        THEN assessed' = [assessed EXCEPT ![s.w] = p] /\ Set(p, AfterWorldModel(s))
        ELSE Goto(p, "raised") /\ UNCHANGED assessed

WorldModel(p) ==
    /\ Is(p, "assessing")
    /\ \/ RecordAssessment(p)
       \/ Set(p, CloseSeed(procs[p])) /\ UNCHANGED assessed   \* the analysis failed
    /\ UNCHANGED <<ledger, course, flow, seeds, published>>

\* What the ledger has of a seed.
Forecasted(seed) == {t \in seed : forecast[t] # 0}
Absent(seed)     == {t \in seed : absence[t] # None}

\* A partly written answer is finished from the stored one of its workflow.
Recover(s) ==
    LET F == Forecasted(s.seed)
        source == forecast[CHOOSE t \in F : \A u \in F : t <= u]
    IN  IF procs[source].w = s.w THEN Writing(s, "forecast", source, F)
        ELSE End(s, "raised")

\* What stands of the seed decides: reuse it, finish it, or ask.
Posterior(p) ==
    LET s == procs[p]
        F == Forecasted(s.seed)
        A == Absent(s.seed)
    IN  /\ Is(p, "posterior")
        /\ Set(p,
             IF F # {} /\ A # {} THEN End(s, "raised")
             ELSE IF F = s.seed THEN End([s EXCEPT !.mode = "forecast"], "publish")
             ELSE IF A = s.seed THEN End(s, "publish")
             ELSE IF F # {} THEN Recover(s)
             ELSE IF A # {} \/ late THEN NoEstimates(s)
             ELSE [s EXCEPT !.pc = "asking"])
        /\ UNCHANGED <<ledger, course, flow, seeds, cognition>>

\* An answer is finished with an entry quote of every target: a stale one, or
\* an output against the contract, is no estimate.
CompleteForecasts(p) ==
    \/ Set(p, Writing(procs[p], "forecast", p, {}))
    \/ Set(p, NoEstimates(procs[p]))

\* The answer of the model: fresh in every execution.  A failed call, or one
\* past the deadline, is no estimate.
Answer(p) ==
    /\ Is(p, "asking")
    /\ \/ ~late /\ CompleteForecasts(p)
       \/ Set(p, NoEstimates(procs[p]))
    /\ UNCHANGED <<ledger, course, flow, seeds, cognition>>

\* The review wakeup and WORLD_MODEL_UPDATED; the plan may have moved.
Publish(p) ==
    /\ Is(p, "publish")
    /\ \/ Goto(p, "done") /\ published' = published \cup {procs[p].w}
       \/ Goto(p, "raised") /\ UNCHANGED published
    /\ UNCHANGED <<ledger, course, flow, seeds, assessed>>

\* Its worker dies, or a store fails: a retryable error.  (Bound: not the
\* last execution there is.)
Die(p) ==
    /\ p < MaxExecs
    /\ procs[p].pc \notin {"off", "done", "raised", "dead"}
    /\ Goto(p, "dead")
    /\ UNCHANGED <<ledger, course, flow, seeds, cognition>>

ExecStep(p) ==
    \/ Assess(p) \/ WorldModel(p) \/ Posterior(p) \/ Answer(p) \/ Publish(p)

PosteriorNext ==
    \/ Reserve \/ Prepare \/ BuilderDies \/ NextBatch \/ DeadlinePasses
    \/ StartFlow \/ Heard \/ GiveUp
    \/ \E p \in {Builder} \cup Execs : Check(p) \/ Insert(p)
    \/ \E p \in Execs : ExecStep(p) \/ Die(p)

PosteriorSpec == PosteriorInit /\ [][PosteriorNext]_posteriorVars

-----------------------------------------------------------------------------
\* Downstream capital is told of a world model only when every target of
\* its seed has its result, whichever execution told it (service.py: so that
\* capital "can never race the forecast it is meant to consume").
PublishedAfterTerminal ==
    \A w \in published : \A t \in seeds[w] : Terminal(t)

\* The forecasts one workflow put in the ledger are one joint answer, and
\* that of one world model: abandoned executions never mix theirs in.
OneJointAnswer ==
    \A w \in DOMAIN seeds :
        Cardinality({forecast[t] : t \in {u \in seeds[w] : forecast[u] # 0
                        /\ procs[forecast[u]].w = w}}) <= 1

\* What the workflow reports stands in the ledger for its whole seed.
ReportedAsRecorded ==
    LET seed == seeds[Len(seeds)] IN
    /\ flow.pc = "SUCCEEDED"   => \A t \in seed : forecast[t] # 0
    /\ flow.pc = "NO_ESTIMATE" => \A t \in seed : absence[t] # None

\* ARCHITECTURE.md: at most one terminal result, a Forecast or NO_ESTIMATE,
\* for a slot and behaviour.
ResultIsUnique == \A t \in Targets : ~(forecast[t] # 0 /\ absence[t] # None)

\* OPERATIONS.md: a stage that fails or times out is closed with NO_ESTIMATE.
Quiet == \A p \in DOMAIN procs : procs[p].pc \in {"off", "done", "raised", "dead"}
ObligationsAreClosed ==
    Quiet /\ flow.pc \in {"none"} \cup Ended => \A t \in duty : Terminal(t)
-----------------------------------------------------------------------------
(* Why an answer is joint: the inductive invariant.                        *)

ProcRow == [pc : {"off", "reserve", "prepare", "assess", "assessing", "posterior",
                  "asking", "check", "insert", "publish", "done", "raised", "dead"},
            work : {"none", "reserve", "shut", "run", "close"}, w : Nat,
            seed : SUBSET Targets, at : Nat \ {0}, mode : {"absence", "forecast"},
            answer : 0..MaxExecs, known : SUBSET Targets, tell : BOOLEAN]
FlowRow == [pc : {"none", "starting", "run", "close"} \cup Ended, exec : Nat, tries : Nat]

FirstTarget(S) == CHOOSE t \in S : \A u \in S : t <= u

\* An execution at work is one of a workflow, for its seed; one that writes
\* forecasts, an answer of that workflow, is past the first target only when
\* this answer stands there in the ledger.
WorksOnSeed(s, ledgered) ==
    /\ s.w \in DOMAIN seeds
    /\ s.pc \in {"assess", "assessing", "posterior", "asking", "check", "insert"} =>
          s.seed = seeds[s.w] /\ s.work \in {"run", "close"}
    /\ s.pc \in {"check", "insert"} /\ s.mode = "forecast" =>
          /\ s.at \in s.seed
          /\ s.at # FirstTarget(s.seed) \/ s.known # {} => ledgered[FirstTarget(s.seed)] = s.answer

AnswersForWorkflow(s) ==
    s.pc \in {"check", "insert"} /\ s.mode = "forecast" =>
        /\ s.answer \in Execs /\ procs[s.answer].pc # "off"
        /\ procs[s.answer].w = s.w

\* What stands in the ledger is the answer its workflow gave to its first target.
TakenFromFirst(t, ledgered) ==
    ledgered[t] # 0 => /\ procs[ledgered[t]].pc # "off"
                       /\ t \in seeds[procs[ledgered[t]].w]
                       /\ ledgered[FirstTarget(seeds[procs[ledgered[t]].w])] = ledgered[t]

\* Only the builder prepares, and it writes no forecast.
BuilderIsPlain(s) ==
    s.mode = "absence" /\ (s.pc = "prepare" => s.seed # {})

JointInvariant ==
    /\ procs \in [{Builder} \cup Execs -> ProcRow]
    /\ forecast \in [Targets -> 0..MaxExecs]
    /\ seeds \in Seq(SUBSET Targets) /\ \A w \in DOMAIN seeds : seeds[w] # {}
    /\ flow \in FlowRow /\ (flow.pc # "none" => Len(seeds) # 0)
    /\ BuilderIsPlain(procs[Builder])
    /\ \E n \in 0..MaxExecs : Used = 1..n
    /\ \A p \in Used : WorksOnSeed(procs[p], forecast) /\ AnswersForWorkflow(procs[p])
    /\ \A t \in Targets : TakenFromFirst(t, forecast)
-----------------------------------------------------------------------------
(* Why what is told and reported stands: an execution passes a target only  *)
(* when the result it writes stands there, and no result is taken back.     *)

Stands(mode, t, forecasts, absences) ==
    IF mode = "forecast" THEN forecasts[t] # 0 ELSE absences[t] # None

\* A builder only passes targets that have a forecast; an execution that writes only
\* targets that have its kind of result.
ClosesInTurn(s, forecasts, absences) ==
    /\ s.pc \in {"assess", "assessing", "posterior", "asking"} => s.mode = "absence"
    /\ \A t \in s.known : forecasts[t] # 0
    /\ s.pc \in {"check", "insert"} =>
          /\ s.at \in s.seed
          /\ \A t \in s.seed : t < s.at => Stands(s.mode, t, forecasts, absences)
    /\ s.pc \in {"publish", "done"} =>
          \A t \in seeds[s.w] : Stands(s.mode, t, forecasts, absences)

\* With it the workflow reports, and tells the trigger, only what stands.
ClosingInvariant ==
    /\ absence \in [Targets -> 0..None]
    /\ \A p \in Used : ClosesInTurn(procs[p], forecast, absence)
    /\ flow.pc \in {"run", "close"} =>
          flow.exec \in Used /\ procs[flow.exec].w = Len(seeds)
    /\ published \subseteq DOMAIN seeds
    /\ PublishedAfterTerminal /\ ReportedAsRecorded
=============================================================================
