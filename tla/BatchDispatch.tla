------------------------------ MODULE BatchDispatch ------------------------------
(***************************************************************************)
(* The batches of the coordinator that owns the world model, from the      *)
(* activity that freezes their packets to the call they are admitted to:   *)
(*   decision_cycle/trigger.py           the dispatch builder, its activity *)
(*   forecast/context/repository.py      observations, world models         *)
(*   forecast/context/verification.py    the tests of a world model         *)
(*   scheduling/repository.py            the admission of a call            *)
(*                                                                         *)
(* A batch freezes a packet for the information cutoff of a decision slot, *)
(* one for its own time, or both, earlier first.  Every packet settles the *)
(* tests of the world model it finds: here one mechanism with one test, of *)
(* one source.  An execution of the activity is a thread; Temporal may     *)
(* give one up and start another while the first runs on.                  *)
(***************************************************************************)
EXTENDS Integers, FiniteSets, FiniteSetsExt

CONSTANTS
    Threads,      \* how many executions of the activity may overlap
    MinInterval,  \* minimum_call_interval_seconds
    Matches,      \* how an observation may answer the test, if there is one
    Window,       \* evaluation_window_minutes of the test
    MaxSubmitted, \* bound of the batches
    MaxAbandoned, \* bound of the executions given up
    MaxMinute     \* bound of the clock

ASSUME DispatchAssumption ==
    /\ Matches \subseteq {"supports", "contradicts", "neither"}
    /\ {MinInterval, Window} \subseteq Nat
    /\ {Threads, MaxSubmitted, MaxAbandoned, MaxMinute} \subseteq Nat \ {0}

VARIABLES
    minute,     \* the clock
    source,     \* minute -> how what was observed then answers the test
    models,     \* world models, by number: when available, which continued
    trials,     \* the recorded observations of their tests
    request,    \* the batch at hand
    thread,     \* the executions
    building,   \* the thread that holds _build_lock, 0 for none
    admissions, \* batch -> when its call was admitted
    abandoned,  \* executions given up
    lastFrozen, \* the latest time a packet was frozen for
    inOrder     \* packets were so far frozen in the order of their times

dispatchVars == <<minute, source, models, trials, request, thread, building,
                  admissions, abandoned, lastFrozen, inOrder>>

NoThread  == [pc |-> "off", of |-> 0, at |-> 0, cutoff |-> 0, clock |-> 0]
NoRequest == [n |-> 0, at |-> 0, cutoff |-> 0, review |-> FALSE, pc |-> "none",
              by |-> 0, after |-> 0]
Trial     == [model : 1..MaxSubmitted, at : 0..MaxMinute, ref : 1..MaxMinute,
              match : Matches, support : 0..MaxMinute, contra : 0..MaxMinute,
              knew : 0..MaxMinute]

DispatchInit ==
    /\ minute = 0 /\ source = << >>
    /\ models = << >> /\ trials = {}
    /\ request = NoRequest
    /\ thread = [t \in 1..Threads |-> NoThread]
    /\ building = 0 /\ admissions = << >> /\ abandoned = 0
    /\ lastFrozen = 0 /\ inOrder = TRUE

-----------------------------------------------------------------------------
(* World models and their tests.                                           *)

NewestOf(S) == CHOOSE o \in S : \A p \in S : <<o.at, o.ref>> = <<p.at, p.ref>> \/ o.at > p.at
                                             \/ (o.at = p.at /\ o.ref > p.ref)

\* latest_before: the latest cognition available at that time.
LatestModel(asof) ==
    LET S == {m \in DOMAIN models : models[m].at <= asof}
    IN  IF S = {} THEN 0 ELSE Max(S)

TrialsOf(m) == {o \in trials : o.model = m}

\* mechanism_lineage_observations: those of the model and of the mechanism
\* its own continues.
Lineage(m) == TrialsOf(m) \cup TrialsOf(models[m].continues)

\* What the packet shows of the source: its latest observation, 0 if none.
FeatureRef(asof) ==
    LET S == {t \in DOMAIN source : t <= asof /\ source[t] # "none"}
    IN  IF S = {} THEN 0 ELSE Max(S)

\* The test is due: the packet and what it shows are later than the model,
\* and the window has not ended.
TestDue(m, asof) ==
    /\ models[m].at < asof /\ asof <= models[m].at + Window
    /\ models[m].at < FeatureRef(asof)

\* The observation it is compared with: of this test, or else of the one
\* continued; none has a reference of 0.
PriorTrial(m) ==
    IF TrialsOf(m) # {} THEN NewestOf(TrialsOf(m))
    ELSE IF Lineage(m) # {} THEN NewestOf(Lineage(m))
    ELSE [ref |-> 0, support |-> 0, contra |-> 0]

\* Mutant of Repackaged: every packet is new evidence.
NeverRepackaged(prior, ref) == FALSE

\* The same source observation in another packet is no new evidence.
Repackaged(prior, ref) == prior.ref = ref

\* What the packet tells the analysis had been observed before of the test.
Told(m) == IF TrialsOf(m) = {} THEN 0 ELSE NewestOf(TrialsOf(m)).ref

\* observe_world_model, for the one test; the packet a row belongs to differs
\* by its time and by what it tells.
Observed(m, asof) ==
    LET ref   == FeatureRef(asof)
        prior == PriorTrial(m)
        match == source[ref]
    IN  IF m = 0 THEN {}
        ELSE IF ~ TestDue(m, asof) THEN {}
        ELSE IF Repackaged(prior, ref) THEN {}
        ELSE {[model |-> m, at |-> asof, ref |-> ref, match |-> match, knew |-> Told(m),
               support |-> IF match = "supports" THEN prior.support + 1 ELSE 0,
               contra  |-> IF match = "contradicts" THEN prior.contra + 1 ELSE 0]}

\* observe_mechanisms: one row for a model and a packet, which stands.
SamePacket(o, p) == o.model = p.model /\ o.at = p.at /\ o.knew = p.knew
Recorded(new) == trials \cup {o \in new : ~ \E p \in trials : SamePacket(o, p)}

-----------------------------------------------------------------------------
(* Time, the source and the analyses.                                      *)

MinutePasses ==
    /\ minute < MaxMinute
    /\ minute' = minute + 1
    /\ \E m \in Matches \cup {"none"} :
          source' = [t \in DOMAIN source \cup {minute + 1} |-> IF t = minute + 1 THEN m ELSE source[t]]
    /\ UNCHANGED <<models, trials, request, thread, building, admissions, abandoned,
                   lastFrozen, inOrder>>

\* The analysis of the batch ends with a world model or without one; its
\* mechanism may continue that of the model before.
AnalysisEnds ==
    /\ request.pc = "analysis"
    /\ \/ UNCHANGED models
       \/ \E back \in {0, LatestModel(request.at)} :
             models' = [m \in DOMAIN models \cup {Cardinality(DOMAIN models) + 1} |->
                IF m \in DOMAIN models THEN models[m] ELSE [at |-> minute, continues |-> back]]
    /\ request' = [request EXCEPT !.pc = "none"]
    /\ UNCHANGED <<minute, source, trials, thread, building, admissions, abandoned,
                   lastFrozen, inOrder>>

-----------------------------------------------------------------------------
(* The coordinator.                                                        *)

\* A batch of the present minute: for a review, for a slot whose cutoff is no
\* earlier than that of the last, or for both.
SubmitBatch ==
    /\ request.pc = "none" /\ request.n < MaxSubmitted /\ minute > 0
    /\ \E review \in BOOLEAN, cutoff \in {0} \cup {t \in 1..(minute - 1) : t >= request.cutoff} :
          /\ review \/ cutoff # 0
          /\ request' = [n |-> request.n + 1, at |-> minute, review |-> review,
                         cutoff |-> cutoff, pc |-> "open", by |-> 0, after |-> 0]
    /\ UNCHANGED <<minute, source, models, trials, thread, building, admissions,
                   abandoned, lastFrozen, inOrder>>

\* The activity is started, or started again for the same frozen batch, in a
\* free thread: as they are all alike, the first.
ExecuteActivity(t) ==
    /\ request.pc = "open" /\ request.by = 0 /\ minute >= request.after
    /\ thread[t].pc = "off" /\ \A u \in 1..(t - 1) : thread[u].pc # "off"
    /\ request' = [request EXCEPT !.by = t]
    /\ thread' = [thread EXCEPT ![t] = [pc |-> "waiting", of |-> request.n, clock |-> 0,
                     cutoff |-> request.cutoff, at |-> IF request.review THEN request.at ELSE 0]]
    /\ UNCHANGED <<minute, source, models, trials, building, admissions, abandoned,
                   lastFrozen, inOrder>>

\* start_to_close passes: the execution is not heard of any more, and runs on.
GiveUpExecution ==
    /\ request.pc = "open" /\ request.by # 0 /\ abandoned < MaxAbandoned
    /\ request' = [request EXCEPT !.by = 0]
    /\ abandoned' = abandoned + 1
    /\ UNCHANGED <<minute, source, models, trials, thread, building, admissions,
                   lastFrozen, inOrder>>

\* The attempts are used up, or the frozen batch is past its deadline: the
\* coordinator goes on to another batch, whatever executions still run.
DropBatch ==
    /\ request.pc = "open"
    /\ request' = [request EXCEPT !.by = 0, !.pc = "none"]
    /\ UNCHANGED <<minute, source, models, trials, thread, building, admissions,
                   abandoned, lastFrozen, inOrder>>

-----------------------------------------------------------------------------
(* The build, under its lock.                                              *)

\* Mutant of MayBuild: the builds of two threads overlap.
BuildsAtOnce(t) == TRUE

MayBuild(t) == building = 0

TakeLock(t) ==
    /\ thread[t].pc = "waiting" /\ MayBuild(t)
    /\ building' = t
    /\ thread' = [thread EXCEPT ![t].pc = "freeze"]
    /\ UNCHANGED <<minute, source, models, trials, request, admissions, abandoned,
                   lastFrozen, inOrder>>

\* What a packet is frozen for next, 0 when all are.
NextFreeze(w) == IF w.cutoff # 0 THEN w.cutoff ELSE w.at

\* _assessment_command: the packet is prepared as of its time, the tests of
\* the model before it are settled with it, and it is frozen again with them.
FreezePacket(t) ==
    LET asof == NextFreeze(thread[t])
    IN  /\ thread[t].pc = "freeze" /\ asof # 0
        /\ trials' = Recorded(Observed(LatestModel(asof), asof))
        /\ thread' = [thread EXCEPT ![t] =
                        IF @.cutoff # 0 THEN [@ EXCEPT !.cutoff = 0] ELSE [@ EXCEPT !.at = 0]]
        /\ inOrder' = (inOrder /\ asof >= lastFrozen)
        /\ lastFrozen' = Max({lastFrozen, asof})
        /\ UNCHANGED <<minute, source, models, request, building, admissions, abandoned>>

ExecutionEnds(t) ==
    /\ thread' = [thread EXCEPT ![t] = NoThread]
    /\ building' = IF building = t THEN 0 ELSE building

\* The workflow hears of the execution it waits for.
Hears(t, pc, after) ==
    request' = IF request.by = t
               THEN [request EXCEPT !.by = 0, !.pc = pc, !.after = after] ELSE request

\* An input is not there yet: the exact batch is kept and tried again.
InputMissing(t) ==
    /\ thread[t].pc = "freeze" /\ NextFreeze(thread[t]) # 0
    /\ abandoned < MaxAbandoned
    /\ abandoned' = abandoned + 1
    /\ ExecutionEnds(t) /\ Hears(t, "open", minute)
    /\ UNCHANGED <<minute, source, models, trials, admissions, lastFrozen, inOrder>>

\* submitted_at is read before the transaction of the admission.
ReadClock(t) ==
    /\ thread[t].pc = "freeze" /\ NextFreeze(thread[t]) = 0
    /\ thread' = [thread EXCEPT ![t].pc = "admit", ![t].clock = minute]
    /\ UNCHANGED <<minute, source, models, trials, request, building, admissions,
                   abandoned, lastFrozen, inOrder>>

\* The admissions no later than the request, whose interval has not passed.
TooSoonAfter(at) == {n \in DOMAIN admissions : admissions[n] <= at /\ at < admissions[n] + MinInterval}

\* admit_analysis_call: a batch admitted before is admitted as it was; one too
\* soon after another is deferred, and kept as it is frozen.  (record_batch
\* then keeps a row of the batch that nothing here reads.)
AdmitCall(t) ==
    LET w == thread[t]
    IN  /\ w.pc = "admit"
        /\ IF w.of \notin DOMAIN admissions /\ TooSoonAfter(w.clock) # {}
           THEN /\ Hears(t, "open", Max({admissions[n] : n \in TooSoonAfter(w.clock)}) + MinInterval)
                /\ UNCHANGED admissions
           ELSE /\ Hears(t, "analysis", 0)
                /\ admissions' = [n \in DOMAIN admissions \cup {w.of} |->
                     IF n \in DOMAIN admissions THEN admissions[n] ELSE w.clock]
        /\ ExecutionEnds(t)
        /\ UNCHANGED <<minute, source, models, trials, abandoned, lastFrozen, inOrder>>

\* The worker dies with its threads; the workflow starts the activity again.
WorkerDies ==
    /\ abandoned < MaxAbandoned /\ \E t \in 1..Threads : thread[t].pc # "off"
    /\ thread' = [t \in 1..Threads |-> NoThread] /\ building' = 0
    /\ request' = IF request.pc = "open" THEN [request EXCEPT !.by = 0] ELSE request
    /\ abandoned' = abandoned + 1
    /\ UNCHANGED <<minute, source, models, trials, admissions, lastFrozen, inOrder>>

DispatchNext ==
    \/ MinutePasses \/ AnalysisEnds \/ SubmitBatch \/ GiveUpExecution
    \/ DropBatch \/ WorkerDies
    \/ \E t \in 1..Threads :
        \/ ExecuteActivity(t) \/ TakeLock(t) \/ FreezePacket(t) \/ InputMissing(t)
        \/ ReadClock(t) \/ AdmitCall(t)

DispatchSpec == DispatchInit /\ [][DispatchNext]_dispatchVars

-----------------------------------------------------------------------------
DispatchTypeOK ==
    /\ minute \in 0..MaxMinute /\ trials \subseteq Trial
    /\ DOMAIN source = 1..minute
    /\ DOMAIN models \subseteq 1..MaxSubmitted
    /\ DOMAIN admissions \subseteq 1..MaxSubmitted
    /\ request.pc \in {"none", "open", "analysis"}
    /\ \A t \in 1..Threads : thread[t].pc \in {"off", "waiting", "freeze", "admit"}

\* Calls of two batches are at least the minimum interval apart, however
\* often an execution is given up, dies or is deferred
\* (scheduling/repository.py:176-229, trigger.py:593-606).
CallsAreSpaced ==
    \A m, n \in DOMAIN admissions :
        m # n => admissions[m] + MinInterval <= admissions[n]
                 \/ admissions[n] + MinInterval <= admissions[m]

\* The models whose mechanism this one continues, and itself.
Ancestors(m) == {a \in DOMAIN models : a <= m /\ \A b \in (a + 1)..m : models[b].continues = b - 1}

EarnedBy(o, match) ==
    {p.ref : p \in {q \in trials : /\ q.model \in Ancestors(o.model) /\ q.at <= o.at
                                   /\ q.match = match}}

\* A streak is earned: there are that many source observations, all different
\* and none later than the packet, that answered the test so; a batch that is
\* built again, after a crash, a time-out or a deferral, adds nothing to it.
Earned ==
    \A o \in trials : /\ Cardinality(EarnedBy(o, "supports")) >= o.support
                      /\ Cardinality(EarnedBy(o, "contradicts")) >= o.contra

\* As long as packets are frozen in the order of their times
\* (verification.py:32-163, repository.py:130-214).
StreaksAreEarned == inOrder => Earned
-----------------------------------------------------------------------------
(* Why calls are spaced: the inductive invariant.                          *)

ThreadRow  == [pc : {"off", "waiting", "freeze", "admit"}, of : Nat, at : Nat,
               cutoff : Nat, clock : Nat]
RequestRow == [n : Nat, at : Nat, cutoff : Nat, review : BOOLEAN,
               pc : {"none", "open", "analysis"}, by : Nat, after : Nat]

\* Who freezes or asks to be admitted holds the lock, and nobody else does.
LockIsHeld == \A t \in 1..Threads : thread[t].pc \in {"freeze", "admit"} <=> building = t

\* No call was admitted later than the clock a thread read under the lock.
ClockIsLatest ==
    /\ \A n \in DOMAIN admissions : admissions[n] \in Nat /\ admissions[n] <= minute
    /\ \A t \in 1..Threads : thread[t].pc = "admit" =>
          \A n \in DOMAIN admissions : admissions[n] <= thread[t].clock

SpacingInvariant ==
    /\ minute \in Nat /\ building \in Nat /\ request \in RequestRow
    /\ thread \in [1..Threads -> ThreadRow]
    /\ \A t \in 1..Threads : thread[t].clock <= minute
    /\ LockIsHeld /\ ClockIsLatest /\ CallsAreSpaced

-----------------------------------------------------------------------------
(* Why streaks are earned: the inductive invariant.                        *)

\* World models are numbered in turn, each continues the one before it or
\* none, and none came later than the batch at hand was frozen.
ModelsAreInTurn ==
    /\ \E n \in {0} \cup DOMAIN models : n \in Nat /\ DOMAIN models = 1..n
    /\ \A m \in DOMAIN models :
          /\ models[m].at \in Nat /\ models[m].continues \in {0, m - 1}
          /\ models[m].at <= minute
          /\ request.pc # "none" => models[m].at <= request.at

\* No batch and no execution is of a time to come, and only an open batch has
\* an execution the workflow waits for.
BatchIsOfThePast ==
    /\ request.by # 0 => request.pc = "open"
    /\ request.at <= minute /\ request.cutoff <= minute
    /\ \A t \in 1..Threads : thread[t].at <= minute /\ thread[t].cutoff <= minute

\* Every observation is the latest the source had by the packet's time.
TrialsAreObserved ==
    \A o \in trials :
        /\ o.model \in DOMAIN models /\ o.at \in Nat /\ o.at <= minute
        /\ o.ref = FeatureRef(o.at) /\ o.support \in Nat /\ o.contra \in Nat

StreakInvariant ==
    /\ DOMAIN source = 1..minute /\ lastFrozen \in Nat
    /\ ModelsAreInTurn /\ BatchIsOfThePast /\ TrialsAreObserved
    /\ inOrder => \A o \in trials : o.at <= lastFrozen
    /\ StreaksAreEarned
=============================================================================
