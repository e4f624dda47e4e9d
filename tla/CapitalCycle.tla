------------------------------ MODULE CapitalCycle ------------------------------
(* One trigger batch after another through CapitalTriggerConsumer and       *)
(* CapitalCycleService (decision_cycle/capital.py), PortfolioDecisionPipeline *)
(* and TradePlanExecutionPipeline (decision_cycle/portfolio.py).            *)
(*                                                                          *)
(* Every database transaction is a step, and between any two of them the    *)
(* activity may die and be retried with the same batch.  Attempts do not    *)
(* overlap: _build_lock and the single writer keep them in sequence.        *)
(* A record that exists already is kept if the attempt reproduces it and    *)
(* refused if not; what an attempt decides is chosen anew, so both happen.  *)
(* The policy is enabled, equity is positive and sources are configured.    *)
EXTENDS CapitalLedger

CONSTANT MaxAttempts  \* bound: attempts of one batch that die

ASSUME AttemptsAssumption == MaxAttempts \in Nat

VARIABLES
    pc,          \* next transaction of the attempt, or how the batch stands
    batch,       \* created_at of the batch; 0 before the first
    attempts,    \* attempts of this batch that died
    run,         \* what the attempt holds in memory
    interrupted  \* history: an attempt died between the start of a group and
                 \* the account that shows it

cycleVars == <<pc, batch, attempts, run, interrupted>>
vars == <<ledgerVars, cycleVars>>

Running == {"choose", "read", "recover", "account", "measure", "protect", "decide", "risk",
            "plan", "start", "execute", "project", "remeasure", "finish"}
Ended == {"done", "frozen", "rejected", "dropped"}

RunRecord == [mode      : {"none", "produce", "review", "replay"},
              asOf      : Time,
              cycle     : Cycles \cup {NoCycle},
              panel     : {0} \cup Panels,  \* generated_forecasts
              already   : BOOLEAN,          \* forecast_already_decided
              recovered : BOOLEAN,
              account   : Nat,
              by        : {"NONE", "target", "review"},  \* authority of the result
              executed  : BOOLEAN]

NoRun == [mode |-> "none", asOf |-> 0, cycle |-> NoCycle, panel |-> 0, already |-> FALSE,
          recovered |-> FALSE, account |-> 0, by |-> "NONE", executed |-> FALSE]

Init ==
    /\ LedgerInit
    /\ pc = "idle" /\ batch = 0 /\ attempts = 0 /\ run = NoRun /\ interrupted = FALSE

Goto(next, r) ==
    /\ pc' = next
    /\ run' = r
    /\ UNCHANGED <<batch, attempts, interrupted>>

\* A ValueError: PermanentDomainError, the batch is consumed.
Reject == Goto("rejected", NoRun)

Publish ==
    /\ \E p \in Panels, at \in {batch, batch + 1} : PublishAt(p, at)
    /\ UNCHANGED cycleVars

-----------------------------------------------------------------------------
(* Batches and attempts.                                                    *)

NewBatch ==
    /\ pc \in {"idle"} \cup Ended
    /\ \E t \in batch + 1 .. MaxTime : batch' = t
    /\ pc' = "choose" /\ attempts' = 0 /\ run' = NoRun
    /\ UNCHANGED <<ledgerVars, interrupted>>

\* The same batch again: an input was missing, or a call after this consumer
\* was deferred.
Rerun ==
    /\ pc \in {"done", "frozen"}
    /\ Goto("choose", NoRun)
    /\ UNCHANGED ledgerVars

\* The transactions from the first that writes.
Writing == Running \ {"choose", "read", "recover"}

\* The worker dies or the activity times out; it is retried, up to a limit.
\* Before the first write it is as if the attempt had not begun.
Interrupt ==
    /\ pc \in Writing
    /\ pc' = IF attempts < MaxAttempts THEN "choose" ELSE "dropped"
    /\ attempts' = IF attempts < MaxAttempts THEN attempts + 1 ELSE attempts
    /\ run' = NoRun
    /\ interrupted' = (interrupted \/ pc \in {"execute", "project"})
    /\ UNCHANGED <<ledgerVars, batch>>

\* A quote that the account, the candidates or the holdings need is missing.
NeedsQuotes ==
    \/ /\ pc = "account"
       /\ \/ run.cycle \in PanelCycles
          \/ run.recovered
          \/ Position(LatestAccount(run.asOf)) # 0
    \/ pc = "decide" /\ run.cycle \in PanelCycles
    \/ pc = "protect"

InputUnavailable ==
    /\ NeedsQuotes
    /\ Goto("frozen", NoRun)
    /\ UNCHANGED ledgerVars

-----------------------------------------------------------------------------
(* Which way the batch goes.                                                *)

\* CapitalTriggerConsumer.consume, for its owner's symbol: produce while the
\* newest panel lacks a terminal disposition, review otherwise.
Choose ==
    /\ pc = "choose"
    /\ LET p == NewestPanel(batch)
       IN  Goto("read", [run EXCEPT !.asOf = batch,
                                    !.mode = IF p # 0 /\ ~Disposed(PanelCycle(p))
                                             THEN "produce" ELSE "review"])
    /\ UNCHANGED ledgerVars

\* _observe as of t.
Observe(r, t) == Goto("recover", [r EXCEPT !.asOf = t, !.cycle = WatchCycle(t)])

\* _recorded_result: the cause has its receipt.
Replay ==
    /\ pc = "read" /\ receipts[batch] # NoReceipt
    /\ LET c == receipts[batch].target
       IN  IF c = NoCycle THEN Goto("done", NoRun)
           ELSE IF ~Complete(c) THEN Reject
           ELSE IF Settled(c) THEN Goto("done", NoRun)
           ELSE Observe([run EXCEPT !.mode = "replay"], targets[c].asOf)
    /\ UNCHANGED ledgerVars

Review ==
    /\ pc = "read" /\ run.mode = "review" /\ receipts[batch] = NoReceipt
    /\ Observe(run, batch)
    /\ UNCHANGED ledgerVars

\* produce: the panel is read again; a complete chain is not decided again.
Produce ==
    /\ pc = "read" /\ run.mode = "produce" /\ receipts[batch] = NoReceipt
    /\ LET p == NewestPanel(batch)
           c == PanelCycle(p)
           r == [run EXCEPT !.panel = p, !.cycle = c, !.already = Complete(c)]
       IN  IF ~Complete(c) THEN Goto("recover", r)
           ELSE IF batch <= targets[c].asOf /\ Settled(c)
                THEN Goto("finish", [r EXCEPT !.by = "target"])
           ELSE Observe(r, batch)
    /\ UNCHANGED ledgerVars

-----------------------------------------------------------------------------
(* The account the cycle works on.                                          *)

NothingToRecover ==
    /\ pc = "recover" /\ OpenAt(run.asOf) = {}
    /\ Goto("account", run)
    /\ UNCHANGED ledgerVars

\* recover_pending: every visible group that has not ended is advanced.
Recover ==
    /\ pc = "recover"
    /\ \E c \in OpenAt(run.asOf) :
        \/ /\ run.asOf < groups[c].updated
           /\ Reject
           /\ UNCHANGED venueVars
        \/ /\ run.asOf >= groups[c].updated
           /\ Advance(c, run.asOf)
           /\ Goto("account", [run EXCEPT !.recovered = TRUE])
    /\ UNCHANGED <<published, accounts, measured, chainVars, receipts>>

Backdated(t) == HeadAccount > 0 /\ accounts[HeadAccount].asOf > t

\* The ledgers are projected at the cycle's instant and appended, unless a
\* sleeve stands against its direction.
Project(c, next) ==
    \E a \in Projections(run.asOf, c) :
        IF a.position < 0 THEN Reject /\ UNCHANGED accounts
        ELSE /\ accounts' = Append(accounts, a)
             /\ Goto(next, [run EXCEPT !.account = HeadAccount + 1])

\* _account: a head of the same instant is reused, a later one refuses.
Account ==
    /\ pc = "account"
    /\ \/ /\ Backdated(run.asOf)
          /\ Reject
          /\ UNCHANGED accounts
       \/ /\ HeadAccount > 0 /\ accounts[HeadAccount].asOf = run.asOf
          /\ Goto("measure", [run EXCEPT !.account = HeadAccount])
          /\ UNCHANGED accounts
       \/ /\ ~Backdated(run.asOf)
          /\ HeadAccount > 0 => accounts[HeadAccount].asOf # run.asOf
          /\ Project(NoCycle, "measure")
    /\ UNCHANGED <<published, measured, chainVars, venueVars, receipts>>

\* How the call goes on when nothing is to be executed, or all of it was.
\* A review that changed nothing of an empty account leaves no receipt.
Conclude(r) ==
    IF r.mode = "replay" THEN Goto("done", NoRun)
    ELSE IF r.mode = "review" /\ r.by = "NONE" /\ Position(LatestAccount(batch)) = 0
         THEN Goto("done", NoRun)
    ELSE Goto("finish", r)

\* The account's interval; then produce decides, an observation without
\* holdings ends and one with holdings is reviewed.
Measure ==
    /\ pc = "measure"
    /\ IF ~Measurable(run.account) THEN Reject /\ UNCHANGED measured
       ELSE /\ measured' = MeasuredBy(run.account)
            /\ IF run.cycle \in PanelCycles THEN Goto("decide", run)
               ELSE IF Position(run.account) = 0 THEN Conclude(run)
               ELSE Goto("protect", run)
    /\ UNCHANGED <<published, accounts, chainVars, venueVars, receipts>>

-----------------------------------------------------------------------------
(* The decision: a holding review, or target, risk decision and plan.       *)

\* protect: a pending account defers, and nothing else does, as quotes are
\* fresh and aligned and a projected account is reconciled.  A HOLD whose
\* forecast has lapsed goes on to a reduce-only decision.
Protect ==
    /\ pc = "protect"
    /\ \E outcome \in IF accounts[run.account].pending THEN {"DEFER"} ELSE {"HOLD", "EXIT"} :
        IF accounts[run.account].review \notin {"NONE", outcome}
        THEN Reject /\ UNCHANGED accounts
        ELSE /\ accounts' = [accounts EXCEPT ![run.account].review = outcome]
             /\ \/ outcome = "EXIT" /\ Goto("plan", [run EXCEPT !.by = "review"])
                \/ outcome = "HOLD" /\ Goto("decide", run)
                \/ outcome # "EXIT" /\ Conclude(run)
    /\ UNCHANGED <<published, measured, chainVars, venueVars, receipts>>

\* Inputs of an observation carry no new capital.
MayDesire(c, desired, position) == c \in PanelCycles \/ desired <= position

\* record_target: cycle_id is unique and what is stored stays.
SameTarget(c, target) == targets[c] \in {NoTarget, target}

Decide ==
    /\ pc = "decide"
    /\ \E desired \in {0, 1} :
        LET c == run.cycle
            target == [asOf |-> run.asOf, account |-> run.account, desired |-> desired]
        IN  /\ MayDesire(c, desired, Position(run.account))
            /\ IF SameTarget(c, target)
               THEN /\ targets' = [targets EXCEPT ![c] = IF @ = NoTarget THEN target ELSE @]
                    /\ Goto("risk", [run EXCEPT !.by = "target"])
               ELSE Reject /\ UNCHANGED targets
    /\ UNCHANGED <<published, accounts, measured, approved, plans, venueVars, receipts>>

\* evaluate: no more than desired, and no new risk on a pending account.  A
\* target is valid beyond its as_of, so some amount is always approved.
Risk ==
    /\ pc = "risk"
    /\ \E amount \in 0 .. targets[run.cycle].desired :
        /\ accounts[run.account].pending => amount <= Position(run.account)
        /\ IF approved[run.cycle] \in {Undecided, amount}
           THEN approved' = [approved EXCEPT ![run.cycle] = amount] /\ Goto("plan", run)
           ELSE Reject /\ UNCHANGED approved
    /\ UNCHANGED <<published, accounts, measured, targets, plans, venueVars, receipts>>

\* Mutant: a pending group does not omit the sleeve.
TradesUnreconciled(account, delta) == {0, delta}

\* TradePlanner.plan: the change, or nothing when a group is pending or a
\* quantity falls short of its step.
Trades(account, delta) == IF account.pending THEN {0} ELSE {0, delta}

Plan ==
    /\ pc = "plan"
    /\ LET c == run.cycle
           want == IF run.by = "review" THEN 0 ELSE approved[c]
       IN  \E trade \in Trades(accounts[run.account], want - Position(run.account)) :
            LET plan == [by |-> run.by, account |-> run.account, trade |-> trade]
            IN  IF plans[c] \notin {NoPlan, plan} THEN Reject /\ UNCHANGED plans
                ELSE /\ plans' = [plans EXCEPT ![c] = plan]
                     /\ IF trade = 0 THEN Conclude(run) ELSE Goto("start", run)
    /\ UNCHANGED <<published, accounts, measured, targets, approved, venueVars, receipts>>

-----------------------------------------------------------------------------
(* TradePlanExecutionPipeline.run.                                          *)

\* A sleeve has one open group.
Start ==
    /\ pc = "start"
    /\ LET c == run.cycle
       IN  \/ groups[c] # NoGroup /\ Goto("execute", run) /\ UNCHANGED groups
           \/ /\ groups[c] = NoGroup
              /\ \E other \in Cycles : groups[other].status = "OPEN"
              /\ Reject
              /\ UNCHANGED groups
           \/ /\ groups[c] = NoGroup
              /\ \A other \in Cycles : groups[other].status # "OPEN"
              /\ groups' = [groups EXCEPT ![c] = [status |-> "OPEN", advances |-> 0,
                                                  started |-> run.asOf, updated |-> run.asOf]]
              /\ Goto("execute", run)
    /\ UNCHANGED <<published, accounts, measured, chainVars, exposure, receipts>>

\* run_once: an ended group stays as it is.
Execute ==
    /\ pc = "execute"
    /\ LET group == groups[run.cycle]
       IN  IF group.status = "OPEN" /\ run.asOf >= group.updated
           THEN Advance(run.cycle, run.asOf) /\ Goto("project", run)
           ELSE /\ IF group.status = "OPEN" THEN Reject ELSE Goto("project", run)
                /\ UNCHANGED venueVars
    /\ UNCHANGED <<published, accounts, measured, chainVars, receipts>>

\* The account after execution, once for each content of the groups.
ProjectExecution ==
    /\ pc = "project"
    /\ LET reused == ExecutionAccounts(run.cycle, run.asOf)
       IN  IF reused = {} THEN Project(run.cycle, "remeasure")
           ELSE /\ \E i \in reused : Goto("remeasure", [run EXCEPT !.account = i])
                /\ UNCHANGED accounts
    /\ UNCHANGED <<published, measured, chainVars, venueVars, receipts>>

Remeasure ==
    /\ pc = "remeasure"
    /\ IF ~Measurable(run.account) THEN Reject /\ UNCHANGED measured
       ELSE /\ measured' = MeasuredBy(run.account)
            /\ IF run.mode = "replay" THEN Goto("done", NoRun)
               ELSE Goto("finish", [run EXCEPT !.executed = TRUE])
    /\ UNCHANGED <<published, accounts, chainVars, venueVars, receipts>>

-----------------------------------------------------------------------------
(* _finish: the receipt of the cause.                                       *)

\* The cycle whose target the receipt names.  An executed plan names the
\* target of its cycle before its authority.
Decided(r) ==
    IF r.executed /\ targets[r.cycle] # NoTarget THEN r.cycle
    ELSE IF r.by = "target" THEN r.cycle
    ELSE IF ~r.executed /\ r.panel # 0 /\ targets[PanelCycle(r.panel)] # NoTarget
         THEN PanelCycle(r.panel)
    ELSE NoCycle

\* Mutant: the receipt does not tell a decision from its repetition.
OutcomeAsDecided(r, account) ==
    IF r.by = "review" THEN "RISK_EXIT" ELSE "TARGET_DECIDED"

ReceiptOutcome(r, account) ==
    IF r.by = "review" /\ ~(r.executed /\ targets[r.cycle] # NoTarget) THEN "RISK_EXIT"
    ELSE IF Decided(r) # NoCycle
         THEN IF r.already THEN "FORECAST_ALREADY_DECIDED" ELSE "TARGET_DECIDED"
    ELSE IF Position(account) # 0 THEN "HOLD" ELSE "CASH"

Finish ==
    /\ pc = "finish"
    /\ LET account == LatestAccount(batch)
           outcome == ReceiptOutcome(run, account)
           target == IF outcome = "RISK_EXIT" THEN NoCycle ELSE Decided(run)
       IN  IF account = 0 \/ (run.panel # 0 /\ target \notin {NoCycle, PanelCycle(run.panel)})
           THEN Reject /\ UNCHANGED receipts
           ELSE /\ receipts' = [receipts EXCEPT ![batch] =
                                [outcome |-> outcome, target |-> target, account |-> account]]
                /\ Goto("done", NoRun)
    /\ UNCHANGED <<published, accounts, measured, chainVars, venueVars>>

Attempt ==
    \/ Choose \/ Replay \/ Review \/ Produce
    \/ NothingToRecover \/ Recover \/ Account \/ Measure
    \/ Protect \/ Decide \/ Risk \/ Plan
    \/ Start \/ Execute \/ ProjectExecution \/ Remeasure \/ Finish

Next ==
    \/ Publish \/ NewBatch \/ Rerun \/ Interrupt \/ InputUnavailable
    \/ Attempt

Spec == Init /\ [][Next]_vars

-----------------------------------------------------------------------------
(* Properties.                                                              *)

\* Types of the ledgers and of the attempt in progress.
TypeOK ==
    /\ LedgerTypeOK
    /\ pc \in {"idle"} \cup Running \cup Ended
    /\ batch \in Time
    /\ attempts \in 0 .. MaxAttempts
    /\ run \in RunRecord
    /\ interrupted \in BOOLEAN
\* What was bought in all stays a position the sleeve may hold, over retries,
\* open groups and new panels, unless an attempt died in the execution itself:
\* no plan is traded twice and none trades on a position another one changes.
InRangeUnlessInterrupted == ~interrupted => exposure \in {0, 1}

\* No target rests on an account that performance does not reach yet.
DecidedOnMeasured ==
    \A c \in Cycles : targets[c] # NoTarget => targets[c].account <= measured

\* The account ledger never goes back in time, also when a retry observes at
\* the instant of an older target.
AccountsInOrder ==
    \A i, j \in 1 .. HeadAccount : i < j => accounts[i].asOf <= accounts[j].asOf

\* A group under the authority of a target starts at the instant of that
\* target: a retry of another batch cannot execute an old decision as new.
StartedWhenDecided ==
    \A c \in Cycles :
        groups[c] # NoGroup /\ plans[c].by = "target" => groups[c].started = targets[c].asOf

\* A position is only entered for a forecast panel that is alive when its
\* group starts, and never for the cycle of an observation.
EnterOnlyOnLivePanel ==
    \A c \in Cycles :
        groups[c] # NoGroup /\ plans[c].trade > 0 =>
            /\ c \in PanelCycles
            /\ published[c[2]] <= groups[c].started
            /\ groups[c].started < published[c[2]] + PanelLife

\* A target is decided for one cause; every other receipt that names it says
\* that it was decided already.
OneDecisionReceipt ==
    \A c \in Cycles :
        Cardinality({t \in Time : /\ receipts[t].target = c /\ c # NoCycle
                                  /\ receipts[t].outcome = "TARGET_DECIDED"}) <= 1

\* decision_cycle/capital.py:143 calls the service "one idempotent
\* point-in-time capital decision and persistent execution": a retried batch
\* buys or sells nothing twice.
ExecutionIsIdempotent == exposure \in {0, 1}

\* docs/ARCHITECTURE.md:391 excludes that a retry, with forecast, target and
\* account recorded, cannot complete the one receipt: when a batch is done,
\* the target it decided has a receipt.
DecisionGetsReceipt ==
    pc = "done" =>
        \A c \in Cycles : targets[c].asOf = batch =>
            \E t \in Time : receipts[t].target = c

-----------------------------------------------------------------------------
(* The inductive invariant behind these properties, part by part.           *)

Newest == accounts[HeadAccount]
Begun(c) == groups[c].status # "NONE"

\* Snapshots are in order and hold nothing short; one that follows a plan
\* has seen no more of its group than there is.  Intervals reach every
\* snapshot that a target was decided on.
LedgerInOrder ==
    /\ AccountsInOrder
    /\ \A i \in 1 .. HeadAccount :
        /\ accounts[i].position >= 0
        /\ accounts[i].of # NoCycle => accounts[i].advances <= groups[accounts[i].of].advances
    /\ DecidedOnMeasured
    /\ \A c \in Cycles : targets[c] # NoTarget => targets[c].asOf \in Time

\* A group carries out a plan, no later than the newest account; one group
\* is open at a time.
GroupsInOrder ==
    /\ \A c \in Cycles :
        /\ ~Begun(c) => groups[c] = NoGroup
        /\ groups[c].status = "OPEN" => groups[c].advances <= MaxAdvances
        /\ Begun(c) =>
            /\ plans[c].by # "NONE"
            /\ HeadAccount > 0 /\ groups[c].started <= Newest.asOf
            /\ plans[c].by = "target" =>
                targets[c] # NoTarget /\ groups[c].started = targets[c].asOf
            /\ plans[c].trade > 0 =>
                \E p \in ActivePanels(groups[c].started) : c = PanelCycle(p)
    /\ \A c, d \in Cycles : groups[c].status = "OPEN" /\ groups[d].status = "OPEN" => c = d

\* Between the account and the execution the attempt holds the newest one.
WithAccount == {"measure", "protect", "decide", "risk", "plan", "start", "execute", "project"}

RunInOrder ==
    /\ pc = "choose" => run = NoRun
    /\ pc = "read" => /\ run.mode \in {"produce", "review"} /\ run.panel = 0
                      /\ run.asOf = batch /\ run.by = "NONE" /\ ~run.executed
                      /\ run.mode = "produce" => ActivePanels(batch) # {}
    /\ pc \in Running \ {"choose", "read"} =>
        /\ run.mode # "replay" => run.asOf = batch
        /\ \/ run.cycle = WatchCycle(run.asOf)
           \/ /\ run.panel \in ActivePanels(batch) /\ run.cycle = PanelCycle(run.panel)
              /\ run.mode = "produce"
        /\ run.panel # 0 => run.panel \in Panels
                            /\ (run.already \/ run.cycle = PanelCycle(run.panel))
    /\ pc = "finish" => run.mode # "replay"
    /\ pc \in WithAccount =>
        HeadAccount > 0 /\ run.account = HeadAccount /\ Newest.asOf = run.asOf
    /\ pc \in {"protect", "decide"} => run.account <= measured
    /\ pc \in {"recover", "account", "measure", "protect"} => run.by = "NONE" /\ ~run.executed
    /\ pc = "protect" => run.cycle \notin PanelCycles

\* The receipts that say a target was decided: it is complete by then.
Decides(t, c) ==
    c # NoCycle /\ receipts[t].target = c /\ receipts[t].outcome = "TARGET_DECIDED"

ReceiptsInOrder ==
    /\ \A t \in Time, c \in Cycles : Decides(t, c) =>
        IF c \in PanelCycles THEN Complete(c) ELSE c = WatchCycle(t)
    /\ \A t, u \in Time, c \in Cycles : Decides(t, c) /\ Decides(u, c) => t = u

\* What the attempt has decided so far: the target of its own account, what
\* Risk left of it, and the trade from there.  A panel it found undecided has
\* no receipt.
Want == IF run.by = "review" THEN 0 ELSE approved[run.cycle]

OwnTarget ==
    /\ run.by = "target"
    /\ targets[run.cycle] # NoTarget
    /\ targets[run.cycle].asOf = run.asOf
    /\ MayDesire(run.cycle, targets[run.cycle].desired, Position(run.account))

ChainSoFar ==
    /\ pc = "risk" => OwnTarget
    /\ pc \in {"plan", "start"} =>
        \/ run.by = "review" /\ run.cycle \notin PanelCycles
        \/ OwnTarget /\ approved[run.cycle] \in 0 .. targets[run.cycle].desired
    /\ pc = "start" =>
        plans[run.cycle] = [by |-> run.by, account |-> run.account,
                            trade |-> Want - Position(run.account)] /\ ~Newest.pending
    /\ pc \in {"execute", "project", "remeasure"} =>
        Begun(run.cycle) /\ (run.cycle \in PanelCycles => Complete(run.cycle))
    /\ pc = "finish" /\ run.cycle \in PanelCycles => Complete(run.cycle)
    /\ pc \in Running \ {"choose", "read"} /\ run.panel # 0 /\ ~run.already =>
        \A t \in Time : ~Decides(t, PanelCycle(run.panel))

\* While no attempt died in an execution: the newest account, unless a group
\* was pending then, tells what the sleeve holds, also when it is reused; an
\* open group leaves the sleeve in range however it ends.
NewestIsTrue ==
    /\ Newest.position = exposure
    /\ \A c \in Cycles : groups[c].status # "OPEN"

ExposureIsKnown ==
    ~interrupted =>
        /\ exposure \in {0, 1}
        /\ \A c \in Cycles :
            groups[c].status = "OPEN" => exposure + plans[c].trade \in {0, 1}
        /\ HeadAccount > 0 /\ ~Newest.pending /\ pc \notin {"execute", "project"} => NewestIsTrue
        /\ pc = "execute" =>
            \/ NewestIsTrue
            \/ groups[run.cycle].status = "OPEN" /\ groups[run.cycle].updated = run.asOf
        /\ pc = "project" =>
            NewestIsTrue \/ ExecutionAccounts(run.cycle, run.asOf) = {}

CapitalInvariant ==
    /\ TypeOK /\ LedgerInOrder /\ GroupsInOrder /\ ReceiptsInOrder
    /\ RunInOrder /\ ChainSoFar /\ ExposureIsKnown
=============================================================================
