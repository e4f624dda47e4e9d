--------------------------- MODULE ExecutionGroup ---------------------------
(* The one-step reconciler of a multi-leg execution group                   *)
(* (execution/group/engine.py) over its optimistic store                    *)
(* (execution/group/repository.py) and an order venue.                      *)
(*                                                                          *)
(* A runner is one call of run_once: it reads the group, talks to the venue *)
(* leg by leg, and saves at fixed points with the revision it last knew.    *)
(* Every venue call and every save is a step of its own, so a crash, a fill *)
(* or another runner can fall between any two of them.  A runner that dies  *)
(* leaves only what it has saved, submitted and recorded.                   *)
EXTENDS ProductVenue

CONSTANTS Runners,   \* concurrent callers of run_once
          MaxFaults  \* bound: lost responses and crashes in a behaviour

ASSUME FaultsAssumption == MaxFaults \in Nat

VARIABLES
    group,   \* the stored group
    run,     \* run[r]: the call in progress of runner r
    clock,   \* the as_of of a call that starts now
    faults   \* number of faults so far

vars == <<order, position, ledger, group, run, clock, faults>>

PCs == {"idle", "sync", "submit", "requery", "stop", "cancel", "recheck",
        "reverse", "flat"}

(* base is the group as the runner last read or saved it, draft the one it  *)
(* is working on, todo the legs still to reconcile, calling the leg whose   *)
(* venue call is unfinished.  behind counts the saves of other runners      *)
(* since base, up to 2: the store's revision is base's plus behind.         *)
RunRecord == [pc      : PCs,
              role    : Roles,
              asOf    : Time,
              base    : GroupRecord,
              draft   : GroupRecord,
              todo    : SUBSET Legs,
              calling : SUBSET Legs,
              behind  : 0 .. 2]

IdleRun == [pc |-> "idle", role |-> "TARGET", asOf |-> 0, base |-> NoGroup,
            draft |-> NoGroup, todo |-> {}, calling |-> {}, behind |-> 0]

Init ==
    /\ VenueInit
    /\ group = NoGroup
    /\ run = [r \in Runners |-> IdleRun]
    /\ clock = 0
    /\ faults = 0

Fault == faults < MaxFaults /\ faults' = faults + 1

-----------------------------------------------------------------------------
(* The store.                                                               *)

\* start: the first caller freezes the group of a plan that has not expired.
StartGroup ==
    /\ group.status = "NONE"
    /\ clock < ValidUntil
    /\ group' = NewGroup(clock)
    /\ UNCHANGED <<order, position, ledger, run, clock, faults>>

Overtaken(rn) ==
    IF rn.pc = "idle" THEN rn
    ELSE [rn EXCEPT !.behind = IF @ = 2 THEN 2 ELSE @ + 1]

Legal(updated) == SelfConsistent(updated) /\ ValidTransition(group, updated)

(* save: replaces the stored group if nobody saved since the runner's base, *)
(* succeeds without effect if the same value is already stored, and aborts  *)
(* the call otherwise.  Runner r goes on as next.                           *)
Save(r, updated, next) ==
    IF run[r].behind = 0 /\ Legal(updated)
    THEN /\ group' = updated
         /\ run' = [s \in Runners |-> IF s = r THEN next ELSE Overtaken(run[s])]
    ELSE /\ group' = group
         /\ run' = [run EXCEPT ![r] = IF run[r].behind = 1 /\ group = updated
                                      THEN next ELSE IdleRun]

\* _save without a change: the call goes on without touching the store.
Keep(r, next) ==
    /\ group' = group
    /\ run' = [run EXCEPT ![r] = next]

\* The call continues at pc from group value g, with legs todo of role.
GoOn(rn, g, pc, role, todo, behind) ==
    [rn EXCEPT !.pc = pc, !.role = role, !.base = g, !.draft = g,
               !.todo = todo, !.calling = {}, !.behind = behind]

\* Mutant: legs that have ended are reconciled again.
Existing(g, role) == {l \in Legs : g.legs[role][l].status # "NONE"}

Unfinished(g, role) == {l \in Legs : Live(g.legs[role][l])}

Sync(rn, g, role, behind) == GoOn(rn, g, "sync", role, Unfinished(g, role), behind)
Stop(rn, g, behind) == GoOn(rn, g, "stop", "TARGET", Unfinished(g, "TARGET"), behind)

\* run_once reads the group; a terminal group is returned as it is.
StartRun(r) ==
    /\ run[r].pc = "idle"
    /\ group.status \in RunningGroup
    /\ clock >= group.updated
    /\ LET rn == [run[r] EXCEPT !.asOf = clock]
       IN  run' = [run EXCEPT ![r] = IF group.status = "COMPENSATING"
                                     THEN Stop(rn, group, 0)
                                     ELSE Sync(rn, group, "TARGET", 0)]
    /\ UNCHANGED <<order, position, ledger, group, clock, faults>>

-----------------------------------------------------------------------------
(* Venue calls.                                                             *)

Leg(rn, l) == rn.draft.legs[rn.role][l]

\* The venue's order for the leg in hand.
OrderOf(rn, l) == order[l][Leg(rn, l).attempt]

\* Mutant: reversals too are submitted only while the plan is valid.
AllowSubmitWhileValid(rn) == rn.asOf < ValidUntil

\* as_of < valid_until for targets, always for compensations.
AllowSubmit(rn) == rn.role = "COMPENSATION" \/ rn.asOf < ValidUntil

\* Mutant: the fill is taken as a difference, the wrong way round.
FromOrderDelta(leg, o) == [leg EXCEPT !.status = o.status, !.filled = @ - o.filled]

\* execution_leg_from_order
FromOrder(leg, o) == [leg EXCEPT !.status = o.status, !.filled = o.filled]

WithLegStatus(leg, status) == [leg EXCEPT !.status = status]

\* Leg l is done for this pass: it becomes leg and the pass goes on at pc.
Settled(rn, l, leg, pc) ==
    [rn EXCEPT !.pc = pc, !.draft.legs[rn.role][l] = leg,
               !.todo = @ \ {l}, !.calling = {}]

Settle(r, l, leg, pc) == run' = [run EXCEPT ![r] = Settled(run[r], l, leg, pc)]

\* The order is recorded in the ledger, then applied to the leg.
Observe(r, l, o, pc) ==
    /\ ledger' = Recorded(l, Leg(run[r], l).attempt, o, run[r].asOf)
    /\ Settle(r, l, FromOrder(Leg(run[r], l), o), pc)

Call(r, l, pc) == run' = [run EXCEPT ![r].pc = pc, ![r].calling = {l}]

\* _sync_leg: query
QueryLost(r, l) ==
    /\ run[r].pc = "sync"
    /\ l \in run[r].todo
    /\ Fault
    /\ Settle(r, l, WithLegStatus(Leg(run[r], l), "UNKNOWN"), "sync")
    /\ UNCHANGED <<order, position, ledger, group, clock>>

QueryFound(r, l) ==
    /\ run[r].pc = "sync"
    /\ l \in run[r].todo
    /\ OrderOf(run[r], l).status # "NONE"
    /\ Observe(r, l, OrderOf(run[r], l), "sync")
    /\ UNCHANGED <<order, position, group, clock, faults>>

QueryMissing(r, l) ==
    /\ run[r].pc = "sync"
    /\ l \in run[r].todo
    /\ OrderOf(run[r], l).status = "NONE"
    /\ IF AllowSubmit(run[r])
       THEN Call(r, l, "submit")
       ELSE Settle(r, l, WithLegStatus(Leg(run[r], l),
                           IF Leg(run[r], l).status = "PENDING"
                           THEN "EXPIRED" ELSE "UNKNOWN"), "sync")
    /\ UNCHANGED <<order, position, ledger, group, clock, faults>>

\* Mutant: the client id is not honoured, a resubmission is a new order.
SubmitAnew(rn, l) == SubmitOutcomes(Leg(rn, l).attempt, Leg(rn, l).requested)

\* An order the venue already has for this client id is returned unchanged.
SubmitResults(rn, l) ==
    IF OrderOf(rn, l).status # "NONE"
    THEN {OrderOf(rn, l)}
    ELSE SubmitOutcomes(Leg(rn, l).attempt, Leg(rn, l).requested)

\* submit answers
Submit(r, l) ==
    /\ run[r].pc = "submit"
    /\ l \in run[r].calling
    /\ \E o \in SubmitResults(run[r], l) :
          /\ SetOrder(l, Leg(run[r], l).attempt, o)
          /\ Observe(r, l, o, "sync")
    /\ UNCHANGED <<group, clock, faults>>

\* the response is lost after the venue accepted the order
SubmitAcceptedLost(r, l) ==
    /\ run[r].pc = "submit"
    /\ l \in run[r].calling
    /\ Fault
    /\ \E o \in SubmitResults(run[r], l) : SetOrder(l, Leg(run[r], l).attempt, o)
    /\ Call(r, l, "requery")
    /\ UNCHANGED <<ledger, group, clock>>

\* the request is lost before the venue accepted the order
SubmitNeverArrived(r, l) ==
    /\ run[r].pc = "submit"
    /\ l \in run[r].calling
    /\ Fault
    /\ Call(r, l, "requery")
    /\ UNCHANGED <<order, position, ledger, group, clock>>

RequeryFound(r, l) ==
    /\ run[r].pc = "requery"
    /\ l \in run[r].calling
    /\ OrderOf(run[r], l).status # "NONE"
    /\ Observe(r, l, OrderOf(run[r], l), "sync")
    /\ UNCHANGED <<order, position, group, clock, faults>>

RequeryUnknown(r, l) ==
    /\ run[r].pc = "requery"
    /\ l \in run[r].calling
    /\ \/ OrderOf(run[r], l).status = "NONE" /\ UNCHANGED faults
       \/ Fault
    /\ Settle(r, l, WithLegStatus(Leg(run[r], l), "UNKNOWN"), "sync")
    /\ UNCHANGED <<order, position, ledger, group, clock>>

\* _stop_target: query, then cancel unless the order is already terminal
StopQueryLost(r, l) ==
    /\ run[r].pc = "stop"
    /\ l \in run[r].todo
    /\ Fault
    /\ Call(r, l, "recheck")
    /\ UNCHANGED <<order, position, ledger, group, clock>>

StopQuery(r, l) ==
    /\ run[r].pc = "stop"
    /\ l \in run[r].todo
    /\ IF OrderOf(run[r], l).status \in TerminalOrder
       THEN Observe(r, l, OrderOf(run[r], l), "stop")
       ELSE Call(r, l, "cancel") /\ UNCHANGED ledger
    /\ UNCHANGED <<order, position, group, clock, faults>>

\* Mutant: a cancel is taken as done, whatever the venue answered.
StopAssumed(r, l, o) ==
    /\ Settle(r, l, WithLegStatus(Leg(run[r], l), "CANCELED"), "stop")
    /\ UNCHANGED ledger

\* An absent order is taken as canceled, without any fill of its own.
StopObserved(r, l, o) ==
    IF o.status # "NONE"
    THEN Observe(r, l, o, "stop")
    ELSE /\ Settle(r, l, WithLegStatus(Leg(run[r], l), "CANCELED"), "stop")
         /\ UNCHANGED ledger

Cancel(r, l) ==
    /\ run[r].pc = "cancel"
    /\ l \in run[r].calling
    /\ LET o == Canceled(OrderOf(run[r], l))
       IN  /\ SetOrder(l, Leg(run[r], l).attempt, o)
           /\ StopObserved(r, l, o)
    /\ UNCHANGED <<group, clock, faults>>

\* the response to a cancel is lost, whether or not it took effect
CancelLost(r, l) ==
    /\ run[r].pc = "cancel"
    /\ l \in run[r].calling
    /\ Fault
    /\ \E o \in {OrderOf(run[r], l), Canceled(OrderOf(run[r], l))} :
          SetOrder(l, Leg(run[r], l).attempt, o)
    /\ Call(r, l, "recheck")
    /\ UNCHANGED <<ledger, group, clock>>

Recheck(r, l) ==
    /\ run[r].pc = "recheck"
    /\ l \in run[r].calling
    /\ StopObserved(r, l, OrderOf(run[r], l))
    /\ UNCHANGED <<order, position, group, clock, faults>>

RecheckLost(r, l) ==
    /\ run[r].pc = "recheck"
    /\ l \in run[r].calling
    /\ Fault
    /\ Settle(r, l, WithLegStatus(Leg(run[r], l), "UNKNOWN"), "stop")
    /\ UNCHANGED <<order, position, ledger, group, clock>>

-----------------------------------------------------------------------------
(* Decisions and saves.                                                     *)

\* _unhedged_since
UnhedgedSince(rn) ==
    IF ~Unhedged(rn.draft) THEN NoTime
    ELSE IF rn.base.since # NoTime THEN rn.base.since ELSE rn.asOf

MustCompensate(g, asOf) ==
    \/ \E l \in Legs : Target(g, l).status \in TerminalLeg \ {"FILLED"}
    \/ asOf >= ValidUntil
    \/ OverUnhedgedLimit(g)
    \/ g.since # NoTime /\ asOf >= g.since + MaximumUnhedgedTime

NeedsRecovery(g) ==
    \/ \E l \in Legs : Target(g, l).status \in {"PARTIALLY_FILLED", "UNKNOWN"}
    \/ Unhedged(g)

\* The group run_once saves once every target leg has been reconciled.
Decision(rn) ==
    LET observed == [rn.draft EXCEPT !.since = UnhedgedSince(rn), !.updated = rn.asOf]
        status == IF MustCompensate(observed, rn.asOf) THEN "COMPENSATING"
                  ELSE IF NeedsRecovery(observed) THEN "RECOVERING" ELSE "EXECUTING"
    IN  IF AllTargetsFilled(rn.draft)
        THEN [rn.draft EXCEPT !.status = "HEDGED", !.since = NoTime, !.updated = rn.asOf]
        ELSE [observed EXCEPT !.status = status]

AfterDecision(rn, g) == IF g.status = "COMPENSATING" THEN Stop(rn, g, 0) ELSE IdleRun

PassDone(rn, pc, role) ==
    rn.pc = pc /\ rn.role = role /\ rn.todo = {}

Decide(r) ==
    /\ PassDone(run[r], "sync", "TARGET")
    /\ Save(r, Decision(run[r]), AfterDecision(run[r], Decision(run[r])))
    /\ UNCHANGED <<order, position, ledger, clock, faults>>

Stamped(rn) == [rn.draft EXCEPT !.updated = rn.asOf]

\* Mutant: reversing starts before every target is known to have stopped.
AfterStopAtOnce(rn, g, behind) == GoOn(rn, g, "reverse", "TARGET", {}, behind)

AfterStop(rn, g, behind) ==
    IF AllTargetsTerminal(g) THEN GoOn(rn, g, "reverse", "TARGET", {}, behind) ELSE IdleRun

\* Every target leg has been stopped or is still unknown.
Stopped(r) ==
    /\ PassDone(run[r], "stop", "TARGET")
    /\ IF run[r].draft = run[r].base
       THEN Keep(r, AfterStop(run[r], run[r].base, run[r].behind))
       ELSE Save(r, Stamped(run[r]), AfterStop(run[r], Stamped(run[r]), 0))
    /\ UNCHANGED <<order, position, ledger, clock, faults>>

\* Mutant: a residual is reversed again while its reversal is still working.
NeedsAttemptAgain(g, l) == Residual(g, l) > 0

\* Mutant: a reversal that failed is never tried again.
NeedsAttemptOnce(g, l) == Residual(g, l) > 0 /\ Compensation(g, l).attempt = 0

\* _ensure_compensation_legs: a residual without an active reversal gets one.
NeedsAttempt(g, l) == Residual(g, l) > 0 /\ ~Live(Compensation(g, l))

WithCompensations(g) ==
    [g EXCEPT
        !.legs["COMPENSATION"] =
            [l \in Legs |-> IF NeedsAttempt(g, l)
                            THEN PendingLeg(Compensation(g, l).attempt + 1, Residual(g, l))
                            ELSE Compensation(g, l)],
        !.closed =
            [l \in Legs |-> IF NeedsAttempt(g, l)
                            THEN g.closed[l] + Compensation(g, l).filled
                            ELSE g.closed[l]]]

Reversal(rn) == [WithCompensations(rn.base) EXCEPT !.updated = rn.asOf]

AfterReverse(rn, g, behind) ==
    IF NoResidual(g)
    THEN GoOn(rn, g, "flat", "COMPENSATION", {}, behind)
    ELSE Sync(rn, g, "COMPENSATION", behind)

Reverse(r) ==
    /\ run[r].pc = "reverse"
    /\ \A l \in Legs : NeedsAttempt(run[r].base, l) =>
          Compensation(run[r].base, l).attempt < MaxAttempts
    /\ IF WithCompensations(run[r].base) = run[r].base
       THEN Keep(r, AfterReverse(run[r], run[r].base, run[r].behind))
       ELSE Save(r, Reversal(run[r]), AfterReverse(run[r], Reversal(run[r]), 0))
    /\ UNCHANGED <<order, position, ledger, clock, faults>>

AfterReversed(rn, g, behind) ==
    IF NoResidual(g) THEN GoOn(rn, g, "flat", "COMPENSATION", {}, behind) ELSE IdleRun

\* The compensation legs have been reconciled.
Reversed(r) ==
    /\ PassDone(run[r], "sync", "COMPENSATION")
    /\ IF run[r].draft = run[r].base
       THEN Keep(r, AfterReversed(run[r], run[r].base, run[r].behind))
       ELSE Save(r, Stamped(run[r]), AfterReversed(run[r], Stamped(run[r]), 0))
    /\ UNCHANGED <<order, position, ledger, clock, faults>>

Flattened(rn) == [rn.base EXCEPT !.status = "FLAT", !.since = NoTime, !.updated = rn.asOf]

Flatten(r) ==
    /\ run[r].pc = "flat"
    /\ Save(r, Flattened(run[r]), IdleRun)
    /\ UNCHANGED <<order, position, ledger, clock, faults>>

-----------------------------------------------------------------------------
(* Crashes, time and the market.                                            *)

Crash(r) ==
    /\ run[r].pc # "idle"
    /\ Fault
    /\ run' = [run EXCEPT ![r] = IdleRun]
    /\ UNCHANGED <<order, position, ledger, group, clock>>

Tick ==
    /\ clock < MaxTime
    /\ clock' = clock + 1
    /\ UNCHANGED <<order, position, ledger, group, run, faults>>

Market(l, k) ==
    /\ VenueFill(l, k) \/ VenueClose(l, k)
    /\ UNCHANGED <<group, run, clock, faults>>

\* Nothing is left to do: the plan expired unstarted or the group ended.
Finished ==
    /\ group.status \in TerminalGroup \cup {"NONE"}
    /\ clock = MaxTime
    /\ UNCHANGED vars

\* Steps of a call that the venue answers.
Progress(r) ==
    \/ StartRun(r)
    \/ Decide(r) \/ Stopped(r) \/ Reverse(r) \/ Reversed(r) \/ Flatten(r)
    \/ \E l \in Legs :
          \/ QueryFound(r, l) \/ QueryMissing(r, l) \/ Submit(r, l)
          \/ RequeryFound(r, l) \/ RequeryUnknown(r, l)
          \/ StopQuery(r, l) \/ Cancel(r, l) \/ Recheck(r, l)

\* Steps of a call that fail.
Failure(r) ==
    \/ Crash(r)
    \/ \E l \in Legs :
          \/ QueryLost(r, l) \/ SubmitAcceptedLost(r, l) \/ SubmitNeverArrived(r, l)
          \/ StopQueryLost(r, l) \/ CancelLost(r, l) \/ RecheckLost(r, l)

Next ==
    \/ StartGroup
    \/ \E r \in Runners : Progress(r) \/ Failure(r)
    \/ \E l \in Legs, k \in Attempts : Market(l, k)
    \/ Tick
    \/ Finished

Spec == Init /\ [][Next]_vars

(* Fairness: the capital cycle calls recover_pending on every trigger, so a *)
(* pending group is run again and again; batches come with ever later       *)
(* as_of; and a live reversal, a market order, is filled in the end.        *)
Fairness ==
    /\ \A r \in Runners : WF_vars(Progress(r))
    /\ WF_vars(Tick)
    /\ \A l \in Legs, k \in Attempts \ {0} :
          WF_vars(VenueFill(l, k) /\ UNCHANGED <<group, run, clock, faults>>)

FairSpec == Spec /\ Fairness

-----------------------------------------------------------------------------
(* Properties.                                                              *)

\* Every variable keeps its shape.
TypeOK ==
    /\ VenueTypeOK
    /\ group \in GroupRecord
    /\ run \in [Runners -> RunRecord]
    /\ clock \in Time
    /\ faults \in 0 .. MaxFaults

(* The engine never invents a failure: a leg stored as ended has no live    *)
(* order at the venue and records exactly what that order filled.           *)
EndedLegIsTrue(role) ==
    \A l \in Legs :
        LET leg == group.legs[role][l]
            o == order[l][leg.attempt]
        IN  leg.status \in TerminalLeg =>
                /\ o.status \notin LiveOrder
                /\ o.filled = leg.filled

\* Neither a target leg nor a reversal is stored as ended against the venue.
EndedLegsAreTrue == \A role \in Roles : EndedLegIsTrue(role)

(* The reversal half of it survives any number of concurrent runners.       *)
EndedReversalsAreTrue == EndedLegIsTrue("COMPENSATION")

(* Retries, restarts and concurrent runners never reverse more than the     *)
(* target filled, and never buy more than the plan: the account stays       *)
(* between nothing and the planned quantity of every leg.                   *)
NeverOverReversed == \A l \in Legs : position[l] \in 0 .. Quantity[l]

(* A HEDGED group really holds its whole plan: every target order is filled *)
(* at the venue and no reversal was ever placed.                            *)
HedgedIsHedged ==
    group.status = "HEDGED" =>
        \A l \in Legs :
            /\ order[l][0].status = "FILLED"
            /\ position[l] = Quantity[l]
            /\ \A k \in Attempts \ {0} : ~Placed(l, k)

(* The ledger the account is projected from agrees with the venue about     *)
(* every order of a group that has ended: no observation was lost to a      *)
(* crash, a lost response or a stale as_of.                                 *)
LedgerAgreesAtTheEnd ==
    group.status \in TerminalGroup =>
        \A l \in Legs, k \in Attempts :
            /\ ledger[l][k].status = order[l][k].status
            /\ ledger[l][k].filled = order[l][k].filled

\* The group value the next save of runner r carries, if it is at a save.
PendingSave(r) ==
    CASE PassDone(run[r], "sync", "TARGET") -> {Decision(run[r])}
      [] PassDone(run[r], "stop", "TARGET") -> {Stamped(run[r])}
      [] run[r].pc = "reverse" -> {Reversal(run[r])}
      [] PassDone(run[r], "sync", "COMPENSATION") -> {Stamped(run[r])}
      [] run[r].pc = "flat" -> {Flattened(run[r])}
      [] OTHER -> {}

(* Engine and store agree on the rules: a runner nobody overtook is never   *)
(* refused by the validators, which would stall the group for good.         *)
NeverRefused ==
    \A r \in Runners : run[r].behind = 0 =>
        \A g \in PendingSave(r) : Legal(g)

\* How a group looks from the account.
Phase ==
    CASE group.status = "HEDGED" -> "hedged"
      [] group.status = "FLAT" -> "flat"
      [] group.status = "COMPENSATING" ->
            IF AllTargetsTerminal(group) THEN "reducing" ELSE "stopping"
      [] OTHER -> "open"

Outcome == INSTANCE GroupOutcome WITH phase <- Phase, exposure <- position

(* The reconciler implements the promise of GroupOutcome: exposure is built *)
(* up only before the targets are confirmed stopped, worked down only       *)
(* after, and fixed once the group has ended.                               *)
ImplementsOutcome == Outcome!OutcomeSpec

(* A started group ends: with lost responses and crashes that stop, ever    *)
(* later runs and reversals that fill, it becomes HEDGED or FLAT.           *)
EventuallyEnds == group.status # "NONE" ~> group.status \in TerminalGroup
=============================================================================
