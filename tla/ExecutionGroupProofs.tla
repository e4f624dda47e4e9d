------------------------ MODULE ExecutionGroupProofs ------------------------
(* Theorems about ExecutionGroup, for every value of its constants: any     *)
(* plan, any number of concurrent runners, any bounds.                      *)
EXTENDS ExecutionGroupInvariant, TLAPS

-----------------------------------------------------------------------------
(* What the operators of the model return.                                  *)

\* A new group is a group record.
LEMMA NewGroupType ==
    ASSUME NEW t \in Time
    PROVE  NewGroup(t) \in GroupRecord
<1>1. \A role \in Roles, l \in Legs : NewGroup(t).legs[role][l] \in LegRecord
  BY QuantityAssumption, LimitsAssumption
     DEF NewGroup, PendingLeg, NoLeg, LegRecord, LegStatus, TerminalLeg, Attempts
<1>2. NewGroup(t).legs \in [Roles -> [Legs -> LegRecord]]
  BY <1>1 DEF NewGroup
<1>3. QED
  BY <1>2 DEF NewGroup, GroupRecord, GroupStatus, RunningGroup

\* So is the marker of a group that does not exist yet.
LEMMA NoGroupType == NoGroup \in GroupRecord
<1>1. 0 \in Time
  BY LimitsAssumption DEF Time
<1>2. QED
  BY <1>1, NewGroupType DEF NoGroup, GroupRecord

\* An idle runner is a run record.
LEMMA IdleRunType == IdleRun \in RunRecord
<1>1. 0 \in Time
  BY LimitsAssumption DEF Time
<1>2. QED
  BY <1>1, NoGroupType DEF IdleRun, RunRecord, PCs, Roles

\* Continuing a call at another point keeps it a run record.
LEMMA GoOnType ==
    ASSUME NEW rn \in RunRecord, NEW g \in GroupRecord, NEW pc \in PCs,
           NEW role \in Roles, NEW todo \in SUBSET Legs, NEW behind \in 0 .. 2
    PROVE  GoOn(rn, g, pc, role, todo, behind) \in RunRecord
BY DEF GoOn, RunRecord

\* The two passes over unfinished legs, likewise.
LEMMA PassType ==
    ASSUME NEW rn \in RunRecord, NEW g \in GroupRecord,
           NEW role \in Roles, NEW behind \in 0 .. 2
    PROVE  /\ Sync(rn, g, role, behind) \in RunRecord
           /\ Stop(rn, g, behind) \in RunRecord
BY GoOnType DEF Sync, Stop, Unfinished, PCs, Roles

\* The leg in hand is a leg record.
LEMMA LegType ==
    ASSUME NEW rn \in RunRecord, NEW l \in Legs
    PROVE  Leg(rn, l) \in LegRecord
BY DEF RunRecord, GroupRecord, Leg

\* Settling a leg keeps a run record.
LEMMA SettledType ==
    ASSUME NEW rn \in RunRecord, NEW l \in Legs, NEW leg \in LegRecord, NEW pc \in PCs
    PROVE  Settled(rn, l, leg, pc) \in RunRecord
<1>1. [rn.draft EXCEPT !.legs[rn.role][l] = leg] \in GroupRecord
  BY DEF RunRecord, GroupRecord
<1>2. Settled(rn, l, leg, pc) =
        [rn EXCEPT !.pc = pc, !.draft = [rn.draft EXCEPT !.legs[rn.role][l] = leg],
                   !.todo = rn.todo \ {l}, !.calling = {}]
  BY DEF Settled, RunRecord, GroupRecord
<1>3. QED
  BY <1>1, <1>2 DEF RunRecord

\* A leg that takes over an order's facts is a leg record.
LEMMA FromOrderType ==
    ASSUME NEW leg \in LegRecord, NEW o \in OrderRecord, o.status # "NONE"
    PROVE  FromOrder(leg, o) \in LegRecord
BY DEF FromOrder, LegRecord, OrderRecord, LegStatus, TerminalLeg, TerminalOrder, LiveOrder

\* The venue answers a submission with a placed order.
LEMMA SubmitResultsType ==
    ASSUME VenueTypeOK, NEW rn \in RunRecord, NEW l \in Legs,
           NEW o \in SubmitResults(rn, l)
    PROVE  o \in OrderRecord /\ o.status # "NONE"
<1>1. Leg(rn, l) \in LegRecord
  BY LegType
<1>2. OrderOf(rn, l) \in OrderRecord
  BY <1>1 DEF OrderOf, VenueTypeOK, LegRecord
<1>3. QED
  BY <1>1, <1>2 DEF SubmitResults, SubmitOutcomes, WithStatus, OrderRecord, LegRecord,
                    TerminalOrder, LiveOrder

\* Replacing an order keeps the venue's shape.
LEMMA SetOrderType ==
    ASSUME VenueTypeOK, NEW l \in Legs, NEW k \in Attempts, NEW o \in OrderRecord,
           SetOrder(l, k, o)
    PROVE  /\ order' \in [Legs -> [Attempts -> OrderRecord]]
           /\ position' \in [Legs -> Int]
<1>1. order[l][k] \in OrderRecord /\ position[l] \in Int
  BY DEF VenueTypeOK
<1>2. position[l] + Signed(k, o.filled - order[l][k].filled) \in Int
  BY <1>1 DEF Signed, OrderRecord
<1>3. QED
  BY <1>2 DEF SetOrder, VenueTypeOK

\* So does recording an observation.
LEMMA RecordedType ==
    ASSUME VenueTypeOK, NEW l \in Legs, NEW k \in Attempts, NEW o \in OrderRecord,
           NEW at \in Time
    PROVE  Recorded(l, k, o, at) \in [Legs -> [Attempts -> Observation]]
BY DEF VenueTypeOK, Recorded, Observation, OrderRecord

\* A save, successful or not, keeps the group and the runners in shape.
LEMMA SaveType ==
    ASSUME group \in GroupRecord, run \in [Runners -> RunRecord],
           NEW r \in Runners, NEW updated \in GroupRecord, NEW next \in RunRecord,
           Save(r, updated, next)
    PROVE  group' \in GroupRecord /\ run' \in [Runners -> RunRecord]
<1>1. \A s \in Runners : Overtaken(run[s]) \in RunRecord
  <2> SUFFICES ASSUME NEW s \in Runners PROVE Overtaken(run[s]) \in RunRecord
    OBVIOUS
  <2>1. run[s] \in RunRecord /\ run[s].behind \in 0 .. 2
    BY DEF RunRecord
  <2>2. (IF run[s].behind = 2 THEN 2 ELSE run[s].behind + 1) \in 0 .. 2
    BY <2>1
  <2>3. QED
    BY <2>1, <2>2 DEF Overtaken, RunRecord
<1>2. CASE run[r].behind = 0 /\ Legal(updated)
  BY <1>1, <1>2 DEF Save
<1>3. CASE ~(run[r].behind = 0 /\ Legal(updated))
  BY <1>3, IdleRunType DEF Save
<1>4. QED
  BY <1>2, <1>3

\* The values a runner saves are group records.
LEMMA SavedType ==
    ASSUME NEW rn \in RunRecord
    PROVE  /\ Decision(rn) \in GroupRecord
           /\ Stamped(rn) \in GroupRecord
           /\ Flattened(rn) \in GroupRecord
<1>1. rn.draft \in GroupRecord /\ rn.base \in GroupRecord /\ rn.asOf \in Time
  BY DEF RunRecord
<1>2. UnhedgedSince(rn) \in Time \cup {NoTime}
  BY <1>1 DEF UnhedgedSince, GroupRecord
<1>3. Stamped(rn) \in GroupRecord /\ Flattened(rn) \in GroupRecord
  BY <1>1 DEF Stamped, Flattened, GroupRecord, GroupStatus, TerminalGroup
<1>4. Decision(rn) \in GroupRecord
  <2> DEFINE observed == [rn.draft EXCEPT !.since = UnhedgedSince(rn), !.updated = rn.asOf]
             status == IF MustCompensate(observed, rn.asOf) THEN "COMPENSATING"
                       ELSE IF NeedsRecovery(observed) THEN "RECOVERING" ELSE "EXECUTING"
  <2>1. observed \in GroupRecord
    BY <1>1, <1>2 DEF GroupRecord
  <2>2. status \in GroupStatus
    BY DEF GroupStatus, RunningGroup
  <2> HIDE DEF observed, status
  <2>3. [observed EXCEPT !.status = status] \in GroupRecord
    BY <2>1, <2>2 DEF GroupRecord
  <2>4. [rn.draft EXCEPT !.status = "HEDGED", !.since = NoTime, !.updated = rn.asOf]
          \in GroupRecord
    BY <1>1 DEF GroupRecord, GroupStatus, TerminalGroup
  <2>5. QED
    BY <2>3, <2>4 DEF Decision, observed, status
<1>5. QED
  BY <1>3, <1>4

\* Opening reversals keeps a group record, within the bound on attempts.
LEMMA ReversalType ==
    ASSUME NEW rn \in RunRecord,
           \A l \in Legs : NeedsAttempt(rn.base, l) =>
              Compensation(rn.base, l).attempt < MaxAttempts
    PROVE  Reversal(rn) \in GroupRecord
<1> DEFINE g == rn.base
<1>1. g \in GroupRecord /\ rn.asOf \in Time
  BY DEF RunRecord
<1>2. \A l \in Legs : /\ Compensation(g, l) \in LegRecord
                      /\ Target(g, l) \in LegRecord
                      /\ g.closed[l] \in Nat
  BY <1>1 DEF Compensation, Target, GroupRecord, Roles
<1>3. \A l \in Legs : NeedsAttempt(g, l) =>
        PendingLeg(Compensation(g, l).attempt + 1, Residual(g, l)) \in LegRecord
  <2> SUFFICES ASSUME NEW l \in Legs, NeedsAttempt(g, l)
               PROVE  PendingLeg(Compensation(g, l).attempt + 1, Residual(g, l)) \in LegRecord
    OBVIOUS
  <2>1. Residual(g, l) \in Nat
    BY <1>2 DEF NeedsAttempt, Residual, LegRecord
  <2>2. Compensation(g, l).attempt + 1 \in Attempts
    BY <1>2, LimitsAssumption DEF LegRecord, Attempts
  <2>3. QED
    BY <2>1, <2>2 DEF PendingLeg, LegRecord, LegStatus
<1> DEFINE comp == [l \in Legs |-> IF NeedsAttempt(g, l)
                       THEN PendingLeg(Compensation(g, l).attempt + 1, Residual(g, l))
                       ELSE Compensation(g, l)]
           closed == [l \in Legs |-> IF NeedsAttempt(g, l)
                         THEN g.closed[l] + Compensation(g, l).filled
                         ELSE g.closed[l]]
<1>4. comp \in [Legs -> LegRecord]
  BY <1>2, <1>3
<1>5. closed \in [Legs -> Nat]
  <2>1. \A l \in Legs : g.closed[l] + Compensation(g, l).filled \in Nat
    BY <1>2 DEF LegRecord
  <2>2. QED
    BY <1>2, <2>1
<1> HIDE DEF comp, closed
<1>6. [g EXCEPT !.legs["COMPENSATION"] = comp, !.closed = closed, !.updated = rn.asOf]
         \in GroupRecord
  BY <1>1, <1>4, <1>5 DEF GroupRecord, Roles
<1>7. QED
  BY <1>6 DEF Reversal, WithCompensations, comp, closed

-----------------------------------------------------------------------------
(* Type correctness.                                                        *)

\* Observing an order: the ledger and the runner keep their shape.
LEMMA ObserveType ==
    ASSUME TypeOK, NEW r \in Runners, NEW l \in Legs, NEW o \in OrderRecord,
           o.status # "NONE", NEW pc \in PCs, Observe(r, l, o, pc)
    PROVE  /\ ledger' \in [Legs -> [Attempts -> Observation]]
           /\ run' \in [Runners -> RunRecord]
<1>1. run[r] \in RunRecord /\ run[r].asOf \in Time
  BY DEF TypeOK, RunRecord
<1>2. Leg(run[r], l) \in LegRecord /\ Leg(run[r], l).attempt \in Attempts
  BY <1>1, LegType DEF LegRecord
<1>3. ledger' \in [Legs -> [Attempts -> Observation]]
  BY <1>1, <1>2, RecordedType DEF Observe, TypeOK
<1>4. Settled(run[r], l, FromOrder(Leg(run[r], l), o), pc) \in RunRecord
  BY <1>1, <1>2, FromOrderType, SettledType
<1>5. QED
  BY <1>3, <1>4 DEF Observe, Settle, TypeOK

\* Giving a leg a status without an order keeps the runner in shape.
LEMMA MarkType ==
    ASSUME TypeOK, NEW r \in Runners, NEW l \in Legs, NEW status \in LegStatus,
           NEW pc \in PCs, Settle(r, l, WithLegStatus(Leg(run[r], l), status), pc)
    PROVE  run' \in [Runners -> RunRecord]
<1>1. run[r] \in RunRecord
  BY DEF TypeOK
<1>2. WithLegStatus(Leg(run[r], l), status) \in LegRecord
  BY <1>1, LegType DEF WithLegStatus, LegRecord
<1>3. Settled(run[r], l, WithLegStatus(Leg(run[r], l), status), pc) \in RunRecord
  BY <1>1, <1>2, SettledType
<1>4. QED
  BY <1>3 DEF Settle, TypeOK

\* So does starting a venue call.
LEMMA CallType ==
    ASSUME TypeOK, NEW r \in Runners, NEW l \in Legs, NEW pc \in PCs, Call(r, l, pc)
    PROVE  run' \in [Runners -> RunRecord]
BY DEF TypeOK, Call, RunRecord

\* The venue's order for the leg in hand is an order record.
LEMMA OrderOfType ==
    ASSUME TypeOK, NEW r \in Runners, NEW l \in Legs
    PROVE  /\ Leg(run[r], l).attempt \in Attempts
           /\ OrderOf(run[r], l) \in OrderRecord
           /\ Canceled(OrderOf(run[r], l)) \in OrderRecord
<1>1. run[r] \in RunRecord
  BY DEF TypeOK
<1>2. Leg(run[r], l).attempt \in Attempts
  BY <1>1, LegType DEF LegRecord
<1>3. OrderOf(run[r], l) \in OrderRecord
  BY <1>2 DEF OrderOf, TypeOK, VenueTypeOK
<1>4. QED
  BY <1>2, <1>3 DEF Canceled, OrderRecord, TerminalOrder

\* The steps of a runner keep the types.
LEMMA RunnerTypeStep ==
    ASSUME TypeOK, NEW r \in Runners, Progress(r) \/ Failure(r)
    PROVE  TypeOK'
<1> USE DEF TypeOK
<1>0. /\ run[r] \in RunRecord
      /\ \A l \in Legs : /\ Leg(run[r], l).attempt \in Attempts
                         /\ OrderOf(run[r], l) \in OrderRecord
                         /\ Canceled(OrderOf(run[r], l)) \in OrderRecord
  BY OrderOfType
<1>1. CASE StartRun(r)
  <2> DEFINE rn == [run[r] EXCEPT !.asOf = clock]
  <2>1. rn \in RunRecord
    BY <1>0 DEF RunRecord
  <2>2. Stop(rn, group, 0) \in RunRecord /\ Sync(rn, group, "TARGET", 0) \in RunRecord
    BY <2>1, PassType DEF Roles
  <2>3. QED
    BY <1>1, <2>2 DEF StartRun, VenueTypeOK
<1>2. CASE Decide(r)
  <2>1. Decision(run[r]) \in GroupRecord
    BY <1>0, SavedType
  <2> DEFINE g == Decision(run[r])
  <2> HIDE DEF g
  <2>a. Stop(run[r], g, 0) \in RunRecord
    BY <1>0, <2>1, PassType DEF Roles, g
  <2>2. AfterDecision(run[r], Decision(run[r])) \in RunRecord
    BY <2>a, IdleRunType DEF AfterDecision, g
  <2>3. group' \in GroupRecord /\ run' \in [Runners -> RunRecord]
    BY <1>2, <2>1, <2>2, SaveType DEF Decide
  <2>4. QED
    BY <1>2, <2>3 DEF Decide, VenueTypeOK
<1>3. CASE Stopped(r)
  <2>1. Stamped(run[r]) \in GroupRecord
    BY <1>0, SavedType
  <2>2. \A g \in GroupRecord, b \in 0 .. 2 : AfterStop(run[r], g, b) \in RunRecord
    BY <1>0, GoOnType, IdleRunType DEF AfterStop, PCs, Roles
  <2>3. run[r].base \in GroupRecord /\ run[r].behind \in 0 .. 2
    BY <1>0 DEF RunRecord
  <2>4. CASE run[r].draft = run[r].base
    BY <1>3, <2>2, <2>3, <2>4 DEF Stopped, Keep, VenueTypeOK
  <2>5. CASE run[r].draft # run[r].base
    <3>1. Save(r, Stamped(run[r]), AfterStop(run[r], Stamped(run[r]), 0))
      BY <1>3, <2>5 DEF Stopped
    <3>2. AfterStop(run[r], Stamped(run[r]), 0) \in RunRecord
      BY <2>1, <2>2
    <3>3. group' \in GroupRecord /\ run' \in [Runners -> RunRecord]
      BY <3>1, <3>2, <2>1, SaveType
    <3>4. QED
      BY <1>3, <3>3 DEF Stopped, VenueTypeOK
  <2>6. QED
    BY <2>4, <2>5
<1>4. CASE Reverse(r)
  <2>1. Reversal(run[r]) \in GroupRecord
    BY <1>0, <1>4, ReversalType DEF Reverse
  <2>2. \A g \in GroupRecord, b \in 0 .. 2 : AfterReverse(run[r], g, b) \in RunRecord
    BY <1>0, GoOnType, PassType DEF AfterReverse, PCs, Roles
  <2>3. run[r].base \in GroupRecord /\ run[r].behind \in 0 .. 2
    BY <1>0 DEF RunRecord
  <2>4. CASE WithCompensations(run[r].base) = run[r].base
    BY <1>4, <2>2, <2>3, <2>4 DEF Reverse, Keep, VenueTypeOK
  <2>5. CASE WithCompensations(run[r].base) # run[r].base
    <3>1. Save(r, Reversal(run[r]), AfterReverse(run[r], Reversal(run[r]), 0))
      BY <1>4, <2>5 DEF Reverse
    <3>2. AfterReverse(run[r], Reversal(run[r]), 0) \in RunRecord
      BY <2>1, <2>2
    <3>3. group' \in GroupRecord /\ run' \in [Runners -> RunRecord]
      BY <3>1, <3>2, <2>1, SaveType
    <3>4. QED
      BY <1>4, <3>3 DEF Reverse, VenueTypeOK
  <2>6. QED
    BY <2>4, <2>5
<1>5. CASE Reversed(r)
  <2>1. Stamped(run[r]) \in GroupRecord
    BY <1>0, SavedType
  <2>2. \A g \in GroupRecord, b \in 0 .. 2 : AfterReversed(run[r], g, b) \in RunRecord
    BY <1>0, GoOnType, IdleRunType DEF AfterReversed, PCs, Roles
  <2>3. run[r].base \in GroupRecord /\ run[r].behind \in 0 .. 2
    BY <1>0 DEF RunRecord
  <2>4. CASE run[r].draft = run[r].base
    BY <1>5, <2>2, <2>3, <2>4 DEF Reversed, Keep, VenueTypeOK
  <2>5. CASE run[r].draft # run[r].base
    <3>1. Save(r, Stamped(run[r]), AfterReversed(run[r], Stamped(run[r]), 0))
      BY <1>5, <2>5 DEF Reversed
    <3>2. AfterReversed(run[r], Stamped(run[r]), 0) \in RunRecord
      BY <2>1, <2>2
    <3>3. group' \in GroupRecord /\ run' \in [Runners -> RunRecord]
      BY <3>1, <3>2, <2>1, SaveType
    <3>4. QED
      BY <1>5, <3>3 DEF Reversed, VenueTypeOK
  <2>6. QED
    BY <2>4, <2>5
<1>6. CASE Flatten(r)
  <2>1. group' \in GroupRecord /\ run' \in [Runners -> RunRecord]
    BY <1>0, <1>6, SavedType, IdleRunType, SaveType DEF Flatten
  <2>2. QED
    BY <1>6, <2>1 DEF Flatten, VenueTypeOK
<1>7. ASSUME NEW l \in Legs, QueryFound(r, l) \/ RequeryFound(r, l) PROVE TypeOK'
  <2>1. Observe(r, l, OrderOf(run[r], l), "sync") /\ OrderOf(run[r], l).status # "NONE"
    BY <1>7 DEF QueryFound, RequeryFound
  <2>2. /\ ledger' \in [Legs -> [Attempts -> Observation]]
        /\ run' \in [Runners -> RunRecord]
    BY <1>0, <2>1, ObserveType DEF PCs
  <2>3. QED
    BY <1>7, <2>2 DEF QueryFound, RequeryFound, VenueTypeOK
<1>8. ASSUME NEW l \in Legs, QueryMissing(r, l) PROVE TypeOK'
  <2>1. run' \in [Runners -> RunRecord]
    BY <1>8, CallType, MarkType DEF QueryMissing, PCs, LegStatus, TerminalLeg
  <2>2. QED
    BY <1>8, <2>1 DEF QueryMissing, VenueTypeOK
<1>9. ASSUME NEW l \in Legs, Submit(r, l) PROVE TypeOK'
  <2>1. PICK o \in SubmitResults(run[r], l) :
           /\ SetOrder(l, Leg(run[r], l).attempt, o)
           /\ Observe(r, l, o, "sync")
    BY <1>9 DEF Submit
  <2>2. o \in OrderRecord /\ o.status # "NONE"
    BY <1>0, SubmitResultsType
  <2>3. QED
    BY <1>0, <1>9, <2>1, <2>2, SetOrderType, ObserveType DEF Submit, VenueTypeOK, PCs
<1>10. ASSUME NEW l \in Legs, SubmitAcceptedLost(r, l) PROVE TypeOK'
  <2>1. PICK o \in SubmitResults(run[r], l) : SetOrder(l, Leg(run[r], l).attempt, o)
    BY <1>10 DEF SubmitAcceptedLost
  <2>2. o \in OrderRecord
    BY <1>0, SubmitResultsType
  <2>3. run' \in [Runners -> RunRecord]
    BY <1>10, CallType DEF SubmitAcceptedLost, PCs
  <2>4. QED
    BY <1>0, <1>10, <2>1, <2>2, <2>3, SetOrderType, FaultsAssumption
       DEF SubmitAcceptedLost, Fault, VenueTypeOK
<1>11. ASSUME NEW l \in Legs, SubmitNeverArrived(r, l) \/ StopQueryLost(r, l) PROVE TypeOK'
  <2>1. run' \in [Runners -> RunRecord]
    BY <1>11, CallType DEF SubmitNeverArrived, StopQueryLost, PCs
  <2>2. QED
    BY <1>11, <2>1, FaultsAssumption
       DEF SubmitNeverArrived, StopQueryLost, Fault, VenueTypeOK
<1>12. ASSUME NEW l \in Legs, QueryLost(r, l) \/ RequeryUnknown(r, l) \/ RecheckLost(r, l)
       PROVE TypeOK'
  <2>1. run' \in [Runners -> RunRecord]
    BY <1>12, MarkType DEF QueryLost, RequeryUnknown, RecheckLost, PCs, LegStatus
  <2>2. faults' \in 0 .. MaxFaults
    BY <1>12, FaultsAssumption DEF QueryLost, RequeryUnknown, RecheckLost, Fault
  <2>3. QED
    BY <1>12, <2>1, <2>2 DEF QueryLost, RequeryUnknown, RecheckLost, VenueTypeOK
<1>13. ASSUME NEW l \in Legs, StopQuery(r, l) PROVE TypeOK'
  <2>1. CASE OrderOf(run[r], l).status \in TerminalOrder
    <3>1. Observe(r, l, OrderOf(run[r], l), "stop") /\ OrderOf(run[r], l).status # "NONE"
      BY <1>13, <2>1 DEF StopQuery, TerminalOrder
    <3>2. QED
      BY <1>0, <1>13, <3>1, ObserveType DEF StopQuery, VenueTypeOK, PCs
  <2>2. CASE OrderOf(run[r], l).status \notin TerminalOrder
    <3>1. run' \in [Runners -> RunRecord]
      BY <1>13, <2>2, CallType DEF StopQuery, PCs
    <3>2. QED
      BY <1>13, <2>2, <3>1 DEF StopQuery, VenueTypeOK
  <2>3. QED
    BY <2>1, <2>2
<1>14. ASSUME NEW l \in Legs, NEW o \in OrderRecord, StopObserved(r, l, o)
       PROVE  /\ ledger' \in [Legs -> [Attempts -> Observation]]
              /\ run' \in [Runners -> RunRecord]
  <2>1. CASE o.status # "NONE"
    BY <1>14, <2>1, ObserveType DEF StopObserved, PCs
  <2>2. CASE o.status = "NONE"
    BY <1>14, <2>2, MarkType DEF StopObserved, PCs, LegStatus, TerminalLeg, VenueTypeOK
  <2>3. QED
    BY <2>1, <2>2
<1>15. ASSUME NEW l \in Legs, Cancel(r, l) PROVE TypeOK'
  <2> DEFINE o == Canceled(OrderOf(run[r], l))
  <2>1. SetOrder(l, Leg(run[r], l).attempt, o) /\ StopObserved(r, l, o)
    BY <1>15 DEF Cancel
  <2>2. o \in OrderRecord
    BY <1>0
  <2> HIDE DEF o
  <2>3. QED
    BY <1>0, <1>14, <1>15, <2>1, <2>2, SetOrderType DEF Cancel, VenueTypeOK
<1>16. ASSUME NEW l \in Legs, CancelLost(r, l) PROVE TypeOK'
  <2>1. PICK o \in {OrderOf(run[r], l), Canceled(OrderOf(run[r], l))} :
           SetOrder(l, Leg(run[r], l).attempt, o)
    BY <1>16 DEF CancelLost
  <2>2. o \in OrderRecord
    BY <1>0
  <2>3. run' \in [Runners -> RunRecord]
    BY <1>16, CallType DEF CancelLost, PCs
  <2>4. QED
    BY <1>0, <1>16, <2>1, <2>2, <2>3, SetOrderType, FaultsAssumption
       DEF CancelLost, Fault, VenueTypeOK
<1>17. ASSUME NEW l \in Legs, Recheck(r, l) PROVE TypeOK'
  BY <1>0, <1>14, <1>17 DEF Recheck, VenueTypeOK
<1>18. CASE Crash(r)
  BY <1>18, IdleRunType, FaultsAssumption DEF Crash, Fault, VenueTypeOK
<1>19. QED
  BY <1>1, <1>2, <1>3, <1>4, <1>5, <1>6, <1>7, <1>8, <1>9, <1>10, <1>11, <1>12,
     <1>13, <1>15, <1>16, <1>17, <1>18 DEF Progress, Failure

(* Every variable keeps its shape in every reachable state, for any number  *)
(* of runners.                                                              *)
THEOREM TypeCorrect == Spec => []TypeOK
<1>1. Init => TypeOK
  <2> SUFFICES ASSUME Init PROVE TypeOK
    OBVIOUS
  <2>1. VenueTypeOK
    BY DEF Init, VenueInit, VenueTypeOK, NoOrder, OrderRecord, NoObservation, Observation
  <2>2. run \in [Runners -> RunRecord]
    BY IdleRunType DEF Init
  <2>3. group \in GroupRecord
    BY NoGroupType DEF Init
  <2>4. QED
    BY <2>1, <2>2, <2>3, LimitsAssumption, FaultsAssumption DEF Init, TypeOK, Time
<1>2. TypeOK /\ [Next]_vars => TypeOK'
  <2> SUFFICES ASSUME TypeOK, [Next]_vars PROVE TypeOK'
    OBVIOUS
  <2>1. CASE StartGroup
    BY <2>1, NewGroupType DEF StartGroup, TypeOK, VenueTypeOK
  <2>2. ASSUME NEW r \in Runners, Progress(r) \/ Failure(r) PROVE TypeOK'
    BY <2>2, RunnerTypeStep
  <2>3. ASSUME NEW l \in Legs, NEW k \in Attempts, Market(l, k) PROVE TypeOK'
    <3>1. order[l][k] \in OrderRecord
      BY DEF TypeOK, VenueTypeOK
    <3>2. CASE VenueFill(l, k)
      <4>1. PICK filled \in (order[l][k].filled + 1) .. order[l][k].requested :
               SetOrder(l, k, WithStatus(order[l][k].requested, filled))
        BY <3>2 DEF VenueFill
      <4>2. WithStatus(order[l][k].requested, filled) \in OrderRecord
        BY <3>1 DEF WithStatus, OrderRecord, TerminalOrder, LiveOrder
      <4>3. QED
        BY <2>3, <3>2, <4>1, <4>2, SetOrderType DEF Market, VenueFill, TypeOK, VenueTypeOK
    <3>3. CASE VenueClose(l, k)
      <4>1. [order[l][k] EXCEPT !.status = "EXPIRED"] \in OrderRecord
        BY <3>1 DEF OrderRecord, TerminalOrder
      <4>2. QED
        BY <2>3, <3>3, <4>1, SetOrderType DEF Market, VenueClose, TypeOK, VenueTypeOK
    <3>4. QED
      BY <2>3, <3>2, <3>3 DEF Market
  <2>4. CASE Tick
    BY <2>4, LimitsAssumption DEF Tick, TypeOK, VenueTypeOK, Time
  <2>5. CASE Finished \/ UNCHANGED vars
    BY <2>5 DEF Finished, vars, TypeOK, VenueTypeOK
  <2>6. QED
    BY <2>1, <2>2, <2>3, <2>4, <2>5 DEF Next
<1>3. QED
  BY <1>1, <1>2, PTL DEF Spec

-----------------------------------------------------------------------------
(* Safety of ExecutionGroup for any number of concurrent runners: the       *)
(* invariant RaceInvariant and what follows from it about the account.      *)

Venues == [Legs -> [Attempts -> OrderRecord]]

\* Orders only ever gain fills, and an order that is over stays as it is.
Grows(venue, later) ==
    \A l \in Legs, k \in Attempts :
        /\ venue[l][k].filled <= later[l][k].filled
        /\ venue[l][k].status \in TerminalOrder => later[l][k] = venue[l][k]

\* Reversals are only ever added.
GroupGrows(stored, later) ==
    \A l \in Legs :
        /\ Compensation(stored, l).attempt <= Compensation(later, l).attempt
        /\ Compensation(stored, l).attempt = Compensation(later, l).attempt =>
              Compensation(stored, l).requested = Compensation(later, l).requested

-----------------------------------------------------------------------------
(* What was known stays known.                                              *)

\* The parts of a group record have their types.
LEMMA GroupParts ==
    ASSUME NEW g \in GroupRecord, NEW l \in Legs
    PROVE  /\ Target(g, l) \in LegRecord
           /\ Compensation(g, l) \in LegRecord
           /\ g.closed[l] \in Nat
BY DEF Target, Compensation, GroupRecord, Roles

\* What a group value says of the venue survives the venue's progress.
LEMMA KnownVenue ==
    ASSUME NEW g \in GroupRecord, NEW venue \in Venues, NEW later \in Venues,
           NEW stored \in GroupRecord, Known(g, venue, stored), Grows(venue, later)
    PROVE  Known(g, later, stored)
<1>1. TargetsKnown(g, later)
  <2> SUFFICES ASSUME NEW l \in Legs
               PROVE  /\ Target(g, l).attempt = 0
                      /\ Target(g, l).requested = Quantity[l]
                      /\ Target(g, l).filled <= later[l][0].filled
                      /\ Target(g, l).status = "FILLED" => later[l][0].status = "FILLED"
    BY DEF TargetsKnown
  <2>1. 0 \in Attempts
    BY LimitsAssumption DEF Attempts
  <2>2. venue[l][0] \in OrderRecord /\ later[l][0] \in OrderRecord
    BY <2>1 DEF Venues
  <2>3. QED
    BY <2>1, <2>2, GroupParts
       DEF Known, TargetsKnown, Grows, OrderRecord, LegRecord, TerminalOrder
<1>2. ReversalsKnown(g, later, stored)
  <2> SUFFICES ASSUME NEW l \in Legs
               PROVE  ReversalKnown(Compensation(g, l), later[l], Compensation(stored, l))
    BY DEF ReversalsKnown
  <2>1. Compensation(g, l).attempt \in Attempts
    BY GroupParts DEF LegRecord
  <2>2. ReversalKnown(Compensation(g, l), venue[l], Compensation(stored, l))
    BY DEF Known, ReversalsKnown
  <2>3. QED
    BY <2>1, <2>2 DEF ReversalKnown, Grows
<1>3. QED
  BY <1>1, <1>2 DEF Known

\* And the progress of the stored group.
LEMMA KnownStored ==
    ASSUME NEW g \in GroupRecord, NEW venue \in Venues,
           NEW stored \in GroupRecord, NEW later \in GroupRecord,
           Known(g, venue, stored), GroupGrows(stored, later)
    PROVE  Known(g, venue, later)
<1> SUFFICES ASSUME NEW l \in Legs
             PROVE  ReversalKnown(Compensation(g, l), venue[l], Compensation(later, l))
  BY DEF Known, ReversalsKnown
<1>1. ReversalKnown(Compensation(g, l), venue[l], Compensation(stored, l))
  BY DEF Known, ReversalsKnown
<1>2. /\ Compensation(g, l).attempt \in Nat
      /\ Compensation(stored, l).attempt \in Nat
      /\ Compensation(later, l).attempt \in Nat
  BY GroupParts DEF LegRecord, Attempts
<1>3. /\ Compensation(stored, l).attempt <= Compensation(later, l).attempt
      /\ Compensation(stored, l).attempt = Compensation(later, l).attempt =>
            Compensation(stored, l).requested = Compensation(later, l).requested
  BY DEF GroupGrows
<1>4. QED
  BY <1>1, <1>2, <1>3 DEF ReversalKnown

\* The marker of an absent group is true of any venue.
LEMMA KnownNoGroup ==
    ASSUME NEW venue \in Venues, NEW stored \in GroupRecord,
           Known(stored, venue, stored), NEW t \in Time
    PROVE  Known(NewGroup(t), venue, stored) /\ Known(NoGroup, venue, stored)
<1> SUFFICES ASSUME NEW g \in {NewGroup(t), NoGroup} PROVE Known(g, venue, stored)
  OBVIOUS
<1>1. \A l \in Legs : Target(g, l) = PendingLeg(0, Quantity[l]) /\ Compensation(g, l) = NoLeg
  <2>1. \A u : \A l \in Legs : /\ NewGroup(u).legs["TARGET"][l] = PendingLeg(0, Quantity[l])
                               /\ NewGroup(u).legs["COMPENSATION"][l] = NoLeg
    BY DEF NewGroup, Roles
  <2>2. NoGroup.legs = NewGroup(0).legs
    BY DEF NoGroup, NewGroup
  <2>3. QED
    BY <2>1, <2>2 DEF Target, Compensation
<1>2. TargetsKnown(g, venue)
  <2> SUFFICES ASSUME NEW l \in Legs
               PROVE  /\ Target(g, l).attempt = 0
                      /\ Target(g, l).requested = Quantity[l]
                      /\ Target(g, l).filled <= venue[l][0].filled
                      /\ Target(g, l).status = "FILLED" => venue[l][0].status = "FILLED"
    BY DEF TargetsKnown
  <2>1. 0 \in Attempts
    BY LimitsAssumption DEF Attempts
  <2>2. venue[l][0] \in OrderRecord
    BY <2>1 DEF Venues
  <2>3. QED
    BY <1>1, <2>2 DEF PendingLeg, OrderRecord
<1>3. ReversalsKnown(g, venue, stored)
  <2> SUFFICES ASSUME NEW l \in Legs
               PROVE  ReversalKnown(NoLeg, venue[l], Compensation(stored, l))
    BY <1>1 DEF ReversalsKnown
  <2>1. ReversalKnown(Compensation(stored, l), venue[l], Compensation(stored, l))
    BY DEF Known, ReversalsKnown
  <2>2. Compensation(stored, l).attempt \in Nat
    BY GroupParts DEF LegRecord, Attempts
  <2>3. QED
    BY <2>1, <2>2 DEF ReversalKnown, NoLeg, TerminalLeg
<1>4. QED
  BY <1>2, <1>3 DEF Known

-----------------------------------------------------------------------------
(* Steps of the venue.                                                      *)

\* How an order may change: not at all, or forward on behalf of a stored leg.
Advances(old, o, l, k, stored) ==
    \/ o = old
    \/ /\ old.status \notin TerminalOrder
       /\ old.filled <= o.filled
       /\ o.status # "NONE"
       /\ OrderSound(o)
       /\ k = 0 => o.requested = Quantity[l]
       /\ k # 0 => /\ k = Compensation(stored, l).attempt
                   /\ o.requested = Compensation(stored, l).requested

\* A change that only fills or closes a live order is one of them.
LEMMA LiveAdvances ==
    ASSUME VenueTypeOK, group \in GroupRecord, VenueMatches(position, order, group),
           NEW l \in Legs, NEW k \in Attempts, NEW o \in OrderRecord,
           order[l][k].status \in LiveOrder, OrderSound(o),
           order[l][k].filled <= o.filled,
           o.requested = order[l][k].requested, o.status # "NONE"
    PROVE  Advances(order[l][k], o, l, k, group)
<1>1. order[l][k] \in OrderRecord /\ Compensation(group, l) \in LegRecord
  BY GroupParts DEF VenueTypeOK
<1>2. OrderMatches(order[l][k], l, k, Compensation(group, l))
  BY DEF VenueMatches, OrdersMatchLegs
<1>3. k \in Nat /\ Compensation(group, l).attempt \in Nat
  BY <1>1 DEF LegRecord, Attempts
<1>4. order[l][k].status \notin TerminalOrder /\ order[l][k].status # "NONE"
  BY DEF LiveOrder, TerminalOrder
<1>5. QED
  BY <1>2, <1>3, <1>4 DEF OrderMatches, Advances

\* Such a change keeps the books of the venue and loses nothing known.
LEMMA VenueStep ==
    ASSUME VenueTypeOK, group \in GroupRecord, VenueMatches(position, order, group),
           NEW l \in Legs, NEW k \in Attempts, NEW o \in OrderRecord,
           Advances(order[l][k], o, l, k, group), SetOrder(l, k, o)
    PROVE  /\ order' \in Venues
           /\ VenueMatches(position', order', group)
           /\ Grows(order, order')
<1>0. /\ order \in Venues
      /\ order' \in Venues
      /\ order' = [order EXCEPT ![l][k] = o]
      /\ position' = [position EXCEPT ![l] =
                        @ + Signed(k, o.filled - order[l][k].filled)]
      /\ \A m \in Legs, j \in Attempts :
            order'[m][j] = IF m = l /\ j = k THEN o ELSE order[m][j]
  BY SetOrderType DEF SetOrder, VenueTypeOK, Venues
<1>1. \A m \in Legs, j \in Attempts : order[m][j] \in OrderRecord /\ order'[m][j] \in OrderRecord
  BY <1>0 DEF Venues
<1>2. Grows(order, order')
  <2> SUFFICES ASSUME NEW m \in Legs, NEW j \in Attempts
               PROVE  /\ order[m][j].filled <= order'[m][j].filled
                      /\ order[m][j].status \in TerminalOrder => order'[m][j] = order[m][j]
    BY DEF Grows
  <2>1. order[m][j].filled \in Nat
    BY <1>1 DEF OrderRecord
  <2>2. QED
    BY <1>0, <2>1 DEF Advances
<1>3. OrdersSound(order')
  BY <1>0 DEF OrdersSound, VenueMatches, Advances
<1>4. OrdersMatchLegs(order', group)
  <2> SUFFICES ASSUME NEW m \in Legs, NEW j \in Attempts
               PROVE  OrderMatches(order'[m][j], m, j, Compensation(group, m))
    BY DEF OrdersMatchLegs
  <2>1. OrderMatches(order[m][j], m, j, Compensation(group, m))
    BY DEF VenueMatches, OrdersMatchLegs
  <2>2. j \in Nat /\ Compensation(group, m).attempt \in Nat
    BY GroupParts DEF LegRecord, Attempts
  <2>3. CASE order'[m][j] = order[m][j]
    BY <2>1, <2>3
  <2>4. CASE order'[m][j] # order[m][j]
    <3>1. m = l /\ j = k /\ order'[m][j] = o /\ o # order[l][k]
      BY <1>0, <2>4
    <3>2. QED
      BY <2>2, <3>1 DEF Advances, OrderMatches
  <2>5. QED
    BY <2>3, <2>4
<1>5. PositionBooked(position', order', group)
  <2> SUFFICES ASSUME NEW m \in Legs
               PROVE  position'[m] = order'[m][0].filled - group.closed[m]
                                       - LatestFill(order'[m], Compensation(group, m))
    BY DEF PositionBooked
  <2> DEFINE c == Compensation(group, m)
  <2>1. 0 \in Attempts /\ c.attempt \in Attempts
    BY LimitsAssumption, GroupParts DEF LegRecord, Attempts
  <2>2. position[m] = order[m][0].filled - group.closed[m] - LatestFill(order[m], c)
    BY DEF VenueMatches, PositionBooked
  <2>3. /\ position[m] \in Int /\ group.closed[m] \in Nat
        /\ order[m][0].filled \in Nat /\ order'[m][0].filled \in Nat
        /\ order[m][c.attempt].filled \in Nat /\ order'[m][c.attempt].filled \in Nat
        /\ order[l][k].filled \in Nat /\ o.filled \in Nat
    BY <1>1, <2>1, GroupParts DEF VenueTypeOK, OrderRecord
  <2>4. CASE m # l
    <3>1. position'[m] = position[m]
      BY <1>0, <2>4 DEF VenueTypeOK
    <3>2. order'[m] = order[m]
      BY <1>0, <2>4 DEF VenueTypeOK
    <3>3. QED
      BY <2>2, <3>1, <3>2
  <2>5. CASE m = l /\ o = order[l][k]
    <3>1. order' = order
      BY <1>0, <2>5 DEF VenueTypeOK
    <3>2. position'[m] = position[m]
      BY <1>0, <2>3, <2>5 DEF VenueTypeOK, Signed
    <3>3. QED
      BY <2>2, <3>1, <3>2
  <2>6. CASE m = l /\ o # order[l][k]
    <3>1. k # 0 => k = c.attempt
      BY <2>6 DEF Advances
    <3>2. position'[m] = position[m] + Signed(k, o.filled - order[l][k].filled)
      BY <1>0, <2>6 DEF VenueTypeOK
    <3>3. CASE k = 0
      <4>1. order'[m][0] = o /\ (c.attempt # 0 => order'[m][c.attempt] = order[m][c.attempt])
        BY <1>0, <2>1, <2>6, <3>3
      <4>2. QED
        BY <2>2, <2>3, <2>6, <3>2, <3>3, <4>1 DEF Signed, LatestFill
    <3>4. CASE k # 0
      <4>1. order'[m][c.attempt] = o /\ order'[m][0] = order[m][0] /\ k = c.attempt
        BY <1>0, <2>1, <2>6, <3>1, <3>4
      <4>2. QED
        BY <2>2, <2>3, <2>6, <3>2, <3>4, <4>1 DEF Signed, LatestFill
    <3>5. QED
      BY <3>3, <3>4
  <2>7. QED
    BY <2>4, <2>5, <2>6
<1>6. QED
  BY <1>0, <1>2, <1>3, <1>4, <1>5 DEF VenueMatches

-----------------------------------------------------------------------------
(* What a runner believes stays true.                                       *)

\* A runner's view survives the progress of the venue,
LEMMA RunnerVenue ==
    ASSUME NEW rn \in RunRecord, NEW venue \in Venues, NEW later \in Venues,
           NEW stored \in GroupRecord, RunnerFaithful(rn, venue, stored),
           Grows(venue, later)
    PROVE  RunnerFaithful(rn, later, stored)
<1>1. rn.base \in GroupRecord /\ rn.draft \in GroupRecord
  BY DEF RunRecord
<1>2. Known(rn.base, later, stored) /\ Known(rn.draft, later, stored)
  BY <1>1, KnownVenue DEF RunnerFaithful
<1>3. QED
  BY <1>2 DEF RunnerFaithful

\* and a save by another runner, which marks it as overtaken.
LEMMA RunnerStored ==
    ASSUME NEW rn \in RunRecord, NEW venue \in Venues,
           NEW stored \in GroupRecord, NEW later \in GroupRecord,
           RunnerFaithful(rn, venue, stored), GroupGrows(stored, later)
    PROVE  RunnerFaithful(Overtaken(rn), venue, later)
<1>1. rn.base \in GroupRecord /\ rn.draft \in GroupRecord /\ rn.behind \in 0 .. 2
  BY DEF RunRecord
<1>2. Known(rn.base, venue, later) /\ Known(rn.draft, venue, later)
  BY <1>1, KnownStored DEF RunnerFaithful
<1>3. CASE rn.pc = "idle"
  BY <1>2, <1>3 DEF RunnerFaithful, Overtaken
<1>4. CASE rn.pc # "idle"
  <2> DEFINE behind == IF rn.behind = 2 THEN 2 ELSE rn.behind + 1
  <2>1. behind # 0
    BY <1>1
  <2>2. Overtaken(rn) = [rn EXCEPT !.behind = behind]
    BY <1>4 DEF Overtaken
  <2> HIDE DEF behind
  <2>3. QED
    BY <1>2, <2>1, <2>2 DEF RunnerFaithful, RunRecord
<1>5. QED
  BY <1>3, <1>4

\* A runner that is not running believes nothing wrong.
LEMMA RunnerIdle ==
    ASSUME NEW venue \in Venues, NEW stored \in GroupRecord,
           Known(stored, venue, stored)
    PROVE  RunnerFaithful(IdleRun, venue, stored)
<1>1. 0 \in Time
  BY LimitsAssumption DEF Time
<1>2. Known(NoGroup, venue, stored)
  BY <1>1, KnownNoGroup
<1>3. QED
  BY <1>2 DEF RunnerFaithful, IdleRun, SameReversals

\* A call that goes on from what it saved or read is faithful.
LEMMA RunnerGoOn ==
    ASSUME NEW rn \in RunRecord, NEW venue \in Venues, NEW stored \in GroupRecord,
           NEW g \in GroupRecord, NEW pc \in PCs, NEW role \in Roles,
           NEW todo \in SUBSET Legs, NEW behind \in 0 .. 2,
           Known(g, venue, stored),
           behind = 0 => g = stored,
           pc = "reverse" => AllTargetsTerminal(g),
           pc \in {"stop", "cancel", "recheck"} => role = "TARGET",
           role = "COMPENSATION" => \A l \in todo : Compensation(g, l).attempt # 0
    PROVE  RunnerFaithful(GoOn(rn, g, pc, role, todo, behind), venue, stored)
<1>1. /\ GoOn(rn, g, pc, role, todo, behind).pc = pc
      /\ GoOn(rn, g, pc, role, todo, behind).role = role
      /\ GoOn(rn, g, pc, role, todo, behind).base = g
      /\ GoOn(rn, g, pc, role, todo, behind).draft = g
      /\ GoOn(rn, g, pc, role, todo, behind).todo = todo
      /\ GoOn(rn, g, pc, role, todo, behind).calling = {}
      /\ GoOn(rn, g, pc, role, todo, behind).behind = behind
  BY DEF GoOn, RunRecord
<1>2. QED
  BY <1>1 DEF RunnerFaithful, SameReversals

\* A leg that is live in a known group has an attempt.
LEMMA LiveAttempt ==
    ASSUME NEW venue \in Venues, NEW stored \in GroupRecord, NEW g \in GroupRecord,
           Known(g, venue, stored),
           NEW l \in Unfinished(g, "COMPENSATION")
    PROVE  Compensation(g, l).attempt # 0
BY DEF Known, ReversalsKnown, ReversalKnown, Unfinished, Live, Compensation

\* Talking to the venue about a leg in hand changes no belief.
LEMMA RunnerCall ==
    ASSUME NEW rn \in RunRecord, NEW venue \in Venues, NEW stored \in GroupRecord,
           RunnerFaithful(rn, venue, stored), rn.pc # "idle",
           NEW l \in rn.todo \cup rn.calling, NEW pc \in PCs \ {"idle", "reverse"},
           pc \in {"stop", "cancel", "recheck"} => rn.role = "TARGET"
    PROVE  RunnerFaithful([rn EXCEPT !.pc = pc, !.calling = {l}], venue, stored)
<1> DEFINE after == [rn EXCEPT !.pc = pc, !.calling = {l}]
<1>1. /\ after.pc = pc /\ after.role = rn.role /\ after.base = rn.base
      /\ after.draft = rn.draft /\ after.todo = rn.todo /\ after.calling = {l}
      /\ after.behind = rn.behind
  BY DEF RunRecord
<1> HIDE DEF after
<1>2. RunnerFaithful(after, venue, stored)
  BY <1>1 DEF RunnerFaithful
<1>3. QED
  BY <1>2 DEF after

(* A leg may be settled with what the venue supports: a target with no more *)
(* than its order filled, a reversal as over only if its order is.          *)
Supported(leg, role, orders) ==
    /\ leg.status # "NONE"
    /\ role = "TARGET" =>
          /\ leg.filled <= orders[0].filled
          /\ leg.status = "FILLED" => orders[0].status = "FILLED"
    /\ role = "COMPENSATION" /\ leg.status \in TerminalLeg =>
             /\ orders[leg.attempt].status \in TerminalOrder
             /\ orders[leg.attempt].filled = leg.filled

\* Settling a leg with what the venue supports keeps the runner faithful.
LEMMA RunnerSettled ==
    ASSUME NEW rn \in RunRecord, NEW venue \in Venues, NEW stored \in GroupRecord,
           RunnerFaithful(rn, venue, stored), rn.pc # "idle",
           NEW l \in Legs, l \in rn.todo \cup rn.calling, NEW leg \in LegRecord,
           NEW pc \in {"sync", "stop"}, pc = "stop" => rn.role = "TARGET",
           leg.attempt = Leg(rn, l).attempt, leg.requested = Leg(rn, l).requested,
           Supported(leg, rn.role, venue[l])
    PROVE  RunnerFaithful(Settled(rn, l, leg, pc), venue, stored)
<1> DEFINE draft == [rn.draft EXCEPT !.legs[rn.role][l] = leg]
           after == Settled(rn, l, leg, pc)
<1>1. /\ after.pc = pc /\ after.role = rn.role /\ after.base = rn.base
      /\ after.draft = draft /\ after.todo = rn.todo \ {l} /\ after.calling = {}
      /\ after.behind = rn.behind
  BY DEF RunRecord, Settled
<1>2. /\ rn.draft \in GroupRecord
      /\ rn.role \in Roles
      /\ rn.draft.legs \in [Roles -> [Legs -> LegRecord]]
      /\ draft.closed = rn.draft.closed
      /\ \A role \in Roles, m \in Legs :
            draft.legs[role][m] = IF role = rn.role /\ m = l THEN leg
                                  ELSE rn.draft.legs[role][m]
  BY DEF RunRecord, GroupRecord
<1> HIDE DEF after, draft
<1>3. \A m \in Legs :
        /\ Target(draft, m) = IF rn.role = "TARGET" /\ m = l THEN leg ELSE Target(rn.draft, m)
        /\ Compensation(draft, m) = IF rn.role = "COMPENSATION" /\ m = l THEN leg
                                    ELSE Compensation(rn.draft, m)
  BY <1>2 DEF Target, Compensation, Roles
<1>4. Leg(rn, l) = IF rn.role = "TARGET" THEN Target(rn.draft, l) ELSE Compensation(rn.draft, l)
  BY <1>2 DEF Leg, Target, Compensation, Roles
<1>5. rn.role = "TARGET" \/ rn.role = "COMPENSATION"
  BY <1>2 DEF Roles
<1>6. TargetsKnown(draft, venue)
  <2>1. TargetsKnown(rn.draft, venue)
    BY DEF RunnerFaithful, Known
  <2>2. QED
    BY <1>3, <1>4, <2>1 DEF TargetsKnown, Supported
<1>7. ReversalsKnown(draft, venue, stored)
  <2> SUFFICES ASSUME NEW m \in Legs
               PROVE  ReversalKnown(Compensation(draft, m), venue[m], Compensation(stored, m))
    BY DEF ReversalsKnown
  <2>1. ReversalKnown(Compensation(rn.draft, m), venue[m], Compensation(stored, m))
    BY DEF RunnerFaithful, Known, ReversalsKnown
  <2>2. CASE rn.role = "COMPENSATION" /\ m = l
    <3>1. Compensation(rn.draft, m).attempt # 0
      BY <2>2 DEF RunnerFaithful
    <3>2. QED
      BY <1>3, <1>4, <2>1, <2>2, <3>1 DEF ReversalKnown, Supported
  <2>3. CASE ~(rn.role = "COMPENSATION" /\ m = l)
    BY <1>3, <2>1, <2>3
  <2>4. QED
    BY <2>2, <2>3
<1>8. SameReversals(draft, rn.base)
  <2>1. SameReversals(rn.draft, rn.base)
    BY DEF RunnerFaithful
  <2>2. QED
    BY <1>2, <1>3, <1>4, <2>1 DEF SameReversals
<1>9. rn.role = "COMPENSATION" => \A m \in rn.todo : Compensation(draft, m).attempt # 0
  <2>1. rn.todo \subseteq Legs
    BY DEF RunRecord
  <2>2. QED
    BY <1>3, <1>4, <2>1 DEF RunnerFaithful
<1>10. RunnerFaithful(after, venue, stored)
  BY <1>1, <1>6, <1>7, <1>8, <1>9 DEF RunnerFaithful, Known
<1>11. QED
  BY <1>10 DEF after

-----------------------------------------------------------------------------
(* Saves.                                                                   *)

\* The part of the invariant that is about the stored group.
StoredSound(account, venue, stored) ==
    /\ Known(stored, venue, stored)
    /\ VenueMatches(account, venue, stored)
    /\ ReversalsBounded(stored)
    /\ HedgedComplete(stored)

\* Saving what a reconciliation pass learned keeps the stored group sound.
LEMMA SavePass ==
    ASSUME VenueTypeOK, group \in GroupRecord, StoredSound(position, order, group),
           NEW d \in GroupRecord, Known(d, order, group), SameReversals(d, group),
           NEW u \in GroupRecord, u.legs = d.legs, u.closed = d.closed, Legal(u)
    PROVE  StoredSound(position, order, u) /\ GroupGrows(group, u)
<1>1. \A l \in Legs : /\ Target(u, l) = Target(d, l)
                      /\ Compensation(u, l) = Compensation(d, l)
                      /\ Compensation(u, l).attempt = Compensation(group, l).attempt
                      /\ Compensation(u, l).requested = Compensation(group, l).requested
                      /\ Compensation(u, l).attempt \in Nat
                      /\ u.closed[l] = group.closed[l]
  BY GroupParts DEF Target, Compensation, SameReversals, LegRecord, Attempts
<1>2. GroupGrows(group, u)
  BY <1>1 DEF GroupGrows
<1>3. Known(u, order, u)
  <2>1. Known(u, order, group)
    BY <1>1 DEF Known, TargetsKnown, ReversalsKnown
  <2>2. order \in Venues
    BY DEF VenueTypeOK, Venues
  <2>3. QED
    BY <1>2, <2>1, <2>2, KnownStored
<1>4. VenueMatches(position, order, u)
  <2>1. OrdersMatchLegs(order, u)
    BY <1>1 DEF StoredSound, VenueMatches, OrdersMatchLegs, OrderMatches
  <2>2. PositionBooked(position, order, u)
    BY <1>1 DEF StoredSound, VenueMatches, PositionBooked, LatestFill
  <2>3. QED
    BY <2>1, <2>2 DEF StoredSound, VenueMatches
<1>5. ReversalsBounded(u)
  <2> SUFFICES ASSUME NEW l \in Legs
               PROVE  IF Compensation(u, l).attempt = 0
                      THEN u.closed[l] = 0
                      ELSE /\ Target(u, l).status \in TerminalLeg
                           /\ u.closed[l] + Compensation(u, l).requested = Target(u, l).filled
    BY DEF ReversalsBounded
  <2>1. IF Compensation(group, l).attempt = 0
        THEN group.closed[l] = 0
        ELSE /\ Target(group, l).status \in TerminalLeg
             /\ group.closed[l] + Compensation(group, l).requested = Target(group, l).filled
    BY DEF StoredSound, ReversalsBounded
  <2>2. LegProgress(Target(group, l), Target(u, l))
    BY DEF Legal, ValidTransition
  <2>3. QED
    BY <1>1, <2>1, <2>2 DEF LegProgress
<1>6. HedgedComplete(u)
  BY DEF Legal, SelfConsistent, HedgedComplete
<1>7. QED
  BY <1>2, <1>3, <1>4, <1>5, <1>6 DEF StoredSound

\* Saving new reversals keeps it sound: each is for the whole residual.
LEMMA SaveReversal ==
    ASSUME VenueTypeOK, group \in GroupRecord, StoredSound(position, order, group),
           NEW rn \in RunRecord, rn.base = group, AllTargetsTerminal(group),
           Reversal(rn) \in GroupRecord, Legal(Reversal(rn))
    PROVE  /\ StoredSound(position, order, Reversal(rn))
           /\ GroupGrows(group, Reversal(rn))
<1> DEFINE u == Reversal(rn)
<1>1. \A l \in Legs :
        /\ Target(u, l) = Target(group, l)
        /\ Compensation(u, l) =
              IF NeedsAttempt(group, l)
              THEN PendingLeg(Compensation(group, l).attempt + 1, Residual(group, l))
              ELSE Compensation(group, l)
        /\ u.closed[l] = IF NeedsAttempt(group, l)
                         THEN group.closed[l] + Compensation(group, l).filled
                         ELSE group.closed[l]
  BY DEF Reversal, WithCompensations, Target, Compensation, GroupRecord, Roles
<1>2. u \in GroupRecord /\ SelfConsistent(u)
  BY DEF Legal
<1> HIDE DEF u
<1>3. order \in Venues
  BY DEF VenueTypeOK, Venues
<1>4. ASSUME NEW l \in Legs, NeedsAttempt(group, l)
      PROVE  /\ Compensation(u, l).attempt = Compensation(group, l).attempt + 1
             /\ Compensation(u, l).status = "PENDING"
             /\ Compensation(u, l).requested = Residual(group, l)
             /\ u.closed[l] = group.closed[l] + Compensation(group, l).filled
             /\ u.closed[l] + Compensation(u, l).requested = Target(group, l).filled
             /\ Target(group, l).status \in TerminalLeg
             /\ Compensation(group, l).attempt \in Nat
             /\ Compensation(group, l).attempt # 0 =>
                   /\ order[l][Compensation(group, l).attempt].status \in TerminalOrder
                   /\ order[l][Compensation(group, l).attempt].filled = Compensation(group, l).filled
             /\ Compensation(group, l).attempt = 0 => Compensation(group, l).filled = 0
  <2>1. /\ Compensation(group, l) \in LegRecord
        /\ Target(group, l) \in LegRecord
        /\ group.closed[l] \in Nat
    BY GroupParts
  <2>2. Compensation(u, l) = PendingLeg(Compensation(group, l).attempt + 1, Residual(group, l))
    BY <1>1, <1>4
  <2>3. ReversalKnown(Compensation(group, l), order[l], Compensation(group, l))
    BY DEF StoredSound, Known, ReversalsKnown
  <2>4. Compensation(group, l).status \in TerminalLeg \cup {"NONE"}
    BY <1>4 DEF NeedsAttempt, Live
  <2>5. u.closed[l] = group.closed[l] + Compensation(group, l).filled
    BY <1>1, <1>4
  <2>6. u.closed[l] + Residual(group, l) = Target(group, l).filled
    BY <2>1, <2>5 DEF Residual, LegRecord
  <2>7. Compensation(group, l).attempt \in Nat
    BY <2>1 DEF LegRecord, Attempts
  <2>8. Compensation(group, l).attempt = 0 => Compensation(group, l).filled = 0
    BY <2>3 DEF ReversalKnown, NoLeg
  <2>9. QED
    BY <2>2, <2>3, <2>4, <2>5, <2>6, <2>7, <2>8
       DEF PendingLeg, ReversalKnown, AllTargetsTerminal
<1>5. ASSUME NEW l \in Legs, ~NeedsAttempt(group, l)
      PROVE  Compensation(u, l) = Compensation(group, l) /\ u.closed[l] = group.closed[l]
  BY <1>1, <1>5
<1>6. GroupGrows(group, u)
  <2>1. \A l \in Legs : Compensation(group, l).attempt \in Nat
    BY GroupParts DEF LegRecord, Attempts
  <2>2. QED
    BY <1>4, <1>5, <2>1 DEF GroupGrows
<1>7. Known(u, order, u)
  <2>1. TargetsKnown(u, order)
    BY <1>1 DEF StoredSound, Known, TargetsKnown
  <2>2. ASSUME NEW l \in Legs
        PROVE  ReversalKnown(Compensation(u, l), order[l], Compensation(u, l))
    <3>1. CASE NeedsAttempt(group, l)
      <4>1. Compensation(u, l).attempt \in Nat /\ Compensation(u, l).attempt # 0
        BY <1>4, <3>1
      <4>2. QED
        BY <1>4, <3>1, <4>1 DEF ReversalKnown, TerminalLeg
    <3>2. CASE ~NeedsAttempt(group, l)
      BY <1>5, <3>2 DEF StoredSound, Known, ReversalsKnown
    <3>3. QED
      BY <3>1, <3>2
  <2>3. QED
    BY <2>1, <2>2 DEF Known, ReversalsKnown
<1>8. OrdersMatchLegs(order, u)
  <2> SUFFICES ASSUME NEW l \in Legs, NEW k \in Attempts
               PROVE  OrderMatches(order[l][k], l, k, Compensation(u, l))
    BY DEF OrdersMatchLegs
  <2>1. OrderMatches(order[l][k], l, k, Compensation(group, l))
    BY DEF StoredSound, VenueMatches, OrdersMatchLegs
  <2>2. k \in Nat
    BY DEF Attempts
  <2>3. CASE NeedsAttempt(group, l)
    BY <1>4, <2>1, <2>2, <2>3 DEF OrderMatches
  <2>4. CASE ~NeedsAttempt(group, l)
    BY <1>5, <2>1, <2>4
  <2>5. QED
    BY <2>3, <2>4
<1>9. PositionBooked(position, order, u)
  <2> SUFFICES ASSUME NEW l \in Legs
               PROVE  position[l] = order[l][0].filled - u.closed[l]
                                       - LatestFill(order[l], Compensation(u, l))
    BY DEF PositionBooked
  <2>1. position[l] = order[l][0].filled - group.closed[l]
                         - LatestFill(order[l], Compensation(group, l))
    BY DEF StoredSound, VenueMatches, PositionBooked
  <2>2. CASE NeedsAttempt(group, l)
    <3> DEFINE k == Compensation(u, l).attempt
    <3>1. k \in Attempts /\ Compensation(group, l).attempt \in Attempts
      BY <1>2, GroupParts DEF LegRecord
    <3>2. OrderMatches(order[l][k], l, k, Compensation(group, l))
      BY <3>1 DEF StoredSound, VenueMatches, OrdersMatchLegs
    <3>3. k = Compensation(group, l).attempt + 1 /\ Compensation(group, l).attempt \in Nat
      BY <1>4, <2>2
    <3>4. order[l][k].status = "NONE"
      BY <3>2, <3>3 DEF OrderMatches
    <3>5. order[l][k].filled = 0
      BY <3>1, <3>4 DEF StoredSound, VenueMatches, OrdersSound, OrderSound, NoOrder
    <3>6. /\ 0 \in Attempts
          /\ \A j \in Attempts : order[l][j].filled \in Nat
      BY LimitsAssumption DEF Attempts, VenueTypeOK, OrderRecord
    <3>7. group.closed[l] \in Nat
      BY GroupParts
    <3>8. LatestFill(order[l], Compensation(u, l)) = 0
      BY <3>5 DEF LatestFill
    <3>9. LatestFill(order[l], Compensation(group, l)) = Compensation(group, l).filled
      BY <1>4, <2>2 DEF LatestFill
    <3>10. Compensation(group, l).filled \in Nat
      BY GroupParts DEF LegRecord
    <3>11. u.closed[l] = group.closed[l] + Compensation(group, l).filled
      BY <1>4, <2>2
    <3>12. QED
      BY <2>1, <3>6, <3>7, <3>8, <3>9, <3>10, <3>11
  <2>3. CASE ~NeedsAttempt(group, l)
    BY <1>5, <2>1, <2>3
  <2>4. QED
    BY <2>2, <2>3
<1>10. ReversalsBounded(u)
  <2> SUFFICES ASSUME NEW l \in Legs
               PROVE  IF Compensation(u, l).attempt = 0
                      THEN u.closed[l] = 0
                      ELSE /\ Target(u, l).status \in TerminalLeg
                           /\ u.closed[l] + Compensation(u, l).requested = Target(u, l).filled
    BY DEF ReversalsBounded
  <2>1. CASE NeedsAttempt(group, l)
    <3>1. Compensation(u, l).attempt # 0
      BY <1>4, <2>1
    <3>2. QED
      BY <1>1, <1>4, <2>1, <3>1
  <2>2. CASE ~NeedsAttempt(group, l)
    BY <1>1, <1>5, <2>2 DEF StoredSound, ReversalsBounded
  <2>3. QED
    BY <2>1, <2>2
<1>11. HedgedComplete(u)
  BY <1>2 DEF SelfConsistent, HedgedComplete
<1>12. StoredSound(position, order, u)
  BY <1>7, <1>8, <1>9, <1>10, <1>11 DEF StoredSound, VenueMatches
<1>13. QED
  BY <1>6, <1>12 DEF u

-----------------------------------------------------------------------------
(* The invariant, step by step.                                             *)

\* A venue that stands still has progressed by nothing.
LEMMA GrowsRefl == ASSUME VenueTypeOK PROVE Grows(order, order) /\ order \in Venues
BY DEF VenueTypeOK, Grows, OrderRecord, Venues

\* A runner that is not idle works on a group that exists.
LEMMA Started ==
    ASSUME TypeOK, RaceInvariant, NEW r \in Runners, run[r].pc # "idle"
    PROVE  group.status \in GroupStatus
BY DEF RaceInvariant, Unstarted, TypeOK, GroupRecord

\* The venue moves on behalf of nobody's save: everybody's view survives.
LEMMA MarketStep ==
    ASSUME TypeOK, RaceInvariant, group' = group, run' = run,
           order' \in Venues, VenueMatches(position', order', group), Grows(order, order')
    PROVE  RaceInvariant'
<1>1. order \in Venues /\ group \in GroupRecord
  BY DEF TypeOK, VenueTypeOK, Venues
<1>2. Known(group, order', group)
  BY <1>1, KnownVenue DEF RaceInvariant
<1>3. \A r \in Runners : RunnerFaithful(run[r], order', group)
  BY <1>1, RunnerVenue DEF RaceInvariant, TypeOK
<1>4. QED
  BY <1>2, <1>3 DEF RaceInvariant

\* A runner steps, perhaps with the venue, and does not save.
LEMMA CallStep ==
    ASSUME TypeOK, RaceInvariant, NEW r \in Runners, NEW after,
           group' = group, group.status \in GroupStatus,
           run' = [run EXCEPT ![r] = after],
           order' \in Venues, VenueMatches(position', order', group), Grows(order, order'),
           RunnerFaithful(after, order', group)
    PROVE  RaceInvariant'
<1>1. order \in Venues /\ group \in GroupRecord
  BY DEF TypeOK, VenueTypeOK, Venues
<1>2. Known(group, order', group)
  BY <1>1, KnownVenue DEF RaceInvariant
<1>3. \A s \in Runners : RunnerFaithful(run'[s], order', group)
  <2> SUFFICES ASSUME NEW s \in Runners PROVE RunnerFaithful(run'[s], order', group)
    OBVIOUS
  <2>1. RunnerFaithful(run[s], order', group)
    BY <1>1, RunnerVenue DEF RaceInvariant, TypeOK
  <2>2. run'[s] = IF s = r THEN after ELSE run[s]
    BY DEF TypeOK
  <2>3. QED
    BY <2>1, <2>2
<1>4. Unstarted(group', run')
  BY DEF Unstarted, GroupStatus, TerminalGroup, RunningGroup
<1>5. QED
  BY <1>2, <1>3, <1>4 DEF RaceInvariant

\* A runner saves, successfully or not.
LEMMA SaveStep ==
    ASSUME TypeOK, RaceInvariant, NEW r \in Runners, run[r].pc # "idle",
           NEW u \in GroupRecord, NEW next, Save(r, u, next),
           run[r].behind = 0 /\ Legal(u) =>
              StoredSound(position, order, u) /\ GroupGrows(group, u),
           StoredSound(position, order, u) => RunnerFaithful(next, order, u),
           order' = order, position' = position
    PROVE  RaceInvariant'
<1>1. /\ order \in Venues /\ group \in GroupRecord
      /\ StoredSound(position, order, group)
      /\ \A s \in Runners : RunnerFaithful(run[s], order, group)
      /\ \A s \in Runners : run[s] \in RunRecord
      /\ group.status \in GroupStatus
  BY Started DEF TypeOK, VenueTypeOK, Venues, RaceInvariant, StoredSound
<1>2. CASE run[r].behind = 0 /\ Legal(u)
  <2>1. /\ group' = u
        /\ run' = [s \in Runners |-> IF s = r THEN next ELSE Overtaken(run[s])]
    BY <1>2 DEF Save
  <2>2. StoredSound(position, order, u) /\ GroupGrows(group, u) /\ RunnerFaithful(next, order, u)
    BY <1>2
  <2>3. \A s \in Runners : RunnerFaithful(run'[s], order, u)
    <3> SUFFICES ASSUME NEW s \in Runners PROVE RunnerFaithful(run'[s], order, u)
      OBVIOUS
    <3>1. RunnerFaithful(Overtaken(run[s]), order, u)
      BY <1>1, <2>2, RunnerStored
    <3>2. QED
      BY <2>1, <2>2, <3>1
  <2>4. u.status # "NONE"
    <3>1. u.status \in AllowedStatus[group.status]
      BY <1>2 DEF Legal, ValidTransition
    <3>2. AllowedStatus[group.status] \subseteq GroupStatus
      BY <1>1 DEF AllowedStatus, GroupStatus, TerminalGroup, RunningGroup
    <3>3. QED
      BY <3>1, <3>2 DEF GroupStatus, TerminalGroup, RunningGroup
  <2>5. QED
    BY <2>1, <2>2, <2>3, <2>4 DEF RaceInvariant, StoredSound, Unstarted
<1>3. CASE ~(run[r].behind = 0 /\ Legal(u))
  <2>1. /\ group' = group
        /\ run' = [run EXCEPT ![r] = IF run[r].behind = 1 /\ group = u THEN next ELSE IdleRun]
    BY <1>3 DEF Save
  <2> DEFINE after == IF run[r].behind = 1 /\ group = u THEN next ELSE IdleRun
  <2>2. RunnerFaithful(IdleRun, order, group)
    BY <1>1, RunnerIdle DEF StoredSound
  <2>3. RunnerFaithful(after, order, group)
    BY <1>1, <2>2
  <2>4. run' = [run EXCEPT ![r] = after]
    BY <2>1
  <2> HIDE DEF after
  <2>5. Grows(order, order')
    BY GrowsRefl DEF TypeOK
  <2>6. VenueMatches(position', order', group)
    BY <1>1 DEF StoredSound
  <2>7. QED
    BY <1>1, <2>1, <2>3, <2>4, <2>5, <2>6, CallStep
<1>4. QED
  BY <1>2, <1>3

\* Wherever a call goes on from a known group value, it is faithful.
LEMMA AfterFaithful ==
    ASSUME VenueTypeOK, NEW stored \in GroupRecord, Known(stored, order, stored),
           NEW rn \in RunRecord, NEW g \in GroupRecord, NEW behind \in 0 .. 2,
           Known(g, order, stored), behind = 0 => g = stored
    PROVE  /\ RunnerFaithful(Sync(rn, g, "TARGET", behind), order, stored)
           /\ RunnerFaithful(Stop(rn, g, behind), order, stored)
           /\ RunnerFaithful(AfterStop(rn, g, behind), order, stored)
           /\ RunnerFaithful(AfterReverse(rn, g, behind), order, stored)
           /\ RunnerFaithful(AfterReversed(rn, g, behind), order, stored)
<1>1. order \in Venues /\ RunnerFaithful(IdleRun, order, stored)
  BY GrowsRefl, RunnerIdle
<1>2. \A role \in Roles : Unfinished(g, role) \in SUBSET Legs
  BY DEF Unfinished
<1>3. RunnerFaithful(Sync(rn, g, "TARGET", behind), order, stored)
  BY <1>1, <1>2, RunnerGoOn DEF Sync, PCs, Roles
<1>4. RunnerFaithful(Stop(rn, g, behind), order, stored)
  BY <1>1, <1>2, RunnerGoOn DEF Stop, PCs, Roles
<1>5. RunnerFaithful(AfterStop(rn, g, behind), order, stored)
  <2>1. AllTargetsTerminal(g) =>
          RunnerFaithful(GoOn(rn, g, "reverse", "TARGET", {}, behind), order, stored)
    BY <1>1, RunnerGoOn DEF PCs, Roles
  <2>2. QED
    BY <1>1, <2>1 DEF AfterStop
<1>6. RunnerFaithful(GoOn(rn, g, "flat", "COMPENSATION", {}, behind), order, stored)
  BY <1>1, RunnerGoOn DEF PCs, Roles
<1>7. RunnerFaithful(Sync(rn, g, "COMPENSATION", behind), order, stored)
  <2>1. \A l \in Unfinished(g, "COMPENSATION") : Compensation(g, l).attempt # 0
    BY <1>1, LiveAttempt
  <2>2. QED
    BY <1>1, <1>2, <2>1, RunnerGoOn DEF Sync, PCs, Roles
<1>8. QED
  BY <1>1, <1>3, <1>4, <1>5, <1>6, <1>7 DEF AfterReverse, AfterReversed

\* What a runner nobody overtook saves from a pass keeps the store sound.
LEMMA PassSaved ==
    ASSUME TypeOK, RaceInvariant, NEW r \in Runners, run[r].pc # "idle",
           NEW d \in {run[r].draft, run[r].base},
           NEW u \in GroupRecord, u.legs = d.legs, u.closed = d.closed,
           run[r].behind = 0, Legal(u)
    PROVE  StoredSound(position, order, u) /\ GroupGrows(group, u)
<1>1. run[r] \in RunRecord /\ group \in GroupRecord /\ VenueTypeOK
  BY DEF TypeOK
<1>2. /\ run[r].base = group
      /\ Known(d, order, group)
      /\ SameReversals(d, group)
  BY DEF RaceInvariant, RunnerFaithful, SameReversals
<1>3. d \in GroupRecord
  BY <1>1 DEF RunRecord
<1>4. StoredSound(position, order, group)
  BY DEF RaceInvariant, StoredSound
<1>5. QED
  BY <1>1, <1>2, <1>3, <1>4, SavePass

\* The saves of a reconciliation change statuses and instants only.
LEMMA SavedFields ==
    ASSUME NEW rn \in RunRecord
    PROVE  /\ Decision(rn).legs = rn.draft.legs /\ Decision(rn).closed = rn.draft.closed
           /\ Stamped(rn).legs = rn.draft.legs /\ Stamped(rn).closed = rn.draft.closed
           /\ Flattened(rn).legs = rn.base.legs /\ Flattened(rn).closed = rn.base.closed
<1>1. rn.draft \in GroupRecord /\ rn.base \in GroupRecord
  BY DEF RunRecord
<1>2. /\ Stamped(rn).legs = rn.draft.legs /\ Stamped(rn).closed = rn.draft.closed
      /\ Flattened(rn).legs = rn.base.legs /\ Flattened(rn).closed = rn.base.closed
  BY <1>1 DEF Stamped, Flattened, GroupRecord
<1>3. \A a, b, c : /\ [rn.draft EXCEPT !.status = a, !.since = b, !.updated = c].legs = rn.draft.legs
                  /\ [rn.draft EXCEPT !.status = a, !.since = b, !.updated = c].closed = rn.draft.closed
  BY <1>1 DEF GroupRecord
<1>4. \A a, b, c :
        /\ [[rn.draft EXCEPT !.since = b, !.updated = c] EXCEPT !.status = a].legs = rn.draft.legs
        /\ [[rn.draft EXCEPT !.since = b, !.updated = c] EXCEPT !.status = a].closed = rn.draft.closed
  BY <1>1 DEF GroupRecord
<1>5. QED
  BY <1>2, <1>3, <1>4 DEF Decision

\* A call that only moves on, keeping its value, keeps the invariant.
LEMMA KeepStep ==
    ASSUME TypeOK, RaceInvariant, NEW r \in Runners, run[r].pc # "idle",
           NEW after, Keep(r, after), RunnerFaithful(after, order, group),
           order' = order, position' = position
    PROVE  RaceInvariant'
<1>1. group' = group /\ run' = [run EXCEPT ![r] = after]
  BY DEF Keep
<1>2. group.status \in GroupStatus
  BY Started
<1>3. Grows(order, order') /\ order' \in Venues
  BY GrowsRefl DEF TypeOK
<1>4. VenueMatches(position', order', group)
  BY DEF RaceInvariant
<1>5. QED
  BY <1>1, <1>2, <1>3, <1>4, CallStep

\* What is known of the leg in hand.
LEMMA LegKnown ==
    ASSUME NEW rn \in RunRecord, NEW l \in Legs, NEW venue, NEW stored,
           RunnerFaithful(rn, venue, stored)
    PROVE  /\ rn.role = "TARGET" \/ rn.role = "COMPENSATION"
           /\ rn.role = "TARGET" =>
                /\ Leg(rn, l).attempt = 0
                /\ Leg(rn, l).requested = Quantity[l]
                /\ Leg(rn, l).filled <= venue[l][0].filled
           /\ rn.role = "COMPENSATION" =>
                /\ Leg(rn, l) = Compensation(rn.draft, l)
                /\ ReversalKnown(Leg(rn, l), venue[l], Compensation(stored, l))
BY DEF RunRecord, Roles, Leg, Target, Compensation, RunnerFaithful, Known, TargetsKnown,
       ReversalsKnown

(* Settling a leg from the venue's order, after the venue may have moved.   *)
LEMMA ObserveStep ==
    ASSUME TypeOK, RaceInvariant, NEW r \in Runners, run[r].pc # "idle",
           NEW l \in Legs, l \in run[r].todo \cup run[r].calling,
           NEW pc \in {"sync", "stop"}, pc = "stop" => run[r].role = "TARGET",
           order' \in Venues, VenueMatches(position', order', group), Grows(order, order'),
           NEW o \in OrderRecord, o = order'[l][Leg(run[r], l).attempt], o.status # "NONE",
           Observe(r, l, o, pc), group' = group
    PROVE  RaceInvariant'
<1>1. /\ run[r] \in RunRecord /\ group \in GroupRecord /\ order \in Venues
      /\ group.status \in GroupStatus
  BY Started, GrowsRefl DEF TypeOK
<1>2. RunnerFaithful(run[r], order', group)
  BY <1>1, RunnerVenue DEF RaceInvariant
<1> DEFINE leg == FromOrder(Leg(run[r], l), o)
<1>3. leg \in LegRecord
  BY <1>1, LegType, FromOrderType
<1>4. /\ leg.attempt = Leg(run[r], l).attempt /\ leg.requested = Leg(run[r], l).requested
      /\ leg.status = o.status /\ leg.filled = o.filled
  BY <1>1, LegType DEF FromOrder, LegRecord
<1>5. Supported(leg, run[r].role, order'[l])
  <2>1. run[r].role = "TARGET" => Leg(run[r], l).attempt = 0
    BY <1>1, <1>2, LegKnown
  <2>2. o.filled <= o.filled
    BY DEF OrderRecord
  <2>3. QED
    BY <1>4, <2>1, <2>2 DEF Supported, TerminalLeg, TerminalOrder
<1> HIDE DEF leg
<1>6. RunnerFaithful(Settled(run[r], l, leg, pc), order', group)
  BY <1>1, <1>2, <1>3, <1>4, <1>5, RunnerSettled
<1>7. run' = [run EXCEPT ![r] = Settled(run[r], l, leg, pc)]
  BY DEF Observe, Settle, leg
<1>8. QED
  BY <1>1, <1>6, <1>7, CallStep

\* Giving the leg in hand a status that no order supports.
LEMMA MarkStep ==
    ASSUME TypeOK, RaceInvariant, NEW r \in Runners, run[r].pc # "idle",
           NEW l \in Legs, l \in run[r].todo \cup run[r].calling,
           NEW pc \in {"sync", "stop"}, pc = "stop" => run[r].role = "TARGET",
           order' \in Venues, VenueMatches(position', order', group), Grows(order, order'),
           NEW status \in {"UNKNOWN", "EXPIRED", "CANCELED"},
           status # "UNKNOWN" => run[r].role = "TARGET",
           Settle(r, l, WithLegStatus(Leg(run[r], l), status), pc), group' = group
    PROVE  RaceInvariant'
<1>1. /\ run[r] \in RunRecord /\ group \in GroupRecord /\ order \in Venues
      /\ group.status \in GroupStatus
  BY Started, GrowsRefl DEF TypeOK
<1>2. RunnerFaithful(run[r], order', group)
  BY <1>1, RunnerVenue DEF RaceInvariant
<1> DEFINE leg == WithLegStatus(Leg(run[r], l), status)
<1>3. /\ leg \in LegRecord /\ leg.status = status
      /\ leg.attempt = Leg(run[r], l).attempt /\ leg.requested = Leg(run[r], l).requested
      /\ leg.filled = Leg(run[r], l).filled
  BY <1>1, LegType DEF WithLegStatus, LegRecord, LegStatus, TerminalLeg
<1>4. Supported(leg, run[r].role, order'[l])
  <2>1. run[r].role = "TARGET" => Leg(run[r], l).filled <= order'[l][0].filled
    BY <1>1, <1>2, LegKnown
  <2>2. QED
    BY <1>3, <2>1 DEF Supported, TerminalLeg
<1> HIDE DEF leg
<1>5. RunnerFaithful(Settled(run[r], l, leg, pc), order', group)
  BY <1>1, <1>2, <1>3, <1>4, RunnerSettled
<1>6. run' = [run EXCEPT ![r] = Settled(run[r], l, leg, pc)]
  BY DEF Settle, leg
<1>7. QED
  BY <1>1, <1>5, <1>6, CallStep

\* Waiting for the answer of a call, after the venue may have moved.
LEMMA WaitStep ==
    ASSUME TypeOK, RaceInvariant, NEW r \in Runners, run[r].pc # "idle",
           NEW l \in Legs, l \in run[r].todo \cup run[r].calling,
           NEW pc \in PCs \ {"idle", "reverse"},
           pc \in {"stop", "cancel", "recheck"} => run[r].role = "TARGET",
           order' \in Venues, VenueMatches(position', order', group), Grows(order, order'),
           Call(r, l, pc), group' = group
    PROVE  RaceInvariant'
<1>1. /\ run[r] \in RunRecord /\ group \in GroupRecord /\ order \in Venues
      /\ group.status \in GroupStatus
  BY Started, GrowsRefl DEF TypeOK
<1>2. RunnerFaithful(run[r], order', group)
  BY <1>1, RunnerVenue DEF RaceInvariant
<1>3. RunnerFaithful([run[r] EXCEPT !.pc = pc, !.calling = {l}], order', group)
  BY <1>1, <1>2, RunnerCall
<1>4. run' = [run EXCEPT ![r] = [run[r] EXCEPT !.pc = pc, !.calling = {l}]]
  BY DEF Call, TypeOK
<1>5. QED
  BY <1>1, <1>3, <1>4, CallStep

\* When the venue stands still, its part of the invariant stands still.
LEMMA VenueSame ==
    ASSUME TypeOK, RaceInvariant, order' = order, position' = position
    PROVE  order' \in Venues /\ VenueMatches(position', order', group) /\ Grows(order, order')
BY GrowsRefl DEF TypeOK, RaceInvariant

\* An answered submission advances the order of the leg in hand.
LEMMA SubmitAdvances ==
    ASSUME TypeOK, RaceInvariant, NEW r \in Runners,
           NEW l \in run[r].calling, NEW o \in SubmitResults(run[r], l)
    PROVE  /\ l \in Legs /\ o \in OrderRecord /\ o.status # "NONE"
           /\ Leg(run[r], l).attempt \in Attempts
           /\ Advances(order[l][Leg(run[r], l).attempt], o, l, Leg(run[r], l).attempt, group)
<1> DEFINE k == Leg(run[r], l).attempt
<1>1. run[r] \in RunRecord /\ l \in Legs /\ RunnerFaithful(run[r], order, group)
  BY DEF TypeOK, RunRecord, RaceInvariant
<1>2. Leg(run[r], l) \in LegRecord /\ k \in Attempts
  BY <1>1, LegType DEF LegRecord
<1>3. o \in OrderRecord /\ o.status # "NONE"
  BY <1>1, SubmitResultsType DEF TypeOK
<1>4. CASE order[l][k].status # "NONE"
  BY <1>1, <1>2, <1>3, <1>4 DEF SubmitResults, OrderOf, Advances
<1>5. CASE order[l][k].status = "NONE"
  <2>1. o \in SubmitOutcomes(k, Leg(run[r], l).requested)
    BY <1>5 DEF SubmitResults, OrderOf
  <2>2. o.requested = Leg(run[r], l).requested /\ OrderSound(o)
    BY <1>2, <2>1 DEF SubmitOutcomes, WithStatus, OrderSound, LegRecord
  <2>3. order[l][k] = NoOrder
    BY <1>1, <1>2, <1>5 DEF RaceInvariant, VenueMatches, OrdersSound, OrderSound
  <2>4. order[l][k].status \notin TerminalOrder /\ order[l][k].filled <= o.filled
    BY <1>3, <2>3 DEF NoOrder, TerminalOrder, OrderRecord
  <2>5. OrderMatches(order[l][k], l, k, Compensation(group, l))
    BY <1>1, <1>2 DEF RaceInvariant, VenueMatches, OrdersMatchLegs
  <2>6. CASE run[r].role = "TARGET"
    <3>1. k = 0 /\ Leg(run[r], l).requested = Quantity[l]
      BY <1>1, <2>6, LegKnown
    <3>2. QED
      BY <1>1, <1>2, <1>3, <2>2, <2>4, <3>1 DEF Advances
  <2>7. CASE run[r].role = "COMPENSATION"
    <3>1. /\ Leg(run[r], l) = Compensation(run[r].draft, l)
          /\ ReversalKnown(Leg(run[r], l), order[l], Compensation(group, l))
      BY <1>1, <2>7, LegKnown
    <3>2. k # 0
      BY <1>1, <2>7, <3>1 DEF RunnerFaithful
    <3>3. k \in Nat /\ Compensation(group, l).attempt \in Nat
      BY <1>1, <1>2, GroupParts DEF TypeOK, LegRecord, Attempts
    <3>4. k = Compensation(group, l).attempt
      BY <1>5, <2>5, <3>1, <3>2, <3>3 DEF OrderMatches, ReversalKnown, TerminalOrder
    <3>5. o.requested = Compensation(group, l).requested
      BY <2>2, <3>1, <3>4 DEF ReversalKnown
    <3>6. QED
      BY <1>1, <1>2, <1>3, <2>2, <2>4, <3>2, <3>4, <3>5 DEF Advances
  <2>8. QED
    BY <1>1, <2>6, <2>7, LegKnown
<1>6. QED
  BY <1>1, <1>2, <1>3, <1>4, <1>5

\* So does a cancel request, effective or not.
LEMMA CancelAdvances ==
    ASSUME TypeOK, RaceInvariant, NEW r \in Runners, NEW l \in Legs,
           NEW o \in {OrderOf(run[r], l), Canceled(OrderOf(run[r], l))}
    PROVE  /\ o \in OrderRecord
           /\ Leg(run[r], l).attempt \in Attempts
           /\ Advances(order[l][Leg(run[r], l).attempt], o, l, Leg(run[r], l).attempt, group)
<1> DEFINE k == Leg(run[r], l).attempt
           old == order[l][k]
<1>1. k \in Attempts /\ old \in OrderRecord /\ o \in OrderRecord
  BY OrderOfType DEF OrderOf
<1>2. CASE o = old
  BY <1>1, <1>2 DEF Advances
<1>3. CASE o # old
  <2>1. old.status \in LiveOrder /\ o = [old EXCEPT !.status = "CANCELED"]
    BY <1>3 DEF OrderOf, Canceled
  <2>2. OrderSound(old)
    BY <1>1 DEF RaceInvariant, VenueMatches, OrdersSound
  <2>3. OrderSound(o)
    BY <1>1, <2>1, <2>2 DEF OrderSound, OrderRecord
  <2>4. o.filled = old.filled /\ o.requested = old.requested /\ o.status # "NONE"
    BY <1>1, <2>1 DEF OrderRecord
  <2>5. old.filled <= o.filled
    BY <1>1, <2>4 DEF OrderRecord
  <2> HIDE DEF old, k
  <2>6. QED
    BY <1>1, <2>1, <2>3, <2>4, <2>5, LiveAdvances DEF TypeOK, RaceInvariant, old, k
<1>4. QED
  BY <1>1, <1>2, <1>3

\* Settling a stopped target from what the venue says of it.
LEMMA StopStep ==
    ASSUME TypeOK, RaceInvariant, NEW r \in Runners, run[r].pc \in {"cancel", "recheck"},
           NEW l \in run[r].calling, NEW o \in OrderRecord,
           order' \in Venues, VenueMatches(position', order', group), Grows(order, order'),
           o = order'[l][Leg(run[r], l).attempt], StopObserved(r, l, o), group' = group
    PROVE  RaceInvariant'
<1>1. l \in Legs /\ run[r].pc # "idle" /\ run[r].role = "TARGET"
  BY DEF TypeOK, RunRecord, RaceInvariant, RunnerFaithful
<1>2. CASE o.status # "NONE"
  BY <1>1, <1>2, ObserveStep DEF StopObserved
<1>3. CASE o.status = "NONE"
  BY <1>1, <1>3, MarkStep DEF StopObserved
<1>4. QED
  BY <1>2, <1>3

\* The saves and decisions of a runner keep the invariant.
LEMMA SavingStep ==
    ASSUME TypeOK, RaceInvariant, NEW r \in Runners,
           StartRun(r) \/ Decide(r) \/ Stopped(r) \/ Reverse(r) \/ Reversed(r) \/ Flatten(r)
    PROVE  RaceInvariant'
<1>0. /\ VenueTypeOK /\ group \in GroupRecord
      /\ run[r] \in RunRecord /\ run[r].base \in GroupRecord /\ run[r].draft \in GroupRecord
      /\ run[r].behind \in 0 .. 2
      /\ Known(group, order, group)
      /\ Known(run[r].base, order, group)
      /\ RunnerFaithful(run[r], order, group)
  BY DEF TypeOK, RunRecord, RaceInvariant, RunnerFaithful
<1>a. ASSUME NEW u \in GroupRecord, StoredSound(position, order, u)
      PROVE  /\ RunnerFaithful(Stop(run[r], u, 0), order, u)
             /\ RunnerFaithful(AfterStop(run[r], u, 0), order, u)
             /\ RunnerFaithful(AfterReverse(run[r], u, 0), order, u)
             /\ RunnerFaithful(AfterReversed(run[r], u, 0), order, u)
             /\ RunnerFaithful(IdleRun, order, u)
  BY <1>0, <1>a, AfterFaithful, RunnerIdle, GrowsRefl DEF StoredSound
<1>b. run[r].pc # "idle" =>
        /\ RunnerFaithful(AfterStop(run[r], run[r].base, run[r].behind), order, group)
        /\ RunnerFaithful(AfterReverse(run[r], run[r].base, run[r].behind), order, group)
        /\ RunnerFaithful(AfterReversed(run[r], run[r].base, run[r].behind), order, group)
  <2> SUFFICES ASSUME run[r].pc # "idle"
               PROVE  /\ RunnerFaithful(AfterStop(run[r], run[r].base, run[r].behind), order, group)
                      /\ RunnerFaithful(AfterReverse(run[r], run[r].base, run[r].behind), order, group)
                      /\ RunnerFaithful(AfterReversed(run[r], run[r].base, run[r].behind), order, group)
    OBVIOUS
  <2>1. run[r].behind = 0 => run[r].base = group
    BY <1>0 DEF RunnerFaithful
  <2>2. QED
    BY <1>0, <2>1, AfterFaithful
<1>1. CASE StartRun(r)
  <2> DEFINE rn == [run[r] EXCEPT !.asOf = clock]
             after == IF group.status = "COMPENSATING" THEN Stop(rn, group, 0)
                      ELSE Sync(rn, group, "TARGET", 0)
  <2>1. rn \in RunRecord
    BY <1>0 DEF RunRecord, TypeOK
  <2>2. /\ group' = group /\ order' = order /\ position' = position
        /\ run' = [run EXCEPT ![r] = after] /\ group.status \in GroupStatus
    BY <1>1 DEF StartRun, GroupStatus
  <2>3. RunnerFaithful(after, order, group)
    BY <1>0, <2>1, AfterFaithful
  <2> HIDE DEF after
  <2>4. QED
    BY <2>2, <2>3, VenueSame, CallStep
<1>2. CASE Decide(r)
  <2> DEFINE u == Decision(run[r])
  <2>1. u \in GroupRecord /\ u.legs = run[r].draft.legs /\ u.closed = run[r].draft.closed
    BY <1>0, SavedType, SavedFields
  <2>2. /\ run[r].pc # "idle" /\ Save(r, u, AfterDecision(run[r], u))
        /\ order' = order /\ position' = position
    BY <1>2 DEF Decide, PassDone
  <2> HIDE DEF u
  <2>3. StoredSound(position, order, u) =>
          RunnerFaithful(AfterDecision(run[r], u), order, u)
    BY <1>a, <2>1 DEF AfterDecision
  <2>4. QED
    BY <2>1, <2>2, <2>3, PassSaved, SaveStep
<1>3. CASE Stopped(r)
  <2> DEFINE u == Stamped(run[r])
  <2>1. u \in GroupRecord /\ u.legs = run[r].draft.legs /\ u.closed = run[r].draft.closed
    BY <1>0, SavedType, SavedFields
  <2>2. run[r].pc # "idle" /\ order' = order /\ position' = position
    BY <1>3 DEF Stopped, PassDone
  <2>3. CASE run[r].draft = run[r].base
    BY <1>3, <1>b, <2>2, <2>3, KeepStep DEF Stopped
  <2>4. CASE run[r].draft # run[r].base
    <3>1. Save(r, u, AfterStop(run[r], u, 0))
      BY <1>3, <2>4 DEF Stopped
    <3> HIDE DEF u
    <3>2. QED
      BY <1>a, <2>1, <2>2, <3>1, PassSaved, SaveStep
  <2>5. QED
    BY <2>3, <2>4
<1>4. CASE Reverse(r)
  <2> DEFINE u == Reversal(run[r])
  <2>1. u \in GroupRecord
    BY <1>0, <1>4, ReversalType DEF Reverse
  <2>2. run[r].pc # "idle" /\ order' = order /\ position' = position
    BY <1>4 DEF Reverse
  <2>3. CASE WithCompensations(run[r].base) = run[r].base
    BY <1>4, <1>b, <2>2, <2>3, KeepStep DEF Reverse
  <2>4. CASE WithCompensations(run[r].base) # run[r].base
    <3>1. Save(r, u, AfterReverse(run[r], u, 0))
      BY <1>4, <2>4 DEF Reverse
    <3>2. run[r].behind = 0 /\ Legal(u) =>
            StoredSound(position, order, u) /\ GroupGrows(group, u)
      <4> SUFFICES ASSUME run[r].behind = 0, Legal(u)
                   PROVE  StoredSound(position, order, u) /\ GroupGrows(group, u)
        OBVIOUS
      <4>1. run[r].base = group /\ AllTargetsTerminal(group)
        BY <1>0, <1>4, <2>2 DEF Reverse, RunnerFaithful
      <4>2. StoredSound(position, order, group)
        BY DEF RaceInvariant, StoredSound
      <4>3. QED
        BY <1>0, <2>1, <4>1, <4>2, SaveReversal
    <3> HIDE DEF u
    <3>3. QED
      BY <1>a, <2>1, <2>2, <3>1, <3>2, SaveStep
  <2>5. QED
    BY <2>3, <2>4
<1>5. CASE Reversed(r)
  <2> DEFINE u == Stamped(run[r])
  <2>1. u \in GroupRecord /\ u.legs = run[r].draft.legs /\ u.closed = run[r].draft.closed
    BY <1>0, SavedType, SavedFields
  <2>2. run[r].pc # "idle" /\ order' = order /\ position' = position
    BY <1>5 DEF Reversed, PassDone
  <2>3. CASE run[r].draft = run[r].base
    BY <1>5, <1>b, <2>2, <2>3, KeepStep DEF Reversed
  <2>4. CASE run[r].draft # run[r].base
    <3>1. Save(r, u, AfterReversed(run[r], u, 0))
      BY <1>5, <2>4 DEF Reversed
    <3> HIDE DEF u
    <3>2. QED
      BY <1>a, <2>1, <2>2, <3>1, PassSaved, SaveStep
  <2>5. QED
    BY <2>3, <2>4
<1>6. CASE Flatten(r)
  <2> DEFINE u == Flattened(run[r])
  <2>1. u \in GroupRecord /\ u.legs = run[r].base.legs /\ u.closed = run[r].base.closed
    BY <1>0, SavedType, SavedFields
  <2>2. /\ run[r].pc # "idle" /\ order' = order /\ position' = position
        /\ Save(r, u, IdleRun)
    BY <1>6 DEF Flatten
  <2> HIDE DEF u
  <2>3. QED
    BY <1>a, <2>1, <2>2, PassSaved, SaveStep
<1>7. QED
  BY <1>1, <1>2, <1>3, <1>4, <1>5, <1>6

\* So do its calls to the venue, answered or lost.
LEMMA CallingStep ==
    ASSUME TypeOK, RaceInvariant, NEW r \in Runners, NEW l \in Legs,
           \/ QueryFound(r, l) \/ QueryMissing(r, l) \/ Submit(r, l)
           \/ RequeryFound(r, l) \/ RequeryUnknown(r, l)
           \/ StopQuery(r, l) \/ Cancel(r, l) \/ Recheck(r, l)
           \/ QueryLost(r, l) \/ SubmitAcceptedLost(r, l) \/ SubmitNeverArrived(r, l)
           \/ StopQueryLost(r, l) \/ CancelLost(r, l) \/ RecheckLost(r, l)
    PROVE  RaceInvariant'
<1> DEFINE k == Leg(run[r], l).attempt
<1>0. /\ k \in Attempts
      /\ OrderOf(run[r], l) \in OrderRecord
      /\ OrderOf(run[r], l) = order[l][k]
      /\ run[r].pc \in {"stop", "cancel", "recheck"} => run[r].role = "TARGET"
      /\ run[r].role \in Roles
      /\ VenueTypeOK /\ group \in GroupRecord
      /\ VenueMatches(position, order, group)
  BY OrderOfType DEF OrderOf, RaceInvariant, RunnerFaithful, TypeOK, RunRecord
<1>1. CASE QueryFound(r, l) \/ RequeryFound(r, l)
  <2>1. /\ run[r].pc # "idle" /\ l \in run[r].todo \cup run[r].calling
        /\ Observe(r, l, OrderOf(run[r], l), "sync") /\ OrderOf(run[r], l).status # "NONE"
        /\ order' = order /\ position' = position /\ group' = group
    BY <1>1 DEF QueryFound, RequeryFound
  <2>2. QED
    BY <1>0, <2>1, VenueSame, ObserveStep
<1>2. CASE QueryMissing(r, l)
  <2>1. /\ run[r].pc = "sync" /\ l \in run[r].todo \cup run[r].calling
        /\ order' = order /\ position' = position /\ group' = group
    BY <1>2 DEF QueryMissing
  <2>2. CASE AllowSubmit(run[r])
    <3>1. Call(r, l, "submit")
      BY <1>2, <2>2 DEF QueryMissing
    <3>2. QED
      BY <2>1, <3>1, VenueSame, WaitStep DEF PCs
  <2>3. CASE ~AllowSubmit(run[r])
    <3>1. run[r].role = "TARGET"
      BY <1>0, <2>3 DEF AllowSubmit, Roles
    <3>2. PICK status \in {"EXPIRED", "UNKNOWN"} :
             Settle(r, l, WithLegStatus(Leg(run[r], l), status), "sync")
      BY <1>2, <2>3 DEF QueryMissing
    <3>3. QED
      BY <2>1, <3>1, <3>2, VenueSame, MarkStep
  <2>4. QED
    BY <2>2, <2>3
<1>3. CASE Submit(r, l)
  <2>1. PICK o \in SubmitResults(run[r], l) :
           SetOrder(l, k, o) /\ Observe(r, l, o, "sync")
    BY <1>3 DEF Submit
  <2>2. /\ run[r].pc # "idle" /\ l \in run[r].calling /\ group' = group
    BY <1>3 DEF Submit
  <2>3. o \in OrderRecord /\ o.status # "NONE" /\ Advances(order[l][k], o, l, k, group)
    BY <2>2, SubmitAdvances
  <2>4. order' \in Venues /\ VenueMatches(position', order', group) /\ Grows(order, order')
    BY <1>0, <2>1, <2>3, VenueStep
  <2>5. o = order'[l][k]
    BY <1>0, <2>1 DEF SetOrder, VenueTypeOK
  <2>6. QED
    BY <2>1, <2>2, <2>3, <2>4, <2>5, ObserveStep
<1>4. CASE SubmitAcceptedLost(r, l)
  <2>1. PICK o \in SubmitResults(run[r], l) : SetOrder(l, k, o)
    BY <1>4 DEF SubmitAcceptedLost
  <2>2. /\ run[r].pc # "idle" /\ l \in run[r].calling /\ group' = group
        /\ Call(r, l, "requery")
    BY <1>4 DEF SubmitAcceptedLost
  <2>3. o \in OrderRecord /\ o.status # "NONE" /\ Advances(order[l][k], o, l, k, group)
    BY <2>2, SubmitAdvances
  <2>4. order' \in Venues /\ VenueMatches(position', order', group) /\ Grows(order, order')
    BY <1>0, <2>1, <2>3, VenueStep
  <2>5. QED
    BY <2>2, <2>4, WaitStep DEF PCs
<1>5. CASE SubmitNeverArrived(r, l)
  <2>1. /\ run[r].pc # "idle" /\ l \in run[r].calling /\ Call(r, l, "requery")
        /\ order' = order /\ position' = position /\ group' = group
    BY <1>5 DEF SubmitNeverArrived
  <2>2. QED
    BY <2>1, VenueSame, WaitStep DEF PCs
<1>6. CASE QueryLost(r, l) \/ RequeryUnknown(r, l)
  <2>1. /\ run[r].pc # "idle" /\ l \in run[r].todo \cup run[r].calling
        /\ Settle(r, l, WithLegStatus(Leg(run[r], l), "UNKNOWN"), "sync")
        /\ order' = order /\ position' = position /\ group' = group
    BY <1>6 DEF QueryLost, RequeryUnknown
  <2>2. QED
    BY <2>1, VenueSame, MarkStep
<1>7. CASE RecheckLost(r, l)
  <2>1. /\ run[r].pc = "recheck" /\ l \in run[r].calling
        /\ Settle(r, l, WithLegStatus(Leg(run[r], l), "UNKNOWN"), "stop")
        /\ order' = order /\ position' = position /\ group' = group
    BY <1>7 DEF RecheckLost
  <2>2. QED
    BY <1>0, <2>1, VenueSame, MarkStep
<1>8. CASE StopQueryLost(r, l)
  <2>1. /\ run[r].pc = "stop" /\ l \in run[r].todo /\ Call(r, l, "recheck")
        /\ order' = order /\ position' = position /\ group' = group
    BY <1>8 DEF StopQueryLost
  <2>2. QED
    BY <1>0, <2>1, VenueSame, WaitStep DEF PCs
<1>9. CASE StopQuery(r, l)
  <2>1. /\ run[r].pc = "stop" /\ l \in run[r].todo
        /\ order' = order /\ position' = position /\ group' = group
    BY <1>9 DEF StopQuery
  <2>2. CASE OrderOf(run[r], l).status \in TerminalOrder
    <3>1. Observe(r, l, OrderOf(run[r], l), "stop") /\ OrderOf(run[r], l).status # "NONE"
      BY <1>9, <2>2 DEF StopQuery, TerminalOrder
    <3>2. QED
      BY <1>0, <2>1, <3>1, VenueSame, ObserveStep
  <2>3. CASE OrderOf(run[r], l).status \notin TerminalOrder
    <3>1. Call(r, l, "cancel")
      BY <1>9, <2>3 DEF StopQuery
    <3>2. QED
      BY <1>0, <2>1, <3>1, VenueSame, WaitStep DEF PCs
  <2>4. QED
    BY <2>2, <2>3
<1>10. CASE Cancel(r, l)
  <2> DEFINE o == Canceled(OrderOf(run[r], l))
  <2>1. /\ run[r].pc = "cancel" /\ l \in run[r].calling /\ group' = group
        /\ SetOrder(l, k, o) /\ StopObserved(r, l, o)
    BY <1>10 DEF Cancel
  <2>2. o \in OrderRecord /\ Advances(order[l][k], o, l, k, group)
    BY CancelAdvances
  <2> HIDE DEF o
  <2>3. order' \in Venues /\ VenueMatches(position', order', group) /\ Grows(order, order')
    BY <1>0, <2>1, <2>2, VenueStep
  <2>4. o = order'[l][k]
    BY <1>0, <2>1 DEF SetOrder, VenueTypeOK
  <2>5. QED
    BY <2>1, <2>2, <2>3, <2>4, StopStep
<1>11. CASE CancelLost(r, l)
  <2>1. PICK o \in {OrderOf(run[r], l), Canceled(OrderOf(run[r], l))} : SetOrder(l, k, o)
    BY <1>11 DEF CancelLost
  <2>2. /\ run[r].pc = "cancel" /\ l \in run[r].calling /\ group' = group
        /\ Call(r, l, "recheck")
    BY <1>11 DEF CancelLost
  <2>3. o \in OrderRecord /\ Advances(order[l][k], o, l, k, group)
    BY CancelAdvances
  <2>4. order' \in Venues /\ VenueMatches(position', order', group) /\ Grows(order, order')
    BY <1>0, <2>1, <2>3, VenueStep
  <2>5. QED
    BY <1>0, <2>2, <2>4, WaitStep DEF PCs
<1>12. CASE Recheck(r, l)
  <2>1. /\ run[r].pc = "recheck" /\ l \in run[r].calling
        /\ StopObserved(r, l, OrderOf(run[r], l))
        /\ order' = order /\ position' = position /\ group' = group
    BY <1>12 DEF Recheck
  <2>2. QED
    BY <1>0, <2>1, VenueSame, StopStep
<1>13. QED
  BY <1>1, <1>2, <1>3, <1>4, <1>5, <1>6, <1>7, <1>8, <1>9, <1>10, <1>11, <1>12

\* The market keeps the invariant: it only fills and closes live orders.
LEMMA MarketKeeps ==
    ASSUME TypeOK, RaceInvariant, NEW l \in Legs, NEW k \in Attempts, Market(l, k)
    PROVE  RaceInvariant'
<1>1. /\ VenueTypeOK /\ group \in GroupRecord /\ VenueMatches(position, order, group)
      /\ order[l][k] \in OrderRecord /\ OrderSound(order[l][k])
      /\ group' = group /\ run' = run
  BY DEF TypeOK, VenueTypeOK, RaceInvariant, VenueMatches, OrdersSound, Market
<1>2. ASSUME NEW o \in OrderRecord, SetOrder(l, k, o), order[l][k].status \in LiveOrder,
             OrderSound(o), order[l][k].filled <= o.filled,
             o.requested = order[l][k].requested, o.status # "NONE"
      PROVE  RaceInvariant'
  BY <1>1, <1>2, LiveAdvances, VenueStep, MarketStep
<1>3. CASE VenueFill(l, k)
  <2>1. PICK filled \in (order[l][k].filled + 1) .. order[l][k].requested :
           SetOrder(l, k, WithStatus(order[l][k].requested, filled))
    BY <1>3 DEF VenueFill
  <2> DEFINE o == WithStatus(order[l][k].requested, filled)
  <2>2. /\ o \in OrderRecord /\ OrderSound(o) /\ order[l][k].filled <= o.filled
        /\ o.requested = order[l][k].requested /\ o.status # "NONE"
    BY <1>1 DEF WithStatus, OrderRecord, OrderSound, TerminalOrder, LiveOrder
  <2> HIDE DEF o
  <2>3. order[l][k].status \in LiveOrder /\ SetOrder(l, k, o)
    BY <1>3, <2>1 DEF VenueFill, o
  <2>4. QED
    BY <1>2, <2>2, <2>3
<1>4. CASE VenueClose(l, k)
  <2> DEFINE o == [order[l][k] EXCEPT !.status = "EXPIRED"]
  <2>1. /\ o \in OrderRecord /\ OrderSound(o) /\ order[l][k].filled <= o.filled
        /\ o.requested = order[l][k].requested /\ o.status # "NONE"
    BY <1>1 DEF OrderRecord, OrderSound, TerminalOrder
  <2>2. order[l][k].status \in LiveOrder /\ SetOrder(l, k, o)
    BY <1>4 DEF VenueClose
  <2> HIDE DEF o
  <2>3. QED
    BY <1>2, <2>1, <2>2
<1>5. QED
  BY <1>3, <1>4 DEF Market

\* Starting the group keeps it: nobody runs and nothing was ordered.
LEMMA StartGroupKeeps ==
    ASSUME TypeOK, RaceInvariant, StartGroup
    PROVE  RaceInvariant'
<1> DEFINE u == NewGroup(clock)
<1>1. /\ group = NoGroup /\ \A r \in Runners : run[r].pc = "idle"
      /\ order' = order /\ position' = position /\ run' = run /\ group' = u
      /\ clock \in Time /\ order \in Venues /\ u \in GroupRecord /\ group \in GroupRecord
  BY NewGroupType, GrowsRefl DEF StartGroup, RaceInvariant, Unstarted, TypeOK
<1>2. 0 \in Time
  BY LimitsAssumption DEF Time
<1>3. /\ u.status = "EXECUTING"
      /\ u.closed = NoGroup.closed
      /\ u.legs = NoGroup.legs
  BY DEF NewGroup, NoGroup
<1>4. Known(u, order, group)
  BY <1>1, KnownNoGroup DEF RaceInvariant
<1> HIDE DEF u
<1>5. \A l \in Legs : Target(u, l) = Target(group, l) /\ Compensation(u, l) = Compensation(group, l)
  BY <1>1, <1>3 DEF Target, Compensation
<1>6. GroupGrows(group, u)
  <2>1. \A l \in Legs : Compensation(group, l).attempt \in Nat
    BY <1>1, GroupParts DEF LegRecord, Attempts
  <2>2. QED
    BY <1>5, <2>1 DEF GroupGrows
<1>7. Known(u, order, u)
  BY <1>1, <1>4, <1>6, KnownStored
<1>8. VenueMatches(position, order, u)
  BY <1>1, <1>3, <1>5
     DEF RaceInvariant, VenueMatches, OrdersMatchLegs, PositionBooked
<1>9. ReversalsBounded(u)
  BY <1>1, <1>3, <1>5 DEF RaceInvariant, ReversalsBounded
<1>10. \A r \in Runners : RunnerFaithful(run[r], order, u)
  <2> SUFFICES ASSUME NEW r \in Runners PROVE RunnerFaithful(run[r], order, u)
    OBVIOUS
  <2>1. run[r] \in RunRecord /\ RunnerFaithful(run[r], order, group)
    BY DEF TypeOK, RaceInvariant
  <2>2. RunnerFaithful(Overtaken(run[r]), order, u)
    BY <1>1, <1>6, <2>1, RunnerStored
  <2>3. QED
    BY <1>1, <2>2 DEF Overtaken
<1>11. QED
  BY <1>1, <1>3, <1>7, <1>8, <1>9, <1>10 DEF RaceInvariant, HedgedComplete, Unstarted

\* A crash keeps it: the runner forgets everything.
LEMMA CrashKeeps ==
    ASSUME TypeOK, RaceInvariant, NEW r \in Runners, Crash(r)
    PROVE  RaceInvariant'
<1>1. /\ run[r].pc # "idle" /\ group' = group /\ order' = order /\ position' = position
      /\ run' = [run EXCEPT ![r] = IdleRun]
  BY DEF Crash
<1>2. group.status \in GroupStatus
  BY <1>1, Started
<1>3. RunnerFaithful(IdleRun, order, group)
  BY RunnerIdle, GrowsRefl DEF TypeOK, RaceInvariant
<1>4. QED
  BY <1>1, <1>2, <1>3, VenueSame, CallStep

(* The invariant holds in every reachable state, for any plan and any       *)
(* number of runners that overlap, crash and lose responses.                *)
THEOREM RaceSafe == Spec => []RaceInvariant
<1>1. Init => RaceInvariant
  <2> SUFFICES ASSUME Init PROVE RaceInvariant
    OBVIOUS
  <2>1. /\ group = NoGroup /\ run = [r \in Runners |-> IdleRun]
        /\ order = [l \in Legs |-> [k \in Attempts |-> NoOrder]]
        /\ position = [l \in Legs |-> 0]
    BY DEF Init, VenueInit
  <2>2. 0 \in Attempts /\ 0 \in Time
    BY LimitsAssumption DEF Attempts, Time
  <2>3. order \in Venues /\ group \in GroupRecord
    BY <2>1, NoGroupType DEF Venues, NoOrder, OrderRecord
  <2>4. \A l \in Legs : /\ Compensation(NoGroup, l) = NoLeg
                        /\ Target(NoGroup, l) = PendingLeg(0, Quantity[l])
                        /\ NoGroup.closed[l] = 0
    <3>1. /\ NoGroup.legs = NewGroup(0).legs
          /\ NoGroup.closed = NewGroup(0).closed
      BY DEF NoGroup, NewGroup
    <3>2. \A l \in Legs : /\ NewGroup(0).legs["COMPENSATION"][l] = NoLeg
                          /\ NewGroup(0).legs["TARGET"][l] = PendingLeg(0, Quantity[l])
                          /\ NewGroup(0).closed[l] = 0
      BY DEF NewGroup, Roles
    <3>3. QED
      BY <3>1, <3>2 DEF Compensation, Target
  <2>5. Known(NoGroup, order, NoGroup)
    <3>1. TargetsKnown(NoGroup, order)
      BY <2>1, <2>2, <2>4 DEF TargetsKnown, PendingLeg, NoOrder
    <3>2. ReversalsKnown(NoGroup, order, NoGroup)
      BY <2>4 DEF ReversalsKnown, ReversalKnown, NoLeg, TerminalLeg
    <3>3. QED
      BY <3>1, <3>2 DEF Known
  <2>6. VenueMatches(position, order, NoGroup)
    <3>1. OrdersSound(order) /\ OrdersMatchLegs(order, NoGroup)
      <4>1. ASSUME NEW l \in Legs, NEW k \in Attempts
            PROVE  OrderSound(order[l][k]) /\ OrderMatches(order[l][k], l, k, Compensation(NoGroup, l))
        BY <2>1, <2>4 DEF OrderSound, OrderMatches, NoOrder, NoLeg, Attempts
      <4>2. QED
        BY <4>1 DEF OrdersSound, OrdersMatchLegs
    <3>2. PositionBooked(position, order, NoGroup)
      BY <2>1, <2>2, <2>4 DEF PositionBooked, LatestFill, NoOrder, NoLeg
    <3>3. QED
      BY <3>1, <3>2 DEF VenueMatches
  <2>7. ReversalsBounded(NoGroup)
    BY <2>4 DEF ReversalsBounded, NoLeg
  <2>8. NoGroup.status = "NONE"
    BY DEF NoGroup, NewGroup
  <2>9. \A r \in Runners : run[r].pc = "idle" /\ RunnerFaithful(run[r], order, NoGroup)
    BY <2>1, <2>3, <2>5, RunnerIdle DEF IdleRun
  <2>10. QED
    BY <2>1, <2>5, <2>6, <2>7, <2>8, <2>9
       DEF RaceInvariant, HedgedComplete, Unstarted
<1>2. TypeOK /\ RaceInvariant /\ [Next]_vars => RaceInvariant'
  <2> SUFFICES ASSUME TypeOK, RaceInvariant, [Next]_vars PROVE RaceInvariant'
    OBVIOUS
  <2>1. CASE StartGroup
    BY <2>1, StartGroupKeeps
  <2>2. ASSUME NEW r \in Runners, Progress(r) \/ Failure(r) PROVE RaceInvariant'
    BY <2>2, SavingStep, CallingStep, CrashKeeps DEF Progress, Failure
  <2>3. ASSUME NEW l \in Legs, NEW k \in Attempts, Market(l, k) PROVE RaceInvariant'
    BY <2>3, MarketKeeps
  <2>4. CASE Tick \/ Finished \/ UNCHANGED vars
    <3>1. order' = order /\ position' = position /\ group' = group /\ run' = run
      BY <2>4 DEF Tick, Finished, vars
    <3>2. QED
      BY <3>1, VenueSame, MarketStep
  <2>5. QED
    BY <2>1, <2>2, <2>3, <2>4 DEF Next
<1>3. QED
  BY <1>1, <1>2, TypeCorrect, PTL DEF Spec

-----------------------------------------------------------------------------
(* What the invariant says about the account.                               *)

(* However many runners overlap, the account never holds less than nothing  *)
(* nor more than the plan of any leg because of the group.                  *)
THEOREM NeverOverReversedHolds == Spec => []NeverOverReversed
<1>1. TypeOK /\ RaceInvariant => NeverOverReversed
  <2> SUFFICES ASSUME TypeOK, RaceInvariant, NEW l \in Legs
               PROVE  position[l] \in 0 .. Quantity[l]
    BY DEF NeverOverReversed
  <2> DEFINE c == Compensation(group, l)
             t == Target(group, l)
             o == order[l][0]
             x == order[l][c.attempt]
  <2>1. group \in GroupRecord /\ order \in Venues
    BY GrowsRefl DEF TypeOK
  <2>2. /\ c.attempt \in Attempts /\ 0 \in Attempts
        /\ c.requested \in Nat /\ t.filled \in Nat /\ group.closed[l] \in Nat
        /\ Quantity[l] \in Nat
    BY <2>1, GroupParts, LimitsAssumption, QuantityAssumption DEF LegRecord, Attempts
  <2>3. o \in OrderRecord /\ x \in OrderRecord
    BY <2>1, <2>2 DEF Venues
  <2>4. /\ OrderSound(o) /\ OrderSound(x)
        /\ OrderMatches(o, l, 0, c) /\ OrderMatches(x, l, c.attempt, c)
    BY <2>2 DEF RaceInvariant, VenueMatches, OrdersSound, OrdersMatchLegs
  <2>5. t.filled <= o.filled
    BY DEF RaceInvariant, Known, TargetsKnown
  <2>6. position[l] = o.filled - group.closed[l] - (IF c.attempt = 0 THEN 0 ELSE x.filled)
    BY DEF RaceInvariant, VenueMatches, PositionBooked, LatestFill
  <2>7. IF c.attempt = 0 THEN group.closed[l] = 0
        ELSE group.closed[l] + c.requested = t.filled
    BY DEF RaceInvariant, ReversalsBounded
  <2> HIDE DEF c, t, o, x
  <2>8. o.filled \in 0 .. Quantity[l]
    BY <2>2, <2>3, <2>4 DEF OrderMatches, OrderSound, NoOrder, OrderRecord
  <2>9. c.attempt # 0 => x.filled \in 0 .. c.requested
    BY <2>2, <2>3, <2>4 DEF OrderMatches, OrderSound, NoOrder, OrderRecord
  <2>10. QED
    BY <2>2, <2>3, <2>5, <2>6, <2>7, <2>8, <2>9 DEF OrderRecord
<1>2. QED
  BY <1>1, TypeCorrect, RaceSafe, PTL

(* A group stored as HEDGED really holds its whole plan at the venue.       *)
THEOREM HedgedIsHedgedHolds == Spec => []HedgedIsHedged
<1>1. TypeOK /\ RaceInvariant => HedgedIsHedged
  <2> SUFFICES ASSUME TypeOK, RaceInvariant, group.status = "HEDGED", NEW l \in Legs
               PROVE  /\ order[l][0].status = "FILLED"
                      /\ position[l] = Quantity[l]
                      /\ \A k \in Attempts \ {0} : ~Placed(l, k)
    BY DEF HedgedIsHedged
  <2>1. /\ Target(group, l).status = "FILLED"
        /\ Compensation(group, l).attempt = 0
    BY DEF RaceInvariant, HedgedComplete, AllTargetsFilled
  <2>2. order[l][0].status = "FILLED"
    BY <2>1 DEF RaceInvariant, Known, TargetsKnown
  <2>3. 0 \in Attempts /\ Quantity[l] \in Nat
    BY LimitsAssumption, QuantityAssumption DEF Attempts
  <2>4. \A k \in Attempts : /\ OrderSound(order[l][k])
                            /\ OrderMatches(order[l][k], l, k, Compensation(group, l))
    BY DEF RaceInvariant, VenueMatches, OrdersSound, OrdersMatchLegs
  <2>5. order[l][0].filled = Quantity[l]
    BY <2>2, <2>3, <2>4 DEF OrderSound, OrderMatches
  <2>6. group.closed[l] = 0
    BY <2>1 DEF RaceInvariant, ReversalsBounded
  <2>7. position[l] = Quantity[l]
    BY <2>1, <2>3, <2>5, <2>6 DEF RaceInvariant, VenueMatches, PositionBooked, LatestFill
  <2>8. \A k \in Attempts \ {0} : ~Placed(l, k)
    BY <2>1, <2>4 DEF OrderMatches, Placed, Attempts
  <2>9. QED
    BY <2>2, <2>7, <2>8
<1>2. QED
  BY <1>1, TypeCorrect, RaceSafe, PTL

(* No runner ever stores a reversal as ended while its order is live, or    *)
(* with another fill than its order's.                                      *)
THEOREM EndedReversalsAreTrueHolds == Spec => []EndedReversalsAreTrue
<1>1. RaceInvariant => EndedReversalsAreTrue
  <2> SUFFICES ASSUME RaceInvariant, NEW l \in Legs,
                      group.legs["COMPENSATION"][l].status \in TerminalLeg
               PROVE  LET leg == group.legs["COMPENSATION"][l]
                          o == order[l][leg.attempt]
                      IN  o.status \notin LiveOrder /\ o.filled = leg.filled
    BY DEF EndedReversalsAreTrue, EndedLegIsTrue
  <2>1. ReversalKnown(Compensation(group, l), order[l], Compensation(group, l))
    BY DEF RaceInvariant, Known, ReversalsKnown
  <2>2. QED
    BY <2>1 DEF ReversalKnown, Compensation, TerminalOrder, LiveOrder
<1>2. QED
  BY <1>1, RaceSafe, PTL
=============================================================================
