-------------------------- MODULE ExecutionGroupSolo --------------------------
(* The group run by one caller at a time: what is stored of a leg that has  *)
(* ended is true, the engine's saves are legal, and the reconciler          *)
(* implements GroupOutcome.                                                 *)
EXTENDS ExecutionGroupProofs

\* What changes in the ledger is what the venue now says.
FactsFollow(facts, later, told) ==
    \A l \in Legs, k \in Attempts : told[l][k] = facts[l][k] \/ Agrees(later[l][k], told[l][k])

\* The orders of the legs of g that have ended stay as they are.
Undisturbed(g, venue, later) ==
    \A role \in Roles, l \in Legs :
        LET leg == g.legs[role][l]
        IN  leg.status \in TerminalLeg => later[l][leg.attempt] = venue[l][leg.attempt]

-----------------------------------------------------------------------------
(* What is true stays true.                                                 *)

\* A leg of a group record is a leg record.
LEMMA LegOfGroup ==
    ASSUME NEW g \in GroupRecord, NEW role \in Roles, NEW l \in Legs
    PROVE  /\ g.legs[role][l] \in LegRecord
           /\ g.legs[role][l].attempt \in Attempts
           /\ g.legs[role][l].requested \in Nat /\ g.legs[role][l].filled \in Nat
BY DEF GroupRecord, LegRecord

\* Of legs, when the venue goes on without those that have ended.
LEMMA LegsTrueStay ==
    ASSUME NEW g \in GroupRecord, NEW venue \in Venues, NEW later \in Venues,
           NEW facts, NEW told, LegsTrue(g, venue, facts),
           Grows(venue, later), Undisturbed(g, venue, later), FactsFollow(facts, later, told)
    PROVE  LegsTrue(g, later, told)
<1> SUFFICES ASSUME NEW role \in Roles, NEW l \in Legs
             PROVE  LegTrue(g.legs[role][l], later[l], told[l])
  BY DEF LegsTrue
<1>1. PICK leg \in LegRecord : leg = g.legs[role][l] /\ leg.attempt \in Attempts /\ leg.filled \in Nat
  BY LegOfGroup
<1>2. LegTrue(leg, venue[l], facts[l])
  BY <1>1 DEF LegsTrue
<1>3. leg.status \in TerminalLeg => later[l][leg.attempt] = venue[l][leg.attempt]
  BY <1>1 DEF Undisturbed
<1>4. \/ told[l][leg.attempt] = facts[l][leg.attempt]
      \/ Agrees(later[l][leg.attempt], told[l][leg.attempt])
  BY <1>1 DEF FactsFollow
<1>5. /\ venue[l][leg.attempt].filled <= later[l][leg.attempt].filled
      /\ venue[l][leg.attempt].filled \in Nat /\ later[l][leg.attempt].filled \in Nat
  BY <1>1 DEF Grows, Venues, OrderRecord
<1>6. leg.filled <= later[l][leg.attempt].filled
  <2>1. leg.filled <= venue[l][leg.attempt].filled
    BY <1>2 DEF LegTrue
  <2>2. QED
    BY <1>1, <1>5, <2>1
<1>7. ASSUME leg.status \in TerminalLeg
      PROVE  /\ later[l][leg.attempt].status \notin LiveOrder
             /\ later[l][leg.attempt].filled = leg.filled
             /\ Agrees(later[l][leg.attempt], told[l][leg.attempt])
  BY <1>2, <1>3, <1>4, <1>7 DEF LegTrue, Agrees
<1>8. LegTrue(leg, later[l], told[l])
  BY <1>2, <1>6, <1>7 DEF LegTrue
<1>9. QED
  BY <1>1, <1>8

\* Of the stored group.
LEMMA StoredTrueStays ==
    ASSUME NEW stored \in GroupRecord, NEW venue \in Venues, NEW later \in Venues,
           NEW facts, NEW told, NEW now \in Time, NEW then \in Time, now <= then,
           StoredTrue(stored, venue, facts, now), OrdersMatchLegs(venue, stored),
           Grows(venue, later), Undisturbed(stored, venue, later),
           FactsFollow(facts, later, told),
           \A l \in Legs, k \in Attempts : OrderTold(later[l][k], told[l][k], then)
    PROVE  StoredTrue(stored, later, told, then)
<1>1. LegsTrue(stored, later, told)
  BY LegsTrueStay DEF StoredTrue
<1>2. ReversalsLast(stored, later, told)
  <2>1. SUFFICES ASSUME NEW l \in Legs, NEW k \in Attempts, 0 < k,
                        k < Compensation(stored, l).attempt
                 PROVE  Agrees(later[l][k], told[l][k])
    BY DEF StoredTrue, ReversalsLast
  <2>2. Agrees(venue[l][k], facts[l][k])
    BY <2>1 DEF StoredTrue, ReversalsLast
  <2>3. venue[l][k].status \in TerminalOrder
    BY <2>1 DEF OrdersMatchLegs, OrderMatches
  <2>4. later[l][k] = venue[l][k]
    BY <2>3 DEF Grows
  <2>5. told[l][k] = facts[l][k] \/ Agrees(later[l][k], told[l][k])
    BY DEF FactsFollow
  <2>6. QED
    BY <2>2, <2>4, <2>5
<1>3. stored.updated <= then
  BY DEF StoredTrue, GroupRecord, Time
<1>4. QED
  BY <1>1, <1>2, <1>3 DEF StoredTrue

\* Of a call.
LEMMA CallTrueStays ==
    ASSUME NEW rn \in RunRecord, NEW venue \in Venues, NEW later \in Venues,
           NEW facts, NEW told, NEW now \in Time, NEW then \in Time, now <= then,
           CallTrue(rn, venue, facts, now),
           Grows(venue, later), Undisturbed(rn.draft, venue, later),
           FactsFollow(facts, later, told),
           rn.pc # "idle" => \A l \in Legs, k \in Attempts : told[l][k].at <= rn.asOf
    PROVE  CallTrue(rn, later, told, then)
<1>1. rn.draft \in GroupRecord /\ rn.asOf \in Time
  BY DEF RunRecord
<1>2. LegsTrue(rn.draft, later, told)
  BY <1>1, LegsTrueStay DEF CallTrue
<1>3. rn.pc # "idle" => rn.asOf <= then
  BY <1>1 DEF CallTrue, Time
<1>4. QED
  BY <1>2, <1>3 DEF CallTrue

\* A working order belongs to no leg that has ended.
LEMMA LiveDisturbsNobody ==
    ASSUME NEW g \in GroupRecord, NEW venue, NEW later, NEW facts, LegsTrue(g, venue, facts),
           NEW l \in Legs, NEW k \in Attempts, venue[l][k].status \in LiveOrder,
           \A m \in Legs, j \in Attempts : m # l \/ j # k => later[m][j] = venue[m][j]
    PROVE  Undisturbed(g, venue, later)
<1> SUFFICES ASSUME NEW role \in Roles, NEW m \in Legs, g.legs[role][m].status \in TerminalLeg
             PROVE  later[m][g.legs[role][m].attempt] = venue[m][g.legs[role][m].attempt]
  BY DEF Undisturbed
<1>1. venue[m][g.legs[role][m].attempt].status \notin LiveOrder
  BY DEF LegsTrue, LegTrue
<1>2. g.legs[role][m].attempt \in Attempts
  BY LegOfGroup
<1>3. QED
  BY <1>1, <1>2

-----------------------------------------------------------------------------
(* The engine's saves are legal.                                            *)

\* The statuses a group may pass through.
LEMMA StatusAllowed ==
    /\ AllowedStatus["EXECUTING"] = {"EXECUTING", "RECOVERING", "COMPENSATING", "HEDGED"}
    /\ AllowedStatus["RECOVERING"] = {"EXECUTING", "RECOVERING", "COMPENSATING", "HEDGED"}
    /\ AllowedStatus["COMPENSATING"] = {"COMPENSATING", "FLAT"}
BY DEF AllowedStatus, GroupStatus, RunningGroup, TerminalGroup

\* A call holds the stored group, which is running.
LEMMA CallHolds ==
    ASSUME TypeOK, RaceInvariant, SoloInvariant, NEW r \in Runners, run[r].pc # "idle"
    PROVE  /\ run[r] \in RunRecord /\ group \in GroupRecord /\ run[r].draft \in GroupRecord
           /\ run[r].base = group /\ run[r].behind = 0 /\ run[r].asOf \in Time
           /\ group.status \in RunningGroup
           /\ group.updated \in Time /\ group.updated <= run[r].asOf
           /\ group.since \in Int /\ group.since <= group.updated
           /\ CallTrue(run[r], order, ledger, clock) /\ RunnerFaithful(run[r], order, group)
<1>1. /\ run[r] \in RunRecord /\ group \in GroupRecord
      /\ CallTrue(run[r], order, ledger, clock) /\ RunnerFaithful(run[r], order, group)
  BY DEF TypeOK, SoloInvariant, RaceInvariant
<1>2. run[r].base = group /\ run[r].behind = 0
  BY <1>1 DEF CallTrue, RunnerFaithful
<1>3. run[r].draft \in GroupRecord /\ run[r].asOf \in Time
  BY <1>1 DEF RunRecord
<1>4. /\ group.updated \in Time /\ group.since \in Time \cup {NoTime}
      /\ group.updated <= run[r].asOf /\ group.since <= group.updated
  BY <1>1, <1>2 DEF CallTrue, SoloInvariant, StoredTrue, GroupRecord
<1>5. group.since \in Int
  BY <1>4 DEF Time, NoTime
<1>6. group.status \in RunningGroup
  BY <1>1, <1>2 DEF CallTrue, RunningGroup
<1>7. QED
  BY <1>1, <1>2, <1>3, <1>4, <1>5, <1>6

\* What a call has seen or read of the legs may be saved.
LEMMA LegalSave ==
    ASSUME TypeOK, RaceInvariant, SoloInvariant, NEW r \in Runners, run[r].pc # "idle",
           NEW d \in {run[r].draft, run[r].base},
           NEW u, u.legs = d.legs, u.closed = d.closed,
           u.updated = run[r].asOf, u.since <= u.updated,
           u.status \in AllowedStatus[group.status],
           u.status = "HEDGED" => AllTargetsFilled(d),
           u.status = "FLAT" => /\ NoResidual(d)
                                /\ \A role \in Roles, l \in Legs : ~Live(d.legs[role][l])
    PROVE  Legal(u)
<1>1. /\ run[r] \in RunRecord /\ group \in GroupRecord /\ d \in GroupRecord
      /\ run[r].base = group /\ group.updated <= run[r].asOf /\ group.status \in RunningGroup
      /\ CallTrue(run[r], order, ledger, clock) /\ RunnerFaithful(run[r], order, group)
  BY CallHolds
<1>2. LegsTrue(d, order, ledger)
  BY <1>1 DEF CallTrue, SoloInvariant, StoredTrue
<1>3. \A role \in Roles, l \in Legs : LegProgress(group.legs[role][l], d.legs[role][l])
  <2>1. CASE d = run[r].draft
    BY <1>1, <2>1 DEF CallTrue
  <2>2. CASE d = group
    BY <1>1, <2>2, LegOfGroup DEF LegProgress
  <2>3. QED
    BY <1>1, <2>1, <2>2
<1>4. /\ d.closed = group.closed
      /\ \A l \in Legs : /\ Compensation(d, l).attempt = Compensation(group, l).attempt
                         /\ Compensation(d, l).requested = Compensation(group, l).requested
  BY <1>1 DEF RunnerFaithful, SameReversals
<1>5. \A l \in Legs : Target(u, l) = Target(d, l) /\ Compensation(u, l) = Compensation(d, l)
  BY DEF Target, Compensation
<1>6. \A l \in Legs : /\ LegProgress(Target(group, l), Target(u, l))
                      /\ LegProgress(Compensation(group, l), Compensation(u, l))
  BY <1>3, <1>5 DEF Target, Compensation, Roles
<1>7. \A l \in Legs : Compensation(u, l).requested <= Target(u, l).filled
  <2>1. SUFFICES ASSUME NEW l \in Legs
                 PROVE  Compensation(group, l).requested <= Target(d, l).filled
    BY <1>4, <1>5
  <2>2. /\ Compensation(group, l).requested \in Nat /\ Target(group, l).filled \in Nat
        /\ Target(d, l).filled \in Nat /\ group.closed[l] \in Nat
    BY <1>1, GroupParts DEF LegRecord
  <2>3. Target(group, l).filled <= Target(d, l).filled
    BY <1>5, <1>6 DEF LegProgress
  <2>4. CASE Compensation(group, l).attempt = 0
    <3>1. Compensation(group, l) = NoLeg
      BY <2>4 DEF RaceInvariant, Known, ReversalsKnown, ReversalKnown
    <3>2. QED
      BY <2>2, <3>1 DEF NoLeg
  <2>5. CASE Compensation(group, l).attempt # 0
    <3>1. group.closed[l] + Compensation(group, l).requested = Target(group, l).filled
      BY <2>5 DEF RaceInvariant, ReversalsBounded
    <3>2. QED
      BY <2>2, <2>3, <3>1
  <2>6. QED
    BY <2>4, <2>5
<1>8. u.status = "HEDGED" => \A l \in Legs : Compensation(u, l).attempt = 0
  <2>1. SUFFICES ASSUME u.status = "HEDGED", NEW l \in Legs, Compensation(group, l).attempt # 0
                 PROVE  FALSE
    BY <1>4, <1>5
  <2>2. group.status = "COMPENSATING"
    BY <1>1, <2>1 DEF SoloInvariant, StoredTrue, ReversalsLast, RunningGroup
  <2>3. QED
    BY <2>1, <2>2, StatusAllowed
<1>9. SelfConsistent(u)
  <2>1. \A role \in Roles, l \in Legs : ConsistentLeg(u.legs[role][l])
    BY <1>2 DEF LegsTrue, LegTrue
  <2>2. u.status = "HEDGED" => AllTargetsFilled(u)
    BY <1>5 DEF AllTargetsFilled
  <2>3. u.status = "FLAT" => NoResidual(u) /\ \A role \in Roles, l \in Legs : ~Live(u.legs[role][l])
    BY <1>5 DEF NoResidual, Residual
  <2>4. QED
    BY <1>7, <1>8, <2>1, <2>2, <2>3 DEF SelfConsistent
<1>10. ValidTransition(group, u)
  BY <1>1, <1>4, <1>5, <1>6 DEF ValidTransition
<1>11. QED
  BY <1>9, <1>10 DEF Legal

\* A group whose targets have ended and that holds nothing has nothing working.
LEMMA NothingWorks ==
    ASSUME TypeOK, RaceInvariant, SoloInvariant, AllTargetsTerminal(group), NoResidual(group),
           NEW role \in Roles, NEW l \in Legs
    PROVE  ~Live(group.legs[role][l])
<1>1. CASE role = "TARGET"
  BY <1>1 DEF AllTargetsTerminal, Target, Live
<1>2. CASE role = "COMPENSATION"
  <2>1. PICK c \in LegRecord : c = Compensation(group, l)
    BY GroupParts DEF TypeOK
  <2>2. /\ c.filled \in Nat /\ c.requested \in Nat /\ group.closed[l] \in Nat
        /\ Target(group, l).filled \in Nat
    BY <2>1, GroupParts DEF TypeOK, LegRecord
  <2>3. Live(c) => c.filled < c.requested
    BY <2>1 DEF SoloInvariant, StoredTrue, LegsTrue, LegTrue, Compensation, Roles
  <2>4. Target(group, l).filled - group.closed[l] - c.filled = 0
    BY <2>1 DEF NoResidual, Residual
  <2>5. CASE c.attempt = 0
    BY <2>1, <2>5, <1>2 DEF RaceInvariant, Known, ReversalsKnown, ReversalKnown, Live, Compensation
  <2>6. CASE c.attempt # 0
    <3>1. group.closed[l] + c.requested = Target(group, l).filled
      BY <2>1, <2>6 DEF RaceInvariant, ReversalsBounded
    <3>2. ~Live(c)
      BY <2>2, <2>3, <2>4, <3>1
    <3>3. QED
      BY <1>2, <2>1, <3>2 DEF Compensation
  <2>7. QED
    BY <2>5, <2>6
<1>3. QED
  BY <1>1, <1>2 DEF Roles

\* What run_once decides.
LEMMA DecisionLegal ==
    ASSUME TypeOK, RaceInvariant, SoloInvariant, NEW r \in Runners,
           PassDone(run[r], "sync", "TARGET")
    PROVE  /\ Legal(Decision(run[r])) /\ Decision(run[r]).updated = run[r].asOf
           /\ Decision(run[r]).since <= run[r].asOf
           /\ Decision(run[r]).status \in {"EXECUTING", "RECOVERING", "COMPENSATING", "HEDGED"}
           /\ group.status \in {"EXECUTING", "RECOVERING"}
<1>1. run[r].pc = "sync" /\ run[r].role = "TARGET"
  BY DEF PassDone
<1>2. /\ run[r] \in RunRecord /\ group \in GroupRecord /\ run[r].draft \in GroupRecord
      /\ run[r].base = group /\ run[r].asOf \in Time
      /\ group.updated \in Time /\ group.updated <= run[r].asOf
      /\ group.since \in Int /\ group.since <= group.updated
      /\ CallTrue(run[r], order, ledger, clock)
  BY <1>1, CallHolds
<1>3. group.status \in {"EXECUTING", "RECOVERING"}
  BY <1>1, <1>2 DEF CallTrue, Compensating
<1>4. /\ Decision(run[r]).legs = run[r].draft.legs
      /\ Decision(run[r]).closed = run[r].draft.closed
      /\ Decision(run[r]) \in GroupRecord
  BY <1>2, SavedFields, SavedType
<1>5. run[r].draft \in [status : GroupStatus \cup {"NONE"}, legs : [Roles -> [Legs -> LegRecord]],
                        closed : [Legs -> Nat], since : Time \cup {NoTime}, updated : Time]
  BY <1>2 DEF GroupRecord
<1>6. Decision(run[r]).updated = run[r].asOf
  BY <1>5 DEF Decision
<1>7. /\ Decision(run[r]).status \in {"EXECUTING", "RECOVERING", "COMPENSATING", "HEDGED"}
      /\ Decision(run[r]).status = "HEDGED" => AllTargetsFilled(run[r].draft)
  BY <1>5 DEF Decision
<1>8. Decision(run[r]).since \in {NoTime, group.since, run[r].asOf}
  BY <1>2, <1>5 DEF Decision, UnhedgedSince
<1>9. Decision(run[r]).since <= run[r].asOf
  BY <1>2, <1>8 DEF NoTime, Time
<1>10. Decision(run[r]).status \in AllowedStatus[group.status]
  BY <1>3, <1>7, StatusAllowed
<1>11. Decision(run[r]).status # "FLAT"
  BY <1>7
<1>12. run[r].pc # "idle"
  BY <1>1
<1> DEFINE u == Decision(run[r])
<1> HIDE DEF u
<1>13. /\ u.legs = run[r].draft.legs /\ u.closed = run[r].draft.closed
       /\ u.updated = run[r].asOf /\ u.since <= u.updated
       /\ u.status \in AllowedStatus[group.status]
       /\ u.status = "HEDGED" => AllTargetsFilled(run[r].draft)
       /\ u.status # "FLAT"
  BY <1>4, <1>6, <1>7, <1>9, <1>10, <1>11 DEF u
<1>14. Legal(u)
  BY <1>12, <1>13, LegalSave
<1>15. QED
  BY <1>3, <1>6, <1>7, <1>9, <1>14 DEF u

\* The end of a pass of a group that compensates.
LEMMA StampedLegal ==
    ASSUME TypeOK, RaceInvariant, SoloInvariant, NEW r \in Runners,
           PassDone(run[r], "stop", "TARGET") \/ PassDone(run[r], "sync", "COMPENSATION")
    PROVE  /\ Legal(Stamped(run[r])) /\ Stamped(run[r]).updated = run[r].asOf
           /\ Stamped(run[r]).since <= run[r].asOf
           /\ Stamped(run[r]).status = "COMPENSATING" /\ group.status = "COMPENSATING"
<1>1. run[r].pc # "idle" /\ Compensating(run[r])
  BY DEF PassDone, Compensating
<1>2. /\ run[r] \in RunRecord /\ group \in GroupRecord /\ run[r].draft \in GroupRecord
      /\ run[r].base = group /\ run[r].asOf \in Time
      /\ group.updated \in Time /\ group.updated <= run[r].asOf
      /\ group.since \in Int /\ group.since <= group.updated
      /\ CallTrue(run[r], order, ledger, clock)
  BY <1>1, CallHolds
<1>3. /\ group.status = "COMPENSATING" /\ run[r].draft.status = group.status
      /\ run[r].draft.since = group.since
  BY <1>1, <1>2 DEF CallTrue
<1>4. /\ Stamped(run[r]).legs = run[r].draft.legs /\ Stamped(run[r]).closed = run[r].draft.closed
      /\ Stamped(run[r]).updated = run[r].asOf /\ Stamped(run[r]).since = group.since
      /\ Stamped(run[r]).status = "COMPENSATING"
  BY <1>2, <1>3 DEF Stamped, GroupRecord
<1>5. group.since <= run[r].asOf
  BY <1>2 DEF Time
<1>6. Legal(Stamped(run[r]))
  BY <1>1, <1>3, <1>4, <1>5, StatusAllowed, LegalSave
<1>7. QED
  BY <1>3, <1>4, <1>5, <1>6

\* The end of a group.
LEMMA FlattenedLegal ==
    ASSUME TypeOK, RaceInvariant, SoloInvariant, NEW r \in Runners, run[r].pc = "flat"
    PROVE  /\ Legal(Flattened(run[r])) /\ Flattened(run[r]).updated = run[r].asOf
           /\ Flattened(run[r]).since <= run[r].asOf /\ Flattened(run[r]).status = "FLAT"
           /\ NoResidual(group) /\ AllTargetsTerminal(group) /\ group.status = "COMPENSATING"
<1>1. run[r].pc # "idle" /\ Compensating(run[r]) /\ Reversing(run[r])
  BY DEF Compensating, Reversing
<1>2. /\ run[r] \in RunRecord /\ group \in GroupRecord
      /\ run[r].base = group /\ run[r].asOf \in Time
      /\ CallTrue(run[r], order, ledger, clock)
  BY <1>1, CallHolds
<1>3. group.status = "COMPENSATING" /\ NoResidual(group) /\ AllTargetsTerminal(group)
  BY <1>1, <1>2 DEF CallTrue
<1>4. /\ Flattened(run[r]).legs = group.legs /\ Flattened(run[r]).closed = group.closed
      /\ Flattened(run[r]).updated = run[r].asOf /\ Flattened(run[r]).since = NoTime
      /\ Flattened(run[r]).status = "FLAT"
  BY <1>2 DEF Flattened, GroupRecord
<1>5. NoTime <= run[r].asOf
  BY <1>2 DEF NoTime, Time
<1>6. \A role \in Roles, l \in Legs : ~Live(group.legs[role][l])
  BY <1>3, NothingWorks
<1>7. Legal(Flattened(run[r]))
  BY <1>1, <1>2, <1>3, <1>4, <1>5, <1>6, StatusAllowed, LegalSave
<1>8. QED
  BY <1>3, <1>4, <1>5, <1>7

\* New reversals.
LEMMA ReversalLegal ==
    ASSUME TypeOK, RaceInvariant, SoloInvariant, NEW r \in Runners, run[r].pc = "reverse"
    PROVE  /\ Legal(Reversal(run[r])) /\ Reversal(run[r]).updated = run[r].asOf
           /\ Reversal(run[r]).since <= run[r].asOf
           /\ Reversal(run[r]).status = "COMPENSATING"
           /\ AllTargetsTerminal(group) /\ group.status = "COMPENSATING"
<1>1. run[r].pc # "idle" /\ Compensating(run[r]) /\ Reversing(run[r])
  BY DEF Compensating, Reversing
<1>2. /\ run[r] \in RunRecord /\ group \in GroupRecord
      /\ run[r].base = group /\ run[r].asOf \in Time
      /\ group.updated \in Time /\ group.updated <= run[r].asOf
      /\ group.since \in Int /\ group.since <= group.updated
      /\ CallTrue(run[r], order, ledger, clock)
  BY <1>1, CallHolds
<1>3. group.status = "COMPENSATING" /\ AllTargetsTerminal(group)
  BY <1>1, <1>2 DEF CallTrue
<1>4. group \in [status : GroupStatus \cup {"NONE"}, legs : [Roles -> [Legs -> LegRecord]],
                 closed : [Legs -> Nat], since : Time \cup {NoTime}, updated : Time]
  BY <1>2 DEF GroupRecord
<1>5. PICK u : u = Reversal(run[r])
  OBVIOUS
<1>6. /\ u.updated = run[r].asOf /\ u.since = group.since /\ u.status = "COMPENSATING"
      /\ u.closed = [l \in Legs |-> IF NeedsAttempt(group, l)
                                    THEN group.closed[l] + Compensation(group, l).filled
                                    ELSE group.closed[l]]
      /\ u.legs["TARGET"] = group.legs["TARGET"]
      /\ u.legs["COMPENSATION"] =
            [l \in Legs |-> IF NeedsAttempt(group, l)
                            THEN PendingLeg(Compensation(group, l).attempt + 1, Residual(group, l))
                            ELSE Compensation(group, l)]
  BY <1>2, <1>3, <1>4, <1>5 DEF Reversal, WithCompensations, Roles
<1>7. group.since <= run[r].asOf
  BY <1>2 DEF Time
<1>8. \A l \in Legs :
        /\ Target(u, l) = Target(group, l)
        /\ Target(group, l).filled \in Nat
        /\ Compensation(group, l).filled \in Nat /\ group.closed[l] \in Nat
        /\ LegTrue(Target(group, l), order[l], ledger[l])
        /\ LegTrue(Compensation(group, l), order[l], ledger[l])
  BY <1>2, <1>6, GroupParts DEF Target, Compensation, LegRecord, SoloInvariant, StoredTrue,
                                LegsTrue, Roles
<1>9. \A l \in Legs : Compensation(group, l).requested <= Target(group, l).filled
  <2>1. SUFFICES ASSUME NEW l \in Legs
                 PROVE  Compensation(group, l).requested <= Target(group, l).filled
    OBVIOUS
  <2>2. Compensation(group, l).requested \in Nat
    BY <1>2, GroupParts DEF LegRecord
  <2>3. CASE Compensation(group, l).attempt = 0
    <3>1. Compensation(group, l) = NoLeg
      BY <2>3 DEF RaceInvariant, Known, ReversalsKnown, ReversalKnown
    <3>2. QED
      BY <1>8, <3>1 DEF NoLeg
  <2>4. CASE Compensation(group, l).attempt # 0
    <3>1. group.closed[l] + Compensation(group, l).requested = Target(group, l).filled
      BY <2>4 DEF RaceInvariant, ReversalsBounded
    <3>2. QED
      BY <1>8, <2>2, <3>1
  <2>5. QED
    BY <2>3, <2>4
<1>10. ASSUME NEW l \in Legs
       PROVE  /\ ConsistentLeg(Target(u, l)) /\ ConsistentLeg(Compensation(u, l))
              /\ Compensation(u, l).requested <= Target(u, l).filled
              /\ LegProgress(Target(group, l), Target(u, l))
              /\ \/ /\ Compensation(u, l).attempt = Compensation(group, l).attempt
                    /\ u.closed[l] = group.closed[l]
                    /\ LegProgress(Compensation(group, l), Compensation(u, l))
                 \/ /\ Compensation(u, l).attempt = Compensation(group, l).attempt + 1
                    /\ u.closed[l] = group.closed[l] + Compensation(group, l).filled
  <2>1. ConsistentLeg(Target(u, l)) /\ LegProgress(Target(group, l), Target(u, l))
    BY <1>8 DEF LegTrue, LegProgress
  <2>2. CASE NeedsAttempt(group, l)
    <3>1. /\ Compensation(u, l) = PendingLeg(Compensation(group, l).attempt + 1, Residual(group, l))
          /\ u.closed[l] = group.closed[l] + Compensation(group, l).filled
      BY <1>6, <2>2 DEF Compensation
    <3>2. /\ Compensation(u, l).attempt = Compensation(group, l).attempt + 1
          /\ Compensation(u, l).requested = Residual(group, l)
          /\ Compensation(u, l).filled = 0 /\ Compensation(u, l).status = "PENDING"
      BY <3>1 DEF PendingLeg
    <3>3. Residual(group, l) \in Int /\ 0 <= Residual(group, l)
          /\ Residual(group, l) <= Target(group, l).filled
      BY <1>8, <2>2 DEF Residual, NeedsAttempt
    <3>4. ConsistentLeg(Compensation(u, l))
      BY <3>2, <3>3 DEF ConsistentLeg
    <3>5. QED
      BY <1>8, <2>1, <3>1, <3>2, <3>3, <3>4
  <2>3. CASE ~NeedsAttempt(group, l)
    <3>1. Compensation(u, l) = Compensation(group, l) /\ u.closed[l] = group.closed[l]
      BY <1>6, <2>3 DEF Compensation
    <3>2. QED
      BY <1>8, <1>9, <2>1, <3>1 DEF LegTrue, LegProgress
  <2>4. QED
    BY <2>2, <2>3
<1>11. SelfConsistent(u)
  <2>1. \A role \in Roles, l \in Legs : ConsistentLeg(u.legs[role][l])
    BY <1>10 DEF Roles, Target, Compensation
  <2>2. u.since <= u.updated /\ u.status # "HEDGED" /\ u.status # "FLAT"
    BY <1>6, <1>7
  <2>3. QED
    BY <1>10, <2>1, <2>2 DEF SelfConsistent
<1>12. ValidTransition(group, u)
  <2>1. u.updated >= group.updated /\ u.status \in AllowedStatus[group.status]
    BY <1>2, <1>3, <1>6, StatusAllowed
  <2>2. QED
    BY <1>10, <2>1 DEF ValidTransition
<1>13. QED
  BY <1>3, <1>5, <1>6, <1>7, <1>11, <1>12 DEF Legal

\* A caller nobody overtook is never refused.
LEMMA NobodyIsRefused ==
    ASSUME TypeOK, RaceInvariant, SoloInvariant
    PROVE  NeverRefused
<1> SUFFICES ASSUME NEW r \in Runners, NEW g \in PendingSave(r) PROVE Legal(g)
  BY DEF NeverRefused
<1>1. CASE PassDone(run[r], "sync", "TARGET")
  BY <1>1, DecisionLegal DEF PendingSave, PassDone
<1>2. CASE PassDone(run[r], "stop", "TARGET")
  BY <1>2, StampedLegal DEF PendingSave, PassDone
<1>3. CASE run[r].pc = "reverse"
  BY <1>3, ReversalLegal DEF PendingSave, PassDone
<1>4. CASE PassDone(run[r], "sync", "COMPENSATION")
  BY <1>4, StampedLegal DEF PendingSave, PassDone
<1>5. CASE run[r].pc = "flat"
  BY <1>5, FlattenedLegal DEF PendingSave, PassDone
<1>6. QED
  BY <1>1, <1>2, <1>3, <1>4, <1>5 DEF PendingSave

-----------------------------------------------------------------------------
(* What is saved is true, and the call that goes on holds it.               *)

\* What a call has seen or read of the legs, once it is stored.
LEMMA PassStored ==
    ASSUME TypeOK, RaceInvariant, SoloInvariant, NEW r \in Runners, run[r].pc # "idle",
           NEW d \in {run[r].draft, run[r].base},
           NEW u \in GroupRecord, u.legs = d.legs, u.closed = d.closed,
           u.updated = run[r].asOf, u.since <= u.updated,
           group.status = "COMPENSATING" => u.status \in {"COMPENSATING", "FLAT"},
           u.status = "FLAT" => /\ NoResidual(d)
                                /\ \A role \in Roles, l \in Legs : ~Live(d.legs[role][l])
    PROVE  StoredTrue(u, order, ledger, clock)
<1>1. /\ run[r] \in RunRecord /\ group \in GroupRecord /\ d \in GroupRecord
      /\ run[r].base = group /\ group.status \in RunningGroup
      /\ CallTrue(run[r], order, ledger, clock) /\ RunnerFaithful(run[r], order, group)
      /\ StoredTrue(group, order, ledger, clock)
  BY CallHolds DEF SoloInvariant
<1>2. LegsTrue(d, order, ledger)
  BY <1>1 DEF CallTrue, StoredTrue
<1>3. \A l \in Legs : Target(u, l) = Target(d, l) /\ Compensation(u, l) = Compensation(d, l)
  BY DEF Target, Compensation
<1>4. \A l \in Legs : /\ Compensation(u, l).attempt = Compensation(group, l).attempt
                      /\ Target(group, l).status \in TerminalLeg => Target(u, l) = Target(group, l)
  <2>1. CASE d = run[r].draft
    BY <1>1, <1>3, <2>1 DEF CallTrue, LegProgress, Target, Roles, RunnerFaithful, SameReversals
  <2>2. CASE d = group
    BY <1>3, <2>2
  <2>3. QED
    BY <1>1, <2>1, <2>2
<1>5. LegsTrue(u, order, ledger)
  BY <1>2, <1>3 DEF LegsTrue
<1>6. ReversalsLast(u, order, ledger)
  <2>1. SUFFICES ASSUME NEW l \in Legs
                 PROVE  /\ Compensation(u, l).attempt # 0 =>
                             /\ u.status \in {"COMPENSATING", "FLAT"} /\ AllTargetsTerminal(u)
                        /\ \A k \in Attempts : 0 < k /\ k < Compensation(u, l).attempt =>
                                Agrees(order[l][k], ledger[l][k])
    BY DEF ReversalsLast
  <2>2. /\ Compensation(group, l).attempt # 0 =>
             /\ group.status \in {"COMPENSATING", "FLAT"} /\ AllTargetsTerminal(group)
        /\ \A k \in Attempts : 0 < k /\ k < Compensation(group, l).attempt =>
                Agrees(order[l][k], ledger[l][k])
    BY <1>1 DEF StoredTrue, ReversalsLast
  <2>3. AllTargetsTerminal(group) => AllTargetsTerminal(u)
    BY <1>4 DEF AllTargetsTerminal
  <2>4. group.status # "FLAT"
    BY <1>1 DEF RunningGroup
  <2>5. QED
    BY <1>4, <2>2, <2>3, <2>4
<1>7. u.updated <= clock
  BY <1>1 DEF CallTrue
<1>8. u.status = "FLAT" => NoResidual(u) /\ \A role \in Roles, l \in Legs : ~Live(u.legs[role][l])
  BY <1>3 DEF NoResidual, Residual
<1>9. QED
  BY <1>1, <1>5, <1>6, <1>7, <1>8 DEF StoredTrue

\* New reversals, once they are stored.
LEMMA ReversalStored ==
    ASSUME TypeOK, RaceInvariant, SoloInvariant, NEW r \in Runners, run[r].pc = "reverse",
           Reversal(run[r]) \in GroupRecord
    PROVE  StoredTrue(Reversal(run[r]), order, ledger, clock)
<1>1. /\ run[r] \in RunRecord /\ group \in GroupRecord
      /\ run[r].base = group /\ run[r].asOf <= clock
      /\ StoredTrue(group, order, ledger, clock) /\ VenueTypeOK
  BY CallHolds DEF SoloInvariant, CallTrue, TypeOK
<1>2. PICK u \in GroupRecord : u = Reversal(run[r])
  OBVIOUS
<1>3. /\ u.updated = run[r].asOf /\ u.since <= run[r].asOf /\ u.status = "COMPENSATING"
      /\ AllTargetsTerminal(group)
  BY <1>2, ReversalLegal
<1>4. /\ u.legs["TARGET"] = group.legs["TARGET"]
      /\ u.legs["COMPENSATION"] =
            [l \in Legs |-> IF NeedsAttempt(group, l)
                            THEN PendingLeg(Compensation(group, l).attempt + 1, Residual(group, l))
                            ELSE Compensation(group, l)]
  <2>1. group \in [status : GroupStatus \cup {"NONE"}, legs : [Roles -> [Legs -> LegRecord]],
                   closed : [Legs -> Nat], since : Time \cup {NoTime}, updated : Time]
    BY <1>1 DEF GroupRecord
  <2>2. QED
    BY <1>1, <1>2, <2>1 DEF Reversal, WithCompensations, Roles
<1>5. \A l \in Legs : /\ Target(u, l) = Target(group, l) /\ Compensation(u, l) \in LegRecord
                      /\ Compensation(group, l) \in LegRecord
                      /\ LegTrue(Target(group, l), order[l], ledger[l])
                      /\ LegTrue(Compensation(group, l), order[l], ledger[l])
                      /\ Target(group, l).status # "NONE"
  BY <1>1, <1>4, GroupParts DEF Target, Compensation, StoredTrue, LegsTrue, Roles
<1>6. ASSUME NEW l \in Legs
      PROVE  /\ LegTrue(Compensation(u, l), order[l], ledger[l])
             /\ \A k \in Attempts : 0 < k /\ k < Compensation(u, l).attempt =>
                    Agrees(order[l][k], ledger[l][k])
  <2>1. \A k \in Attempts : 0 < k /\ k < Compensation(group, l).attempt =>
            Agrees(order[l][k], ledger[l][k])
    BY <1>1 DEF StoredTrue, ReversalsLast
  <2>2. CASE ~NeedsAttempt(group, l)
    <3>1. Compensation(u, l) = Compensation(group, l)
      BY <1>4, <2>2 DEF Compensation
    <3>2. QED
      BY <1>5, <2>1, <3>1
  <2>3. CASE NeedsAttempt(group, l)
    <3>1. Compensation(u, l) = PendingLeg(Compensation(group, l).attempt + 1, Residual(group, l))
      BY <1>4, <2>3 DEF Compensation
    <3>2. PICK c, n : c = Compensation(group, l) /\ n = Compensation(u, l)
      OBVIOUS
    <3>3. /\ n.attempt = c.attempt + 1 /\ n.status = "PENDING" /\ n.filled = 0
          /\ n.requested = Residual(group, l) /\ n.attempt \in Attempts /\ n.requested \in Nat
          /\ c.attempt \in Attempts /\ c.status \in LegStatus \cup {"NONE"}
      BY <1>5, <3>1, <3>2 DEF PendingLeg, LegRecord
    <3>4. Residual(group, l) > 0 /\ ~Live(c)
      BY <2>3, <3>2 DEF NeedsAttempt
    <3>5. order[l][n.attempt].filled \in Nat
      BY <1>1, <3>3 DEF VenueTypeOK, OrderRecord
    <3>6. LegTrue(n, order[l], ledger[l])
      BY <3>3, <3>4, <3>5 DEF LegTrue, ConsistentLeg, TerminalLeg
    <3>7. c.attempt # 0 => Agrees(order[l][c.attempt], ledger[l][c.attempt])
      <4>1. c.attempt # 0 => c.status # "NONE"
        BY <3>2 DEF RaceInvariant, Known, ReversalsKnown, ReversalKnown
      <4>2. c.attempt # 0 => c.status \in TerminalLeg
        BY <3>4, <4>1 DEF Live
      <4>3. QED
        BY <1>5, <3>2, <4>2 DEF LegTrue
    <3>8. ASSUME NEW k \in Attempts, 0 < k, k < n.attempt
          PROVE  Agrees(order[l][k], ledger[l][k])
      <4>1. k < c.attempt \/ k = c.attempt
        BY <3>3, <3>8 DEF Attempts
      <4>2. QED
        BY <2>1, <3>2, <3>7, <3>8, <4>1
    <3>9. QED
      BY <3>2, <3>6, <3>8
  <2>4. QED
    BY <2>2, <2>3
<1>7. LegsTrue(u, order, ledger)
  BY <1>5, <1>6 DEF LegsTrue, Target, Compensation, Roles
<1>8. AllTargetsTerminal(u)
  BY <1>3, <1>5 DEF AllTargetsTerminal
<1>9. ReversalsLast(u, order, ledger)
  BY <1>3, <1>6, <1>8 DEF ReversalsLast
<1>10. u.since <= u.updated /\ u.updated <= clock /\ u.status # "FLAT"
  BY <1>1, <1>3
<1>11. StoredTrue(u, order, ledger, clock)
  BY <1>1, <1>7, <1>9, <1>10 DEF StoredTrue
<1>12. QED
  BY <1>2, <1>11

\* A call goes on with what is stored.
LEMMA GoOnTrue ==
    ASSUME NEW rn \in RunRecord, NEW g \in GroupRecord, NEW venue, NEW facts, NEW now,
           StoredTrue(g, venue, facts, now), g.updated <= rn.asOf, rn.asOf <= now,
           \A l \in Legs, k \in Attempts : facts[l][k].at <= rn.asOf,
           NEW pc \in PCs \ {"idle"}, NEW role \in Roles,
           NEW todo \in SUBSET Legs, \A l \in todo : Live(g.legs[role][l]),
           IF role = "COMPENSATION" \/ pc \in {"stop", "cancel", "recheck", "reverse", "flat"}
           THEN g.status = "COMPENSATING" ELSE g.status \in {"EXECUTING", "RECOVERING"},
           role = "COMPENSATION" \/ pc \in {"reverse", "flat"} => AllTargetsTerminal(g),
           pc = "flat" => NoResidual(g)
    PROVE  CallTrue(GoOn(rn, g, pc, role, todo, 0), venue, facts, now)
<1>1. PICK go : go = GoOn(rn, g, pc, role, todo, 0)
  OBVIOUS
<1>2. /\ go.pc = pc /\ go.role = role /\ go.base = g /\ go.draft = g /\ go.todo = todo
      /\ go.calling = {} /\ go.behind = 0 /\ go.asOf = rn.asOf
  BY <1>1 DEF GoOn, RunRecord
<1>3. LegsTrue(g, venue, facts)
  BY DEF StoredTrue
<1>4. \A r \in Roles, l \in Legs : LegProgress(g.legs[r][l], g.legs[r][l])
  BY LegOfGroup DEF LegProgress
<1>5. \A l \in go.todo \cup go.calling : Live(Leg(go, l))
  BY <1>2 DEF Leg
<1>6. CallTrue(go, venue, facts, now)
  BY <1>2, <1>3, <1>4, <1>5 DEF CallTrue, Compensating, Reversing
<1>7. QED
  BY <1>1, <1>6

\* An idle runner holds nothing.
LEMMA IdleTrue ==
    ASSUME VenueTypeOK, NEW now
    PROVE  CallTrue(IdleRun, order, ledger, now)
<1>1. \A l \in Legs : Target(NoGroup, l) = PendingLeg(0, Quantity[l]) /\ Compensation(NoGroup, l) = NoLeg
  BY DEF NoGroup, NewGroup, Target, Compensation, Roles
<1>2. \A l \in Legs : Quantity[l] \in Nat \ {0} /\ order[l][0].filled \in Nat
  BY QuantityAssumption, LimitsAssumption DEF VenueTypeOK, OrderRecord, Attempts
<1>3. ASSUME NEW l \in Legs
      PROVE  /\ LegTrue(Target(NoGroup, l), order[l], ledger[l])
             /\ LegTrue(Compensation(NoGroup, l), order[l], ledger[l])
             /\ Target(NoGroup, l).status # "NONE"
  BY <1>1, <1>2 DEF LegTrue, ConsistentLeg, PendingLeg, NoLeg, Live, TerminalLeg
<1>4. LegsTrue(NoGroup, order, ledger)
  BY <1>3 DEF LegsTrue, Target, Compensation, Roles
<1>5. QED
  BY <1>4 DEF CallTrue, IdleRun

\* What follows a save, or none, holds what is stored.
LEMMA AfterTrue ==
    ASSUME VenueTypeOK, NEW rn \in RunRecord, NEW g \in GroupRecord,
           StoredTrue(g, order, ledger, clock), g.updated <= rn.asOf, rn.asOf <= clock,
           \A l \in Legs, k \in Attempts : ledger[l][k].at <= rn.asOf
    PROVE  /\ g.status \in {"EXECUTING", "RECOVERING"} =>
                CallTrue(Sync(rn, g, "TARGET", 0), order, ledger, clock)
           /\ g.status = "COMPENSATING" =>
                /\ CallTrue(Stop(rn, g, 0), order, ledger, clock)
                /\ CallTrue(AfterStop(rn, g, 0), order, ledger, clock)
                /\ AllTargetsTerminal(g) =>
                     /\ CallTrue(AfterReverse(rn, g, 0), order, ledger, clock)
                     /\ CallTrue(AfterReversed(rn, g, 0), order, ledger, clock)
<1>0. /\ {"TARGET", "COMPENSATION"} = Roles /\ {} \in SUBSET Legs
      /\ {"sync", "stop", "reverse", "flat"} \subseteq PCs \ {"idle"}
      /\ \A role \in Roles : /\ Unfinished(g, role) \in SUBSET Legs
                             /\ \A l \in Unfinished(g, role) : Live(g.legs[role][l])
      /\ CallTrue(IdleRun, order, ledger, clock)
  BY IdleTrue DEF Roles, PCs, Unfinished
<1>1. g.status \in {"EXECUTING", "RECOVERING"} =>
          CallTrue(Sync(rn, g, "TARGET", 0), order, ledger, clock)
  BY <1>0, GoOnTrue DEF Sync
<1>2. g.status = "COMPENSATING" => CallTrue(Stop(rn, g, 0), order, ledger, clock)
  BY <1>0, GoOnTrue DEF Stop
<1>3. g.status = "COMPENSATING" => CallTrue(AfterStop(rn, g, 0), order, ledger, clock)
  <2>1. g.status = "COMPENSATING" /\ AllTargetsTerminal(g) =>
            CallTrue(GoOn(rn, g, "reverse", "TARGET", {}, 0), order, ledger, clock)
    BY <1>0, GoOnTrue
  <2>2. QED
    BY <1>0, <2>1 DEF AfterStop
<1>4. ASSUME g.status = "COMPENSATING", AllTargetsTerminal(g)
      PROVE  /\ NoResidual(g) =>
                  CallTrue(GoOn(rn, g, "flat", "COMPENSATION", {}, 0), order, ledger, clock)
             /\ CallTrue(Sync(rn, g, "COMPENSATION", 0), order, ledger, clock)
  <2>1. NoResidual(g) =>
            CallTrue(GoOn(rn, g, "flat", "COMPENSATION", {}, 0), order, ledger, clock)
    BY <1>0, <1>4, GoOnTrue
  <2>2. CallTrue(Sync(rn, g, "COMPENSATION", 0), order, ledger, clock)
    BY <1>0, <1>4, GoOnTrue DEF Sync
  <2>3. QED
    BY <2>1, <2>2
<1>5. QED
  BY <1>0, <1>1, <1>2, <1>3, <1>4 DEF AfterReverse, AfterReversed

\* A step of the one caller that does not save.
LEMMA UnsavedStep ==
    ASSUME Solo, TypeOK, NEW r \in Runners, NEW after, run' = [run EXCEPT ![r] = after],
           group' = group, StoredTrue(group, order', ledger', clock'),
           CallTrue(after, order', ledger', clock')
    PROVE  SoloInvariant'
<1>1. \A s \in Runners : run'[s] = after
  BY DEF Solo, TypeOK
<1>2. QED
  BY <1>1 DEF SoloInvariant

\* One that saves.
LEMMA SavedStep ==
    ASSUME Solo, TypeOK, RaceInvariant, SoloInvariant, NEW r \in Runners, run[r].pc # "idle",
           NEW u, NEW next, Save(r, u, next), Legal(u),
           UNCHANGED <<order, ledger, clock>>,
           StoredTrue(u, order, ledger, clock), CallTrue(next, order, ledger, clock)
    PROVE  SoloInvariant' /\ group' = u
<1>1. run[r].behind = 0
  BY CallHolds
<1>2. group' = u /\ \A s \in Runners : run'[s] = next
  BY <1>1 DEF Save, Solo
<1>3. QED
  BY <1>2 DEF SoloInvariant

\* The steps of a call that read or save the group.
LEMMA SavingStepSolo ==
    ASSUME Solo, TypeOK, RaceInvariant, SoloInvariant, NEW r \in Runners,
           StartRun(r) \/ Decide(r) \/ Stopped(r) \/ Reverse(r) \/ Reversed(r) \/ Flatten(r)
    PROVE  SoloInvariant'
<1>0. /\ VenueTypeOK /\ group \in GroupRecord /\ run[r] \in RunRecord
      /\ StoredTrue(group, order, ledger, clock) /\ clock \in Time
      /\ run \in [Runners -> RunRecord]
      /\ CallTrue(IdleRun, order, ledger, clock)
  BY IdleTrue DEF TypeOK, SoloInvariant
<1>a. run[r].pc # "idle" =>
        /\ run[r].base = group /\ run[r].behind = 0 /\ run[r].asOf <= clock
        /\ run[r].draft \in GroupRecord /\ group.updated <= run[r].asOf
        /\ \A l \in Legs, k \in Attempts : ledger[l][k].at <= run[r].asOf
        /\ Decision(run[r]) \in GroupRecord /\ Stamped(run[r]) \in GroupRecord
        /\ Flattened(run[r]) \in GroupRecord
  BY <1>0, CallHolds, SavedType DEF CallTrue
<1>b. /\ Decision(run[r]).legs = run[r].draft.legs
      /\ Decision(run[r]).closed = run[r].draft.closed
      /\ Stamped(run[r]).legs = run[r].draft.legs /\ Stamped(run[r]).closed = run[r].draft.closed
      /\ Flattened(run[r]).legs = run[r].base.legs
      /\ Flattened(run[r]).closed = run[r].base.closed
  BY <1>0, SavedFields
<1>1. CASE StartRun(r)
  <2>1. PICK rn : rn = [run[r] EXCEPT !.asOf = clock]
    OBVIOUS
  <2>2. PICK after : after = IF group.status = "COMPENSATING" THEN Stop(rn, group, 0)
                             ELSE Sync(rn, group, "TARGET", 0)
    OBVIOUS
  <2>3. /\ run' = [run EXCEPT ![r] = after] /\ UNCHANGED <<order, ledger, group, clock>>
        /\ group.status \in RunningGroup /\ clock >= group.updated
    BY <1>1, <2>1, <2>2 DEF StartRun
  <2>4. rn \in RunRecord /\ rn.asOf = clock
    BY <1>0, <2>1 DEF RunRecord
  <2>5. /\ group.updated <= rn.asOf /\ rn.asOf <= clock
        /\ \A l \in Legs, k \in Attempts : ledger[l][k].at <= rn.asOf
    <3>1. group.updated \in Nat /\ clock \in Nat
      BY <1>0 DEF GroupRecord, Time
    <3>2. QED
      BY <1>0, <2>3, <2>4, <3>1 DEF StoredTrue, OrderTold
  <2>6. CallTrue(after, order, ledger, clock)
    BY <1>0, <2>2, <2>3, <2>4, <2>5, AfterTrue DEF RunningGroup
  <2>7. QED
    BY <1>0, <2>3, <2>6, UnsavedStep
<1>2. CASE Decide(r)
  <2>1. /\ PassDone(run[r], "sync", "TARGET") /\ run[r].pc # "idle"
        /\ UNCHANGED <<order, ledger, clock>>
        /\ Save(r, Decision(run[r]), AfterDecision(run[r], Decision(run[r])))
    BY <1>2 DEF Decide, PassDone
  <2>2. PICK u \in GroupRecord : u = Decision(run[r])
    BY <1>a, <2>1
  <2>3. /\ Legal(u) /\ u.updated = run[r].asOf /\ u.since <= run[r].asOf
        /\ u.status \in {"EXECUTING", "RECOVERING", "COMPENSATING", "HEDGED"}
        /\ group.status \in {"EXECUTING", "RECOVERING"}
        /\ u.legs = run[r].draft.legs /\ u.closed = run[r].draft.closed
    BY <1>b, <2>1, <2>2, DecisionLegal
  <2>4. StoredTrue(u, order, ledger, clock)
    BY <2>1, <2>3, PassStored
  <2>5. u.updated <= run[r].asOf
    BY <1>0, <2>3 DEF RunRecord, Time
  <2>6. CallTrue(AfterDecision(run[r], u), order, ledger, clock)
    BY <1>0, <1>a, <2>1, <2>4, <2>5, AfterTrue DEF AfterDecision
  <2>7. QED
    BY <2>1, <2>2, <2>3, <2>4, <2>6, SavedStep
<1>3. CASE Stopped(r)
  <2>1. /\ PassDone(run[r], "stop", "TARGET") /\ run[r].pc # "idle"
        /\ UNCHANGED <<order, ledger, clock>>
    BY <1>3 DEF Stopped, PassDone
  <2>2. PICK u \in GroupRecord : u = Stamped(run[r])
    BY <1>a, <2>1
  <2>3. /\ Legal(u) /\ u.updated = run[r].asOf /\ u.since <= run[r].asOf
        /\ u.status = "COMPENSATING" /\ group.status = "COMPENSATING"
        /\ u.legs = run[r].draft.legs /\ u.closed = run[r].draft.closed
    BY <1>b, <2>1, <2>2, StampedLegal
  <2>4. CASE run[r].draft = run[r].base
    <3>1. Keep(r, AfterStop(run[r], group, 0))
      BY <1>3, <1>a, <2>1, <2>4 DEF Stopped
    <3>2. CallTrue(AfterStop(run[r], group, 0), order, ledger, clock)
      BY <1>0, <1>a, <2>1, <2>3, AfterTrue
    <3>3. QED
      BY <1>0, <2>1, <3>1, <3>2, UnsavedStep DEF Keep
  <2>5. CASE run[r].draft # run[r].base
    <3>1. Save(r, u, AfterStop(run[r], u, 0))
      BY <1>3, <2>2, <2>5 DEF Stopped
    <3>2. StoredTrue(u, order, ledger, clock)
      BY <2>1, <2>3, PassStored
    <3>3. u.updated <= run[r].asOf
      BY <1>0, <2>3 DEF RunRecord, Time
    <3>4. CallTrue(AfterStop(run[r], u, 0), order, ledger, clock)
      BY <1>0, <1>a, <2>1, <2>3, <3>2, <3>3, AfterTrue
    <3>5. QED
      BY <2>1, <2>3, <3>1, <3>2, <3>4, SavedStep
  <2>6. QED
    BY <2>4, <2>5
<1>4. CASE Reverse(r)
  <2>1. /\ run[r].pc = "reverse" /\ run[r].pc # "idle"
        /\ UNCHANGED <<order, ledger, clock>>
        /\ \A l \in Legs : NeedsAttempt(run[r].base, l) =>
              Compensation(run[r].base, l).attempt < MaxAttempts
    BY <1>4 DEF Reverse
  <2>2. PICK u \in GroupRecord : u = Reversal(run[r])
    BY <1>0, <2>1, ReversalType
  <2>3. /\ Legal(u) /\ u.updated = run[r].asOf /\ u.status = "COMPENSATING"
        /\ AllTargetsTerminal(group) /\ group.status = "COMPENSATING"
    BY <2>1, <2>2, ReversalLegal
  <2>4. CASE WithCompensations(run[r].base) = run[r].base
    <3>1. Keep(r, AfterReverse(run[r], group, 0))
      BY <1>4, <1>a, <2>1, <2>4 DEF Reverse
    <3>2. CallTrue(AfterReverse(run[r], group, 0), order, ledger, clock)
      BY <1>0, <1>a, <2>1, <2>3, AfterTrue
    <3>3. QED
      BY <1>0, <2>1, <3>1, <3>2, UnsavedStep DEF Keep
  <2>5. CASE WithCompensations(run[r].base) # run[r].base
    <3>1. Save(r, u, AfterReverse(run[r], u, 0))
      BY <1>4, <2>2, <2>5 DEF Reverse
    <3>2. StoredTrue(u, order, ledger, clock)
      BY <2>1, <2>2, ReversalStored
    <3>3. u.updated <= run[r].asOf
      BY <1>0, <2>3 DEF RunRecord, Time
    <3>4. AllTargetsTerminal(u)
      <4>1. \A l \in Legs : LegProgress(Target(group, l), Target(u, l))
        BY <2>3 DEF Legal, ValidTransition
      <4>2. QED
        BY <2>3, <4>1 DEF AllTargetsTerminal, LegProgress
    <3>5. CallTrue(AfterReverse(run[r], u, 0), order, ledger, clock)
      BY <1>0, <1>a, <2>1, <2>3, <3>2, <3>3, <3>4, AfterTrue
    <3>6. QED
      BY <2>1, <2>3, <3>1, <3>2, <3>5, SavedStep
  <2>6. QED
    BY <2>4, <2>5
<1>5. CASE Reversed(r)
  <2>1. /\ PassDone(run[r], "sync", "COMPENSATION") /\ run[r].pc # "idle"
        /\ UNCHANGED <<order, ledger, clock>> /\ Reversing(run[r])
    BY <1>5 DEF Reversed, PassDone, Reversing
  <2>2. PICK u \in GroupRecord : u = Stamped(run[r])
    BY <1>a, <2>1
  <2>3. /\ Legal(u) /\ u.updated = run[r].asOf /\ u.since <= run[r].asOf
        /\ u.status = "COMPENSATING" /\ group.status = "COMPENSATING"
        /\ u.legs = run[r].draft.legs /\ u.closed = run[r].draft.closed
    BY <1>b, <2>1, <2>2, StampedLegal
  <2>4. AllTargetsTerminal(group)
    BY <1>a, <2>1, CallHolds DEF CallTrue
  <2>5. CASE run[r].draft = run[r].base
    <3>1. Keep(r, AfterReversed(run[r], group, 0))
      BY <1>5, <1>a, <2>1, <2>5 DEF Reversed
    <3>2. CallTrue(AfterReversed(run[r], group, 0), order, ledger, clock)
      BY <1>0, <1>a, <2>1, <2>3, <2>4, AfterTrue
    <3>3. QED
      BY <1>0, <2>1, <3>1, <3>2, UnsavedStep DEF Keep
  <2>6. CASE run[r].draft # run[r].base
    <3>1. Save(r, u, AfterReversed(run[r], u, 0))
      BY <1>5, <2>2, <2>6 DEF Reversed
    <3>2. StoredTrue(u, order, ledger, clock)
      BY <2>1, <2>3, PassStored
    <3>3. u.updated <= run[r].asOf
      BY <1>0, <2>3 DEF RunRecord, Time
    <3>4. AllTargetsTerminal(u)
      <4>1. \A l \in Legs : LegProgress(Target(group, l), Target(u, l))
        BY <2>3 DEF Legal, ValidTransition
      <4>2. QED
        BY <2>4, <4>1 DEF AllTargetsTerminal, LegProgress
    <3>5. CallTrue(AfterReversed(run[r], u, 0), order, ledger, clock)
      BY <1>0, <1>a, <2>1, <2>3, <3>2, <3>3, <3>4, AfterTrue
    <3>6. QED
      BY <2>1, <2>3, <3>1, <3>2, <3>5, SavedStep
  <2>7. QED
    BY <2>5, <2>6
<1>6. CASE Flatten(r)
  <2>1. /\ run[r].pc = "flat" /\ run[r].pc # "idle" /\ UNCHANGED <<order, ledger, clock>>
        /\ Save(r, Flattened(run[r]), IdleRun)
    BY <1>6 DEF Flatten
  <2>2. PICK u \in GroupRecord : u = Flattened(run[r])
    BY <1>a, <2>1
  <2>3. /\ Legal(u) /\ u.updated = run[r].asOf /\ u.since <= run[r].asOf /\ u.status = "FLAT"
        /\ NoResidual(group) /\ AllTargetsTerminal(group)
        /\ u.legs = run[r].base.legs /\ u.closed = run[r].base.closed
    BY <1>b, <2>1, <2>2, FlattenedLegal
  <2>4. \A role \in Roles, l \in Legs : ~Live(group.legs[role][l])
    BY <2>3, NothingWorks
  <2>5. StoredTrue(u, order, ledger, clock)
    BY <1>a, <2>1, <2>3, <2>4, PassStored
  <2>6. QED
    BY <1>0, <2>1, <2>2, <2>3, <2>5, SavedStep
<1>7. QED
  BY <1>1, <1>2, <1>3, <1>4, <1>5, <1>6

-----------------------------------------------------------------------------
(* Venue calls.                                                             *)

\* An order a venue can have: what works has something left.
OrderFine(o) == /\ o.status \in LiveOrder => o.filled < o.requested
                /\ o.status = "REJECTED" => o.filled = 0

\* The orders of the venue go on without those of the legs of g that have ended.
OrdersGoOn(g) ==
    /\ order' \in Venues /\ Grows(order, order') /\ Undisturbed(g, order, order')
    /\ \A l \in Legs, k \in Attempts :
         /\ OrderFine(order'[l][k])
         /\ order'[l][k].status = "NONE" => order'[l][k] = order[l][k]

\* The ledger only learns what the venue says, at the time of the call.
FactsGoOn(r) ==
    /\ FactsFollow(ledger, order', ledger')
    /\ \A l \in Legs, k \in Attempts :
         /\ ledger'[l][k].at <= run[r].asOf
         /\ order'[l][k].status = "NONE" => Agrees(order'[l][k], ledger'[l][k])

\* Orders that stay are fine.
LEMMA OrdersStay ==
    ASSUME TypeOK, SoloInvariant, NEW g, order' = order
    PROVE  OrdersGoOn(g)
BY GrowsRefl DEF OrdersGoOn, Undisturbed, OrderFine, SoloInvariant, StoredTrue, OrderTold, TypeOK

\* One order moves on: it was working, or no ended leg is about it.
LEMMA OrderMoves ==
    ASSUME TypeOK, RaceInvariant, SoloInvariant, NEW g \in GroupRecord, LegsTrue(g, order, ledger),
           NEW l \in Legs, NEW k \in Attempts, NEW o \in OrderRecord,
           Advances(order[l][k], o, l, k, group), OrderFine(o), SetOrder(l, k, o),
           \/ order[l][k].status \in LiveOrder
           \/ o = order[l][k]
           \/ \A role \in Roles : g.legs[role][l].status \in TerminalLeg =>
                                      g.legs[role][l].attempt # k
    PROVE  OrdersGoOn(g)
<1>1. /\ order' \in Venues /\ Grows(order, order')
  BY VenueStep DEF TypeOK, RaceInvariant
<1>2. \A m \in Legs, j \in Attempts :
         order'[m][j] = IF m = l /\ j = k THEN o ELSE order[m][j]
  BY DEF SetOrder, TypeOK, VenueTypeOK
<1>3. Undisturbed(g, order, order')
  <2>1. CASE order[l][k].status \in LiveOrder
    BY <1>2, <2>1, LiveDisturbsNobody
  <2>2. CASE order[l][k].status \notin LiveOrder
    BY <1>2, <2>2, LegOfGroup DEF Undisturbed
  <2>3. QED
    BY <2>1, <2>2
<1>4. ASSUME NEW m \in Legs, NEW j \in Attempts
      PROVE  /\ OrderFine(order'[m][j])
             /\ order'[m][j].status = "NONE" => order'[m][j] = order[m][j]
  <2>1. CASE m = l /\ j = k
    BY <1>2, <2>1 DEF Advances
  <2>2. CASE ~(m = l /\ j = k)
    BY <1>2, <2>2 DEF SoloInvariant, StoredTrue, OrderTold, OrderFine
  <2>3. QED
    BY <2>1, <2>2
<1>5. QED
  BY <1>1, <1>3, <1>4 DEF OrdersGoOn

\* Facts that stay are told.
LEMMA FactsStay ==
    ASSUME TypeOK, RaceInvariant, SoloInvariant, NEW r \in Runners, run[r].pc # "idle",
           OrdersGoOn(group), ledger' = ledger
    PROVE  FactsGoOn(r)
BY CallHolds DEF FactsGoOn, FactsFollow, OrdersGoOn, SoloInvariant, StoredTrue, OrderTold,
                 CallTrue

\* An observation tells what the venue says now.
LEMMA FactsObserved ==
    ASSUME TypeOK, RaceInvariant, SoloInvariant, NEW r \in Runners, run[r].pc # "idle",
           OrdersGoOn(group), NEW l \in Legs, NEW k \in Attempts, order'[l][k].status # "NONE",
           ledger' = Recorded(l, k, order'[l][k], run[r].asOf)
    PROVE  FactsGoOn(r) /\ Agrees(order'[l][k], ledger'[l][k])
<1>1. run[r].asOf \in Time /\ \A m \in Legs, j \in Attempts : ledger[m][j].at <= run[r].asOf
  BY CallHolds DEF CallTrue
<1>2. \A m \in Legs, j \in Attempts : ledger[m][j].at \in Int
  BY DEF TypeOK, VenueTypeOK, Observation, Time, NoTime
<1>3. PICK o : o = order'[l][k]
  OBVIOUS
<1>4. \A m \in Legs, j \in Attempts : m # l \/ j # k => ledger'[m][j] = ledger[m][j]
  BY DEF Recorded, TypeOK, VenueTypeOK
<1>5. ledger'[l][k] =
        IF (ledger[l][k].status = o.status /\ ledger[l][k].filled = o.filled)
             \/ run[r].asOf < ledger[l][k].at
        THEN ledger[l][k]
        ELSE [at |-> run[r].asOf, status |-> o.status, filled |-> o.filled]
  BY <1>3 DEF Recorded, TypeOK, VenueTypeOK
<1>6. ~(run[r].asOf < ledger[l][k].at) /\ run[r].asOf <= run[r].asOf
  BY <1>1, <1>2 DEF Time
<1>7. Agrees(o, ledger'[l][k]) /\ ledger'[l][k].at <= run[r].asOf
  BY <1>1, <1>5, <1>6 DEF Agrees
<1>8. \A m \in Legs, j \in Attempts : m # l \/ j # k =>
        (order'[m][j].status = "NONE" => Agrees(order'[m][j], ledger'[m][j]))
  BY <1>4 DEF OrdersGoOn, SoloInvariant, StoredTrue, OrderTold
<1>9. FactsFollow(ledger, order', ledger')
  BY <1>3, <1>4, <1>7 DEF FactsFollow
<1>10. QED
  BY <1>1, <1>3, <1>4, <1>7, <1>8, <1>9 DEF FactsGoOn

\* The stored group and the call stay true while the venue goes on.
LEMMA CallGoesOn ==
    ASSUME TypeOK, TypeOK', RaceInvariant, SoloInvariant, NEW r \in Runners, run[r].pc # "idle",
           OrdersGoOn(group), OrdersGoOn(run[r].draft), FactsGoOn(r),
           group' = group, clock' = clock
    PROVE  /\ StoredTrue(group, order', ledger', clock')
           /\ CallTrue(run[r], order', ledger', clock')
<1>1. /\ group \in GroupRecord /\ run[r] \in RunRecord /\ run[r].draft \in GroupRecord
      /\ run[r].asOf \in Time /\ CallTrue(run[r], order, ledger, clock)
      /\ StoredTrue(group, order, ledger, clock) /\ clock \in Time
      /\ OrdersMatchLegs(order, group) /\ order \in Venues
  BY CallHolds DEF SoloInvariant, TypeOK, RaceInvariant, VenueMatches, VenueTypeOK, Venues
<1>2. \A l \in Legs, k \in Attempts : ledger'[l][k].at \in Int
  BY DEF TypeOK, VenueTypeOK, Observation, Time, NoTime
<1>3. run[r].asOf <= clock
  BY <1>1 DEF CallTrue
<1>4. \A l \in Legs, k \in Attempts : ledger'[l][k].at <= clock
  BY <1>1, <1>2, <1>3 DEF FactsGoOn, Time
<1>5. \A l \in Legs, k \in Attempts : OrderTold(order'[l][k], ledger'[l][k], clock)
  BY <1>4 DEF OrderTold, OrdersGoOn, OrderFine, FactsGoOn
<1>6. clock <= clock
  BY <1>1 DEF Time
<1>7. StoredTrue(group, order', ledger', clock)
  BY <1>1, <1>5, <1>6, StoredTrueStays DEF OrdersGoOn, FactsGoOn
<1>8. CallTrue(run[r], order', ledger', clock)
  BY <1>1, <1>6, CallTrueStays DEF OrdersGoOn, FactsGoOn
<1>9. QED
  BY <1>7, <1>8

\* The passes of a call: asking for orders, or stopping them.
SamePass(before, after) ==
    \/ before \in {"sync", "submit", "requery"} /\ after \in {"sync", "submit", "requery"}
    \/ before \in {"stop", "cancel", "recheck"} /\ after \in {"stop", "cancel", "recheck"}

\* A call waits for an answer.
LEMMA WaitSolo ==
    ASSUME Solo, TypeOK, TypeOK', RaceInvariant, SoloInvariant, NEW r \in Runners,
           NEW l \in run[r].todo \cup run[r].calling, NEW pc, SamePass(run[r].pc, pc),
           OrdersGoOn(group), OrdersGoOn(run[r].draft), FactsGoOn(r),
           Call(r, l, pc), group' = group, clock' = clock
    PROVE  SoloInvariant'
<1>1. run[r].pc # "idle" /\ run[r] \in RunRecord
  BY DEF SamePass, TypeOK
<1>2. /\ StoredTrue(group, order', ledger', clock')
      /\ CallTrue(run[r], order', ledger', clock')
  BY <1>1, CallGoesOn
<1>3. PICK after : after = [run[r] EXCEPT !.pc = pc, !.calling = {l}]
  OBVIOUS
<1>4. run' = [run EXCEPT ![r] = after]
  BY <1>3 DEF Call, TypeOK
<1>5. /\ after.pc = pc /\ after.calling = {l} /\ after.role = run[r].role
      /\ after.base = run[r].base /\ after.draft = run[r].draft /\ after.todo = run[r].todo
      /\ after.behind = run[r].behind /\ after.asOf = run[r].asOf
  BY <1>1, <1>3 DEF RunRecord
<1>6. \A m \in after.todo \cup after.calling : Live(Leg(after, m))
  <2>1. \A m \in run[r].todo \cup run[r].calling : Live(Leg(run[r], m))
    BY <1>1, <1>2 DEF CallTrue
  <2>2. \A m : Leg(after, m) = Leg(run[r], m)
    BY <1>5 DEF Leg
  <2>3. QED
    BY <1>5, <2>1, <2>2
<1>7. /\ Compensating(after) <=> Compensating(run[r])
      /\ Reversing(after) => Reversing(run[r])
      /\ pc # "flat" /\ pc # "idle"
  BY <1>5 DEF Compensating, Reversing, SamePass
<1>8. CallTrue(after, order', ledger', clock')
  BY <1>1, <1>2, <1>5, <1>6, <1>7 DEF CallTrue
<1>9. QED
  BY <1>2, <1>4, <1>8, UnsavedStep

\* A leg of the call is settled with what is true of it.
LEMMA SettleSolo ==
    ASSUME Solo, TypeOK, TypeOK', RaceInvariant, SoloInvariant, NEW r \in Runners,
           NEW l \in run[r].todo \cup run[r].calling, NEW pc, SamePass(run[r].pc, pc),
           OrdersGoOn(group), OrdersGoOn(run[r].draft), FactsGoOn(r),
           NEW leg \in LegRecord, leg.status # "NONE", Leg(run[r], l).filled <= leg.filled,
           LegTrue(leg, order'[l], ledger'[l]),
           Settle(r, l, leg, pc), group' = group, clock' = clock
    PROVE  SoloInvariant'
<1>1. /\ run[r].pc # "idle" /\ run[r] \in RunRecord /\ run[r].draft \in GroupRecord
      /\ l \in Legs /\ run[r].role \in Roles /\ run[r].base \in GroupRecord
  BY DEF SamePass, TypeOK, RunRecord
<1>2. /\ StoredTrue(group, order', ledger', clock')
      /\ CallTrue(run[r], order', ledger', clock')
  BY <1>1, CallGoesOn
<1>3. PICK after : after = Settled(run[r], l, leg, pc)
  OBVIOUS
<1>4. run' = [run EXCEPT ![r] = after]
  BY <1>3 DEF Settle
<1>5. PICK draft : draft = [run[r].draft EXCEPT !.legs[run[r].role][l] = leg]
  OBVIOUS
<1>6. /\ after.pc = pc /\ after.role = run[r].role /\ after.base = run[r].base
      /\ after.draft = draft /\ after.todo = run[r].todo \ {l} /\ after.calling = {}
      /\ after.behind = run[r].behind /\ after.asOf = run[r].asOf
  BY <1>1, <1>3, <1>5 DEF Settled, RunRecord
<1>7. /\ draft.status = run[r].draft.status /\ draft.since = run[r].draft.since
      /\ draft.updated = run[r].draft.updated
      /\ \A role \in Roles, m \in Legs :
            draft.legs[role][m] = IF role = run[r].role /\ m = l THEN leg
                                  ELSE run[r].draft.legs[role][m]
  BY <1>1, <1>5 DEF GroupRecord
<1>8. LegsTrue(draft, order', ledger')
  <2>1. LegsTrue(run[r].draft, order', ledger')
    BY <1>2 DEF CallTrue
  <2>2. \A role \in Roles, m \in Legs : LegTrue(draft.legs[role][m], order'[m], ledger'[m])
    BY <1>7, <2>1 DEF LegsTrue
  <2>3. \A m \in Legs : Target(draft, m).status # "NONE"
    BY <1>7, <2>1 DEF LegsTrue, Target, Roles
  <2>4. QED
    BY <2>2, <2>3 DEF LegsTrue
<1>9. ASSUME NEW role \in Roles, NEW m \in Legs
      PROVE  LegProgress(run[r].base.legs[role][m], draft.legs[role][m])
  <2>1. LegProgress(run[r].base.legs[role][m], run[r].draft.legs[role][m])
    BY <1>1, <1>2 DEF CallTrue
  <2>2. CASE role = run[r].role /\ m = l
    <3>1. PICK b, d : b = run[r].base.legs[role][m] /\ d = run[r].draft.legs[role][m]
      OBVIOUS
    <3>2. Live(d) /\ d.filled <= leg.filled
      BY <1>1, <1>2, <2>2, <3>1 DEF CallTrue, Leg
    <3>3. b.filled \in Nat /\ d.filled \in Nat /\ leg.filled \in Nat
      BY <1>1, <3>1, LegOfGroup DEF LegRecord
    <3>4. leg.filled >= b.filled /\ b.status \notin TerminalLeg
      BY <2>1, <3>1, <3>2, <3>3 DEF LegProgress, Live
    <3>5. draft.legs[role][m] = leg
      BY <1>7, <2>2
    <3>6. QED
      BY <3>1, <3>4, <3>5 DEF LegProgress
  <2>3. CASE ~(role = run[r].role /\ m = l)
    BY <1>7, <2>1, <2>3
  <2>4. QED
    BY <2>2, <2>3
<1>10. \A m \in after.todo \cup after.calling : Live(Leg(after, m))
  <2>1. SUFFICES ASSUME NEW m \in run[r].todo, m # l PROVE Live(Leg(after, m))
    BY <1>6
  <2>2. m \in Legs /\ Live(Leg(run[r], m))
    BY <1>1, <1>2 DEF CallTrue, RunRecord
  <2>3. Leg(after, m) = Leg(run[r], m)
    BY <1>1, <1>6, <1>7, <2>1, <2>2 DEF Leg
  <2>4. QED
    BY <2>2, <2>3
<1>11. /\ Compensating(after) <=> Compensating(run[r])
       /\ Reversing(after) => Reversing(run[r])
       /\ pc # "flat" /\ pc # "idle"
  BY <1>6 DEF Compensating, Reversing, SamePass
<1>12. CallTrue(after, order', ledger', clock')
  BY <1>1, <1>2, <1>6, <1>7, <1>8, <1>9, <1>10, <1>11 DEF CallTrue
<1>13. QED
  BY <1>2, <1>4, <1>12, UnsavedStep

\* What is known of a leg in hand, and of its order after the venue went on.
LEMMA InHand ==
    ASSUME TypeOK, RaceInvariant, SoloInvariant, NEW r \in Runners, run[r].pc # "idle",
           NEW l \in run[r].todo \cup run[r].calling, OrdersGoOn(group),
           VenueMatches(position', order', group)
    PROVE  /\ l \in Legs /\ Leg(run[r], l) \in LegRecord /\ Leg(run[r], l).attempt \in Attempts
           /\ Leg(run[r], l).filled \in Nat /\ Leg(run[r], l).requested \in Nat
           /\ Live(Leg(run[r], l)) /\ Leg(run[r], l).filled < Leg(run[r], l).requested
           /\ order'[l][Leg(run[r], l).attempt] \in OrderRecord
           /\ Leg(run[r], l).filled <= order'[l][Leg(run[r], l).attempt].filled
           /\ OrderSound(order'[l][Leg(run[r], l).attempt])
           /\ OrderFine(order'[l][Leg(run[r], l).attempt])
           /\ order'[l][Leg(run[r], l).attempt].status # "NONE" =>
                 order'[l][Leg(run[r], l).attempt].requested = Leg(run[r], l).requested
<1>1. /\ run[r] \in RunRecord /\ l \in Legs /\ run[r].base = group
      /\ run[r].role \in Roles /\ run[r].draft \in GroupRecord
      /\ CallTrue(run[r], order, ledger, clock) /\ RunnerFaithful(run[r], order, group)
  BY CallHolds DEF RunRecord
<1>2. PICK leg : leg = Leg(run[r], l)
  OBVIOUS
<1>3. /\ leg \in LegRecord /\ leg.attempt \in Attempts /\ leg.filled \in Nat
      /\ leg.requested \in Nat
  BY <1>1, <1>2, LegOfGroup DEF Leg
<1>4. Live(leg) /\ leg.filled < leg.requested /\ leg.filled <= order[l][leg.attempt].filled
  BY <1>1, <1>2 DEF CallTrue, LegsTrue, LegTrue, Leg
<1>5. PICK o : o = order'[l][leg.attempt]
  OBVIOUS
<1>6. o \in OrderRecord /\ OrderSound(o) /\ OrderFine(o)
  BY <1>1, <1>3, <1>5 DEF OrdersGoOn, Venues, VenueMatches, OrdersSound
<1>7. leg.filled <= o.filled
  <2>1. order[l][leg.attempt].filled \in Nat /\ o.filled \in Nat
    BY <1>1, <1>3, <1>6 DEF TypeOK, VenueTypeOK, OrderRecord
  <2>2. order[l][leg.attempt].filled <= o.filled
    BY <1>1, <1>3, <1>5 DEF OrdersGoOn, Grows
  <2>3. QED
    BY <1>3, <1>4, <2>1, <2>2
<1>8. o.status # "NONE" => o.requested = leg.requested
  <2>1. OrderMatches(o, l, leg.attempt, Compensation(group, l))
    BY <1>1, <1>3, <1>5 DEF VenueMatches, OrdersMatchLegs
  <2>2. CASE run[r].role = "TARGET"
    <3>1. leg.attempt = 0 /\ leg.requested = Quantity[l]
      BY <1>1, <1>2, <2>2, LegKnown
    <3>2. QED
      BY <2>1, <3>1 DEF OrderMatches
  <2>3. CASE run[r].role = "COMPENSATION"
    <3>1. leg = Compensation(run[r].draft, l)
      BY <1>1, <1>2, <2>3, LegKnown
    <3>2. leg.attempt # 0
      BY <1>1, <2>3, <3>1 DEF RunnerFaithful
    <3>3. /\ leg.attempt = Compensation(group, l).attempt
          /\ leg.requested = Compensation(group, l).requested
      BY <1>1, <3>1 DEF RunnerFaithful, SameReversals
    <3>4. QED
      BY <2>1, <3>2, <3>3 DEF OrderMatches
  <2>4. QED
    BY <1>1, <2>2, <2>3 DEF Roles
<1>9. QED
  BY <1>1, <1>2, <1>3, <1>4, <1>5, <1>6, <1>7, <1>8

\* Settling a leg from the venue's order.
LEMMA ObserveSolo ==
    ASSUME Solo, TypeOK, TypeOK', RaceInvariant, SoloInvariant, NEW r \in Runners,
           NEW l \in run[r].todo \cup run[r].calling, NEW pc, SamePass(run[r].pc, pc),
           OrdersGoOn(group), OrdersGoOn(run[r].draft), VenueMatches(position', order', group),
           NEW o, o = order'[l][Leg(run[r], l).attempt], o.status # "NONE",
           Observe(r, l, o, pc), group' = group, clock' = clock
    PROVE  SoloInvariant'
<1>1. run[r].pc # "idle"
  BY DEF SamePass
<1>2. PICK old : old = Leg(run[r], l)
  OBVIOUS
<1>3. PICK leg : leg = FromOrder(old, o)
  OBVIOUS
<1>4. /\ l \in Legs /\ old \in LegRecord /\ o \in OrderRecord /\ old.attempt \in Attempts
      /\ old.filled <= o.filled /\ OrderSound(o) /\ OrderFine(o) /\ o.requested = old.requested
  BY <1>1, <1>2, InHand
<1>5. leg \in LegRecord
  BY <1>3, <1>4, FromOrderType
<1>6. /\ leg.status = o.status /\ leg.filled = o.filled /\ leg.attempt = old.attempt
      /\ leg.requested = old.requested
  BY <1>3, <1>4 DEF FromOrder, LegRecord
<1>7. ledger' = Recorded(l, old.attempt, o, run[r].asOf) /\ Settle(r, l, leg, pc)
  BY <1>2, <1>3 DEF Observe
<1>8. FactsGoOn(r) /\ Agrees(o, ledger'[l][old.attempt])
  BY <1>1, <1>2, <1>4, <1>7, FactsObserved
<1>9. LegTrue(leg, order'[l], ledger'[l])
  <2>1. o = order'[l][leg.attempt] /\ o.filled <= o.filled
    BY <1>2, <1>4, <1>6 DEF OrderRecord
  <2>2. Live(leg) => o.status \in LiveOrder
    BY <1>4, <1>6 DEF Live, OrderRecord, TerminalLeg, TerminalOrder
  <2>3. leg.status \in TerminalLeg => o.status \notin LiveOrder
    BY <1>6 DEF TerminalLeg, LiveOrder
  <2>4. leg.status # "PENDING"
    BY <1>4, <1>6 DEF OrderRecord, TerminalOrder, LiveOrder
  <2>5. ConsistentLeg(leg)
    BY <1>4, <1>6, <2>4 DEF ConsistentLeg, OrderSound, OrderFine
  <2>6. Live(leg) => leg.filled < leg.requested
    BY <1>4, <1>6, <2>2 DEF OrderFine
  <2>7. QED
    BY <1>6, <1>8, <2>1, <2>3, <2>5, <2>6 DEF LegTrue
<1>10. leg.status # "NONE" /\ Leg(run[r], l).filled <= leg.filled
  BY <1>2, <1>4, <1>6
<1>11. QED
  BY <1>5, <1>7, <1>8, <1>9, <1>10, SettleSolo

\* Giving a leg a status of which the venue told nothing.
LEMMA MarkSolo ==
    ASSUME Solo, TypeOK, TypeOK', RaceInvariant, SoloInvariant, NEW r \in Runners,
           NEW l \in run[r].todo \cup run[r].calling, NEW pc, SamePass(run[r].pc, pc),
           OrdersGoOn(group), OrdersGoOn(run[r].draft), VenueMatches(position', order', group),
           NEW status \in {"UNKNOWN", "EXPIRED", "CANCELED"},
           status # "UNKNOWN" => order'[l][Leg(run[r], l).attempt].status = "NONE",
           Settle(r, l, WithLegStatus(Leg(run[r], l), status), pc),
           ledger' = ledger, group' = group, clock' = clock
    PROVE  SoloInvariant'
<1>1. run[r].pc # "idle"
  BY DEF SamePass
<1>2. PICK old, o : old = Leg(run[r], l) /\ o = order'[l][old.attempt]
  OBVIOUS
<1>3. PICK leg : leg = WithLegStatus(old, status)
  OBVIOUS
<1>4. /\ l \in Legs /\ old \in LegRecord /\ o \in OrderRecord /\ old.attempt \in Attempts
      /\ old.filled <= o.filled /\ old.filled < old.requested /\ OrderSound(o)
      /\ old.filled \in Nat /\ old.requested \in Nat
  BY <1>1, <1>2, InHand
<1>5. /\ leg \in LegRecord /\ leg.status = status /\ leg.filled = old.filled
      /\ leg.attempt = old.attempt /\ leg.requested = old.requested
  BY <1>3, <1>4 DEF WithLegStatus, LegRecord, LegStatus, TerminalLeg
<1>6. FactsGoOn(r)
  BY <1>1, FactsStay
<1>7. ASSUME leg.status \in TerminalLeg
      PROVE  /\ o.status \notin LiveOrder /\ o.filled = leg.filled
             /\ Agrees(o, ledger'[l][old.attempt])
  <2>1. o.status = "NONE"
    BY <1>2, <1>5, <1>7 DEF TerminalLeg
  <2>2. o.filled = 0
    BY <1>4, <2>1 DEF OrderSound, NoOrder
  <2>3. o.filled = leg.filled
    BY <1>4, <1>5, <2>2
  <2>4. Agrees(o, ledger'[l][old.attempt])
    BY <1>2, <1>4, <1>6, <2>1 DEF FactsGoOn
  <2>5. QED
    BY <2>1, <2>3, <2>4 DEF LiveOrder
<1>8. LegTrue(leg, order'[l], ledger'[l])
  <2>1. ConsistentLeg(leg)
    BY <1>4, <1>5 DEF ConsistentLeg
  <2>2. QED
    BY <1>2, <1>4, <1>5, <1>7, <2>1 DEF LegTrue
<1>9. leg.status # "NONE" /\ Leg(run[r], l).filled <= leg.filled
  BY <1>2, <1>4, <1>5
<1>10. QED
  BY <1>2, <1>3, <1>5, <1>6, <1>8, <1>9, SettleSolo

\* The leg in hand has an order of its own: no leg that has ended is about it.
LEMMA OwnOrder ==
    ASSUME TypeOK, RaceInvariant, SoloInvariant, NEW r \in Runners, run[r].pc # "idle",
           NEW l \in run[r].todo \cup run[r].calling,
           NEW g \in {group, run[r].draft},
           NEW role \in Roles, g.legs[role][l].status \in TerminalLeg
    PROVE  g.legs[role][l].attempt # Leg(run[r], l).attempt
<1>1. /\ run[r] \in RunRecord /\ l \in Legs /\ run[r].base = group
      /\ run[r].role \in Roles /\ run[r].draft \in GroupRecord
      /\ CallTrue(run[r], order, ledger, clock) /\ RunnerFaithful(run[r], order, group)
  BY CallHolds DEF RunRecord
<1>2. Live(Leg(run[r], l))
  BY <1>1 DEF CallTrue
<1>3. g.legs[role][l].status = run[r].draft.legs[role][l].status
  BY <1>1 DEF CallTrue, LegProgress
<1>4. role # run[r].role
  BY <1>2, <1>3 DEF Leg, Live
<1>5. Known(g, order, group)
  BY <1>1 DEF RunnerFaithful, RaceInvariant
<1>6. CASE run[r].role = "TARGET"
  <2>1. role = "COMPENSATION" /\ Leg(run[r], l).attempt = 0
    BY <1>1, <1>4, <1>6, LegKnown DEF Roles
  <2>2. Compensation(g, l).attempt # 0
    BY <1>1, <1>5, <2>1 DEF Known, ReversalsKnown, ReversalKnown, Compensation, TerminalLeg
  <2>3. QED
    BY <2>1, <2>2 DEF Compensation
<1>7. CASE run[r].role = "COMPENSATION"
  <2>1. role = "TARGET" /\ Leg(run[r], l).attempt # 0
    BY <1>1, <1>4, <1>7, LegKnown DEF Roles, RunnerFaithful
  <2>2. Target(g, l).attempt = 0
    BY <1>1, <1>5 DEF Known, TargetsKnown
  <2>3. QED
    BY <2>1, <2>2 DEF Target
<1>8. QED
  BY <1>1, <1>6, <1>7 DEF Roles

\* A submission, answered or not, lets the orders go on.
LEMMA SubmitGoesOn ==
    ASSUME TypeOK, RaceInvariant, SoloInvariant, NEW r \in Runners, run[r].pc # "idle",
           NEW l \in run[r].calling, NEW o \in SubmitResults(run[r], l),
           SetOrder(l, Leg(run[r], l).attempt, o)
    PROVE  OrdersGoOn(group) /\ OrdersGoOn(run[r].draft)
<1>1. /\ group \in GroupRecord /\ run[r].draft \in GroupRecord
      /\ CallTrue(run[r], order, ledger, clock) /\ StoredTrue(group, order, ledger, clock)
  BY CallHolds DEF SoloInvariant
<1>2. LegsTrue(group, order, ledger) /\ LegsTrue(run[r].draft, order, ledger)
  BY <1>1 DEF CallTrue, StoredTrue
<1>3. PICK leg, k : leg = Leg(run[r], l) /\ k = leg.attempt
  OBVIOUS
<1>4. /\ l \in Legs /\ k \in Attempts /\ o \in OrderRecord
      /\ Advances(order[l][k], o, l, k, group) /\ SetOrder(l, k, o)
  BY <1>3, SubmitAdvances
<1>5. CASE order[l][k].status # "NONE"
  <2>1. o = order[l][k]
    BY <1>3, <1>5 DEF SubmitResults, OrderOf
  <2>2. OrderFine(o)
    BY <1>1, <1>4, <2>1 DEF OrderFine, StoredTrue, OrderTold
  <2>3. QED
    BY <1>1, <1>2, <1>4, <2>1, <2>2, OrderMoves
<1>6. CASE order[l][k].status = "NONE"
  <2>1. o \in SubmitOutcomes(k, leg.requested)
    BY <1>3, <1>6 DEF SubmitResults, OrderOf
  <2>2. leg.requested \in Nat
    BY <1>1, <1>3, <1>4, LegType, CallHolds DEF LegRecord
  <2>3. OrderFine(o)
    BY <2>1, <2>2 DEF SubmitOutcomes, WithStatus, OrderFine, LiveOrder
  <2>4. \A g \in {group, run[r].draft} : \A role \in Roles :
           g.legs[role][l].status \in TerminalLeg => g.legs[role][l].attempt # k
    BY <1>3, OwnOrder
  <2>5. QED
    BY <1>1, <1>2, <1>4, <2>3, <2>4, OrderMoves
<1>7. QED
  BY <1>5, <1>6

\* So does a cancel request, effective or not.
LEMMA CancelGoesOn ==
    ASSUME TypeOK, RaceInvariant, SoloInvariant, NEW r \in Runners, run[r].pc # "idle",
           NEW l \in Legs,
           NEW o \in {OrderOf(run[r], l), Canceled(OrderOf(run[r], l))},
           SetOrder(l, Leg(run[r], l).attempt, o)
    PROVE  OrdersGoOn(group) /\ OrdersGoOn(run[r].draft)
<1>1. /\ group \in GroupRecord /\ run[r].draft \in GroupRecord
      /\ CallTrue(run[r], order, ledger, clock) /\ StoredTrue(group, order, ledger, clock)
  BY CallHolds DEF SoloInvariant
<1>2. LegsTrue(group, order, ledger) /\ LegsTrue(run[r].draft, order, ledger)
  BY <1>1 DEF CallTrue, StoredTrue
<1>3. PICK k : k = Leg(run[r], l).attempt
  OBVIOUS
<1>4. /\ k \in Attempts /\ o \in OrderRecord
      /\ Advances(order[l][k], o, l, k, group) /\ SetOrder(l, k, o)
  BY <1>3, CancelAdvances
<1>5. CASE o = order[l][k]
  <2>1. OrderFine(o)
    BY <1>1, <1>4, <1>5 DEF OrderFine, StoredTrue, OrderTold
  <2>2. QED
    BY <1>1, <1>2, <1>4, <1>5, <2>1, OrderMoves
<1>6. CASE o # order[l][k]
  <2>1. order[l][k].status \in LiveOrder /\ o = [order[l][k] EXCEPT !.status = "CANCELED"]
    BY <1>3, <1>6 DEF OrderOf, Canceled
  <2>2. order[l][k] \in OrderRecord
    BY <1>4 DEF TypeOK, VenueTypeOK
  <2>3. o.status = "CANCELED"
    BY <2>1, <2>2 DEF OrderRecord
  <2>4. OrderFine(o)
    BY <2>3 DEF OrderFine, LiveOrder
  <2>5. QED
    BY <1>1, <1>2, <1>4, <2>1, <2>4, OrderMoves
<1>7. QED
  BY <1>5, <1>6

\* A stopped target is settled with what the venue says of it.
LEMMA StopSolo ==
    ASSUME Solo, TypeOK, TypeOK', RaceInvariant, SoloInvariant, NEW r \in Runners,
           run[r].pc \in {"cancel", "recheck"}, NEW l \in run[r].calling,
           OrdersGoOn(group), OrdersGoOn(run[r].draft), VenueMatches(position', order', group),
           NEW o, o = order'[l][Leg(run[r], l).attempt],
           StopObserved(r, l, o), group' = group, clock' = clock
    PROVE  SoloInvariant'
<1>1. SamePass(run[r].pc, "stop") /\ l \in run[r].todo \cup run[r].calling
  BY DEF SamePass
<1>2. CASE o.status # "NONE"
  BY <1>1, <1>2, ObserveSolo DEF StopObserved
<1>3. CASE o.status = "NONE"
  BY <1>1, <1>3, MarkSolo DEF StopObserved
<1>4. QED
  BY <1>2, <1>3

\* The calls to the venue, answered or lost.
LEMMA CallingStepSolo ==
    ASSUME Solo, TypeOK, TypeOK', RaceInvariant, SoloInvariant,
           NEW r \in Runners, NEW l \in Legs,
           \/ QueryFound(r, l) \/ QueryMissing(r, l) \/ Submit(r, l)
           \/ RequeryFound(r, l) \/ RequeryUnknown(r, l)
           \/ StopQuery(r, l) \/ Cancel(r, l) \/ Recheck(r, l)
           \/ QueryLost(r, l) \/ SubmitAcceptedLost(r, l) \/ SubmitNeverArrived(r, l)
           \/ StopQueryLost(r, l) \/ CancelLost(r, l) \/ RecheckLost(r, l)
    PROVE  SoloInvariant'
<1> DEFINE k == Leg(run[r], l).attempt
<1>0. /\ k \in Attempts /\ OrderOf(run[r], l) = order[l][k]
      /\ VenueTypeOK /\ group \in GroupRecord /\ VenueMatches(position, order, group)
      /\ run[r].pc \in {"stop", "cancel", "recheck"} => run[r].role = "TARGET"
      /\ group' = group /\ clock' = clock /\ run[r].pc # "idle"
  BY OrderOfType DEF OrderOf, TypeOK, RaceInvariant, RunnerFaithful, QueryFound, QueryMissing,
       Submit, RequeryFound, RequeryUnknown, StopQuery, Cancel, Recheck, QueryLost,
       SubmitAcceptedLost, SubmitNeverArrived, StopQueryLost, CancelLost, RecheckLost
<1>a. ASSUME order' = order, position' = position
      PROVE  /\ OrdersGoOn(group) /\ OrdersGoOn(run[r].draft)
             /\ VenueMatches(position', order', group)
             /\ ledger' = ledger => FactsGoOn(r)
  BY <1>0, <1>a, OrdersStay, FactsStay
<1>1. CASE QueryFound(r, l) \/ RequeryFound(r, l)
  <2>1. /\ l \in run[r].todo \cup run[r].calling /\ SamePass(run[r].pc, "sync")
        /\ Observe(r, l, OrderOf(run[r], l), "sync") /\ OrderOf(run[r], l).status # "NONE"
        /\ order' = order /\ position' = position
    BY <1>1 DEF QueryFound, RequeryFound, SamePass
  <2>2. QED
    BY <1>0, <1>a, <2>1, ObserveSolo
<1>2. CASE QueryMissing(r, l)
  <2>1. /\ l \in run[r].todo \cup run[r].calling
        /\ SamePass(run[r].pc, "sync") /\ SamePass(run[r].pc, "submit")
        /\ order' = order /\ position' = position /\ ledger' = ledger
        /\ OrderOf(run[r], l).status = "NONE"
    BY <1>2 DEF QueryMissing, SamePass
  <2>2. CASE AllowSubmit(run[r])
    <3>1. Call(r, l, "submit")
      BY <1>2, <2>2 DEF QueryMissing
    <3>2. QED
      BY <1>0, <1>a, <2>1, <3>1, WaitSolo
  <2>3. CASE ~AllowSubmit(run[r])
    <3>1. PICK status \in {"EXPIRED", "UNKNOWN"} :
             Settle(r, l, WithLegStatus(Leg(run[r], l), status), "sync")
      BY <1>2, <2>3 DEF QueryMissing
    <3>2. QED
      BY <1>0, <1>a, <2>1, <3>1, MarkSolo
  <2>4. QED
    BY <2>2, <2>3
<1>3. CASE Submit(r, l)
  <2>1. PICK o \in SubmitResults(run[r], l) :
           SetOrder(l, k, o) /\ Observe(r, l, o, "sync")
    BY <1>3 DEF Submit
  <2>2. l \in run[r].calling /\ SamePass(run[r].pc, "sync")
    BY <1>3 DEF Submit, SamePass
  <2>3. o \in OrderRecord /\ o.status # "NONE" /\ Advances(order[l][k], o, l, k, group)
    BY <2>2, SubmitAdvances
  <2>4. VenueMatches(position', order', group) /\ o = order'[l][k]
    BY <1>0, <2>1, <2>3, VenueStep DEF SetOrder, VenueTypeOK
  <2>5. OrdersGoOn(group) /\ OrdersGoOn(run[r].draft)
    BY <1>0, <2>1, <2>2, SubmitGoesOn
  <2>6. QED
    BY <1>0, <2>1, <2>2, <2>3, <2>4, <2>5, ObserveSolo
<1>4. CASE SubmitAcceptedLost(r, l)
  <2>1. PICK o \in SubmitResults(run[r], l) : SetOrder(l, k, o)
    BY <1>4 DEF SubmitAcceptedLost
  <2>2. /\ l \in run[r].calling /\ SamePass(run[r].pc, "requery")
        /\ Call(r, l, "requery") /\ ledger' = ledger
    BY <1>4 DEF SubmitAcceptedLost, SamePass
  <2>3. OrdersGoOn(group) /\ OrdersGoOn(run[r].draft)
    BY <1>0, <2>1, <2>2, SubmitGoesOn
  <2>4. FactsGoOn(r)
    BY <1>0, <2>2, <2>3, FactsStay
  <2>5. QED
    BY <1>0, <2>2, <2>3, <2>4, WaitSolo
<1>5. CASE SubmitNeverArrived(r, l)
  <2>1. /\ l \in run[r].calling /\ SamePass(run[r].pc, "requery") /\ Call(r, l, "requery")
        /\ order' = order /\ position' = position /\ ledger' = ledger
    BY <1>5 DEF SubmitNeverArrived, SamePass
  <2>2. QED
    BY <1>0, <1>a, <2>1, WaitSolo
<1>6. CASE QueryLost(r, l) \/ RequeryUnknown(r, l)
  <2>1. /\ l \in run[r].todo \cup run[r].calling /\ SamePass(run[r].pc, "sync")
        /\ Settle(r, l, WithLegStatus(Leg(run[r], l), "UNKNOWN"), "sync")
        /\ order' = order /\ position' = position /\ ledger' = ledger
    BY <1>6 DEF QueryLost, RequeryUnknown, SamePass
  <2>2. QED
    BY <1>0, <1>a, <2>1, MarkSolo
<1>7. CASE RecheckLost(r, l)
  <2>1. /\ l \in run[r].todo \cup run[r].calling /\ SamePass(run[r].pc, "stop")
        /\ Settle(r, l, WithLegStatus(Leg(run[r], l), "UNKNOWN"), "stop")
        /\ order' = order /\ position' = position /\ ledger' = ledger
    BY <1>7 DEF RecheckLost, SamePass
  <2>2. QED
    BY <1>0, <1>a, <2>1, MarkSolo
<1>8. CASE StopQueryLost(r, l)
  <2>1. /\ l \in run[r].todo /\ SamePass(run[r].pc, "recheck") /\ Call(r, l, "recheck")
        /\ order' = order /\ position' = position /\ ledger' = ledger
    BY <1>8 DEF StopQueryLost, SamePass
  <2>2. QED
    BY <1>0, <1>a, <2>1, WaitSolo
<1>9. CASE StopQuery(r, l)
  <2>1. /\ l \in run[r].todo /\ SamePass(run[r].pc, "stop") /\ SamePass(run[r].pc, "cancel")
        /\ order' = order /\ position' = position
    BY <1>9 DEF StopQuery, SamePass
  <2>2. CASE OrderOf(run[r], l).status \in TerminalOrder
    <3>1. Observe(r, l, OrderOf(run[r], l), "stop") /\ OrderOf(run[r], l).status # "NONE"
      BY <1>9, <2>2 DEF StopQuery, TerminalOrder
    <3>2. QED
      BY <1>0, <1>a, <2>1, <3>1, ObserveSolo
  <2>3. CASE OrderOf(run[r], l).status \notin TerminalOrder
    <3>1. Call(r, l, "cancel") /\ ledger' = ledger
      BY <1>9, <2>3 DEF StopQuery
    <3>2. QED
      BY <1>0, <1>a, <2>1, <3>1, WaitSolo
  <2>4. QED
    BY <2>2, <2>3
<1>10. CASE Cancel(r, l)
  <2>1. PICK o : o = Canceled(OrderOf(run[r], l))
    OBVIOUS
  <2>2. /\ run[r].pc = "cancel" /\ l \in run[r].calling
        /\ SetOrder(l, k, o) /\ StopObserved(r, l, o)
    BY <1>10, <2>1 DEF Cancel
  <2>3. o \in OrderRecord /\ Advances(order[l][k], o, l, k, group)
    BY <2>1, CancelAdvances
  <2>4. VenueMatches(position', order', group) /\ o = order'[l][k]
    BY <1>0, <2>2, <2>3, VenueStep DEF SetOrder, VenueTypeOK
  <2>5. OrdersGoOn(group) /\ OrdersGoOn(run[r].draft)
    BY <1>0, <2>1, <2>2, CancelGoesOn
  <2>6. QED
    BY <1>0, <2>2, <2>4, <2>5, StopSolo
<1>11. CASE CancelLost(r, l)
  <2>1. PICK o \in {OrderOf(run[r], l), Canceled(OrderOf(run[r], l))} : SetOrder(l, k, o)
    BY <1>11 DEF CancelLost
  <2>2. /\ l \in run[r].calling /\ SamePass(run[r].pc, "recheck") /\ Call(r, l, "recheck")
        /\ ledger' = ledger
    BY <1>11 DEF CancelLost, SamePass
  <2>3. OrdersGoOn(group) /\ OrdersGoOn(run[r].draft)
    BY <1>0, <2>1, CancelGoesOn
  <2>4. FactsGoOn(r)
    BY <1>0, <2>2, <2>3, FactsStay
  <2>5. QED
    BY <1>0, <2>2, <2>3, <2>4, WaitSolo
<1>12. CASE Recheck(r, l)
  <2>1. /\ run[r].pc = "recheck" /\ l \in run[r].calling
        /\ StopObserved(r, l, OrderOf(run[r], l))
        /\ order' = order /\ position' = position
    BY <1>12 DEF Recheck
  <2>2. QED
    BY <1>0, <1>a, <2>1, StopSolo
<1>13. QED
  BY <1>1, <1>2, <1>3, <1>4, <1>5, <1>6, <1>7, <1>8, <1>9, <1>10, <1>11, <1>12

-----------------------------------------------------------------------------
(* The market, time, crashes and the start.                                 *)

\* The venue goes on by itself, and nobody steps.
LEMMA VenueGoesOn ==
    ASSUME TypeOK, RaceInvariant, SoloInvariant, OrdersGoOn(group),
           \A r \in Runners : OrdersGoOn(run[r].draft),
           clock' \in Time, clock <= clock', UNCHANGED <<ledger, group, run>>
    PROVE  SoloInvariant'
<1>1. /\ group \in GroupRecord /\ clock \in Time /\ order \in Venues /\ order' \in Venues
      /\ OrdersMatchLegs(order, group) /\ StoredTrue(group, order, ledger, clock)
      /\ \A r \in Runners : run[r] \in RunRecord /\ CallTrue(run[r], order, ledger, clock)
  BY DEF TypeOK, VenueTypeOK, Venues, RaceInvariant, VenueMatches, SoloInvariant, OrdersGoOn
<1>2. FactsFollow(ledger, order', ledger)
  BY DEF FactsFollow
<1>3. \A l \in Legs, k \in Attempts : ledger[l][k].at <= clock'
  <2>1. \A l \in Legs, k \in Attempts : ledger[l][k].at \in Int /\ ledger[l][k].at <= clock
    BY <1>1 DEF TypeOK, VenueTypeOK, Observation, Time, NoTime, StoredTrue, OrderTold
  <2>2. QED
    BY <1>1, <2>1 DEF Time
<1>4. \A l \in Legs, k \in Attempts : OrderTold(order'[l][k], ledger[l][k], clock')
  BY <1>1, <1>3 DEF OrderTold, OrdersGoOn, OrderFine, StoredTrue
<1>5. StoredTrue(group, order', ledger, clock')
  BY <1>1, <1>2, <1>4, StoredTrueStays DEF OrdersGoOn
<1>6. \A r \in Runners : CallTrue(run[r], order', ledger, clock')
  <2>1. SUFFICES ASSUME NEW r \in Runners PROVE CallTrue(run[r], order', ledger, clock')
    OBVIOUS
  <2>2. run[r].pc # "idle" => \A l \in Legs, k \in Attempts : ledger[l][k].at <= run[r].asOf
    BY <1>1 DEF CallTrue
  <2>3. QED
    BY <1>1, <1>2, <2>2, CallTrueStays DEF OrdersGoOn
<1>7. QED
  BY <1>5, <1>6 DEF SoloInvariant

\* The market moves an order that works.
LEMMA MarketMoves ==
    ASSUME TypeOK, RaceInvariant, SoloInvariant, NEW l \in Legs, NEW k \in Attempts, Market(l, k)
    PROVE  /\ \E o \in OrderRecord : /\ SetOrder(l, k, o)
                                    /\ Advances(order[l][k], o, l, k, group)
           /\ OrdersGoOn(group) /\ \A r \in Runners : OrdersGoOn(run[r].draft)
<1>1. /\ VenueTypeOK /\ group \in GroupRecord /\ VenueMatches(position, order, group)
      /\ order[l][k] \in OrderRecord /\ OrderSound(order[l][k])
      /\ order[l][k].status \in LiveOrder
  BY DEF TypeOK, VenueTypeOK, RaceInvariant, VenueMatches, OrdersSound, Market,
         VenueFill, VenueClose
<1>2. \E o \in OrderRecord :
         /\ SetOrder(l, k, o) /\ OrderSound(o) /\ OrderFine(o) /\ order[l][k].filled <= o.filled
         /\ o.requested = order[l][k].requested /\ o.status # "NONE"
  <2>1. CASE VenueFill(l, k)
    <3>1. PICK filled \in (order[l][k].filled + 1) .. order[l][k].requested :
             SetOrder(l, k, WithStatus(order[l][k].requested, filled))
      BY <2>1 DEF VenueFill
    <3>2. PICK o : o = WithStatus(order[l][k].requested, filled)
      OBVIOUS
    <3>3. /\ o \in OrderRecord /\ OrderSound(o) /\ OrderFine(o) /\ order[l][k].filled <= o.filled
          /\ o.requested = order[l][k].requested /\ o.status # "NONE"
      BY <1>1, <3>2 DEF WithStatus, OrderRecord, OrderSound, OrderFine, TerminalOrder, LiveOrder
    <3>4. QED
      BY <3>1, <3>2, <3>3
  <2>2. CASE VenueClose(l, k)
    <3>1. PICK o : o = [order[l][k] EXCEPT !.status = "EXPIRED"]
      OBVIOUS
    <3>2. /\ o \in OrderRecord /\ OrderSound(o) /\ OrderFine(o) /\ order[l][k].filled <= o.filled
          /\ o.requested = order[l][k].requested /\ o.status # "NONE"
      BY <1>1, <3>1 DEF OrderRecord, OrderSound, OrderFine, TerminalOrder, LiveOrder
    <3>3. QED
      BY <2>2, <3>1, <3>2 DEF VenueClose
  <2>3. QED
    BY <2>1, <2>2 DEF Market
<1>3. PICK o \in OrderRecord :
         /\ SetOrder(l, k, o) /\ OrderSound(o) /\ OrderFine(o) /\ order[l][k].filled <= o.filled
         /\ o.requested = order[l][k].requested /\ o.status # "NONE"
  BY <1>2
<1>4. Advances(order[l][k], o, l, k, group)
  BY <1>1, <1>3, LiveAdvances
<1>5. \A g \in GroupRecord : LegsTrue(g, order, ledger) => OrdersGoOn(g)
  BY <1>1, <1>3, <1>4, OrderMoves
<1>6. OrdersGoOn(group) /\ \A r \in Runners : OrdersGoOn(run[r].draft)
  <2>1. LegsTrue(group, order, ledger)
    BY DEF SoloInvariant, StoredTrue
  <2>2. \A r \in Runners : run[r].draft \in GroupRecord /\ LegsTrue(run[r].draft, order, ledger)
    BY DEF SoloInvariant, CallTrue, TypeOK, RunRecord
  <2>3. QED
    BY <1>1, <1>5, <2>1, <2>2
<1>7. QED
  BY <1>3, <1>4, <1>6

\* What is true stays true when it does.
LEMMA MarketSolo ==
    ASSUME TypeOK, RaceInvariant, SoloInvariant, NEW l \in Legs, NEW k \in Attempts, Market(l, k)
    PROVE  SoloInvariant'
<1>1. /\ clock \in Time /\ clock' = clock /\ UNCHANGED <<ledger, group, run>>
  BY DEF TypeOK, Market, VenueFill, VenueClose
<1>2. clock <= clock'
  BY <1>1 DEF Time
<1>3. QED
  BY <1>1, <1>2, MarketMoves, VenueGoesOn

\* Time passes, or nothing happens.
LEMMA TimeSolo ==
    ASSUME TypeOK, RaceInvariant, SoloInvariant, clock' \in Time, clock <= clock',
           UNCHANGED <<order, ledger, group, run>>
    PROVE  SoloInvariant'
BY OrdersStay, VenueGoesOn

\* The group starts: nothing is known of any leg, and nobody runs.
LEMMA StartGroupSolo ==
    ASSUME TypeOK, RaceInvariant, SoloInvariant, StartGroup
    PROVE  SoloInvariant'
<1>1. /\ UNCHANGED <<order, ledger, run, clock>> /\ group' = NewGroup(clock)
      /\ VenueTypeOK /\ clock \in Time /\ StoredTrue(group, order, ledger, clock)
  BY DEF StartGroup, TypeOK, SoloInvariant
<1>2. PICK u : u = NewGroup(clock)
  OBVIOUS
<1>3. /\ u.status = "EXECUTING" /\ u.since = NoTime /\ u.updated = clock
      /\ u.legs = NoGroup.legs
  BY <1>2 DEF NewGroup, NoGroup
<1>4. LegsTrue(NoGroup, order, ledger)
  BY <1>1, IdleTrue DEF CallTrue, IdleRun
<1>5. LegsTrue(u, order, ledger)
  BY <1>3, <1>4 DEF LegsTrue, Target
<1>6. \A l \in Legs : Compensation(u, l).attempt = 0
  <2>1. \A l \in Legs : Compensation(NoGroup, l) = NoLeg
    BY DEF NoGroup, NewGroup, Compensation, Roles
  <2>2. QED
    BY <1>3, <2>1 DEF Compensation, NoLeg
<1>7. ReversalsLast(u, order, ledger)
  BY <1>6 DEF ReversalsLast, Attempts
<1>8. u.since <= u.updated /\ u.updated <= clock
  BY <1>1, <1>3 DEF NoTime, Time
<1>9. StoredTrue(u, order, ledger, clock)
  BY <1>1, <1>3, <1>5, <1>7, <1>8 DEF StoredTrue
<1>10. QED
  BY <1>1, <1>2, <1>9 DEF SoloInvariant

\* Before anything happens nothing is untrue.
LEMMA InitSolo ==
    ASSUME Init
    PROVE  SoloInvariant
<1>1. /\ group = NoGroup /\ run = [r \in Runners |-> IdleRun] /\ clock = 0
      /\ order = [l \in Legs |-> [k \in Attempts |-> NoOrder]]
      /\ ledger = [l \in Legs |-> [k \in Attempts |-> NoObservation]]
      /\ position = [l \in Legs |-> 0]
  BY DEF Init, VenueInit
<1>2. VenueTypeOK
  BY <1>1, LimitsAssumption DEF VenueTypeOK, NoOrder, NoObservation, OrderRecord, Observation, Time
<1>3. CallTrue(IdleRun, order, ledger, clock)
  BY <1>2, IdleTrue
<1>4. LegsTrue(NoGroup, order, ledger)
  BY <1>3 DEF CallTrue, IdleRun
<1>5. \A l \in Legs : Compensation(NoGroup, l).attempt = 0
  <2>1. \A l \in Legs : Compensation(NoGroup, l) = NoLeg
    BY DEF NoGroup, NewGroup, Compensation, Roles
  <2>2. QED
    BY <2>1 DEF NoLeg
<1>6. ReversalsLast(NoGroup, order, ledger)
  BY <1>5 DEF ReversalsLast, Attempts
<1>7. NoGroup.status = "NONE" /\ NoGroup.since = NoTime /\ NoGroup.updated = 0
  BY DEF NoGroup, NewGroup
<1>8. \A l \in Legs, k \in Attempts : OrderTold(order[l][k], ledger[l][k], clock)
  BY <1>1 DEF OrderTold, NoOrder, NoObservation, Agrees, LiveOrder, NoTime
<1>9. StoredTrue(NoGroup, order, ledger, clock)
  BY <1>1, <1>4, <1>6, <1>7, <1>8 DEF StoredTrue, NoTime
<1>10. QED
  BY <1>1, <1>3, <1>9 DEF SoloInvariant

\* The single caller's invariant survives every step.
LEMMA StepSolo ==
    ASSUME Solo, TypeOK, TypeOK', RaceInvariant, SoloInvariant, [Next]_vars
    PROVE  SoloInvariant'
<1>1. CASE StartGroup
  BY <1>1, StartGroupSolo
<1>2. ASSUME NEW r \in Runners, Progress(r) \/ Failure(r)
      PROVE  SoloInvariant'
  <2>1. CASE Crash(r)
    <3>1. /\ run' = [run EXCEPT ![r] = IdleRun] /\ UNCHANGED <<order, ledger, group, clock>>
          /\ VenueTypeOK /\ StoredTrue(group, order, ledger, clock)
      BY <2>1 DEF Crash, TypeOK, SoloInvariant
    <3>2. QED
      BY <3>1, IdleTrue, UnsavedStep
  <2>2. QED
    BY <1>2, <2>1, SavingStepSolo, CallingStepSolo DEF Progress, Failure
<1>3. ASSUME NEW l \in Legs, NEW k \in Attempts, Market(l, k)
      PROVE  SoloInvariant'
  BY <1>3, MarketSolo
<1>4. CASE Tick \/ Finished \/ UNCHANGED vars
  <2>1. /\ UNCHANGED <<order, ledger, group, run>> /\ clock' \in Time
        /\ clock' \in {clock, clock + 1} /\ clock \in Time
    BY <1>4 DEF Tick, Finished, vars, TypeOK
  <2>2. clock <= clock'
    BY <2>1 DEF Time, TypeOK
  <2>3. QED
    BY <2>1, <2>2, TimeSolo
<1>5. QED
  BY <1>1, <1>2, <1>3, <1>4 DEF Next

(* With one caller at a time, what is stored of the group is true in every  *)
(* reachable state, for any plan and any crashes and lost responses.        *)
THEOREM SoloSafe == ASSUME Solo PROVE Spec => []SoloInvariant
<1>1. Init => SoloInvariant
  BY InitSolo
<1>2. TypeOK /\ TypeOK' /\ RaceInvariant /\ SoloInvariant /\ [Next]_vars => SoloInvariant'
  BY StepSolo
<1>3. QED
  BY <1>1, <1>2, TypeCorrect, RaceSafe, PTL DEF Spec

(* A leg the single caller stored as ended has no live order, and records   *)
(* exactly what its order filled: the engine invents no failure.            *)
THEOREM EndedLegsAreTrueHolds == ASSUME Solo PROVE Spec => []EndedLegsAreTrue
<1>1. SoloInvariant => EndedLegsAreTrue
  BY DEF SoloInvariant, StoredTrue, LegsTrue, LegTrue, EndedLegsAreTrue, EndedLegIsTrue
<1>2. QED
  BY <1>1, SoloSafe, PTL

(* The store's validators refuse no save of the single caller: the engine   *)
(* cannot stall a group by a value it may not store.                        *)
THEOREM NeverRefusedHolds == ASSUME Solo PROVE Spec => []NeverRefused
<1>1. TypeOK /\ RaceInvariant /\ SoloInvariant => NeverRefused
  BY NobodyIsRefused
<1>2. QED
  BY <1>1, TypeCorrect, RaceSafe, SoloSafe, PTL

(* The ledger the account is projected from agrees with the venue about     *)
(* every order of a group that has ended.                                   *)
THEOREM LedgerAgreesHolds == ASSUME Solo PROVE Spec => []LedgerAgreesAtTheEnd
<1>1. TypeOK /\ RaceInvariant /\ SoloInvariant => LedgerAgreesAtTheEnd
  <2> SUFFICES ASSUME TypeOK, RaceInvariant, SoloInvariant, group.status \in TerminalGroup,
                      NEW l \in Legs, NEW k \in Attempts
               PROVE  Agrees(order[l][k], ledger[l][k])
    BY DEF LedgerAgreesAtTheEnd, Agrees
  <2>1. PICK t, c : t = Target(group, l) /\ c = Compensation(group, l)
    OBVIOUS
  <2>2. /\ LegTrue(t, order[l], ledger[l]) /\ LegTrue(c, order[l], ledger[l])
        /\ t.attempt = 0 /\ t.status # "NONE" /\ (c.attempt # 0 => c.status # "NONE")
        /\ c.attempt \in Nat /\ k \in Nat
    BY <2>1, GroupParts DEF SoloInvariant, StoredTrue, LegsTrue, Target, Compensation, Roles,
         RaceInvariant, Known, TargetsKnown, ReversalsKnown, ReversalKnown, TypeOK, LegRecord,
         Attempts
  <2>3. OrderMatches(order[l][k], l, k, c) /\ OrderTold(order[l][k], ledger[l][k], clock)
    BY <2>1 DEF RaceInvariant, VenueMatches, OrdersMatchLegs, SoloInvariant, StoredTrue
  <2>4. t.status \in TerminalLeg /\ (c.attempt # 0 => c.status \in TerminalLeg)
    <3>1. CASE group.status = "HEDGED"
      BY <2>1, <3>1 DEF RaceInvariant, HedgedComplete, AllTargetsFilled, TerminalLeg
    <3>2. CASE group.status = "FLAT"
      BY <2>1, <2>2, <3>2 DEF SoloInvariant, StoredTrue, Target, Compensation, Roles, Live
    <3>3. QED
      BY <3>1, <3>2 DEF TerminalGroup
  <2>5. CASE k = 0
    BY <2>2, <2>4, <2>5 DEF LegTrue
  <2>6. CASE k # 0 /\ k = c.attempt
    BY <2>2, <2>4, <2>6 DEF LegTrue
  <2>7. CASE 0 < k /\ k < c.attempt
    BY <2>1, <2>7 DEF SoloInvariant, StoredTrue, ReversalsLast
  <2>8. CASE c.attempt < k
    BY <2>2, <2>3, <2>8 DEF OrderMatches, OrderTold
  <2>9. QED
    BY <2>2, <2>5, <2>6, <2>7, <2>8
<1>2. QED
  BY <1>1, TypeCorrect, RaceSafe, SoloSafe, PTL

-----------------------------------------------------------------------------
(* The reconciler implements GroupOutcome.                                  *)

\* A step of the promise, or none.
OutcomeStep == [Outcome!OutcomeNext]_<<Phase, position>>

\* What does not move the account nor the stored group is no step of the promise.
LEMMA Stutter ==
    ASSUME UNCHANGED <<group, position>>
    PROVE  OutcomeStep
BY DEF OutcomeStep, Phase, AllTargetsTerminal, Target

\* A target that still fills is one of a group that is open or stopping.
LEMMA TargetFills ==
    ASSUME TypeOK, RaceInvariant, SoloInvariant, OrdersGoOn(group), NEW l \in Legs,
           order'[l][0] # order[l][0]
    PROVE  Phase \in {"open", "stopping"}
<1>1. Target(group, l).status \notin TerminalLeg
  <2>1. Target(group, l).attempt = 0
    BY DEF RaceInvariant, Known, TargetsKnown
  <2>2. QED
    BY <2>1 DEF OrdersGoOn, Undisturbed, Target, Roles
<1>2. group.status # "HEDGED"
  BY <1>1 DEF RaceInvariant, HedgedComplete, AllTargetsFilled, TerminalLeg
<1>3. group.status # "FLAT"
  BY <1>1 DEF SoloInvariant, StoredTrue, LegsTrue, Target, Roles, Live
<1>4. ~AllTargetsTerminal(group)
  BY <1>1 DEF AllTargetsTerminal
<1>5. QED
  BY <1>2, <1>3, <1>4 DEF Phase

\* A reversal that still fills is one of a group that reduces.
LEMMA ReversalFills ==
    ASSUME TypeOK, RaceInvariant, SoloInvariant, OrdersGoOn(group), NEW l \in Legs,
           NEW k \in Attempts, k # 0, k = Compensation(group, l).attempt,
           order'[l][k] # order[l][k]
    PROVE  Phase = "reducing"
<1>1. Compensation(group, l).status \notin TerminalLeg
  BY DEF OrdersGoOn, Undisturbed, Compensation, Roles
<1>2. Compensation(group, l).status # "NONE"
  BY DEF RaceInvariant, Known, ReversalsKnown, ReversalKnown
<1>3. group.status # "FLAT"
  BY <1>1, <1>2 DEF SoloInvariant, StoredTrue, Compensation, Roles, Live
<1>4. group.status = "COMPENSATING" /\ AllTargetsTerminal(group)
  BY <1>3 DEF SoloInvariant, StoredTrue, ReversalsLast
<1>5. QED
  BY <1>4 DEF Phase

\* An order that goes on builds exposure up, or works it down, in its phase.
LEMMA FillImplements ==
    ASSUME TypeOK, TypeOK', RaceInvariant, SoloInvariant, NeverOverReversed', OrdersGoOn(group),
           NEW l \in Legs, NEW k \in Attempts, NEW o \in OrderRecord,
           Advances(order[l][k], o, l, k, group), SetOrder(l, k, o), group' = group
    PROVE  OutcomeStep
<1>1. /\ position \in [Legs -> Int] /\ position' \in [Legs -> Int]
      /\ order[l][k] \in OrderRecord /\ o = order'[l][k]
  BY DEF TypeOK, VenueTypeOK, SetOrder
<1>2. PICK old : old = order[l][k]
  OBVIOUS
<1>3. old.filled \in Nat /\ o.filled \in Nat /\ old.filled <= o.filled
  BY <1>1, <1>2 DEF Advances, OrderRecord
<1>4. /\ position' = [position EXCEPT ![l] = position'[l]]
      /\ position'[l] = position[l] + Signed(k, o.filled - old.filled)
  BY <1>1, <1>2 DEF SetOrder
<1>5. position'[l] \in Int /\ 0 <= position'[l] /\ position'[l] <= Quantity[l]
  BY QuantityAssumption DEF NeverOverReversed
<1>6. Phase' = Phase
  BY DEF Phase, AllTargetsTerminal, Target
<1>7. CASE o.filled = old.filled
  <2>1. position'[l] = position[l]
    BY <1>1, <1>3, <1>4, <1>7 DEF Signed
  <2>2. position' = position
    BY <1>1, <1>4, <2>1
  <2>3. QED
    BY <1>6, <2>2 DEF OutcomeStep
<1>8. CASE old.filled < o.filled /\ k = 0
  <2>1. position[l] < position'[l]
    BY <1>1, <1>3, <1>4, <1>8 DEF Signed
  <2>2. Phase \in {"open", "stopping"}
    <3>1. order'[l][0] # order[l][0]
      BY <1>1, <1>2, <1>3, <1>8
    <3>2. QED
      BY <3>1, TargetFills
  <2>3. Outcome!Build(l)
    BY <1>4, <1>5, <1>6, <2>1, <2>2 DEF Outcome!Build
  <2>4. QED
    BY <2>3 DEF OutcomeStep, Outcome!OutcomeNext
<1>9. CASE old.filled < o.filled /\ k # 0
  <2>1. position'[l] < position[l]
    BY <1>1, <1>3, <1>4, <1>9 DEF Signed
  <2>2. Phase = "reducing"
    <3>1. order'[l][k] # order[l][k] /\ o # order[l][k]
      BY <1>1, <1>2, <1>3, <1>9
    <3>2. k = Compensation(group, l).attempt
      BY <1>9, <3>1 DEF Advances
    <3>3. QED
      BY <1>9, <3>1, <3>2, ReversalFills
  <2>3. Outcome!Reduce(l)
    BY <1>4, <1>5, <1>6, <2>1, <2>2 DEF Outcome!Reduce
  <2>4. QED
    BY <2>3 DEF OutcomeStep, Outcome!OutcomeNext
<1>10. QED
  BY <1>3, <1>7, <1>8, <1>9

\* A group whose targets have ended and that holds nothing holds nothing at the venue.
LEMMA NothingHeld ==
    ASSUME TypeOK, RaceInvariant, SoloInvariant, AllTargetsTerminal(group), NoResidual(group),
           NEW l \in Legs
    PROVE  position[l] = 0
<1>1. PICK t, c : t = Target(group, l) /\ c = Compensation(group, l)
  OBVIOUS
<1>2. /\ LegTrue(t, order[l], ledger[l]) /\ LegTrue(c, order[l], ledger[l])
      /\ t.attempt = 0 /\ t.status \in TerminalLeg
      /\ c.attempt = 0 => c = NoLeg
      /\ c.attempt # 0 => c.status # "NONE"
      /\ ~Live(c)
  <2>1. ~Live(c)
    BY <1>1, NothingWorks DEF Compensation, Roles
  <2>2. QED
    BY <1>1, <2>1 DEF SoloInvariant, StoredTrue, LegsTrue, Target, Compensation, Roles,
         RaceInvariant, Known, TargetsKnown, ReversalsKnown, ReversalKnown, AllTargetsTerminal
<1>3. order[l][0].filled = t.filled
  BY <1>2 DEF LegTrue
<1>4. LatestFill(order[l], c) = c.filled
  <2>1. CASE c.attempt = 0
    BY <1>2, <2>1 DEF LatestFill, NoLeg
  <2>2. CASE c.attempt # 0
    BY <1>2, <2>2 DEF LatestFill, LegTrue, Live
  <2>3. QED
    BY <2>1, <2>2
<1>5. t.filled - group.closed[l] - c.filled = 0
  BY <1>1 DEF NoResidual, Residual
<1>6. position[l] = t.filled - group.closed[l] - c.filled
  BY <1>1, <1>3, <1>4 DEF RaceInvariant, VenueMatches, PositionBooked
<1>7. QED
  BY <1>5, <1>6

\* A save of a group that goes on compensating confirms the stop, or is no step.
LEMMA CompensatingImplements ==
    ASSUME TypeOK, UNCHANGED position, group.status = "COMPENSATING",
           group'.status = "COMPENSATING",
           \A l \in Legs : LegProgress(Target(group, l), Target(group, l)')
    PROVE  OutcomeStep
<1>1. AllTargetsTerminal(group) => AllTargetsTerminal(group)'
  BY DEF AllTargetsTerminal, LegProgress
<1>2. CASE AllTargetsTerminal(group)
  BY <1>1, <1>2 DEF OutcomeStep, Phase
<1>3. CASE ~AllTargetsTerminal(group) /\ ~AllTargetsTerminal(group)'
  BY <1>3 DEF OutcomeStep, Phase
<1>4. CASE ~AllTargetsTerminal(group) /\ AllTargetsTerminal(group)'
  <2>1. Phase = "stopping" /\ Phase' = "reducing"
    BY <1>4 DEF Phase
  <2>2. QED
    BY <2>1 DEF OutcomeStep, Outcome!OutcomeNext, Outcome!StopConfirmed
<1>5. QED
  BY <1>2, <1>3, <1>4

\* Every step of the single caller is one of the promise, or none.
LEMMA StepImplements ==
    ASSUME Solo, TypeOK, TypeOK', RaceInvariant, SoloInvariant,
           NeverOverReversed', HedgedIsHedged', [Next]_vars
    PROVE  OutcomeStep
<1>0. /\ VenueTypeOK /\ group \in GroupRecord /\ VenueMatches(position, order, group)
      /\ group.status = "NONE" => Phase = "open"
  BY DEF TypeOK, RaceInvariant, Phase
<1>1. CASE StartGroup
  <2>1. position' = position /\ group' = NewGroup(clock) /\ group.status = "NONE"
    BY <1>1 DEF StartGroup
  <2>2. NewGroup(clock).status = "EXECUTING"
    BY DEF NewGroup
  <2>3. Phase' = "open"
    BY <2>1, <2>2 DEF Phase
  <2>4. QED
    BY <1>0, <2>1, <2>3 DEF OutcomeStep
<1>2. ASSUME NEW r \in Runners, Progress(r) \/ Failure(r)
      PROVE  OutcomeStep
  <2>0. /\ run[r] \in RunRecord
        /\ run[r].pc # "idle" =>
              /\ run[r].base = group /\ run[r].behind = 0
              /\ Decision(run[r]) \in GroupRecord /\ Stamped(run[r]) \in GroupRecord
  BY CallHolds, SavedType DEF TypeOK
  <2>a. ASSUME NEW u, NEW next, Save(r, u, next), Legal(u), run[r].pc # "idle"
        PROVE  group' = u /\ \A l \in Legs : LegProgress(Target(group, l), Target(group, l)')
    <3>1. group' = u
      BY <2>0, <2>a DEF Save
    <3>2. \A l \in Legs : LegProgress(Target(group, l), Target(u, l))
      BY <2>a DEF Legal, ValidTransition
    <3>3. QED
      BY <3>1, <3>2 DEF Target
  <2>1. CASE StartRun(r) \/ Crash(r)
    BY <2>1, Stutter DEF StartRun, Crash
  <2>2. CASE Decide(r)
    <3>1. /\ PassDone(run[r], "sync", "TARGET") /\ run[r].pc # "idle" /\ position' = position
          /\ Save(r, Decision(run[r]), AfterDecision(run[r], Decision(run[r])))
      BY <2>2 DEF Decide, PassDone
    <3>2. PICK u : u = Decision(run[r])
      OBVIOUS
    <3>3. /\ Legal(u) /\ u.status \in {"EXECUTING", "RECOVERING", "COMPENSATING", "HEDGED"}
          /\ group.status \in {"EXECUTING", "RECOVERING"}
      BY <3>1, <3>2, DecisionLegal
    <3>4. group' = u /\ Phase = "open"
      BY <2>a, <3>1, <3>2, <3>3 DEF Phase
    <3>5. CASE u.status \in {"EXECUTING", "RECOVERING"}
      <4>1. Phase' = "open"
        BY <3>4, <3>5 DEF Phase
      <4>2. QED
        BY <3>1, <3>4, <4>1 DEF OutcomeStep
    <3>6. CASE u.status = "COMPENSATING"
      <4>1. Phase' \in {"stopping", "reducing"}
        BY <3>4, <3>6 DEF Phase
      <4>2. QED
        BY <3>1, <3>4, <4>1 DEF OutcomeStep, Outcome!OutcomeNext, Outcome!GiveUp
    <3>7. CASE u.status = "HEDGED"
      <4>1. Phase' = "hedged"
        BY <3>4, <3>7 DEF Phase
      <4>2. \A l \in Legs : position'[l] = Quantity[l]
        BY <3>4, <3>7 DEF HedgedIsHedged
      <4>3. position = Quantity
        BY <1>0, <3>1, <4>2, QuantityAssumption DEF VenueTypeOK
      <4>4. QED
        BY <3>1, <3>4, <4>1, <4>3 DEF OutcomeStep, Outcome!OutcomeNext, Outcome!EndHedged
    <3>8. QED
      BY <3>3, <3>5, <3>6, <3>7
  <2>3. CASE Stopped(r) \/ Reversed(r)
    <3>1. /\ PassDone(run[r], "stop", "TARGET") \/ PassDone(run[r], "sync", "COMPENSATION")
          /\ run[r].pc # "idle" /\ position' = position
      BY <2>3 DEF Stopped, Reversed, PassDone
    <3>2. /\ Legal(Stamped(run[r])) /\ Stamped(run[r]).status = "COMPENSATING"
          /\ group.status = "COMPENSATING"
      BY <3>1, StampedLegal
    <3>3. group' = group \/ \E next : Save(r, Stamped(run[r]), next)
      BY <2>3 DEF Stopped, Reversed, Keep
    <3>4. CASE group' = group
      BY <3>1, <3>4, Stutter
    <3>5. CASE \E next : Save(r, Stamped(run[r]), next)
      BY <2>a, <3>1, <3>2, <3>5, CompensatingImplements
    <3>6. QED
      BY <3>3, <3>4, <3>5
  <2>4. CASE Reverse(r)
    <3>1. run[r].pc = "reverse" /\ run[r].pc # "idle" /\ position' = position
      BY <2>4 DEF Reverse
    <3>2. /\ Legal(Reversal(run[r])) /\ Reversal(run[r]).status = "COMPENSATING"
          /\ group.status = "COMPENSATING"
      BY <3>1, ReversalLegal
    <3>3. group' = group \/ \E next : Save(r, Reversal(run[r]), next)
      BY <2>4 DEF Reverse, Keep
    <3>4. CASE group' = group
      BY <3>1, <3>4, Stutter
    <3>5. CASE \E next : Save(r, Reversal(run[r]), next)
      BY <2>a, <3>1, <3>2, <3>5, CompensatingImplements
    <3>6. QED
      BY <3>3, <3>4, <3>5
  <2>5. CASE Flatten(r)
    <3>1. /\ run[r].pc = "flat" /\ run[r].pc # "idle" /\ position' = position
          /\ Save(r, Flattened(run[r]), IdleRun)
      BY <2>5 DEF Flatten
    <3>2. /\ Legal(Flattened(run[r])) /\ Flattened(run[r]).status = "FLAT"
          /\ NoResidual(group) /\ AllTargetsTerminal(group) /\ group.status = "COMPENSATING"
      BY <3>1, FlattenedLegal
    <3>3. group' = Flattened(run[r])
      BY <2>a, <3>1, <3>2
    <3>4. Phase = "reducing" /\ Phase' = "flat"
      BY <3>2, <3>3 DEF Phase
    <3>5. \A l \in Legs : position[l] = 0
      BY <3>2, NothingHeld
    <3>6. QED
      BY <3>1, <3>4, <3>5 DEF OutcomeStep, Outcome!OutcomeNext, Outcome!EndFlat
  <2>6. ASSUME NEW l \in Legs, Submit(r, l) \/ SubmitAcceptedLost(r, l)
        PROVE  OutcomeStep
    <3>1. PICK o \in SubmitResults(run[r], l) : SetOrder(l, Leg(run[r], l).attempt, o)
      BY <2>6 DEF Submit, SubmitAcceptedLost
    <3>2. l \in run[r].calling /\ group' = group /\ run[r].pc # "idle"
      BY <2>6 DEF Submit, SubmitAcceptedLost
    <3>3. OrdersGoOn(group)
      BY <3>1, <3>2, SubmitGoesOn
    <3>4. QED
      BY <3>1, <3>2, <3>3, SubmitAdvances, FillImplements
  <2>7. ASSUME NEW l \in Legs, Cancel(r, l) \/ CancelLost(r, l)
        PROVE  OutcomeStep
    <3>1. PICK o \in {OrderOf(run[r], l), Canceled(OrderOf(run[r], l))} :
             SetOrder(l, Leg(run[r], l).attempt, o)
      BY <2>7 DEF Cancel, CancelLost
    <3>2. group' = group /\ run[r].pc # "idle"
      BY <2>7 DEF Cancel, CancelLost
    <3>3. OrdersGoOn(group)
      BY <3>1, <3>2, CancelGoesOn
    <3>4. QED
      BY <3>1, <3>2, <3>3, CancelAdvances, FillImplements
  <2>8. ASSUME NEW l \in Legs,
               \/ QueryFound(r, l) \/ QueryMissing(r, l) \/ RequeryFound(r, l)
               \/ RequeryUnknown(r, l) \/ StopQuery(r, l) \/ Recheck(r, l)
               \/ QueryLost(r, l) \/ SubmitNeverArrived(r, l)
               \/ StopQueryLost(r, l) \/ RecheckLost(r, l)
        PROVE  OutcomeStep
    BY <2>8, Stutter DEF QueryFound, QueryMissing, RequeryFound, RequeryUnknown, StopQuery,
         Recheck, QueryLost, SubmitNeverArrived, StopQueryLost, RecheckLost
  <2>9. QED
    BY <1>2, <2>1, <2>2, <2>3, <2>4, <2>5, <2>6, <2>7, <2>8 DEF Progress, Failure
<1>3. ASSUME NEW l \in Legs, NEW k \in Attempts, Market(l, k)
      PROVE  OutcomeStep
  <2>1. PICK o \in OrderRecord : SetOrder(l, k, o) /\ Advances(order[l][k], o, l, k, group)
    BY <1>3, MarketMoves
  <2>2. OrdersGoOn(group) /\ group' = group
    BY <1>3, MarketMoves DEF Market
  <2>3. QED
    BY <2>1, <2>2, FillImplements
<1>4. CASE Tick \/ Finished \/ UNCHANGED vars
  BY <1>4, Stutter DEF Tick, Finished, vars
<1>5. QED
  BY <1>1, <1>2, <1>3, <1>4 DEF Next

(* The reconciler implements the promise of GroupOutcome: exposure is built *)
(* up only before the targets are confirmed stopped, worked down only       *)
(* after, and fixed once the group has ended, hedged or flat.               *)
THEOREM OutcomeImplemented == ASSUME Solo PROVE Spec => ImplementsOutcome
<1>1. Init => Outcome!OutcomeInit
  <2> SUFFICES ASSUME Init PROVE Outcome!OutcomeInit
    OBVIOUS
  <2>1. group.status = "NONE" /\ position = [l \in Legs |-> 0]
    BY DEF Init, VenueInit, NoGroup, NewGroup
  <2>2. Phase = "open"
    BY <2>1 DEF Phase
  <2>3. QED
    BY <2>1, <2>2 DEF Outcome!OutcomeInit
<1>2. /\ TypeOK /\ TypeOK' /\ RaceInvariant /\ SoloInvariant
      /\ NeverOverReversed' /\ HedgedIsHedged' /\ [Next]_vars
      => [Outcome!OutcomeNext]_<<Phase, position>>
  BY StepImplements DEF OutcomeStep
<1>3. QED
  BY <1>1, <1>2, TypeCorrect, RaceSafe, SoloSafe, NeverOverReversedHolds, HedgedIsHedgedHolds,
     PTL DEF Spec, ImplementsOutcome, Outcome!OutcomeSpec, Outcome!outcomeVars
=============================================================================
