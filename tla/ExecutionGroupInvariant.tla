---------------------- MODULE ExecutionGroupInvariant ----------------------
(* The inductive invariant of ExecutionGroup for any number of runners.     *)
(* Its parts take the venue's orders and the stored group as arguments, so  *)
(* that what they say of an old group value can be carried along a step.    *)
EXTENDS ExecutionGroup

(* What a group value g read or worked on by anybody says truly of the      *)
(* venue and of the stored group, however old it is.                        *)
TargetsKnown(g, venue) ==
    \A l \in Legs :
        /\ Target(g, l).attempt = 0
        /\ Target(g, l).requested = Quantity[l]
        /\ Target(g, l).filled <= venue[l][0].filled
        /\ Target(g, l).status = "FILLED" => venue[l][0].status = "FILLED"

ReversalKnown(c, orders, latest) ==
    /\ c.attempt = 0 <=> c.status = "NONE"
    /\ c.attempt = 0 => c = NoLeg
    /\ c.attempt <= latest.attempt
    /\ c.attempt = latest.attempt => c.requested = latest.requested
    /\ c.status \in TerminalLeg =>
          /\ orders[c.attempt].status \in TerminalOrder
          /\ orders[c.attempt].filled = c.filled

ReversalsKnown(g, venue, stored) ==
    \A l \in Legs : ReversalKnown(Compensation(g, l), venue[l], Compensation(stored, l))

Known(g, venue, stored) == TargetsKnown(g, venue) /\ ReversalsKnown(g, venue, stored)

\* Orders are within their request; a filled order filled all of it.
OrderSound(o) ==
    /\ o.filled <= o.requested
    /\ o.status = "FILLED" => o.filled = o.requested
    /\ o.status = "NONE" => o = NoOrder

OrdersSound(venue) == \A l \in Legs, k \in Attempts : OrderSound(venue[l][k])

(* Orders come from stored legs: the target order asks for the plan, the    *)
(* latest reversal order for what its leg asks, earlier ones are over and   *)
(* later ones do not exist.                                                 *)
OrderMatches(o, l, k, c) ==
    /\ k = 0 => (o.status # "NONE" => o.requested = Quantity[l])
    /\ k # 0 => /\ o.status # "NONE" => k <= c.attempt
                /\ o.status # "NONE" /\ k = c.attempt => o.requested = c.requested
                /\ k < c.attempt => o.status \in TerminalOrder

OrdersMatchLegs(venue, stored) ==
    \A l \in Legs, k \in Attempts : OrderMatches(venue[l][k], l, k, Compensation(stored, l))

(* A reversal exists only for a target that has ended, and the reversals    *)
(* ask in total for no more than the target is recorded to have filled.     *)
ReversalsBounded(stored) ==
    \A l \in Legs :
        LET c == Compensation(stored, l)
        IN  IF c.attempt = 0
            THEN stored.closed[l] = 0
            ELSE /\ Target(stored, l).status \in TerminalLeg
                 /\ stored.closed[l] + c.requested = Target(stored, l).filled

\* The account position is what the orders filled.
LatestFill(orders, c) == IF c.attempt = 0 THEN 0 ELSE orders[c.attempt].filled

PositionBooked(account, venue, stored) ==
    \A l \in Legs :
        account[l] = venue[l][0].filled - stored.closed[l]
                       - LatestFill(venue[l], Compensation(stored, l))

HedgedComplete(stored) ==
    stored.status = "HEDGED" =>
        /\ AllTargetsFilled(stored)
        /\ \A l \in Legs : Compensation(stored, l).attempt = 0

\* A reconciliation in progress moves only statuses and fills.
SameReversals(g, h) ==
    /\ g.closed = h.closed
    /\ \A l \in Legs :
          /\ Compensation(g, l).attempt = Compensation(h, l).attempt
          /\ Compensation(g, l).requested = Compensation(h, l).requested

RunnerFaithful(rn, venue, stored) ==
    /\ Known(rn.base, venue, stored)
    /\ Known(rn.draft, venue, stored)
    /\ SameReversals(rn.draft, rn.base)
    /\ rn.pc # "idle" /\ rn.behind = 0 => rn.base = stored
    /\ rn.pc = "reverse" => AllTargetsTerminal(rn.base)
    /\ rn.pc \in {"stop", "cancel", "recheck"} => rn.role = "TARGET"
    /\ rn.role = "COMPENSATION" =>
          \A l \in rn.todo \cup rn.calling : Compensation(rn.draft, l).attempt # 0

\* Nobody runs before the group exists.
Unstarted(stored, runs) ==
    stored.status = "NONE" =>
        /\ stored = NoGroup
        /\ \A r \in Runners : runs[r].pc = "idle"

VenueMatches(account, venue, stored) ==
    /\ OrdersSound(venue)
    /\ OrdersMatchLegs(venue, stored)
    /\ PositionBooked(account, venue, stored)

RaceInvariant ==
    /\ Known(group, order, group)
    /\ VenueMatches(position, order, group)
    /\ ReversalsBounded(group)
    /\ HedgedComplete(group)
    /\ Unstarted(group, run)
    /\ \A r \in Runners : RunnerFaithful(run[r], order, group)

-----------------------------------------------------------------------------
(* What holds besides RaceInvariant when one caller at a time runs the      *)
(* group, as the leader of the deployment does: nobody overtakes it, so     *)
(* what it holds is what is stored, and what it stores is true.             *)

Solo == \A r, s \in Runners : r = s

Agrees(o, fact) == fact.status = o.status /\ fact.filled = o.filled

(* A leg keeps within its contract; a leg that has ended says what its      *)
(* order and the ledger say, and nothing is working for it.                 *)
LegTrue(leg, orders, facts) ==
    /\ ConsistentLeg(leg)
    /\ Live(leg) => leg.filled < leg.requested
    /\ leg.filled <= orders[leg.attempt].filled
    /\ leg.status \in TerminalLeg =>
          /\ orders[leg.attempt].status \notin LiveOrder
          /\ orders[leg.attempt].filled = leg.filled
          /\ Agrees(orders[leg.attempt], facts[leg.attempt])

LegsTrue(g, venue, facts) ==
    /\ \A role \in Roles, l \in Legs : LegTrue(g.legs[role][l], venue[l], facts[l])
    /\ \A l \in Legs : Target(g, l).status # "NONE"

\* Orders that work have something left; what is not placed is not recorded.
OrderTold(o, fact, now) ==
    /\ o.status \in LiveOrder => o.filled < o.requested
    /\ o.status = "REJECTED" => o.filled = 0
    /\ o.status = "NONE" => Agrees(o, fact)
    /\ fact.at <= now

(* The reversals come after every target has ended, while the group         *)
(* compensates; those before the latest are over and recorded.              *)
ReversalsLast(stored, venue, facts) ==
    \A l \in Legs :
        LET c == Compensation(stored, l)
        IN  /\ c.attempt # 0 => /\ stored.status \in {"COMPENSATING", "FLAT"}
                                /\ AllTargetsTerminal(stored)
            /\ \A k \in Attempts : 0 < k /\ k < c.attempt => Agrees(venue[l][k], facts[l][k])

StoredTrue(stored, venue, facts, now) ==
    /\ LegsTrue(stored, venue, facts)
    /\ \A l \in Legs, k \in Attempts : OrderTold(venue[l][k], facts[l][k], now)
    /\ ReversalsLast(stored, venue, facts)
    /\ stored.since <= stored.updated /\ stored.updated <= now
    /\ stored.status = "FLAT" =>
          /\ NoResidual(stored)
          /\ \A role \in Roles, l \in Legs : ~Live(stored.legs[role][l])

Compensating(rn) ==
    rn.role = "COMPENSATION" \/ rn.pc \in {"stop", "cancel", "recheck", "reverse", "flat"}
Reversing(rn) == rn.role = "COMPENSATION" \/ rn.pc \in {"reverse", "flat"}

(* A call holds the stored group and what it has since seen of its legs; it *)
(* only asks for legs that are not over.                                    *)
CallTrue(rn, venue, facts, now) ==
    /\ rn.behind = 0
    /\ LegsTrue(rn.draft, venue, facts)
    /\ rn.pc # "idle" =>
          /\ \A role \in Roles, l \in Legs :
                LegProgress(rn.base.legs[role][l], rn.draft.legs[role][l])
          /\ rn.draft.status = rn.base.status /\ rn.draft.since = rn.base.since
          /\ rn.draft.updated = rn.base.updated
          /\ \A l \in rn.todo \cup rn.calling : Live(Leg(rn, l))
          /\ rn.base.status \in IF Compensating(rn) THEN {"COMPENSATING"}
                                ELSE {"EXECUTING", "RECOVERING"}
          /\ Reversing(rn) => AllTargetsTerminal(rn.base)
          /\ rn.pc = "flat" => NoResidual(rn.base)
          /\ rn.base.updated <= rn.asOf /\ rn.asOf <= now
          /\ \A l \in Legs, k \in Attempts : facts[l][k].at <= rn.asOf

SoloInvariant ==
    /\ StoredTrue(group, order, ledger, clock)
    /\ \A r \in Runners : CallTrue(run[r], order, ledger, clock)
=============================================================================
