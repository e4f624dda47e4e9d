--------------------------- MODULE GroupContract ---------------------------
(* The immutable record of one execution group and the two rule sets that   *)
(* guard it: the self-consistency of an ExecutionGroup value                *)
(* (execution/group/models.py) and the legality of replacing one stored     *)
(* value by another (execution/group/repository.py, _validate_transition).  *)
(*                                                                          *)
(* The planner gives the legs of a group distinct instruments, so a leg     *)
(* stands for its instrument.  Of the compensation legs of one target the   *)
(* record keeps the latest attempt and, in closed, what the earlier         *)
(* attempts reversed: they are terminal and never change again.  Prices are *)
(* the frozen reference prices.                                             *)
EXTENDS Integers, FiniteSets, FiniteSetsExt

CONSTANTS
    Legs,                     \* target legs of the planned trade group
    Quantity,                 \* requested quantity of each target leg
    Price,                    \* reference price times contract multiplier
    MaximumUnhedgedNotional,  \* frozen in the plan by Risk
    MaximumUnhedgedTime,      \* frozen in the plan by Risk
    ValidUntil,               \* first instant at which the plan is expired
    MaxTime,                  \* bound: last instant of the clock
    MaxAttempts               \* bound: compensation attempts per target leg

ASSUME LegsAssumption == IsFiniteSet(Legs) /\ Legs # {}
ASSUME QuantityAssumption == Quantity \in [Legs -> Nat \ {0}]
ASSUME PriceAssumption == Price \in [Legs -> Nat \ {0}]
ASSUME LimitsAssumption ==
    /\ MaximumUnhedgedNotional \in Nat
    /\ MaximumUnhedgedTime \in Nat \ {0}
    /\ ValidUntil \in Nat \ {0}
    /\ MaxTime \in Nat
    /\ ValidUntil <= MaxTime
    /\ MaxAttempts \in Nat \ {0}

Time == 0 .. MaxTime
NoTime == -1
Attempts == 0 .. MaxAttempts    \* attempt 0 is the target leg's own order

Roles == {"TARGET", "COMPENSATION"}
TerminalLeg == {"FILLED", "CANCELED", "REJECTED", "EXPIRED"}
LegStatus == TerminalLeg \cup {"PENDING", "WORKING", "PARTIALLY_FILLED", "UNKNOWN"}
TerminalGroup == {"HEDGED", "FLAT"}
RunningGroup == {"EXECUTING", "RECOVERING", "COMPENSATING"}
GroupStatus == TerminalGroup \cup RunningGroup

\* "NONE" marks a leg, an order or a group that does not exist yet.
LegRecord == [attempt   : Attempts,
              requested : Nat,
              status    : LegStatus \cup {"NONE"},
              filled    : Nat]
GroupRecord == [status  : GroupStatus \cup {"NONE"},
                legs    : [Roles -> [Legs -> LegRecord]],
                closed  : [Legs -> Nat],
                since   : Time \cup {NoTime},
                updated : Time]

NoLeg == [attempt |-> 0, requested |-> 0, status |-> "NONE", filled |-> 0]

PendingLeg(attempt, requested) ==
    [attempt |-> attempt, requested |-> requested, status |-> "PENDING", filled |-> 0]

\* new_execution_group: every target leg pending, no compensation.
NewGroup(startedAt) ==
    [status  |-> "EXECUTING",
     legs    |-> [role \in Roles |->
                    [l \in Legs |-> IF role = "TARGET"
                                    THEN PendingLeg(0, Quantity[l])
                                    ELSE NoLeg]],
     closed  |-> [l \in Legs |-> 0],
     since   |-> NoTime,
     updated |-> startedAt]

NoGroup == [NewGroup(0) EXCEPT !.status = "NONE"]

Target(g, l) == g.legs["TARGET"][l]
Compensation(g, l) == g.legs["COMPENSATION"][l]

Live(leg) == leg.status \notin TerminalLeg \cup {"NONE"}

\* What the group still holds of a leg after its recorded reversals.
Residual(g, l) == Target(g, l).filled - g.closed[l] - Compensation(g, l).filled
NoResidual(g) == \A l \in Legs : Residual(g, l) = 0

\* Mutant: an ended leg counts as a filled one.
AllTargetsEnded(g) == \A l \in Legs : Target(g, l).status \in TerminalLeg

AllTargetsFilled(g) == \A l \in Legs : Target(g, l).status = "FILLED"
AllTargetsTerminal(g) == \A l \in Legs : Target(g, l).status \in TerminalLeg

\* The leg that has made the least progress; progress is filled/requested,
\* compared by cross multiplication.
Laggard(g) ==
    CHOOSE m \in Legs : \A l \in Legs :
        Target(g, m).filled * Quantity[l] <= Target(g, l).filled * Quantity[m]

\* unhedged_notional scaled by the laggard's quantity, to stay in Nat.
ScaledUnhedged(g) ==
    LET m == Laggard(g)
        Unmatched(l) == (Target(g, l).filled * Quantity[m]
                           - Target(g, m).filled * Quantity[l]) * Price[l]
    IN  MapThenSumSet(Unmatched, Legs)

Unhedged(g) == ScaledUnhedged(g) > 0
OverUnhedgedLimit(g) == ScaledUnhedged(g) > MaximumUnhedgedNotional * Quantity[Laggard(g)]

-----------------------------------------------------------------------------
\* identity_and_fill_must_be_consistent
ConsistentLeg(leg) ==
    /\ leg.filled <= leg.requested
    /\ leg.status = "FILLED" => leg.filled = leg.requested
    /\ leg.status \in {"PENDING", "REJECTED"} => leg.filled = 0

\* group_state_must_be_self_consistent, with the validators of its legs
SelfConsistent(g) ==
    /\ \A role \in Roles, l \in Legs : ConsistentLeg(g.legs[role][l])
    /\ \A l \in Legs : Compensation(g, l).requested <= Target(g, l).filled
    /\ g.since <= g.updated
    /\ g.status = "HEDGED" =>
          /\ AllTargetsFilled(g)
          /\ \A l \in Legs : Compensation(g, l).attempt = 0
    /\ g.status = "FLAT" =>
          /\ \A role \in Roles, l \in Legs : ~Live(g.legs[role][l])
          /\ NoResidual(g)

\* _validate_leg_progress
LegProgress(previous, observed) ==
    /\ observed.filled >= previous.filled
    /\ previous.status \in TerminalLeg => observed = previous

AllowedStatus ==
    [s \in GroupStatus |->
        CASE s \in {"EXECUTING", "RECOVERING"} ->
                {"EXECUTING", "RECOVERING", "COMPENSATING", "HEDGED"}
          [] s = "COMPENSATING" -> {"COMPENSATING", "FLAT"}
          [] OTHER -> {}]

\* _validate_transition: an earlier compensation attempt keeps its contract
\* and its final fill, which is what closed accumulates.
ValidTransition(current, updated) ==
    /\ updated.updated >= current.updated
    /\ \A l \in Legs : LegProgress(Target(current, l), Target(updated, l))
    /\ \A l \in Legs :
        \/ /\ Compensation(updated, l).attempt = Compensation(current, l).attempt
           /\ updated.closed[l] = current.closed[l]
           /\ LegProgress(Compensation(current, l), Compensation(updated, l))
        \/ /\ Compensation(updated, l).attempt = Compensation(current, l).attempt + 1
           /\ updated.closed[l] = current.closed[l] + Compensation(current, l).filled
    /\ updated.status \in AllowedStatus[current.status]
=============================================================================
