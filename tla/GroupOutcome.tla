---------------------------- MODULE GroupOutcome ----------------------------
(* What an execution group promises to the account: its legs build up       *)
(* exposure while it is open; it either ends hedged with every leg complete *)
(* or gives up, stops all of its target legs, and only then works the       *)
(* exposure down until it ends flat.  After either end the exposure the     *)
(* group caused never changes again.                                        *)
EXTENDS Integers

CONSTANTS Legs, Quantity

VARIABLES phase, exposure

outcomeVars == <<phase, exposure>>

Phases == {"open", "stopping", "reducing", "hedged", "flat"}

OutcomeInit ==
    /\ phase = "open"
    /\ exposure = [l \in Legs |-> 0]

\* A target order fills; a cancel request may still race with it.
Build(l) ==
    /\ phase \in {"open", "stopping"}
    /\ exposure' = [exposure EXCEPT ![l] = exposure'[l]]
    /\ exposure[l] < exposure'[l]
    /\ exposure'[l] <= Quantity[l]
    /\ UNCHANGED phase

GiveUp ==
    /\ phase = "open"
    /\ phase' \in {"stopping", "reducing"}
    /\ UNCHANGED exposure

StopConfirmed ==
    /\ phase = "stopping"
    /\ phase' = "reducing"
    /\ UNCHANGED exposure

\* A reversal fills; it never takes the leg to the other side of zero.
Reduce(l) ==
    /\ phase = "reducing"
    /\ exposure' = [exposure EXCEPT ![l] = exposure'[l]]
    /\ 0 <= exposure'[l]
    /\ exposure'[l] < exposure[l]
    /\ UNCHANGED phase

EndHedged ==
    /\ phase = "open"
    /\ exposure = Quantity
    /\ phase' = "hedged"
    /\ UNCHANGED exposure

EndFlat ==
    /\ phase = "reducing"
    /\ \A l \in Legs : exposure[l] = 0
    /\ phase' = "flat"
    /\ UNCHANGED exposure

OutcomeNext ==
    \/ GiveUp \/ StopConfirmed \/ EndHedged \/ EndFlat
    \/ \E l \in Legs : Build(l) \/ Reduce(l)

OutcomeSpec == OutcomeInit /\ [][OutcomeNext]_outcomeVars
=============================================================================
