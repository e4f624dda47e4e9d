-------------------------- MODULE MCExecutionGroup --------------------------
(* Small instances of ExecutionGroup for TLC.                               *)
EXTENDS ExecutionGroupInvariant, TLC

\* Reference prices are equal; only the quantities differ.
OneEach == [l \in Legs |-> 1]

CONSTANT LargeLeg  \* the leg of two units in an uneven plan
Uneven == [l \in Legs |-> IF l = LargeLeg THEN 2 ELSE 1]

RunnerSymmetry == Permutations(Runners)
=============================================================================
