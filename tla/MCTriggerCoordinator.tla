------------------------- MODULE MCTriggerCoordinator -------------------------
(* Instances of TriggerCoordinator for TLC.                                 *)
EXTENDS TriggerCoordinator

MCKind == [e \in Events |-> IF e = "news" THEN "EVENT" ELSE "INTERNAL"]
MCPriority == [e \in Events |-> IF e = "news" THEN 60 ELSE Immediate]
MCLifetime == [e \in Events |-> IF e = "news" THEN 4 ELSE 0]

Rule(c, d) == [minimum |-> 50, coalesce |-> c, cooldown |-> d]
Review == [name |-> "review", at |-> 2, expires |-> 4]

MCFirstPlan(h, wakeups) ==
    [revision |-> 1, paused |-> FALSE, heartbeat |-> h, rules |-> {Rule(1, 2)},
     wakeups |-> wakeups]
ReviewPlan == MCFirstPlan(0, {Review})
BeatingReviewPlan == MCFirstPlan(3, {Review})
Wakeups == {[Review EXCEPT !.at = 1]}
Rules == {Rule(0, 3)}
Beats == {2}
=============================================================================
