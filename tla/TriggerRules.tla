----------------------------- MODULE TriggerRules -----------------------------
(* The scheduling rules shared by the coordinator workflow and historical   *)
(* replay (scheduling/models.py): what a plan accepts, when pending         *)
(* triggers may be batched, and which of them.                              *)
(*                                                                          *)
(* A trigger stands for AnalysisTriggerEvent without its evidence.  Its id  *)
(* is the dedup key behind trigger_id; content hashes only break ties       *)
(* between triggers of one priority and instant, so a tie is broken either  *)
(* way.  A disabled rule acts as an absent one and is not kept.             *)
EXTENDS Integers, FiniteSets, FiniteSetsExt

Never == -1      \* no expiry, no time yet
Immediate == 100 \* the priority that bypasses coalescing and cooldown
LongestWindow == 3600 \* the most a rule may ask for

\* EVENT is any type subscribed to by rules, INTERNAL a downstream notice.
Kinds == {"EVENT", "INTERNAL", "AGENT_WAKEUP", "HEARTBEAT"}

Ids(triggers) == {t.id : t \in triggers}

Expired(t, now) == t.expires # Never /\ t.expires <= now

MatchingRules(plan, t) ==
    {r \in plan.rules : t.kind = "EVENT" /\ t.priority >= r.minimum}

Accepts(plan, t) ==
    \/ t.kind = "AGENT_WAKEUP"
    \/ /\ ~plan.paused
       /\ t.kind = "EVENT" => MatchingRules(plan, t) # {}

\* The most specific matching rule decides; enabled minimums are distinct.
RuleValue(plan, t, field) ==
    LET matches == MatchingRules(plan, t)
    IN  IF matches = {} THEN 0
        ELSE (CHOOSE r \in matches : \A s \in matches : s.minimum <= r.minimum)[field]

HeadPriority(triggers) == Max({t.priority : t \in triggers})

(* The earliest time at which pending, not empty, may be batched; an expiry *)
(* on the way only wakes the coordinator to discard.                        *)
ReconsiderAt(plan, pending, now, last, retryAt) ==
    LET Longest(field) == Max({RuleValue(plan, t, field) : t \in pending})
        coalesced == Min({t.observed : t \in pending}) + Longest("coalesce")
        cooled    == IF last = Never THEN now ELSE last + Longest("cooldown")
        ordinary  == IF HeadPriority(pending) < Immediate THEN {coalesced, cooled}
                     ELSE {}
        earliest  == Max({now, retryAt} \cup ordinary)
        expiries  == {t.expires : t \in pending} \ {Never}
    IN  Max({now, Min({earliest} \cup expiries)})

Before(s, t) == \/ s.priority > t.priority
                \/ s.priority = t.priority /\ s.observed < t.observed

\* The sets the first n triggers of the order can be.
Firsts(triggers, n) ==
    IF Cardinality(triggers) <= n THEN {triggers}
    ELSE {S \in kSubset(n, triggers) : \A s \in S, t \in triggers \ S : ~Before(t, s)}

\* Immediate triggers form a batch of their own.
Exclusive(triggers) ==
    IF HeadPriority(triggers) = Immediate
    THEN {t \in triggers : t.priority = Immediate} ELSE triggers

Selections(eligible, size) == Firsts(Exclusive(eligible), size)

NoBatch == [members |-> {}, created |-> Never, deadline |-> Never, revision |-> 0]

NewBatch(plan, members, now, patience) ==
    [members |-> members, created |-> now, deadline |-> now + patience,
     revision |-> plan.revision]
=============================================================================
