----------------------------- MODULE TriggerOutbox -----------------------------
(* The durable side of scheduling: the trigger plan, the recorded triggers  *)
(* and their outbox in one database (scheduling/repository.py), and the     *)
(* leader's delivery loop (scheduling/runtime.py).                          *)
(*                                                                          *)
(* A transaction is one step.  The now it stores is read before it commits, *)
(* up to MaxLate earlier, so a message can appear behind later ones.  A     *)
(* patch that was built from an old revision, or a replayed one, changes    *)
(* nothing and is no step.                                                  *)
EXTENDS TriggerRules

CONSTANTS
    Events,        \* external events and downstream notices that may happen
    Kind,          \* Kind[e], its trigger type: EVENT or INTERNAL
    Priority,      \* Priority[e] \in 0 .. 100
    Lifetime,      \* Lifetime[e]: time from observation to expiry, 0 for none
    FirstPlan,     \* the plan create_plan has stored: revision 1
    Rulebook,      \* rules a patch may install
    Pauses,        \* values a patch may set ai_paused to
    Heartbeats,    \* heartbeats a patch may set, 0 for none
    WakeupPlans,   \* wakeups a patch may schedule
    Requests,      \* request ids of immediate wakeups
    Expiry,        \* trigger_expiry_seconds
    MinInterval,   \* minimum_call_interval_seconds
    MaxRevision,   \* bound: revisions of the plan
    MaxTime,       \* bound: the clock
    LastRecording, \* bound: nothing is recorded or patched later
    LastBusy,      \* bound: later, time only passes when nothing else can happen
    MaxLate,       \* bound: time a transaction may take
    MaxFaults      \* bound: deliveries, marks and builds that fail

ASSUME EventsAssumption ==
    /\ Kind \in [Events -> {"EVENT", "INTERNAL"}]
    /\ Priority \in [Events -> 0 .. Immediate]
    /\ Lifetime \in [Events -> Nat]
    /\ Expiry \in Nat \ {0}
    /\ MinInterval \in Nat
    /\ {MaxRevision, MaxTime, LastRecording, LastBusy, MaxLate, MaxFaults} \subseteq Nat
    /\ MaxRevision # 0

ASSUME PlansAssumption ==
    /\ FirstPlan \in [revision : {1}, paused : BOOLEAN, heartbeat : Nat,
                      rules : SUBSET FirstPlan.rules, wakeups : SUBSET FirstPlan.wakeups]
    /\ Pauses \subseteq BOOLEAN /\ Heartbeats \subseteq Nat
    /\ \A w \in WakeupPlans \cup FirstPlan.wakeups : w.at \in Nat /\ w.expires \in Nat
    /\ \A r \in Rulebook \cup FirstPlan.rules :
         r.minimum \in 0 .. Immediate /\ {r.coalesce, r.cooldown} \subseteq 0 .. LongestWindow

Time == 0 .. MaxTime

VARIABLES
    clock,
    faults,
    plan,      \* the current plan of the one portfolio and pipeline
    recorded,  \* every trigger ever recorded
    outbox,    \* messages still PENDING
    snapshot,  \* messages the dispatcher has fetched and not finished
    signalled  \* the message it has signalled and not marked, in a set

storeVars == <<plan, recorded, outbox>>
dispatchVars == <<snapshot, signalled>>

PlanMessage(p, now) == [kind |-> "PLAN_REVISED", at |-> now, plan |-> p, trigger |-> {}]
TriggerMessage(t) ==
    [kind |-> "TRIGGER_CREATED", at |-> t.observed, plan |-> FirstPlan, trigger |-> {t}]

OutboxInit ==
    /\ clock = 0
    /\ faults = 0
    /\ plan = FirstPlan
    /\ recorded = {}
    /\ outbox = {PlanMessage(FirstPlan, 0)}
    /\ snapshot = {}
    /\ signalled = {}

Fault == faults < MaxFaults /\ faults' = faults + 1

\* The instants a transaction committing at this time can have read.
Started == {now \in Time : clock - MaxLate <= now /\ now <= clock}

-----------------------------------------------------------------------------
(* Recording.                                                               *)

ExternalTrigger(e, now) ==
    [id |-> [source |-> "EXTERNAL", name |-> e, at |-> 0, period |-> 0],
     kind |-> Kind[e], priority |-> Priority[e], observed |-> now,
     expires |-> IF Lifetime[e] = 0 THEN Never ELSE now + Lifetime[e],
     revision |-> 0]

\* insert_trigger_with_outbox: the trigger and its message, or neither.
InsertWithOutbox(triggers) ==
    /\ recorded' = recorded \cup triggers
    /\ outbox' = outbox \cup {TriggerMessage(t) : t \in triggers}

\* record_trigger: a second trigger with the same id changes nothing.
Record(e) ==
    /\ clock <= LastRecording
    /\ \E now \in Started :
         LET t == ExternalTrigger(e, now)
         IN  /\ t.id \notin Ids(recorded)
             /\ InsertWithOutbox({t})
    /\ UNCHANGED <<clock, faults, plan, dispatchVars>>

RequestedTrigger(q, now, revision) ==
    [id |-> [source |-> "REQUEST", name |-> q, at |-> 0, period |-> 0],
     kind |-> "AGENT_WAKEUP", priority |-> Immediate, observed |-> now,
     expires |-> now + Expiry, revision |-> revision]

\* Neither two planned wakeups nor one and an immediate call come too close.
Spaced(wakeups, emitted, now) ==
    LET calls == {<<w.name, w.at>> : w \in {x \in wakeups : x.at > now}}
                 \cup {<<t.id.name, now>> : t \in emitted}
    IN  \A c, d \in calls : c # d => c[2] - d[2] \notin (1 - MinInterval) .. (MinInterval - 1)

(* apply_patch with one operation: the gate's checks, the next revision,    *)
(* and its messages in the same transaction.                                *)
Revise(now, wakeups, revised, emitted) ==
    LET retained == {w \in wakeups : w.expires > now}
        next     == [revised EXCEPT !.revision = @ + 1, !.wakeups = retained]
    IN  /\ clock <= LastRecording
        /\ plan.revision < MaxRevision
        /\ now \in Started
        /\ revised.heartbeat # 0 => revised.heartbeat >= MinInterval
        /\ Spaced(retained, emitted, now)
        /\ Ids(emitted) \cap Ids(recorded) = {}
        /\ plan' = next
        /\ recorded' = recorded \cup emitted
        /\ outbox' = outbox \cup {PlanMessage(next, now)}
                            \cup {TriggerMessage(t) : t \in emitted}
        /\ UNCHANGED <<clock, faults, dispatchVars>>

SetAiPaused(paused) ==
    \E now \in Started : Revise(now, plan.wakeups, [plan EXCEPT !.paused = paused], {})

SetHeartbeat(h) ==
    \E now \in Started : Revise(now, plan.wakeups, [plan EXCEPT !.heartbeat = h], {})

\* A rule replaces the one of its tier.
UpsertEventRule(r) ==
    \E now \in Started :
        Revise(now, plan.wakeups,
               [plan EXCEPT !.rules = {s \in @ : s.minimum # r.minimum} \cup {r}], {})

DeleteEventRule(r) ==
    \E now \in Started : Revise(now, plan.wakeups, [plan EXCEPT !.rules = @ \ {r}], {})

\* ADD_WAKEUP for a new name, UPDATE_WAKEUP for a known one.
PutWakeup(w) ==
    \E now \in Started :
        /\ w.at > now
        /\ Revise(now, {v \in plan.wakeups : v.name # w.name} \cup {w}, plan, {})

DeleteWakeup(w) ==
    \E now \in Started : Revise(now, plan.wakeups \ {w}, plan, {})

TriggerNow(q) ==
    \E now \in Started :
        Revise(now, plan.wakeups, plan, {RequestedTrigger(q, now, plan.revision + 1)})

\* rebind_manifest: a release takes over the plan under a new revision.
RebindManifest ==
    \E now \in Started :
        LET retained == {w \in plan.wakeups : w.expires > now}
            next     == [plan EXCEPT !.revision = @ + 1, !.wakeups = retained]
        IN  /\ clock <= LastRecording
            /\ plan.revision < MaxRevision
            /\ plan' = next
            /\ outbox' = outbox \cup {PlanMessage(next, now)}
            /\ UNCHANGED <<clock, faults, recorded, dispatchVars>>

-----------------------------------------------------------------------------
(* Delivery.                                                                *)

\* Mutant: messages of one instant are delivered in any order.
PrecedesByTime(m, n) == m.at < n.at

\* The order of pending_outbox, up to ties between content hashes.
Precedes(m, n) ==
    \/ m.at < n.at
    \/ m.at = n.at /\ m.kind = "PLAN_REVISED" /\ n.kind = "TRIGGER_CREATED"

\* The message to deliver next can be any of those nothing precedes.
NextMessages == {m \in snapshot : \A n \in snapshot : ~Precedes(n, m)}

DueMessages == {m \in outbox : m.at <= clock}

Fetch ==
    /\ snapshot = {}
    /\ DueMessages # {}
    /\ snapshot' = DueMessages
    /\ UNCHANGED <<clock, faults, storeVars, signalled>>

\* mark_delivered, after which the loop takes the next message.
Mark(m) ==
    /\ m \in signalled
    /\ outbox' = outbox \ {m}
    /\ snapshot' = snapshot \ {m}
    /\ signalled' = {}
    /\ UNCHANGED <<clock, faults, plan, recorded>>

(* A call to the workflow service or the mark fails, or the leader dies:    *)
(* the messages left are fetched again, whatever had taken effect.          *)
DeliveryFails ==
    /\ snapshot # {}
    /\ Fault
    /\ snapshot' = {}
    /\ signalled' = {}
    /\ UNCHANGED <<clock, storeVars>>
=============================================================================
