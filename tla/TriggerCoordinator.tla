--------------------------- MODULE TriggerCoordinator ---------------------------
(* The one coordinator workflow of a portfolio and pipeline                 *)
(* (scheduling/workflows.py), fed by the outbox.                            *)
(*                                                                          *)
(* Workflow code between two awaits is one activation: a step that leaves   *)
(* pc at "loop" is finished by Pass before a signal is handled or time goes *)
(* on.  An activation may come late.  A worker that dies loses nothing: the *)
(* workflow is replayed from its history, so no step here is a crash.       *)
(* The seen ids are not dropped after 5000, and nobody sends stop.          *)
EXTENDS TriggerOutbox

CONSTANTS
    BatchSize,     \* maximum_batch_size
    MaxPending,    \* maximum_pending_triggers
    Patience,      \* analysis_deadline_seconds
    RetryMaximum,  \* retry_maximum_seconds
    Deferrals,     \* how far ahead an admission may defer a batch
    ContinueEvery  \* batches in one execution: 500

ASSUME CoordinatorAssumption ==
    {BatchSize, MaxPending, Patience, RetryMaximum, ContinueEvery} \cup Deferrals \subseteq Nat \ {0}

VARIABLES
    pc,         \* absent, starting, loop, waiting, building or running
    request,    \* what an execution that is starting will restore
    known,      \* the plan it has, in a set: {} before the first
    pending,    \* accepted triggers
    prestart,   \* triggers signalled before there is a plan
    seen,       \* ids accepted or made
    consumed,   \* ids of the wakeups that came due
    last,       \* when the last batch ended, or Never
    started,    \* when the execution started, kept while last is Never
    batch,      \* the batch being built, frozen or running
    frozen,     \* the batch waits for its input and stays what it is
    retryAt,    \* no build before this time
    timer,      \* when the current wait times out
    signaled,   \* a signal changed something since the wait began
    completed,  \* completed batches, modulo ContinueEvery
    unresolved, \* the last batch to end failed
    judged,     \* history: ids refused, expired, trimmed or missed
    finished    \* history: ids in a batch that was dispatched or failed

intakeVars == <<known, pending, prestart, seen, signaled>>
batchVars == <<batch, frozen, retryAt, completed, unresolved, finished>>
timeVars == <<last, started, timer, consumed>>
coordinatorVars == <<pc, request, judged, intakeVars, batchVars, timeVars>>
vars == <<clock, faults, storeVars, dispatchVars, coordinatorVars>>

NoRequest == [plan |-> {}, seen |-> {}]

Init ==
    /\ OutboxInit
    /\ pc = "absent" /\ request = NoRequest
    /\ known = {} /\ pending = {} /\ prestart = {} /\ seen = {} /\ signaled = FALSE
    /\ batch = NoBatch /\ frozen = FALSE /\ retryAt = Never
    /\ completed = 0 /\ unresolved = FALSE
    /\ last = Never /\ started = Never /\ timer = Never /\ consumed = {}
    /\ judged = {} /\ finished = {}

\* Mutant: a signal does not end the wait.
AwakeOnTimer == pc = "loop" \/ (pc = "waiting" /\ clock >= timer)

Awake == pc = "loop" \/ (pc = "waiting" /\ (signaled \/ clock >= timer))

Quiet == snapshot = {} /\ DueMessages = {} /\ pc = "waiting" /\ ~Awake

Tick ==
    /\ pc # "loop"
    /\ clock < MaxTime
    /\ clock < LastBusy \/ Quiet
    /\ clock' = clock + 1
    /\ UNCHANGED <<faults, storeVars, dispatchVars, coordinatorVars>>

-----------------------------------------------------------------------------
(* Start, signals and restart.                                              *)

\* deliver starts the coordinator with the stored plan when there is none.
StartCoordinator ==
    /\ snapshot # {} /\ signalled = {}
    /\ pc = "absent"
    /\ pc' = "starting"
    /\ request' = [plan |-> {plan}, seen |-> {}]
    /\ UNCHANGED <<clock, faults, storeVars, dispatchVars, judged,
                   intakeVars, batchVars, timeVars>>

\* _accept_trigger for triggers under plan p, with ids already seen.
Acceptable(p, triggers, ids) == {t \in triggers : t.id \notin ids /\ Accepts(p, t)}
Refused(p, triggers, ids) == {t \in triggers : t.id \notin ids /\ ~Accepts(p, t)}

ReceivePlan(p) ==
    /\ known' = IF \A k \in known : p.revision > k.revision THEN {p} ELSE known
    /\ signaled' = (pc = "waiting" /\ (signaled \/ known' # known))
    /\ UNCHANGED <<pending, prestart, seen, judged>>

\* Mutant: triggers signalled before there is a plan are dropped.
DropBeforeRun(t) ==
    /\ known = {}
    /\ UNCHANGED <<intakeVars, judged>>

\* Signals between the start and the first run know no plan.
KeepForRun(t) ==
    /\ known = {}
    /\ prestart' = IF t.id \in seen THEN prestart ELSE prestart \cup {t}
    /\ UNCHANGED <<known, pending, seen, signaled, judged>>

AcceptTrigger(t) ==
    \E p \in known :
        LET new == Acceptable(p, {t}, seen \cup Ids(prestart))
        IN  /\ pending' = pending \cup new
            /\ seen' = seen \cup Ids(new)
            /\ signaled' = (pc = "waiting" /\ (signaled \/ new # {}))
            /\ judged' = judged \cup Ids(Refused(p, {t}, seen \cup Ids(prestart)))
            /\ UNCHANGED <<known, prestart>>

Receive(m) ==
    \/ m.kind = "PLAN_REVISED" /\ ReceivePlan(m.plan)
    \/ \E t \in m.trigger : KeepForRun(t) \/ AcceptTrigger(t)

SignalCoordinator(m) ==
    /\ m \in NextMessages /\ signalled = {}
    /\ pc \notin {"absent", "loop"}
    /\ Receive(m)
    /\ signalled' = {m}
    /\ UNCHANGED <<clock, faults, storeVars, snapshot, pc, request, batchVars, timeVars>>

\* Mutant: the execution starts from its request whatever it was told.
LaterPlanRequest(p) == request.plan

\* The plan of the request, unless a signal brought a later one.
LaterPlan(p) ==
    {q \in request.plan \cup p : \A r \in request.plan \cup p : r.revision <= q.revision}

(* run up to its loop: restores what a continued execution carried and      *)
(* takes the triggers that came before it.                                  *)
Run ==
    /\ pc = "starting"
    /\ pc' = "loop"
    /\ known' = LaterPlan(known)
    /\ \E p \in known' :
         LET ids == request.seen \cup seen
             new == Acceptable(p, prestart, ids)
         IN  /\ pending' = pending \cup new
             /\ seen' = ids \cup Ids(new)
             /\ judged' = judged \cup Ids(Refused(p, prestart, ids))
    /\ prestart' = {}
    /\ started' = IF last = Never THEN clock ELSE Never
    /\ request' = NoRequest
    /\ signaled' = FALSE
    /\ UNCHANGED <<clock, faults, storeVars, dispatchVars, batchVars, last, timer, consumed>>

-----------------------------------------------------------------------------
(* One pass of the loop, up to its next await.                              *)

WakeupId(w) == [source |-> "WAKEUP", name |-> w.name, at |-> w.at, period |-> 0]
HeartbeatId(anchor, h) == [source |-> "HEARTBEAT", name |-> "-", at |-> anchor, period |-> h]

DueWakeups(p) == {w \in p.wakeups : WakeupId(w) \notin consumed /\ w.at <= clock}

WakeupTrigger(p, w) ==
    [id |-> WakeupId(w), kind |-> "AGENT_WAKEUP", priority |-> 90, observed |-> clock,
     expires |-> w.expires, revision |-> p.revision]

\* The first heartbeat is due at once.
Anchor(p) == IF last = Never THEN started - p.heartbeat ELSE last

HeartbeatTriggers(p) ==
    IF p.heartbeat # 0 /\ clock >= Anchor(p) + p.heartbeat
    THEN {[id |-> HeartbeatId(Anchor(p), p.heartbeat), kind |-> "HEARTBEAT", priority |-> 10,
           observed |-> clock, expires |-> Never, revision |-> p.revision]}
    ELSE {}

\* _enqueue_due, for a plan that is not paused.
Due(p) ==
    LET fresh == {w \in DueWakeups(p) : w.expires > clock}
        beat  == {t \in HeartbeatTriggers(p) : t.id \notin Ids(pending)}
    IN  {WakeupTrigger(p, w) : w \in fresh} \cup beat

Enqueued(p) == IF p.paused THEN pending ELSE pending \cup Due(p)

\* _discard_expired: the members of a frozen batch stay.
Unexpired(triggers) ==
    {t \in triggers : ~Expired(t, clock) \/ (frozen /\ t.id \in Ids(batch.members))}

Eligible(p, triggers) == {t \in triggers : p.paused => t.kind = "AGENT_WAKEUP"}

\* _next_timer_delay as a time; one day ahead is beyond the horizon.
NextTimer(p) ==
    LET wakes == {w.at : w \in {x \in p.wakeups : WakeupId(x) \notin consumed'}}
        beats == IF p.heartbeat = 0 THEN {}
                 ELSE {(IF last = Never THEN started ELSE last) + p.heartbeat}
    IN  IF p.paused \/ wakes \cup beats = {} THEN MaxTime + 1
        ELSE Max({clock, Min(wakes \cup beats)})

Wait(until) ==
    /\ pc' = "waiting"
    /\ timer' = until
    /\ signaled' = FALSE
    /\ UNCHANGED <<batchVars, last, started>>

Build(b) ==
    /\ pc' = "building"
    /\ batch' = b
    /\ timer' = Never
    /\ UNCHANGED <<signaled, frozen, retryAt, completed, unresolved, finished, last, started>>

\* Mutant: the anchor stays at the last batch that was dispatched.
EndFailedAtAnchor(b) ==
    /\ batch' = NoBatch
    /\ frozen' = FALSE
    /\ retryAt' = Never
    /\ unresolved' = TRUE
    /\ finished' = finished \cup Ids(b.members)
    /\ UNCHANGED <<completed, last, started>>

\* _fail_batch: the batch is consumed and the heartbeat anchor moves on.
EndFailed(b) ==
    /\ batch' = NoBatch
    /\ frozen' = FALSE
    /\ retryAt' = Never
    /\ unresolved' = TRUE
    /\ finished' = finished \cup Ids(b.members)
    /\ last' = clock
    /\ started' = Never
    /\ UNCHANGED completed

\* A frozen batch is built again, unchanged, until its deadline.
RetryFrozen(live) ==
    /\ frozen
    /\ \/ /\ clock >= batch.deadline
          /\ EndFailed(batch)
          /\ pending' = {t \in live : t.id \notin Ids(batch.members)}
          /\ pc' = "loop"
          /\ timer' = Never
          /\ UNCHANGED signaled
       \/ /\ clock < batch.deadline
          /\ pending' = live
          /\ IF retryAt > clock THEN Wait(retryAt) ELSE Build(batch)

FormBatch(p, live) ==
    /\ ~frozen
    /\ pending' = live
    /\ LET eligible == Eligible(p, live)
           at       == ReconsiderAt(p, eligible, clock, last, retryAt)
       IN  IF eligible = {} THEN Wait(NextTimer(p))
           ELSE IF at > clock THEN Wait(at)
           ELSE \E members \in Selections(eligible, BatchSize) :
                    Build(NewBatch(p, members, clock, Patience))

Pass ==
    /\ Awake
    /\ \E p \in known :
         LET due == IF p.paused THEN {} ELSE DueWakeups(p)
         IN  /\ consumed' = consumed \cup {WakeupId(w) : w \in due}
             /\ seen' = seen \cup (Ids(Enqueued(p)) \ Ids(pending))
             /\ \E kept \in Firsts(Enqueued(p), MaxPending) :
                  LET live == Unexpired(kept)
                  IN  /\ judged' = judged \cup (Ids(Enqueued(p)) \ Ids(live))
                                          \cup {WakeupId(w) : w \in {x \in due : x.expires <= clock}}
                      /\ RetryFrozen(live) \/ FormBatch(p, live)
    /\ UNCHANGED <<clock, faults, storeVars, dispatchVars, request, known, prestart>>

-----------------------------------------------------------------------------
(* The build activity and the child workflows.                              *)

Unchanged == <<clock, storeVars, dispatchVars, request, judged, known, prestart, seen,
               signaled, timer, consumed>>

BuildOk ==
    /\ pc = "building"
    /\ pc' = "running"
    /\ frozen' = FALSE
    /\ retryAt' = Never
    /\ pending' = {t \in pending : t.id \notin Ids(batch.members)}
    /\ finished' = finished \cup Ids(batch.members)
    /\ UNCHANGED <<Unchanged, faults, batch, completed, unresolved, last, started>>

\* Admission defers the batch, or an input is not there yet: same batch later.
InputUnavailable ==
    /\ pc = "building"
    /\ pc' = "loop"
    /\ frozen' = TRUE
    /\ \E delay \in Deferrals \cup {RetryMaximum} : retryAt' = clock + delay
    /\ UNCHANGED <<Unchanged, faults, pending, batch, completed, unresolved, finished,
                   last, started>>

\* The activity gives up on a transient error: the batch is dropped, frozen
\* or not, and its triggers form a new one later.
BuildFails ==
    /\ pc = "building"
    /\ Fault
    /\ pc' = "loop"
    /\ batch' = NoBatch
    /\ frozen' = FALSE
    /\ retryAt' = clock + RetryMaximum
    /\ UNCHANGED <<Unchanged, pending, completed, unresolved, finished, last, started>>

\* The batch breaks a contract or a domain rule: it is consumed once.
BuildRejected ==
    /\ pc = "building"
    /\ Fault
    /\ pc' = "loop"
    /\ pending' = {t \in pending : t.id \notin Ids(batch.members)}
    /\ EndFailed(batch)
    /\ UNCHANGED Unchanged

\* Every 500 batches, if nothing is pending, the workflow starts afresh.
ContinueAsNew ==
    /\ pc' = "starting"
    /\ request' = [plan |-> known, seen |-> seen]
    /\ known' = {}
    /\ seen' = {}
    /\ signaled' = FALSE

ChildrenDone(ok) ==
    /\ pc = "running"
    /\ batch' = NoBatch
    /\ unresolved' = ~ok
    /\ last' = clock
    /\ started' = Never
    /\ completed' = (completed + 1) % ContinueEvery
    /\ IF completed' = 0 /\ pending = {}
       THEN ContinueAsNew
       ELSE pc' = "loop" /\ UNCHANGED <<request, known, seen, signaled>>
    /\ UNCHANGED <<clock, faults, storeVars, dispatchVars, judged, pending, prestart,
                   frozen, retryAt, timer, consumed, finished>>

-----------------------------------------------------------------------------

Recording ==
    \/ \E e \in Events : Record(e)
    \/ \E paused \in Pauses : SetAiPaused(paused)
    \/ \E h \in Heartbeats : SetHeartbeat(h)
    \/ \E r \in Rulebook : UpsertEventRule(r)
    \/ \E r \in plan.rules : DeleteEventRule(r)
    \/ \E w \in WakeupPlans : PutWakeup(w)
    \/ \E w \in plan.wakeups : DeleteWakeup(w)
    \/ \E q \in Requests : TriggerNow(q)
    \/ RebindManifest

Delivery ==
    \/ Fetch
    \/ \E m \in signalled : Mark(m)
    \/ DeliveryFails

BuildEnds == BuildOk \/ InputUnavailable \/ BuildFails \/ BuildRejected

Coordination ==
    \/ StartCoordinator
    \/ \E m \in snapshot : SignalCoordinator(m)
    \/ Run
    \/ Pass
    \/ \E ok \in BOOLEAN : ChildrenDone(ok)

Next ==
    \/ Tick
    \/ Recording /\ UNCHANGED coordinatorVars
    \/ Delivery /\ UNCHANGED coordinatorVars
    \/ Coordination
    \/ BuildEnds

Spec == Init /\ [][Next]_vars

-----------------------------------------------------------------------------
(* Properties.                                                              *)

WakeupNames == {w.name : w \in WakeupPlans \cup FirstPlan.wakeups}
TriggerId == [source : {"EXTERNAL", "REQUEST", "WAKEUP", "HEARTBEAT"},
              name : Events \cup Requests \cup WakeupNames \cup {"-"},
              at : Int, period : Nat]
Trigger == [id : TriggerId, kind : Kinds, priority : 0 .. Immediate, observed : Time,
            expires : Nat \cup {Never}, revision : 0 .. MaxRevision]
Plan == [revision : 1 .. MaxRevision, paused : BOOLEAN, heartbeat : Nat,
         rules : SUBSET (Rulebook \cup FirstPlan.rules),
         wakeups : SUBSET (WakeupPlans \cup FirstPlan.wakeups)]
Batch == [members : SUBSET Trigger, created : Time, deadline : Nat,
          revision : 1 .. MaxRevision]

\* The type invariant: every variable holds a value of its kind.
TypeOK ==
    /\ clock \in Time /\ faults \in 0 .. MaxFaults
    /\ plan \in Plan
    /\ recorded \subseteq Trigger
    /\ \A m \in outbox \cup snapshot \cup signalled :
         /\ m.kind \in {"PLAN_REVISED", "TRIGGER_CREATED"} /\ m.at \in Time
         /\ m.plan \in Plan /\ m.trigger \subseteq recorded
    /\ pc \in {"absent", "starting", "loop", "waiting", "building", "running"}
    /\ request.plan \subseteq Plan /\ request.seen \subseteq TriggerId
    /\ known \subseteq Plan /\ Cardinality(known) <= 1
    /\ pending \subseteq Trigger /\ prestart \subseteq recorded
    /\ Cardinality(Ids(pending)) = Cardinality(pending)
    /\ seen \cup consumed \cup judged \cup finished \subseteq TriggerId
    /\ batch = NoBatch \/ (batch.members \subseteq Trigger /\ batch.created \in Time
                           /\ batch.members # {} /\ Cardinality(batch.members) <= BatchSize)
    /\ last \in Time \cup {Never} /\ started \in Time \cup {Never}
    /\ retryAt \in Nat \cup {Never} /\ timer \in Nat \cup {Never}
    /\ frozen \in BOOLEAN /\ signaled \in BOOLEAN /\ unresolved \in BOOLEAN
    /\ completed \in 0 .. ContinueEvery - 1

(* A committed trigger is never lost: until its message is delivered it is  *)
(* in the outbox, and from then on the coordinator holds it, has refused,   *)
(* trimmed or let it expire, or has batched it, whatever is redelivered and *)
(* however often the workflow continues as new.  So for wakeups that came   *)
(* due.                                                                     *)
NothingVanishes ==
    LET sent == UNION {m.trigger : m \in outbox}
    IN  Ids(recorded) \cup consumed \subseteq
            Ids(sent) \cup Ids(pending) \cup Ids(prestart) \cup judged \cup finished

(* A plan whose delivery was acknowledged is never forgotten or replaced by *)
(* an older one: signalled before the first run, overtaken by a late commit,*)
(* redelivered or carried into a new execution, it stays in force.          *)
DeliveredPlanIsKnown ==
    LET waiting == {m.plan.revision : m \in {n \in outbox : n.kind = "PLAN_REVISED"}}
    IN  \A r \in 1 .. plan.revision \ waiting :
            \E p \in known \cup request.plan : r <= p.revision

(* A trigger is only held by a coordinator that has the plan revision which *)
(* emitted it (repository.py, pending_outbox: "The plan must be delivered   *)
(* first").                                                                 *)
PlanBeforeItsTrigger ==
    \A t \in pending \cup prestart :
        \E p \in known \cup request.plan : t.revision <= p.revision

(* A heartbeat or wakeup whose batch was dispatched or failed is not made   *)
(* again: not from the old anchor, not after a new execution, not in a      *)
(* tight loop of failures.                                                  *)
InternalOnce ==
    [][\A t \in pending' \ pending :
          t.id.source \in {"HEARTBEAT", "WAKEUP"} => t.id \notin finished]_vars

(* Ordinary events keep the cooldown of their rule, counted from the end of *)
(* the last batch of any kind: an immediate trigger never takes them along  *)
(* (docs/ARCHITECTURE.md, section 6).                                       *)
OrdinaryKeepsCooldown ==
    [][pc' = "building" /\ batch' # batch =>
          \A t \in batch'.members, p \in known :
              t.kind = "EVENT" /\ t.priority < Immediate /\ last # Never =>
                  clock >= last + RuleValue(p, t, "cooldown")]_vars

(* A batch that waits for its input stays the same batch until it is        *)
(* dispatched or fails (docs/ARCHITECTURE.md, section 6).  The code thaws   *)
(* it when a retry of its build fails transiently.                          *)
FrozenBatchKept ==
    [][frozen /\ batch' # batch => Ids(batch.members) \subseteq finished']_vars

\* No trigger is batched again once its batch was dispatched or failed.
EachOnce == [][\A t \in pending' \ pending : t.id \notin finished]_vars

-----------------------------------------------------------------------------
(* Liveness.                                                                *)

(* The leader and the workers keep running; an activity ends, at the latest *)
(* by its schedule-to-close timeout and bounded attempts, and so does a     *)
(* child workflow.                                                          *)
Fairness ==
    /\ WF_vars(Tick)
    /\ WF_vars(Fetch /\ UNCHANGED coordinatorVars)
    /\ WF_vars((\E m \in signalled : Mark(m)) /\ UNCHANGED coordinatorVars)
    /\ WF_vars(StartCoordinator)
    /\ WF_vars(\E m \in snapshot : SignalCoordinator(m))
    /\ WF_vars(Run)
    /\ WF_vars(Pass)
    /\ WF_vars(BuildEnds)
    /\ WF_vars(\E ok \in BOOLEAN : ChildrenDone(ok))

FairSpec == Spec /\ Fairness

(* Every recorded external trigger is in the end refused, trimmed, expired  *)
(* or in a batch that was dispatched or failed.                             *)
EventuallySettled ==
    \A e \in Events :
        LET Has(ids) == \E i \in ids : i.source = "EXTERNAL" /\ i.name = e
        IN  Has(Ids(recorded)) ~> Has(judged \cup finished)

\* The coordinator gets every revision of the plan.
PlanReachesCoordinator ==
    \A r \in 1 .. MaxRevision :
        plan.revision >= r ~> \E p \in known : p.revision >= r

\* A batch does not wait for its input for ever.
FrozenEnds == frozen ~> ~frozen

-----------------------------------------------------------------------------
(* What makes the properties of TriggerCoordinator inductive: where a plan  *)
(* and a trigger are between the transaction that committed them and the    *)
(* coordinator that acts on them.                                           *)

Messages == outbox \cup snapshot \cup signalled
Plans    == {plan} \cup known \cup request.plan \cup {m.plan : m \in Messages}

(* Times are numbers, and plans are plans, none later than the stored one.  *)
PlansAreStored ==
    /\ clock \in Time
    /\ Plans \subseteq Plan
    /\ \A p \in Plans : p.revision <= plan.revision
    /\ \A m \in Messages : /\ m.at \in Time /\ (m.trigger # {} => m.kind = "TRIGGER_CREATED")
                           /\ \A t, u \in m.trigger : t = u
    /\ pc # "starting" => request = NoRequest

(* The dispatcher holds what the outbox still has.                          *)
DeliveredFromOutbox == signalled \subseteq snapshot /\ snapshot \subseteq outbox

Held  == Ids(pending) \cup judged \cup finished
Taken == Held \cup Ids(prestart)

(* An id is only set aside for a trigger that the coordinator holds or has  *)
(* done with, and a trigger it was told of is taken before the mark.        *)
SeenIsHeld ==
    /\ seen \cup request.seen \cup consumed \subseteq Held
    /\ \A m \in signalled : Ids(m.trigger) \subseteq Taken

(* A plan it was told of is in force before the mark.                       *)
InForce(r) == \E p \in known \cup request.plan : r <= p.revision

ToldIsInForce ==
    /\ \A m \in signalled : m.kind = "PLAN_REVISED" => InForce(m.plan.revision)
    /\ pc # "absent" => known \cup request.plan # {}
    /\ \A t \in pending \cup prestart : t.revision \in 0 .. plan.revision

(* The plan message of a trigger is no later than the trigger's, and in     *)
(* every snapshot that has the trigger's while it is in the outbox.         *)
PlanTravelsAhead ==
    \A m \in outbox : \A t \in m.trigger :
        /\ t.revision \in 0 .. plan.revision
        /\ \A n \in outbox :
             n.kind = "PLAN_REVISED" /\ n.plan.revision = t.revision =>
                 n.at <= m.at /\ (m \in snapshot => n \in snapshot)

DeliveryInvariant ==
    /\ PlansAreStored /\ DeliveredFromOutbox /\ SeenIsHeld /\ ToldIsInForce
    /\ PlanTravelsAhead
    /\ NothingVanishes /\ DeliveredPlanIsKnown /\ PlanBeforeItsTrigger

(* What the coordinator makes itself: a wakeup is consumed when it is made, *)
(* and a heartbeat's anchor is past when it is made and replaced when its   *)
(* batch ends.                                                              *)
RecordedFromOutside ==
    \A t \in prestart \cup UNION {m.trigger : m \in Messages} :
        t.id.source \in {"EXTERNAL", "REQUEST"}

WakeupsAreConsumed ==
    \A i \in Ids(pending) \cup Ids(batch.members) \cup finished :
        i.source = "WAKEUP" => i \in consumed

BeatsAreBehind ==
    /\ last \in Time \cup {Never} /\ started \in Time \cup {Never}
    /\ last # Never => last <= clock
    /\ started # Never => started <= clock
    /\ pc \in {"loop", "waiting", "building", "running"} => last # Never \/ started # Never
    /\ \A i \in Ids(pending) \cup Ids(batch.members) :
         i.source = "HEARTBEAT" => i.at \in Int /\ i.at < clock
    /\ \A i \in finished : i.source = "HEARTBEAT" =>
         /\ i.at \in Int /\ i.at < clock
         /\ pc # "running" => last # Never /\ i.at < last

OnceInvariant ==
    PlansAreStored /\ DeliveredFromOutbox /\ RecordedFromOutside /\ WakeupsAreConsumed
    /\ BeatsAreBehind

(* What a pass needs to keep a cooldown: priorities, times and delays are   *)
(* numbers, and the plan in force is the only one of its revision.          *)
Timed(t) == /\ t.priority \in 0 .. Immediate /\ t.observed \in Nat
            /\ t.expires \in Nat \cup {Never}

\* Whatever carries a trigger, its times and its priority are numbers.
TriggersAreTimed ==
    /\ \A t \in pending \cup prestart \cup UNION {m.trigger : m \in Messages} : Timed(t)
    /\ retryAt \in Nat \cup {Never}

\* Of one revision there is one plan, and an execution knows at most one.
OnePlanIsKnown ==
    /\ \A p, q \in Plans \cup {FirstPlan} : p.revision = q.revision => p = q
    /\ \A p, q \in known : p = q

\* The induction hypothesis of OrdinaryKeepsCooldown.
CooldownInvariant ==
    DeliveryInvariant /\ OnceInvariant /\ TriggersAreTimed /\ OnePlanIsKnown
=============================================================================
