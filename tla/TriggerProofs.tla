----------------------------- MODULE TriggerProofs -----------------------------
(* Proofs about the trigger plan, its outbox and the coordinator workflow:  *)
(* what was committed is delivered, and what was delivered is kept.         *)
EXTENDS TriggerCoordinator, FiniteSetTheorems, WellFoundedInduction, TLAPS

(* A transaction that commits new triggers and, with them or alone, the     *)
(* next plan.                                                               *)
Commits(now, new, plans) ==
    /\ now \in Time
    /\ recorded' = recorded \cup new
    /\ outbox' = outbox \cup {PlanMessage(p, now) : p \in plans}
                        \cup {TriggerMessage(t) : t \in new}
    /\ \A t \in new : t.observed = now /\ t.id.source \in {"EXTERNAL", "REQUEST"} /\ Timed(t)
    /\ \/ plans = {} /\ plan' = plan /\ \A t \in new : t.revision = 0
       \/ /\ plans = {plan'} /\ plan' \in Plan /\ plan'.revision = plan.revision + 1
          /\ \A t \in new : t.revision = plan'.revision
    /\ UNCHANGED <<clock, faults, dispatchVars, coordinatorVars>>

\* The first plan is a plan, revisions and times are numbers.
LEMMA TriggerNumbers ==
    /\ FirstPlan \in Plan /\ FirstPlan.revision = 1
    /\ MaxRevision \in Nat \ {0} /\ MaxTime \in Nat
    /\ \A p \in Plan : /\ p.revision \in Nat /\ p.revision >= 1
                       /\ p.heartbeat \in Nat
                       /\ \A w \in p.wakeups : w.at \in Nat /\ w.expires \in Nat
    /\ \A now \in Time : now \in Nat
<1>1. /\ FirstPlan \in [revision : {1}, paused : BOOLEAN, heartbeat : Nat,
                        rules : SUBSET FirstPlan.rules, wakeups : SUBSET FirstPlan.wakeups]
      /\ \A w \in WakeupPlans \cup FirstPlan.wakeups : w.at \in Nat /\ w.expires \in Nat
  BY PlansAssumption
<1>2. MaxRevision \in Nat \ {0} /\ MaxTime \in Nat
  BY EventsAssumption
<1>3. 1 \in 1 .. MaxRevision
  BY <1>2
<1>4. FirstPlan \in Plan /\ FirstPlan.revision = 1
  BY <1>1, <1>3 DEF Plan
<1>5. QED
  BY <1>1, <1>2, <1>4 DEF Plan, Time

\* A set of numbers that is not empty has a least one.
LEMMA LeastNat ==
    ASSUME NEW S \in SUBSET Nat, S # {}
    PROVE  \E m \in S : \A n \in S : m <= n
<1>1. PICK R : R = OpToRel(<, Nat)
  OBVIOUS
<1>2. IsWellFoundedOn(R, Nat)
  BY <1>1, NatLessThanWellFounded
<1>3. PICK m \in S : \A n \in S : <<n, m>> \notin R
  BY <1>2, WFMin
<1>4. \A n, k \in Nat : n < k => <<n, k>> \in R
  BY <1>1 DEF OpToRel
<1>5. \A n \in S : n \in Nat /\ m \in Nat /\ ~(n < m)
  BY <1>3, <1>4
<1>6. \A n \in S : m <= n
  BY <1>5
<1>7. QED
  BY <1>3, <1>6

\* One that is bounded has a greatest.
LEMMA GreatestNat ==
    ASSUME NEW b \in Nat, NEW S \in SUBSET (0 .. b), S # {}
    PROVE  \E m \in S : \A n \in S : m >= n
<1>1. PICK T : T = {b - x : x \in S}
  OBVIOUS
<1>2. T \in SUBSET Nat /\ T # {}
  <2>1. \A x \in S : x \in 0 .. b /\ b - x \in Nat
    OBVIOUS
  <2>2. QED
    BY <1>1, <2>1
<1>3. PICK t \in T : \A n \in T : t <= n
  BY <1>2, LeastNat
<1>4. PICK m \in S : t = b - m
  BY <1>1, <1>3
<1>5. \A n \in S : b - n \in T
  BY <1>1
<1>6. QED
  BY <1>3, <1>4, <1>5

\* Max and Min of a bounded set that is not empty.
LEMMA MaxMin ==
    ASSUME NEW b \in Nat, NEW S \in SUBSET (0 .. b), S # {}
    PROVE  /\ Max(S) \in S /\ \A n \in S : n <= Max(S)
           /\ Min(S) \in S /\ \A n \in S : Min(S) <= n
<1>1. \E m \in S : \A n \in S : m >= n
  BY GreatestNat
<1>2. \E m \in S : \A n \in S : m <= n
  BY LeastNat
<1>3. Max(S) \in S /\ \A n \in S : Max(S) >= n
  BY <1>1 DEF Max
<1>4. Min(S) \in S /\ \A n \in S : Min(S) <= n
  BY <1>2 DEF Min
<1>5. QED
  BY <1>3, <1>4

\* Ids of a union, and of a part.
LEMMA IdsOfUnion == \A A, B : Ids(A \cup B) = Ids(A) \cup Ids(B)
BY DEF Ids

\* Fewer triggers have fewer ids.
LEMMA IdsOfPart == \A A, B : A \subseteq B => Ids(A) \subseteq Ids(B)
BY DEF Ids

\* What is left and what was taken have all the ids between them.
LEMMA IdsOfRest == \A A, X : Ids(A) \subseteq Ids({t \in A : t.id \notin X}) \cup X
BY DEF Ids

-----------------------------------------------------------------------------
(* Committing.                                                              *)

\* Every patch of the plan commits the next revision with what it emits.
LEMMA ReviseCommits ==
    ASSUME PlansAreStored, UNCHANGED coordinatorVars,
           NEW now, NEW wakeups \in SUBSET (WakeupPlans \cup FirstPlan.wakeups),
           NEW revised \in Plan, revised.revision = plan.revision, NEW emitted,
           \A t \in emitted : /\ t.revision = plan.revision + 1
                              /\ t.observed = now /\ t.id.source = "REQUEST" /\ Timed(t),
           Revise(now, wakeups, revised, emitted)
    PROVE  Commits(now, emitted, {plan'})
<1>1. PICK retained : retained = {w \in wakeups : w.expires > now}
  OBVIOUS
<1>2. /\ plan' = [revised EXCEPT !.revision = @ + 1, !.wakeups = retained]
      /\ plan.revision < MaxRevision /\ now \in Started
      /\ recorded' = recorded \cup emitted
      /\ outbox' = outbox \cup {PlanMessage(plan', now)} \cup {TriggerMessage(t) : t \in emitted}
      /\ UNCHANGED <<clock, faults, dispatchVars>>
  BY <1>1 DEF Revise
<1>3. retained \in SUBSET (WakeupPlans \cup FirstPlan.wakeups)
  BY <1>1
<1>4. plan.revision + 1 \in 1 .. MaxRevision
  <2>1. plan \in Plan
    BY DEF PlansAreStored, Plans
  <2>2. QED
    BY <1>2, <2>1, TriggerNumbers
<1>5. plan' \in Plan /\ plan'.revision = plan.revision + 1
  BY <1>2, <1>3, <1>4 DEF Plan
<1>6. now \in Time
  BY <1>2 DEF Started
<1>7. {PlanMessage(p, now) : p \in {plan'}} = {PlanMessage(plan', now)}
  OBVIOUS
<1>8. QED
  BY <1>2, <1>5, <1>6, <1>7 DEF Commits

\* Whatever is recorded is committed like that.
LEMMA RecordingCommits ==
    ASSUME PlansAreStored, Recording, UNCHANGED coordinatorVars
    PROVE  \E now, new, plans : Commits(now, new, plans)
<1>0. /\ plan \in Plan /\ plan \in [revision : 1 .. MaxRevision, paused : BOOLEAN,
                heartbeat : Nat, rules : SUBSET (Rulebook \cup FirstPlan.rules),
                wakeups : SUBSET (WakeupPlans \cup FirstPlan.wakeups)]
      /\ Pauses \subseteq BOOLEAN /\ Heartbeats \subseteq Nat
  BY PlansAssumption DEF PlansAreStored, Plans, Plan
<1>1. ASSUME NEW e \in Events, Record(e) PROVE \E now, new, plans : Commits(now, new, plans)
  <2>1. PICK now \in Started : /\ recorded' = recorded \cup {ExternalTrigger(e, now)}
                               /\ outbox' = outbox \cup {TriggerMessage(t) :
                                              t \in {ExternalTrigger(e, now)}}
                               /\ UNCHANGED <<clock, faults, plan, dispatchVars>>
    BY <1>1 DEF Record, InsertWithOutbox
  <2>2. now \in Time
    BY DEF Started
  <2>3. \A t \in {ExternalTrigger(e, now)} :
           t.revision = 0 /\ t.observed = now /\ t.id.source = "EXTERNAL" /\ Timed(t)
    <3>1. /\ Priority[e] \in 0 .. Immediate /\ Lifetime[e] \in Nat /\ now \in Nat
      BY <2>2, EventsAssumption, TriggerNumbers
    <3>2. QED
      BY <3>1 DEF ExternalTrigger, Timed
  <2>4. Commits(now, {ExternalTrigger(e, now)}, {})
    BY <2>1, <2>2, <2>3 DEF Commits
  <2>5. QED
    BY <2>4
<1>2. ASSUME NEW paused \in Pauses, SetAiPaused(paused)
      PROVE  \E now, new, plans : Commits(now, new, plans)
  <2>1. PICK now \in Started : Revise(now, plan.wakeups, [plan EXCEPT !.paused = paused], {})
    BY <1>2 DEF SetAiPaused
  <2>2. /\ [plan EXCEPT !.paused = paused] \in Plan
        /\ [plan EXCEPT !.paused = paused].revision = plan.revision
        /\ plan.wakeups \in SUBSET (WakeupPlans \cup FirstPlan.wakeups)
    BY <1>0 DEF Plan
  <2>3. Commits(now, {}, {plan'})
    BY <2>1, <2>2, ReviseCommits
  <2>4. QED
    BY <2>3
<1>3. ASSUME NEW h \in Heartbeats, SetHeartbeat(h)
      PROVE  \E now, new, plans : Commits(now, new, plans)
  <2>1. PICK now \in Started : Revise(now, plan.wakeups, [plan EXCEPT !.heartbeat = h], {})
    BY <1>3 DEF SetHeartbeat
  <2>2. /\ [plan EXCEPT !.heartbeat = h] \in Plan
        /\ [plan EXCEPT !.heartbeat = h].revision = plan.revision
        /\ plan.wakeups \in SUBSET (WakeupPlans \cup FirstPlan.wakeups)
    BY <1>0 DEF Plan
  <2>3. Commits(now, {}, {plan'})
    BY <2>1, <2>2, ReviseCommits
  <2>4. QED
    BY <2>3
<1>4. ASSUME NEW rules \in SUBSET (Rulebook \cup FirstPlan.rules), NEW now \in Started,
             Revise(now, plan.wakeups, [plan EXCEPT !.rules = rules], {})
      PROVE  \E n, new, plans : Commits(n, new, plans)
  <2>1. /\ [plan EXCEPT !.rules = rules] \in Plan
        /\ [plan EXCEPT !.rules = rules].revision = plan.revision
        /\ plan.wakeups \in SUBSET (WakeupPlans \cup FirstPlan.wakeups)
    BY <1>0 DEF Plan
  <2>2. Commits(now, {}, {plan'})
    BY <1>4, <2>1, ReviseCommits
  <2>3. QED
    BY <2>2
<1>5. ASSUME NEW r \in Rulebook, UpsertEventRule(r)
      PROVE  \E now, new, plans : Commits(now, new, plans)
  <2>1. PICK rules : rules = {s \in plan.rules : s.minimum # r.minimum} \cup {r}
    OBVIOUS
  <2>2. \E now \in Started : Revise(now, plan.wakeups, [plan EXCEPT !.rules = rules], {})
    BY <1>5, <2>1 DEF UpsertEventRule
  <2>3. rules \in SUBSET (Rulebook \cup FirstPlan.rules)
    BY <1>0, <2>1
  <2>4. QED
    BY <1>4, <2>2, <2>3
<1>6. ASSUME NEW r \in plan.rules, DeleteEventRule(r)
      PROVE  \E now, new, plans : Commits(now, new, plans)
  <2>1. PICK rules : rules = plan.rules \ {r}
    OBVIOUS
  <2>2. \E now \in Started : Revise(now, plan.wakeups, [plan EXCEPT !.rules = rules], {})
    BY <1>6, <2>1 DEF DeleteEventRule
  <2>3. rules \in SUBSET (Rulebook \cup FirstPlan.rules)
    BY <1>0, <2>1
  <2>4. QED
    BY <1>4, <2>2, <2>3
<1>7. ASSUME NEW now \in Started, NEW wakeups \in SUBSET (WakeupPlans \cup FirstPlan.wakeups),
             Revise(now, wakeups, plan, {})
      PROVE  \E n, new, plans : Commits(n, new, plans)
  <2>1. Commits(now, {}, {plan'})
    BY <1>0, <1>7, ReviseCommits
  <2>2. QED
    BY <2>1
<1>8. ASSUME NEW w \in WakeupPlans, PutWakeup(w)
      PROVE  \E now, new, plans : Commits(now, new, plans)
  <2>1. {v \in plan.wakeups : v.name # w.name} \cup {w}
            \in SUBSET (WakeupPlans \cup FirstPlan.wakeups)
    BY <1>0
  <2>2. QED
    BY <1>7, <1>8, <2>1 DEF PutWakeup
<1>9. ASSUME NEW w \in plan.wakeups, DeleteWakeup(w)
      PROVE  \E now, new, plans : Commits(now, new, plans)
  <2>1. plan.wakeups \ {w} \in SUBSET (WakeupPlans \cup FirstPlan.wakeups)
    BY <1>0
  <2>2. QED
    BY <1>7, <1>9, <2>1 DEF DeleteWakeup
<1>10. ASSUME NEW q \in Requests, TriggerNow(q)
       PROVE  \E now, new, plans : Commits(now, new, plans)
  <2>1. PICK now \in Started :
          Revise(now, plan.wakeups, plan, {RequestedTrigger(q, now, plan.revision + 1)})
    BY <1>10 DEF TriggerNow
  <2>2. \A t \in {RequestedTrigger(q, now, plan.revision + 1)} :
           /\ t.revision = plan.revision + 1 /\ t.observed = now /\ t.id.source = "REQUEST"
           /\ Timed(t)
    <3>1. now \in Nat /\ Expiry \in Nat /\ Immediate \in 0 .. Immediate
      BY EventsAssumption, TriggerNumbers DEF Started, Immediate
    <3>2. QED
      BY <3>1 DEF RequestedTrigger, Timed
  <2>3. plan.wakeups \in SUBSET (WakeupPlans \cup FirstPlan.wakeups)
    BY <1>0
  <2>4. Commits(now, {RequestedTrigger(q, now, plan.revision + 1)}, {plan'})
    BY <1>0, <2>1, <2>2, <2>3, ReviseCommits
  <2>5. QED
    BY <2>4
<1>11. ASSUME RebindManifest PROVE \E now, new, plans : Commits(now, new, plans)
  <2>1. PICK now \in Started :
          /\ plan' = [plan EXCEPT !.revision = @ + 1,
                                  !.wakeups = {w \in plan.wakeups : w.expires > now}]
          /\ plan.revision < MaxRevision
          /\ outbox' = outbox \cup {PlanMessage(plan', now)}
          /\ UNCHANGED <<clock, faults, recorded, dispatchVars>>
    BY <1>11 DEF RebindManifest
  <2>2. plan.revision + 1 \in 1 .. MaxRevision
    <3>1. plan.revision \in Nat /\ MaxRevision \in Nat
      BY <1>0, TriggerNumbers
    <3>2. plan.revision < MaxRevision
      BY <2>1
    <3>3. QED
      BY <3>1, <3>2
  <2>3. {w \in plan.wakeups : w.expires > now} \in SUBSET (WakeupPlans \cup FirstPlan.wakeups)
    BY <1>0
  <2>4. plan' \in Plan /\ plan'.revision = plan.revision + 1
    BY <1>0, <2>1, <2>2, <2>3 DEF Plan
  <2>5. Commits(now, {}, {plan'})
    <3>1. now \in Time
      BY DEF Started
    <3>2. /\ {PlanMessage(p, now) : p \in {plan'}} = {PlanMessage(plan', now)}
          /\ {TriggerMessage(t) : t \in {}} = {}
      OBVIOUS
    <3>3. QED
      BY <2>1, <2>4, <3>1, <3>2 DEF Commits
  <2>6. QED
    BY <2>5
<1>12. QED
  BY <1>1, <1>2, <1>3, <1>5, <1>6, <1>8, <1>9, <1>10, <1>11 DEF Recording

-----------------------------------------------------------------------------
(* Plans and messages.                                                      *)

\* The steps that neither commit nor deliver leave plans and messages alone, but
\* for the plan the coordinator has.
PlansCarried ==
    /\ UNCHANGED <<storeVars, dispatchVars>>
    /\ clock' = clock \/ (clock' = clock + 1 /\ clock < MaxTime)
    /\ known' \cup request'.plan \subseteq known \cup request.plan \cup {plan}
    /\ pc' # "starting" => request' = NoRequest

\* So do the time and the coordinator.
LEMMA PlansAreCarried ==
    ASSUME PlansAreStored,
           Tick \/ StartCoordinator \/ Run \/ Pass \/ (\E ok \in BOOLEAN : ChildrenDone(ok))
             \/ BuildEnds
    PROVE  PlansCarried
<1>0. pc # "starting" => request = NoRequest
  BY DEF PlansAreStored
<1>1. CASE Tick
  BY <1>0, <1>1 DEF Tick, coordinatorVars, intakeVars, PlansCarried
<1>2. CASE StartCoordinator
  BY <1>2 DEF StartCoordinator, intakeVars, PlansCarried, storeVars, dispatchVars
<1>3. CASE Run
  BY <1>3 DEF Run, LaterPlan, PlansCarried, NoRequest, storeVars, dispatchVars
<1>4. CASE Pass
  <2>1. /\ UNCHANGED <<clock, storeVars, dispatchVars, request, known>>
        /\ pc # "starting"
    BY <1>4 DEF Pass, Awake
  <2>2. QED
    BY <1>0, <2>1 DEF PlansCarried
<1>5. CASE \E ok \in BOOLEAN : ChildrenDone(ok)
  <2>1. /\ UNCHANGED <<clock, storeVars, dispatchVars>> /\ pc = "running"
        /\ \/ pc' = "starting" /\ request'.plan = known /\ known' = {}
           \/ pc' # "starting" /\ UNCHANGED <<request, known>>
    BY <1>5 DEF ChildrenDone, ContinueAsNew
  <2>2. QED
    BY <1>0, <2>1 DEF PlansCarried
<1>6. CASE BuildEnds
  <2>1. /\ UNCHANGED <<clock, storeVars, dispatchVars, request, known>>
        /\ pc = "building" /\ pc' # "starting"
    BY <1>6 DEF BuildEnds, BuildOk, InputUnavailable, BuildFails, BuildRejected, Unchanged
  <2>2. QED
    BY <1>0, <2>1 DEF PlansCarried
<1>7. QED
  BY <1>1, <1>2, <1>3, <1>4, <1>5, <1>6

\* A delivery moves messages and nothing else.
LEMMA DeliveryMoves ==
    ASSUME DeliveredFromOutbox, Delivery, UNCHANGED coordinatorVars
    PROVE  /\ UNCHANGED <<clock, plan, recorded>>
           /\ \/ /\ outbox' = outbox /\ snapshot = {} /\ signalled' = signalled
                 /\ snapshot' = DueMessages
              \/ \E m \in signalled : /\ outbox' = outbox \ {m} /\ snapshot' = snapshot \ {m}
                                      /\ signalled' = {}
              \/ outbox' = outbox /\ snapshot' = {} /\ signalled' = {}
           /\ DeliveredFromOutbox'
<1>1. CASE Fetch
  BY <1>1 DEF Fetch, DeliveredFromOutbox, DueMessages, storeVars
<1>2. ASSUME NEW m \in signalled, Mark(m)
      PROVE  /\ UNCHANGED <<clock, plan, recorded>>
             /\ outbox' = outbox \ {m} /\ snapshot' = snapshot \ {m} /\ signalled' = {}
             /\ DeliveredFromOutbox'
  BY <1>2 DEF Mark, DeliveredFromOutbox
<1>3. CASE DeliveryFails
  BY <1>3 DEF DeliveryFails, DeliveredFromOutbox, storeVars
<1>4. QED
  BY <1>1, <1>2, <1>3 DEF Delivery

\* A signal hands over a message of the snapshot.
LEMMA SignalHandsOver ==
    ASSUME NEW m \in snapshot, SignalCoordinator(m)
    PROVE  /\ UNCHANGED <<clock, storeVars, snapshot, pc, request>> /\ signalled' = {m}
           /\ m \in NextMessages /\ signalled = {}
           /\ known' \subseteq known \cup {m.plan}
BY DEF SignalCoordinator, Receive, ReceivePlan, KeepForRun, AcceptTrigger

\* Plans are plans and messages are timed, wherever they are.
LEMMA PlansAreStoredStep ==
    ASSUME PlansAreStored, DeliveredFromOutbox, Next
    PROVE  PlansAreStored' /\ DeliveredFromOutbox'
<1>0. /\ clock \in Time /\ Plans \subseteq Plan /\ \A p \in Plans : p.revision <= plan.revision
      /\ \A m \in Messages : /\ m.at \in Time /\ (m.trigger # {} => m.kind = "TRIGGER_CREATED")
                             /\ \A t, u \in m.trigger : t = u
      /\ pc # "starting" => request = NoRequest
      /\ signalled \subseteq snapshot /\ snapshot \subseteq outbox
      /\ \A p \in Plan : p.revision \in Nat
  BY TriggerNumbers DEF PlansAreStored, DeliveredFromOutbox
<1>1. ASSUME Messages' \subseteq Messages, plan' = plan, clock' \in Time,
             known' \cup request'.plan \subseteq Plans,
             pc' # "starting" => request' = NoRequest
      PROVE  PlansAreStored'
  <2>1. Plans' \subseteq Plans
    <3>1. {m.plan : m \in Messages'} \subseteq {m.plan : m \in Messages}
      BY <1>1
    <3>2. QED
      BY <1>1, <3>1 DEF Plans
  <2>2. QED
    BY <1>0, <1>1, <2>1 DEF PlansAreStored
<1>2. CASE Tick \/ StartCoordinator \/ Run \/ Pass \/ (\E ok \in BOOLEAN : ChildrenDone(ok))
             \/ BuildEnds
  <2>1. PlansCarried
    BY <1>2, PlansAreCarried
  <2>2. UNCHANGED <<plan, outbox, snapshot, signalled>>
    BY <2>1 DEF PlansCarried, storeVars, dispatchVars
  <2>3. clock' \in Time
    BY <1>0, <2>1, TriggerNumbers DEF PlansCarried, Time
  <2>4. QED
    BY <1>0, <1>1, <2>1, <2>2, <2>3 DEF PlansCarried, Messages, Plans, DeliveredFromOutbox
<1>3. CASE Recording /\ UNCHANGED coordinatorVars
  <2>1. PICK now, new, plans : Commits(now, new, plans)
    BY <1>3, RecordingCommits
  <2>2. /\ UNCHANGED <<clock, snapshot, signalled, known, request, pc>>
        /\ outbox' = outbox \cup {PlanMessage(p, now) : p \in plans}
                            \cup {TriggerMessage(t) : t \in new}
    BY <2>1 DEF Commits, coordinatorVars, intakeVars, dispatchVars
  <2>3. /\ plan' \in Plan /\ plan.revision <= plan'.revision /\ plan \in Plan
        /\ plans \subseteq {plan'} /\ now \in Time /\ \A t \in new : t.observed = now
    BY <1>0, <2>1 DEF Commits, Plans
  <2>4. \A m \in Messages' : \/ m \in Messages
                             \/ \E p \in plans : m = PlanMessage(p, now)
                             \/ \E t \in new : m = TriggerMessage(t)
    BY <2>2 DEF Messages
  <2>5. \A m \in Messages' \ Messages :
           /\ m.plan \in {plan', FirstPlan} /\ m.at \in Time
           /\ m.trigger # {} => m.kind = "TRIGGER_CREATED"
           /\ \A t, u \in m.trigger : t = u
    <3>1. \A p \in plans : /\ PlanMessage(p, now).plan = plan' /\ PlanMessage(p, now).at = now
                           /\ PlanMessage(p, now).trigger = {}
      BY <2>3 DEF PlanMessage
    <3>2. \A t \in new : /\ TriggerMessage(t).plan = FirstPlan /\ TriggerMessage(t).at = now
                         /\ TriggerMessage(t).kind = "TRIGGER_CREATED"
      BY <2>3 DEF TriggerMessage
    <3>3. \A t \in new : TriggerMessage(t).trigger = {t}
      BY DEF TriggerMessage
    <3>4. SUFFICES ASSUME NEW m \in Messages' \ Messages
                   PROVE  /\ m.plan \in {plan', FirstPlan} /\ m.at \in Time
                          /\ m.trigger # {} => m.kind = "TRIGGER_CREATED"
                          /\ \A t, u \in m.trigger : t = u
      OBVIOUS
    <3>5. CASE \E p \in plans : m = PlanMessage(p, now)
      BY <2>3, <3>1, <3>5
    <3>6. CASE \E t \in new : m = TriggerMessage(t)
      BY <2>3, <3>2, <3>3, <3>6
    <3>7. QED
      BY <2>4, <3>5, <3>6
  <2>6. \A p \in Plans' : p \in Plans \/ p \in {plan', FirstPlan}
    BY <2>2, <2>5 DEF Plans
  <2>7. FirstPlan \in Plan /\ FirstPlan.revision <= plan'.revision
    BY <2>3, TriggerNumbers
  <2>8. \A p \in Plans' : p \in Plan /\ p.revision <= plan'.revision
    BY <1>0, <2>3, <2>6, <2>7
  <2>9. PlansAreStored'
    BY <1>0, <2>2, <2>5, <2>8 DEF PlansAreStored
  <2>10. QED
    BY <1>0, <2>2, <2>9 DEF DeliveredFromOutbox
<1>4. CASE Delivery /\ UNCHANGED coordinatorVars
  <2>1. /\ UNCHANGED <<clock, plan>> /\ DeliveredFromOutbox'
        /\ Messages' \subseteq Messages
    BY <1>0, <1>4, DeliveryMoves DEF Messages, DueMessages
  <2>2. UNCHANGED <<known, request, pc>>
    BY <1>4 DEF coordinatorVars, intakeVars
  <2>3. QED
    BY <1>0, <1>1, <2>1, <2>2 DEF Plans
<1>5. ASSUME NEW m \in snapshot, SignalCoordinator(m)
      PROVE  PlansAreStored' /\ DeliveredFromOutbox'
  <2>1. /\ UNCHANGED <<clock, plan, outbox, snapshot, pc, request>> /\ signalled' = {m}
        /\ known' \subseteq known \cup {m.plan} /\ m \in Messages
    BY <1>5, SignalHandsOver DEF storeVars, Messages
  <2>2. Messages' \subseteq Messages /\ known' \cup request'.plan \subseteq Plans
    BY <2>1 DEF Messages, Plans
  <2>3. QED
    BY <1>0, <1>1, <2>1, <2>2 DEF DeliveredFromOutbox
<1>6. QED
  BY <1>2, <1>3, <1>4, <1>5 DEF Next, Coordination

-----------------------------------------------------------------------------
(* Triggers.                                                                *)

\* What a pass of the loop makes, and where it and what was pending go: still
\* pending, judged, or in the batch that has failed.
PassMakes(made) ==
    /\ pending' \subseteq pending \cup made
    /\ Ids(pending) \cup Ids(made) \subseteq Ids(pending') \cup judged' \cup finished'
    /\ judged \subseteq judged' /\ finished \subseteq finished'
    /\ finished' \subseteq finished \cup Ids(batch.members)
    /\ Ids(batch'.members) \subseteq Ids(batch.members) \cup Ids(pending) \cup Ids(made)
    /\ seen' \subseteq seen \cup Ids(made)
    /\ consumed \subseteq consumed' /\ consumed' \subseteq consumed \cup Ids(made) \cup judged'
    /\ \E p \in known : \A t \in made :
         /\ t.revision = p.revision /\ Timed(t)
         /\ \/ t.id.source = "WAKEUP" /\ t.id \notin consumed /\ t.id \in consumed'
            \/ /\ t.id.source = "HEARTBEAT" /\ t.id.at = Anchor(p)
               /\ p.heartbeat # 0 /\ clock >= Anchor(p) + p.heartbeat
    /\ UNCHANGED <<clock, storeVars, dispatchVars, request, known, prestart>>
    /\ pc \in {"loop", "waiting"} /\ pc' \in {"loop", "waiting", "building"}
    /\ \/ UNCHANGED <<last, started, finished>>
       \/ last' = clock /\ started' = Never /\ pc' = "loop" /\ batch' = NoBatch

\* Every pass is like that.
LEMMA PassIsLikeThat ==
    ASSUME PlansAreStored, Pass
    PROVE  \E made : PassMakes(made)
<1>1. /\ pc \in {"loop", "waiting"}
      /\ UNCHANGED <<clock, storeVars, dispatchVars, request, known, prestart>>
  BY DEF Pass, Awake
<1>2. PICK p, due, enqueued, kept, live :
        /\ p \in known
        /\ due = IF p.paused THEN {} ELSE DueWakeups(p)
        /\ enqueued = Enqueued(p)
        /\ consumed' = consumed \cup {WakeupId(w) : w \in due}
        /\ seen' = seen \cup (Ids(enqueued) \ Ids(pending))
        /\ kept \in Firsts(enqueued, MaxPending)
        /\ live = Unexpired(kept)
        /\ judged' = judged \cup (Ids(enqueued) \ Ids(live))
                            \cup {WakeupId(w) : w \in {x \in due : x.expires <= clock}}
        /\ RetryFrozen(live) \/ FormBatch(p, live)
  BY DEF Pass
<1>3. PICK made : made = IF p.paused THEN {} ELSE Due(p)
  OBVIOUS
<1>4. enqueued = pending \cup made
  BY <1>2, <1>3 DEF Enqueued
<1>5. live \subseteq enqueued
  BY <1>2 DEF Firsts, kSubset, Unexpired
<1>6. p \in Plan /\ \A w \in p.wakeups : w.expires \in Nat
  <2>1. p \in Plan
    BY <1>2 DEF PlansAreStored, Plans
  <2>2. QED
    BY <2>1, TriggerNumbers
<1>7. clock \in Nat
  BY TriggerNumbers DEF PlansAreStored
<1>8. \A t \in made :
         /\ t.revision = p.revision /\ Timed(t)
         /\ \/ t.id.source = "WAKEUP" /\ t.id \notin consumed /\ t.id \in consumed'
            \/ /\ t.id.source = "HEARTBEAT" /\ t.id.at = Anchor(p)
               /\ p.heartbeat # 0 /\ clock >= Anchor(p) + p.heartbeat
  <2>1. SUFFICES ASSUME ~p.paused, NEW t \in Due(p)
                 PROVE  /\ t.revision = p.revision /\ Timed(t)
                        /\ \/ t.id.source = "WAKEUP" /\ t.id \notin consumed /\ t.id \in consumed'
                           \/ /\ t.id.source = "HEARTBEAT" /\ t.id.at = Anchor(p)
                              /\ p.heartbeat # 0 /\ clock >= Anchor(p) + p.heartbeat
    BY <1>3
  <2>2. CASE t \in HeartbeatTriggers(p)
    <3>1. Never \in Nat \cup {Never} /\ 10 \in 0 .. Immediate
      BY DEF Immediate
    <3>2. QED
      BY <1>7, <2>2, <3>1 DEF HeartbeatTriggers, HeartbeatId, Timed
  <2>3. CASE t \notin HeartbeatTriggers(p)
    <3>1. PICK w \in DueWakeups(p) : t = WakeupTrigger(p, w)
      BY <2>1, <2>3 DEF Due
    <3>2. t.revision = p.revision /\ t.id = WakeupId(w) /\ t.id.source = "WAKEUP"
      BY <3>1 DEF WakeupTrigger, WakeupId
    <3>3. WakeupId(w) \notin consumed
      BY DEF DueWakeups
    <3>4. WakeupId(w) \in consumed'
      BY <1>2, <2>1
    <3>5. w \in p.wakeups /\ 90 \in 0 .. Immediate
      BY <3>1 DEF DueWakeups, Immediate
    <3>6. Timed(t)
      BY <1>6, <1>7, <3>1, <3>5 DEF WakeupTrigger, Timed
    <3>7. QED
      BY <3>2, <3>3, <3>4, <3>6
  <2>4. QED
    BY <2>2, <2>3
<1>9. consumed \subseteq consumed' /\ consumed' \subseteq consumed \cup Ids(made) \cup judged'
  <2>1. SUFFICES ASSUME NEW w \in due
                 PROVE  WakeupId(w) \in Ids(made) \cup judged'
    BY <1>2
  <2>2. ~p.paused /\ w \in DueWakeups(p) /\ w \in p.wakeups
    BY <1>2 DEF DueWakeups
  <2>3. CASE w.expires > clock
    <3>1. WakeupTrigger(p, w) \in made
      BY <1>3, <2>2, <2>3 DEF Due
    <3>2. WakeupTrigger(p, w).id = WakeupId(w)
      BY DEF WakeupTrigger
    <3>3. QED
      BY <3>1, <3>2 DEF Ids
  <2>4. CASE ~(w.expires > clock)
    <3>1. w.expires <= clock
      BY <1>6, <1>7, <2>2, <2>4
    <3>2. WakeupId(w) \in {WakeupId(x) : x \in {y \in due : y.expires <= clock}}
      BY <2>1, <3>1
    <3>3. QED
      BY <1>2, <3>2
  <2>5. QED
    BY <2>3, <2>4
<1>10. Ids(enqueued) = Ids(pending) \cup Ids(made)
  BY <1>4, IdsOfUnion
<1>11. seen' \subseteq seen \cup Ids(made)
  BY <1>2, <1>10
<1>12. judged \subseteq judged' /\ Ids(enqueued) \subseteq Ids(live) \cup judged'
  BY <1>2
<1>13. /\ finished \subseteq finished' /\ finished' \subseteq finished \cup Ids(batch.members)
       /\ pending' \subseteq live /\ Ids(live) \subseteq Ids(pending') \cup finished'
       /\ Ids(batch'.members) \subseteq Ids(batch.members) \cup Ids(live)
       /\ pc' \in {"loop", "waiting", "building"}
       /\ \/ UNCHANGED <<last, started, finished>>
          \/ last' = clock /\ started' = Never /\ pc' = "loop" /\ batch' = NoBatch
  <2>1. CASE /\ EndFailed(batch) /\ pc' = "loop"
             /\ pending' = {t \in live : t.id \notin Ids(batch.members)}
    <3>1. /\ finished' = finished \cup Ids(batch.members)
          /\ batch' = NoBatch /\ last' = clock /\ started' = Never
      BY <2>1 DEF EndFailed
    <3>2. Ids(live) \subseteq Ids(pending') \cup Ids(batch.members)
      BY <2>1, IdsOfRest
    <3>3. Ids(batch'.members) = {}
      BY <3>1 DEF NoBatch, Ids
    <3>4. QED
      BY <2>1, <3>1, <3>2, <3>3
  <2>2. CASE /\ pending' = live
             /\ \/ \E until : Wait(until)
                \/ Build(batch)
                \/ \E members \in SUBSET live : Build(NewBatch(p, members, clock, Patience))
    <3>1. /\ finished' = finished /\ pc' \in {"waiting", "building"}
          /\ last' = last /\ started' = started
      BY <2>2 DEF Wait, Build, batchVars
    <3>2. \/ batch' = batch
          \/ \E members \in SUBSET live : batch'.members = members
      BY <2>2 DEF Wait, Build, batchVars, NewBatch
    <3>3. Ids(batch'.members) \subseteq Ids(batch.members) \cup Ids(live)
      BY <3>2, IdsOfPart
    <3>4. QED
      BY <2>2, <3>1, <3>3
  <2>3. CASE RetryFrozen(live)
    BY <2>1, <2>2, <2>3 DEF RetryFrozen
  <2>4. CASE FormBatch(p, live)
    <3>1. PICK eligible, at : /\ eligible = Eligible(p, live)
                              /\ at = ReconsiderAt(p, eligible, clock, last, retryAt)
      OBVIOUS
    <3>2. /\ pending' = live
          /\ \/ \E until : Wait(until)
             \/ \E members \in Selections(eligible, BatchSize) :
                    Build(NewBatch(p, members, clock, Patience))
      BY <2>4, <3>1 DEF FormBatch
    <3>3. Selections(eligible, BatchSize) \subseteq SUBSET live
      <4>1. eligible \subseteq live /\ Exclusive(eligible) \subseteq eligible
        BY <3>1 DEF Eligible, Exclusive
      <4>2. Selections(eligible, BatchSize) \subseteq SUBSET Exclusive(eligible)
        BY DEF Selections, Firsts, kSubset
      <4>3. QED
        BY <4>1, <4>2
    <3>4. QED
      BY <2>2, <3>2, <3>3
  <2>5. QED
    BY <1>2, <2>3, <2>4
<1>14. PassMakes(made)
  <2>1. pending' \subseteq pending \cup made
    BY <1>4, <1>5, <1>13
  <2>2. Ids(live) \subseteq Ids(enqueued)
    BY <1>5, IdsOfPart
  <2>3. /\ Ids(pending) \cup Ids(made) \subseteq Ids(pending') \cup judged' \cup finished'
        /\ Ids(batch'.members) \subseteq Ids(batch.members) \cup Ids(pending) \cup Ids(made)
    BY <1>10, <1>12, <1>13, <2>2
  <2>4. p \in known
    BY <1>2
  <2>5. \E q \in known : \A t \in made :
           /\ t.revision = q.revision /\ Timed(t)
           /\ \/ t.id.source = "WAKEUP" /\ t.id \notin consumed /\ t.id \in consumed'
              \/ /\ t.id.source = "HEARTBEAT" /\ t.id.at = Anchor(q)
                 /\ q.heartbeat # 0 /\ clock >= Anchor(q) + q.heartbeat
    BY <1>8, <2>4
  <2>6. QED
    BY <1>1, <1>9, <1>11, <1>12, <1>13, <2>1, <2>3, <2>5 DEF PassMakes
<1>15. QED
  BY <1>14

\* A message that is signalled is taken, or its id was held already.
LEMMA SignalTakes ==
    ASSUME PlansAreStored, SeenIsHeld, NEW m \in snapshot, SignalCoordinator(m)
    PROVE  /\ pending \subseteq pending' /\ judged \subseteq judged' /\ prestart \subseteq prestart'
           /\ Ids(m.trigger) \subseteq Taken' /\ seen' \subseteq seen \cup Ids(pending')
           /\ pending' \cup prestart' \subseteq pending \cup prestart \cup m.trigger
           /\ UNCHANGED <<request, consumed, finished, batch, last, started, clock, pc>>
<1>1. UNCHANGED <<request, consumed, finished, batch, last, started, clock, pc>> /\ Receive(m)
  BY DEF SignalCoordinator, batchVars, timeVars
<1>2. /\ m.trigger # {} => m.kind = "TRIGGER_CREATED"
      /\ \A t, u \in m.trigger : t = u
  BY DEF PlansAreStored, Messages
<1>3. seen \subseteq Held
  BY DEF SeenIsHeld
<1>4. CASE m.kind = "PLAN_REVISED" /\ ReceivePlan(m.plan)
  <2>1. m.trigger = {} /\ UNCHANGED <<pending, prestart, seen, judged>>
    BY <1>2, <1>4 DEF ReceivePlan
  <2>2. QED
    BY <1>1, <2>1 DEF Ids
<1>5. ASSUME NEW t \in m.trigger, KeepForRun(t)
      PROVE  /\ pending' = pending /\ judged' = judged /\ seen' = seen
             /\ prestart \subseteq prestart' /\ prestart' \subseteq prestart \cup {t}
             /\ t.id \in Taken'
  <2>1. UNCHANGED <<pending, judged, seen>>
    BY <1>5 DEF KeepForRun
  <2>2. CASE t.id \in seen
    BY <1>1, <1>3, <1>5, <2>1, <2>2 DEF KeepForRun, Taken, Held
  <2>3. CASE t.id \notin seen
    <3>1. prestart' = prestart \cup {t}
      BY <1>5, <2>3 DEF KeepForRun
    <3>2. QED
      BY <2>1, <3>1 DEF Taken, Ids
  <2>4. QED
    BY <2>2, <2>3
<1>6. ASSUME NEW t \in m.trigger, AcceptTrigger(t)
      PROVE  /\ pending \subseteq pending' /\ pending' \subseteq pending \cup {t}
             /\ judged \subseteq judged' /\ prestart' = prestart
             /\ seen' \subseteq seen \cup Ids(pending') /\ t.id \in Taken'
  <2>1. PICK p, new :
           /\ new = Acceptable(p, {t}, seen \cup Ids(prestart))
           /\ pending' = pending \cup new /\ seen' = seen \cup Ids(new) /\ prestart' = prestart
           /\ judged' = judged \cup Ids(Refused(p, {t}, seen \cup Ids(prestart)))
    BY <1>6 DEF AcceptTrigger
  <2>2. new \subseteq {t} /\ Ids(new) \subseteq Ids(pending') /\ Ids(pending) \subseteq Ids(pending')
    BY <2>1, IdsOfUnion DEF Acceptable
  <2>3. CASE t.id \in seen \cup Ids(prestart)
    BY <1>1, <1>3, <2>1, <2>2, <2>3 DEF Taken, Held
  <2>4. CASE t.id \notin seen \cup Ids(prestart) /\ Accepts(p, t)
    <3>1. t \in new
      BY <2>1, <2>4 DEF Acceptable
    <3>2. t.id \in Ids(pending')
      BY <2>2, <3>1 DEF Ids
    <3>3. QED
      BY <2>1, <2>2, <3>2 DEF Taken, Held
  <2>5. CASE t.id \notin seen \cup Ids(prestart) /\ ~Accepts(p, t)
    <3>1. t \in Refused(p, {t}, seen \cup Ids(prestart))
      BY <2>5 DEF Refused
    <3>2. t.id \in judged'
      BY <2>1, <3>1 DEF Ids
    <3>3. QED
      BY <2>1, <2>2, <3>2 DEF Taken, Held
  <2>6. QED
    BY <2>3, <2>4, <2>5
<1>7. ASSUME NEW t \in m.trigger, t.id \in Taken'
      PROVE  Ids(m.trigger) \subseteq Taken'
  <2>1. m.trigger = {t}
    BY <1>2, <1>7
  <2>2. QED
    BY <1>7, <2>1 DEF Ids
<1>8. CASE \E t \in m.trigger : KeepForRun(t) \/ AcceptTrigger(t)
  <2>1. PICK t \in m.trigger : KeepForRun(t) \/ AcceptTrigger(t)
    BY <1>8
  <2>2. CASE KeepForRun(t)
    BY <1>1, <1>5, <1>7, <2>2
  <2>3. CASE AcceptTrigger(t)
    BY <1>1, <1>6, <1>7, <2>3
  <2>4. QED
    BY <2>1, <2>2, <2>3
<1>9. QED
  BY <1>1, <1>4, <1>8 DEF Receive

\* What the coordinator takes it keeps until it has judged it or batched it.
LEMMA NothingVanishesStep ==
    ASSUME PlansAreStored, DeliveredFromOutbox, SeenIsHeld, NothingVanishes, Next
    PROVE  SeenIsHeld' /\ NothingVanishes'
<1>. DEFINE sent == UNION {m.trigger : m \in outbox}
<1>0. /\ seen \cup request.seen \cup consumed \subseteq Held
      /\ \A m \in signalled : Ids(m.trigger) \subseteq Taken
      /\ signalled \subseteq snapshot /\ snapshot \subseteq outbox
      /\ Held \subseteq Taken
      /\ Ids(recorded) \cup consumed \subseteq Ids(sent) \cup Taken
  BY DEF SeenIsHeld, DeliveredFromOutbox, NothingVanishes, Held, Taken
<1>1. ASSUME seen' \cup request'.seen \cup consumed' \subseteq Held', Taken \subseteq Taken',
             \A m \in signalled' \ signalled : Ids(m.trigger) \subseteq Taken'
      PROVE  SeenIsHeld' /\ (UNCHANGED <<recorded, outbox>> => NothingVanishes')
  <2>1. SeenIsHeld'
    BY <1>0, <1>1 DEF SeenIsHeld
  <2>2. Held' \subseteq Taken'
    BY DEF Taken
  <2>3. QED
    BY <1>0, <1>1, <2>1, <2>2 DEF NothingVanishes, Taken, Held
<1>2. CASE Tick
  <2>1. UNCHANGED <<storeVars, dispatchVars, coordinatorVars>>
    BY <1>2 DEF Tick
  <2>2. QED
    BY <1>0, <1>1, <2>1 DEF storeVars, dispatchVars, coordinatorVars, intakeVars, batchVars,
                           timeVars, Taken, Held
<1>3. CASE Recording /\ UNCHANGED coordinatorVars
  <2>1. PICK now, new, plans : Commits(now, new, plans)
    BY <1>3, RecordingCommits
  <2>2. /\ recorded' = recorded \cup new
        /\ outbox' = outbox \cup {PlanMessage(p, now) : p \in plans}
                            \cup {TriggerMessage(t) : t \in new}
        /\ Taken' = Taken /\ Held' = Held /\ consumed' = consumed
        /\ seen' = seen /\ request' = request /\ signalled' = signalled
    BY <2>1 DEF Commits, coordinatorVars, intakeVars, batchVars, timeVars, dispatchVars, Taken,
                Held
  <2>3. SeenIsHeld'
    BY <1>0, <1>1, <2>2
  <2>4. sent \cup new \subseteq sent'
    <3>1. \A t \in new : TriggerMessage(t) \in outbox' /\ t \in TriggerMessage(t).trigger
      BY <2>2 DEF TriggerMessage
    <3>2. QED
      BY <2>2, <3>1
  <2>5. Ids(recorded') \subseteq Ids(recorded) \cup Ids(new)
    BY <2>2, IdsOfUnion
  <2>6. Ids(sent) \cup Ids(new) \subseteq Ids(sent')
    BY <2>4, IdsOfUnion, IdsOfPart
  <2>7. Ids(recorded') \cup consumed' \subseteq Ids(sent') \cup Taken'
    BY <1>0, <2>2, <2>5, <2>6
  <2>8. NothingVanishes'
    BY <2>7 DEF NothingVanishes, Taken, Held
  <2>9. QED
    BY <2>3, <2>8
<1>4. CASE Delivery /\ UNCHANGED coordinatorVars
  <2>1. /\ Taken' = Taken /\ Held' = Held /\ consumed' = consumed
        /\ seen' = seen /\ request' = request
    BY <1>4 DEF coordinatorVars, intakeVars, batchVars, timeVars, Taken, Held
  <2>2. /\ UNCHANGED recorded
        /\ \/ outbox' = outbox /\ signalled' \subseteq signalled
           \/ \E m \in signalled : outbox' = outbox \ {m} /\ signalled' = {}
    BY <1>4, DeliveryMoves
  <2>3. CASE outbox' = outbox /\ signalled' \subseteq signalled
    BY <1>0, <1>1, <2>1, <2>2, <2>3
  <2>4. ASSUME NEW m \in signalled, outbox' = outbox \ {m}, signalled' = {}
        PROVE  SeenIsHeld' /\ NothingVanishes'
    <3>1. SeenIsHeld'
      BY <1>0, <1>1, <2>1, <2>4
    <3>2. sent \subseteq sent' \cup m.trigger
      BY <2>4
    <3>3. Ids(sent) \subseteq Ids(sent') \cup Ids(m.trigger)
      <4>1. Ids(sent) \subseteq Ids(sent' \cup m.trigger)
        BY <3>2, IdsOfPart
      <4>2. Ids(sent' \cup m.trigger) = Ids(sent') \cup Ids(m.trigger)
        BY IdsOfUnion
      <4>3. QED
        BY <4>1, <4>2
    <3>4. Ids(recorded') \cup consumed' \subseteq Ids(sent') \cup Taken'
      BY <1>0, <2>1, <2>2, <3>3
    <3>5. NothingVanishes'
      BY <3>4 DEF NothingVanishes, Taken, Held
    <3>6. QED
      BY <3>1, <3>5
  <2>5. QED
    BY <2>2, <2>3, <2>4
<1>5. CASE StartCoordinator
  <2>1. /\ UNCHANGED <<storeVars, dispatchVars, intakeVars, batchVars, timeVars, judged>>
        /\ request'.seen = {}
    BY <1>5 DEF StartCoordinator
  <2>2. QED
    BY <1>0, <1>1, <2>1 DEF storeVars, dispatchVars, intakeVars, batchVars, timeVars, Taken, Held
<1>6. ASSUME NEW m \in snapshot, SignalCoordinator(m)
      PROVE  SeenIsHeld' /\ NothingVanishes'
  <2>1. /\ pending \subseteq pending' /\ judged \subseteq judged' /\ prestart \subseteq prestart'
        /\ Ids(m.trigger) \subseteq Taken' /\ seen' \subseteq seen \cup Ids(pending')
        /\ UNCHANGED <<request, consumed, finished>>
    BY <1>6, SignalTakes
  <2>2. Held \subseteq Held' /\ Taken \subseteq Taken' /\ Ids(pending') \subseteq Held'
    <3>1. Ids(pending) \subseteq Ids(pending') /\ Ids(prestart) \subseteq Ids(prestart')
      BY <2>1, IdsOfPart
    <3>2. QED
      BY <2>1, <3>1 DEF Taken, Held
  <2>3. signalled' = {m} /\ UNCHANGED <<recorded, outbox>>
    BY <1>6 DEF SignalCoordinator, storeVars
  <2>4. QED
    BY <1>0, <1>1, <2>1, <2>2, <2>3
<1>7. CASE Run
  <2>1. PICK p, ids, new :
          /\ ids = request.seen \cup seen /\ new = Acceptable(p, prestart, ids)
          /\ pending' = pending \cup new /\ seen' = ids \cup Ids(new)
          /\ judged' = judged \cup Ids(Refused(p, prestart, ids))
    BY <1>7 DEF Run
  <2>2. /\ prestart' = {} /\ request'.seen = {}
        /\ UNCHANGED <<recorded, outbox, signalled, consumed, finished>>
    BY <1>7 DEF Run, NoRequest, storeVars, dispatchVars, batchVars
  <2>3. /\ Ids(pending') = Ids(pending) \cup Ids(new)
        /\ Held \subseteq Held' /\ Ids(new) \subseteq Held'
    <3>1. Ids(pending') = Ids(pending) \cup Ids(new)
      BY <2>1, IdsOfUnion
    <3>2. judged \subseteq judged' /\ finished' = finished
      BY <2>1, <2>2
    <3>3. QED
      BY <3>1, <3>2 DEF Held
  <2>4. Ids(prestart) \subseteq Held'
    <3>1. ASSUME NEW t \in prestart PROVE t.id \in Held'
      <4>1. CASE t.id \in ids
        BY <1>0, <2>1, <2>3, <4>1
      <4>2. CASE t.id \notin ids /\ Accepts(p, t)
        <5>1. t \in new
          BY <2>1, <4>2 DEF Acceptable
        <5>2. QED
          BY <2>3, <5>1 DEF Ids
      <4>3. CASE t.id \notin ids /\ ~Accepts(p, t)
        <5>1. t \in Refused(p, prestart, ids)
          BY <4>3 DEF Refused
        <5>2. t.id \in judged'
          BY <2>1, <5>1 DEF Ids
        <5>3. QED
          BY <5>2 DEF Held
      <4>4. QED
        BY <4>1, <4>2, <4>3
    <3>2. QED
      BY <3>1 DEF Ids
  <2>5. Taken \subseteq Taken'
    BY <2>3, <2>4 DEF Taken
  <2>6. seen' \cup request'.seen \cup consumed' \subseteq Held'
    BY <1>0, <2>1, <2>2, <2>3
  <2>7. QED
    BY <1>1, <2>2, <2>5, <2>6
<1>8. CASE Pass
  <2>1. PICK made : PassMakes(made)
    BY <1>8, PassIsLikeThat
  <2>2. /\ Ids(pending) \cup Ids(made) \subseteq Held'
        /\ judged \cup finished \cup judged' \subseteq Held'
        /\ seen' \subseteq seen \cup Ids(made)
        /\ consumed' \subseteq consumed \cup Ids(made) \cup judged'
        /\ UNCHANGED <<recorded, outbox, signalled, request, prestart>>
    BY <2>1 DEF PassMakes, Held, storeVars, dispatchVars
  <2>3. Held \subseteq Held'
    BY <2>2 DEF Held
  <2>4. Taken \subseteq Taken'
    BY <2>2, <2>3 DEF Taken
  <2>5. seen' \cup request'.seen \cup consumed' \subseteq Held'
    BY <1>0, <2>2, <2>3
  <2>6. QED
    BY <1>1, <2>2, <2>4, <2>5
<1>9. CASE \E ok \in BOOLEAN : ChildrenDone(ok)
  <2>1. /\ UNCHANGED <<recorded, outbox, signalled, judged, pending, prestart, consumed, finished>>
        /\ seen' \cup request'.seen \subseteq seen \cup request.seen
    BY <1>9 DEF ChildrenDone, ContinueAsNew, storeVars, dispatchVars
  <2>2. Held' = Held /\ Taken' = Taken
    BY <2>1 DEF Held, Taken
  <2>3. QED
    BY <1>0, <1>1, <2>1, <2>2
<1>10. CASE BuildEnds
  <2>1. UNCHANGED <<recorded, outbox, signalled, judged, prestart, consumed, seen, request>>
    BY <1>10 DEF BuildEnds, BuildOk, InputUnavailable, BuildFails, BuildRejected, Unchanged,
                 storeVars, dispatchVars
  <2>2. \/ pending' = pending /\ finished' = finished
        \/ /\ pending' = {t \in pending : t.id \notin Ids(batch.members)}
           /\ finished' = finished \cup Ids(batch.members)
    BY <1>10 DEF BuildEnds, BuildOk, InputUnavailable, BuildFails, BuildRejected, EndFailed
  <2>3. Ids(pending) \subseteq Ids(pending') \cup finished' /\ finished \subseteq finished'
    BY <2>2, IdsOfRest
  <2>4. Held \subseteq Held'
    BY <2>1, <2>3 DEF Held
  <2>5. Taken \subseteq Taken'
    BY <2>1, <2>4 DEF Taken
  <2>6. seen' \cup request'.seen \cup consumed' \subseteq Held'
    BY <1>0, <2>1, <2>4
  <2>7. QED
    BY <1>1, <2>1, <2>5, <2>6
<1>11. QED
  BY <1>2, <1>3, <1>4, <1>5, <1>6, <1>7, <1>8, <1>9, <1>10 DEF Next, Coordination

-----------------------------------------------------------------------------
(* Plans in force.                                                          *)

\* A plan that is in force is only replaced by a later one, and what the
\* coordinator is told of is in force.
LEMMA InForceStays ==
    ASSUME PlansAreStored, DeliveredFromOutbox, Next
    PROVE  /\ \A r \in Nat : r <= plan.revision /\ InForce(r) => InForce(r)'
           /\ \A m \in signalled' \ signalled :
                m.kind = "PLAN_REVISED" => InForce(m.plan.revision)'
<1>0. /\ \A p \in Plans : p.revision \in Nat /\ p.revision <= plan.revision
      /\ pc # "starting" => request = NoRequest
      /\ plan \in Plans /\ known \subseteq Plans /\ request.plan \subseteq Plans
      /\ NoRequest.plan = {}
  <2>1. \A p \in Plans : p.revision \in Nat
    BY TriggerNumbers DEF PlansAreStored
  <2>2. QED
    BY <2>1 DEF PlansAreStored, Plans, NoRequest
<1>1. ASSUME known \cup request.plan \subseteq known' \cup request'.plan
      PROVE  \A r \in Nat : InForce(r) => InForce(r)'
  BY <1>1 DEF InForce
<1>2. CASE Tick \/ (Recording /\ UNCHANGED coordinatorVars)
             \/ (Delivery /\ UNCHANGED coordinatorVars)
  <2>1. UNCHANGED <<known, request>>
    BY <1>2 DEF Tick, coordinatorVars, intakeVars
  <2>2. signalled' \subseteq signalled
    <3>1. CASE Tick
      BY <3>1 DEF Tick, dispatchVars
    <3>2. CASE Recording /\ UNCHANGED coordinatorVars
      BY <3>2, RecordingCommits DEF Commits, dispatchVars
    <3>3. CASE Delivery /\ UNCHANGED coordinatorVars
      BY <3>3, DeliveryMoves
    <3>4. QED
      BY <1>2, <3>1, <3>2, <3>3
  <2>3. QED
    BY <1>1, <2>1, <2>2
<1>3. CASE Pass \/ BuildEnds
  <2>1. UNCHANGED <<known, request, signalled>>
    BY <1>3 DEF Pass, BuildEnds, BuildOk, InputUnavailable, BuildFails, BuildRejected, Unchanged,
                dispatchVars
  <2>2. QED
    BY <1>1, <2>1
<1>4. CASE StartCoordinator
  <2>1. request'.plan = {plan} /\ signalled' = signalled
    BY <1>4 DEF StartCoordinator, dispatchVars
  <2>2. QED
    BY <2>1 DEF InForce
<1>5. ASSUME NEW m \in snapshot, SignalCoordinator(m)
      PROVE  /\ \A r \in Nat : InForce(r) => InForce(r)'
             /\ signalled' = {m}
             /\ m.kind = "PLAN_REVISED" => InForce(m.plan.revision)'
  <2>1. request' = request /\ signalled' = {m} /\ m.plan \in Plans
    BY <1>5, SignalHandsOver DEF Plans, Messages
  <2>2. CASE m.kind = "PLAN_REVISED" /\ ReceivePlan(m.plan)
    <3>1. known' = IF \A k \in known : m.plan.revision > k.revision THEN {m.plan} ELSE known
      BY <2>2 DEF ReceivePlan
    <3>2. m.plan.revision \in Nat /\ \A k \in known : k.revision \in Nat
      BY <1>0, <2>1
    <3>3. CASE \A k \in known : m.plan.revision > k.revision
      <4>1. known' = {m.plan}
        BY <3>1, <3>3
      <4>2. \A r \in Nat, k \in known : r <= k.revision => r <= m.plan.revision
        BY <3>2, <3>3
      <4>3. QED
        BY <2>1, <3>2, <4>1, <4>2 DEF InForce
    <3>4. CASE ~\A k \in known : m.plan.revision > k.revision
      <4>1. PICK k \in known : m.plan.revision <= k.revision
        BY <3>2, <3>4
      <4>2. known' = known
        BY <3>1, <3>4
      <4>3. QED
        BY <2>1, <4>1, <4>2 DEF InForce
    <3>5. QED
      BY <3>3, <3>4
  <2>3. CASE \E t \in m.trigger : KeepForRun(t) \/ AcceptTrigger(t)
    <3>1. known' = known
      BY <2>3 DEF KeepForRun, AcceptTrigger
    <3>2. m.kind # "PLAN_REVISED"
      BY <2>1, <2>3 DEF PlansAreStored, Messages
    <3>3. QED
      BY <1>1, <2>1, <3>1, <3>2
  <2>4. QED
    BY <1>5, <2>2, <2>3 DEF SignalCoordinator, Receive
<1>6. CASE Run
  <2>1. known' = LaterPlan(known) /\ known' # {} /\ signalled' = signalled
    BY <1>6 DEF Run, dispatchVars
  <2>2. PICK q \in known' : TRUE
    BY <2>1
  <2>3. \A p \in known \cup request.plan : p.revision <= q.revision
    BY <2>1, <2>2 DEF LaterPlan
  <2>4. q.revision \in Nat /\ \A p \in known \cup request.plan : p.revision \in Nat
    BY <1>0, <2>1, <2>2 DEF LaterPlan
  <2>5. \A r \in Nat : InForce(r) => r <= q.revision
    BY <2>3, <2>4 DEF InForce
  <2>6. QED
    BY <2>1, <2>2, <2>5 DEF InForce
<1>7. CASE \E ok \in BOOLEAN : ChildrenDone(ok)
  <2>1. /\ pc = "running" /\ signalled' = signalled
        /\ \/ request'.plan = known
           \/ UNCHANGED <<known, request>>
    BY <1>7 DEF ChildrenDone, ContinueAsNew, dispatchVars
  <2>2. request.plan = {}
    BY <1>0, <2>1
  <2>3. known \cup request.plan \subseteq known' \cup request'.plan
    BY <2>1, <2>2
  <2>4. QED
    BY <1>1, <2>1, <2>3
<1>8. QED
  BY <1>2, <1>3, <1>4, <1>5, <1>6, <1>7 DEF Next, Coordination

\* A plan message is ahead of the messages of the triggers that its plan emitted,
\* in the outbox and in whatever is fetched of it.
LEMMA PlanTravelsAheadStep ==
    ASSUME PlansAreStored, DeliveredFromOutbox, PlanTravelsAhead, Next
    PROVE  PlanTravelsAhead'
<1>0. /\ plan.revision \in Nat /\ snapshot \subseteq outbox /\ clock \in Nat
      /\ \A m \in Messages : m.plan.revision <= plan.revision /\ m.plan.revision \in Nat /\ m.at \in Nat
      /\ outbox \subseteq Messages /\ FirstPlan.revision = 1
  <2>1. \A p \in Plans : p.revision \in Nat
    BY TriggerNumbers DEF PlansAreStored
  <2>2. QED
    BY <2>1, TriggerNumbers DEF PlansAreStored, Plans, Messages, DeliveredFromOutbox
<1>1. CASE Tick \/ Coordination \/ BuildEnds
  <2>1. UNCHANGED <<plan, outbox, snapshot>>
    <3>1. CASE \E m \in snapshot : SignalCoordinator(m)
      BY <3>1 DEF SignalCoordinator, storeVars
    <3>2. CASE ~\E m \in snapshot : SignalCoordinator(m)
      BY <1>1, <3>2, PlansAreCarried DEF Coordination, PlansCarried, storeVars, dispatchVars
    <3>3. QED
      BY <3>1, <3>2
  <2>2. QED
    BY <2>1 DEF PlanTravelsAhead
<1>2. CASE Recording /\ UNCHANGED coordinatorVars
  <2>1. PICK now, new, plans : Commits(now, new, plans)
    BY <1>2, RecordingCommits
  <2>2. /\ snapshot' = snapshot /\ now \in Nat /\ plan'.revision \in Nat
        /\ plan.revision <= plan'.revision
        /\ plans = {} \/ (plans = {plan'} /\ plan'.revision = plan.revision + 1)
        /\ outbox' = outbox \cup {PlanMessage(p, now) : p \in plans}
                            \cup {TriggerMessage(t) : t \in new}
        /\ \A t \in new : /\ t.observed = now
                          /\ \/ plans = {} /\ t.revision = 0
                             \/ plans = {plan'} /\ t.revision = plan'.revision
    BY <1>0, <2>1, TriggerNumbers DEF Commits, dispatchVars
  <2>3. ASSUME NEW m \in outbox', NEW t \in m.trigger
        PROVE  \/ m \in outbox
               \/ m \notin outbox /\ t \in new /\ m.at = now
    BY <2>2, <2>3 DEF PlanMessage, TriggerMessage
  <2>4. ASSUME NEW n \in outbox', n.kind = "PLAN_REVISED"
        PROVE  \/ n \in outbox
               \/ plans = {plan'} /\ n.plan.revision = plan'.revision /\ n.at = now
    BY <2>2, <2>4 DEF PlanMessage, TriggerMessage
  <2>5. SUFFICES ASSUME NEW m \in outbox', NEW t \in m.trigger
                 PROVE  /\ t.revision \in 0 .. plan'.revision
                        /\ \A n \in outbox' :
                             n.kind = "PLAN_REVISED" /\ n.plan.revision = t.revision =>
                                 n.at <= m.at /\ (m \in snapshot => n \in snapshot)
    BY <2>2 DEF PlanTravelsAhead
  <2>6. CASE m \in outbox
    <3>1. /\ t.revision \in 0 .. plan.revision
          /\ \A n \in outbox : n.kind = "PLAN_REVISED" /\ n.plan.revision = t.revision =>
                 n.at <= m.at /\ (m \in snapshot => n \in snapshot)
      BY <2>6 DEF PlanTravelsAhead
    <3>2. t.revision \in 0 .. plan'.revision
      BY <1>0, <2>2, <3>1
    <3>3. ASSUME NEW n \in outbox', n.kind = "PLAN_REVISED", n.plan.revision = t.revision
          PROVE  n \in outbox
      <4>1. CASE plans = {plan'} /\ n.plan.revision = plan'.revision
        <5>1. plan'.revision = plan.revision + 1
          BY <2>2, <4>1
        <5>2. QED
          BY <1>0, <3>1, <3>3, <4>1, <5>1
      <4>2. QED
        BY <2>4, <3>3, <4>1
    <3>4. QED
      BY <3>1, <3>2, <3>3
  <2>7. CASE m \notin outbox
    <3>1. t \in new /\ m.at = now /\ m \notin snapshot
      BY <1>0, <2>3, <2>7
    <3>2. t.revision \in 0 .. plan'.revision
      BY <2>2, <3>1
    <3>3. ASSUME NEW n \in outbox', n.kind = "PLAN_REVISED", n.plan.revision = t.revision
          PROVE  n.at <= m.at
      <4>1. CASE n.at = now
        BY <2>2, <3>1, <4>1
      <4>2. CASE n \in outbox
        <5>1. n.plan.revision <= plan.revision /\ n.plan.revision \in Nat
          BY <1>0, <4>2
        <5>2. n.plan.revision >= 1
          BY <4>2, TriggerNumbers DEF PlansAreStored, Plans, Messages
        <5>3. t.revision = 0 \/ t.revision = plan.revision + 1
          BY <2>2, <3>1
        <5>4. QED
          BY <1>0, <3>3, <5>1, <5>2, <5>3
      <4>3. QED
        BY <2>4, <3>3, <4>1, <4>2
    <3>4. QED
      BY <3>1, <3>2, <3>3
  <2>8. QED
    BY <2>6, <2>7
<1>3. CASE Delivery /\ UNCHANGED coordinatorVars
  <2>1. /\ UNCHANGED plan
        /\ \/ outbox' = outbox /\ snapshot' = DueMessages
           \/ \E m \in signalled : outbox' = outbox \ {m} /\ snapshot' = snapshot \ {m}
           \/ outbox' = outbox /\ snapshot' = {}
    BY <1>3, DeliveryMoves
  <2>2. SUFFICES ASSUME NEW m \in outbox', NEW t \in m.trigger
                 PROVE  /\ t.revision \in 0 .. plan'.revision
                        /\ \A n \in outbox' :
                             n.kind = "PLAN_REVISED" /\ n.plan.revision = t.revision =>
                                 n.at <= m.at /\ (m \in snapshot' => n \in snapshot')
    BY DEF PlanTravelsAhead
  <2>3. /\ m \in outbox /\ t.revision \in 0 .. plan'.revision
        /\ \A n \in outbox : n.kind = "PLAN_REVISED" /\ n.plan.revision = t.revision =>
                 n.at <= m.at /\ (m \in snapshot => n \in snapshot)
    BY <2>1, <2>2 DEF PlanTravelsAhead
  <2>4. ASSUME NEW n \in outbox', n.kind = "PLAN_REVISED", n.plan.revision = t.revision
        PROVE  n.at <= m.at /\ (m \in snapshot' => n \in snapshot')
    <3>1. n \in outbox /\ n.at <= m.at /\ (m \in snapshot => n \in snapshot)
      BY <2>1, <2>3, <2>4
    <3>2. CASE snapshot' = DueMessages
      <4>1. m.at <= clock => n.at <= clock
        BY <1>0, <2>3, <3>1
      <4>2. QED
        BY <3>1, <3>2, <4>1 DEF DueMessages
    <3>3. ASSUME NEW s \in signalled, outbox' = outbox \ {s}, snapshot' = snapshot \ {s}
          PROVE  m \in snapshot' => n \in snapshot'
      BY <2>4, <3>1, <3>3
    <3>4. QED
      BY <2>1, <3>1, <3>2, <3>3
  <2>5. QED
    BY <2>3, <2>4
<1>4. QED
  BY <1>1, <1>2, <1>3 DEF Next

\* A trigger comes to the coordinator from a message it is signalled, or is made
\* by it under the plan it has.
LEMMA TriggersComeFrom ==
    ASSUME PlansAreStored, SeenIsHeld, Next,
           NEW t \in (pending' \cup prestart') \ (pending \cup prestart)
    PROVE  \/ \E m \in snapshot : SignalCoordinator(m) /\ t \in m.trigger
           \/ \E p \in known : t.revision = p.revision /\ known' = known /\ Timed(t)
<1>1. CASE Tick
  BY <1>1 DEF Tick, coordinatorVars, intakeVars
<1>2. CASE Recording /\ UNCHANGED coordinatorVars
  BY <1>2 DEF coordinatorVars, intakeVars
<1>3. CASE Delivery /\ UNCHANGED coordinatorVars
  BY <1>3 DEF coordinatorVars, intakeVars
<1>4. CASE StartCoordinator
  BY <1>4 DEF StartCoordinator, intakeVars
<1>5. ASSUME NEW m \in snapshot, SignalCoordinator(m)
      PROVE  t \in m.trigger
  BY <1>5, SignalTakes
<1>6. CASE Run
  BY <1>6 DEF Run, Acceptable
<1>7. CASE Pass
  <2>1. PICK made : PassMakes(made)
    BY <1>7, PassIsLikeThat
  <2>2. pending' \subseteq pending \cup made /\ prestart' = prestart /\ known' = known
    BY <2>1 DEF PassMakes
  <2>3. t \in made
    BY <2>2
  <2>4. QED
    BY <2>1, <2>2, <2>3 DEF PassMakes
<1>8. CASE \E ok \in BOOLEAN : ChildrenDone(ok)
  BY <1>8 DEF ChildrenDone
<1>9. CASE BuildEnds
  BY <1>9 DEF BuildEnds, BuildOk, InputUnavailable, BuildFails, BuildRejected, Unchanged
<1>10. QED
  BY <1>1, <1>2, <1>3, <1>4, <1>5, <1>6, <1>7, <1>8, <1>9 DEF Next, Coordination

\* From its start on the coordinator has a plan, or will restore one.
LEMMA PlanAtHand ==
    ASSUME PlansAreStored, ToldIsInForce, Next
    PROVE  pc' # "absent" => known' \cup request'.plan # {}
<1>0. /\ pc # "absent" => known \cup request.plan # {}
      /\ pc # "starting" => request.plan = {}
  BY DEF ToldIsInForce, PlansAreStored, NoRequest
<1>1. CASE Tick \/ (Recording /\ UNCHANGED coordinatorVars)
             \/ (Delivery /\ UNCHANGED coordinatorVars)
  <2>1. UNCHANGED <<known, request, pc>>
    BY <1>1 DEF Tick, coordinatorVars, intakeVars
  <2>2. QED
    BY <1>0, <2>1
<1>2. CASE Pass \/ BuildEnds
  <2>1. UNCHANGED <<known, request>> /\ pc # "absent"
    BY <1>2 DEF Pass, Awake, BuildEnds, BuildOk, InputUnavailable, BuildFails, BuildRejected,
                Unchanged
  <2>2. QED
    BY <1>0, <2>1
<1>3. CASE StartCoordinator
  BY <1>3 DEF StartCoordinator
<1>4. ASSUME NEW m \in snapshot, SignalCoordinator(m)
      PROVE  pc' # "absent" => known' \cup request'.plan # {}
  <2>1. pc' = pc /\ request' = request /\ (known # {} => known' # {})
    <3>1. CASE ReceivePlan(m.plan)
      BY <1>4, <3>1 DEF SignalCoordinator, ReceivePlan
    <3>2. CASE known' = known
      BY <1>4, <3>2 DEF SignalCoordinator
    <3>3. QED
      BY <1>4, <3>1, <3>2 DEF SignalCoordinator, Receive, KeepForRun, AcceptTrigger
  <2>2. QED
    BY <1>0, <2>1
<1>5. CASE Run
  BY <1>5 DEF Run
<1>6. CASE \E ok \in BOOLEAN : ChildrenDone(ok)
  <2>1. /\ pc = "running"
        /\ request'.plan = known \/ UNCHANGED <<known, request>>
    BY <1>6 DEF ChildrenDone, ContinueAsNew
  <2>2. QED
    BY <1>0, <2>1
<1>7. QED
  BY <1>1, <1>2, <1>3, <1>4, <1>5, <1>6 DEF Next, Coordination

\* A plan that was delivered stays in force, and a trigger is only taken where
\* the plan that emitted it is.
LEMMA PlansInForceStep ==
    ASSUME PlansAreStored, DeliveredFromOutbox, SeenIsHeld, ToldIsInForce, PlanTravelsAhead,
           DeliveredPlanIsKnown, PlanBeforeItsTrigger, Next
    PROVE  ToldIsInForce' /\ DeliveredPlanIsKnown' /\ PlanBeforeItsTrigger'
<1>0. /\ plan.revision \in Nat /\ signalled \subseteq snapshot /\ snapshot \subseteq outbox
      /\ \A m \in outbox : /\ m.plan.revision <= plan.revision /\ m.plan.revision \in Nat
                           /\ m.at \in Nat /\ (m.trigger # {} => m.kind = "TRIGGER_CREATED")
      /\ \A p \in known \cup request.plan : p.revision <= plan.revision /\ p.revision \in Nat
  <2>1. \A p \in Plans : p.revision \in Nat
    BY TriggerNumbers DEF PlansAreStored
  <2>2. \A m \in outbox : m.at \in Nat
    BY TriggerNumbers DEF PlansAreStored, Messages
  <2>3. QED
    BY <2>1, <2>2 DEF PlansAreStored, Plans, Messages, DeliveredFromOutbox
<1>1. /\ \A r \in Nat : r <= plan.revision /\ InForce(r) => InForce(r)'
      /\ \A m \in signalled' \ signalled :
           m.kind = "PLAN_REVISED" => InForce(m.plan.revision)'
  BY InForceStays
<1>2. \A m \in signalled' : m.kind = "PLAN_REVISED" => InForce(m.plan.revision)'
  <2>1. ASSUME NEW m \in signalled, m.kind = "PLAN_REVISED"
        PROVE  InForce(m.plan.revision)'
    <3>1. /\ InForce(m.plan.revision)
          /\ m.plan.revision \in Nat /\ m.plan.revision <= plan.revision
      BY <1>0, <2>1 DEF ToldIsInForce
    <3>2. QED
      BY <1>1, <3>1
  <2>2. QED
    BY <1>1, <2>1
<1>3. \A r \in 1 .. plan.revision :
         \/ InForce(r)
         \/ \E m \in outbox : m.kind = "PLAN_REVISED" /\ m.plan.revision = r
  <2>1. SUFFICES ASSUME NEW r \in 1 .. plan.revision,
                        ~\E m \in outbox : m.kind = "PLAN_REVISED" /\ m.plan.revision = r
                 PROVE  InForce(r)
    OBVIOUS
  <2>2. r \notin {m.plan.revision : m \in {n \in outbox : n.kind = "PLAN_REVISED"}}
    BY <2>1
  <2>3. QED
    BY <2>1, <2>2 DEF DeliveredPlanIsKnown, InForce
<1>4. \A t \in pending \cup prestart : InForce(t.revision) /\ t.revision \in 0 .. plan.revision
  BY DEF PlanBeforeItsTrigger, InForce, ToldIsInForce
<1>5. plan.revision <= plan'.revision /\ plan'.revision \in Nat
  <2>1. CASE plan' = plan
    BY <1>0, <2>1
  <2>2. CASE Recording /\ UNCHANGED coordinatorVars
    BY <1>0, <2>2, RecordingCommits, TriggerNumbers DEF Commits
  <2>3. CASE \E m \in snapshot : SignalCoordinator(m)
    BY <2>1, <2>3 DEF SignalCoordinator, storeVars
  <2>4. CASE Delivery /\ UNCHANGED coordinatorVars
    BY <2>1, <2>4, DeliveryMoves
  <2>5. QED
    BY <2>1, <2>2, <2>3, <2>4, PlansAreCarried DEF Next, Coordination, PlansCarried, storeVars
<1>6. \A t \in (pending' \cup prestart') \ (pending \cup prestart) :
         InForce(t.revision)' /\ t.revision \in 0 .. plan.revision
  <2>1. SUFFICES ASSUME NEW t \in (pending' \cup prestart') \ (pending \cup prestart)
                 PROVE  InForce(t.revision)' /\ t.revision \in 0 .. plan.revision
    OBVIOUS
  <2>2. ASSUME NEW p \in known, t.revision = p.revision, known' = known
        PROVE  InForce(t.revision)' /\ t.revision \in 0 .. plan.revision
    <3>1. p.revision \in Nat /\ p.revision <= plan.revision
      BY <1>0
    <3>2. QED
      BY <1>0, <2>2, <3>1 DEF InForce
  <2>3. ASSUME NEW m \in snapshot, SignalCoordinator(m), t \in m.trigger
        PROVE  InForce(t.revision)' /\ t.revision \in 0 .. plan.revision
    <3>1. /\ m \in outbox /\ m.kind = "TRIGGER_CREATED" /\ t.revision \in 0 .. plan.revision
          /\ \A n \in outbox : n.kind = "PLAN_REVISED" /\ n.plan.revision = t.revision =>
                 n.at <= m.at /\ n \in snapshot
      BY <1>0, <2>3 DEF PlanTravelsAhead
    <3>2. m \in NextMessages
      BY <2>3, SignalHandsOver
    <3>3. ASSUME NEW n \in outbox, n.kind = "PLAN_REVISED", n.plan.revision = t.revision
          PROVE  FALSE
      <4>1. n \in snapshot /\ n.at <= m.at /\ n.at \in Nat /\ m.at \in Nat
        BY <1>0, <3>1, <3>3
      <4>2. Precedes(n, m)
        BY <3>1, <3>3, <4>1 DEF Precedes
      <4>3. QED
        BY <3>2, <4>1, <4>2 DEF NextMessages
    <3>4. CASE t.revision = 0
      <4>1. pc' # "absent"
        BY <2>3 DEF SignalCoordinator
      <4>2. PICK p \in known' \cup request'.plan : TRUE
        BY <4>1, PlanAtHand
      <4>3. p.revision \in Nat
        <5>1. PlansAreStored'
          BY PlansAreStoredStep
        <5>2. QED
          BY <4>2, <5>1, TriggerNumbers DEF PlansAreStored, Plans
      <4>4. QED
        BY <3>1, <3>4, <4>2, <4>3 DEF InForce
    <3>5. CASE t.revision # 0
      <4>1. t.revision \in 1 .. plan.revision /\ t.revision \in Nat /\ t.revision <= plan.revision
        BY <1>0, <3>1, <3>5
      <4>2. InForce(t.revision)
        BY <1>3, <3>3, <4>1
      <4>3. QED
        BY <1>1, <3>1, <4>1, <4>2
    <3>6. QED
      BY <3>4, <3>5
  <2>4. QED
    BY <2>2, <2>3, TriggersComeFrom
<1>7. \A t \in pending' \cup prestart' : InForce(t.revision)' /\ t.revision \in 0 .. plan'.revision
  <2>1. SUFFICES ASSUME NEW t \in pending' \cup prestart'
                 PROVE  InForce(t.revision)' /\ t.revision \in 0 .. plan'.revision
    OBVIOUS
  <2>2. t.revision \in 0 .. plan.revision
    BY <1>4, <1>6
  <2>3. t.revision \in Nat /\ t.revision <= plan.revision /\ t.revision \in 0 .. plan'.revision
    BY <1>0, <1>5, <2>2
  <2>4. InForce(t.revision)'
    BY <1>1, <1>4, <1>6, <2>3
  <2>5. QED
    BY <2>3, <2>4
<1>8. PlanBeforeItsTrigger'
  BY <1>7 DEF PlanBeforeItsTrigger, InForce
<1>9. ToldIsInForce'
  BY <1>2, <1>7, PlanAtHand DEF ToldIsInForce
<1>10. ASSUME plan' = plan,
              \A m \in outbox \ outbox' : m.kind = "PLAN_REVISED" => InForce(m.plan.revision)
       PROVE  DeliveredPlanIsKnown'
  <2>1. ASSUME NEW r \in 1 .. plan.revision,
               r \notin {m.plan.revision : m \in {n \in outbox' : n.kind = "PLAN_REVISED"}}
        PROVE  InForce(r)'
    <3>1. r \in Nat /\ r <= plan.revision
      BY <1>0, <2>1
    <3>2. InForce(r)
      BY <1>3, <1>10, <2>1
    <3>3. QED
      BY <1>1, <3>1, <3>2
  <2>2. QED
    BY <1>10, <2>1 DEF DeliveredPlanIsKnown, InForce
<1>11. DeliveredPlanIsKnown'
  <2>1. CASE Recording /\ UNCHANGED coordinatorVars
    <3>1. PICK now, new, plans : Commits(now, new, plans)
      BY <2>1, RecordingCommits
    <3>2. CASE plan' = plan
      BY <1>10, <3>1, <3>2 DEF Commits
    <3>3. CASE plans = {plan'} /\ plan'.revision = plan.revision + 1
      <4>1. /\ PlanMessage(plan', now) \in outbox' /\ outbox \subseteq outbox'
            /\ PlanMessage(plan', now).kind = "PLAN_REVISED"
            /\ PlanMessage(plan', now).plan = plan'
        BY <3>1, <3>3 DEF Commits, PlanMessage
      <4>2. ASSUME NEW r \in 1 .. plan'.revision,
                   r \notin {m.plan.revision : m \in {n \in outbox' : n.kind = "PLAN_REVISED"}}
            PROVE  InForce(r)'
        <5>1. r # plan'.revision
          BY <4>1, <4>2
        <5>2. r \in 1 .. plan.revision /\ r \in Nat /\ r <= plan.revision
          BY <1>0, <3>3, <5>1
        <5>3. InForce(r)
          BY <1>3, <4>1, <4>2, <5>2
        <5>4. QED
          BY <1>1, <5>2, <5>3
      <4>3. QED
        BY <4>2 DEF DeliveredPlanIsKnown, InForce
    <3>4. QED
      BY <3>1, <3>2, <3>3 DEF Commits
  <2>2. CASE Delivery /\ UNCHANGED coordinatorVars
    <3>1. /\ UNCHANGED plan
          /\ \A m \in outbox \ outbox' : m \in signalled
      BY <2>2, DeliveryMoves
    <3>2. QED
      BY <1>10, <3>1 DEF ToldIsInForce
  <2>3. CASE \E m \in snapshot : SignalCoordinator(m)
    <3>1. UNCHANGED <<plan, outbox>>
      BY <2>3 DEF SignalCoordinator, storeVars
    <3>2. QED
      BY <1>10, <3>1
  <2>4. CASE Tick \/ StartCoordinator \/ Run \/ Pass \/ (\E ok \in BOOLEAN : ChildrenDone(ok))
             \/ BuildEnds
    <3>1. UNCHANGED <<plan, outbox>>
      BY <2>4, PlansAreCarried DEF PlansCarried, storeVars
    <3>2. QED
      BY <1>10, <3>1
  <2>5. QED
    BY <2>1, <2>2, <2>3, <2>4 DEF Next, Coordination
<1>12. QED
  BY <1>8, <1>9, <1>11

-----------------------------------------------------------------------------
(* The theorems.                                                            *)

\* At first only the plan is there, to be delivered.
LEMMA DeliveryInitially == Init => DeliveryInvariant
<1>. SUFFICES ASSUME Init PROVE DeliveryInvariant
  OBVIOUS
<1>1. /\ clock = 0 /\ plan = FirstPlan /\ recorded = {} /\ snapshot = {} /\ signalled = {}
      /\ outbox = {PlanMessage(FirstPlan, 0)}
      /\ pc = "absent" /\ request = NoRequest /\ known = {} /\ pending = {} /\ prestart = {}
      /\ seen = {} /\ consumed = {} /\ judged = {} /\ finished = {}
  BY DEF Init, OutboxInit
<1>2. /\ PlanMessage(FirstPlan, 0).plan = FirstPlan /\ PlanMessage(FirstPlan, 0).trigger = {}
      /\ PlanMessage(FirstPlan, 0).at = 0 /\ PlanMessage(FirstPlan, 0).kind = "PLAN_REVISED"
      /\ NoRequest.plan = {} /\ NoRequest.seen = {}
  BY DEF PlanMessage, NoRequest
<1>3. 0 \in Time /\ FirstPlan \in Plan /\ FirstPlan.revision = 1
  BY TriggerNumbers DEF Time
<1>4. Plans = {FirstPlan} /\ Messages = {PlanMessage(FirstPlan, 0)}
  BY <1>1, <1>2 DEF Plans, Messages
<1>5. PlansAreStored /\ DeliveredFromOutbox
  BY <1>1, <1>2, <1>3, <1>4 DEF PlansAreStored, DeliveredFromOutbox
<1>6. SeenIsHeld /\ NothingVanishes
  BY <1>1, <1>2 DEF SeenIsHeld, NothingVanishes, Ids
<1>7. ToldIsInForce /\ PlanTravelsAhead /\ PlanBeforeItsTrigger
  BY <1>1, <1>2 DEF ToldIsInForce, PlanTravelsAhead, PlanBeforeItsTrigger
<1>8. DeliveredPlanIsKnown
  <2>1. {m.plan.revision : m \in {n \in outbox : n.kind = "PLAN_REVISED"}} = {1}
    BY <1>1, <1>2, <1>3
  <2>2. 1 .. plan.revision = {1}
    BY <1>1, <1>3
  <2>3. QED
    BY <2>1, <2>2 DEF DeliveredPlanIsKnown
<1>9. QED
  BY <1>5, <1>6, <1>7, <1>8 DEF DeliveryInvariant

\* The conjunction is inductive.
LEMMA DeliveryInvariantHolds == Spec => []DeliveryInvariant
<1>1. DeliveryInvariant /\ [Next]_vars => DeliveryInvariant'
  <2>1. DeliveryInvariant /\ UNCHANGED vars => DeliveryInvariant'
    <3>. SUFFICES ASSUME DeliveryInvariant, UNCHANGED vars PROVE DeliveryInvariant'
      OBVIOUS
    <3>1. UNCHANGED <<clock, plan, recorded, outbox, snapshot, signalled, pc, request, judged,
                      known, pending, prestart, seen, consumed, finished>>
      BY DEF vars, storeVars, dispatchVars, coordinatorVars, intakeVars, batchVars, timeVars
    <3>2. QED
      BY <3>1 DEF DeliveryInvariant, PlansAreStored, Plans, Messages, DeliveredFromOutbox,
                  SeenIsHeld, Held, Taken, ToldIsInForce, InForce, PlanTravelsAhead,
                  NothingVanishes, DeliveredPlanIsKnown, PlanBeforeItsTrigger
  <2>2. QED
    BY <2>1, PlansAreStoredStep, NothingVanishesStep, PlanTravelsAheadStep, PlansInForceStep
       DEF DeliveryInvariant
<1>2. QED
  BY <1>1, DeliveryInitially, PTL DEF Spec

\* A committed trigger, and a wakeup that came due, is in the outbox, held by the
\* coordinator, judged, or in a batch that was dispatched or failed, whatever is
\* redelivered and however often the workflow continues as new.
THEOREM TriggersDoNotVanish == Spec => []NothingVanishes
BY DeliveryInvariantHolds, PTL DEF DeliveryInvariant

\* A plan whose delivery was acknowledged stays in force, or a later one does.
THEOREM DeliveredPlansAreKnown == Spec => []DeliveredPlanIsKnown
BY DeliveryInvariantHolds, PTL DEF DeliveryInvariant

\* A coordinator that holds a trigger has the plan revision which emitted it.
THEOREM PlansComeFirst == Spec => []PlanBeforeItsTrigger
BY DeliveryInvariantHolds, PTL DEF DeliveryInvariant

-----------------------------------------------------------------------------
(* What the coordinator makes itself is made once.                          *)

\* A message is an old one or was just committed.
LEMMA MessagesComeFrom ==
    ASSUME PlansAreStored, DeliveredFromOutbox, Next, NEW m \in Messages', m \notin Messages
    PROVE  \E now, new, plans :
              /\ Commits(now, new, plans)
              /\ \/ \E p \in plans : m = PlanMessage(p, now)
                 \/ \E t \in new : m = TriggerMessage(t)
<1>1. CASE Recording /\ UNCHANGED coordinatorVars
  <2>1. PICK now, new, plans : Commits(now, new, plans)
    BY <1>1, RecordingCommits
  <2>2. UNCHANGED <<snapshot, signalled>>
    BY <2>1 DEF Commits, dispatchVars
  <2>3. \/ \E p \in plans : m = PlanMessage(p, now)
        \/ \E t \in new : m = TriggerMessage(t)
    BY <2>1, <2>2 DEF Commits, Messages
  <2>4. QED
    BY <2>1, <2>3
<1>2. CASE Delivery /\ UNCHANGED coordinatorVars
  <2>1. Messages' \subseteq Messages
    BY <1>2, DeliveryMoves DEF Messages, DueMessages
  <2>2. QED
    BY <2>1
<1>3. ASSUME NEW n \in snapshot, SignalCoordinator(n)
      PROVE  FALSE
  BY <1>3, SignalHandsOver DEF Messages, storeVars
<1>4. CASE Tick \/ StartCoordinator \/ Run \/ Pass \/ (\E ok \in BOOLEAN : ChildrenDone(ok))
             \/ BuildEnds
  <2>1. UNCHANGED <<outbox, snapshot, signalled>>
    BY <1>4, PlansAreCarried DEF PlansCarried, storeVars, dispatchVars
  <2>2. QED
    BY <2>1 DEF Messages
<1>5. QED
  BY <1>1, <1>2, <1>3, <1>4 DEF Next, Coordination

\* What is recorded comes from outside, and only what is made by a pass does not.
LEMMA RecordedFromOutsideStep ==
    ASSUME PlansAreStored, DeliveredFromOutbox, SeenIsHeld, RecordedFromOutside, Next
    PROVE  RecordedFromOutside'
<1>0. \A t : (t \in prestart \/ \E m \in Messages : t \in m.trigger)
                => t.id.source \in {"EXTERNAL", "REQUEST"}
  BY DEF RecordedFromOutside
<1>1. ASSUME NEW t \in prestart'
      PROVE  t \in prestart \/ \E m \in Messages : t \in m.trigger
  <2>1. ASSUME NEW m \in snapshot, SignalCoordinator(m)
        PROVE  t \in prestart \/ t \in m.trigger
    BY <2>1 DEF SignalCoordinator, Receive, ReceivePlan, KeepForRun, AcceptTrigger
  <2>2. CASE Run
    BY <1>1, <2>2 DEF Run
  <2>3. CASE Tick \/ ((Recording \/ Delivery) /\ UNCHANGED coordinatorVars)
    BY <1>1, <2>3 DEF Tick, coordinatorVars, intakeVars
  <2>4. CASE StartCoordinator \/ Pass \/ (\E ok \in BOOLEAN : ChildrenDone(ok))
    BY <1>1, <2>4 DEF StartCoordinator, intakeVars, Pass, ChildrenDone
  <2>5. CASE BuildEnds
    BY <1>1, <2>5 DEF BuildEnds, BuildOk, InputUnavailable, BuildFails, BuildRejected, Unchanged
  <2>6. QED
    BY <2>1, <2>2, <2>3, <2>4, <2>5 DEF Next, Coordination, Messages
<1>2. ASSUME NEW m \in Messages', NEW t \in m.trigger
      PROVE  t.id.source \in {"EXTERNAL", "REQUEST"}
  <2>1. CASE m \in Messages
    BY <1>0, <2>1
  <2>2. CASE m \notin Messages
    <3>1. PICK now, new, plans :
            /\ Commits(now, new, plans)
            /\ \/ \E p \in plans : m = PlanMessage(p, now)
               \/ \E u \in new : m = TriggerMessage(u)
      BY <2>2, MessagesComeFrom
    <3>2. t \in new
      BY <3>1 DEF PlanMessage, TriggerMessage
    <3>3. QED
      BY <3>1, <3>2 DEF Commits
  <2>3. QED
    BY <2>1, <2>2
<1>3. QED
  BY <1>0, <1>1, <1>2 DEF RecordedFromOutside

\* A step that is no pass only takes what came from outside into pending, and
\* forgets nothing of the batch, the times and what is finished but as they end.
LEMMA OtherStepsKeep ==
    ASSUME PlansAreStored, DeliveredFromOutbox, SeenIsHeld, RecordedFromOutside, Next, ~Pass
    PROVE  /\ \A i \in Ids(pending') \cup Ids(batch'.members) :
                i \in Ids(pending) \cup Ids(batch.members) \/ i.source \in {"EXTERNAL", "REQUEST"}
           /\ \A t \in pending' \ pending : t.id.source \in {"EXTERNAL", "REQUEST"}
           /\ consumed' = consumed
           /\ finished' \subseteq finished \cup Ids(batch.members)
           /\ clock' = clock \/ (clock' = clock + 1 /\ clock < MaxTime)
<1>0. \A t : (t \in prestart \/ \E m \in Messages : t \in m.trigger)
                => t.id.source \in {"EXTERNAL", "REQUEST"}
  BY DEF RecordedFromOutside
<1>1. ASSUME NEW t \in pending' \ pending
      PROVE  t \in prestart \/ \E m \in Messages : t \in m.trigger
  <2>1. ASSUME NEW m \in snapshot, SignalCoordinator(m)
        PROVE  t \in prestart \/ t \in m.trigger
    BY <2>1, SignalTakes
  <2>2. CASE Run
    BY <1>1, <2>2 DEF Run, Acceptable
  <2>3. CASE Tick \/ ((Recording \/ Delivery) /\ UNCHANGED coordinatorVars)
    BY <1>1, <2>3 DEF Tick, coordinatorVars, intakeVars
  <2>4. CASE StartCoordinator \/ (\E ok \in BOOLEAN : ChildrenDone(ok))
    BY <1>1, <2>4 DEF StartCoordinator, intakeVars, ChildrenDone
  <2>5. CASE BuildEnds
    BY <1>1, <2>5 DEF BuildEnds, BuildOk, InputUnavailable, BuildFails, BuildRejected, Unchanged
  <2>6. QED
    BY <2>1, <2>2, <2>3, <2>4, <2>5 DEF Next, Coordination, Messages
<1>2. /\ batch' = batch \/ batch' = NoBatch
      /\ consumed' = consumed /\ finished' \subseteq finished \cup Ids(batch.members)
      /\ clock' = clock \/ (clock' = clock + 1 /\ clock < MaxTime)
  <2>1. ASSUME NEW m \in snapshot, SignalCoordinator(m)
        PROVE  UNCHANGED <<batch, consumed, finished, clock>>
    BY <2>1 DEF SignalCoordinator, batchVars, timeVars
  <2>2. CASE Run
    BY <2>2 DEF Run, batchVars
  <2>3. CASE Tick
    BY <2>3 DEF Tick, coordinatorVars, batchVars, timeVars
  <2>4. CASE Recording /\ UNCHANGED coordinatorVars
    <3>1. \E now, new, plans : Commits(now, new, plans)
      BY <2>4, RecordingCommits
    <3>2. QED
      BY <2>4, <3>1 DEF Commits, coordinatorVars, batchVars, timeVars
  <2>5. CASE Delivery /\ UNCHANGED coordinatorVars
    BY <2>5, DeliveryMoves DEF coordinatorVars, batchVars, timeVars
  <2>6. CASE StartCoordinator
    BY <2>6 DEF StartCoordinator, batchVars, timeVars
  <2>7. CASE \E ok \in BOOLEAN : ChildrenDone(ok)
    BY <2>7 DEF ChildrenDone
  <2>8. CASE BuildEnds
    BY <2>8 DEF BuildEnds, BuildOk, InputUnavailable, BuildFails, BuildRejected, Unchanged,
                EndFailed
  <2>9. QED
    BY <2>1, <2>2, <2>3, <2>4, <2>5, <2>6, <2>7, <2>8 DEF Next, Coordination
<1>3. \A i \in Ids(batch'.members) : i \in Ids(batch.members)
  BY <1>2 DEF NoBatch, Ids
<1>4. \A t \in pending' \ pending : t.id.source \in {"EXTERNAL", "REQUEST"}
  BY <1>0, <1>1
<1>5. \A i \in Ids(pending') : i \in Ids(pending) \/ i.source \in {"EXTERNAL", "REQUEST"}
  BY <1>4 DEF Ids
<1>6. QED
  BY <1>2, <1>3, <1>4, <1>5

\* A wakeup that is pending, batched or finished has been consumed.
LEMMA WakeupsAreConsumedStep ==
    ASSUME PlansAreStored, DeliveredFromOutbox, SeenIsHeld, RecordedFromOutside,
           WakeupsAreConsumed, Next
    PROVE  WakeupsAreConsumed'
<1>0. \A i : i \in Ids(pending) \cup Ids(batch.members) \cup finished /\ i.source = "WAKEUP"
                => i \in consumed
  BY DEF WakeupsAreConsumed
<1>1. CASE Pass
  <2>1. PICK made : PassMakes(made)
    BY <1>1, PassIsLikeThat
  <2>2. \A t \in made : t.id.source = "WAKEUP" => t.id \in consumed'
    BY <2>1 DEF PassMakes
  <2>3. \A i \in Ids(made) : i.source = "WAKEUP" => i \in consumed'
    BY <2>2 DEF Ids
  <2>4. /\ consumed \subseteq consumed' /\ finished' \subseteq finished \cup Ids(batch.members)
        /\ Ids(batch'.members) \subseteq Ids(batch.members) \cup Ids(pending) \cup Ids(made)
        /\ pending' \subseteq pending \cup made
    BY <2>1 DEF PassMakes
  <2>5. Ids(pending') \subseteq Ids(pending) \cup Ids(made)
    <3>1. pending' \subseteq pending \cup made
      BY <2>4
    <3>2. QED
      BY <3>1, IdsOfPart, IdsOfUnion
  <2>6. QED
    BY <1>0, <2>3, <2>4, <2>5 DEF WakeupsAreConsumed
<1>2. CASE ~Pass
  BY <1>0, <1>2, OtherStepsKeep DEF WakeupsAreConsumed
<1>3. QED
  BY <1>1, <1>2

\* The anchor of a heartbeat is past when it is made, and replaced when its batch
\* ends.
LEMMA BeatsAreBehindStep ==
    ASSUME PlansAreStored, DeliveredFromOutbox, SeenIsHeld, RecordedFromOutside,
           BeatsAreBehind, Next
    PROVE  BeatsAreBehind'
<1>0. /\ last \in Time \cup {Never} /\ started \in Time \cup {Never}
      /\ last # Never => last <= clock
      /\ started # Never => started <= clock
      /\ pc \in {"loop", "waiting", "building", "running"} => last # Never \/ started # Never
      /\ \A i \in Ids(pending) \cup Ids(batch.members) :
           i.source = "HEARTBEAT" => i.at \in Int /\ i.at < clock
      /\ \A i \in finished : i.source = "HEARTBEAT" =>
           /\ i.at \in Int /\ i.at < clock
           /\ pc # "running" => last # Never /\ i.at < last
      /\ clock \in Time
  BY DEF BeatsAreBehind, PlansAreStored
<1>1. clock \in Nat /\ Never = -1 /\ MaxTime \in Nat /\ Time \subseteq Nat /\ Never \notin Time
  BY <1>0, TriggerNumbers DEF Never, Time
<1>2. ASSUME clock' \in Time, clock <= clock',
             \A i \in Ids(pending') \cup Ids(batch'.members) :
                 i.source = "HEARTBEAT" => i \in Ids(pending) \cup Ids(batch.members)
                                              \/ (i.at \in Int /\ i.at < clock),
             finished' \subseteq finished \cup Ids(batch.members),
             \/ /\ UNCHANGED <<last, started>> /\ finished' = finished
                /\ pc' \in {"loop", "waiting", "building", "running"} =>
                       pc \in {"loop", "waiting", "building", "running"}
                /\ pc' # "running" => pc # "running"
             \/ /\ UNCHANGED <<last, started>> /\ pc = "building" /\ pc' = "running"
             \/ last' = clock /\ clock' = clock /\ started' = Never
             \/ /\ UNCHANGED <<last, finished, clock>> /\ pc = "starting" /\ pc' = "loop"
                /\ started' = IF last = Never THEN clock ELSE Never
      PROVE  BeatsAreBehind'
  <2>1. \A i \in Ids(pending') \cup Ids(batch'.members) :
           i.source = "HEARTBEAT" => i.at \in Int /\ i.at < clock'
    BY <1>0, <1>1, <1>2
  <2>2. \A i \in finished' : i.source = "HEARTBEAT" => i.at \in Int /\ i.at < clock /\ i.at < clock'
    BY <1>0, <1>1, <1>2
  <2>3. /\ last' \in Time \cup {Never} /\ started' \in Time \cup {Never}
        /\ last' # Never => last' <= clock'
        /\ started' # Never => started' <= clock'
        /\ pc' \in {"loop", "waiting", "building", "running"} => last' # Never \/ started' # Never
    BY <1>0, <1>1, <1>2
  <2>4. \A i \in finished' : i.source = "HEARTBEAT" /\ pc' # "running" =>
            last' # Never /\ i.at < last'
    BY <1>0, <1>1, <1>2, <2>2
  <2>5. QED
    BY <2>1, <2>2, <2>3, <2>4 DEF BeatsAreBehind
<1>3. CASE Pass
  <2>1. PICK made : PassMakes(made)
    BY <1>3, PassIsLikeThat
  <2>2. /\ clock' = clock /\ finished' \subseteq finished \cup Ids(batch.members)
        /\ Ids(batch'.members) \subseteq Ids(batch.members) \cup Ids(pending) \cup Ids(made)
        /\ pending' \subseteq pending \cup made
        /\ pc \in {"loop", "waiting"} /\ pc' \in {"loop", "waiting", "building"}
        /\ \/ UNCHANGED <<last, started, finished>>
           \/ last' = clock /\ started' = Never
    BY <2>1 DEF PassMakes
  <2>3. PICK p \in known : \A t \in made : t.id.source = "HEARTBEAT" =>
           t.id.at = Anchor(p) /\ p.heartbeat # 0 /\ clock >= Anchor(p) + p.heartbeat
    BY <2>1 DEF PassMakes
  <2>4. p.heartbeat \in Nat
    BY TriggerNumbers DEF PlansAreStored, Plans
  <2>5. Anchor(p) \in Int
    BY <1>0, <1>1, <2>4 DEF Anchor
  <2>6. \A t \in made : t.id.source = "HEARTBEAT" => t.id.at \in Int /\ t.id.at < clock
    <3>1. SUFFICES ASSUME NEW t \in made, t.id.source = "HEARTBEAT"
                   PROVE  t.id.at \in Int /\ t.id.at < clock
      OBVIOUS
    <3>2. PICK a : a = Anchor(p)
      OBVIOUS
    <3>3. t.id.at = a /\ p.heartbeat # 0 /\ clock >= a + p.heartbeat /\ a \in Int
      BY <2>3, <2>5, <3>1, <3>2
    <3>4. QED
      BY <1>1, <2>4, <3>3
  <2>7. \A i \in Ids(made) : i.source = "HEARTBEAT" => i.at \in Int /\ i.at < clock
    BY <2>6 DEF Ids
  <2>8. Ids(pending') \subseteq Ids(pending) \cup Ids(made)
    BY <2>2, IdsOfPart, IdsOfUnion
  <2>9. clock' \in Time /\ clock <= clock'
    BY <1>0, <1>1, <2>2
  <2>10. QED
    BY <1>2, <2>2, <2>7, <2>8, <2>9
<1>4. CASE ~Pass
  <2>1. /\ \A i \in Ids(pending') \cup Ids(batch'.members) :
             i.source = "HEARTBEAT" => i \in Ids(pending) \cup Ids(batch.members)
        /\ finished' \subseteq finished \cup Ids(batch.members)
        /\ clock' = clock \/ (clock' = clock + 1 /\ clock < MaxTime)
    BY <1>4, OtherStepsKeep
  <2>2. clock' \in Time /\ clock <= clock'
    BY <1>0, <1>1, <2>1 DEF Time
  <2>3. CASE \/ Tick \/ StartCoordinator \/ (\E m \in snapshot : SignalCoordinator(m))
             \/ ((Recording \/ Delivery) /\ UNCHANGED coordinatorVars)
             \/ InputUnavailable \/ BuildFails
    <3>1. /\ UNCHANGED <<last, started, finished>>
          /\ pc' \in {"loop", "waiting", "building", "running"} =>
                 pc \in {"loop", "waiting", "building", "running"}
          /\ pc' # "running" => pc # "running"
      BY <2>3 DEF Tick, StartCoordinator, SignalCoordinator, InputUnavailable, BuildFails,
                  coordinatorVars, batchVars, timeVars
    <3>2. QED
      BY <1>2, <2>1, <2>2, <3>1
  <2>4. CASE Run
    <3>1. /\ UNCHANGED <<last, finished, clock>> /\ pc = "starting" /\ pc' = "loop"
          /\ started' = IF last = Never THEN clock ELSE Never
      BY <2>4 DEF Run, batchVars
    <3>2. QED
      BY <1>2, <2>1, <2>2, <3>1
  <2>5. CASE BuildOk
    <3>1. UNCHANGED <<last, started>> /\ pc = "building" /\ pc' = "running"
      BY <2>5 DEF BuildOk
    <3>2. QED
      BY <1>2, <2>1, <2>2, <3>1
  <2>6. CASE BuildRejected \/ \E ok \in BOOLEAN : ChildrenDone(ok)
    <3>1. last' = clock /\ started' = Never /\ clock' = clock
      BY <2>6 DEF BuildRejected, EndFailed, ChildrenDone, Unchanged
    <3>2. QED
      BY <1>2, <2>1, <2>2, <3>1
  <2>7. QED
    BY <1>4, <2>3, <2>4, <2>5, <2>6 DEF Next, Coordination, BuildEnds
<1>5. QED
  BY <1>3, <1>4

-----------------------------------------------------------------------------
\* What is made once stays so.
LEMMA OnceInvariantHolds == Spec => [](DeliveryInvariant /\ OnceInvariant)
<1>1. Init => OnceInvariant
  <2>. SUFFICES ASSUME Init PROVE OnceInvariant
    OBVIOUS
  <2>1. DeliveryInvariant
    BY DeliveryInitially
  <2>2. /\ clock = 0 /\ snapshot = {} /\ signalled = {} /\ outbox = {PlanMessage(FirstPlan, 0)}
        /\ pending = {} /\ prestart = {} /\ batch = NoBatch /\ finished = {} /\ pc = "absent"
        /\ last = Never /\ started = Never
    BY DEF Init, OutboxInit
  <2>3. Messages = {PlanMessage(FirstPlan, 0)} /\ PlanMessage(FirstPlan, 0).trigger = {}
    BY <2>2 DEF Messages, PlanMessage
  <2>4. batch.members = {}
    BY <2>2 DEF NoBatch
  <2>5. RecordedFromOutside
    BY <2>2, <2>3 DEF RecordedFromOutside
  <2>6. WakeupsAreConsumed /\ BeatsAreBehind
    BY <2>2, <2>4 DEF WakeupsAreConsumed, BeatsAreBehind, Ids
  <2>7. QED
    BY <2>1, <2>5, <2>6 DEF OnceInvariant, DeliveryInvariant
<1>2. DeliveryInvariant /\ OnceInvariant /\ [Next]_vars => OnceInvariant'
  <2>1. OnceInvariant /\ UNCHANGED vars => OnceInvariant'
    <3>. SUFFICES ASSUME OnceInvariant, UNCHANGED vars PROVE OnceInvariant'
      OBVIOUS
    <3>1. UNCHANGED <<clock, plan, outbox, snapshot, signalled, pc, request, known, pending,
                      prestart, consumed, finished, batch, last, started>>
      BY DEF vars, storeVars, dispatchVars, coordinatorVars, intakeVars, batchVars, timeVars
    <3>2. QED
      BY <3>1 DEF OnceInvariant, PlansAreStored, Plans, Messages, DeliveredFromOutbox,
                  RecordedFromOutside, WakeupsAreConsumed, BeatsAreBehind, Ids
  <2>2. QED
    BY <2>1, PlansAreStoredStep, RecordedFromOutsideStep, WakeupsAreConsumedStep,
       BeatsAreBehindStep DEF DeliveryInvariant, OnceInvariant
<1>3. QED
  BY <1>1, <1>2, DeliveryInvariantHolds, PTL DEF Spec

\* A heartbeat or wakeup whose batch was dispatched or failed is not made again: not
\* from the old anchor, not after a new execution, not in a loop of failures.
THEOREM InternalsAreMadeOnce == Spec => InternalOnce
<1>1. DeliveryInvariant /\ OnceInvariant /\ [Next]_vars =>
          [\A t \in pending' \ pending :
              t.id.source \in {"HEARTBEAT", "WAKEUP"} => t.id \notin finished]_vars
  <2>1. SUFFICES ASSUME DeliveryInvariant, OnceInvariant, Next, NEW t \in pending' \ pending,
                        t.id.source \in {"HEARTBEAT", "WAKEUP"}
                 PROVE  t.id \notin finished
    OBVIOUS
  <2>2. PlansAreStored /\ DeliveredFromOutbox /\ SeenIsHeld /\ RecordedFromOutside
        /\ WakeupsAreConsumed /\ BeatsAreBehind
    BY <2>1 DEF DeliveryInvariant, OnceInvariant
  <2>3. Pass
    BY <2>1, <2>2, OtherStepsKeep
  <2>4. PICK made : PassMakes(made)
    BY <2>2, <2>3, PassIsLikeThat
  <2>5. t \in made
    BY <2>1, <2>4 DEF PassMakes
  <2>6. PICK p \in known :
          \/ t.id.source = "WAKEUP" /\ t.id \notin consumed
          \/ t.id.source = "HEARTBEAT" /\ t.id.at = Anchor(p)
    BY <2>4, <2>5 DEF PassMakes
  <2>7. CASE t.id.source = "WAKEUP"
    BY <2>2, <2>6, <2>7 DEF WakeupsAreConsumed
  <2>8. CASE t.id.source = "HEARTBEAT"
    <3>1. SUFFICES ASSUME t.id \in finished PROVE FALSE
      OBVIOUS
    <3>2. pc # "running"
      BY <2>4 DEF PassMakes
    <3>3. last # Never /\ t.id.at \in Int /\ t.id.at < last
      BY <2>2, <2>8, <3>1, <3>2 DEF BeatsAreBehind
    <3>4. t.id.at = last
      BY <2>6, <2>8, <3>3 DEF Anchor
    <3>5. QED
      BY <3>3, <3>4
  <2>9. QED
    BY <2>1, <2>7, <2>8
<1>2. QED
  BY <1>1, OnceInvariantHolds, PTL DEF Spec, InternalOnce

-----------------------------------------------------------------------------
(* Cooldowns.                                                               *)

\* What a step builds later, it builds a number of minutes later.
LEMMA RetriesAreTimed ==
    ASSUME clock \in Nat, retryAt \in Nat \cup {Never}, Next
    PROVE  retryAt' \in Nat \cup {Never}
<1>1. CASE Pass
  BY <1>1 DEF Pass, RetryFrozen, FormBatch, EndFailed, Wait, Build, batchVars
<1>2. CASE InputUnavailable \/ BuildFails
  <2>1. RetryMaximum \in Nat /\ Deferrals \subseteq Nat
    BY CoordinatorAssumption
  <2>2. QED
    BY <1>2, <2>1 DEF InputUnavailable, BuildFails
<1>3. CASE BuildOk \/ BuildRejected
  BY <1>3 DEF BuildOk, BuildRejected, EndFailed
<1>4. CASE Run \/ StartCoordinator \/ \E ok \in BOOLEAN : ChildrenDone(ok)
  BY <1>4 DEF Run, StartCoordinator, ChildrenDone, batchVars
<1>5. CASE (\E m \in snapshot : SignalCoordinator(m)) \/ Tick
             \/ ((Recording \/ Delivery) /\ UNCHANGED coordinatorVars)
  BY <1>5 DEF SignalCoordinator, Tick, coordinatorVars, batchVars
<1>6. QED
  BY <1>1, <1>2, <1>3, <1>4, <1>5 DEF Next, Coordination, BuildEnds

\* A trigger has its priority and times when it is recorded or made.
LEMMA TriggersAreTimedStep ==
    ASSUME PlansAreStored, DeliveredFromOutbox, SeenIsHeld, TriggersAreTimed, Next
    PROVE  TriggersAreTimed'
<1>0. /\ \A t : (t \in pending \cup prestart \/ \E m \in Messages : t \in m.trigger) => Timed(t)
      /\ retryAt \in Nat \cup {Never}
  BY DEF TriggersAreTimed
<1>1. ASSUME NEW t \in pending' \cup prestart' PROVE Timed(t)
  <2>1. CASE t \in pending \cup prestart
    BY <1>0, <2>1
  <2>2. CASE t \notin pending \cup prestart
    <3>1. \/ \E m \in snapshot : t \in m.trigger
          \/ Timed(t)
      BY <1>1, <2>2, TriggersComeFrom
    <3>2. QED
      BY <1>0, <3>1 DEF Messages
  <2>3. QED
    BY <2>1, <2>2
<1>2. ASSUME NEW m \in Messages', NEW t \in m.trigger PROVE Timed(t)
  <2>1. CASE m \in Messages
    BY <1>0, <2>1
  <2>2. CASE m \notin Messages
    <3>1. PICK now, new, plans :
            /\ Commits(now, new, plans)
            /\ \/ \E p \in plans : m = PlanMessage(p, now)
               \/ \E u \in new : m = TriggerMessage(u)
      BY <2>2, MessagesComeFrom
    <3>2. t \in new
      BY <3>1 DEF PlanMessage, TriggerMessage
    <3>3. QED
      BY <3>1, <3>2 DEF Commits
  <2>3. QED
    BY <2>1, <2>2
<1>3. retryAt' \in Nat \cup {Never}
  <2>1. clock \in Nat
    BY TriggerNumbers DEF PlansAreStored
  <2>2. QED
    BY <1>0, <2>1, RetriesAreTimed
<1>4. QED
  BY <1>1, <1>2, <1>3 DEF TriggersAreTimed, Timed

\* A plan of the next revision is the only one of it.
LEMMA OnePlanIsKnownStep ==
    ASSUME PlansAreStored, DeliveredFromOutbox, OnePlanIsKnown, Next
    PROVE  OnePlanIsKnown'
<1>0. /\ \A p, q \in Plans \cup {FirstPlan} : p.revision = q.revision => p = q
      /\ \A p, q \in known : p = q
      /\ \A p \in Plans : p \in Plan /\ p.revision \in Nat /\ p.revision >= 1
                          /\ p.revision <= plan.revision
      /\ plan \in Plans /\ FirstPlan.revision = 1
  BY TriggerNumbers DEF OnePlanIsKnown, PlansAreStored, Plans
<1>1. ASSUME NEW p \in Plans', p \notin Plans \cup {FirstPlan}
      PROVE  p = plan' /\ p.revision = plan.revision + 1 /\ UNCHANGED <<known, request>>
  <2>1. CASE p \in {m.plan : m \in Messages'}
    <3>1. PICK m \in Messages' : p = m.plan
      BY <2>1
    <3>2. m \notin Messages
      BY <1>1, <3>1 DEF Plans
    <3>3. PICK now, new, plans :
            /\ Commits(now, new, plans)
            /\ \/ \E q \in plans : m = PlanMessage(q, now)
               \/ \E t \in new : m = TriggerMessage(t)
      BY <3>2, MessagesComeFrom
    <3>4. p \in plans
      BY <1>1, <3>1, <3>3 DEF PlanMessage, TriggerMessage
    <3>5. QED
      BY <3>3, <3>4 DEF Commits, coordinatorVars, intakeVars
  <2>2. CASE p \in {plan'} \cup known' \cup request'.plan
    <3>1. CASE Recording /\ UNCHANGED coordinatorVars
      <4>1. PICK now, new, plans : Commits(now, new, plans)
        BY <3>1, RecordingCommits
      <4>2. UNCHANGED <<known, request>>
        BY <3>1 DEF coordinatorVars, intakeVars
      <4>3. p = plan' /\ p # plan
        BY <1>1, <2>2, <4>2 DEF Plans
      <4>4. QED
        BY <4>1, <4>2, <4>3 DEF Commits
    <3>2. CASE Delivery /\ UNCHANGED coordinatorVars
      <4>1. UNCHANGED <<known, request, plan>>
        BY <3>2, DeliveryMoves DEF coordinatorVars, intakeVars
      <4>2. QED
        BY <1>1, <2>2, <4>1 DEF Plans
    <3>3. ASSUME NEW n \in snapshot, SignalCoordinator(n)
          PROVE  FALSE
      <4>1. plan' = plan /\ request' = request /\ known' \subseteq known \cup {n.plan}
        BY <3>3, SignalHandsOver DEF storeVars
      <4>2. QED
        BY <1>1, <2>2, <4>1 DEF Plans, Messages
    <3>4. CASE Tick \/ StartCoordinator \/ Run \/ Pass \/ (\E ok \in BOOLEAN : ChildrenDone(ok))
                 \/ BuildEnds
      <4>1. plan' = plan /\ known' \cup request'.plan \subseteq known \cup request.plan \cup {plan}
        BY <3>4, PlansAreCarried DEF PlansCarried, storeVars
      <4>2. QED
        BY <1>1, <2>2, <4>1 DEF Plans
    <3>5. QED
      BY <3>1, <3>2, <3>3, <3>4 DEF Next, Coordination
  <2>3. QED
    BY <1>1, <2>1, <2>2 DEF Plans
<1>2. \A p, q \in Plans' \cup {FirstPlan} : p.revision = q.revision => p = q
  <2>1. SUFFICES ASSUME NEW p \in Plans' \cup {FirstPlan}, NEW q \in Plans' \cup {FirstPlan},
                        p.revision = q.revision
                 PROVE  p = q
    OBVIOUS
  <2>2. \A o \in Plans \cup {FirstPlan} : o.revision \in Nat /\ o.revision <= plan.revision
    BY <1>0
  <2>3. plan.revision \in Nat
    BY <1>0
  <2>4. CASE p \in Plans \cup {FirstPlan}
    BY <1>0, <1>1, <2>1, <2>2, <2>3, <2>4
  <2>5. CASE p \notin Plans \cup {FirstPlan}
    BY <1>0, <1>1, <2>1, <2>2, <2>3, <2>5
  <2>6. QED
    BY <2>4, <2>5
<1>3. \A p, q \in known' : p = q
  <2>1. CASE UNCHANGED known
    BY <1>0, <2>1
  <2>2. CASE Run
    <3>1. SUFFICES ASSUME NEW p \in LaterPlan(known), NEW q \in LaterPlan(known) PROVE p = q
      BY <2>2 DEF Run
    <3>2. /\ p \in request.plan \cup known /\ q \in request.plan \cup known
          /\ p.revision <= q.revision /\ q.revision <= p.revision
      BY DEF LaterPlan
    <3>3. p \in Plans /\ q \in Plans
      BY <3>2 DEF Plans
    <3>4. p.revision \in Nat /\ q.revision \in Nat
      BY <1>0, <3>3
    <3>5. p.revision = q.revision
      BY <3>2, <3>4
    <3>6. QED
      BY <1>0, <3>3, <3>5
  <2>3. ASSUME NEW m \in snapshot, SignalCoordinator(m), known' # known
        PROVE  known' = {m.plan}
    BY <2>3 DEF SignalCoordinator, Receive, ReceivePlan, KeepForRun, AcceptTrigger
  <2>4. CASE \E ok \in BOOLEAN : ChildrenDone(ok)
    BY <1>0, <2>4 DEF ChildrenDone, ContinueAsNew
  <2>5. CASE Tick \/ StartCoordinator \/ Pass
               \/ ((Recording \/ Delivery) /\ UNCHANGED coordinatorVars)
    BY <2>1, <2>5 DEF Tick, StartCoordinator, Pass, coordinatorVars, intakeVars
  <2>6. CASE BuildEnds
    BY <2>1, <2>6 DEF BuildEnds, BuildOk, InputUnavailable, BuildFails, BuildRejected, Unchanged
  <2>7. QED
    BY <2>1, <2>2, <2>3, <2>4, <2>5, <2>6 DEF Next, Coordination
<1>4. QED
  BY <1>2, <1>3 DEF OnePlanIsKnown

\* Whoever is known and waits is timed, in every reachable state.
LEMMA CooldownInvariantHolds == Spec => []CooldownInvariant
<1>1. Init => TriggersAreTimed /\ OnePlanIsKnown
  <2>. SUFFICES ASSUME Init PROVE TriggersAreTimed /\ OnePlanIsKnown
    OBVIOUS
  <2>1. /\ plan = FirstPlan /\ snapshot = {} /\ signalled = {}
        /\ outbox = {PlanMessage(FirstPlan, 0)}
        /\ pending = {} /\ prestart = {} /\ known = {} /\ request.plan = {} /\ retryAt = Never
    BY DEF Init, OutboxInit, NoRequest
  <2>2. /\ Messages = {PlanMessage(FirstPlan, 0)}
        /\ PlanMessage(FirstPlan, 0).trigger = {} /\ PlanMessage(FirstPlan, 0).plan = FirstPlan
    BY <2>1 DEF Messages, PlanMessage
  <2>3. Plans = {FirstPlan}
    BY <2>1, <2>2 DEF Plans
  <2>4. QED
    BY <2>1, <2>2, <2>3 DEF TriggersAreTimed, OnePlanIsKnown
<1>2. CooldownInvariant /\ [Next]_vars => (TriggersAreTimed /\ OnePlanIsKnown)'
  <2>1. CooldownInvariant /\ UNCHANGED vars => (TriggersAreTimed /\ OnePlanIsKnown)'
    <3>. SUFFICES ASSUME CooldownInvariant, UNCHANGED vars
                  PROVE  (TriggersAreTimed /\ OnePlanIsKnown)'
      OBVIOUS
    <3>1. UNCHANGED <<plan, outbox, snapshot, signalled, request, known, pending, prestart, retryAt>>
      BY DEF vars, storeVars, dispatchVars, coordinatorVars, intakeVars, batchVars
    <3>2. QED
      BY <3>1 DEF CooldownInvariant, TriggersAreTimed, OnePlanIsKnown, Messages, Plans, Timed
  <2>2. QED
    BY <2>1, TriggersAreTimedStep, OnePlanIsKnownStep DEF CooldownInvariant, DeliveryInvariant
<1>3. QED
  BY <1>1, <1>2, OnceInvariantHolds, PTL DEF Spec, CooldownInvariant

\* What a rule asks for is no more than the longest window.
LEMMA RuleValues ==
    ASSUME NEW p \in Plan, NEW t, NEW field \in {"coalesce", "cooldown"}
    PROVE  RuleValue(p, t, field) \in 0 .. LongestWindow
<1>1. PICK matches : matches = MatchingRules(p, t)
  OBVIOUS
<1>2. \A r \in matches : /\ r.minimum \in 0 .. Immediate
                         /\ {r.coalesce, r.cooldown} \subseteq 0 .. LongestWindow
  BY <1>1, PlansAssumption DEF MatchingRules, Plan
<1>3. \A r \in matches : r[field] \in 0 .. LongestWindow
  <2>1. CASE field = "coalesce"
    BY <1>2, <2>1
  <2>2. CASE field = "cooldown"
    BY <1>2, <2>2
  <2>3. QED
    BY <2>1, <2>2
<1>4. CASE matches = {}
  BY <1>1, <1>4 DEF RuleValue, LongestWindow
<1>5. CASE matches # {}
  <2>1. PICK minimums : minimums = {r.minimum : r \in matches}
    OBVIOUS
  <2>2. minimums \in SUBSET (0 .. Immediate) /\ minimums # {} /\ Immediate \in Nat
    BY <1>2, <1>5, <2>1 DEF Immediate
  <2>3. PICK n \in minimums : \A m \in minimums : n >= m
    BY <2>2, GreatestNat
  <2>4. PICK r \in matches : n = r.minimum
    BY <2>1
  <2>5. \A s \in matches : s.minimum <= r.minimum
    BY <1>2, <2>1, <2>3, <2>4
  <2>6. PICK c : c = CHOOSE q \in matches : \A s \in matches : s.minimum <= q.minimum
    OBVIOUS
  <2>7. c \in matches
    BY <2>5, <2>6
  <2>8. RuleValue(p, t, field) = c[field]
    BY <1>1, <1>5, <2>6 DEF RuleValue
  <2>9. QED
    BY <1>3, <2>7, <2>8
<1>6. QED
  BY <1>4, <1>5

\* Ordinary triggers are not batched before the longest of their cooldowns, counted
\* from the last batch, is over.
LEMMA ReconsiderKeepsCooldown ==
    ASSUME NEW p \in Plan, NEW E, E # {}, \A t \in E : Timed(t), NEW at \in Nat,
           \A t \in E : t.expires = Never \/ t.expires > at,
           NEW l \in Nat, NEW r \in Nat \cup {Never}, HeadPriority(E) < Immediate
    PROVE  /\ ReconsiderAt(p, E, at, l, r) \in Nat
           /\ ReconsiderAt(p, E, at, l, r) <= at =>
                  \A t \in E : at >= l + RuleValue(p, t, "cooldown")
<1>0. LongestWindow \in Nat /\ Never = -1 /\ 0 .. LongestWindow \subseteq Nat
  BY DEF LongestWindow, Never
<1>1. PICK L \in Nat : L = Max({RuleValue(p, t, "coalesce") : t \in E})
  <2>1. PICK S : S = {RuleValue(p, t, "coalesce") : t \in E}
    OBVIOUS
  <2>2. S \in SUBSET (0 .. LongestWindow) /\ S # {}
    BY <2>1, RuleValues
  <2>3. Max(S) \in S
    BY <1>0, <2>2, MaxMin
  <2>4. Max(S) \in Nat
    BY <1>0, <2>2, <2>3
  <2>5. QED
    BY <2>1, <2>4
<1>2. PICK C \in Nat : /\ C = Max({RuleValue(p, t, "cooldown") : t \in E})
                       /\ \A t \in E : RuleValue(p, t, "cooldown") \in Nat
                                       /\ RuleValue(p, t, "cooldown") <= C
  <2>1. PICK S : S = {RuleValue(p, t, "cooldown") : t \in E}
    OBVIOUS
  <2>2. S \in SUBSET (0 .. LongestWindow) /\ S # {}
    BY <2>1, RuleValues
  <2>3. Max(S) \in S /\ \A n \in S : n <= Max(S)
    BY <1>0, <2>2, MaxMin
  <2>4. Max(S) \in Nat /\ \A n \in S : n \in Nat
    BY <1>0, <2>2, <2>3
  <2>5. \A t \in E : RuleValue(p, t, "cooldown") \in S
    BY <2>1
  <2>6. \A t \in E : RuleValue(p, t, "cooldown") \in Nat /\ RuleValue(p, t, "cooldown") <= Max(S)
    BY <2>3, <2>4, <2>5
  <2>7. QED
    BY <2>1, <2>4, <2>6
<1>3. PICK o \in Nat : o = Min({t.observed : t \in E})
  <2>1. PICK S : S = {t.observed : t \in E}
    OBVIOUS
  <2>2. S \in SUBSET Nat /\ S # {}
    BY <2>1 DEF Timed
  <2>3. \E m \in S : \A n \in S : m <= n
    BY <2>2, LeastNat
  <2>4. Min(S) \in S
    BY <2>3 DEF Min
  <2>5. QED
    BY <2>1, <2>2, <2>4
<1>4. PICK e \in Nat : e = Max({at, r} \cup {o + L, l + C}) /\ l + C <= e
  <2>1. PICK S : S = {at, r} \cup {o + L, l + C}
    OBVIOUS
  <2>2. \E m \in S : \A n \in S : m >= n
    <3>1. at \in Int /\ r \in Int /\ o + L \in Int /\ l + C \in Int
      BY <1>0
    <3>2. QED
      BY <2>1, <3>1
  <2>3. Max(S) \in S /\ \A n \in S : Max(S) >= n
    BY <2>2 DEF Max
  <2>4. Max(S) \in Int /\ Max(S) >= at /\ Max(S) >= l + C
    <3>1. at \in Int /\ r \in Int /\ o + L \in Int /\ l + C \in Int
      BY <1>0
    <3>2. S \subseteq Int /\ at \in S /\ l + C \in S
      BY <2>1, <3>1
    <3>3. QED
      BY <2>3, <3>2
  <2>5. QED
    BY <2>1, <2>4
<1>5. PICK X \in SUBSET Nat : /\ X = {t.expires : t \in E} \ {Never}
                              /\ \A n \in X : n > at
  <2>1. PICK S : S = {t.expires : t \in E} \ {Never}
    OBVIOUS
  <2>2. \A n \in S : n \in Nat /\ n > at
    BY <2>1 DEF Timed
  <2>3. S \in SUBSET Nat
    BY <2>2
  <2>4. QED
    BY <2>1, <2>2, <2>3
<1>6. PICK m \in {e} \cup X : m = Min({e} \cup X)
  <2>1. {e} \cup X \in SUBSET Nat /\ {e} \cup X # {}
    OBVIOUS
  <2>2. \E n \in {e} \cup X : \A k \in {e} \cup X : n <= k
    BY <2>1, LeastNat
  <2>3. Min({e} \cup X) \in {e} \cup X
    BY <2>2 DEF Min
  <2>4. QED
    BY <2>3
<1>7. PICK a \in Nat : a = Max({at, m}) /\ m <= a
  <2>1. at \in Nat /\ m \in Nat
    OBVIOUS
  <2>2. \E n \in {at, m} : \A k \in {at, m} : n >= k
    BY <2>1
  <2>3. Max({at, m}) \in {at, m} /\ \A k \in {at, m} : Max({at, m}) >= k
    BY <2>2 DEF Max
  <2>4. QED
    BY <2>1, <2>3
<1>8. ReconsiderAt(p, E, at, l, r) = a
  <2>1. l # Never
    BY <1>0
  <2>2. QED
    BY <1>1, <1>2, <1>3, <1>4, <1>5, <1>6, <1>7, <2>1 DEF ReconsiderAt
<1>9. ASSUME a <= at PROVE l + C <= at
  BY <1>4, <1>5, <1>7, <1>9
<1>10. QED
  BY <1>2, <1>8, <1>9

\* Ordinary events keep the cooldown of their rule, counted from the end of the last
\* batch of any kind: an immediate trigger never takes them along
\* (scheduling/models.py, ReconsiderAt and Exclusive).
THEOREM CooldownsAreKept == Spec => OrdinaryKeepsCooldown
<1>1. CooldownInvariant /\ [Next]_vars =>
          [pc' = "building" /\ batch' # batch =>
              \A t \in batch'.members, p \in known :
                  t.kind = "EVENT" /\ t.priority < Immediate /\ last # Never =>
                      clock >= last + RuleValue(p, t, "cooldown")]_vars
  <2>1. SUFFICES ASSUME CooldownInvariant, Next, pc' = "building", batch' # batch,
                        NEW t \in batch'.members, NEW p \in known,
                        t.priority < Immediate, last # Never
                 PROVE  clock >= last + RuleValue(p, t, "cooldown")
    OBVIOUS
  <2>2. /\ clock \in Nat /\ p \in Plan /\ last \in Nat /\ retryAt \in Nat \cup {Never}
        /\ \A q \in known : q = p
        /\ PlansAreStored /\ \A u \in pending : Timed(u)
    <3>1. PlansAreStored /\ BeatsAreBehind /\ TriggersAreTimed /\ OnePlanIsKnown
      BY <2>1 DEF CooldownInvariant, OnceInvariant
    <3>2. last \in Nat
      BY <2>1, <3>1, TriggerNumbers DEF BeatsAreBehind
    <3>3. QED
      BY <3>1, <3>2, TriggerNumbers DEF TriggersAreTimed, OnePlanIsKnown, PlansAreStored, Plans
  <2>3. Pass
    <3>1. CASE Tick \/ StartCoordinator \/ ((Recording \/ Delivery) /\ UNCHANGED coordinatorVars)
               \/ \E m \in snapshot : SignalCoordinator(m)
      BY <2>1, <3>1 DEF Tick, StartCoordinator, SignalCoordinator, coordinatorVars, batchVars
    <3>2. CASE Run \/ BuildEnds \/ \E ok \in BOOLEAN : ChildrenDone(ok)
      BY <2>1, <3>2 DEF Run, BuildEnds, BuildOk, InputUnavailable, BuildFails, BuildRejected,
                        ChildrenDone, ContinueAsNew
    <3>3. QED
      BY <2>1, <3>1, <3>2 DEF Next, Coordination
  <2>4. PICK made : PassMakes(made)
    BY <2>2, <2>3, PassIsLikeThat
  <2>5. PICK kept, live : /\ kept \in Firsts(Enqueued(p), MaxPending)
                          /\ live = Unexpired(kept)
                          /\ RetryFrozen(live) \/ FormBatch(p, live)
    BY <2>2, <2>3 DEF Pass
  <2>6. FormBatch(p, live)
    BY <2>1, <2>5 DEF RetryFrozen, Wait, Build
  <2>7. PICK eligible, at : /\ eligible = Eligible(p, live)
                            /\ at = ReconsiderAt(p, eligible, clock, last, retryAt)
    OBVIOUS
  <2>8. /\ ~frozen /\ pending' = live /\ eligible # {} /\ ~(at > clock)
        /\ \E members \in Selections(eligible, BatchSize) :
               Build(NewBatch(p, members, clock, Patience))
    BY <2>1, <2>6, <2>7 DEF FormBatch, Wait
  <2>9. t \in Exclusive(eligible)
    BY <2>1, <2>8 DEF Build, NewBatch, Selections, Firsts, kSubset
  <2>10. \A u \in eligible : Timed(u) /\ (u.expires = Never \/ u.expires > clock)
    <3>1. SUFFICES ASSUME NEW u \in eligible
                   PROVE  Timed(u) /\ (u.expires = Never \/ u.expires > clock)
      OBVIOUS
    <3>2. u \in pending' /\ ~Expired(u, clock)
      BY <2>5, <2>7, <2>8 DEF Eligible, Unexpired
    <3>3. Timed(u)
      BY <2>2, <2>4, <3>2 DEF PassMakes
    <3>4. QED
      BY <2>2, <3>2, <3>3 DEF Expired, Timed
  <2>11. HeadPriority(eligible) < Immediate
    <3>1. PICK S : S = {u.priority : u \in eligible}
      OBVIOUS
    <3>2. S \in SUBSET (0 .. Immediate) /\ S # {} /\ Immediate \in Nat
      BY <2>8, <2>10, <3>1 DEF Timed, Immediate
    <3>3. Max(S) \in 0 .. Immediate
      BY <3>2, MaxMin
    <3>4. Max(S) # Immediate
      BY <2>1, <2>9, <3>1, <3>2 DEF Exclusive, HeadPriority
    <3>5. QED
      BY <3>1, <3>2, <3>3, <3>4 DEF HeadPriority
  <2>12. t \in eligible
    BY <2>9 DEF Exclusive
  <2>13. at \in Nat /\ (at <= clock => clock >= last + RuleValue(p, t, "cooldown"))
    BY <2>2, <2>7, <2>8, <2>10, <2>11, <2>12, ReconsiderKeepsCooldown
  <2>14. QED
    BY <2>2, <2>8, <2>13
<1>2. QED
  BY <1>1, CooldownInvariantHolds, PTL DEF Spec, OrdinaryKeepsCooldown
=============================================================================
