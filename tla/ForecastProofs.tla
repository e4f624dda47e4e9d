---------------------------- MODULE ForecastProofs ----------------------------
(* Theorems about the services that make and settle forecasts, each for      *)
(* every value of its constants.                                             *)
EXTENDS CodexRouter, CodexSession, PriorCadence, BatchDispatch, ContextPosterior,
        FiniteSetTheorems, WellFoundedInduction, TLAPS

-----------------------------------------------------------------------------
(* CodexRouter.                                                             *)

\* The bounds are numbers.
LEMMA CodexNumbers ==
    /\ MaxTries \in Nat \ {0} /\ Timeout \in Nat \ {0} /\ Cooldown \in Nat \ {0}
    /\ LeaseTtl \in Nat /\ MaxClock \in Nat /\ MaxRuns \in Nat
    /\ \A d \in Resets : d \in Nat
    /\ Never \in Int /\ Never < 0
    /\ Never \in Never..MaxClock /\ Never \in Never..(MaxClock + LeaseTtl)
    /\ \A t \in 0..MaxClock : t \in Never..MaxClock
BY CodexAssumption DEF Never

\* A belief stays one when its state or its end changes.
LEMMA BeliefType ==
    ASSUME NEW b \in Belief, NEW u \in Int,
           NEW st \in {"UNKNOWN", "HEALTHY", "LEASED", "COOLDOWN", "AUTH_FAILED"}
    PROVE  /\ [b EXCEPT !.state = st] \in Belief
           /\ [b EXCEPT !.until = u] \in Belief
           /\ [b EXCEPT !.state = st, !.until = u] \in Belief
BY DEF Belief

\* What a refresh makes of an account is a belief, and a healthy one has no
\* cooldown ahead that the audit knows of.
LEMMA RefreshedType ==
    ASSUME RouterTypeOK, NEW r \in Routers, NEW a \in Accounts,
           NEW m \in Refreshed(mem[r][a], a)
    PROVE  /\ m \in Belief
           /\ m.state = "HEALTHY" => AuditedCooldown(a) <= clock
<1>. DEFINE old == mem[r][a]
<1>1. /\ old \in Belief /\ clock \in Nat /\ AuditedCooldown(a) \in Int
      /\ \A d \in Resets : clock + d \in Int
  <2>1. /\ Cooldown \in Nat /\ MaxClock \in Nat /\ \A d \in Resets : d \in Nat
    BY CodexAssumption
  <2>2. old \in Belief /\ audit[a] \in AuditRow /\ clock \in Nat
    BY <2>1 DEF RouterTypeOK
  <2>3. AuditedCooldown(a) \in Int
    BY <2>1, <2>2 DEF AuditedCooldown, AuditRow, Never
  <2>4. QED
    BY <2>1, <2>2, <2>3
<1>2. CASE old.state = "AUTH_FAILED"
  BY <1>1, <1>2 DEF Refreshed, Belief
<1>3. CASE old.state # "AUTH_FAILED" /\ AuditedCooldown(a) > clock
  <2>1. m = [old EXCEPT !.state = "COOLDOWN", !.until = AuditedCooldown(a)]
    BY <1>3 DEF Refreshed
  <2>2. QED
    BY <1>1, <2>1 DEF Belief
<1>4. CASE old.state # "AUTH_FAILED" /\ ~(AuditedCooldown(a) > clock)
  <2>1. AuditedCooldown(a) <= clock
    BY <1>1, <1>4
  <2>2. /\ [old EXCEPT !.until = Never] \in Belief
        /\ [old EXCEPT !.state = "HEALTHY", !.until = Never] \in Belief
        /\ \A d \in Resets :
             [old EXCEPT !.state = "COOLDOWN", !.until = clock + d] \in Belief
    <3>1. Never \in Int
      BY DEF Never
    <3>2. QED
      BY <1>1, <3>1, BeliefType
  <2>3. \/ m = old \/ m = [old EXCEPT !.until = Never]
        \/ m = [old EXCEPT !.state = "HEALTHY", !.until = Never]
        \/ \E d \in Resets : m = [old EXCEPT !.state = "COOLDOWN", !.until = clock + d]
    BY <1>4 DEF Refreshed, Probed
  <2>4. m \in Belief
    BY <1>1, <2>2, <2>3
  <2>5. QED
    BY <2>1, <2>4
<1>5. QED
  BY <1>2, <1>3, <1>4

\* So is what a failure makes of it.
LEMMA AfterFailureType ==
    ASSUME RouterTypeOK, NEW r \in Routers, NEW a \in Accounts, NEW ending \in Outcomes,
           NEW m \in AfterFailure(mem[r][a], ending)
    PROVE  m \in Belief
<1>1. /\ mem[r][a] \in Belief /\ clock + Cooldown \in Int
      /\ \A d \in Resets : clock + d \in Int
  <2>1. /\ Cooldown \in Nat /\ MaxClock \in Nat /\ \A d \in Resets : d \in Nat
    BY CodexAssumption
  <2>2. QED
    BY <2>1 DEF RouterTypeOK
<1>. DEFINE old == mem[r][a]
<1>2. /\ [old EXCEPT !.state = "AUTH_FAILED"] \in Belief
      /\ [old EXCEPT !.state = "HEALTHY"] \in Belief
      /\ [old EXCEPT !.state = "COOLDOWN", !.until = clock + Cooldown] \in Belief
      /\ \A d \in Resets :
           [old EXCEPT !.state = "COOLDOWN", !.until = clock + d] \in Belief
  BY <1>1, BeliefType
<1>3. \/ m = [old EXCEPT !.state = "AUTH_FAILED"]
      \/ m = [old EXCEPT !.state = "HEALTHY"]
      \/ m = [old EXCEPT !.state = "COOLDOWN", !.until = clock + Cooldown]
      \/ \E d \in Resets : m = [old EXCEPT !.state = "COOLDOWN", !.until = clock + d]
  BY DEF AfterFailure
<1>4. QED
  BY <1>2, <1>3

\* Sweeping and releasing keep lease rows.
LEMMA LeaseRowsType ==
    ASSUME RouterTypeOK, NEW r \in Routers
    PROVE  /\ Swept(r) \in [Accounts -> LeaseRow]
           /\ Released(r) \in [Accounts -> LeaseRow]
<1>1. NoLease \in LeaseRow
  BY CodexAssumption DEF NoLease, LeaseRow, Never
<1>2. QED
  BY <1>1 DEF RouterTypeOK, Swept, Released

\* An idle run.
LEMMA IdleType == Idle \in RunState
BY CodexAssumption DEF Idle, RunState, Never, NoAccount

\* Type correctness, one step of one router after another.
LEMMA RouterTypeStep ==
    ASSUME RouterTypeOK, RouterNext
    PROVE  RouterTypeOK'
<1>. USE CodexAssumption
<1>1. CASE Tick
  BY <1>1 DEF Tick, RouterTypeOK
<1>2. ASSUME NEW r \in Routers, StartRun(r)
      PROVE  RouterTypeOK'
  <2>1. PICK view \in [Accounts -> UNION {Refreshed(mem[r][a], a) : a \in Accounts}] :
           /\ \A a \in Accounts : view[a] \in Refreshed(mem[r][a], a)
           /\ mem' = [mem EXCEPT ![r] = view]
    BY <1>2 DEF StartRun
  <2>2. view \in [Accounts -> Belief]
    BY <2>1, RefreshedType
  <2>3. mem' \in [Routers -> [Accounts -> Belief]]
    BY <2>1, <2>2 DEF RouterTypeOK
  <2>4. [Idle EXCEPT !.pc = "selecting", !.now = clock] \in RunState
    <3>1. clock \in Never..MaxClock
      BY CodexNumbers DEF RouterTypeOK
    <3>2. QED
      BY <3>1, IdleType DEF RunState
  <2>5. run' \in [Routers -> RunState]
    BY <1>2, <2>4 DEF StartRun, RouterTypeOK
  <2>6. runs' \in [Routers -> 0..MaxRuns]
    BY <1>2 DEF StartRun, RouterTypeOK
  <2>7. QED
    BY <1>2, <2>3, <2>5, <2>6 DEF StartRun, RouterTypeOK, Idle
<1>3. ASSUME NEW r \in Routers, Select(r)
      PROVE  RouterTypeOK'
  <2>1. PICK a \in Accounts :
           run' = [run EXCEPT ![r].pc = "chosen", ![r].account = a,
                              ![r].tried = @ \cup {a}, ![r].attempt = @ + 1]
    BY <1>3 DEF Select, Eligible, Considered
  <2>2. run[r] \in RunState /\ run[r].attempt + 1 \in 0..MaxTries
    BY <1>3, CodexNumbers DEF Select, RouterTypeOK, RunState
  <2>3. [run[r] EXCEPT !.pc = "chosen", !.account = a, !.tried = @ \cup {a},
                       !.attempt = @ + 1] \in RunState
    BY <2>2 DEF RunState
  <2>4. run' = [run EXCEPT ![r] = [run[r] EXCEPT !.pc = "chosen", !.account = a,
                                     !.tried = @ \cup {a}, !.attempt = @ + 1]]
    BY <2>1
  <2>5. run' \in [Routers -> RunState]
    BY <2>3, <2>4 DEF RouterTypeOK
  <2>6. \A s \in Routers : /\ run'[s].now = run[s].now
                           /\ s # r => run'[s] = run[s]
    BY <2>2, <2>4 DEF RouterTypeOK, RunState
  <2>7. run'[r].account = a
    BY <2>2, <2>4 DEF RouterTypeOK, RunState
  <2>8. QED
    BY <1>3, LeaseRowsType, <2>5, <2>6, <2>7 DEF Select, RouterTypeOK
<1>4. ASSUME NEW r \in Routers, Unavailable(r)
      PROVE  RouterTypeOK'
  BY <1>4, LeaseRowsType, IdleType DEF Unavailable, RouterTypeOK, Idle
<1>5. ASSUME NEW r \in Routers, Acquire(r)
      PROVE  RouterTypeOK'
  <2>. DEFINE a == run[r].account
  <2>1. /\ a \in Accounts /\ run[r] \in RunState /\ run[r].now \in 0..clock
        /\ run[r].now + LeaseTtl \in Never..(MaxClock + LeaseTtl)
    BY <1>5, CodexNumbers DEF Acquire, RouterTypeOK, RunState
  <2>2. CASE leases[a].expires <= clock
    <3>1. [by |-> r, attempt |-> run[r].attempt, expires |-> run[r].now + LeaseTtl]
            \in LeaseRow
      BY <2>1 DEF LeaseRow, RunState
    <3>2. leases' \in [Accounts -> LeaseRow]
      BY <1>5, <2>1, <2>2, <3>1 DEF Acquire, RouterTypeOK
    <3>3. mem' = [mem EXCEPT ![r] = [mem[r] EXCEPT ![a] = [mem[r][a] EXCEPT !.state = "LEASED"]]]
      BY <1>5, <2>2 DEF Acquire
    <3>4. [mem[r][a] EXCEPT !.state = "LEASED"] \in Belief
      <4>1. mem[r][a] \in Belief
        BY <2>1 DEF RouterTypeOK
      <4>2. QED
        BY <4>1, BeliefType DEF Belief
    <3>5. mem' \in [Routers -> [Accounts -> Belief]]
      BY <2>1, <3>3, <3>4 DEF RouterTypeOK
    <3>6. run' = [run EXCEPT ![r] = [run[r] EXCEPT !.pc = "executing", !.since = clock,
                                                   !.expires = run[r].now + LeaseTtl]]
      BY <1>5, <2>2 DEF Acquire
    <3>7. [run[r] EXCEPT !.pc = "executing", !.since = clock,
                         !.expires = run[r].now + LeaseTtl] \in RunState
      <4>1. clock \in Never..MaxClock
        BY CodexNumbers DEF RouterTypeOK
      <4>2. QED
        BY <2>1, <4>1 DEF RunState
    <3>8. run' \in [Routers -> RunState]
      BY <3>6, <3>7 DEF RouterTypeOK
    <3>9. \A s \in Routers : /\ run'[s].now = run[s].now /\ run'[s].account = run[s].account
                             /\ s # r => run'[s] = run[s]
      BY <2>1, <3>6 DEF RouterTypeOK, RunState
    <3>10. QED
      BY <1>5, <2>1, <3>2, <3>5, <3>8, <3>9 DEF Acquire, RouterTypeOK
  <2>3. CASE ~(leases[a].expires <= clock)
    <3>1. run' = [run EXCEPT ![r] = [run[r] EXCEPT !.pc = "selecting", !.account = NoAccount]]
      BY <1>5, <2>3 DEF Acquire
    <3>2. [run[r] EXCEPT !.pc = "selecting", !.account = NoAccount] \in RunState
      BY <2>1 DEF RunState
    <3>3. run' \in [Routers -> RunState]
      BY <3>1, <3>2 DEF RouterTypeOK
    <3>4. \A s \in Routers : /\ run'[s].now = run[s].now
                             /\ s # r => run'[s] = run[s]
      BY <2>1, <3>1 DEF RouterTypeOK, RunState
    <3>5. run'[r].pc = "selecting"
      BY <2>1, <3>1 DEF RouterTypeOK, RunState
    <3>6. QED
      BY <1>5, <2>1, <2>3, <3>3, <3>4, <3>5 DEF Acquire, RouterTypeOK
  <2>4. QED
    BY <2>2, <2>3
<1>6. ASSUME NEW r \in Routers, NEW ending \in Outcomes, Finish(r, ending)
      PROVE  RouterTypeOK'
  <2>1. run[r].account \in Accounts
    BY <1>6 DEF Finish, RouterTypeOK
  <2>2. leases' \in [Accounts -> LeaseRow]
    BY <1>6, LeaseRowsType DEF Finish
  <2>3. audit' \in [Accounts -> AuditRow]
    BY <1>6, <2>1 DEF Finish, Audited, RouterTypeOK, AuditRow, RunState, Never
  <2>4. mem' \in [Routers -> [Accounts -> Belief]]
    BY <1>6, <2>1, AfterFailureType DEF Finish, RouterTypeOK
  <2>5. run' \in [Routers -> RunState]
    <3>1. [run[r] EXCEPT !.pc = "selecting", !.account = NoAccount,
                         !.expires = Never, !.since = Never] \in RunState
      <4>1. run[r] \in RunState
        BY <1>6 DEF RouterTypeOK
      <4>2. QED
        BY <4>1, CodexNumbers DEF RunState
    <3>2. QED
      BY <1>6, <3>1, IdleType DEF Finish, RouterTypeOK
  <2>6. QED
    BY <1>6, <2>2, <2>3, <2>4, <2>5 DEF Finish, RouterTypeOK, RunState, Idle
<1>7. ASSUME NEW r \in Routers, FinishUnrecorded(r)
      PROVE  RouterTypeOK'
  BY <1>7, LeaseRowsType, IdleType DEF FinishUnrecorded, RouterTypeOK, Idle
<1>8. ASSUME NEW r \in Routers, Crash(r)
      PROVE  RouterTypeOK'
  BY <1>8, IdleType DEF Crash, RouterTypeOK, Idle, Unknown, Belief, Never
<1>9. QED
  BY <1>1, <1>2, <1>3, <1>4, <1>5, <1>6, <1>7, <1>8 DEF RouterNext, RouterStep

\* A step of a router is not a step of another one, and takes no time.
LEMMA OthersStay ==
    ASSUME RouterTypeOK, NEW r \in Routers, RouterStep(r)
    PROVE  /\ clock' = clock
           /\ \A s \in Routers \ {r} : run'[s] = run[s] /\ mem'[s] = mem[s]
<1>1. CASE StartRun(r)
  BY <1>1 DEF StartRun, RouterTypeOK
<1>2. CASE Select(r) \/ Unavailable(r)
  BY <1>2 DEF Select, Unavailable, RouterTypeOK
<1>3. CASE Acquire(r)
  BY <1>3 DEF Acquire, RouterTypeOK
<1>4. ASSUME NEW ending \in Outcomes, Finish(r, ending)
      PROVE  /\ clock' = clock
             /\ \A s \in Routers \ {r} : run'[s] = run[s] /\ mem'[s] = mem[s]
  BY <1>4 DEF Finish, RouterTypeOK
<1>5. CASE FinishUnrecorded(r) \/ Crash(r)
  BY <1>5 DEF FinishUnrecorded, Crash, RouterTypeOK
<1>6. QED
  BY <1>1, <1>2, <1>3, <1>4, <1>5 DEF RouterStep

\* A lease is kept: who sweeps has an older clock than its end, who releases
\* looks for its own row, and who inserts finds the row in the way.
LEMMA LeaseHoldsStep ==
    ASSUME RouterTypeOK, LeaseHolds, RouterNext
    PROVE  LeaseHolds'
<1>. SUFFICES ASSUME NEW r \in Routers, NEW a \in Accounts,
                     Executing(r, a)', clock' < run'[r].expires
              PROVE  leases'[a] = MyLease(r)'
  BY DEF LeaseHolds
<1>1. /\ clock \in Nat /\ \A s \in Routers : run[s] \in RunState
      /\ leases \in [Accounts -> LeaseRow]
  BY CodexNumbers DEF RouterTypeOK
<1>2. CASE Tick
  <2>1. run' = run /\ leases' = leases /\ clock < run[r].expires
    BY <1>1, <1>2 DEF Tick, RunState, Never
  <2>2. QED
    BY <2>1 DEF LeaseHolds, Executing, MyLease
<1>3. ASSUME NEW s \in Routers, RouterStep(s), s # r
      PROVE  leases'[a] = MyLease(r)'
  <2>1. /\ clock' = clock /\ run'[r] = run[r]
        /\ leases[a] = MyLease(r) /\ MyLease(r)' = MyLease(r)
    BY <1>3, OthersStay DEF LeaseHolds, Executing, MyLease
  <2>2. leases[a].by = r /\ clock < leases[a].expires
    BY <2>1 DEF MyLease
  <2>3. leases'[a] = leases[a]
    <3>1. CASE StartRun(s) \/ Crash(s)
      BY <3>1 DEF StartRun, Crash
    <3>2. CASE Select(s) \/ Unavailable(s)
      <4>1. run[s].now <= clock /\ run[s].now \in Int
        <5>1. run[s].pc # "idle"
          BY <3>2 DEF Select, Unavailable
        <5>2. run[s].now \in 0..clock
          BY <5>1 DEF RouterTypeOK
        <5>3. QED
          BY <1>1, <5>2
      <4>2. ~(leases[a].expires <= run[s].now)
        BY <1>1, <2>2, <4>1 DEF LeaseRow, Never
      <4>3. Swept(s)[a] = leases[a]
        BY <4>2 DEF Swept
      <4>4. QED
        BY <3>2, <4>3 DEF Select, Unavailable
    <3>3. CASE Acquire(s)
      <4>1. ~(leases[a].expires <= clock)
        BY <1>1, <2>2 DEF LeaseRow, Never
      <4>2. QED
        BY <1>1, <3>3, <4>1 DEF Acquire
    <3>4. CASE FinishUnrecorded(s) \/ \E ending \in Outcomes : Finish(s, ending)
      <4>1. leases[a] # MyLease(s)
        BY <1>3, <2>2 DEF MyLease
      <4>2. QED
        BY <3>4, <4>1 DEF FinishUnrecorded, Finish, Released
    <3>5. QED
      BY <1>3, <3>1, <3>2, <3>3, <3>4 DEF RouterStep
  <2>4. QED
    BY <2>1, <2>3
<1>4. ASSUME RouterStep(r)
      PROVE  leases'[a] = MyLease(r)'
  <2>1. CASE Acquire(r)
    <3>1. leases[run[r].account].expires <= clock
      <4>1. SUFFICES ASSUME ~(leases[run[r].account].expires <= clock)
                     PROVE  FALSE
        OBVIOUS
      <4>2. run' = [run EXCEPT ![r].pc = "selecting", ![r].account = NoAccount]
        BY <2>1, <4>1 DEF Acquire
      <4>3. run'[r].pc = "selecting"
        BY <1>1, <4>2 DEF RouterTypeOK, RunState
      <4>4. QED
        BY <4>3 DEF Executing
    <3>2. /\ run' = [run EXCEPT ![r].pc = "executing", ![r].since = clock,
                                ![r].expires = run[r].now + LeaseTtl]
          /\ leases' = [leases EXCEPT ![run[r].account] =
                          [by |-> r, attempt |-> run[r].attempt,
                           expires |-> run[r].now + LeaseTtl]]
      BY <2>1, <3>1 DEF Acquire
    <3>3. /\ run'[r].attempt = run[r].attempt /\ run'[r].account = run[r].account
          /\ run'[r].expires = run[r].now + LeaseTtl
      BY <1>1, <3>2 DEF RouterTypeOK, RunState
    <3>4. QED
      BY <1>1, <3>2, <3>3 DEF Executing, MyLease
  <2>2. CASE ~Acquire(r)
    <3>1. run'[r].pc # "executing"
      <4>1. run \in [Routers -> RunState] /\ run[r] \in RunState
        BY <1>1 DEF RouterTypeOK
      <4>2. CASE StartRun(r) \/ Unavailable(r) \/ FinishUnrecorded(r) \/ Crash(r)
        <5>1. \/ run' = [run EXCEPT ![r] = Idle]
              \/ run' = [run EXCEPT ![r] = [Idle EXCEPT !.pc = "selecting", !.now = clock]]
          BY <4>2 DEF StartRun, Unavailable, FinishUnrecorded, Crash
        <5>2. run'[r] = Idle \/ run'[r] = [Idle EXCEPT !.pc = "selecting", !.now = clock]
          BY <4>1, <5>1
        <5>3. /\ Idle.pc = "idle"
              /\ [Idle EXCEPT !.pc = "selecting", !.now = clock].pc = "selecting"
          BY DEF Idle
        <5>4. QED
          BY <5>2, <5>3
      <4>3. CASE Select(r)
        BY <4>1, <4>3 DEF Select, RunState
      <4>4. ASSUME NEW ending \in Outcomes, Finish(r, ending)
            PROVE  run'[r].pc # "executing"
        <5>1. run'[r] = IF ending \in Failover
                        THEN [run[r] EXCEPT !.pc = "selecting", !.account = NoAccount,
                                            !.expires = Never, !.since = Never]
                        ELSE Idle
          BY <4>1, <4>4 DEF Finish
        <5>2. QED
          BY <4>1, <5>1 DEF Idle, RunState
      <4>5. QED
        BY <1>4, <2>2, <4>2, <4>3, <4>4 DEF RouterStep
    <3>2. QED
      BY <3>1 DEF Executing
  <2>3. QED
    BY <2>1, <2>2
<1>5. QED
  BY <1>2, <1>3, <1>4 DEF RouterNext

\* What has failed since a run began is later than its time: an account it may
\* still choose, or has chosen, has no cooldown that reaches beyond that time.
LEMMA ChoiceIsFitStep ==
    ASSUME RouterTypeOK, ChoiceIsFit, RouterNext
    PROVE  ChoiceIsFit'
<1>. DEFINE Chosen(r, a) == \/ mem[r][a].state = "HEALTHY"
                            \/ /\ run[r].pc \in {"chosen", "executing"}
                               /\ run[r].account = a
<1>1. /\ clock \in Nat /\ run \in [Routers -> RunState] /\ audit \in [Accounts -> AuditRow]
      /\ mem \in [Routers -> [Accounts -> Belief]]
      /\ \A r \in Routers : run[r].pc # "idle" => run[r].now \in 0..clock
  BY CodexNumbers DEF RouterTypeOK
<1>. SUFFICES ASSUME NEW r \in Routers, NEW a \in Accounts,
                     run'[r].pc # "idle", Chosen(r, a)', audit'[a].failed < run'[r].now
              PROVE  AuditedCooldown(a)' <= run'[r].now
  BY DEF ChoiceIsFit
<1>2. CASE Tick
  BY <1>2 DEF Tick, ChoiceIsFit, AuditedCooldown
<1>3. ASSUME NEW s \in Routers, NEW ending \in Outcomes, Finish(s, ending)
      PROVE  AuditedCooldown(a)' <= run'[r].now
  <2>1. /\ run'[r].now = run[r].now /\ run[r].pc # "idle"
        /\ Chosen(r, a) \/ (r = s /\ run[r].account = a /\ run[r].pc = "executing")
    <3>1. CASE r # s
      BY <1>3, <3>1, OthersStay DEF RouterStep
    <3>2. CASE r = s
      <4>1. ending \in Failover
        BY <1>1, <1>3, <3>2 DEF Finish, Idle
      <4>2. run'[r] = [run[r] EXCEPT !.pc = "selecting", !.account = NoAccount,
                                     !.expires = Never, !.since = Never]
        BY <1>1, <1>3, <3>2, <4>1 DEF Finish
      <4>3. run'[r].now = run[r].now /\ run'[r].pc = "selecting"
        BY <1>1, <4>2 DEF RunState
      <4>4. run[r].account = a \/ mem'[r][a] = mem[r][a]
        BY <1>1, <1>3, <3>2 DEF Finish
      <4>5. QED
        BY <1>3, <3>2, <4>3, <4>4 DEF Finish
    <3>3. QED
      BY <3>1, <3>2
  <2>2. run[r].now \in 0..clock
    BY <1>1, <2>1
  <2>3. CASE audit'[a] = audit[a]
    BY <2>1, <2>3 DEF ChoiceIsFit, AuditedCooldown
  <2>4. CASE audit'[a] # audit[a]
    <3>1. audit'[a].failed \in {clock, Never}
      BY <1>1, <1>3, <2>4 DEF Finish, Audited
    <3>2. audit'[a].failed = Never
      BY <1>1, <2>1, <2>2, <3>1
    <3>3. QED
      BY <2>1, <2>2, <3>2, CodexNumbers DEF AuditedCooldown
  <2>5. QED
    BY <2>3, <2>4
<1>4. ASSUME NEW s \in Routers, RouterStep(s),
             \A ending \in Outcomes : ~Finish(s, ending)
      PROVE  AuditedCooldown(a)' <= run'[r].now
  <2>1. audit' = audit
    BY <1>4 DEF RouterStep, StartRun, Select, Unavailable, Acquire, FinishUnrecorded, Crash
  <2>2. CASE r # s
    BY <1>4, <2>1, <2>2, OthersStay DEF ChoiceIsFit, AuditedCooldown
  <2>3. CASE r = s /\ StartRun(r)
    <3>1. mem'[r][a] \in Refreshed(mem[r][a], a)
      BY <1>1, <2>3 DEF StartRun
    <3>2. run'[r].pc = "selecting" /\ run'[r].now = clock
      BY <1>1, <2>3 DEF StartRun, Idle
    <3>3. QED
      BY <2>1, <3>1, <3>2, RefreshedType DEF AuditedCooldown
  <2>4. CASE r = s /\ ~StartRun(r)
    <3>1. Select(r) \/ Acquire(r)
      <4>1. ~(Unavailable(r) \/ FinishUnrecorded(r) \/ Crash(r))
        BY <1>1, <2>4 DEF Unavailable, FinishUnrecorded, Crash, Idle
      <4>2. QED
        BY <1>4, <2>4, <4>1 DEF RouterStep
    <3>2. run'[r].now = run[r].now /\ run[r].pc # "idle"
      <4>1. CASE Select(r)
        BY <1>1, <4>1 DEF Select, RunState
      <4>2. CASE Acquire(r)
        <5>1. \/ run' = [run EXCEPT ![r].pc = "executing", ![r].since = clock,
                                    ![r].expires = run[r].now + LeaseTtl]
              \/ run' = [run EXCEPT ![r].pc = "selecting", ![r].account = NoAccount]
          BY <4>2 DEF Acquire
        <5>2. run[r].pc = "chosen"
          BY <4>2 DEF Acquire
        <5>3. QED
          BY <1>1, <5>1, <5>2 DEF RunState
      <4>3. QED
        BY <3>1, <4>1, <4>2
    <3>3. Chosen(r, a)
      <4>1. CASE Select(r)
        <5>1. mem' = mem
          BY <4>1 DEF Select
        <5>2. PICK b \in Eligible(r) : run'[r].account = b /\ run'[r].pc = "chosen"
          BY <1>1, <4>1 DEF Select, RunState
        <5>3. mem[r][b].state = "HEALTHY"
          BY <5>2 DEF Eligible, Considered
        <5>4. QED
          BY <5>1, <5>2, <5>3
      <4>2. CASE Acquire(r)
        <5>1. run[r].pc = "chosen"
          BY <4>2 DEF Acquire
        <5>2. run[r].account = a \/ mem'[r][a] = mem[r][a]
          BY <1>1, <4>2 DEF Acquire
        <5>3. run'[r].account \in {run[r].account, NoAccount}
          BY <1>1, <4>2 DEF Acquire, RunState
        <5>4. run'[r].pc = "executing" => run'[r].account = run[r].account
          BY <1>1, <4>2 DEF Acquire, RunState
        <5>5. run'[r].pc \in {"executing", "selecting"}
          BY <1>1, <4>2 DEF Acquire, RunState
        <5>6. QED
          BY <5>1, <5>2, <5>4, <5>5
      <4>3. QED
        BY <3>1, <4>1, <4>2
    <3>4. QED
      BY <2>1, <3>2, <3>3 DEF ChoiceIsFit, AuditedCooldown
  <2>5. QED
    BY <2>2, <2>3, <2>4
<1>5. QED
  BY <1>2, <1>3, <1>4 DEF RouterNext

\* It holds at the start.
LEMMA RouterInitially == RouterInit => RouterInvariant
<1>. SUFFICES ASSUME RouterInit PROVE RouterInvariant
  OBVIOUS
<1>1. /\ NoLease \in LeaseRow /\ NoAudit \in AuditRow /\ Unknown \in Belief
  BY CodexNumbers DEF NoLease, LeaseRow, NoAudit, AuditRow, Unknown, Belief
<1>2. RouterTypeOK
  BY <1>1, IdleType, CodexNumbers DEF RouterInit, RouterTypeOK, Idle
<1>3. LeaseHolds /\ ChoiceIsFit
  BY DEF RouterInit, LeaseHolds, ChoiceIsFit, Executing, Idle
<1>4. QED
  BY <1>2, <1>3 DEF RouterInvariant

\* Leases and audit, the beliefs of routers and their runs keep their types,
\* and a run that is under way began at a time that is past.
THEOREM RouterTypeCorrect == RouterSpec => []RouterTypeOK
<1>1. RouterTypeOK /\ [RouterNext]_routerVars => RouterTypeOK'
  <2>1. RouterTypeOK /\ UNCHANGED routerVars => RouterTypeOK'
    BY DEF RouterTypeOK, routerVars
  <2>2. QED
    BY <2>1, RouterTypeStep
<1>2. QED
  BY <1>1, RouterInitially, PTL DEF RouterSpec, RouterInvariant

\* The conjunction is inductive.
LEMMA RouterInvariantHolds == RouterSpec => []RouterInvariant
<1>1. RouterInvariant /\ [RouterNext]_routerVars => RouterInvariant'
  <2>1. RouterInvariant /\ UNCHANGED routerVars => RouterInvariant'
    BY DEF RouterInvariant, RouterTypeOK, LeaseHolds, ChoiceIsFit, Executing, MyLease,
           AuditedCooldown, routerVars
  <2>2. QED
    BY <2>1, RouterTypeStep, LeaseHoldsStep, ChoiceIsFitStep DEF RouterInvariant
<1>2. QED
  BY <1>1, RouterInitially, PTL DEF RouterSpec

\* An execution holds its account for as long as its lease lasts, however many
\* routers sweep, release late or die.
THEOREM LeasesHold == RouterSpec => []LeaseHolds
BY RouterInvariantHolds, PTL DEF RouterInvariant

\* No run that starts after a transient failure executes on its account before
\* the cooldown is over, whichever router failed and whoever restarted since.
THEOREM CooldownsAreShared == RouterSpec => []CooldownIsShared
<1>1. RouterInvariant => CooldownIsShared
  BY DEF RouterInvariant, RouterTypeOK, ChoiceIsFit, CooldownIsShared, Executing
<1>2. QED
  BY <1>1, RouterInvariantHolds, PTL
-----------------------------------------------------------------------------
(* PriorCadence.                                                            *)

\* A set of numbers has a least one, and a bounded one a latest.
LEMMA LeastIsLeast ==
    ASSUME NEW S \in SUBSET Nat, S # {}
    PROVE  Least(S) \in S /\ \A y \in S : Least(S) <= y
<1>. DEFINE R == {p \in Nat \X Nat : p[1] < p[2]}
<1>1. IsWellFoundedOn(R, Nat)
  <2>1. OpToRel(<, Nat) = R
    BY DEF OpToRel
  <2>2. QED
    BY <2>1, NatLessThanWellFounded
<1>. HIDE DEF R
<1>2. PICK x \in S : \A y \in S : ~(<<y, x>> \in R)
  BY <1>1, WFMin
<1>3. \A y, z \in Nat : y < z => <<y, z>> \in R
  BY DEF R
<1>4. ASSUME NEW y \in S PROVE x <= y
  <2>1. x \in Nat /\ y \in Nat /\ ~(<<y, x>> \in R)
    BY <1>2
  <2>2. ~(y < x)
    BY <1>3, <2>1
  <2>3. QED
    BY <2>1, <2>2
<1>5. QED
  BY <1>4 DEF Least

\* The latest of a bounded set of numbers is in it and not exceeded.
LEMMA LatestIsLatest ==
    ASSUME NEW S \in SUBSET Nat, S # {}, NEW n \in Nat, \A s \in S : s <= n
    PROVE  Latest(S) \in S /\ \A y \in S : y <= Latest(S)
<1>. DEFINE T == {n - s : s \in S}
<1>1. T \in SUBSET Nat /\ T # {}
  <2>1. \A s \in S : s \in Nat /\ s <= n
    OBVIOUS
  <2>2. \A s \in S : n - s \in Nat
    BY <2>1
  <2>3. QED
    BY <2>2
<1>2. PICK x \in S : Least(T) = n - x
  BY <1>1, LeastIsLeast
<1>3. \A y \in S : n - x <= n - y
  BY <1>1, <1>2, LeastIsLeast
<1>4. \A y \in S : y <= x
  BY <1>3
<1>5. QED
  BY <1>4 DEF Latest

\* The bounds are numbers, and slots are times.
LEMMA CadenceNumbers ==
    /\ First \in Nat \ {0} /\ Horizon \in Nat \ {0} /\ BatchSize \in Nat \ {0}
    /\ Deadline \in Nat /\ Grace \in Nat /\ MaxQuotes \in Nat /\ MaxTime \in Nat
    /\ Slots \subseteq Times /\ Times \subseteq Nat
    /\ Contracts \subseteq Nat /\ 1 \in Contracts /\ Contracts # {}
    /\ \A c \in Contracts : c < Cardinality(Contracts) => c + 1 \in Contracts
    /\ \A c \in Contracts : ~(c < 1) /\ c <= Cardinality(Contracts)
    /\ Cardinality(Contracts) \in Nat
    /\ \A n \in 0..MaxQuotes : n \in 0..NoSlot /\ n # NoSlot
    /\ \A s \in Slots : First <= s /\ s <= MaxTime
    /\ NoSlot \in 0..NoSlot
<1>1. /\ First \in Nat \ {0} /\ Horizon \in Nat \ {0} /\ BatchSize \in Nat \ {0}
      /\ Deadline \in Nat /\ Grace \in Nat /\ MaxQuotes \in Nat /\ MaxTime \in Nat
  BY CadenceAssumption
<1>2. Cardinality(Contracts) \in Nat
  BY CadenceAssumption, FS_CardinalityType
<1>3. Contracts = 1..Cardinality(Contracts) /\ Contracts # {}
  BY CadenceAssumption
<1>4. QED
  BY <1>1, <1>2, <1>3 DEF Slots, Times, NoSlot

\* The first slot due has every slot before it obliged for every contract.
LEMMA DueIsNext ==
    ASSUME CadenceTypeOK, NoSlotSkipped, Due # {}
    PROVE  /\ Least(Due) \in Slots /\ Latest(Due) \in Slots /\ Least(Due) <= Latest(Due)
           /\ \A c \in Contracts : First..(Least(Due) - 1) \subseteq Obligated(c)
<1>. DEFINE start == IF \E c \in Contracts : Obligated(c) = {} THEN First
                     ELSE Least({Latest(Obligated(c)) : c \in Contracts})
<1>1. /\ Due = {s \in Slots : start <= s /\ s <= now}
      /\ Due \in SUBSET Nat /\ Slots \subseteq Nat /\ now \in Nat /\ First \in Nat
      /\ Slots = First..MaxTime /\ MaxTime \in Nat
  BY CadenceNumbers DEF Due, CadenceTypeOK, Slots, Times
<1>2. /\ Least(Due) \in Due /\ Latest(Due) \in Due
      /\ \A s \in Due : Least(Due) <= s /\ s <= Latest(Due)
  BY <1>1, LeastIsLeast, LatestIsLatest
<1>3. start \in Slots /\ \A c \in Contracts : First..(start - 1) \subseteq Obligated(c)
  <2>1. CASE \E c \in Contracts : Obligated(c) = {}
    BY <1>1, <1>2, <2>1
  <2>2. CASE ~\E c \in Contracts : Obligated(c) = {}
    <3>. DEFINE heads == {Latest(Obligated(c)) : c \in Contracts}
    <3>1. \A c \in Contracts : /\ Latest(Obligated(c)) \in Obligated(c)
                               /\ Obligated(c) \subseteq Slots
      <4>1. \A c \in Contracts : Obligated(c) \in SUBSET Nat /\ \A s \in Obligated(c) : s <= MaxTime
        BY <1>1 DEF Obligated
      <4>2. QED
        BY <1>1, <2>2, <4>1, LatestIsLatest DEF Obligated
    <3>2. heads \in SUBSET Nat /\ heads # {}
      BY <1>1, <3>1, CadenceNumbers
    <3>3. /\ start \in heads /\ start = Least(heads)
          /\ \A c \in Contracts : start <= Latest(Obligated(c))
      <4>1. start = Least(heads)
        BY <2>2
      <4>2. Least(heads) \in heads /\ \A h \in heads : Least(heads) <= h
        BY <3>2, LeastIsLeast
      <4>3. \A c \in Contracts : Latest(Obligated(c)) \in heads
        OBVIOUS
      <4>4. QED
        BY <4>1, <4>2, <4>3
    <3>4. start \in Slots
      BY <3>1, <3>3
    <3>5. \A c \in Contracts : First..Latest(Obligated(c)) \subseteq Obligated(c)
      BY <1>1, <3>1 DEF NoSlotSkipped
    <3>6. ASSUME NEW c \in Contracts
          PROVE  First..(start - 1) \subseteq First..Latest(Obligated(c))
      <4>1. /\ Latest(Obligated(c)) \in Nat /\ start <= Latest(Obligated(c))
            /\ start \in Nat /\ First \in Nat
        BY <1>1, <3>1, <3>3, <3>4
      <4>. HIDE DEF start
      <4>2. \A s \in First..(start - 1) : s \in First..Latest(Obligated(c))
        BY <4>1
      <4>3. QED
        BY <4>2
    <3>7. QED
      BY <3>4, <3>5, <3>6
  <2>3. QED
    BY <2>1, <2>2
<1>4. Least(Due) = start
  <2>1. start \in Due
    BY <1>1, <1>2, <1>3
  <2>2. start <= Least(Due)
    BY <1>1, <1>2
  <2>3. Least(Due) <= start /\ start \in Nat /\ Least(Due) \in Nat
    BY <1>1, <1>2, <2>1
  <2>. HIDE DEF start
  <2>4. QED
    BY <2>2, <2>3
<1>5. QED
  BY <1>1, <1>2, <1>3, <1>4

\* Where a batch goes next is where it may be.
LEMMA NextTargetType ==
    ASSUME CadenceTypeOK, producer.pc \in {"slot", "judge"}, producer.last \in Slots
    PROVE  /\ NextTarget \in [pc : {"rest", "slot", "judge", "conflict"},
                              last : Times, at : Times, contract : Contracts]
           /\ NextTarget.pc # "rest" => NextTarget.last = producer.last
<1>. DEFINE P == [pc : {"rest", "slot", "judge", "conflict"},
                  last : Times, at : Times, contract : Contracts]
<1>1. producer \in P
  BY DEF CadenceTypeOK
<1>2. Resting \in P /\ Resting.pc = "rest"
  BY CadenceNumbers DEF Resting, Times
<1>3. CASE producer.contract < Cardinality(Contracts)
  <2>1. producer.contract + 1 \in Contracts
    BY <1>1, <1>3, CadenceNumbers
  <2>2. NextTarget = [producer EXCEPT !.pc = "slot", !.contract = @ + 1]
    BY <1>3 DEF NextTarget
  <2>3. QED
    BY <1>1, <2>1, <2>2
<1>4. CASE ~(producer.contract < Cardinality(Contracts)) /\ producer.at < producer.last
  <2>1. producer.at + 1 \in Times
    BY <1>1, <1>4, CadenceNumbers DEF Slots, Times
  <2>2. NextTarget = [producer EXCEPT !.pc = "slot", !.contract = 1, !.at = @ + 1]
    BY <1>4 DEF NextTarget
  <2>3. QED
    BY <1>1, <2>1, <2>2, CadenceNumbers
<1>5. CASE ~(producer.contract < Cardinality(Contracts)) /\ ~(producer.at < producer.last)
  <2>1. NextTarget = Resting
    BY <1>5 DEF NextTarget
  <2>2. QED
    BY <1>2, <2>1
<1>6. QED
  BY <1>3, <1>4, <1>5

\* The batch in progress works on a slot, up to one that exists.
LEMMA ProducerInSlots ==
    ASSUME CadenceTypeOK, NothingLeftBehind, producer.pc \in {"slot", "judge"}
    PROVE  producer.at \in Slots /\ producer.last \in Slots /\ producer.contract \in Contracts
BY CadenceNumbers DEF CadenceTypeOK, NothingLeftBehind, Slots, Times

\* Type correctness of the cadence, one action after another.
LEMMA CadenceTypeStep ==
    ASSUME CadenceTypeOK, NoSlotSkipped, NothingLeftBehind, SettlesTheDue, CadenceNext
    PROVE  CadenceTypeOK'
<1>. DEFINE P == [pc : {"rest", "slot", "judge", "conflict"},
                  last : Times, at : Times, contract : Contracts]
            T(n) == [pc : {"rest", "work"}, asof : 0..n, todo : SUBSET (Slots \X Contracts)]
<1>. USE CadenceNumbers
<1>1. /\ now \in Times /\ facts \in [Slots -> 0..MaxQuotes]
      /\ slot \in [Slots -> [Contracts -> 0..NoSlot]]
      /\ result \in [Slots -> [Contracts -> ResultRow]]
      /\ outcome \in [Slots -> [Contracts -> OutcomeRow]]
      /\ producer \in P /\ settler \in T(now) /\ Asleep \in T(now)
      /\ Resting \in P
  BY DEF CadenceTypeOK, Asleep, Resting, Times
<1>2. CASE StartBatch
  <2>1. producer' \in P
    BY <1>2, DueIsNext DEF StartBatch
  <2>2. QED
    BY <1>1, <1>2, <2>1 DEF StartBatch, CadenceTypeOK
<1>3. CASE RecordSlot
  <2>0. producer.pc = "slot"
    BY <1>3 DEF RecordSlot
  <2>1. /\ producer.at \in Slots /\ producer.last \in Slots /\ producer.contract \in Contracts
        /\ NextTarget \in P
    BY <2>0, ProducerInSlots, NextTargetType
  <2>2. producer' \in P
    <3>1. producer' \in {NextTarget, [producer EXCEPT !.pc = "judge"],
                         [producer EXCEPT !.pc = "conflict"]}
      BY <1>3 DEF RecordSlot
    <3>2. QED
      BY <1>1, <2>1, <3>1
  <2>3. facts[producer.at] \in 0..NoSlot
    <3>1. facts[producer.at] \in 0..MaxQuotes /\ MaxQuotes \in Nat
      BY <1>1, <2>1
    <3>2. QED
      BY <3>1 DEF NoSlot
  <2>4. slot' \in [Slots -> [Contracts -> 0..NoSlot]]
    <3>1. \/ slot' = slot
          \/ slot' = [slot EXCEPT ![producer.at][producer.contract] = facts[producer.at]]
      BY <1>3 DEF RecordSlot
    <3>2. QED
      BY <1>1, <2>1, <2>3, <3>1
  <2>5. QED
    BY <1>1, <1>3, <2>2, <2>4 DEF RecordSlot, CadenceTypeOK
<1>4. CASE Judge
  <2>1. /\ producer.at \in Slots /\ producer.last \in Slots /\ producer.contract \in Contracts
        /\ NextTarget \in P
    BY <1>4, ProducerInSlots, NextTargetType DEF Judge
  <2>2. producer' \in P
    BY <1>4, <2>1 DEF Judge
  <2>3. PICK k \in {"missed", "invalid", "forecast"} :
           result' = [result EXCEPT ![producer.at][producer.contract] =
             [kind |-> k, counted |-> IF k = "forecast"
                                      THEN Visible(producer.at, producer.contract) ELSE {}]]
    BY <1>4 DEF Judge
  <2>4. [kind |-> k, counted |-> IF k = "forecast"
                                 THEN Visible(producer.at, producer.contract) ELSE {}]
           \in ResultRow
    BY DEF ResultRow, Visible
  <2>5. result' \in [Slots -> [Contracts -> ResultRow]]
    BY <1>1, <2>1, <2>3, <2>4
  <2>6. QED
    BY <1>1, <1>4, <2>2, <2>5 DEF Judge, CadenceTypeOK
<1>5. CASE BatchStops
  BY <1>1, <1>5 DEF BatchStops, CadenceTypeOK
<1>6. CASE StartSettling
  BY <1>1, <1>6 DEF StartSettling, CadenceTypeOK, Pending, Times
<1>7. CASE SettleOne
  <2>. DEFINE k == CHOOSE j \in settler.todo : \A i \in settler.todo : Before(j, i)
  <2>1. settler' \in T(now)
    <3>1. settler' \in {Asleep, [settler EXCEPT !.todo = settler.todo \ {k}]}
      BY <1>7 DEF SettleOne
    <3>2. [settler EXCEPT !.todo = settler.todo \ {k}] \in T(now)
      BY <1>1
    <3>3. QED
      BY <1>1, <3>1, <3>2
  <2>2. outcome' \in [Slots -> [Contracts -> OutcomeRow]]
    <3>1. \/ outcome' = outcome
          \/ \E st \in {"SETTLED", "UNAVAILABLE"} :
               outcome' = [outcome EXCEPT ![k[1]][k[2]] = [status |-> st, at |-> settler.asof]]
      BY <1>7 DEF SettleOne, RecordOutcome
    <3>2. settler.asof \in Times
      BY <1>1 DEF Times
    <3>3. \A st \in {"SETTLED", "UNAVAILABLE"} :
             [status |-> st, at |-> settler.asof] \in OutcomeRow
      BY <3>2 DEF OutcomeRow
    <3>4. QED
      BY <1>1, <3>1, <3>3
  <2>3. QED
    BY <1>1, <1>7, <2>1, <2>2 DEF SettleOne, CadenceTypeOK
<1>8. CASE SettlerStops
  BY <1>1, <1>8 DEF SettlerStops, CadenceTypeOK
<1>9. CASE Passes
  <2>1. now' \in Times /\ settler \in T(now')
    BY <1>1, <1>9 DEF Passes, Times
  <2>2. QED
    BY <1>1, <1>9, <2>1 DEF Passes, CadenceTypeOK
<1>10. CASE QuoteArrives
  <2>1. facts' \in [Slots -> 0..MaxQuotes]
    BY <1>1, <1>10 DEF QuoteArrives
  <2>2. QED
    BY <1>1, <1>10, <2>1 DEF QuoteArrives, CadenceTypeOK
<1>11. QED
  BY <1>2, <1>3, <1>4, <1>5, <1>6, <1>7, <1>8, <1>9, <1>10 DEF CadenceNext

\* The obligations grow and stay without a gap: a batch records a slot when all
\* before it are recorded.
LEMMA NoSlotSkippedStep ==
    ASSUME CadenceTypeOK, NoSlotSkipped, NothingLeftBehind, ResultsHaveSlots, CadenceNext
    PROVE  NoSlotSkipped' /\ NothingLeftBehind' /\ ResultsHaveSlots'
<1>. PICK at, con : at = producer.at /\ con = producer.contract
  OBVIOUS
<1>0. /\ now \in Times /\ slot \in [Slots -> [Contracts -> 0..NoSlot]]
      /\ result \in [Slots -> [Contracts -> ResultRow]]
      /\ producer \in [pc : {"rest", "slot", "judge", "conflict"},
                       last : Times, at : Times, contract : Contracts]
      /\ Resting.pc = "rest" /\ Slots = First..MaxTime
  BY DEF CadenceTypeOK, Resting, Slots
<1>1. ASSUME slot' = slot, producer' = producer \/ producer'.pc = "rest",
             result' = result
      PROVE  NoSlotSkipped' /\ NothingLeftBehind' /\ ResultsHaveSlots'
  <2>1. \A c \in Contracts : Obligated(c)' = Obligated(c)
    BY <1>1 DEF Obligated
  <2>2. NoSlotSkipped' /\ ResultsHaveSlots'
    BY <1>1, <2>1 DEF NoSlotSkipped, ResultsHaveSlots
  <2>3. NothingLeftBehind'
    BY <1>0, <1>1, <2>1 DEF NothingLeftBehind
  <2>4. QED
    BY <2>2, <2>3
<1>2. CASE StartBatch
  <2>1. /\ slot' = slot /\ result' = result
        /\ producer' = [pc |-> "slot", last |-> Latest(Due), at |-> Least(Due), contract |-> 1]
        /\ Due # {}
    BY <1>2 DEF StartBatch
  <2>2. \A c \in Contracts : Obligated(c)' = Obligated(c)
    BY <2>1 DEF Obligated
  <2>3. NothingLeftBehind'
    <3>1. /\ First <= Least(Due) /\ Least(Due) <= Latest(Due)
          /\ \A c \in Contracts : First..(Least(Due) - 1) \subseteq Obligated(c)
      BY <1>0, <2>1, DueIsNext
    <3>2. \A c \in Contracts : ~(c < 1)
      BY CadenceNumbers
    <3>3. QED
      BY <2>1, <2>2, <3>1, <3>2 DEF NothingLeftBehind
  <2>4. QED
    BY <2>1, <2>2, <2>3 DEF NoSlotSkipped, ResultsHaveSlots
<1>3. ASSUME producer.pc \in {"slot", "judge"}, producer' = NextTarget,
             at \in Obligated(con)', \A c \in Contracts : Obligated(c) \subseteq Obligated(c)'
      PROVE  NothingLeftBehind'
  <2>1. /\ at \in Slots /\ producer.last \in Slots /\ con \in Contracts
        /\ First <= at /\ at <= producer.last
        /\ \A c \in Contracts : /\ First..(at - 1) \subseteq Obligated(c)'
                                /\ c < con => at \in Obligated(c)'
    BY <1>3, ProducerInSlots DEF NothingLeftBehind
  <2>2. CASE con < Cardinality(Contracts)
    <3>1. /\ NextTarget.pc = "slot" /\ NextTarget.at = at /\ NextTarget.last = producer.last
          /\ NextTarget.contract = con + 1
      BY <1>0, <2>2 DEF NextTarget
    <3>2. \A c \in Contracts : c < con + 1 => at \in Obligated(c)'
      <4>1. \A c \in Contracts : c \in Nat /\ con \in Nat
        BY <2>1, CadenceNumbers
      <4>2. \A c \in Contracts : c < con + 1 => c < con \/ c = con
        BY <4>1
      <4>3. QED
        BY <1>3, <2>1, <4>2
    <3>3. QED
      BY <1>3, <2>1, <3>1, <3>2 DEF NothingLeftBehind
  <2>3. CASE ~(con < Cardinality(Contracts)) /\ at < producer.last
    <3>1. /\ NextTarget.pc = "slot" /\ NextTarget.at = at + 1 /\ NextTarget.last = producer.last
          /\ NextTarget.contract = 1
      BY <1>0, <2>3 DEF NextTarget
    <3>2. \A c \in Contracts : at \in Obligated(c)'
      <4>1. \A c \in Contracts : c \in Nat /\ con \in Nat /\ c <= con
        BY <2>1, <2>3, CadenceNumbers
      <4>2. \A c \in Contracts : c < con \/ c = con
        BY <4>1
      <4>3. QED
        BY <1>3, <2>1, <4>2
    <3>3. \A c \in Contracts : First..at \subseteq Obligated(c)'
      <4>1. at \in Nat /\ First \in Nat
        BY <2>1, CadenceNumbers
      <4>2. First..at \subseteq (First..(at - 1)) \cup {at}
        BY <4>1
      <4>3. QED
        BY <2>1, <3>2, <4>2
    <3>4. /\ First <= at + 1 /\ at + 1 <= producer.last /\ (at + 1) - 1 = at
          /\ \A c \in Contracts : ~(c < 1)
      <4>1. at \in Nat /\ First \in Nat /\ producer.last \in Nat
        BY <2>1, CadenceNumbers
      <4>2. QED
        BY <2>1, <2>3, <4>1, CadenceNumbers
    <3>5. QED
      BY <1>3, <3>1, <3>3, <3>4 DEF NothingLeftBehind
  <2>4. CASE ~(con < Cardinality(Contracts)) /\ ~(at < producer.last)
    <3>1. NextTarget.pc = "rest"
      BY <1>0, <2>4 DEF NextTarget
    <3>2. QED
      BY <1>3, <3>1 DEF NothingLeftBehind
  <2>5. QED
    BY <2>2, <2>3, <2>4
<1>4. CASE RecordSlot
  <2>1. /\ producer.pc = "slot" /\ at \in Slots /\ con \in Contracts /\ result' = result
    BY <1>4, ProducerInSlots DEF RecordSlot
  <2>2. CASE result[at][con] # NoResult
    <3>1. slot' = slot /\ producer' = NextTarget
      BY <1>4, <2>2 DEF RecordSlot
    <3>2. \A c \in Contracts : Obligated(c)' = Obligated(c)
      BY <3>1 DEF Obligated
    <3>3. at \in Obligated(con)'
      BY <2>1, <2>2, <3>2 DEF ResultsHaveSlots
    <3>4. QED
      BY <1>3, <2>1, <3>1, <3>2, <3>3 DEF NoSlotSkipped, ResultsHaveSlots
  <2>3. CASE result[at][con] = NoResult /\ slot[at][con] \in {NoSlot, facts[at]}
    <3>1. /\ slot' = [slot EXCEPT ![at][con] = facts[at]]
          /\ producer' = [producer EXCEPT !.pc = "judge"]
      BY <1>4, <2>3 DEF RecordSlot
    <3>2. facts[at] # NoSlot
      <4>1. facts[at] \in 0..MaxQuotes
        BY <2>1 DEF CadenceTypeOK
      <4>2. QED
        BY <4>1, CadenceNumbers
    <3>3. \A c \in Contracts : Obligated(c)' = IF c = con THEN Obligated(c) \cup {at}
                                               ELSE Obligated(c)
      BY <1>0, <2>1, <3>1, <3>2 DEF Obligated
    <3>4. \A c \in Contracts : First..(at - 1) \subseteq Obligated(c)
      BY <2>1 DEF NothingLeftBehind
    <3>5. NoSlotSkipped'
      <4>1. SUFFICES ASSUME NEW c \in Contracts, NEW s \in Slots, s \in Obligated(c)'
                     PROVE  First..s \subseteq Obligated(c)'
        BY DEF NoSlotSkipped
      <4>2. CASE s \in Obligated(c)
        BY <3>3, <4>2 DEF NoSlotSkipped
      <4>3. CASE s \notin Obligated(c)
        <5>1. s = at /\ c = con
          BY <3>3, <4>1, <4>3
        <5>2. First..at \subseteq (First..(at - 1)) \cup {at}
          BY <1>0, <2>1
        <5>3. QED
          BY <2>1, <3>3, <3>4, <5>1, <5>2
      <4>4. QED
        BY <4>2, <4>3
    <3>6. NothingLeftBehind'
      <4>1. /\ producer'.pc = "judge" /\ producer'.at = at /\ producer'.last = producer.last
            /\ producer'.contract = con
        BY <1>0, <3>1
      <4>2. QED
        BY <2>1, <3>3, <4>1 DEF NothingLeftBehind
    <3>7. QED
      BY <2>1, <3>3, <3>5, <3>6 DEF ResultsHaveSlots
  <2>4. CASE result[at][con] = NoResult /\ ~(slot[at][con] \in {NoSlot, facts[at]})
    <3>1. slot' = slot /\ producer' = [producer EXCEPT !.pc = "conflict"]
      BY <1>4, <2>4 DEF RecordSlot
    <3>2. producer'.pc = "conflict" /\ \A c \in Contracts : Obligated(c)' = Obligated(c)
      BY <1>0, <3>1 DEF Obligated
    <3>3. QED
      BY <2>1, <3>2 DEF NoSlotSkipped, NothingLeftBehind, ResultsHaveSlots
  <2>5. QED
    BY <2>2, <2>3, <2>4
<1>5. CASE Judge
  <2>1. /\ producer.pc = "judge" /\ at \in Slots /\ con \in Contracts
        /\ slot' = slot /\ producer' = NextTarget
    BY <1>5, ProducerInSlots DEF Judge
  <2>2. at \in Obligated(con) /\ \A c \in Contracts : Obligated(c)' = Obligated(c)
    BY <2>1 DEF NothingLeftBehind, Obligated
  <2>3. PICK row : result' = [result EXCEPT ![at][con] = row]
    BY <1>5 DEF Judge
  <2>4. \A s \in Slots, c \in Contracts : result'[s][c] = result[s][c] \/ (s = at /\ c = con)
    BY <1>0, <2>1, <2>3
  <2>5. ResultsHaveSlots'
    BY <2>2, <2>4 DEF ResultsHaveSlots
  <2>6. QED
    BY <1>3, <2>1, <2>2, <2>5 DEF NoSlotSkipped
<1>6. CASE BatchStops
  BY <1>0, <1>1, <1>6 DEF BatchStops
<1>7. CASE StartSettling \/ SettleOne \/ SettlerStops \/ Passes \/ QuoteArrives
  BY <1>1, <1>7 DEF StartSettling, SettleOne, SettlerStops, Passes, QuoteArrives
<1>8. QED
  BY <1>2, <1>4, <1>5, <1>6, <1>7 DEF CadenceNext
\* Every set of slots of contracts has an oldest, and only one.
LEMMA OldestIsFirst ==
    ASSUME NEW S \in SUBSET (Slots \X Contracts), S # {}
    PROVE  LET k == CHOOSE j \in S : \A i \in S : Before(j, i)
           IN  k \in S /\ \A i \in S : Before(k, i)
<1>. DEFINE A == {j[1] : j \in S}
            s == Least(A)
            B == {j[2] : j \in {i \in S : i[1] = s}}
            c == Least(B)
<1>1. Slots \subseteq Nat /\ Contracts \subseteq Nat
  BY CadenceNumbers
<1>2. A \in SUBSET Nat /\ A # {}
  BY <1>1
<1>3. s \in A /\ \A y \in A : s <= y
  BY <1>2, LeastIsLeast
<1>. HIDE DEF s
<1>4. B \in SUBSET Nat /\ B # {}
  BY <1>1, <1>3
<1>5. c \in B /\ \A y \in B : c <= y
  BY <1>4, LeastIsLeast
<1>. HIDE DEF c
<1>6. <<s, c>> \in S
  <2>1. PICK j \in S : j[1] = s /\ j[2] = c
    BY <1>5
  <2>2. j = <<s, c>>
    BY <2>1
  <2>3. QED
    BY <2>1, <2>2
<1>7. ASSUME NEW i \in S PROVE Before(<<s, c>>, i)
  <2>1. s <= i[1] /\ i[1] \in Nat /\ s \in Nat
    BY <1>1, <1>2, <1>3
  <2>2. CASE i[1] = s
    <3>1. i[2] \in B
      BY <2>2
    <3>2. QED
      BY <1>5, <2>2, <3>1 DEF Before
  <2>3. CASE i[1] # s
    BY <2>1, <2>3 DEF Before
  <2>4. QED
    BY <2>2, <2>3
<1>8. QED
  BY <1>6, <1>7

\* A settlement that starts has work: the oldest slot fits every batch.
LEMMA BatchHasWork ==
    ASSUME CadenceTypeOK, Pending # {}
    PROVE  {k \in Pending : Cardinality({j \in Pending : Before(j, k)}) <= BatchSize} # {}
<1>. DEFINE k == CHOOSE j \in Pending : \A i \in Pending : Before(j, i)
<1>1. Pending \in SUBSET (Slots \X Contracts)
  BY DEF Pending
<1>2. k \in Pending /\ \A i \in Pending : Before(k, i)
  BY <1>1, OldestIsFirst
<1>. HIDE DEF k
<1>3. ASSUME NEW j \in Pending, Before(j, k)
      PROVE  j = k
  <2>1. /\ j[1] \in Nat /\ j[2] \in Nat /\ k[1] \in Nat /\ k[2] \in Nat
        /\ j = <<j[1], j[2]>> /\ k = <<k[1], k[2]>>
    <3>1. j \in Slots \X Contracts /\ k \in Slots \X Contracts
      BY <1>1, <1>2
    <3>2. Slots \subseteq Nat /\ Contracts \subseteq Nat
      BY CadenceNumbers
    <3>3. \A x \in Slots \X Contracts : /\ x[1] \in Slots /\ x[2] \in Contracts
                                        /\ x = <<x[1], x[2]>>
      OBVIOUS
    <3>4. QED
      BY <3>1, <3>2, <3>3
  <2>2. j[1] = k[1] /\ j[2] = k[2]
    BY <1>2, <1>3, <2>1 DEF Before
  <2>3. QED
    BY <2>1, <2>2
<1>4. {j \in Pending : Before(j, k)} = {k}
  BY <1>2, <1>3
<1>5. Cardinality({j \in Pending : Before(j, k)}) <= BatchSize
  <2>1. Cardinality({k}) = 1
    BY FS_Singleton
  <2>2. QED
    BY <1>4, <2>1, CadenceNumbers
<1>6. QED
  BY <1>2, <1>5

\* Outcomes are given once, to what was due, and what a prior counted it could
\* know.
LEMMA OutcomesStep ==
    ASSUME CadenceTypeOK, NothingLeftBehind, SettlesTheDue, PriorsReadThePast,
           UnavailableHadItsGrace, CadenceNext
    PROVE  SettlesTheDue' /\ PriorsReadThePast' /\ UnavailableHadItsGrace'
<1>0. /\ now \in Nat /\ settler.asof \in Nat /\ settler.todo \in SUBSET (Slots \X Contracts)
      /\ settler \in [pc : {"rest", "work"}, asof : 0..now, todo : SUBSET (Slots \X Contracts)]
      /\ result \in [Slots -> [Contracts -> ResultRow]]
      /\ outcome \in [Slots -> [Contracts -> OutcomeRow]]
      /\ Asleep.pc = "rest" /\ Slots \subseteq Nat /\ Horizon \in Nat /\ Grace \in Nat
      /\ \A s \in Slots, c \in Contracts :
           outcome[s][c].at \in Nat /\ result[s][c].counted \in SUBSET Slots
  <2>1. Slots \subseteq Nat /\ Times \subseteq Nat /\ Horizon \in Nat /\ Grace \in Nat
    BY CadenceNumbers
  <2>2. /\ settler \in [pc : {"rest", "work"}, asof : 0..now, todo : SUBSET (Slots \X Contracts)]
        /\ result \in [Slots -> [Contracts -> ResultRow]]
        /\ outcome \in [Slots -> [Contracts -> OutcomeRow]]
        /\ now \in Times
    BY DEF CadenceTypeOK
  <2>3. \A row \in OutcomeRow : row.at \in Nat
    BY <2>1 DEF OutcomeRow
  <2>4. \A row \in ResultRow : row.counted \in SUBSET Slots
    BY DEF ResultRow
  <2>5. settler.asof \in Nat
    BY <2>1, <2>2
  <2>6. Asleep.pc = "rest"
    BY DEF Asleep
  <2>7. QED
    BY <2>1, <2>2, <2>3, <2>4, <2>5, <2>6
<1>1. ASSUME settler' = settler \/ settler'.pc = "rest", result' = result, outcome' = outcome
      PROVE  SettlesTheDue' /\ PriorsReadThePast' /\ UnavailableHadItsGrace'
  BY <1>1 DEF SettlesTheDue, PriorsReadThePast, UnavailableHadItsGrace
<1>2. CASE StartBatch \/ RecordSlot \/ BatchStops \/ SettlerStops \/ Passes \/ QuoteArrives
  BY <1>0, <1>1, <1>2
     DEF StartBatch, RecordSlot, BatchStops, SettlerStops, Passes, QuoteArrives
<1>3. CASE Judge
  <2>1. PICK at, con : at = producer.at /\ con = producer.contract
    OBVIOUS
  <2>2. at \in Slots /\ con \in Contracts /\ settler' = settler /\ outcome' = outcome
    BY <1>3, <2>1, ProducerInSlots DEF Judge
  <2>3. PICK row : /\ result' = [result EXCEPT ![at][con] = row]
                   /\ row.counted \in {{}, Visible(at, con)}
    <3>1. PICK k : result' = [result EXCEPT ![at][con] =
                     [kind |-> k, counted |-> IF k = "forecast" THEN Visible(at, con) ELSE {}]]
      BY <1>3, <2>1 DEF Judge
    <3>. DEFINE row == [kind |-> k,
                        counted |-> IF k = "forecast" THEN Visible(at, con) ELSE {}]
    <3>2. row.counted \in {{}, Visible(at, con)}
      OBVIOUS
    <3>3. result' = [result EXCEPT ![at][con] = row]
      BY <3>1
    <3>. HIDE DEF row
    <3>4. QED
      BY <3>2, <3>3
  <2>4. \A s \in Slots, c \in Contracts :
           result'[s][c] = IF s = at /\ c = con THEN row ELSE result[s][c]
    BY <1>0, <2>2, <2>3
  <2>5. PriorsReadThePast'
    <3>1. SUFFICES ASSUME NEW s \in Slots, NEW c \in Contracts, NEW p \in result'[s][c].counted
                   PROVE  /\ p + Horizon <= s
                          /\ outcome[p][c].status = "SETTLED" /\ outcome[p][c].at <= s
      BY <2>2 DEF PriorsReadThePast
    <3>2. CASE s = at /\ c = con
      <4>1. p \in Visible(at, con)
        BY <2>3, <2>4, <3>1, <3>2
      <4>2. p \in Slots /\ outcome[p][c].status = "SETTLED" /\ outcome[p][c].at <= s
        BY <3>2, <4>1 DEF Visible
      <4>3. p + Horizon <= outcome[p][c].at
        BY <4>2 DEF SettlesTheDue, NoOutcome
      <4>4. QED
        BY <1>0, <4>2, <4>3
    <3>3. CASE ~(s = at /\ c = con)
      BY <2>4, <3>1, <3>3 DEF PriorsReadThePast
    <3>4. QED
      BY <3>2, <3>3
  <2>6. QED
    BY <2>2, <2>5 DEF SettlesTheDue, UnavailableHadItsGrace
<1>4. CASE StartSettling
  <2>1. /\ Pending # {} /\ outcome' = outcome /\ result' = result
        /\ settler' = [pc |-> "work", asof |-> now,
                       todo |-> {k \in Pending :
                         Cardinality({j \in Pending : Before(j, k)}) <= BatchSize}]
    BY <1>4 DEF StartSettling
  <2>2. /\ settler'.todo # {} /\ settler'.asof = now
        /\ \A k \in settler'.todo : k \in Pending
    BY <2>1, BatchHasWork
  <2>3. \A k \in settler'.todo : k[1] + Horizon <= now /\ outcome[k[1]][k[2]] = NoOutcome
    BY <2>2 DEF Pending
  <2>4. SettlesTheDue'
    BY <2>1, <2>2, <2>3 DEF SettlesTheDue
  <2>5. QED
    BY <2>1, <2>4 DEF PriorsReadThePast, UnavailableHadItsGrace
<1>5. CASE SettleOne
  <2>1. PICK k, asof : /\ k = CHOOSE j \in settler.todo : \A i \in settler.todo : Before(j, i)
                       /\ asof = settler.asof
    OBVIOUS
  <2>2. /\ k \in settler.todo /\ k[1] \in Slots /\ k[2] \in Contracts
        /\ k[1] + Horizon <= asof /\ outcome[k[1]][k[2]] = NoOutcome /\ asof \in Nat
    <3>1. settler.pc = "work"
      BY <1>5 DEF SettleOne
    <3>2. settler.todo # {}
      BY <3>1 DEF SettlesTheDue
    <3>3. k \in settler.todo
      BY <1>0, <2>1, <3>2, OldestIsFirst
    <3>4. QED
      BY <1>0, <2>1, <3>1, <3>3 DEF SettlesTheDue
  <2>3. /\ result' = result
        /\ \/ outcome' = outcome
           \/ outcome' = [outcome EXCEPT ![k[1]][k[2]] = [status |-> "SETTLED", at |-> asof]]
           \/ /\ outcome' = [outcome EXCEPT ![k[1]][k[2]] =
                               [status |-> "UNAVAILABLE", at |-> asof]]
              /\ ~(asof < k[1] + Horizon + Grace)
        /\ settler' = IF settler.todo \ {k} = {} THEN Asleep
                      ELSE [settler EXCEPT !.todo = settler.todo \ {k}]
    BY <1>5, <2>1 DEF SettleOne, RecordOutcome
  <2>4. PICK new : /\ \A s \in Slots, c \in Contracts :
                        outcome'[s][c] = IF s = k[1] /\ c = k[2] THEN new ELSE outcome[s][c]
                   /\ \/ new = NoOutcome
                      \/ new = [status |-> "SETTLED", at |-> asof]
                      \/ /\ new = [status |-> "UNAVAILABLE", at |-> asof]
                         /\ ~(asof < k[1] + Horizon + Grace)
    <3>. DEFINE Puts(new) == outcome' = [outcome EXCEPT ![k[1]][k[2]] = new]
                Only(new) == \A s \in Slots, c \in Contracts :
                  outcome'[s][c] = IF s = k[1] /\ c = k[2] THEN new ELSE outcome[s][c]
    <3>1. \A new : Puts(new) => Only(new)
      BY <1>0, <2>2
    <3>2. outcome' = outcome => Only(NoOutcome)
      BY <2>2
    <3>. HIDE DEF Puts, Only
    <3>3. CASE outcome' = outcome
      BY <3>2, <3>3 DEF Only
    <3>4. CASE outcome' = [outcome EXCEPT ![k[1]][k[2]] = [status |-> "SETTLED", at |-> asof]]
      <4>1. PICK new : new = [status |-> "SETTLED", at |-> asof]
        OBVIOUS
      <4>2. Puts(new)
        BY <3>4, <4>1 DEF Puts
      <4>3. Only(new)
        BY <3>1, <4>2
      <4>4. QED
        BY <4>1, <4>3 DEF Only
    <3>5. CASE /\ outcome' = [outcome EXCEPT ![k[1]][k[2]] =
                                [status |-> "UNAVAILABLE", at |-> asof]]
               /\ ~(asof < k[1] + Horizon + Grace)
      <4>1. PICK new : new = [status |-> "UNAVAILABLE", at |-> asof]
        OBVIOUS
      <4>2. Puts(new)
        BY <3>5, <4>1 DEF Puts
      <4>3. Only(new)
        BY <3>1, <4>2
      <4>4. QED
        BY <3>5, <4>1, <4>3 DEF Only
    <3>6. QED
      BY <2>3, <3>3, <3>4, <3>5
  <2>5. SettlesTheDue'
    <3>1. settler'.pc = "work" =>
            /\ settler'.todo # {}
            /\ \A i \in settler'.todo : /\ i[1] + Horizon <= settler'.asof
                                        /\ outcome'[i[1]][i[2]] = NoOutcome
      <4>1. SUFFICES ASSUME settler.todo \ {k} # {}
                     PROVE  \A i \in settler'.todo : /\ i[1] + Horizon <= settler'.asof
                                                     /\ outcome'[i[1]][i[2]] = NoOutcome
        BY <1>0, <2>3
      <4>2. settler'.todo = settler.todo \ {k} /\ settler'.asof = asof
        BY <1>0, <2>1, <2>3, <4>1
      <4>3. settler.pc = "work"
        BY <1>5 DEF SettleOne
      <4>4. TAKE i \in settler'.todo
      <4>5. /\ i[1] + Horizon <= asof /\ outcome[i[1]][i[2]] = NoOutcome
            /\ i[1] \in Slots /\ i[2] \in Contracts /\ ~(i[1] = k[1] /\ i[2] = k[2])
        BY <1>0, <2>1, <2>2, <4>2, <4>3 DEF SettlesTheDue
      <4>6. QED
        BY <2>4, <4>2, <4>5
    <3>2. \A s \in Slots, c \in Contracts :
            outcome'[s][c] # NoOutcome => /\ outcome'[s][c].status # "none"
                                          /\ s + Horizon <= outcome'[s][c].at
      BY <2>2, <2>4 DEF SettlesTheDue
    <3>3. QED
      BY <3>1, <3>2 DEF SettlesTheDue
  <2>6. PriorsReadThePast'
    <3>1. SUFFICES ASSUME NEW s \in Slots, NEW c \in Contracts, NEW p \in result[s][c].counted
                   PROVE  /\ p + Horizon <= s
                          /\ outcome'[p][c].status = "SETTLED" /\ outcome'[p][c].at <= s
      BY <2>3 DEF PriorsReadThePast
    <3>2. /\ p + Horizon <= s /\ p \in Slots
          /\ outcome[p][c].status = "SETTLED" /\ outcome[p][c].at <= s
      BY <1>0 DEF PriorsReadThePast
    <3>3. outcome[p][c] # NoOutcome
      BY <3>2 DEF NoOutcome
    <3>4. QED
      BY <2>2, <2>4, <3>2, <3>3
  <2>7. UnavailableHadItsGrace'
    <3>1. SUFFICES ASSUME NEW s \in Slots, NEW c \in Contracts,
                          outcome'[s][c].status = "UNAVAILABLE"
                   PROVE  outcome'[s][c].at >= s + Horizon + Grace
      BY DEF UnavailableHadItsGrace
    <3>2. CASE s = k[1] /\ c = k[2]
      <4>1. new = [status |-> "UNAVAILABLE", at |-> asof] /\ ~(asof < s + Horizon + Grace)
        BY <2>4, <3>1, <3>2 DEF NoOutcome
      <4>2. outcome'[s][c].at = asof /\ s \in Nat
        BY <1>0, <2>4, <3>2, <4>1
      <4>3. QED
        BY <1>0, <2>2, <4>1, <4>2
    <3>3. CASE ~(s = k[1] /\ c = k[2])
      BY <2>4, <3>1, <3>3 DEF UnavailableHadItsGrace
    <3>4. QED
      BY <3>2, <3>3
  <2>8. QED
    BY <2>5, <2>6, <2>7
<1>6. QED
  BY <1>2, <1>3, <1>4, <1>5 DEF CadenceNext

\* Nothing is recorded, counted or settled at first.
LEMMA CadenceInitially == CadenceInit => CadenceInvariant
<1>. SUFFICES ASSUME CadenceInit PROVE CadenceInvariant
  OBVIOUS
<1>1. /\ now = 0 /\ facts = [b \in Slots |-> 0]
      /\ slot = [s \in Slots |-> [c \in Contracts |-> NoSlot]]
      /\ result = [s \in Slots |-> [c \in Contracts |-> NoResult]]
      /\ outcome = [s \in Slots |-> [c \in Contracts |-> NoOutcome]]
      /\ producer = Resting /\ settler = Asleep
  BY DEF CadenceInit
<1>2. CadenceTypeOK
  <2>1. NoResult \in ResultRow
    BY DEF NoResult, ResultRow
  <2>2. 0 \in Times
    BY CadenceNumbers DEF Times
  <2>3. NoOutcome \in OutcomeRow
    BY <2>2 DEF NoOutcome, OutcomeRow
  <2>4. 0 \in 0..MaxQuotes
    BY CadenceNumbers
  <2>5. Resting \in [pc : {"rest", "slot", "judge", "conflict"},
                     last : Times, at : Times, contract : Contracts]
    BY <2>2, CadenceNumbers DEF Resting
  <2>6. Asleep \in [pc : {"rest", "work"}, asof : 0..now, todo : SUBSET (Slots \X Contracts)]
    BY <1>1 DEF Asleep
  <2>7. QED
    BY <1>1, <2>1, <2>2, <2>3, <2>4, <2>5, <2>6, CadenceNumbers DEF CadenceTypeOK
<1>3. \A c \in Contracts : Obligated(c) = {}
  BY <1>1 DEF Obligated
<1>4. producer.pc = "rest" /\ settler.pc = "rest"
  BY <1>1 DEF Resting, Asleep
<1>5. NoSlotSkipped /\ NothingLeftBehind
  BY <1>3, <1>4 DEF NoSlotSkipped, NothingLeftBehind
<1>6. \A s \in Slots, c \in Contracts : result[s][c] = NoResult /\ outcome[s][c] = NoOutcome
  BY <1>1
<1>7. ResultsHaveSlots /\ SettlesTheDue
  BY <1>4, <1>6 DEF ResultsHaveSlots, SettlesTheDue
<1>8. PriorsReadThePast
  BY <1>6 DEF PriorsReadThePast, NoResult
<1>9. UnavailableHadItsGrace
  BY <1>6 DEF UnavailableHadItsGrace, NoOutcome
<1>10. QED
  BY <1>2, <1>5, <1>7, <1>8, <1>9 DEF CadenceInvariant

\* The conjunction is inductive.
LEMMA CadenceInvariantHolds == CadenceSpec => []CadenceInvariant
<1>1. CadenceInvariant /\ [CadenceNext]_cadenceVars => CadenceInvariant'
  <2>1. CadenceInvariant /\ UNCHANGED cadenceVars => CadenceInvariant'
    BY DEF CadenceInvariant, CadenceTypeOK, NoSlotSkipped, NothingLeftBehind, ResultsHaveSlots,
           SettlesTheDue, PriorsReadThePast, UnavailableHadItsGrace, Obligated, cadenceVars
  <2>2. QED
    BY <2>1, CadenceTypeStep, NoSlotSkippedStep, OutcomesStep DEF CadenceInvariant
<1>2. QED
  BY <1>1, CadenceInitially, PTL DEF CadenceSpec

\* Every state of the cadence is well formed.
THEOREM CadenceTypeCorrect == CadenceSpec => []CadenceTypeOK
BY CadenceInvariantHolds, PTL DEF CadenceInvariant

\* Recovery takes up every slot due since the activation: wherever batches stop
\* and however long none comes, the obligations of a contract have no gap.
THEOREM NoSlotIsSkipped == CadenceSpec => []NoSlotSkipped
BY CadenceInvariantHolds, PTL DEF CadenceInvariant

\* A prior counts only what was settled by its boundary, of slots whose horizon
\* had ended by then, and nothing it counted is taken back.
THEOREM PriorsKeepToThePast == CadenceSpec => []PriorsReadThePast
BY CadenceInvariantHolds, PTL DEF CadenceInvariant

\* No slot is declared unavailable before its grace is over.
THEOREM GraceIsGiven == CadenceSpec => []UnavailableHadItsGrace
BY CadenceInvariantHolds, PTL DEF CadenceInvariant
-----------------------------------------------------------------------------
(* CodexSession.                                                            *)

\* The places of a kind among what was emitted are finitely many positions.
LEMMA PlacesAreFinite ==
    ASSUME SessionTypeOK, NEW K
    PROVE  /\ Emission \in Seq(Events) /\ Len(Emission) \in Nat
           /\ DOMAIN Emission = 1..Len(Emission)
           /\ Places(K) \in SUBSET (1..Len(Emission)) /\ IsFiniteSet(Places(K))
           /\ Cardinality(Places(K)) \in Nat /\ Cardinality(Places(K)) <= Len(Emission)
<1>1. pipe \in Seq(Events) /\ events \in Seq(Events)
  BY DEF SessionTypeOK
<1>2. /\ Emission \in Seq(Events) /\ Len(Emission) \in Nat
      /\ DOMAIN Emission = 1..Len(Emission)
  BY <1>1 DEF Emission
<1>3. Places(K) \in SUBSET (1..Len(Emission))
  BY <1>2 DEF Places
<1>4. IsFiniteSet(1..Len(Emission)) /\ Cardinality(1..Len(Emission)) = Len(Emission)
  <2>1. PICK n \in Nat : n = Len(Emission)
    BY <1>2
  <2>2. IsFiniteSet(1..n) /\ Cardinality(1..n) = IF 1 > n THEN 0 ELSE n - 1 + 1
    BY FS_Interval
  <2>3. Cardinality(1..n) = n
    BY <2>2
  <2>4. QED
    BY <2>1, <2>2, <2>3
<1>5. IsFiniteSet(Places(K)) /\ Cardinality(Places(K)) <= Cardinality(1..Len(Emission))
  BY <1>3, <1>4, FS_Subset
<1>6. QED
  BY <1>2, <1>3, <1>4, <1>5, FS_CardinalityType

\* Emitting adds the last place of its kind; reading moves none.
LEMMA EmittingAddsAPlace ==
    ASSUME SessionTypeOK, NEW e \in Events, pipe' = Append(pipe, e), events' = events, NEW K
    PROVE  /\ Len(Emission) + 1 \notin Places(K)
           /\ Places(K)' = IF e \in K THEN Places(K) \cup {Len(Emission) + 1} ELSE Places(K)
           /\ pipe' \in Seq(Events)
<1>1. pipe \in Seq(Events) /\ events \in Seq(Events)
  BY DEF SessionTypeOK
<1>2. Emission' = Append(Emission, e)
  BY <1>1 DEF Emission
<1>3. /\ Emission \in Seq(Events) /\ Len(Emission) \in Nat
      /\ DOMAIN Emission = 1..Len(Emission)
      /\ Places(K) \in SUBSET (1..Len(Emission))
  BY PlacesAreFinite
<1>4. /\ DOMAIN Emission' = 1..(Len(Emission) + 1)
      /\ Emission'[Len(Emission) + 1] = e
      /\ \A i \in 1..Len(Emission) : Emission'[i] = Emission[i]
  BY <1>2, <1>3
<1>5. 1..(Len(Emission) + 1) = (1..Len(Emission)) \cup {Len(Emission) + 1}
  BY <1>3
<1>6. Len(Emission) + 1 \notin 1..Len(Emission)
  BY <1>3
<1>7. QED
  BY <1>1, <1>3, <1>4, <1>5, <1>6 DEF Places

\* An event read moves from the pipe to what was heard, and keeps its place.
LEMMA ReadingKeepsThePlaces ==
    ASSUME SessionTypeOK, NEW K,
           \/ pipe' = pipe /\ events' = events
           \/ pipe # <<>> /\ pipe' = Tail(pipe) /\ events' = Append(events, Head(pipe))
    PROVE  /\ Places(K)' = Places(K)
           /\ pipe' \in Seq(Events) /\ events' \in Seq(Events)
<1>1. pipe \in Seq(Events) /\ events \in Seq(Events)
  BY DEF SessionTypeOK
<1>2. CASE pipe' = pipe /\ events' = events
  BY <1>1, <1>2 DEF Places, Emission
<1>3. CASE pipe # <<>> /\ pipe' = Tail(pipe) /\ events' = Append(events, Head(pipe))
  <2>1. /\ Head(pipe) \in Events /\ Tail(pipe) \in Seq(Events)
        /\ Len(pipe) \in Nat \ {0} /\ Len(Tail(pipe)) = Len(pipe) - 1
        /\ \A i \in 1..(Len(pipe) - 1) : Tail(pipe)[i] = pipe[i + 1]
        /\ Head(pipe) = pipe[1]
    BY <1>1, <1>3
  <2>2. Append(events, Head(pipe)) \o Tail(pipe) = events \o pipe
    BY <1>1, <2>1
  <2>3. Emission' = Emission
    BY <1>3, <2>2 DEF Emission
  <2>4. Places(K)' = Places(K)
    BY <2>3 DEF Places
  <2>5. Append(events, Head(pipe)) \in Seq(Events)
    BY <1>1, <2>1
  <2>6. QED
    BY <1>3, <2>1, <2>4, <2>5
<1>4. QED
  BY <1>2, <1>3

\* The server works only before the end of the turn, so it says nothing behind
\* the notice.
LEMMA ServerWorksStep ==
    ASSUME SessionInvariant, ServerWorks
    PROVE  SessionInvariant'
<1>. DEFINE M == {"message", "nontext"}
            S == {"message", "nontext", "foreign"}
<1>1. PICK e \in {"message", "nontext", "reasoning", "foreign", "idle", "active",
                  "limit", "broken", "started", "refused"} :
         /\ pipe' = Append(pipe, e)
         /\ said' = [messages |-> said.messages + (IF e \in M THEN 1 ELSE 0),
                     foreign  |-> said.foreign + (IF e = "foreign" THEN 1 ELSE 0)]
  BY DEF ServerWorks, Emit
<1>2. /\ turn = "running" /\ stage # "done" /\ Emitted < MaxEvents
      /\ events' = events /\ turn' = turn /\ stage' = stage
      /\ recovered' = recovered /\ verdict' = verdict
  BY DEF ServerWorks
<1>3. SessionTypeOK /\ SaidIsEmitted /\ EndIsLast /\ ReadIsTrue /\ e \in Events
  BY DEF SessionInvariant, Events
<1>4. /\ \A K : Len(Emission) + 1 \notin Places(K)
      /\ \A K : Places(K)' = IF e \in K THEN Places(K) \cup {Len(Emission) + 1} ELSE Places(K)
      /\ pipe' \in Seq(Events)
  BY <1>1, <1>2, <1>3, EmittingAddsAPlace
<1>5. \A K : /\ IsFiniteSet(Places(K)) /\ Cardinality(Places(K)) \in Nat
             /\ Cardinality(Places(K)) <= Len(Emission)
  BY <1>3, PlacesAreFinite
<1>6. \A K : Cardinality(Places(K))' = Cardinality(Places(K)) + (IF e \in K THEN 1 ELSE 0)
  <2>. SUFFICES ASSUME NEW K
                PROVE  Cardinality(Places(K)') = Cardinality(Places(K))
                                                   + (IF e \in K THEN 1 ELSE 0)
    OBVIOUS
  <2>1. Cardinality(Places(K) \cup {Len(Emission) + 1}) = Cardinality(Places(K)) + 1
    BY <1>4, <1>5, FS_AddElement
  <2>2. CASE e \in K
    <3>1. Places(K)' = Places(K) \cup {Len(Emission) + 1}
      BY <1>4, <2>2
    <3>2. QED
      BY <2>1, <2>2, <3>1
  <2>3. CASE e \notin K
    <3>1. Places(K)' = Places(K) /\ Cardinality(Places(K)) \in Nat
      BY <1>4, <1>5, <2>3
    <3>2. QED
      BY <2>3, <3>1
  <2>4. QED
    BY <2>2, <2>3
<1>7. SaidIsEmitted'
  <2>1. /\ said.messages = Cardinality(Places(M)) /\ said.foreign = Cardinality(Places({"foreign"}))
    BY <1>3 DEF SaidIsEmitted
  <2>2. /\ said'.messages = Cardinality(Places(M))' /\ said'.foreign = Cardinality(Places({"foreign"}))'
    BY <1>1, <1>6, <2>1
  <2>3. QED
    BY <2>2 DEF SaidIsEmitted
<1>8. Places({"completed"}) = {} /\ Places({"completed"})' = {}
  <2>1. Places({"completed"}) = {}
    BY <1>2, <1>3 DEF EndIsLast
  <2>2. QED
    BY <1>1, <1>4, <2>1
<1>9. ~recovered' /\ Places({"read"})' = {}
  BY <1>1, <1>2, <1>3, <1>4 DEF ReadIsTrue
<1>10. said' \in [messages : 0..MaxEvents, foreign : 0..MaxEvents]
  <2>1. Len(Emission) < MaxEvents /\ MaxEvents \in Nat /\ Len(Emission) \in Nat
    BY <1>2, <1>3, SessionAssumption DEF Emitted, Emission, SessionTypeOK
  <2>2. \A K : Cardinality(Places(K)) + 1 \in 0..MaxEvents /\ Cardinality(Places(K)) \in 0..MaxEvents
    BY <1>5, <2>1
  <2>3. said.messages = Cardinality(Places(M)) /\ said.foreign = Cardinality(Places({"foreign"}))
    BY <1>3 DEF SaidIsEmitted
  <2>4. /\ said.messages + (IF e \in M THEN 1 ELSE 0) \in 0..MaxEvents
        /\ said.foreign + (IF e = "foreign" THEN 1 ELSE 0) \in 0..MaxEvents
    BY <1>5, <2>2, <2>3
  <2>5. QED
    BY <1>1, <2>4
<1>11. SessionTypeOK'
  BY <1>2, <1>3, <1>4, <1>10 DEF SessionTypeOK
<1>12. AcceptedTurnIsWhole'
  BY <1>2, <1>3 DEF SessionTypeOK, AcceptedTurnIsWhole
<1>13. QED
  BY <1>7, <1>8, <1>9, <1>11, <1>12 DEF SessionInvariant, EndIsLast, ReadIsTrue

\* The notice of the end comes after all that was said.
LEMMA ServerEndsStep ==
    ASSUME SessionInvariant, ServerEnds
    PROVE  SessionInvariant'
<1>1. /\ turn = "running" /\ stage # "done" /\ turn' \in {"completed", "failed"}
      /\ said' = said /\ events' = events /\ stage' = stage /\ recovered' = recovered
      /\ verdict' = verdict
      /\ pipe' = pipe \/ pipe' = Append(pipe, turn')
  BY DEF ServerEnds, Emit
<1>2. SessionTypeOK /\ SaidIsEmitted /\ EndIsLast /\ ReadIsTrue /\ turn' \in Events
  BY <1>1 DEF SessionInvariant, Events
<1>3. /\ Places({"completed"}) = {} /\ Places({"read"}) = {} /\ ~recovered
  BY <1>1, <1>2 DEF EndIsLast, ReadIsTrue
<1>4. CASE pipe' = pipe
  <2>1. pipe' \in Seq(Events) /\ \A K : Places(K)' = Places(K)
    BY <1>1, <1>2, <1>4, ReadingKeepsThePlaces DEF SessionTypeOK
  <2>2. SessionTypeOK' /\ AcceptedTurnIsWhole'
    BY <1>1, <1>2, <2>1 DEF SessionTypeOK, AcceptedTurnIsWhole
  <2>3. SaidIsEmitted'
    BY <1>1, <1>2, <2>1 DEF SaidIsEmitted
  <2>4. QED
    BY <1>1, <1>3, <2>1, <2>2, <2>3 DEF SessionInvariant, EndIsLast, ReadIsTrue
<1>5. CASE pipe' = Append(pipe, turn')
  <2>0. PICK e : e = turn'
    OBVIOUS
  <2>1. /\ \A K : Places(K)' = IF e \in K THEN Places(K) \cup {Len(Emission) + 1}
                               ELSE Places(K)
        /\ pipe' \in Seq(Events)
    BY <1>1, <1>2, <1>5, <2>0, EmittingAddsAPlace
  <2>2. \A K : Places(K) \in SUBSET (1..Len(Emission)) /\ Len(Emission) \in Nat
    BY <1>2, PlacesAreFinite
  <2>3. SessionTypeOK' /\ AcceptedTurnIsWhole'
    BY <1>1, <1>2, <2>1 DEF SessionTypeOK, AcceptedTurnIsWhole
  <2>4. SaidIsEmitted'
    <3>1. /\ Places({"message", "nontext"})' = Places({"message", "nontext"})
          /\ Places({"foreign"})' = Places({"foreign"})
      BY <1>1, <2>0, <2>1
    <3>2. QED
      BY <1>1, <1>2, <3>1 DEF SaidIsEmitted
  <2>5. EndIsLast'
    <3>1. Places({"message", "nontext", "foreign"})' = Places({"message", "nontext", "foreign"})
      BY <1>1, <2>0, <2>1
    <3>2. \A j \in Places({"message", "nontext", "foreign"}) : j < Len(Emission) + 1
      BY <2>2
    <3>3. CASE e = "completed"
      <4>1. Places({"completed"})' = {Len(Emission) + 1}
        BY <1>3, <2>1, <3>3
      <4>2. QED
        BY <2>0, <3>1, <3>2, <3>3, <4>1 DEF EndIsLast
    <3>4. CASE e # "completed"
      <4>1. Places({"completed"})' = {}
        BY <1>3, <2>1, <3>4
      <4>2. QED
        BY <4>1 DEF EndIsLast
    <3>5. QED
      BY <3>3, <3>4
  <2>6. ReadIsTrue'
    BY <1>1, <1>3, <2>0, <2>1 DEF ReadIsTrue
  <2>7. QED
    BY <2>3, <2>4, <2>5, <2>6 DEF SessionInvariant
<1>6. QED
  BY <1>1, <1>4, <1>5

\* thread/read answers with the turn as it stands.
LEMMA ServerReadsStep ==
    ASSUME SessionInvariant, ServerReads
    PROVE  SessionInvariant'
<1>1. PICK e \in {"read", "unread", "readerror"} :
         /\ pipe' = Append(pipe, e)
         /\ e = "read" => turn = "completed" /\ said.messages = 1 /\ said.foreign = 0
  BY DEF ServerReads, Emit
<1>2. /\ stage = "reading" /\ turn' = turn /\ said' = said /\ events' = events
      /\ stage' = stage /\ recovered' = recovered /\ verdict' = verdict
  BY DEF ServerReads
<1>3. SessionTypeOK /\ SaidIsEmitted /\ EndIsLast /\ ReadIsTrue /\ e \in Events
  BY DEF SessionInvariant, Events
<1>4. /\ \A K : Places(K)' = IF e \in K THEN Places(K) \cup {Len(Emission) + 1} ELSE Places(K)
      /\ pipe' \in Seq(Events)
  BY <1>1, <1>2, <1>3, EmittingAddsAPlace
<1>5. SessionTypeOK' /\ AcceptedTurnIsWhole'
  BY <1>2, <1>3, <1>4 DEF SessionTypeOK, AcceptedTurnIsWhole
<1>6. /\ Places({"message", "nontext"})' = Places({"message", "nontext"})
      /\ Places({"foreign"})' = Places({"foreign"})
      /\ Places({"message", "nontext", "foreign"})' = Places({"message", "nontext", "foreign"})
      /\ Places({"completed"})' = Places({"completed"})
  BY <1>1, <1>4
<1>7. SaidIsEmitted' /\ EndIsLast'
  BY <1>2, <1>3, <1>6 DEF SaidIsEmitted, EndIsLast
<1>8. ReadIsTrue'
  BY <1>1, <1>2, <1>3, <1>4 DEF ReadIsTrue
<1>9. QED
  BY <1>5, <1>7, <1>8 DEF SessionInvariant

\* The client believes only an answer that shows the turn completed.
LEMMA ClientReadsStep ==
    ASSUME SessionInvariant, ClientReads
    PROVE  SessionInvariant'
<1>1. /\ stage \in {"starting", "turn", "grace", "reading"} /\ pipe # <<>>
      /\ pipe' = Tail(pipe) /\ events' = Append(events, Head(pipe))
      /\ turn' = turn /\ said' = said
  BY DEF ClientReads
<1>2. SessionTypeOK /\ SaidIsEmitted /\ EndIsLast /\ ReadIsTrue
  BY DEF SessionInvariant
<1>3. /\ \A K : Places(K)' = Places(K)
      /\ pipe' \in Seq(Events) /\ events' \in Seq(Events)
  BY <1>1, <1>2, ReadingKeepsThePlaces
<1>4. /\ stage' \in Stages /\ verdict' \in {"none", "FAILOVER", "PROCESS_CRASH"}
      /\ (stage' = "done") = (verdict' # "none")
      /\ \/ recovered' = recovered
         \/ recovered' \in BOOLEAN /\ (recovered' => Head(pipe) = "read")
  <2>1. verdict = "none" /\ recovered \in BOOLEAN
    BY <1>1, <1>2 DEF SessionTypeOK
  <2>0. \A seen : AfterTurnRead(seen) \in {"judging", "grace", "turn"}
    BY DEF AfterTurnRead
  <2>2. CASE stage = "starting"
    <3>1. PICK seen : seen = Append(events, Head(pipe))
      OBVIOUS
    <3>2. /\ stage' \in {"done", AfterTurnRead(seen), stage}
          /\ stage' = IF Head(pipe) = "refused" THEN "done"
                      ELSE IF Head(pipe) = "started" THEN AfterTurnRead(seen) ELSE stage
          /\ verdict' \in IF Head(pipe) = "refused" THEN {"FAILOVER", "PROCESS_CRASH"}
                          ELSE {verdict}
          /\ recovered' = recovered
      BY <2>2, <3>1 DEF ClientReads
    <3>3. CASE stage' # "done"
      <4>1. verdict' = "none" /\ stage' \in Stages
        BY <2>0, <2>1, <2>2, <3>2, <3>3 DEF Stages
      <4>2. QED
        BY <3>2, <3>3, <4>1
    <3>4. CASE stage' = "done"
      <4>1. verdict' \in {"FAILOVER", "PROCESS_CRASH"} /\ stage' \in Stages
        BY <2>0, <2>1, <2>2, <3>2, <3>4 DEF Stages
      <4>2. QED
        BY <3>2, <3>4, <4>1
    <3>5. QED
      BY <3>3, <3>4
  <2>3. CASE stage = "turn"
    <3>1. PICK seen : seen = Append(events, Head(pipe))
      OBVIOUS
    <3>2. stage' = AfterTurnRead(seen) /\ recovered' = recovered /\ verdict' = verdict
      BY <2>3, <3>1 DEF ClientReads
    <3>3. stage' # "done" /\ verdict' = "none" /\ stage' \in Stages
      BY <2>0, <2>1, <3>2 DEF Stages
    <3>4. QED
      BY <3>2, <3>3
  <2>4. CASE stage = "grace"
    <3>1. /\ stage' \in {"judging", "grace"} /\ recovered' = recovered /\ verdict' = verdict
      BY <2>4 DEF ClientReads
    <3>2. stage' # "done" /\ verdict' = "none" /\ stage' \in Stages
      BY <2>1, <3>1 DEF Stages
    <3>3. QED
      BY <3>1, <3>2
  <2>5. CASE stage = "reading"
    BY <1>1, <2>1, <2>5 DEF ClientReads, Stages, Confirms
  <2>6. QED
    BY <1>1, <2>2, <2>3, <2>4, <2>5
<1>5. SessionTypeOK' /\ AcceptedTurnIsWhole'
  BY <1>1, <1>2, <1>3, <1>4 DEF SessionTypeOK, AcceptedTurnIsWhole, Verdicts
<1>6. SaidIsEmitted' /\ EndIsLast'
  BY <1>1, <1>2, <1>3 DEF SaidIsEmitted, EndIsLast
<1>7. Head(pipe) = "read" => Places({"read"}) # {}
  <2>1. pipe \in Seq(Events) /\ events \in Seq(Events)
    BY <1>2 DEF SessionTypeOK
  <2>2. /\ Len(events) + 1 \in DOMAIN (events \o pipe)
        /\ (events \o pipe)[Len(events) + 1] = Head(pipe)
    BY <1>1, <2>1
  <2>3. QED
    BY <2>2 DEF Places, Emission
<1>8. ReadIsTrue'
  BY <1>1, <1>2, <1>3, <1>4, <1>7 DEF ReadIsTrue
<1>9. QED
  BY <1>5, <1>6, <1>8 DEF SessionInvariant

\* The judgement takes a turn for whole only when it is: what is still in the
\* pipe can then be no message and no tool.
LEMMA JudgeStep ==
    ASSUME SessionInvariant, JudgeSession
    PROVE  SessionInvariant'
<1>1. PICK stderr \in {"none", "FAILOVER", "PROCESS_CRASH", "TOOL_PERMISSION"},
           valid \in BOOLEAN : verdict' = Judgement(stderr, valid)
  BY DEF JudgeSession
<1>2. /\ stage = "judging" /\ stage' = "done" /\ turn' = turn /\ said' = said
      /\ pipe' = pipe /\ events' = events /\ recovered' = recovered
  BY DEF JudgeSession
<1>3. SessionTypeOK /\ SaidIsEmitted /\ EndIsLast /\ ReadIsTrue
  BY DEF SessionInvariant
<1>4. /\ \A K : Places(K)' = Places(K)
      /\ pipe' \in Seq(Events) /\ events' \in Seq(Events)
  BY <1>2, <1>3, ReadingKeepsThePlaces
<1>5. SessionTypeOK'
  <2>1. FirstFailure \in Verdicts \ {"none", "SUCCESS"}
    BY DEF FirstFailure, Verdicts
  <2>2. verdict' \in Verdicts \ {"none"}
    BY <1>1, <2>1 DEF Judgement, Verdicts
  <2>3. QED
    BY <1>2, <1>3, <1>4, <2>2 DEF SessionTypeOK, Stages
<1>6. SaidIsEmitted' /\ EndIsLast' /\ ReadIsTrue'
  BY <1>2, <1>3, <1>4 DEF SaidIsEmitted, EndIsLast, ReadIsTrue
<1>7. ASSUME verdict' = "SUCCESS"
      PROVE  turn = "completed" /\ said.messages = 1 /\ said.foreign = 0
  <2>1. /\ Completed \/ recovered
        /\ Condemning = {}
        /\ \E i \in DOMAIN events : Messages = {i}
    <3>1. FirstFailure # "SUCCESS"
      BY DEF FirstFailure
    <3>2. QED
      BY <1>1, <1>7, <3>1 DEF Judgement
  <2>2. CASE recovered
    BY <1>3, <2>2 DEF ReadIsTrue
  <2>3. CASE Completed
    <3>1. /\ pipe \in Seq(Events) /\ events \in Seq(Events)
      BY <1>3 DEF SessionTypeOK
    <3>2. /\ \A i \in DOMAIN events : i \in DOMAIN Emission /\ Emission[i] = events[i] /\ i \in Nat
          /\ \A i \in DOMAIN Emission : i \in DOMAIN events \/ \A j \in DOMAIN events : j < i
      BY <3>1 DEF Emission
    <3>3. PICK end \in DOMAIN events : events[end] = "completed"
      BY <2>3 DEF Completed, Read
    <3>4. end \in Places({"completed"})
      BY <3>2, <3>3 DEF Places
    <3>5. turn = "completed" /\ \A j \in Places({"message", "nontext", "foreign"}) : j < end
      BY <1>3, <3>4 DEF EndIsLast
    <3>6. ASSUME NEW j \in Places({"message", "nontext", "foreign"})
          PROVE  j \in DOMAIN events /\ events[j] = "message"
      <4>1. j \in DOMAIN Emission /\ Emission[j] \in {"message", "nontext", "foreign"}
        BY DEF Places
      <4>2. j \in DOMAIN events
        <5>1. j < end /\ end \in Nat /\ j \in Nat
          BY <3>1, <3>2, <3>3, <3>5, <4>1 DEF Emission
        <5>2. ~(end < j)
          BY <5>1
        <5>3. QED
          BY <3>2, <3>3, <4>1, <5>2
      <4>3. events[j] \notin {"foreign", "nontext"}
        BY <2>1, <4>2 DEF Condemning
      <4>4. QED
        BY <3>2, <4>1, <4>2, <4>3
    <3>7. Places({"foreign"}) = {}
      <4>1. \A j \in Places({"foreign"}) : /\ j \in Places({"message", "nontext", "foreign"})
                                            /\ Emission[j] = "foreign"
        BY DEF Places
      <4>2. QED
        BY <3>2, <3>6, <4>1
    <3>8. PICK i \in DOMAIN events : Messages = {i}
      BY <2>1
    <3>9. Places({"message", "nontext"}) = {i}
      <4>1. \A j \in Places({"message", "nontext"}) :
               j \in Places({"message", "nontext", "foreign"})
        BY DEF Places
      <4>2. \A j \in Places({"message", "nontext"}) : j = i
        BY <3>6, <3>8, <4>1 DEF Messages
      <4>3. events[i] = "message"
        BY <3>8 DEF Messages
      <4>4. i \in Places({"message", "nontext"})
        BY <3>2, <4>3 DEF Places
      <4>5. QED
        BY <4>2, <4>4
    <3>10. Cardinality({i}) = 1 /\ Cardinality({}) = 0
      BY FS_Singleton, FS_EmptySet
    <3>11. QED
      BY <1>3, <3>5, <3>7, <3>9, <3>10 DEF SaidIsEmitted
  <2>4. QED
    BY <2>1, <2>2, <2>3
<1>8. QED
  BY <1>2, <1>5, <1>6, <1>7 DEF SessionInvariant, AcceptedTurnIsWhole

\* The other steps of the client change neither the turn nor what it said.
LEMMA ClientWaitsStep ==
    ASSUME SessionInvariant, GraceExpires \/ ReadFails \/ UNCHANGED sessionVars
    PROVE  SessionInvariant'
<1>1. /\ turn' = turn /\ said' = said /\ pipe' = pipe /\ events' = events
      /\ recovered' = recovered
      /\ \/ stage' = stage /\ verdict' = verdict
         \/ stage # "done" /\ stage' = "reading" /\ verdict' = verdict
         \/ stage' = "done" /\ verdict' \in {"TIMEOUT", "PROCESS_CRASH"}
  BY DEF GraceExpires, ReadFails, sessionVars
<1>2. SessionTypeOK /\ SaidIsEmitted /\ EndIsLast /\ ReadIsTrue /\ AcceptedTurnIsWhole
  BY DEF SessionInvariant
<1>3. /\ \A K : Places(K)' = Places(K)
      /\ pipe' \in Seq(Events) /\ events' \in Seq(Events)
  BY <1>1, <1>2, ReadingKeepsThePlaces
<1>4. SessionTypeOK' /\ AcceptedTurnIsWhole'
  BY <1>1, <1>2, <1>3 DEF SessionTypeOK, AcceptedTurnIsWhole, Stages, Verdicts
<1>5. SaidIsEmitted' /\ EndIsLast' /\ ReadIsTrue'
  BY <1>1, <1>2, <1>3 DEF SaidIsEmitted, EndIsLast, ReadIsTrue
<1>6. QED
  BY <1>4, <1>5 DEF SessionInvariant

\* The session begins with nothing said, and keeps the account of what was.
LEMMA SessionInvariantHolds == SessionSpec => []SessionInvariant
<1>1. SessionInit => SessionInvariant
  <2>. SUFFICES ASSUME SessionInit PROVE SessionInvariant
    OBVIOUS
  <2>1. /\ turn = "running" /\ said = [messages |-> 0, foreign |-> 0]
        /\ pipe = <<>> /\ events = <<>>
        /\ stage = "starting" /\ recovered = FALSE /\ verdict = "none"
    BY DEF SessionInit
  <2>2. SessionTypeOK /\ AcceptedTurnIsWhole
    <3>1. 0 \in 0..MaxEvents /\ <<>> \in Seq(Events)
      BY SessionAssumption
    <3>2. QED
      BY <2>1, <3>1 DEF SessionTypeOK, AcceptedTurnIsWhole, Stages, Verdicts
  <2>3. Emission = <<>>
    BY <2>1 DEF Emission
  <2>4. \A K : Places(K) = {}
    BY <2>3 DEF Places
  <2>5. QED
    BY <2>1, <2>2, <2>4, FS_EmptySet
       DEF SessionInvariant, SaidIsEmitted, EndIsLast, ReadIsTrue
<1>2. SessionInvariant /\ [SessionNext]_sessionVars => SessionInvariant'
  BY ServerWorksStep, ServerEndsStep, ServerReadsStep, ClientReadsStep, JudgeStep,
     ClientWaitsStep DEF SessionNext
<1>3. QED
  BY <1>1, <1>2, PTL DEF SessionSpec

\* Every state of a session is well formed.
THEOREM SessionTypeCorrect == SessionSpec => []SessionTypeOK
BY SessionInvariantHolds, PTL DEF SessionInvariant

\* An answer is accepted only from a turn that really completed, having said one
\* thing and used no tool, whatever of it the client had not read when it judged.
THEOREM AcceptedTurnsAreWhole == SessionSpec => []AcceptedTurnIsWhole
BY SessionInvariantHolds, PTL DEF SessionInvariant
-----------------------------------------------------------------------------
(* BatchDispatch.                                                           *)

\* A step that gives one execution the row r and leaves the calls alone keeps
\* them spaced, when the row is in order with the lock, the clock and the calls.
LEMMA OneExecutionMoves ==
    ASSUME SpacingInvariant, NEW t \in 1..Threads, NEW r \in ThreadRow,
           thread' = [thread EXCEPT ![t] = r],
           r.clock <= minute,
           r.pc = "admit" => \A n \in DOMAIN admissions : admissions[n] <= r.clock,
           r.pc \in {"freeze", "admit"} <=> building' = t,
           building' \in {building, 0, t},
           building' # building => building \in {0, t},
           UNCHANGED <<minute, admissions>>, request' \in RequestRow
    PROVE  SpacingInvariant'
<1>1. thread' \in [1..Threads -> ThreadRow] /\ thread'[t] = r
  BY DEF SpacingInvariant
<1>2. \A u \in 1..Threads : u # t => thread'[u] = thread[u]
  BY DEF SpacingInvariant
<1>3. \A u \in 1..Threads : thread'[u].clock <= minute'
  BY <1>1, <1>2 DEF SpacingInvariant
<1>4. LockIsHeld'
  <2>1. SUFFICES ASSUME NEW u \in 1..Threads
                 PROVE  thread'[u].pc \in {"freeze", "admit"} <=> building' = u
    BY DEF LockIsHeld
  <2>2. CASE u = t
    BY <1>1, <2>2
  <2>3. CASE u # t
    <3>1. thread[u].pc \in {"freeze", "admit"} <=> building = u
      BY DEF SpacingInvariant, LockIsHeld
    <3>2. building' = u <=> building = u
      BY <2>3
    <3>3. QED
      BY <1>2, <2>3, <3>1, <3>2
  <2>4. QED
    BY <2>2, <2>3
<1>5. ClockIsLatest'
  <2>1. \A n \in DOMAIN admissions' : admissions'[n] \in Nat /\ admissions'[n] <= minute'
    BY DEF SpacingInvariant, ClockIsLatest
  <2>2. ASSUME NEW u \in 1..Threads, thread'[u].pc = "admit"
        PROVE  \A n \in DOMAIN admissions' : admissions'[n] <= thread'[u].clock
    BY <1>1, <1>2, <2>2 DEF SpacingInvariant, ClockIsLatest
  <2>3. QED
    BY <2>1, <2>2 DEF ClockIsLatest
<1>6. CallsAreSpaced'
  BY DEF SpacingInvariant, CallsAreSpaced
<1>7. minute' \in Nat /\ building' \in Nat /\ request' \in RequestRow
  BY DispatchAssumption DEF SpacingInvariant
<1>8. QED
  BY <1>1, <1>3, <1>4, <1>5, <1>6, <1>7 DEF SpacingInvariant

\* What the workflow hears keeps its batch a batch.
LEMMA HeardRow ==
    ASSUME SpacingInvariant, NEW t \in 1..Threads,
           NEW pc \in {"none", "open", "analysis"}, NEW after \in Nat, Hears(t, pc, after)
    PROVE  request' \in RequestRow
BY DEF Hears, SpacingInvariant, RequestRow

\* The latest of the admissions that a call comes too soon after is one of them.
LEMMA LatestTooSoon ==
    ASSUME SpacingInvariant, NEW at \in Nat, TooSoonAfter(at) # {}
    PROVE  Max({admissions[n] : n \in TooSoonAfter(at)}) \in Nat
<1>. DEFINE S == {admissions[n] : n \in TooSoonAfter(at)}
<1>1. S \in SUBSET (0..at) /\ S # {}
  BY DEF TooSoonAfter, SpacingInvariant, ClockIsLatest
<1>. HIDE DEF S
<1>2. S \in SUBSET Nat /\ \A s \in S : s <= at
  BY <1>1
<1>3. Latest(S) \in S /\ \A y \in S : y <= Latest(S)
  BY <1>1, <1>2, LatestIsLatest
<1>4. Max(S) \in S
  BY <1>2, <1>3 DEF Max
<1>5. QED
  BY <1>2, <1>4 DEF S

\* The numbers of the module are numbers.
LEMMA DispatchNumbers ==
    /\ MinInterval \in Nat /\ Threads \in Nat /\ Threads > 0
    /\ \A t \in 1..Threads : t \in Nat /\ t # 0
    /\ NoThread \in ThreadRow /\ NoRequest \in RequestRow
BY DispatchAssumption DEF NoThread, NoRequest, ThreadRow, RequestRow

\* Nothing is admitted before the first build.
LEMMA SpacingInitially == DispatchInit => SpacingInvariant
BY DispatchNumbers DEF DispatchInit, SpacingInvariant, LockIsHeld, ClockIsLatest,
   CallsAreSpaced, NoThread

\* Time passes.
LEMMA MinuteSpaced == SpacingInvariant /\ MinutePasses => SpacingInvariant'
<1>1. SUFFICES ASSUME SpacingInvariant, MinutePasses PROVE SpacingInvariant'
  OBVIOUS
<1>2. minute' = minute + 1 /\ minute \in Nat
      /\ UNCHANGED <<thread, building, request, admissions>>
  BY <1>1 DEF MinutePasses, SpacingInvariant
<1>3. \A t \in 1..Threads : thread[t].clock \in Nat /\ thread[t].clock <= minute
  BY <1>1 DEF SpacingInvariant, ThreadRow
<1>4. \A n \in DOMAIN admissions : admissions[n] \in Nat /\ admissions[n] <= minute
  BY <1>1 DEF SpacingInvariant, ClockIsLatest
<1>5. /\ \A t \in 1..Threads : thread'[t].clock <= minute'
      /\ \A n \in DOMAIN admissions' : admissions'[n] \in Nat /\ admissions'[n] <= minute'
  BY <1>2, <1>3, <1>4
<1>6. QED
  BY <1>1, <1>2, <1>5 DEF SpacingInvariant, LockIsHeld, ClockIsLatest, CallsAreSpaced

\* What the workflow does with its batch alone.
LEMMA WorkflowSpaced ==
    SpacingInvariant /\ (AnalysisEnds \/ SubmitBatch \/ GiveUpExecution \/ DropBatch)
        => SpacingInvariant'
<1>1. SUFFICES ASSUME SpacingInvariant,
                      AnalysisEnds \/ SubmitBatch \/ GiveUpExecution \/ DropBatch
               PROVE  SpacingInvariant'
  OBVIOUS
<1>2. UNCHANGED <<minute, thread, building, admissions>>
  BY <1>1 DEF AnalysisEnds, SubmitBatch, GiveUpExecution, DropBatch
<1>3. request \in RequestRow /\ minute \in Nat
  BY <1>1 DEF SpacingInvariant
<1>4. request' \in RequestRow
  <2>1. CASE AnalysisEnds
    BY <1>3, <2>1 DEF AnalysisEnds, RequestRow
  <2>2. CASE SubmitBatch
    <3>1. PICK review \in BOOLEAN, cutoff \in {0} \cup (1..(minute - 1)) :
             request' = [n |-> request.n + 1, at |-> minute, review |-> review,
                         cutoff |-> cutoff, pc |-> "open", by |-> 0, after |-> 0]
      BY <2>2 DEF SubmitBatch
    <3>2. request.n + 1 \in Nat /\ cutoff \in Nat
      BY <1>3 DEF RequestRow
    <3>3. QED
      BY <1>3, <3>1, <3>2 DEF RequestRow
  <2>3. CASE GiveUpExecution
    BY <1>3, <2>3 DEF GiveUpExecution, RequestRow
  <2>4. CASE DropBatch
    BY <1>3, <2>4 DEF DropBatch, RequestRow
  <2>5. QED
    BY <1>1, <2>1, <2>2, <2>3, <2>4
<1>5. QED
  BY <1>1, <1>2, <1>4 DEF SpacingInvariant, LockIsHeld, ClockIsLatest, CallsAreSpaced

\* An execution starts, in a free thread.
LEMMA StartSpaced ==
    ASSUME SpacingInvariant, NEW t \in 1..Threads, ExecuteActivity(t)
    PROVE  SpacingInvariant'
<1>1. request \in RequestRow /\ request' \in RequestRow
  BY DispatchNumbers DEF SpacingInvariant, ExecuteActivity, RequestRow
<1>2. PICK r : r = [pc |-> "waiting", of |-> request.n, clock |-> 0, cutoff |-> request.cutoff,
                    at |-> IF request.review THEN request.at ELSE 0]
  OBVIOUS
<1>3. r \in ThreadRow /\ r.pc = "waiting" /\ r.clock = 0
  BY <1>1, <1>2 DEF ThreadRow, RequestRow
<1>4. thread' = [thread EXCEPT ![t] = r]
  BY <1>2 DEF ExecuteActivity
<1>5. building # t
  BY DEF ExecuteActivity, SpacingInvariant, LockIsHeld
<1>6. UNCHANGED <<minute, admissions, building>>
  BY DEF ExecuteActivity
<1>7. 0 <= minute
  BY DEF SpacingInvariant
<1>8. QED
  BY <1>1, <1>3, <1>4, <1>5, <1>6, <1>7, OneExecutionMoves

\* An execution takes the lock that nobody holds.
LEMMA LockSpaced ==
    ASSUME SpacingInvariant, NEW t \in 1..Threads, TakeLock(t)
    PROVE  SpacingInvariant'
<1>1. PICK r : r = [thread[t] EXCEPT !.pc = "freeze"]
  OBVIOUS
<1>2. thread[t] \in ThreadRow /\ thread[t].clock <= minute
  BY DEF SpacingInvariant
<1>3. r \in ThreadRow /\ r.pc = "freeze" /\ r.clock <= minute
  BY <1>1, <1>2 DEF ThreadRow
<1>4. thread' = [thread EXCEPT ![t] = r]
  BY <1>1 DEF TakeLock
<1>5. building = 0 /\ building' = t /\ UNCHANGED <<minute, admissions, request>>
  BY DEF TakeLock, MayBuild
<1>6. request' \in RequestRow
  BY <1>5 DEF SpacingInvariant
<1>7. QED
  BY <1>3, <1>4, <1>5, <1>6, OneExecutionMoves

\* It freezes a packet.
LEMMA FreezeSpaced ==
    ASSUME SpacingInvariant, NEW t \in 1..Threads, FreezePacket(t)
    PROVE  SpacingInvariant'
<1>1. PICK r : r = IF thread[t].cutoff # 0 THEN [thread[t] EXCEPT !.cutoff = 0]
                   ELSE [thread[t] EXCEPT !.at = 0]
  OBVIOUS
<1>2. thread[t] \in ThreadRow /\ thread[t].clock <= minute /\ thread[t].pc = "freeze"
  BY DEF SpacingInvariant, FreezePacket
<1>3. r \in ThreadRow /\ r.pc = "freeze" /\ r.clock <= minute
  BY <1>1, <1>2 DEF ThreadRow
<1>4. thread' = [thread EXCEPT ![t] = r]
  BY <1>1 DEF FreezePacket
<1>5. building = t
  BY <1>2 DEF SpacingInvariant, LockIsHeld
<1>6. UNCHANGED <<minute, admissions, request, building>>
  BY DEF FreezePacket
<1>7. request' \in RequestRow
  BY <1>6 DEF SpacingInvariant
<1>8. QED
  BY <1>3, <1>4, <1>5, <1>6, <1>7, OneExecutionMoves

\* It reads the clock: no call was admitted later.
LEMMA ReadSpaced ==
    ASSUME SpacingInvariant, NEW t \in 1..Threads, ReadClock(t)
    PROVE  SpacingInvariant'
<1>1. PICK r : r = [thread[t] EXCEPT !.pc = "admit", !.clock = minute]
  OBVIOUS
<1>2. thread[t] \in ThreadRow /\ thread[t].pc = "freeze" /\ minute \in Nat
  BY DEF SpacingInvariant, ReadClock
<1>3. r \in ThreadRow /\ r.pc = "admit" /\ r.clock = minute /\ r.clock <= minute
  <2>1. r.pc = "admit" /\ r.clock = minute /\ r.of = thread[t].of /\ r.at = thread[t].at
        /\ r.cutoff = thread[t].cutoff
    BY <1>1, <1>2 DEF ThreadRow
  <2>2. r = [pc |-> "admit", of |-> thread[t].of, at |-> thread[t].at,
             cutoff |-> thread[t].cutoff, clock |-> minute]
    BY <1>1, <1>2 DEF ThreadRow
  <2>3. r \in ThreadRow
    BY <1>2, <2>2 DEF ThreadRow
  <2>4. QED
    BY <1>2, <2>1, <2>3
<1>4. thread' = [thread EXCEPT ![t] = r]
  <2>1. thread' = [thread EXCEPT ![t] = [thread[t] EXCEPT !.pc = "admit", !.clock = minute]]
    BY <1>2 DEF ReadClock, SpacingInvariant, ThreadRow
  <2>2. QED
    BY <1>1, <2>1
<1>5. building = t
  BY <1>2 DEF SpacingInvariant, LockIsHeld
<1>6. UNCHANGED <<minute, admissions, request, building>>
  BY DEF ReadClock
<1>7. request' \in RequestRow
  BY <1>6 DEF SpacingInvariant
<1>8. \A n \in DOMAIN admissions : admissions[n] <= r.clock
  BY <1>3 DEF SpacingInvariant, ClockIsLatest
<1>9. QED
  BY <1>3, <1>4, <1>5, <1>6, <1>7, <1>8, OneExecutionMoves

\* An execution that held the lock ends, and gives it back.
LEMMA EndSpaced ==
    ASSUME SpacingInvariant, NEW t \in 1..Threads, building = t, ExecutionEnds(t),
           request' \in RequestRow, UNCHANGED <<minute, admissions>>
    PROVE  SpacingInvariant'
<1>1. thread' = [thread EXCEPT ![t] = NoThread] /\ building' = 0
  BY DEF ExecutionEnds
<1>2. NoThread.pc = "off" /\ NoThread.clock = 0 /\ 0 <= minute /\ t # 0
  BY DispatchNumbers DEF NoThread, SpacingInvariant
<1>3. QED
  BY <1>1, <1>2, DispatchNumbers, OneExecutionMoves

\* A build that finds its input missing ends without a call.
LEMMA MissingSpaced ==
    ASSUME SpacingInvariant, NEW t \in 1..Threads, InputMissing(t)
    PROVE  SpacingInvariant'
<1>1. building = t
  BY DEF InputMissing, SpacingInvariant, LockIsHeld
<1>2. minute \in Nat /\ Hears(t, "open", minute) /\ ExecutionEnds(t)
      /\ UNCHANGED <<minute, admissions>>
  BY DEF InputMissing, SpacingInvariant
<1>3. request' \in RequestRow
  BY <1>2, HeardRow
<1>4. QED
  BY <1>1, <1>2, <1>3, EndSpaced

\* A call is admitted or deferred: what was admitted before is an interval
\* past, for the clock it is compared with is later than all of it.
LEMMA AdmitSpaced ==
    ASSUME SpacingInvariant, NEW t \in 1..Threads, AdmitCall(t)
    PROVE  SpacingInvariant'
<1>. DEFINE w == thread[t]
<1>1. w.pc = "admit" /\ building = t /\ ExecutionEnds(t) /\ minute' = minute
  BY DEF AdmitCall, SpacingInvariant, LockIsHeld
<1>2. w.clock \in Nat /\ w.clock <= minute /\ minute \in Nat
  BY DEF SpacingInvariant, ThreadRow
<1>3. \A n \in DOMAIN admissions : admissions[n] \in Nat /\ admissions[n] <= w.clock
  BY <1>1 DEF SpacingInvariant, ClockIsLatest
<1>4. CASE w.of \notin DOMAIN admissions /\ TooSoonAfter(w.clock) # {}
  <2>1. PICK after : after = Max({admissions[n] : n \in TooSoonAfter(w.clock)}) + MinInterval
    OBVIOUS
  <2>2. after \in Nat
    BY <1>2, <1>4, <2>1, LatestTooSoon, DispatchNumbers
  <2>3. Hears(t, "open", after) /\ UNCHANGED admissions
    BY <1>4, <2>1 DEF AdmitCall
  <2>4. request' \in RequestRow
    BY <2>2, <2>3, HeardRow
  <2>5. QED
    BY <1>1, <2>3, <2>4, EndSpaced
<1>5. CASE ~(w.of \notin DOMAIN admissions /\ TooSoonAfter(w.clock) # {})
  <2>1. Hears(t, "analysis", 0)
        /\ admissions' = [n \in DOMAIN admissions \cup {w.of} |->
                            IF n \in DOMAIN admissions THEN admissions[n] ELSE w.clock]
    BY <1>5 DEF AdmitCall
  <2>2. request' \in RequestRow
    BY <2>1, HeardRow
  <2>3. CASE w.of \in DOMAIN admissions
    <3>1. DOMAIN admissions' = DOMAIN admissions
          /\ \A n \in DOMAIN admissions : admissions'[n] = admissions[n]
      BY <2>1, <2>3
    <3>2. thread' = [thread EXCEPT ![t] = NoThread] /\ building' = 0
      BY <1>1 DEF ExecutionEnds
    <3>3. thread' \in [1..Threads -> ThreadRow]
          /\ \A u \in 1..Threads : thread'[u] = IF u = t THEN NoThread ELSE thread[u]
      BY <3>2, DispatchNumbers DEF SpacingInvariant
    <3>4. \A u \in 1..Threads : thread'[u].clock <= minute' /\ thread'[u].pc \notin {"freeze", "admit"}
      BY <1>1, <1>2, <3>3 DEF SpacingInvariant, LockIsHeld, NoThread
    <3>5. LockIsHeld' /\ ClockIsLatest'
      BY <1>1, <3>1, <3>2, <3>4, DispatchNumbers DEF LockIsHeld, ClockIsLatest, SpacingInvariant
    <3>6. CallsAreSpaced'
      BY <3>1 DEF CallsAreSpaced, SpacingInvariant
    <3>7. QED
      BY <1>1, <2>2, <3>2, <3>3, <3>4, <3>5, <3>6 DEF SpacingInvariant
  <2>4. CASE w.of \notin DOMAIN admissions
    <3>1. TooSoonAfter(w.clock) = {}
      BY <1>5, <2>4
    <3>2. \A n \in DOMAIN admissions : admissions[n] + MinInterval <= w.clock
      BY <1>2, <1>3, <3>1, DispatchNumbers DEF TooSoonAfter
    <3>3. DOMAIN admissions' = DOMAIN admissions \cup {w.of} /\ admissions'[w.of] = w.clock
          /\ \A n \in DOMAIN admissions : admissions'[n] = admissions[n]
      BY <2>1, <2>4
    <3>4. CallsAreSpaced'
      BY <3>2, <3>3, DispatchNumbers DEF CallsAreSpaced, SpacingInvariant
    <3>5. thread' = [thread EXCEPT ![t] = NoThread] /\ building' = 0
      BY <1>1 DEF ExecutionEnds
    <3>6. thread' \in [1..Threads -> ThreadRow]
          /\ \A u \in 1..Threads : thread'[u] = IF u = t THEN NoThread ELSE thread[u]
      BY <3>5, DispatchNumbers DEF SpacingInvariant
    <3>7. \A u \in 1..Threads : thread'[u].clock <= minute' /\ thread'[u].pc \notin {"freeze", "admit"}
      BY <1>1, <1>2, <3>6 DEF SpacingInvariant, LockIsHeld, NoThread
    <3>8. \A n \in DOMAIN admissions' : admissions'[n] \in Nat /\ admissions'[n] <= minute'
      BY <1>1, <1>2, <1>3, <3>3 DEF SpacingInvariant, ClockIsLatest
    <3>9. LockIsHeld' /\ ClockIsLatest'
      BY <3>5, <3>7, <3>8, DispatchNumbers DEF LockIsHeld, ClockIsLatest
    <3>10. QED
      BY <1>1, <2>2, <3>4, <3>5, <3>6, <3>7, <3>9 DEF SpacingInvariant
  <2>5. QED
    BY <2>3, <2>4
<1>6. QED
  BY <1>4, <1>5

\* The worker dies.
LEMMA WorkerSpaced == SpacingInvariant /\ WorkerDies => SpacingInvariant'
<1>1. SUFFICES ASSUME SpacingInvariant, WorkerDies PROVE SpacingInvariant'
  OBVIOUS
<1>2. thread' = [t \in 1..Threads |-> NoThread] /\ building' = 0
      /\ UNCHANGED <<minute, admissions>>
  BY <1>1 DEF WorkerDies
<1>3. request' \in RequestRow
  BY <1>1 DEF WorkerDies, SpacingInvariant, RequestRow
<1>4. thread' \in [1..Threads -> ThreadRow]
      /\ \A t \in 1..Threads : thread'[t].pc = "off" /\ thread'[t].clock = 0
  BY <1>2, DispatchNumbers DEF NoThread
<1>5. minute \in Nat
  BY <1>1 DEF SpacingInvariant
<1>6. QED
  BY <1>1, <1>2, <1>3, <1>4, <1>5, DispatchNumbers
     DEF SpacingInvariant, LockIsHeld, ClockIsLatest, CallsAreSpaced

\* Only the thread that holds the build lock freezes or admits, no call was
\* admitted later than the clock it read, and admissions are spaced.
THEOREM SpacingInvariantHolds == DispatchSpec => []SpacingInvariant
<1>1. SpacingInvariant /\ [DispatchNext]_dispatchVars => SpacingInvariant'
  <2>1. SpacingInvariant /\ UNCHANGED dispatchVars => SpacingInvariant'
    BY DEF SpacingInvariant, LockIsHeld, ClockIsLatest, CallsAreSpaced, dispatchVars
  <2>2. SpacingInvariant /\ DispatchNext => SpacingInvariant'
    BY MinuteSpaced, WorkflowSpaced, WorkerSpaced, StartSpaced, LockSpaced, FreezeSpaced,
       MissingSpaced, ReadSpaced, AdmitSpaced DEF DispatchNext
  <2>3. QED
    BY <2>1, <2>2
<1>2. QED
  BY <1>1, SpacingInitially, PTL DEF DispatchSpec

\* Calls of two batches are at least the minimum interval apart, however the
\* executions of the activity overlap, die or are given up.
THEOREM CallsStaySpaced == DispatchSpec => []CallsAreSpaced
BY SpacingInvariantHolds, PTL DEF SpacingInvariant

\* The greatest of bounded numbers.
LEMMA GreatestOf ==
    ASSUME NEW n \in Nat, NEW S \in SUBSET (0..n), S # {}
    PROVE  Max(S) \in S /\ \A y \in S : y <= Max(S)
<1>1. S \in SUBSET Nat /\ \A s \in S : s <= n
  OBVIOUS
<1>2. Latest(S) \in S /\ \A y \in S : y <= Latest(S)
  BY <1>1, LatestIsLatest
<1>3. Max(S) \in S /\ \A y \in S : Max(S) >= y
  BY <1>1, <1>2 DEF Max
<1>4. QED
  BY <1>1, <1>3

\* What a packet shows of the source is the latest observation by its time.
LEMMA FeatureIsLatest ==
    ASSUME minute \in Nat, DOMAIN source = 1..minute, NEW asof \in Nat
    PROVE  /\ FeatureRef(asof) \in Nat /\ FeatureRef(asof) <= asof
           /\ FeatureRef(asof) # 0 => FeatureRef(asof) \in 1..minute
                                      /\ source[FeatureRef(asof)] # "none"
           /\ \A t \in 1..minute : t <= asof /\ source[t] # "none" => t <= FeatureRef(asof)
<1>1. PICK S : S = {t \in DOMAIN source : t <= asof /\ source[t] # "none"}
  OBVIOUS
<1>2. FeatureRef(asof) = IF S = {} THEN 0 ELSE Max(S)
  BY <1>1 DEF FeatureRef
<1>3. S \in SUBSET (0..minute) /\ \A t \in S : t \in 1..minute
  BY <1>1
<1>4. CASE S = {}
  BY <1>1, <1>2, <1>4
<1>5. CASE S # {}
  <2>1. Max(S) \in S /\ \A y \in S : y <= Max(S)
    BY <1>3, <1>5, GreatestOf
  <2>2. FeatureRef(asof) = Max(S)
    BY <1>2, <1>5
  <2>3. FeatureRef(asof) \in 1..minute /\ FeatureRef(asof) <= asof
        /\ source[FeatureRef(asof)] # "none"
    BY <1>1, <1>3, <2>1, <2>2
  <2>4. \A t \in 1..minute : t <= asof /\ source[t] # "none" => t <= FeatureRef(asof)
    BY <1>1, <2>1, <2>2
  <2>5. QED
    BY <2>3, <2>4
<1>6. QED
  BY <1>4, <1>5

\* A later packet shows no earlier an observation.
LEMMA FeatureGrows ==
    ASSUME minute \in Nat, DOMAIN source = 1..minute,
           NEW asof \in Nat, NEW later \in Nat, asof <= later
    PROVE  FeatureRef(asof) <= FeatureRef(later)
<1>1. CASE FeatureRef(asof) = 0
  BY <1>1, FeatureIsLatest
<1>2. CASE FeatureRef(asof) # 0
  <2>1. PICK t \in 1..minute : t = FeatureRef(asof)
    BY <1>2, FeatureIsLatest
  <2>2. t <= asof /\ source[t] # "none"
    BY <1>2, <2>1, FeatureIsLatest
  <2>3. t <= later
    BY <2>2
  <2>4. QED
    BY <2>1, <2>2, <2>3, FeatureIsLatest
<1>3. QED
  BY <1>1, <1>2

\* What is observed later changes nothing of what a packet showed.
LEMMA FeatureStands ==
    ASSUME minute \in Nat, DOMAIN source = 1..minute, NEW asof \in Nat, asof <= minute,
           DOMAIN source' = 1..(minute + 1), \A t \in 1..minute : source'[t] = source[t]
    PROVE  FeatureRef(asof)' = FeatureRef(asof)
<1>1. \A t \in 1..(minute + 1) : t <= asof => t \in 1..minute
  OBVIOUS
<1>2. {t \in DOMAIN source' : t <= asof /\ source'[t] # "none"}
      = {t \in DOMAIN source : t <= asof /\ source[t] # "none"}
  BY <1>1
<1>3. QED
  BY <1>2 DEF FeatureRef

\* The newest of some observations is one of them, and none is of a later time.
LEMMA NewestIsNewest ==
    ASSUME minute \in Nat, TrialsAreObserved, NEW S \in SUBSET trials, S # {}
    PROVE  NewestOf(S) \in S /\ \A p \in S : p.at <= NewestOf(S).at
<1>1. PICK T : T = {o.at : o \in S}
  OBVIOUS
<1>2. \A o \in S : o.at \in Nat /\ o.at <= minute /\ o.ref = FeatureRef(o.at)
  BY DEF TrialsAreObserved
<1>3. T \in SUBSET (0..minute) /\ T # {}
  BY <1>1, <1>2
<1>4. Max(T) \in T /\ \A y \in T : y <= Max(T)
  BY <1>3, GreatestOf
<1>5. PICK o \in S : o.at = Max(T)
  BY <1>1, <1>4
<1>6. ASSUME NEW p \in S
      PROVE  \/ <<o.at, o.ref>> = <<p.at, p.ref>> \/ o.at > p.at
             \/ (o.at = p.at /\ o.ref > p.ref)
  <2>1. p.at <= o.at
    BY <1>1, <1>4, <1>5
  <2>2. CASE p.at = o.at
    <3>1. p.ref = o.ref
      BY <1>2, <2>2
    <3>2. QED
      BY <2>2, <3>1
  <2>3. CASE p.at # o.at
    <3>1. p.at \in Int /\ o.at \in Int
      BY <1>2
    <3>2. o.at > p.at
      BY <2>1, <2>3, <3>1
    <3>3. QED
      BY <3>2
  <2>4. QED
    BY <2>2, <2>3
<1>7. PICK n : n = NewestOf(S)
  OBVIOUS
<1>8. /\ n \in S
      /\ \A p \in S : <<n.at, n.ref>> = <<p.at, p.ref>> \/ n.at > p.at
                      \/ (n.at = p.at /\ n.ref > p.ref)
  BY <1>6, <1>7 DEF NewestOf
<1>9. ASSUME NEW p \in S PROVE p.at <= n.at
  <2>1. n.at \in Int /\ p.at \in Int
    BY <1>2, <1>8
  <2>2. n.at = p.at \/ n.at > p.at
    BY <1>8
  <2>3. QED
    BY <2>1, <2>2
<1>10. QED
  BY <1>7, <1>8, <1>9

\* A model is its own ancestor, and so are those of the model it continues.
LEMMA AncestorsOfContinued ==
    ASSUME ModelsAreInTurn, NEW m \in DOMAIN models
    PROVE  /\ m \in Ancestors(m)
           /\ models[m].continues \in DOMAIN models =>
                 Ancestors(models[m].continues) \subseteq Ancestors(m)
<1>1. PICK n \in Nat : DOMAIN models = 1..n
  BY DEF ModelsAreInTurn
<1>2. m \in Ancestors(m)
  BY <1>1 DEF Ancestors
<1>3. ASSUME models[m].continues \in DOMAIN models,
             NEW a \in Ancestors(models[m].continues)
      PROVE  a \in Ancestors(m)
  <2>1. models[m].continues = m - 1 /\ m - 1 \in 1..n
    BY <1>1, <1>3 DEF ModelsAreInTurn
  <2>2. /\ a \in 1..n /\ a <= m - 1
        /\ \A b \in (a + 1)..(m - 1) : models[b].continues = b - 1
    BY <1>1, <1>3, <2>1 DEF Ancestors
  <2>3. ASSUME NEW b \in (a + 1)..m PROVE models[b].continues = b - 1
    <3>1. b \in (a + 1)..(m - 1) \/ b = m
      BY <1>1, <2>2
    <3>2. QED
      BY <2>1, <2>2, <3>1
  <2>4. a <= m
    BY <1>1, <2>2
  <2>5. QED
    BY <1>1, <2>2, <2>3, <2>4 DEF Ancestors
<1>4. QED
  BY <1>2, <1>3

\* What a streak is counted by is finite.
LEMMA EarnedIsFinite ==
    ASSUME minute \in Nat, DOMAIN source = 1..minute, TrialsAreObserved, NEW o, NEW match
    PROVE  EarnedBy(o, match) \in SUBSET (0..minute) /\ IsFiniteSet(EarnedBy(o, match))
<1>1. \A q \in trials : q.ref \in 0..minute
  <2>1. TAKE q \in trials
  <2>2. q.at \in Nat /\ q.ref = FeatureRef(q.at)
    BY DEF TrialsAreObserved
  <2>3. QED
    BY <2>2, FeatureIsLatest
<1>2. EarnedBy(o, match) \in SUBSET (0..minute)
  BY <1>1 DEF EarnedBy
<1>3. IsFiniteSet(0..minute)
  BY FS_Interval
<1>4. QED
  BY <1>2, <1>3, FS_Subset

\* The counts of an observation, by what is counted.
CountOf(o, match) == IF match = "supports" THEN o.support ELSE o.contra

\* What the streak continues was earned by observations all earlier than the
\* one a packet shows now.
LEMMA EarnedBefore ==
    ASSUME minute \in Nat, StreakInvariant, inOrder,
           NEW asof \in Nat, lastFrozen <= asof, NEW m \in DOMAIN models,
           ~ Repackaged(PriorTrial(m), FeatureRef(asof)),
           NEW match \in {"supports", "contradicts"}
    PROVE  \E E \in SUBSET (0..minute) :
              /\ FeatureRef(asof) \notin E
              /\ \A e \in E : \E q \in trials : /\ q.ref = e /\ q.model \in Ancestors(m)
                                                /\ q.at <= asof /\ q.match = match
              /\ Cardinality(E) \in Nat /\ CountOf(PriorTrial(m), match) \in Nat
              /\ CountOf(PriorTrial(m), match) <= Cardinality(E)
<1>1. CASE Lineage(m) = {}
  <2>1. TrialsOf(m) = {}
    BY <1>1 DEF Lineage
  <2>2. CountOf(PriorTrial(m), match) = 0
    BY <1>1, <2>1 DEF PriorTrial, CountOf
  <2>3. Cardinality({}) = 0
    BY FS_EmptySet
  <2>4. QED
    BY <2>2, <2>3
<1>2. CASE Lineage(m) # {}
  <2>1. PICK o : o = PriorTrial(m)
    OBVIOUS
  <2>2. /\ TrialsOf(m) \in SUBSET trials /\ Lineage(m) \in SUBSET trials
        /\ \A p \in Lineage(m) : p.model \in {m, models[m].continues}
        /\ TrialsOf(m) \subseteq Lineage(m)
    BY DEF Lineage, TrialsOf
  <2>3. o \in Lineage(m)
    <3>1. CASE TrialsOf(m) # {}
      BY <2>1, <2>2, <3>1, NewestIsNewest DEF StreakInvariant, PriorTrial
    <3>2. CASE TrialsOf(m) = {}
      BY <1>2, <2>1, <2>2, <3>2, NewestIsNewest DEF StreakInvariant, PriorTrial
    <3>3. QED
      BY <3>1, <3>2
  <2>4. o \in trials /\ o.model \in DOMAIN models /\ o.at \in Nat /\ o.at <= asof
        /\ o.ref = FeatureRef(o.at) /\ o.support \in Nat /\ o.contra \in Nat
    <3>1. o \in trials
      BY <2>2, <2>3
    <3>2. o.at \in Nat /\ o.at <= lastFrozen /\ lastFrozen \in Nat
      BY <3>1 DEF StreakInvariant, TrialsAreObserved
    <3>3. o.at <= asof
      BY <3>2
    <3>4. QED
      BY <3>1, <3>3 DEF StreakInvariant, TrialsAreObserved
  <2>5. Ancestors(o.model) \subseteq Ancestors(m)
    <3>1. o.model \in {m, models[m].continues}
      BY <2>2, <2>3
    <3>2. QED
      BY <2>4, <3>1, AncestorsOfContinued DEF StreakInvariant
  <2>6. PICK E : E = EarnedBy(o, match)
    OBVIOUS
  <2>7. E \in SUBSET (0..minute) /\ Cardinality(E) \in Nat
    BY <2>6, EarnedIsFinite, FS_CardinalityType DEF StreakInvariant
  <2>8. \A e \in E : \E q \in trials : /\ q.ref = e /\ q.model \in Ancestors(o.model)
                                       /\ q.at <= o.at /\ q.match = match
    BY <2>6 DEF EarnedBy
  <2>9. CountOf(o, match) \in Nat /\ CountOf(o, match) <= Cardinality(E)
    <3>1. Earned
      BY DEF StreakInvariant, StreaksAreEarned
    <3>2. Cardinality(EarnedBy(o, "supports")) >= o.support
          /\ Cardinality(EarnedBy(o, "contradicts")) >= o.contra
      BY <2>4, <3>1 DEF Earned
    <3>3. CASE match = "supports"
      BY <2>4, <2>6, <2>7, <3>2, <3>3 DEF CountOf
    <3>4. CASE match = "contradicts"
      BY <2>4, <2>6, <2>7, <3>2, <3>4 DEF CountOf
    <3>5. QED
      BY <3>3, <3>4
  <2>10. FeatureRef(asof) \notin E
    <3>1. SUFFICES ASSUME FeatureRef(asof) \in E PROVE FALSE
      OBVIOUS
    <3>2. PICK q \in trials : q.ref = FeatureRef(asof) /\ q.at <= o.at
      BY <2>8, <3>1
    <3>3. q.at \in Nat /\ q.ref = FeatureRef(q.at)
      BY DEF StreakInvariant, TrialsAreObserved
    <3>4. FeatureRef(q.at) <= FeatureRef(o.at) /\ FeatureRef(o.at) <= FeatureRef(asof)
      BY <2>4, <3>2, <3>3, FeatureGrows DEF StreakInvariant
    <3>5. FeatureRef(o.at) \in Nat /\ FeatureRef(asof) \in Nat /\ FeatureRef(q.at) \in Nat
      BY <2>4, <3>3, FeatureIsLatest DEF StreakInvariant
    <3>6. FeatureRef(o.at) = FeatureRef(asof)
      BY <3>2, <3>3, <3>4, <3>5
    <3>7. o.ref # FeatureRef(asof)
      BY <2>1 DEF Repackaged
    <3>8. QED
      BY <2>4, <3>6, <3>7
  <2>11. \A e \in E : \E q \in trials : /\ q.ref = e /\ q.model \in Ancestors(m)
                                        /\ q.at <= asof /\ q.match = match
    <3>1. TAKE e \in E
    <3>2. PICK q \in trials : /\ q.ref = e /\ q.model \in Ancestors(o.model)
                              /\ q.at <= o.at /\ q.match = match
      BY <2>8
    <3>3. q.at \in Nat
      BY DEF StreakInvariant, TrialsAreObserved
    <3>4. q.at <= asof /\ q.model \in Ancestors(m)
      BY <2>4, <2>5, <3>2, <3>3
    <3>5. QED
      BY <3>2, <3>4
  <2>12. QED
    BY <2>1, <2>7, <2>9, <2>10, <2>11
<1>3. QED
  BY <1>1, <1>2

\* The model a packet finds is none or one there is.
LEMMA ModelFound ==
    ASSUME ModelsAreInTurn, NEW asof \in Nat, NEW n \in Nat, DOMAIN models = 1..n
    PROVE  /\ LatestModel(asof) \in {0} \cup DOMAIN models
           /\ (\A m \in DOMAIN models : models[m].at <= asof) =>
                 LatestModel(asof) = n
<1>1. n \in Nat /\ DOMAIN models = 1..n
  OBVIOUS
<1>2. PICK S : S = {m \in DOMAIN models : models[m].at <= asof}
  OBVIOUS
<1>3. LatestModel(asof) = IF S = {} THEN 0 ELSE Max(S)
  BY <1>2 DEF LatestModel
<1>4. S \in SUBSET (0..n) /\ S \subseteq DOMAIN models
  <2>1. \A m \in 1..n : m \in 0..n
    BY <1>1
  <2>2. S \subseteq DOMAIN models
    BY <1>2
  <2>3. QED
    BY <1>1, <2>1, <2>2
<1>5. S # {} => Max(S) \in S /\ \A y \in S : y <= Max(S)
  BY <1>1, <1>4, GreatestOf
<1>6. ASSUME \A m \in DOMAIN models : models[m].at <= asof
      PROVE  LatestModel(asof) = n
  <2>1. S = 1..n
    <3>1. S = DOMAIN models
      <4>1. \A m \in DOMAIN models : m \in S
        BY <1>2, <1>6
      <4>2. QED
        BY <1>4, <4>1
    <3>2. QED
      BY <1>1, <3>1
  <2>2. CASE n = 0
    BY <1>3, <2>1, <2>2
  <2>3. CASE n # 0
    <3>1. n \in S
      BY <1>1, <2>1, <2>3
    <3>2. Max(S) \in 1..n /\ n <= Max(S)
      BY <1>5, <2>1, <3>1
    <3>3. QED
      BY <1>1, <1>3, <3>1, <3>2
  <2>4. QED
    BY <2>2, <2>3
<1>7. QED
  BY <1>1, <1>3, <1>4, <1>5, <1>6

\* What a step may change that adds no observation: the batch and the
\* executions, all of the past.
LEMMA BatchMoves ==
    ASSUME StreakInvariant,
           UNCHANGED <<minute, source, models, trials, lastFrozen, inOrder>>,
           request'.by # 0 => request'.pc = "open",
           request'.at <= minute, request'.cutoff <= minute,
           \A t \in 1..Threads : thread'[t].at <= minute /\ thread'[t].cutoff <= minute,
           request'.pc # "none" => \A m \in DOMAIN models : models[m].at <= request'.at
    PROVE  StreakInvariant'
<1>1. ModelsAreInTurn'
  BY DEF StreakInvariant, ModelsAreInTurn
<1>2. BatchIsOfThePast'
  BY DEF BatchIsOfThePast
<1>3. TrialsAreObserved'
  <2>1. \A o \in trials : FeatureRef(o.at)' = FeatureRef(o.at)
    BY DEF FeatureRef
  <2>2. QED
    BY <2>1 DEF StreakInvariant, TrialsAreObserved
<1>4. StreaksAreEarned'
  <2>1. \A o \in trials : /\ EarnedBy(o, "supports")' = EarnedBy(o, "supports")
                          /\ EarnedBy(o, "contradicts")' = EarnedBy(o, "contradicts")
    BY DEF EarnedBy, Ancestors
  <2>2. QED
    BY <2>1 DEF StreakInvariant, StreaksAreEarned, Earned
<1>5. QED
  BY <1>1, <1>2, <1>3, <1>4 DEF StreakInvariant

\* A new observation keeps every streak earned.
LEMMA FreezeEarned ==
    ASSUME minute \in Nat, StreakInvariant, inOrder,
           NEW asof \in Nat, asof <= minute, lastFrozen <= asof,
           NEW o, NEW m \in DOMAIN models, NEW ref, ref = FeatureRef(asof),
           ~ Repackaged(PriorTrial(m), ref),
           o.model = m, o.at = asof, o.ref = ref, o.match = source[ref],
           o.support = IF source[ref] = "supports" THEN PriorTrial(m).support + 1 ELSE 0,
           o.contra = IF source[ref] = "contradicts" THEN PriorTrial(m).contra + 1 ELSE 0,
           trials' = trials \cup {o}, UNCHANGED <<minute, source, models>>
    PROVE  /\ Earned' /\ o.support \in Nat /\ o.contra \in Nat
<1>1. ref \in Nat /\ ref \in 0..minute
  BY FeatureIsLatest DEF StreakInvariant
<1>2. \A q \in trials : q.ref \in 0..minute
  <2>1. TAKE q \in trials
  <2>2. q.at \in Nat /\ q.ref = FeatureRef(q.at) /\ DOMAIN source = 1..minute
    BY DEF StreakInvariant, TrialsAreObserved
  <2>3. PICK at \in Nat : at = q.at
    BY <2>2
  <2>4. FeatureRef(at) \in Nat /\ (FeatureRef(at) # 0 => FeatureRef(at) \in 1..minute)
    BY <2>2, FeatureIsLatest
  <2>5. QED
    BY <2>2, <2>3, <2>4
<1>3. IsFiniteSet(0..minute)
  BY FS_Interval
<1>4. \A k : Ancestors(k)' = Ancestors(k)
  BY DEF Ancestors
<1>5. ASSUME NEW p \in trials', NEW match, NEW E, NEW F, F = EarnedBy(p, match)', E \subseteq F
      PROVE  IsFiniteSet(F) /\ Cardinality(F) \in Nat /\ Cardinality(E) \in Nat
             /\ Cardinality(E) <= Cardinality(F)
  <2>1. F \subseteq 0..minute
    BY <1>1, <1>2, <1>5 DEF EarnedBy
  <2>2. IsFiniteSet(F) /\ IsFiniteSet(E)
    BY <1>3, <1>5, <2>1, FS_Subset
  <2>3. QED
    BY <1>5, <2>2, FS_Subset, FS_CardinalityType
<1>6. ASSUME NEW p \in trials, NEW match \in {"supports", "contradicts"}
      PROVE  Cardinality(EarnedBy(p, match)') >= CountOf(p, match)
  <2>1. PICK E : E = EarnedBy(p, match)
    OBVIOUS
  <2>2. PICK F : F = EarnedBy(p, match)'
    OBVIOUS
  <2>3. E \subseteq F
    BY <1>4, <2>1, <2>2 DEF EarnedBy
  <2>4. Cardinality(F) \in Nat /\ Cardinality(E) \in Nat /\ Cardinality(E) <= Cardinality(F)
    BY <1>5, <2>2, <2>3
  <2>5. Cardinality(EarnedBy(p, "supports")) >= p.support
        /\ Cardinality(EarnedBy(p, "contradicts")) >= p.contra
    BY DEF StreakInvariant, StreaksAreEarned, Earned
  <2>6. CountOf(p, match) <= Cardinality(E) /\ CountOf(p, match) \in Nat
    <3>1. p.support \in Nat /\ p.contra \in Nat
      BY DEF StreakInvariant, TrialsAreObserved
    <3>2. CASE match = "supports"
      BY <2>1, <2>4, <2>5, <3>1, <3>2 DEF CountOf
    <3>3. CASE match = "contradicts"
      BY <2>1, <2>4, <2>5, <3>1, <3>3 DEF CountOf
    <3>4. QED
      BY <3>2, <3>3
  <2>7. QED
    BY <2>2, <2>4, <2>6
<1>7. ASSUME NEW match \in {"supports", "contradicts"}
      PROVE  CountOf(o, match) \in Nat /\ Cardinality(EarnedBy(o, match)') >= CountOf(o, match)
  <2>1. PICK F : F = EarnedBy(o, match)'
    OBVIOUS
  <2>2. CASE source[ref] = match
    <3>1. PICK E \in SUBSET (0..minute) :
              /\ ref \notin E
              /\ \A e \in E : \E q \in trials : /\ q.ref = e /\ q.model \in Ancestors(m)
                                                /\ q.at <= asof /\ q.match = match
              /\ Cardinality(E) \in Nat /\ CountOf(PriorTrial(m), match) \in Nat
              /\ CountOf(PriorTrial(m), match) <= Cardinality(E)
      BY EarnedBefore
    <3>2. CountOf(o, match) = CountOf(PriorTrial(m), match) + 1
      BY <2>2 DEF CountOf
    <3>3. PICK G : G = E \cup {ref}
      OBVIOUS
    <3>4. IsFiniteSet(E)
      BY <1>3, FS_Subset
    <3>5. Cardinality(G) = Cardinality(E) + 1
      BY <3>1, <3>3, <3>4, FS_AddElement
    <3>6. ref \in F
      <4>1. m \in Ancestors(m)' /\ asof <= asof
        BY <1>4, AncestorsOfContinued DEF StreakInvariant
      <4>2. o \in {q \in trials' : q.model \in Ancestors(o.model)' /\ q.at <= o.at
                                   /\ q.match = match}
        BY <2>2, <4>1
      <4>3. QED
        BY <2>1, <4>2 DEF EarnedBy
    <3>7. E \subseteq F
      <4>1. SUFFICES ASSUME NEW e \in E PROVE e \in F
        OBVIOUS
      <4>2. PICK q \in trials : /\ q.ref = e /\ q.model \in Ancestors(m)
                                /\ q.at <= asof /\ q.match = match
        BY <3>1
      <4>3. q \in {x \in trials' : x.model \in Ancestors(o.model)' /\ x.at <= o.at
                                   /\ x.match = match}
        BY <1>4, <4>2
      <4>4. QED
        BY <2>1, <4>2, <4>3 DEF EarnedBy
    <3>8. Cardinality(F) \in Nat /\ Cardinality(G) <= Cardinality(F)
      BY <1>5, <2>1, <3>3, <3>6, <3>7
    <3>9. QED
      BY <2>1, <3>1, <3>2, <3>5, <3>8
  <2>3. CASE source[ref] # match
    <3>1. CountOf(o, match) = 0
      BY <2>3 DEF CountOf
    <3>2. Cardinality(F) \in Nat
      BY <1>5, <2>1
    <3>3. QED
      BY <2>1, <3>1, <3>2
  <2>4. QED
    BY <2>2, <2>3
<1>8. o.support \in Nat /\ o.contra \in Nat
  BY <1>7 DEF CountOf
<1>9. ASSUME NEW p \in trials'
      PROVE  /\ Cardinality(EarnedBy(p, "supports")') >= p.support
             /\ Cardinality(EarnedBy(p, "contradicts")') >= p.contra
  <2>1. CASE p \in trials
    BY <1>6, <2>1 DEF CountOf
  <2>2. CASE p = o
    BY <1>7, <2>2 DEF CountOf
  <2>3. QED
    BY <2>1, <2>2
<1>10. Earned'
  BY <1>9 DEF Earned
<1>11. QED
  BY <1>8, <1>10

\* A packet frozen for its time settles the test of the model it finds.
LEMMA FreezeKeepsStreaks ==
    ASSUME SpacingInvariant, StreakInvariant, NEW t \in 1..Threads, FreezePacket(t)
    PROVE  StreakInvariant'
<1>1. PICK w : w = thread[t]
  OBVIOUS
<1>2. w \in ThreadRow /\ minute \in Nat /\ w.at <= minute /\ w.cutoff <= minute
  BY <1>1 DEF SpacingInvariant, StreakInvariant, BatchIsOfThePast
<1>3. PICK asof : asof = NextFreeze(w)
  OBVIOUS
<1>4. asof \in Nat /\ asof <= minute
  BY <1>2, <1>3 DEF NextFreeze, ThreadRow
<1>5. PICK m : m = LatestModel(asof)
  OBVIOUS
<1>6. m \in {0} \cup DOMAIN models
  BY <1>4, <1>5, ModelFound DEF StreakInvariant, ModelsAreInTurn
<1>7. /\ trials' = Recorded(Observed(m, asof))
      /\ inOrder' = (inOrder /\ asof >= lastFrozen)
      /\ lastFrozen' = Max({lastFrozen, asof})
      /\ UNCHANGED <<minute, source, models, request>>
  BY <1>1, <1>3, <1>5 DEF FreezePacket
<1>8. lastFrozen' \in Nat /\ lastFrozen <= lastFrozen' /\ asof <= lastFrozen'
  <2>1. lastFrozen \in Nat
    BY DEF StreakInvariant
  <2>2. PICK n \in Nat : lastFrozen <= n /\ asof <= n
    <3>1. lastFrozen + asof \in Nat /\ lastFrozen <= lastFrozen + asof
          /\ asof <= lastFrozen + asof
      BY <1>4, <2>1
    <3>2. QED
      BY <3>1
  <2>3. {lastFrozen, asof} \in SUBSET (0..n) /\ {lastFrozen, asof} # {}
    BY <1>4, <2>1, <2>2
  <2>4. Max({lastFrozen, asof}) \in {lastFrozen, asof}
        /\ \A y \in {lastFrozen, asof} : y <= Max({lastFrozen, asof})
    BY <2>2, <2>3, GreatestOf
  <2>5. QED
    BY <1>4, <1>7, <2>1, <2>4
<1>9. BatchIsOfThePast'
  <2>1. PICK r : r = IF w.cutoff # 0 THEN [w EXCEPT !.cutoff = 0] ELSE [w EXCEPT !.at = 0]
    OBVIOUS
  <2>2. r.at <= minute /\ r.cutoff <= minute
    BY <1>2, <2>1 DEF ThreadRow
  <2>3. thread' = [thread EXCEPT ![t] = r]
    BY <1>1, <2>1 DEF FreezePacket
  <2>4. thread \in [1..Threads -> ThreadRow]
    BY DEF SpacingInvariant
  <2>5. \A u \in 1..Threads : thread'[u].at <= minute /\ thread'[u].cutoff <= minute
    BY <2>2, <2>3, <2>4 DEF StreakInvariant, BatchIsOfThePast
  <2>6. QED
    BY <1>7, <2>5 DEF StreakInvariant, BatchIsOfThePast
<1>10. ModelsAreInTurn'
  BY <1>7 DEF StreakInvariant, ModelsAreInTurn
<1>11. CASE trials' = trials
  <2>1. TrialsAreObserved'
    <3>1. \A o \in trials : FeatureRef(o.at)' = FeatureRef(o.at)
      BY <1>7 DEF FeatureRef
    <3>2. QED
      BY <1>7, <1>11, <3>1 DEF StreakInvariant, TrialsAreObserved
  <2>2. StreaksAreEarned'
    <3>1. \A o \in trials : /\ EarnedBy(o, "supports")' = EarnedBy(o, "supports")
                            /\ EarnedBy(o, "contradicts")' = EarnedBy(o, "contradicts")
      BY <1>7, <1>11 DEF EarnedBy, Ancestors
    <3>2. QED
      BY <1>7, <1>11, <3>1 DEF StreakInvariant, StreaksAreEarned, Earned
  <2>3. inOrder' => \A o \in trials' : o.at <= lastFrozen'
    <3>1. SUFFICES ASSUME inOrder', NEW o \in trials PROVE o.at <= lastFrozen'
      BY <1>11
    <3>2. inOrder
      BY <1>7, <3>1
    <3>3. o.at <= lastFrozen /\ o.at \in Nat /\ lastFrozen \in Nat
      BY <3>2 DEF StreakInvariant, TrialsAreObserved
    <3>4. QED
      BY <1>8, <3>3
  <2>4. QED
    BY <1>7, <1>8, <1>9, <1>10, <2>1, <2>2, <2>3 DEF StreakInvariant
<1>12. CASE trials' # trials
  <2>1. PICK ref : ref = FeatureRef(asof)
    OBVIOUS
  <2>2. m # 0 /\ TestDue(m, asof) /\ ~ Repackaged(PriorTrial(m), ref)
    <3>1. Observed(m, asof) # {}
      BY <1>7, <1>12 DEF Recorded
    <3>2. QED
      BY <2>1, <3>1 DEF Observed
  <2>3. PICK o : o = [model |-> m, at |-> asof, ref |-> ref, match |-> source[ref],
                      knew |-> Told(m),
                      support |-> IF source[ref] = "supports"
                                  THEN PriorTrial(m).support + 1 ELSE 0,
                      contra  |-> IF source[ref] = "contradicts"
                                  THEN PriorTrial(m).contra + 1 ELSE 0]
    OBVIOUS
  <2>4. Observed(m, asof) = {o}
    BY <2>1, <2>2, <2>3 DEF Observed
  <2>5. trials' = trials \cup {o}
    BY <1>7, <1>12, <2>4 DEF Recorded
  <2>6. m \in DOMAIN models
    BY <1>6, <2>2
  <2>7. /\ o.model = m /\ o.at = asof /\ o.ref = ref /\ o.match = source[ref]
        /\ o.support = IF source[ref] = "supports" THEN PriorTrial(m).support + 1 ELSE 0
        /\ o.contra = IF source[ref] = "contradicts" THEN PriorTrial(m).contra + 1 ELSE 0
    BY <2>3
  <2>8. inOrder' => lastFrozen <= asof /\ inOrder
    <3>1. lastFrozen \in Nat
      BY DEF StreakInvariant
    <3>2. QED
      BY <1>4, <1>7, <3>1
  <2>9. inOrder' => Earned' /\ o.support \in Nat /\ o.contra \in Nat
    BY <1>2, <1>4, <1>7, <2>1, <2>2, <2>5, <2>6, <2>7, <2>8, FreezeEarned
  <2>10. o.support \in Nat /\ o.contra \in Nat
    <3>1. PriorTrial(m).support \in Nat /\ PriorTrial(m).contra \in Nat
      <4>1. TrialsOf(m) \in SUBSET trials /\ Lineage(m) \in SUBSET trials
        BY DEF Lineage, TrialsOf
      <4>2. \A S \in SUBSET trials : S # {} => NewestOf(S).support \in Nat
                                              /\ NewestOf(S).contra \in Nat
        BY <1>2, NewestIsNewest DEF StreakInvariant, TrialsAreObserved
      <4>3. QED
        BY <4>1, <4>2 DEF PriorTrial
    <3>2. QED
      BY <2>7, <3>1
  <2>11. TrialsAreObserved'
    <3>1. \A k \in Nat : FeatureRef(k)' = FeatureRef(k)
      BY <1>7 DEF FeatureRef
    <3>2. \A q \in trials : /\ q.model \in DOMAIN models /\ q.at \in Nat /\ q.at <= minute
                            /\ q.ref = FeatureRef(q.at) /\ q.support \in Nat /\ q.contra \in Nat
      BY DEF StreakInvariant, TrialsAreObserved
    <3>3. /\ o.model \in DOMAIN models /\ o.at \in Nat /\ o.at <= minute
          /\ o.ref = FeatureRef(o.at)
      BY <1>4, <2>1, <2>6, <2>7
    <3>4. \A q \in trials' : /\ q.model \in DOMAIN models /\ q.at \in Nat /\ q.at <= minute
                             /\ q.ref = FeatureRef(q.at) /\ q.support \in Nat /\ q.contra \in Nat
      BY <2>5, <2>10, <3>2, <3>3
    <3>5. QED
      BY <1>7, <3>1, <3>4 DEF TrialsAreObserved
  <2>12. inOrder' => \A q \in trials' : q.at <= lastFrozen'
    <3>1. SUFFICES ASSUME inOrder', NEW q \in trials' PROVE q.at <= lastFrozen'
      OBVIOUS
    <3>2. CASE q \in trials
      <4>1. q.at <= lastFrozen /\ q.at \in Nat /\ lastFrozen \in Nat
        BY <2>8, <3>1, <3>2 DEF StreakInvariant, TrialsAreObserved
      <4>2. QED
        BY <1>8, <4>1
    <3>3. CASE q = o
      BY <1>8, <2>7, <3>3
    <3>4. QED
      BY <2>5, <3>2, <3>3
  <2>13. StreaksAreEarned'
    BY <2>9 DEF StreaksAreEarned
  <2>14. QED
    BY <1>7, <1>8, <1>9, <1>10, <2>11, <2>12, <2>13 DEF StreakInvariant
<1>13. QED
  BY <1>11, <1>12

\* Time passes, and the source is observed once more.
LEMMA MinuteKeepsStreaks ==
    ASSUME SpacingInvariant, StreakInvariant, MinutePasses
    PROVE  StreakInvariant'
<1>1. minute \in Nat /\ minute' = minute + 1 /\ DOMAIN source = 1..minute
      /\ request \in RequestRow /\ thread \in [1..Threads -> ThreadRow]
      /\ UNCHANGED <<models, trials, request, thread, lastFrozen, inOrder>>
  BY DEF SpacingInvariant, StreakInvariant, MinutePasses
<1>2. PICK k : source' = [u \in DOMAIN source \cup {minute + 1} |->
                            IF u = minute + 1 THEN k ELSE source[u]]
  BY DEF MinutePasses
<1>3. DOMAIN source' = 1..(minute + 1) /\ \A u \in 1..minute : source'[u] = source[u]
  BY <1>1, <1>2
<1>4. \A k1 \in Nat : k1 <= minute => k1 <= minute'
  BY <1>1
<1>5. ModelsAreInTurn'
  BY <1>1, <1>4 DEF StreakInvariant, ModelsAreInTurn
<1>6. BatchIsOfThePast'
  <2>1. request.at \in Nat /\ request.cutoff \in Nat
    BY <1>1 DEF RequestRow
  <2>2. \A u \in 1..Threads : thread[u].at \in Nat /\ thread[u].cutoff \in Nat
    BY <1>1 DEF ThreadRow
  <2>3. QED
    BY <1>1, <1>4, <2>1, <2>2 DEF StreakInvariant, BatchIsOfThePast
<1>7. TrialsAreObserved'
  <2>1. SUFFICES ASSUME NEW o \in trials
                 PROVE  /\ o.model \in DOMAIN models /\ o.at \in Nat /\ o.at <= minute'
                        /\ o.ref = FeatureRef(o.at)' /\ o.support \in Nat /\ o.contra \in Nat
    BY <1>1 DEF TrialsAreObserved
  <2>2. /\ o.model \in DOMAIN models /\ o.at \in Nat /\ o.at <= minute
        /\ o.ref = FeatureRef(o.at) /\ o.support \in Nat /\ o.contra \in Nat
    BY DEF StreakInvariant, TrialsAreObserved
  <2>3. FeatureRef(o.at)' = FeatureRef(o.at)
    BY <1>1, <1>3, <2>2, FeatureStands
  <2>4. QED
    BY <1>4, <2>2, <2>3
<1>8. StreaksAreEarned'
  <2>1. \A o \in trials : /\ EarnedBy(o, "supports")' = EarnedBy(o, "supports")
                          /\ EarnedBy(o, "contradicts")' = EarnedBy(o, "contradicts")
    BY <1>1 DEF EarnedBy, Ancestors
  <2>2. QED
    BY <1>1, <2>1 DEF StreakInvariant, StreaksAreEarned, Earned
<1>9. QED
  BY <1>1, <1>3, <1>5, <1>6, <1>7, <1>8 DEF StreakInvariant

\* A new model is the last, and continues the one before it or none.
LEMMA AnalysisKeepsStreaks ==
    ASSUME SpacingInvariant, StreakInvariant, AnalysisEnds
    PROVE  StreakInvariant'
<1>1. /\ request.pc = "analysis" /\ request' = [request EXCEPT !.pc = "none"]
      /\ request \in RequestRow /\ minute \in Nat /\ DOMAIN source = 1..minute
      /\ UNCHANGED <<minute, source, trials, thread, lastFrozen, inOrder>>
  BY DEF AnalysisEnds, SpacingInvariant, StreakInvariant
<1>2. request'.pc = "none" /\ request'.by = 0 /\ request'.at <= minute /\ request'.cutoff <= minute
  BY <1>1 DEF RequestRow, StreakInvariant, BatchIsOfThePast
<1>3. BatchIsOfThePast'
  BY <1>1, <1>2 DEF StreakInvariant, BatchIsOfThePast
<1>4. CASE models' = models
  BY <1>1, <1>2, <1>4, BatchMoves DEF StreakInvariant, BatchIsOfThePast
<1>5. CASE models' # models
  <2>1. PICK n \in Nat : n = Cardinality(DOMAIN models) /\ DOMAIN models = 1..n
    <3>1. PICK n \in Nat : DOMAIN models = 1..n
      BY DEF StreakInvariant, ModelsAreInTurn
    <3>2. Cardinality(1..n) = n
      BY FS_Interval
    <3>3. QED
      BY <3>1, <3>2
  <2>2. PICK back \in {0, LatestModel(request.at)} :
          models' = [m \in DOMAIN models \cup {n + 1} |->
             IF m \in DOMAIN models THEN models[m] ELSE [at |-> minute, continues |-> back]]
    BY <1>5, <2>1 DEF AnalysisEnds
  <2>3. back \in {0, n}
    <3>1. request.at \in Nat /\ \A m \in DOMAIN models : models[m].at <= request.at
      BY <1>1 DEF RequestRow, StreakInvariant, ModelsAreInTurn
    <3>2. LatestModel(request.at) = n
      BY <2>1, <3>1, ModelFound DEF StreakInvariant
    <3>3. QED
      BY <2>2, <3>2
  <2>4. /\ DOMAIN models' = 1..(n + 1) /\ \A m \in 1..n : models'[m] = models[m]
        /\ models'[n + 1] = [at |-> minute, continues |-> back]
    <3>1. (1..n) \cup {n + 1} = 1..(n + 1) /\ n + 1 \notin 1..n
      BY <2>1
    <3>2. PICK D : D = DOMAIN models
      OBVIOUS
    <3>3. models' = [m \in D \cup {n + 1} |->
             IF m \in D THEN models[m] ELSE [at |-> minute, continues |-> back]]
      BY <2>2, <3>2
    <3>4. D = 1..n
      BY <2>1, <3>2
    <3>5. DOMAIN models' = 1..(n + 1)
      BY <3>1, <3>3, <3>4
    <3>6. \A m \in 1..n : models'[m] = models[m]
      BY <3>3, <3>4
    <3>7. models'[n + 1] = [at |-> minute, continues |-> back]
      BY <3>1, <3>3, <3>4
    <3>8. QED
      BY <3>5, <3>6, <3>7
  <2>5. \E k \in {0} \cup DOMAIN models' : k \in Nat /\ DOMAIN models' = 1..k
    <3>1. n + 1 \in Nat /\ n + 1 \in 1..(n + 1)
      BY <2>1
    <3>2. QED
      BY <2>4, <3>1
  <2>6. ModelsAreInTurn'
    <3>1. ASSUME NEW m \in 1..(n + 1)
          PROVE  /\ models'[m].at \in Nat /\ models'[m].continues \in {0, m - 1}
                 /\ models'[m].at <= minute
      <4>1. CASE m \in 1..n
        BY <2>1, <2>4, <4>1 DEF StreakInvariant, ModelsAreInTurn
      <4>2. CASE m = n + 1
        BY <1>1, <2>3, <2>4, <4>2
      <4>3. QED
        BY <2>1, <4>1, <4>2
    <3>2. \A m \in DOMAIN models' :
             /\ models'[m].at \in Nat /\ models'[m].continues \in {0, m - 1}
             /\ models'[m].at <= minute'
             /\ request'.pc # "none" => models'[m].at <= request'.at
      BY <1>1, <1>2, <2>4, <3>1
    <3>3. QED
      BY <2>5, <3>2 DEF ModelsAreInTurn
  <2>7. TrialsAreObserved'
    <3>1. \A o \in trials : FeatureRef(o.at)' = FeatureRef(o.at)
      BY <1>1 DEF FeatureRef
    <3>2. DOMAIN models \subseteq DOMAIN models'
      <4>1. \A m \in 1..n : m \in 1..(n + 1)
        BY <2>1
      <4>2. QED
        BY <2>1, <2>4, <4>1
    <3>3. QED
      BY <1>1, <3>1, <3>2 DEF StreakInvariant, TrialsAreObserved
  <2>8. \A k \in DOMAIN models : Ancestors(k)' = Ancestors(k)
    <3>1. TAKE k \in DOMAIN models
    <3>2. k \in 1..n
      BY <2>1
    <3>3. \A a \in 1..(n + 1) : a <= k => a \in 1..n
      BY <2>1, <3>2
    <3>4. \A a \in 1..n : \A b \in (a + 1)..k : models'[b] = models[b]
      BY <2>1, <2>4, <3>2
    <3>5. ASSUME NEW a
          PROVE  a \in Ancestors(k)' <=> a \in Ancestors(k)
      <4>1. a \in Ancestors(k)' <=> /\ a \in 1..(n + 1) /\ a <= k
                                    /\ \A b \in (a + 1)..k : models'[b].continues = b - 1
        BY <2>4 DEF Ancestors
      <4>2. a \in Ancestors(k) <=> /\ a \in 1..n /\ a <= k
                                   /\ \A b \in (a + 1)..k : models[b].continues = b - 1
        BY <2>1 DEF Ancestors
      <4>3. a \in 1..n => a \in 1..(n + 1)
        BY <2>1
      <4>4. QED
        BY <3>3, <3>4, <4>1, <4>2, <4>3
    <3>6. QED
      BY <3>5 DEF Ancestors
  <2>9. StreaksAreEarned'
    <3>1. \A o \in trials : o.model \in DOMAIN models
      BY DEF StreakInvariant, TrialsAreObserved
    <3>2. \A o \in trials : /\ EarnedBy(o, "supports")' = EarnedBy(o, "supports")
                            /\ EarnedBy(o, "contradicts")' = EarnedBy(o, "contradicts")
      BY <1>1, <2>8, <3>1 DEF EarnedBy
    <3>3. QED
      BY <1>1, <3>2 DEF StreakInvariant, StreaksAreEarned, Earned
  <2>10. QED
    BY <1>1, <1>3, <2>6, <2>7, <2>9 DEF StreakInvariant
<1>6. QED
  BY <1>4, <1>5

\* An execution the workflow waits for is of an open batch, and what it hears
\* of it leaves the batch what it is.
LEMMA HearingKeepsTheBatch ==
    ASSUME SpacingInvariant, StreakInvariant, NEW t \in 1..Threads,
           NEW pc, NEW after, Hears(t, pc, after)
    PROVE  /\ request'.by # 0 => request'.pc = "open"
           /\ request'.at <= minute /\ request'.cutoff <= minute
           /\ request'.pc # "none" => \A m \in DOMAIN models : models[m].at <= request'.at
<1>1. request \in RequestRow /\ t # 0
  BY DispatchNumbers DEF SpacingInvariant
<1>2. /\ request.by # 0 => request.pc = "open"
      /\ request.at <= minute /\ request.cutoff <= minute
      /\ request.pc # "none" => \A m \in DOMAIN models : models[m].at <= request.at
  BY DEF StreakInvariant, BatchIsOfThePast, ModelsAreInTurn
<1>3. CASE request.by = t
  <2>1. request' = [request EXCEPT !.by = 0, !.pc = pc, !.after = after]
    BY <1>3 DEF Hears
  <2>2. request'.by = 0 /\ request'.at = request.at /\ request'.cutoff = request.cutoff
    BY <1>1, <2>1 DEF RequestRow
  <2>3. request.pc = "open"
    BY <1>1, <1>2, <1>3
  <2>4. QED
    BY <1>2, <2>2, <2>3
<1>4. CASE request.by # t
  BY <1>2, <1>4 DEF Hears
<1>5. QED
  BY <1>3, <1>4

\* What the coordinator does with its batch.
LEMMA WorkflowKeepsStreaks ==
    ASSUME SpacingInvariant, StreakInvariant, SubmitBatch \/ GiveUpExecution \/ DropBatch
    PROVE  StreakInvariant'
<1>1. /\ UNCHANGED <<minute, source, models, trials, thread, lastFrozen, inOrder>>
      /\ request \in RequestRow /\ minute \in Nat
  BY DEF SubmitBatch, GiveUpExecution, DropBatch, SpacingInvariant
<1>2. /\ request.by # 0 => request.pc = "open"
      /\ request.at <= minute /\ request.cutoff <= minute
      /\ request.pc # "none" => \A m \in DOMAIN models : models[m].at <= request.at
      /\ \A m \in DOMAIN models : models[m].at <= minute
      /\ \A t \in 1..Threads : thread[t].at <= minute /\ thread[t].cutoff <= minute
  BY DEF StreakInvariant, BatchIsOfThePast, ModelsAreInTurn
<1>3. /\ request'.by = 0 /\ request'.at <= minute /\ request'.cutoff <= minute
      /\ request'.pc # "none" => \A m \in DOMAIN models : models[m].at <= request'.at
  <2>1. CASE SubmitBatch
    <3>1. PICK review \in BOOLEAN, cutoff \in {0} \cup (1..(minute - 1)) :
             request' = [n |-> request.n + 1, at |-> minute, review |-> review,
                         cutoff |-> cutoff, pc |-> "open", by |-> 0, after |-> 0]
      BY <2>1 DEF SubmitBatch
    <3>2. cutoff <= minute /\ minute <= minute
      BY <1>1
    <3>3. QED
      BY <1>2, <3>1, <3>2
  <2>2. CASE GiveUpExecution
    BY <1>1, <1>2, <2>2 DEF GiveUpExecution, RequestRow
  <2>3. CASE DropBatch
    BY <1>1, <1>2, <2>3 DEF DropBatch, RequestRow
  <2>4. QED
    BY <2>1, <2>2, <2>3
<1>4. QED
  BY <1>1, <1>2, <1>3, BatchMoves

\* What the executions do but freeze packets.
LEMMA ExecutionKeepsStreaks ==
    ASSUME SpacingInvariant, StreakInvariant, NEW t \in 1..Threads,
           ExecuteActivity(t) \/ TakeLock(t) \/ InputMissing(t) \/ ReadClock(t) \/ AdmitCall(t)
    PROVE  StreakInvariant'
<1>1. /\ UNCHANGED <<minute, source, models, trials, lastFrozen, inOrder>>
      /\ request \in RequestRow /\ minute \in Nat /\ thread \in [1..Threads -> ThreadRow]
  BY DEF ExecuteActivity, TakeLock, InputMissing, ReadClock, AdmitCall, SpacingInvariant
<1>2. /\ request.by # 0 => request.pc = "open"
      /\ request.at <= minute /\ request.cutoff <= minute
      /\ request.pc # "none" => \A m \in DOMAIN models : models[m].at <= request.at
      /\ \A u \in 1..Threads : thread[u].at <= minute /\ thread[u].cutoff <= minute
  BY DEF StreakInvariant, BatchIsOfThePast, ModelsAreInTurn
<1>3. PICK r : /\ thread' = [thread EXCEPT ![t] = r]
               /\ r.at <= minute /\ r.cutoff <= minute
  <2>1. CASE ExecuteActivity(t)
    <3>1. PICK r : r = [pc |-> "waiting", of |-> request.n, clock |-> 0,
                        cutoff |-> request.cutoff,
                        at |-> IF request.review THEN request.at ELSE 0]
      OBVIOUS
    <3>2. r.at <= minute /\ r.cutoff <= minute
      BY <1>1, <1>2, <3>1
    <3>3. QED
      BY <2>1, <3>1, <3>2 DEF ExecuteActivity
  <2>2. CASE TakeLock(t)
    <3>1. PICK r : r = [thread[t] EXCEPT !.pc = "freeze"]
      OBVIOUS
    <3>2. r.at <= minute /\ r.cutoff <= minute
      BY <1>1, <1>2, <3>1 DEF ThreadRow
    <3>3. QED
      BY <2>2, <3>1, <3>2 DEF TakeLock
  <2>3. CASE ReadClock(t)
    <3>1. PICK r : r = [thread[t] EXCEPT !.pc = "admit", !.clock = minute]
      OBVIOUS
    <3>2. r.at <= minute /\ r.cutoff <= minute
      BY <1>1, <1>2, <3>1 DEF ThreadRow
    <3>3. thread' = [thread EXCEPT ![t] = r]
      BY <1>1, <2>3, <3>1 DEF ReadClock, ThreadRow
    <3>4. QED
      BY <3>2, <3>3
  <2>4. CASE InputMissing(t) \/ AdmitCall(t)
    <3>1. thread' = [thread EXCEPT ![t] = NoThread]
      BY <2>4 DEF InputMissing, AdmitCall, ExecutionEnds
    <3>2. NoThread.at = 0 /\ NoThread.cutoff = 0 /\ 0 <= minute
      BY <1>1 DEF NoThread
    <3>3. QED
      BY <3>1, <3>2
  <2>5. QED
    BY <2>1, <2>2, <2>3, <2>4
<1>4. \A u \in 1..Threads : thread'[u].at <= minute /\ thread'[u].cutoff <= minute
  BY <1>1, <1>2, <1>3
<1>5. /\ request'.by # 0 => request'.pc = "open"
      /\ request'.at <= minute /\ request'.cutoff <= minute
      /\ request'.pc # "none" => \A m \in DOMAIN models : models[m].at <= request'.at
  <2>1. CASE ExecuteActivity(t)
    <3>1. request.pc = "open" /\ request' = [request EXCEPT !.by = t]
      BY <2>1 DEF ExecuteActivity
    <3>2. request'.pc = "open" /\ request'.at = request.at /\ request'.cutoff = request.cutoff
      BY <1>1, <3>1 DEF RequestRow
    <3>3. QED
      BY <1>2, <3>1, <3>2
  <2>2. CASE TakeLock(t) \/ ReadClock(t)
    BY <1>2, <2>2 DEF TakeLock, ReadClock
  <2>3. CASE InputMissing(t)
    BY <2>3, HearingKeepsTheBatch DEF InputMissing
  <2>4. CASE AdmitCall(t)
    <3>1. PICK pc, after : Hears(t, pc, after)
      BY <2>4 DEF AdmitCall
    <3>2. QED
      BY <3>1, HearingKeepsTheBatch
  <2>5. QED
    BY <2>1, <2>2, <2>3, <2>4
<1>6. QED
  BY <1>1, <1>4, <1>5, BatchMoves

\* The worker dies.
LEMMA WorkerKeepsStreaks ==
    ASSUME SpacingInvariant, StreakInvariant, WorkerDies
    PROVE  StreakInvariant'
<1>1. /\ UNCHANGED <<minute, source, models, trials, lastFrozen, inOrder>>
      /\ request \in RequestRow /\ minute \in Nat
  BY DEF WorkerDies, SpacingInvariant
<1>2. /\ request.by # 0 => request.pc = "open"
      /\ request.at <= minute /\ request.cutoff <= minute
      /\ request.pc # "none" => \A m \in DOMAIN models : models[m].at <= request.at
  BY DEF StreakInvariant, BatchIsOfThePast, ModelsAreInTurn
<1>3. \A u \in 1..Threads : thread'[u].at <= minute /\ thread'[u].cutoff <= minute
  BY <1>1 DEF WorkerDies, NoThread
<1>4. /\ request'.by = 0 /\ request'.at = request.at /\ request'.cutoff = request.cutoff
      /\ request'.pc = request.pc
  BY <1>1, <1>2 DEF WorkerDies, RequestRow
<1>5. QED
  BY <1>1, <1>2, <1>3, <1>4, BatchMoves

\* Nothing is observed at the beginning.
LEMMA StreaksInitially == DispatchInit => StreakInvariant
<1>. SUFFICES ASSUME DispatchInit PROVE StreakInvariant
  OBVIOUS
<1>1. /\ minute = 0 /\ source = << >> /\ models = << >> /\ trials = {} /\ request = NoRequest
      /\ thread = [t \in 1..Threads |-> NoThread] /\ lastFrozen = 0
  BY DEF DispatchInit
<1>2. DOMAIN source = 1..minute /\ DOMAIN models = {} /\ 1..0 = {}
  BY <1>1
<1>3. ModelsAreInTurn
  BY <1>2, FS_EmptySet DEF ModelsAreInTurn
<1>4. BatchIsOfThePast
  BY <1>1 DEF BatchIsOfThePast, NoRequest, NoThread
<1>5. QED
  BY <1>1, <1>2, <1>3, <1>4 DEF StreakInvariant, TrialsAreObserved, StreaksAreEarned, Earned

\* Models are numbered in turn, no batch is of a time to come, every recorded
\* observation is the source's latest by its packet, and streaks are earned.
THEOREM StreakInvariantHolds == DispatchSpec => []StreakInvariant
<1>1. SpacingInvariant /\ StreakInvariant /\ [DispatchNext]_dispatchVars => StreakInvariant'
  <2>1. SpacingInvariant /\ StreakInvariant /\ UNCHANGED dispatchVars => StreakInvariant'
    <3>1. SUFFICES ASSUME SpacingInvariant, StreakInvariant, UNCHANGED dispatchVars
                   PROVE  StreakInvariant'
      OBVIOUS
    <3>2. UNCHANGED <<minute, source, models, trials, request, thread, lastFrozen, inOrder>>
      BY <3>1 DEF dispatchVars
    <3>3. /\ request.by # 0 => request.pc = "open"
          /\ request.at <= minute /\ request.cutoff <= minute
          /\ request.pc # "none" => \A m \in DOMAIN models : models[m].at <= request.at
          /\ \A u \in 1..Threads : thread[u].at <= minute /\ thread[u].cutoff <= minute
      BY <3>1 DEF StreakInvariant, BatchIsOfThePast, ModelsAreInTurn
    <3>4. QED
      BY <3>1, <3>2, <3>3, BatchMoves
  <2>2. SpacingInvariant /\ StreakInvariant /\ DispatchNext => StreakInvariant'
    BY MinuteKeepsStreaks, AnalysisKeepsStreaks, WorkflowKeepsStreaks, WorkerKeepsStreaks,
       ExecutionKeepsStreaks, FreezeKeepsStreaks DEF DispatchNext
  <2>3. QED
    BY <2>1, <2>2
<1>2. QED
  BY <1>1, StreaksInitially, SpacingInvariantHolds, PTL DEF DispatchSpec

\* While packets are frozen in the order of their times, a streak counts
\* different observations of the source that answered its test so, however often
\* a batch is built again (verification.py:32-163).
THEOREM StreaksStayEarned == DispatchSpec => []StreaksAreEarned
BY StreakInvariantHolds, PTL DEF StreakInvariant
-----------------------------------------------------------------------------
(* ContextPosterior.                                                        *)

\* The bounds are numbers, and the builder is no execution.
LEMMA PosteriorNumbers ==
    /\ NTargets \in Nat /\ MaxExecs \in Nat /\ MaxBatches \in Nat
    /\ Targets \subseteq Nat \ {0} /\ Execs \subseteq Nat \ {0}
    /\ Builder \notin Execs /\ Builder = 0 /\ Execs \subseteq 0..MaxExecs
    /\ \A p \in Execs : p # 0
BY PosteriorAssumption DEF Targets, Execs, Builder

\* A seed has a first target, and what is left of one too.
LEMMA SeedHasFirst ==
    ASSUME NEW S \in SUBSET Targets, S # {}
    PROVE  FirstTarget(S) \in S /\ \A u \in S : FirstTarget(S) <= u
<1>1. S \in SUBSET Nat
  BY PosteriorNumbers
<1>2. FirstTarget(S) = Least(S)
  BY DEF FirstTarget, Least
<1>3. QED
  BY <1>1, <1>2, LeastIsLeast

\* What a step of one process may change: the row of this process, which stays
\* with its workflow and sound, results that were not there and are taken from
\* the answer to the first target, one more seed, and the workflow at hand.
LEMMA ProcessMoves ==
    ASSUME JointInvariant, NEW p \in {Builder} \cup Execs, NEW r \in ProcRow, Set(p, r),
           NEW f \in [Targets -> 0..MaxExecs], forecast' = f,
           \A t \in Targets : forecast[t] # 0 => f[t] = forecast[t],
           \A t \in Targets : f[t] # forecast[t] => TakenFromFirst(t, f),
           p = Builder => BuilderIsPlain(r),
           p \in Execs => r.pc # "off" /\ WorksOnSeed(r, f),
           p \in Execs => AnswersForWorkflow(r) \/ r.answer = p,
           p \in Execs => IF procs[p].pc = "off" THEN p = Cardinality(Used) + 1
                          ELSE r.w = procs[p].w,
           NEW S \in SUBSET Targets, S # {},
           seeds' \in {seeds, Append(seeds, S)},
           flow' \in FlowRow, flow'.pc # "none" => Len(seeds') # 0
    PROVE  JointInvariant'
<1>1. /\ procs' \in [{Builder} \cup Execs -> ProcRow] /\ procs'[p] = r
      /\ \A q \in {Builder} \cup Execs : q # p => procs'[q] = procs[q]
  BY DEF JointInvariant, Set
<1>2. \A q \in Execs : procs[q].pc # "off" => procs'[q].pc # "off" /\ procs'[q].w = procs[q].w
  BY <1>1
<1>3. /\ seeds' \in Seq(SUBSET Targets) /\ \A w \in DOMAIN seeds' : seeds'[w] # {}
      /\ \A w \in DOMAIN seeds : w \in DOMAIN seeds' /\ seeds'[w] = seeds[w]
  <2>1. seeds \in Seq(SUBSET Targets) /\ \A w \in DOMAIN seeds : seeds[w] # {}
    BY DEF JointInvariant
  <2>2. CASE seeds' = seeds
    BY <2>1, <2>2
  <2>3. CASE seeds' = Append(seeds, S)
    BY <2>1, <2>3
  <2>4. QED
    BY <2>2, <2>3
<1>4. \E n \in 0..MaxExecs : Used' = 1..n
  <2>1. PICK n \in 0..MaxExecs : Used = 1..n
    BY DEF JointInvariant
  <2>2. CASE p \notin Execs \/ procs[p].pc # "off"
    <3>1. Used' = Used
      BY <1>1, <2>2 DEF Used
    <3>2. QED
      BY <2>1, <3>1
  <2>3. CASE p \in Execs /\ procs[p].pc = "off"
    <3>1. Cardinality(1..n) = n
      <4>1. 1 \in Int /\ n \in Int /\ n >= 0
        OBVIOUS
      <4>2. Cardinality(1..n) = IF 1 > n THEN 0 ELSE n - 1 + 1
        BY <4>1, FS_Interval
      <4>3. QED
        BY <4>1, <4>2
    <3>2. p = n + 1
      BY <2>1, <2>3, <3>1
    <3>3. Used' = Used \cup {p}
      BY <1>1, <2>3 DEF Used
    <3>4. Used' = 1..(n + 1) /\ n + 1 \in 0..MaxExecs
      BY <2>1, <2>3, <3>2, <3>3, PosteriorNumbers
    <3>5. QED
      BY <3>4
  <2>4. QED
    BY <2>2, <2>3
<1>5. ASSUME NEW q \in Used'
      PROVE  WorksOnSeed(procs[q], forecast)' /\ AnswersForWorkflow(procs[q])'
  <2>1. CASE q = p
    <3>1. p \in Execs /\ r.pc # "off"
      BY <1>1, <1>5, <2>1 DEF Used
    <3>2. WorksOnSeed(procs[q], forecast)'
      BY <1>1, <1>3, <2>1, <3>1 DEF WorksOnSeed
    <3>3. AnswersForWorkflow(procs[q])'
      <4>1. CASE AnswersForWorkflow(r)
        BY <1>1, <1>2, <2>1, <4>1 DEF AnswersForWorkflow
      <4>2. CASE r.answer = p
        BY <1>1, <2>1, <3>1, <4>2 DEF AnswersForWorkflow
      <4>3. QED
        BY <3>1, <4>1, <4>2
    <3>4. QED
      BY <3>2, <3>3
  <2>2. CASE q # p
    <3>1. q \in Used /\ procs'[q] = procs[q]
      BY <1>1, <1>5, <2>2 DEF Used
    <3>2. WorksOnSeed(procs[q], forecast) /\ AnswersForWorkflow(procs[q])
      BY <3>1 DEF JointInvariant
    <3>3. AnswersForWorkflow(procs[q])'
      BY <1>2, <3>1, <3>2 DEF AnswersForWorkflow
    <3>4. WorksOnSeed(procs[q], forecast)'
      <4>1. ASSUME procs[q].pc \in {"check", "insert"}, procs[q].mode = "forecast",
                   procs[q].at # FirstTarget(procs[q].seed) \/ procs[q].known # {}
            PROVE  f[FirstTarget(procs[q].seed)] = procs[q].answer
        <5>1. procs[q].seed = seeds[procs[q].w] /\ procs[q].w \in DOMAIN seeds
          BY <3>2, <4>1 DEF WorksOnSeed
        <5>2. procs[q].seed \in SUBSET Targets /\ procs[q].seed # {}
          BY <5>1 DEF JointInvariant
        <5>3. FirstTarget(procs[q].seed) \in Targets
          BY <5>2, SeedHasFirst
        <5>4. forecast[FirstTarget(procs[q].seed)] = procs[q].answer /\ procs[q].answer # 0
          BY <3>2, <4>1, PosteriorNumbers DEF WorksOnSeed, AnswersForWorkflow
        <5>5. QED
          BY <5>3, <5>4
      <4>2. QED
        BY <1>3, <3>1, <3>2, <4>1 DEF WorksOnSeed
    <3>5. QED
      BY <3>3, <3>4
  <2>3. QED
    BY <2>1, <2>2
<1>6. ASSUME NEW t \in Targets PROVE TakenFromFirst(t, forecast)'
  <2>1. SUFFICES ASSUME f[t] # 0 PROVE TakenFromFirst(t, forecast)'
    BY DEF TakenFromFirst
  <2>2. f[t] \in Execs
    BY <2>1 DEF Execs
  <2>3. TakenFromFirst(t, f) \/ (f[t] = forecast[t] /\ TakenFromFirst(t, forecast))
    BY DEF JointInvariant
  <2>4. /\ procs[f[t]].pc # "off" /\ t \in seeds[procs[f[t]].w]
        /\ f[FirstTarget(seeds[procs[f[t]].w])] = f[t]
    <3>1. CASE TakenFromFirst(t, f)
      BY <2>1, <3>1 DEF TakenFromFirst
    <3>2. CASE f[t] = forecast[t] /\ TakenFromFirst(t, forecast)
      <4>1. /\ procs[f[t]].pc # "off" /\ t \in seeds[procs[f[t]].w]
            /\ forecast[FirstTarget(seeds[procs[f[t]].w])] = f[t]
        BY <2>1, <3>2 DEF TakenFromFirst
      <4>2. procs[f[t]].w \in DOMAIN seeds
        BY <2>2, <4>1 DEF JointInvariant, WorksOnSeed, Used
      <4>3. seeds[procs[f[t]].w] \in SUBSET Targets /\ seeds[procs[f[t]].w] # {}
        BY <4>1, <4>2 DEF JointInvariant
      <4>4. FirstTarget(seeds[procs[f[t]].w]) \in Targets
        BY <4>3, SeedHasFirst
      <4>5. QED
        BY <2>1, <4>1, <4>4
    <3>3. QED
      BY <2>3, <3>1, <3>2
  <2>5. procs[f[t]].w \in DOMAIN seeds
    BY <2>2, <2>4 DEF JointInvariant, WorksOnSeed, Used
  <2>6. procs'[f[t]].pc # "off" /\ procs'[f[t]].w = procs[f[t]].w
    BY <1>2, <2>2, <2>4
  <2>7. QED
    BY <1>3, <2>4, <2>5, <2>6 DEF TakenFromFirst
<1>7. BuilderIsPlain(procs[Builder])'
  BY <1>1 DEF BuilderIsPlain, JointInvariant
<1>8. QED
  BY <1>1, <1>3, <1>4, <1>5, <1>6, <1>7 DEF JointInvariant

\* A step of an execution at work that leaves the ledger and the workflow alone.
LEMMA ExecMoves ==
    ASSUME JointInvariant, NEW p \in Execs, NEW r \in ProcRow, Set(p, r),
           UNCHANGED <<forecast, seeds, flow>>,
           procs[p].pc # "off", r.pc # "off", r.w = procs[p].w,
           WorksOnSeed(r, forecast), AnswersForWorkflow(r) \/ r.answer = p
    PROVE  JointInvariant'
<1>1. forecast \in [Targets -> 0..MaxExecs] /\ flow' \in FlowRow
      /\ (flow'.pc # "none" => Len(seeds') # 0)
  BY DEF JointInvariant
<1>2. Targets \in SUBSET Targets /\ Targets # {}
  BY PosteriorAssumption DEF Targets
<1>3. p \in {Builder} \cup Execs /\ p # Builder
  BY PosteriorNumbers
<1>4. QED
  BY <1>1, <1>2, <1>3, ProcessMoves

\* A step of the builder that leaves the ledger and the workflow alone.
LEMMA BuilderMoves ==
    ASSUME JointInvariant, NEW r \in ProcRow, Set(Builder, r),
           UNCHANGED <<forecast, seeds, flow>>, BuilderIsPlain(r)
    PROVE  JointInvariant'
<1>1. forecast \in [Targets -> 0..MaxExecs] /\ flow' \in FlowRow
      /\ (flow'.pc # "none" => Len(seeds') # 0)
  BY DEF JointInvariant
<1>2. Targets \in SUBSET Targets /\ Targets # {}
  BY PosteriorAssumption DEF Targets
<1>3. Builder \in {Builder} \cup Execs /\ Builder \notin Execs
  BY PosteriorNumbers
<1>4. QED
  BY <1>1, <1>2, <1>3, ProcessMoves

\* No row is one.
LEMMA OffRow == Off \in ProcRow
<1>1. {} \in SUBSET Targets /\ 0 \in 0..MaxExecs /\ 1 \in Nat \ {0} /\ 0 \in Nat
  BY PosteriorNumbers
<1>2. QED
  BY <1>1 DEF Off, ProcRow

\* The row of a process that ends or tells.
LEMMA EndRow ==
    ASSUME NEW s \in ProcRow, NEW pc \in {"publish", "done", "raised", "dead"}
    PROVE  /\ End(s, pc) \in ProcRow /\ End(s, pc).pc = pc /\ End(s, pc).w = s.w
           /\ End(s, pc).mode = s.mode
<1>1. PICK o \in ProcRow : o = Off
  BY OffRow
<1>2. PICK w \in Nat, m \in {"absence", "forecast"} : w = s.w /\ m = s.mode
  BY DEF ProcRow
<1>3. End(s, pc) = [o EXCEPT !.pc = pc, !.w = w, !.mode = m]
  BY <1>1, <1>2 DEF End
<1>4. QED
  BY <1>2, <1>3 DEF ProcRow

\* The row of a process that begins to write.
LEMMA WritingRow ==
    ASSUME NEW s \in ProcRow, s.seed # {}, NEW mode \in {"absence", "forecast"},
           NEW answer \in 0..MaxExecs, NEW known \in SUBSET Targets,
           NEW r, r = Writing(s, mode, answer, known)
    PROVE  /\ r \in ProcRow /\ r.pc = "check" /\ r.w = s.w /\ r.work = s.work
           /\ r.seed = s.seed /\ r.at = FirstTarget(s.seed) /\ r.at \in s.seed
           /\ r.mode = mode /\ r.answer = answer /\ r.known = known
<1>1. s.seed \in SUBSET Targets
  BY DEF ProcRow
<1>2. FirstTarget(s.seed) \in s.seed /\ FirstTarget(s.seed) \in Nat \ {0}
  BY <1>1, SeedHasFirst, PosteriorNumbers
<1>3. PICK n \in Nat \ {0} : n = FirstTarget(s.seed)
  BY <1>2
<1>4. r = [s EXCEPT !.pc = "check", !.mode = mode, !.answer = answer, !.known = known,
                    !.at = n]
  BY <1>3 DEF Writing, FirstTarget
<1>5. QED
  BY <1>2, <1>3, <1>4 DEF ProcRow

\* The row of a process that has written a target.
LEMMA OnwardRow ==
    ASSUME JointInvariant, NEW p \in {Builder} \cup Execs, NEW r, r = Onward(p)
    PROVE  /\ r \in ProcRow /\ r.mode = procs[p].mode /\ r.w = procs[p].w
           /\ \/ r.pc = "reserve" /\ procs[p].work = "reserve"
              \/ r.pc \in {"publish", "done"}
              \/ /\ r.pc = "check" /\ r.work = procs[p].work /\ r.seed = procs[p].seed
                 /\ r.answer = procs[p].answer /\ r.at \in r.seed /\ r.at > procs[p].at
<1>. DEFINE s == procs[p]
            rest == {t \in s.seed : t > s.at}
<1>1. s \in ProcRow
  BY DEF JointInvariant
<1>2. CASE s.work = "reserve"
  <2>1. r = [s EXCEPT !.pc = "reserve", !.at = s.at + 1]
    BY <1>2 DEF Onward
  <2>2. s.at + 1 \in Nat \ {0}
    BY <1>1 DEF ProcRow
  <2>3. PICK n \in Nat \ {0} : n = s.at + 1
    BY <2>2
  <2>4. r = [s EXCEPT !.pc = "reserve", !.at = n]
    BY <2>1, <2>3
  <2>5. r \in ProcRow /\ r.pc = "reserve" /\ r.mode = s.mode /\ r.w = s.w
    BY <1>1, <2>4 DEF ProcRow
  <2>6. QED
    BY <1>2, <2>5
<1>3. CASE s.work # "reserve" /\ rest = {}
  <2>1. r = End(s, AfterLast(s)) /\ AfterLast(s) \in {"publish", "done"}
    BY <1>3 DEF Onward, AfterLast
  <2>2. QED
    BY <1>1, <2>1, EndRow
<1>4. CASE s.work # "reserve" /\ rest # {}
  <2>1. rest \in SUBSET Targets
    BY <1>1 DEF ProcRow
  <2>2. PICK n \in rest : n = FirstTarget(rest)
    BY <1>4, <2>1, SeedHasFirst
  <2>3. r = [s EXCEPT !.pc = "check", !.at = n]
    BY <1>4, <2>2 DEF Onward, FirstTarget
  <2>4. n \in Nat \ {0} /\ n \in s.seed /\ n > s.at
    BY <2>1, <2>2, PosteriorNumbers
  <2>5. QED
    BY <1>1, <2>3, <2>4 DEF ProcRow
<1>5. QED
  BY <1>2, <1>3, <1>4

\* An execution that has written a target goes on soundly, when its answer
\* stands at the first.
LEMMA OnwardWorks ==
    ASSUME JointInvariant, NEW p \in Execs, procs[p].pc \in {"check", "insert"},
           NEW f, procs[p].mode = "forecast" => f[FirstTarget(procs[p].seed)] = procs[p].answer,
           NEW r, r = Onward(p)
    PROVE  r.pc # "off" /\ WorksOnSeed(r, f) /\ AnswersForWorkflow(r)
<1>1. p \in Used /\ p \in {Builder} \cup Execs
  BY DEF Used
<1>2. WorksOnSeed(procs[p], forecast) /\ AnswersForWorkflow(procs[p])
  BY <1>1 DEF JointInvariant
<1>3. procs[p].work \in {"run", "close"} /\ procs[p].seed = seeds[procs[p].w]
      /\ procs[p].w \in DOMAIN seeds
  BY <1>2 DEF WorksOnSeed
<1>4. CASE r.pc \in {"publish", "done"}
  BY <1>1, <1>3, <1>4, OnwardRow DEF WorksOnSeed, AnswersForWorkflow
<1>5. CASE /\ r.pc = "check" /\ r.work = procs[p].work /\ r.seed = procs[p].seed
           /\ r.answer = procs[p].answer /\ r.at \in r.seed /\ r.at > procs[p].at
  <2>1. r.mode = procs[p].mode /\ r.w = procs[p].w
    BY <1>1, OnwardRow
  <2>2. QED
    BY <1>2, <1>3, <1>5, <2>1 DEF WorksOnSeed, AnswersForWorkflow
<1>6. QED
  BY <1>1, <1>3, <1>4, <1>5, OnwardRow

\* An execution at work ends, soundly.
LEMMA EndMoves ==
    ASSUME JointInvariant, NEW p \in Execs, procs[p].pc # "off", NEW s \in ProcRow,
           s.w = procs[p].w, NEW pc \in {"publish", "done", "raised", "dead"},
           Set(p, End(s, pc)), UNCHANGED <<forecast, seeds, flow>>
    PROVE  JointInvariant'
<1>1. PICK r \in ProcRow : r = End(s, pc) /\ r.pc = pc /\ r.w = s.w
  BY EndRow
<1>2. procs[p].w \in DOMAIN seeds
  BY DEF JointInvariant, Used, WorksOnSeed
<1>3. WorksOnSeed(r, forecast) /\ AnswersForWorkflow(r)
  BY <1>1, <1>2 DEF WorksOnSeed, AnswersForWorkflow
<1>4. Set(p, r) /\ r.pc # "off" /\ r.w = procs[p].w
  BY <1>1
<1>5. QED
  BY <1>3, <1>4, ExecMoves

\* What an execution at work is about.
LEMMA AtWork ==
    ASSUME JointInvariant, NEW p \in Execs,
           procs[p].pc \in {"assess", "assessing", "posterior", "asking", "check", "insert"}
    PROVE  /\ procs[p] \in ProcRow /\ procs[p].pc # "off" /\ p \in Used
           /\ procs[p].w \in DOMAIN seeds /\ procs[p].seed = seeds[procs[p].w]
           /\ procs[p].seed # {} /\ procs[p].seed \in SUBSET Targets
           /\ procs[p].work \in {"run", "close"}
           /\ WorksOnSeed(procs[p], forecast) /\ AnswersForWorkflow(procs[p])
<1>1. p \in Used /\ procs[p] \in ProcRow
  BY DEF Used, JointInvariant
<1>2. WorksOnSeed(procs[p], forecast) /\ AnswersForWorkflow(procs[p])
  BY <1>1 DEF JointInvariant
<1>3. procs[p].w \in DOMAIN seeds /\ procs[p].seed = seeds[procs[p].w]
      /\ procs[p].work \in {"run", "close"}
  BY <1>2 DEF WorksOnSeed
<1>4. procs[p].seed # {}
  BY <1>3 DEF JointInvariant
<1>5. QED
  BY <1>1, <1>2, <1>3, <1>4 DEF ProcRow

\* An execution at work begins to write: absences, or the answer it just had,
\* or the one that stands at the first target of its seed.
LEMMA WriteMoves ==
    ASSUME JointInvariant, NEW p \in Execs,
           procs[p].pc \in {"assess", "assessing", "posterior", "asking"},
           NEW s \in ProcRow, s.w = procs[p].w, s.seed = procs[p].seed, s.work = procs[p].work,
           NEW mode \in {"absence", "forecast"}, NEW answer \in 0..MaxExecs,
           NEW known \in SUBSET Targets, Set(p, Writing(s, mode, answer, known)),
           \/ mode = "absence"
           \/ mode = "forecast" /\ answer = p /\ known = {}
           \/ /\ mode = "forecast" /\ answer \in Execs /\ procs[answer].pc # "off"
              /\ procs[answer].w = s.w /\ forecast[FirstTarget(s.seed)] = answer,
           UNCHANGED <<forecast, seeds, flow>>
    PROVE  JointInvariant'
<1>1. /\ procs[p].pc # "off" /\ s.w \in DOMAIN seeds /\ s.seed = seeds[s.w]
      /\ s.seed # {} /\ s.work \in {"run", "close"}
  BY AtWork
<1>2. PICK r : r = Writing(s, mode, answer, known)
  OBVIOUS
<1>3. /\ r \in ProcRow /\ r.pc = "check" /\ r.w = s.w /\ r.work = s.work
      /\ r.seed = s.seed /\ r.at = FirstTarget(s.seed) /\ r.at \in s.seed
      /\ r.mode = mode /\ r.answer = answer /\ r.known = known
  BY <1>1, <1>2, WritingRow
<1>4. WorksOnSeed(r, forecast)
  BY <1>1, <1>3 DEF WorksOnSeed
<1>5. AnswersForWorkflow(r) \/ r.answer = p
  BY <1>3 DEF AnswersForWorkflow
<1>6. Set(p, r) /\ r.pc # "off" /\ r.w = procs[p].w
  BY <1>2, <1>3
<1>7. QED
  BY <1>1, <1>3, <1>4, <1>5, <1>6, ExecMoves
\* A new execution is launched, for the last seed.
LEMMA LaunchMoves ==
    ASSUME JointInvariant, NEW work \in {"run", "close"}, Launch(work), Len(seeds) # 0,
           UNCHANGED <<forecast, seeds>>
    PROVE  JointInvariant'
<1>. DEFINE p == Cardinality(Used) + 1
<1>1. PICK o \in ProcRow : o = Off
  BY OffRow
<1>2. /\ Len(seeds) \in Nat /\ Len(seeds) \in DOMAIN seeds
      /\ seeds[Len(seeds)] \in SUBSET Targets /\ seeds[Len(seeds)] # {}
  BY DEF JointInvariant
<1>3. PICK w \in Nat, S \in SUBSET Targets : w = Len(seeds) /\ S = seeds[w]
  BY <1>2
<1>4. PICK s : s = [o EXCEPT !.work = work, !.w = w, !.seed = S]
  OBVIOUS
<1>5. s \in ProcRow /\ s.work = work /\ s.w = w /\ s.seed = S /\ S # {}
  BY <1>2, <1>3, <1>4 DEF ProcRow
<1>6. PICK r : r = IF work = "run" THEN [s EXCEPT !.pc = "assess"] ELSE CloseSeed(s)
  OBVIOUS
<1>7. /\ p \in Execs /\ Set(p, r)
      /\ flow' = [pc |-> work, exec |-> p,
                  tries |-> IF work = "run" THEN flow.tries + 1 ELSE flow.tries]
  BY <1>1, <1>3, <1>4, <1>6 DEF Launch
<1>8. /\ r \in ProcRow /\ r.pc \in {"assess", "check"} /\ r.w = w /\ r.seed = S /\ r.work = work
      /\ (r.pc = "check" => r.mode = "absence")
  <2>1. CASE work = "run"
    <3>1. r = [s EXCEPT !.pc = "assess"]
      BY <1>6, <2>1
    <3>2. QED
      BY <1>5, <3>1 DEF ProcRow
  <2>2. CASE work # "run"
    <3>1. r = Writing(s, "absence", 0, {})
      BY <1>6, <2>2 DEF CloseSeed
    <3>2. 0 \in 0..MaxExecs /\ {} \in SUBSET Targets /\ "absence" \in {"absence", "forecast"}
      BY PosteriorNumbers
    <3>3. /\ r \in ProcRow /\ r.pc = "check" /\ r.w = s.w /\ r.work = s.work
          /\ r.seed = s.seed /\ r.mode = "absence"
      BY <1>5, <3>1, <3>2, WritingRow
    <3>4. QED
      BY <1>5, <3>3
  <2>3. QED
    BY <2>1, <2>2
<1>9. WorksOnSeed(r, forecast) /\ AnswersForWorkflow(r)
  BY <1>2, <1>3, <1>8 DEF WorksOnSeed, AnswersForWorkflow
<1>10. procs[p].pc = "off"
  <2>1. PICK n \in 0..MaxExecs : Used = 1..n
    BY DEF JointInvariant
  <2>2. Cardinality(1..n) = IF 1 > n THEN 0 ELSE n - 1 + 1
    BY FS_Interval
  <2>3. p = n + 1
    BY <2>1, <2>2
  <2>4. p \notin Used
    BY <2>1, <2>3
  <2>5. QED
    BY <1>7, <2>4 DEF Used
<1>11. flow' \in FlowRow /\ Len(seeds') # 0
  <2>1. p \in Nat /\ flow.tries \in Nat
    BY <1>7, PosteriorNumbers DEF JointInvariant, FlowRow
  <2>2. QED
    BY <1>7, <2>1 DEF FlowRow
<1>12. forecast \in [Targets -> 0..MaxExecs]
  BY DEF JointInvariant
<1>13. p \in {Builder} \cup Execs /\ p # Builder
  BY <1>7, PosteriorNumbers
<1>. HIDE DEF p
<1>14. Cardinality(Used) + 1 = p
  BY DEF p
<1>15. QED
  BY <1>2, <1>7, <1>8, <1>9, <1>10, <1>11, <1>12, <1>13, <1>14, ProcessMoves

\* The workflow starts, hears of an execution or gives it up.
LEMMA FlowMoves ==
    JointInvariant /\ (StartFlow \/ Heard \/ GiveUp) => JointInvariant'
<1>1. SUFFICES ASSUME JointInvariant, StartFlow \/ Heard \/ GiveUp PROVE JointInvariant'
  OBVIOUS
<1>2. Len(seeds) # 0 /\ UNCHANGED <<forecast, seeds>> /\ flow \in FlowRow
  BY <1>1 DEF StartFlow, Heard, GiveUp, JointInvariant, ledger
<1>3. ASSUME Launch("run") \/ Launch("close") PROVE JointInvariant'
  BY <1>1, <1>2, <1>3, LaunchMoves
<1>4. CASE StartFlow
  BY <1>3, <1>4 DEF StartFlow
<1>5. CASE GiveUp
  BY <1>3, <1>5 DEF GiveUp
<1>6. CASE Heard
  <2>1. ASSUME UNCHANGED procs, NEW pc \in Ended, flow' = [flow EXCEPT !.pc = pc]
        PROVE  JointInvariant'
    <3>1. flow' \in FlowRow
      BY <1>2, <2>1 DEF FlowRow
    <3>2. QED
      BY <1>1, <1>2, <2>1, <3>1
         DEF JointInvariant, Used, WorksOnSeed, AnswersForWorkflow, TakenFromFirst
  <2>2. \/ Launch("run") \/ Launch("close")
        \/ UNCHANGED procs /\ \E pc \in Ended : flow' = [flow EXCEPT !.pc = pc]
    BY <1>6 DEF Heard, Ended
  <2>3. QED
    BY <1>3, <2>1, <2>2
<1>7. QED
  BY <1>1, <1>4, <1>5, <1>6

\* The builder reserves, prepares, is rebuilt or takes a later batch.
LEMMA BuilderKeeps ==
    JointInvariant /\ (Reserve \/ Prepare \/ BuilderDies \/ NextBatch) => JointInvariant'
<1>. DEFINE s == procs[Builder]
<1>1. SUFFICES ASSUME JointInvariant, Reserve \/ Prepare \/ BuilderDies \/ NextBatch
               PROVE  JointInvariant'
  OBVIOUS
<1>2. s \in ProcRow /\ s.mode = "absence" /\ (s.pc = "prepare" => s.seed # {})
  BY <1>1 DEF JointInvariant, BuilderIsPlain
<1>3. FrozenRetry \in ProcRow /\ BuilderIsPlain(FrozenRetry)
  <2>1. PICK o \in ProcRow : o = Off
    BY OffRow
  <2>2. o.mode = "absence"
    BY <2>1 DEF Off
  <2>3. FrozenRetry = [o EXCEPT !.pc = "reserve", !.work = "reserve"]
    BY <2>1 DEF FrozenRetry
  <2>4. QED
    BY <2>2, <2>3 DEF ProcRow, BuilderIsPlain
<1>4. ASSUME NEW pc \in {"done", "raised"}
      PROVE  End(s, pc) \in ProcRow /\ BuilderIsPlain(End(s, pc))
  BY <1>2, EndRow DEF BuilderIsPlain
<1>5. CASE BuilderDies \/ NextBatch
  BY <1>1, <1>3, <1>5, BuilderMoves DEF BuilderDies, NextBatch, ledger
<1>6. CASE Reserve
  <2>1. UNCHANGED <<forecast, seeds, flow>>
    BY <1>6 DEF Reserve
  <2>2. s.at \in Nat \ {0} /\ s.seed \in SUBSET Targets /\ s.at + 1 \in Nat \ {0}
    BY <1>2 DEF ProcRow
  <2>3. CASE Set(Builder, End(s, "done"))
    BY <1>1, <1>4, <2>1, <2>3, BuilderMoves
  <2>4. CASE s.seed # {} /\ Set(Builder, [s EXCEPT !.pc = "prepare"])
    <3>1. PICK r : r = [s EXCEPT !.pc = "prepare"]
      OBVIOUS
    <3>2. r \in ProcRow /\ BuilderIsPlain(r)
      BY <1>2, <2>4, <3>1 DEF ProcRow, BuilderIsPlain
    <3>3. QED
      BY <1>1, <2>1, <2>4, <3>1, <3>2, BuilderMoves
  <2>5. CASE Set(Builder, [s EXCEPT !.pc = "check"])
    <3>1. PICK r : r = [s EXCEPT !.pc = "check"]
      OBVIOUS
    <3>2. r \in ProcRow /\ BuilderIsPlain(r)
      BY <1>2, <3>1 DEF ProcRow, BuilderIsPlain
    <3>3. QED
      BY <1>1, <2>1, <2>5, <3>1, <3>2, BuilderMoves
  <2>6. ASSUME NEW n \in Nat \ {0}, NEW S \in SUBSET Targets, s.pc = "reserve",
               Set(Builder, [s EXCEPT !.at = n]) \/ Set(Builder, [s EXCEPT !.at = n, !.seed = S])
        PROVE  JointInvariant'
    <3>1. PICK r : r \in {[s EXCEPT !.at = n], [s EXCEPT !.at = n, !.seed = S]} /\ Set(Builder, r)
      BY <2>6
    <3>2. r \in ProcRow /\ BuilderIsPlain(r)
      <4>1. CASE r = [s EXCEPT !.at = n]
        BY <1>2, <2>6, <4>1 DEF ProcRow, BuilderIsPlain
      <4>2. CASE r = [s EXCEPT !.at = n, !.seed = S]
        BY <1>2, <2>6, <4>2 DEF ProcRow, BuilderIsPlain
      <4>3. QED
        BY <3>1, <4>1, <4>2
    <3>3. QED
      BY <1>1, <2>1, <3>1, <3>2, BuilderMoves
  <2>7. CASE s.at > NTargets
    BY <1>6, <2>3, <2>4, <2>7 DEF Reserve
  <2>8. CASE ~(s.at > NTargets)
    <3>1. s.at \in Targets /\ s.pc = "reserve"
      BY <1>6, <2>2, <2>8, PosteriorNumbers DEF Reserve, Targets, Is
    <3>2. \/ Set(Builder, [s EXCEPT !.at = s.at + 1])
          \/ Set(Builder, [s EXCEPT !.pc = "check"])
          \/ Set(Builder, [s EXCEPT !.at = s.at + 1, !.seed = s.seed \cup {s.at}])
      <4>1. CASE Terminal(s.at)
        BY <1>6, <2>8, <4>1 DEF Reserve
      <4>2. CASE ~Terminal(s.at) /\ (~prior[s.at] \/ batch.late)
        BY <1>6, <2>8, <4>2 DEF Reserve
      <4>3. CASE ~Terminal(s.at) /\ ~(~prior[s.at] \/ batch.late)
        <5>1. Set(Builder, [s EXCEPT !.at = s.at + 1, !.seed = @ \cup {s.at}])
          BY <1>6, <2>8, <4>3 DEF Reserve
        <5>2. [s EXCEPT !.at = s.at + 1, !.seed = @ \cup {s.at}]
                = [s EXCEPT !.at = s.at + 1, !.seed = s.seed \cup {s.at}]
          OBVIOUS
        <5>3. QED
          BY <5>1, <5>2
      <4>4. QED
        BY <4>1, <4>2, <4>3
    <3>3. s.seed \cup {s.at} \in SUBSET Targets
      BY <2>2, <3>1
    <3>4. QED
      BY <2>2, <2>5, <2>6, <3>1, <3>2, <3>3
  <2>9. QED
    BY <2>7, <2>8
<1>7. CASE Prepare
  <2>1. UNCHANGED forecast /\ s.seed # {} /\ s.seed \in SUBSET Targets
    BY <1>2, <1>7 DEF Prepare, Is, ledger, ProcRow
  <2>2. CASE Set(Builder, CloseSeed([s EXCEPT !.work = "shut"])) /\ UNCHANGED <<flow, seeds>>
    <3>1. PICK c : c = [s EXCEPT !.work = "shut"]
      OBVIOUS
    <3>2. c \in ProcRow /\ c.seed # {}
      BY <1>2, <2>1, <3>1 DEF ProcRow
    <3>3. PICK r : r = Writing(c, "absence", 0, {})
      OBVIOUS
    <3>4. 0 \in 0..MaxExecs /\ {} \in SUBSET Targets /\ "absence" \in {"absence", "forecast"}
      BY PosteriorNumbers
    <3>5. r \in ProcRow /\ r.mode = "absence" /\ r.pc = "check"
      BY <3>2, <3>3, <3>4, WritingRow
    <3>6. QED
      BY <1>1, <2>1, <2>2, <3>1, <3>3, <3>5, BuilderMoves DEF CloseSeed, BuilderIsPlain
  <2>3. CASE Set(Builder, FrozenRetry) /\ UNCHANGED <<flow, seeds>>
    BY <1>1, <1>3, <2>1, <2>3, BuilderMoves
  <2>4. CASE Goto(Builder, "raised") /\ UNCHANGED <<flow, seeds>>
    BY <1>1, <1>4, <2>1, <2>4, BuilderMoves DEF Goto
  <2>5. CASE Goto(Builder, "done") /\ UNCHANGED <<flow, seeds>>
    BY <1>1, <1>4, <2>1, <2>5, BuilderMoves DEF Goto
  <2>6. CASE /\ Goto(Builder, "done") /\ seeds' = Append(seeds, s.seed)
             /\ flow' = [NoFlow EXCEPT !.pc = "starting"]
    <3>1. flow' \in FlowRow
      BY <2>6 DEF NoFlow, FlowRow
    <3>2. seeds \in Seq(SUBSET Targets) /\ forecast \in [Targets -> 0..MaxExecs]
      BY <1>1 DEF JointInvariant
    <3>3. Len(seeds') # 0
      BY <2>1, <2>6, <3>2
    <3>4. Builder \in {Builder} \cup Execs /\ Builder \notin Execs
      BY PosteriorNumbers
    <3>5. End(s, "done") \in ProcRow /\ BuilderIsPlain(End(s, "done"))
          /\ Set(Builder, End(s, "done"))
      BY <1>4, <2>6 DEF Goto
    <3>6. QED
      BY <1>1, <2>1, <2>6, <3>1, <3>2, <3>3, <3>4, <3>5, ProcessMoves
  <2>7. QED
    BY <1>7, <2>2, <2>3, <2>4, <2>5, <2>6 DEF Prepare
<1>8. QED
  BY <1>1, <1>5, <1>6, <1>7
\* A process looks for what stands of its target.
LEMMA CheckKeeps ==
    ASSUME JointInvariant, NEW p \in {Builder} \cup Execs, Check(p)
    PROVE  JointInvariant'
<1>. DEFINE s == procs[p]
<1>1. s \in ProcRow /\ s.pc = "check" /\ UNCHANGED <<forecast, seeds, flow>>
  BY DEF JointInvariant, Check, Is, ledger
<1>2. \/ Set(p, Onward(p)) /\ (s.mode = "forecast" => s.at \in s.known)
      \/ Set(p, End(s, "raised"))
      \/ Set(p, [s EXCEPT !.pc = "insert"])
  <2>1. CASE s.mode = "forecast"
    BY <2>1 DEF Check
  <2>2. CASE s.mode # "forecast"
    BY <2>2 DEF Check
  <2>3. QED
    BY <2>1, <2>2
<1>3. PICK r : r = [s EXCEPT !.pc = "insert"]
  OBVIOUS
<1>4. r \in ProcRow /\ r.pc = "insert" /\ r.mode = s.mode /\ r.w = s.w /\ r.work = s.work
      /\ r.seed = s.seed /\ r.at = s.at /\ r.answer = s.answer /\ r.known = s.known
  BY <1>1, <1>3 DEF ProcRow
<1>5. CASE p = Builder
  <2>1. s.mode = "absence"
    BY <1>5 DEF JointInvariant, BuilderIsPlain
  <2>2. CASE Set(p, Onward(p))
    <3>1. PICK o : o = Onward(p)
      OBVIOUS
    <3>2. o \in ProcRow /\ o.mode = s.mode /\ o.pc # "prepare"
      BY <3>1, OnwardRow
    <3>3. QED
      BY <1>1, <1>5, <2>1, <2>2, <3>1, <3>2, BuilderMoves DEF BuilderIsPlain
  <2>3. CASE Set(p, End(s, "raised"))
    <3>1. End(s, "raised") \in ProcRow /\ BuilderIsPlain(End(s, "raised"))
      BY <1>1, <2>1, EndRow DEF BuilderIsPlain
    <3>2. QED
      BY <1>1, <1>5, <2>3, <3>1, BuilderMoves
  <2>4. CASE Set(p, [s EXCEPT !.pc = "insert"])
    BY <1>1, <1>3, <1>4, <1>5, <2>1, <2>4, BuilderMoves DEF BuilderIsPlain
  <2>5. QED
    BY <1>2, <2>2, <2>3, <2>4
<1>6. CASE p \in Execs
  <2>1. /\ s.pc # "off" /\ s.seed \in SUBSET Targets /\ s.seed # {}
        /\ WorksOnSeed(s, forecast) /\ AnswersForWorkflow(s)
    BY <1>1, <1>6, AtWork
  <2>2. CASE Set(p, Onward(p)) /\ (s.mode = "forecast" => s.at \in s.known)
    <3>1. PICK o : o = Onward(p)
      OBVIOUS
    <3>2. s.mode = "forecast" => forecast[FirstTarget(s.seed)] = s.answer
      BY <1>1, <2>1, <2>2 DEF WorksOnSeed
    <3>3. o.pc # "off" /\ WorksOnSeed(o, forecast) /\ AnswersForWorkflow(o)
      BY <1>1, <1>6, <3>1, <3>2, OnwardWorks
    <3>4. o \in ProcRow /\ o.w = s.w
      BY <3>1, OnwardRow
    <3>5. QED
      BY <1>1, <1>6, <2>1, <2>2, <3>1, <3>3, <3>4, ExecMoves
  <2>3. CASE Set(p, End(s, "raised"))
    BY <1>1, <1>6, <2>1, <2>3, EndMoves
  <2>4. CASE Set(p, [s EXCEPT !.pc = "insert"])
    <3>1. WorksOnSeed(r, forecast) /\ AnswersForWorkflow(r)
      BY <1>1, <1>4, <2>1 DEF WorksOnSeed, AnswersForWorkflow
    <3>2. Set(p, r)
      BY <1>3, <2>4
    <3>3. QED
      BY <1>1, <1>4, <1>6, <2>1, <3>1, <3>2, ExecMoves
  <2>5. QED
    BY <1>2, <2>2, <2>3, <2>4
<1>7. QED
  BY <1>5, <1>6

\* A process inserts: a Forecast goes in at the first target, or where the
\* same answer stands at the first, and never over another.
LEMMA InsertKeeps ==
    ASSUME JointInvariant, NEW p \in {Builder} \cup Execs, Insert(p)
    PROVE  JointInvariant'
<1>. DEFINE s == procs[p]
<1>1. s \in ProcRow /\ s.pc = "insert" /\ UNCHANGED <<seeds, flow>>
  BY DEF JointInvariant, Insert, Is
<1>2. CASE s.mode # "forecast"
  <2>1. UNCHANGED forecast /\ (Set(p, Onward(p)) \/ Set(p, End(s, "raised")))
    BY <1>2 DEF Insert
  <2>2. PICK o : o = Onward(p)
    OBVIOUS
  <2>3. o \in ProcRow /\ o.mode = s.mode /\ o.w = s.w /\ o.pc # "prepare"
    BY <2>2, OnwardRow
  <2>4. CASE p = Builder
    <3>1. s.mode = "absence"
      BY <2>4 DEF JointInvariant, BuilderIsPlain
    <3>2. End(s, "raised") \in ProcRow /\ BuilderIsPlain(End(s, "raised")) /\ BuilderIsPlain(o)
      BY <1>1, <2>3, <3>1, EndRow DEF BuilderIsPlain
    <3>3. QED
      BY <1>1, <2>1, <2>2, <2>3, <2>4, <3>2, BuilderMoves
  <2>5. CASE p \in Execs
    <3>1. s.pc # "off"
      BY <1>1
    <3>2. CASE Set(p, Onward(p))
      <4>1. o.pc # "off" /\ WorksOnSeed(o, forecast) /\ AnswersForWorkflow(o)
        BY <1>1, <1>2, <2>2, <2>5, OnwardWorks
      <4>2. QED
        BY <1>1, <2>1, <2>2, <2>3, <2>5, <3>1, <3>2, <4>1, ExecMoves
    <3>3. CASE Set(p, End(s, "raised"))
      BY <1>1, <2>1, <2>5, <3>1, <3>3, EndMoves
    <3>4. QED
      BY <2>1, <3>2, <3>3
  <2>6. QED
    BY <2>4, <2>5
<1>3. CASE s.mode = "forecast"
  <2>1. p \in Execs
    BY <1>3 DEF JointInvariant, BuilderIsPlain
  <2>2. /\ s.pc # "off" /\ s.seed \in SUBSET Targets /\ s.seed # {}
        /\ s.w \in DOMAIN seeds /\ s.seed = seeds[s.w]
        /\ WorksOnSeed(s, forecast) /\ AnswersForWorkflow(s)
    BY <1>1, <2>1, AtWork
  <2>3. /\ s.at \in s.seed /\ s.answer \in Execs /\ procs[s.answer].pc # "off"
        /\ procs[s.answer].w = s.w
        /\ s.at # FirstTarget(s.seed) => forecast[FirstTarget(s.seed)] = s.answer
    BY <1>1, <1>3, <2>2 DEF WorksOnSeed, AnswersForWorkflow
  <2>4. s.at \in Targets /\ s.answer # 0 /\ s.answer \in 0..MaxExecs
        /\ FirstTarget(s.seed) \in Targets
    BY <2>2, <2>3, SeedHasFirst, PosteriorNumbers
  <2>5. forecast \in [Targets -> 0..MaxExecs]
    BY DEF JointInvariant
  <2>6. PICK f : f = IF forecast[s.at] = 0 THEN [forecast EXCEPT ![s.at] = s.answer] ELSE forecast
    OBVIOUS
  <2>7. forecast' = f /\ Set(p, IF forecast[s.at] \in {0, s.answer} THEN Onward(p)
                                ELSE End(s, "raised"))
    BY <1>3, <2>6 DEF Insert
  <2>8. CASE forecast[s.at] \in {0, s.answer}
    <3>1. f \in [Targets -> 0..MaxExecs] /\ f[s.at] = s.answer
          /\ \A t \in Targets : t # s.at => f[t] = forecast[t]
      BY <2>4, <2>5, <2>6, <2>8
    <3>2. \A t \in Targets : forecast[t] # 0 => f[t] = forecast[t]
      BY <2>8, <3>1
    <3>3. f[FirstTarget(s.seed)] = s.answer
      BY <2>3, <2>4, <3>1
    <3>4. \A t \in Targets : f[t] # forecast[t] => TakenFromFirst(t, f)
      BY <2>2, <2>3, <3>1, <3>3 DEF TakenFromFirst
    <3>5. PICK o : o = Onward(p)
      OBVIOUS
    <3>6. o \in ProcRow /\ o.w = s.w
      BY <3>5, OnwardRow
    <3>7. o.pc # "off" /\ WorksOnSeed(o, f) /\ AnswersForWorkflow(o)
      BY <1>1, <2>1, <3>3, <3>5, OnwardWorks
    <3>8. Set(p, o) /\ flow' \in FlowRow /\ (flow'.pc # "none" => Len(seeds') # 0) /\ p # Builder
      BY <1>1, <2>1, <2>7, <2>8, <3>5, PosteriorNumbers DEF JointInvariant
    <3>9. QED
      BY <1>1, <2>1, <2>2, <2>7, <3>1, <3>2, <3>4, <3>6, <3>7, <3>8, ProcessMoves
  <2>9. CASE forecast[s.at] \notin {0, s.answer}
    <3>1. UNCHANGED forecast /\ Set(p, End(s, "raised"))
      BY <2>6, <2>7, <2>9
    <3>2. QED
      BY <1>1, <2>1, <2>2, <3>1, EndMoves
  <2>10. QED
    BY <2>8, <2>9
<1>4. QED
  BY <1>2, <1>3

\* The stage after a world model, of an execution.
LEMMA AfterWorldModelMoves ==
    ASSUME JointInvariant, NEW p \in Execs, procs[p].pc \in {"assess", "assessing"},
           Set(p, AfterWorldModel(procs[p])), UNCHANGED <<forecast, seeds, flow>>
    PROVE  JointInvariant'
<1>. DEFINE s == procs[p]
<1>1. /\ s \in ProcRow /\ s.pc # "off" /\ s.w \in DOMAIN seeds /\ s.seed = seeds[s.w]
      /\ s.work \in {"run", "close"}
  BY AtWork
<1>2. CASE late
  <2>1. PICK c : c = [s EXCEPT !.tell = TRUE]
    OBVIOUS
  <2>2. c \in ProcRow /\ c.w = s.w /\ c.seed = s.seed /\ c.work = s.work
    BY <1>1, <2>1 DEF ProcRow
  <2>3. Set(p, Writing(c, "absence", 0, {}))
    BY <1>2, <2>1 DEF AfterWorldModel, CloseSeed
  <2>4. 0 \in 0..MaxExecs /\ {} \in SUBSET Targets /\ "absence" \in {"absence", "forecast"}
    BY PosteriorNumbers
  <2>5. procs[p].pc \in {"assess", "assessing", "posterior", "asking"}
    OBVIOUS
  <2>6. QED
    BY <2>2, <2>3, <2>4, <2>5, WriteMoves
<1>3. CASE ~late
  <2>1. PICK r : r = [s EXCEPT !.pc = "posterior", !.tell = TRUE]
    OBVIOUS
  <2>2. r \in ProcRow /\ r.pc = "posterior" /\ r.w = s.w /\ r.seed = s.seed /\ r.work = s.work
    BY <1>1, <2>1 DEF ProcRow
  <2>3. WorksOnSeed(r, forecast) /\ AnswersForWorkflow(r)
    BY <1>1, <2>2 DEF WorksOnSeed, AnswersForWorkflow
  <2>4. Set(p, r) /\ r.pc # "off"
    BY <1>3, <2>1, <2>2 DEF AfterWorldModel
  <2>5. QED
    BY <1>1, <2>2, <2>3, <2>4, ExecMoves
<1>4. QED
  BY <1>2, <1>3

\* An execution finds a world model, has one made or fails to.
LEMMA WorldModelKeeps ==
    ASSUME JointInvariant, NEW p \in Execs, Assess(p) \/ WorldModel(p)
    PROVE  JointInvariant'
<1>. DEFINE s == procs[p]
<1>1. s.pc \in {"assess", "assessing"} /\ UNCHANGED <<forecast, seeds, flow>>
  BY DEF Assess, WorldModel, Is, ledger
<1>2. /\ s \in ProcRow /\ s.pc # "off" /\ s.w \in DOMAIN seeds /\ s.seed = seeds[s.w]
      /\ s.work \in {"run", "close"}
  BY <1>1, AtWork
<1>3. \/ Set(p, AfterWorldModel(s))
      \/ Set(p, [s EXCEPT !.pc = "assessing"])
      \/ Set(p, End(s, "raised"))
      \/ Set(p, CloseSeed(s))
  BY DEF Assess, WorldModel, RecordAssessment, Goto
<1>4. CASE Set(p, AfterWorldModel(s))
  BY <1>1, <1>4, AfterWorldModelMoves
<1>5. CASE Set(p, [s EXCEPT !.pc = "assessing"])
  <2>1. PICK r : r = [s EXCEPT !.pc = "assessing"]
    OBVIOUS
  <2>2. r \in ProcRow /\ r.pc = "assessing" /\ r.w = s.w /\ r.seed = s.seed /\ r.work = s.work
    BY <1>2, <2>1 DEF ProcRow
  <2>3. WorksOnSeed(r, forecast) /\ AnswersForWorkflow(r)
    BY <1>2, <2>2 DEF WorksOnSeed, AnswersForWorkflow
  <2>4. QED
    BY <1>1, <1>2, <1>5, <2>1, <2>2, <2>3, ExecMoves
<1>6. CASE Set(p, End(s, "raised"))
  BY <1>1, <1>2, <1>6, EndMoves
<1>7. CASE Set(p, CloseSeed(s))
  <2>1. 0 \in 0..MaxExecs /\ {} \in SUBSET Targets /\ "absence" \in {"absence", "forecast"}
    BY PosteriorNumbers
  <2>2. procs[p].pc \in {"assess", "assessing", "posterior", "asking"}
    BY <1>1
  <2>3. QED
    BY <1>1, <1>2, <1>7, <2>1, <2>2, WriteMoves DEF CloseSeed
<1>8. QED
  BY <1>3, <1>4, <1>5, <1>6, <1>7

\* An execution asks, or finds the answer that stands and finishes it.
LEMMA PosteriorKeeps ==
    ASSUME JointInvariant, NEW p \in Execs, Posterior(p)
    PROVE  JointInvariant'
<1>. DEFINE s == procs[p]
            F == Forecasted(s.seed)
<1>1. s.pc = "posterior" /\ UNCHANGED <<forecast, seeds, flow>>
  BY DEF Posterior, Is, ledger
<1>2. /\ s \in ProcRow /\ s.pc # "off" /\ s.w \in DOMAIN seeds /\ s.seed = seeds[s.w]
      /\ s.work \in {"run", "close"} /\ s.seed \in SUBSET Targets /\ s.seed # {}
  BY <1>1, AtWork
<1>3. procs[p].pc \in {"assess", "assessing", "posterior", "asking"}
  BY <1>1
<1>4. \/ Set(p, End(s, "raised"))
      \/ Set(p, End([s EXCEPT !.mode = "forecast"], "publish"))
      \/ Set(p, End(s, "publish"))
      \/ F # {} /\ Set(p, Recover(s))
      \/ Set(p, NoEstimates(s))
      \/ Set(p, [s EXCEPT !.pc = "asking"])
  BY DEF Posterior
<1>5. CASE Set(p, End(s, "raised")) \/ Set(p, End(s, "publish"))
  BY <1>1, <1>2, <1>5, EndMoves
<1>6. CASE Set(p, End([s EXCEPT !.mode = "forecast"], "publish"))
  <2>1. PICK c : c = [s EXCEPT !.mode = "forecast"]
    OBVIOUS
  <2>2. c \in ProcRow /\ c.w = s.w
    BY <1>2, <2>1 DEF ProcRow
  <2>3. QED
    BY <1>1, <1>2, <1>6, <2>1, <2>2, EndMoves
<1>7. CASE Set(p, NoEstimates(s))
  <2>1. 0 \in 0..MaxExecs /\ {} \in SUBSET Targets /\ "absence" \in {"absence", "forecast"}
    BY PosteriorNumbers
  <2>2. QED
    BY <1>1, <1>2, <1>3, <1>7, <2>1, WriteMoves DEF NoEstimates
<1>8. CASE Set(p, [s EXCEPT !.pc = "asking"])
  <2>1. PICK r : r = [s EXCEPT !.pc = "asking"]
    OBVIOUS
  <2>2. r \in ProcRow /\ r.pc = "asking" /\ r.w = s.w /\ r.seed = s.seed /\ r.work = s.work
    BY <1>2, <2>1 DEF ProcRow
  <2>3. WorksOnSeed(r, forecast) /\ AnswersForWorkflow(r)
    BY <1>2, <2>2 DEF WorksOnSeed, AnswersForWorkflow
  <2>4. QED
    BY <1>1, <1>2, <1>8, <2>1, <2>2, <2>3, ExecMoves
<1>9. CASE F # {} /\ Set(p, Recover(s))
  <2>1. F \in SUBSET Targets /\ \A t \in F : t \in s.seed /\ forecast[t] # 0
    BY <1>2 DEF Forecasted
  <2>2. PICK t \in F : t = FirstTarget(F)
    BY <1>9, <2>1, SeedHasFirst
  <2>3. PICK won : won = forecast[t]
    OBVIOUS
  <2>4. won # 0 /\ won \in Execs /\ t \in Targets
    BY <2>1, <2>3 DEF JointInvariant, Execs
  <2>5. procs[won].pc # "off"
        /\ forecast[FirstTarget(seeds[procs[won].w])] = won
    BY <2>3, <2>4 DEF JointInvariant, TakenFromFirst
  <2>6. Recover(s) = IF procs[won].w = s.w THEN Writing(s, "forecast", won, F)
                     ELSE End(s, "raised")
    BY <2>2, <2>3 DEF Recover, FirstTarget
  <2>7. CASE procs[won].w = s.w
    <3>1. forecast[FirstTarget(s.seed)] = won
      BY <1>2, <2>5, <2>7
    <3>2. Set(p, Writing(s, "forecast", won, F))
      BY <1>9, <2>6, <2>7
    <3>3. won \in 0..MaxExecs
      BY <2>4, PosteriorNumbers
    <3>4. QED
      BY <1>1, <1>2, <1>3, <2>1, <2>4, <2>5, <2>7, <3>1, <3>2, <3>3, WriteMoves
  <2>8. CASE procs[won].w # s.w
    BY <1>1, <1>2, <1>9, <2>6, <2>8, EndMoves
  <2>9. QED
    BY <2>7, <2>8
<1>10. QED
  BY <1>4, <1>5, <1>6, <1>7, <1>8, <1>9

\* An execution has its answer, tells of it or dies.
LEMMA AnswerKeeps ==
    ASSUME JointInvariant, NEW p \in Execs, Answer(p) \/ Publish(p) \/ Die(p)
    PROVE  JointInvariant'
<1>. DEFINE s == procs[p]
<1>1. UNCHANGED <<forecast, seeds, flow>> /\ s.pc # "off" /\ s \in ProcRow
  BY DEF Answer, Publish, Die, Is, ledger, JointInvariant
<1>2. CASE Publish(p) \/ Die(p)
  BY <1>1, <1>2, EndMoves DEF Publish, Die, Goto
<1>3. CASE Answer(p)
  <2>1. procs[p].pc \in {"assess", "assessing", "posterior", "asking"}
    BY <1>3 DEF Answer, Is
  <2>2. /\ p \in 0..MaxExecs /\ 0 \in 0..MaxExecs /\ {} \in SUBSET Targets
        /\ {"absence", "forecast"} = {"forecast", "absence"}
    BY PosteriorNumbers
  <2>3. Set(p, Writing(s, "forecast", p, {})) \/ Set(p, Writing(s, "absence", 0, {}))
    BY <1>3 DEF Answer, CompleteForecasts, NoEstimates
  <2>4. QED
    BY <1>1, <2>1, <2>2, <2>3, WriteMoves
<1>4. QED
  BY <1>2, <1>3

\* Before the first build nothing is reserved or answered.
LEMMA JointInitially == PosteriorInit => JointInvariant
<1>1. SUFFICES ASSUME PosteriorInit PROVE JointInvariant
  OBVIOUS
<1>2. PICK o \in ProcRow : o = Off
  BY OffRow
<1>3. o.pc = "off" /\ o.mode = "absence"
  BY <1>2 DEF Off
<1>4. PICK b : b = [o EXCEPT !.pc = "reserve", !.work = "reserve"]
  OBVIOUS
<1>5. b \in ProcRow /\ b.pc = "reserve" /\ b.mode = "absence"
  BY <1>3, <1>4 DEF ProcRow
<1>6. procs = [p \in {Builder} \cup Execs |-> IF p = Builder THEN b ELSE o]
  BY <1>1, <1>2, <1>4 DEF PosteriorInit
<1>7. procs \in [{Builder} \cup Execs -> ProcRow] /\ BuilderIsPlain(procs[Builder])
  BY <1>5, <1>6 DEF BuilderIsPlain
<1>8. Used = {}
  BY <1>3, <1>6, PosteriorNumbers DEF Used
<1>9. 1..0 = {} /\ 0 \in 0..MaxExecs
  BY PosteriorNumbers
<1>10. forecast \in [Targets -> 0..MaxExecs] /\ \A t \in Targets : forecast[t] = 0
  BY <1>1, <1>9 DEF PosteriorInit
<1>11. seeds \in Seq(SUBSET Targets) /\ DOMAIN seeds = {}
  BY <1>1 DEF PosteriorInit
<1>12. flow \in FlowRow /\ flow.pc = "none"
  BY <1>1 DEF PosteriorInit, NoFlow, FlowRow
<1>13. \E n \in 0..MaxExecs : Used = 1..n
  BY <1>8, <1>9
<1>14. QED
  BY <1>7, <1>8, <1>10, <1>11, <1>12, <1>13 DEF JointInvariant, TakenFromFirst

\* What any execution holds, given up or not, agrees with what the first
\* answer of its seed stored.
THEOREM JointInvariantHolds == PosteriorSpec => []JointInvariant
<1>1. JointInvariant /\ [PosteriorNext]_posteriorVars => JointInvariant'
  <2>1. JointInvariant /\ (DeadlinePasses \/ UNCHANGED posteriorVars) => JointInvariant'
    <3>1. DeadlinePasses \/ UNCHANGED posteriorVars => UNCHANGED <<forecast, procs, flow, seeds>>
      BY DEF DeadlinePasses, posteriorVars, ledger
    <3>2. JointInvariant /\ UNCHANGED <<forecast, procs, flow, seeds>> => JointInvariant'
      BY DEF JointInvariant, Used, WorksOnSeed, AnswersForWorkflow, TakenFromFirst, BuilderIsPlain
    <3>3. QED
      BY <3>1, <3>2
  <2>2. JointInvariant /\ PosteriorNext => JointInvariant'
    BY <2>1, BuilderKeeps, FlowMoves, CheckKeeps, InsertKeeps, WorldModelKeeps,
       PosteriorKeeps, AnswerKeeps DEF PosteriorNext, ExecStep
  <2>3. QED
    BY <2>1, <2>2
<1>2. QED
  BY <1>1, JointInitially, PTL DEF PosteriorSpec

\* The forecasts one workflow put in the ledger are one answer: the one that
\* stands at the first target of its seed.
THEOREM AnswersAreJoint == PosteriorSpec => []OneJointAnswer
<1>1. ASSUME JointInvariant PROVE OneJointAnswer
  <2>1. SUFFICES ASSUME NEW w \in DOMAIN seeds
                 PROVE  Cardinality({forecast[t] : t \in {u \in seeds[w] : forecast[u] # 0
                                       /\ procs[forecast[u]].w = w}}) <= 1
    BY DEF OneJointAnswer
  <2>. DEFINE S == {forecast[t] : t \in {u \in seeds[w] : forecast[u] # 0
                                           /\ procs[forecast[u]].w = w}}
              a == forecast[FirstTarget(seeds[w])]
  <2>2. seeds[w] \in SUBSET Targets
    BY <1>1 DEF JointInvariant
  <2>3. \A t \in seeds[w] : forecast[t] # 0 /\ procs[forecast[t]].w = w => forecast[t] = a
    BY <1>1, <2>2 DEF JointInvariant, TakenFromFirst
  <2>4. S \subseteq {a}
    BY <2>3
  <2>5. IsFiniteSet({a}) /\ Cardinality({a}) = 1
    BY FS_Singleton
  <2>6. Cardinality(S) <= 1
    BY <2>4, <2>5, FS_Subset
  <2>7. QED
    BY <2>6
<1>2. QED
  BY <1>1, JointInvariantHolds, PTL

-----------------------------------------------------------------------------
(* ContextPosterior: what is reported and published.                       *)

\* What a step of one process may change: the row of this process, which stays
\* with its workflow and passes a target only when its result stands, results that
\* were not there, one more seed, the workflow at hand and who was told.
LEMMA ClosingMoves ==
    ASSUME JointInvariant, ClosingInvariant,
           NEW p \in {Builder} \cup Execs, NEW r \in ProcRow, Set(p, r),
           NEW f \in [Targets -> 0..MaxExecs], forecast' = f,
           NEW a \in [Targets -> 0..None], absence' = a,
           \A t \in Targets : (forecast[t] # 0 => f[t] # 0) /\ (absence[t] # None => a[t] # None),
           p \in Execs => r.pc # "off" /\ r.w \in DOMAIN seeds /\ ClosesInTurn(r, f, a),
           p \in Execs /\ procs[p].pc # "off" => r.w = procs[p].w,
           NEW S \in SUBSET Targets, seeds' \in {seeds, Append(seeds, S)},
           \/ flow'.pc \in {"none", "starting", "FAILED"}
           \/ seeds' = seeds /\ flow' = flow
           \/ /\ seeds' = seeds /\ p \in Execs /\ r.w = Len(seeds)
              /\ flow'.pc \in {"run", "close"} /\ flow'.exec = p,
           published' \subseteq DOMAIN seeds,
           \A w \in published' \ published : \A t \in seeds[w] : Terminal(t)
    PROVE  ClosingInvariant'
<1>1. /\ procs' \in [{Builder} \cup Execs -> ProcRow] /\ procs'[p] = r
      /\ \A q \in {Builder} \cup Execs : q # p => procs'[q] = procs[q]
  BY DEF JointInvariant, Set
<1>2. /\ seeds \in Seq(SUBSET Targets)
      /\ \A w \in DOMAIN seeds : w \in DOMAIN seeds' /\ seeds'[w] = seeds[w]
  <2>1. seeds \in Seq(SUBSET Targets)
    BY DEF JointInvariant
  <2>2. CASE seeds' = seeds
    BY <2>1, <2>2
  <2>3. CASE seeds' = Append(seeds, S)
    BY <2>1, <2>3
  <2>4. QED
    BY <2>1, <2>2, <2>3
<1>3. \A w \in DOMAIN seeds : seeds[w] \in SUBSET Targets
  BY <1>2
<1>4. \A q \in Used : /\ q \in Execs /\ q \in Used' /\ procs'[q].w = procs[q].w
                      /\ procs[q] \in ProcRow /\ procs[q].w \in DOMAIN seeds
                      /\ ClosesInTurn(procs[q], forecast, absence)
  <2>1. \A q \in Used : q \in Execs /\ q \in Used' /\ procs'[q].w = procs[q].w
    BY <1>1 DEF Used
  <2>2. \A q \in Used : procs[q] \in ProcRow /\ procs[q].w \in DOMAIN seeds
    BY DEF JointInvariant, Used, WorksOnSeed
  <2>3. QED
    BY <2>1, <2>2 DEF ClosingInvariant
<1>5. ASSUME NEW mode, NEW t \in Targets, Stands(mode, t, forecast, absence)
      PROVE  Stands(mode, t, f, a)
  BY <1>5 DEF Stands
<1>6. ASSUME NEW q \in Used', NEW s, s = procs'[q]
      PROVE  ClosesInTurn(s, f, a)' 
  <2>1. q \in Execs /\ s.w \in DOMAIN seeds /\ ClosesInTurn(s, f, a)
    <3>1. CASE q = p
      BY <1>1, <1>6, <3>1 DEF Used
    <3>2. CASE q # p
      <4>1. s = procs[q] /\ q \in Used
        BY <1>1, <1>6, <3>2 DEF Used
      <4>2. s \in ProcRow /\ s.seed \in SUBSET Targets /\ s.known \in SUBSET Targets
        BY <1>4, <4>1 DEF ProcRow
      <4>3. seeds[s.w] \in SUBSET Targets
        BY <1>3, <1>4, <4>1
      <4>4. QED
        BY <1>4, <1>5, <4>1, <4>2, <4>3 DEF ClosesInTurn
    <3>3. QED
      BY <3>1, <3>2
  <2>2. seeds'[s.w] = seeds[s.w]
    BY <1>2, <2>1
  <2>3. QED
    BY <2>1, <2>2 DEF ClosesInTurn, Stands
<1>7. flow'.pc \in {"run", "close"} => flow'.exec \in Used' /\ procs'[flow'.exec].w = Len(seeds')
  <2>1. CASE seeds' = seeds /\ flow' = flow
    BY <1>4, <2>1 DEF ClosingInvariant
  <2>2. CASE flow'.exec = p /\ seeds' = seeds /\ p \in Execs /\ r.w = Len(seeds)
    BY <1>1, <2>2 DEF Used
  <2>3. QED
    BY <2>1, <2>2
<1>8. \A t \in Targets : Terminal(t) => f[t] # 0 \/ a[t] # None
  BY DEF Terminal
<1>9. PublishedAfterTerminal'
  <2>1. ASSUME NEW w \in published', NEW t \in seeds'[w] PROVE f[t] # 0 \/ a[t] # None
    <3>1. w \in DOMAIN seeds /\ seeds'[w] = seeds[w] /\ t \in Targets
      BY <1>2, <1>3
    <3>2. Terminal(t)
      BY <3>1 DEF ClosingInvariant, PublishedAfterTerminal
    <3>3. QED
      BY <1>8, <3>1, <3>2
  <2>2. QED
    BY <2>1 DEF PublishedAfterTerminal, Terminal, None
<1>10. ReportedAsRecorded'
  <2>1. CASE flow'.pc \notin {"SUCCEEDED", "NO_ESTIMATE"}
    BY <2>1 DEF ReportedAsRecorded
  <2>2. CASE flow'.pc \in {"SUCCEEDED", "NO_ESTIMATE"}
    <3>1. seeds' = seeds /\ flow' = flow
      BY <2>2
    <3>2. Len(seeds) \in DOMAIN seeds
      BY <1>2, <2>2, <3>1 DEF JointInvariant
    <3>3. seeds[Len(seeds)] \in SUBSET Targets
      BY <1>3, <3>2
    <3>4. /\ flow.pc = "SUCCEEDED" => \A t \in seeds[Len(seeds)] : forecast[t] # 0
          /\ flow.pc = "NO_ESTIMATE" => \A t \in seeds[Len(seeds)] : absence[t] # None
      BY DEF ClosingInvariant, ReportedAsRecorded
    <3>5. QED
      BY <3>1, <3>3, <3>4 DEF ReportedAsRecorded, None
  <2>3. QED
    BY <2>1, <2>2
<1>11. absence' \in [Targets -> 0..None] /\ published' \subseteq DOMAIN seeds'
  BY <1>2
<1>12. \A q \in Used' : ClosesInTurn(procs[q], forecast, absence)'
  BY <1>6
<1>13. QED
  BY <1>7, <1>9, <1>10, <1>11, <1>12 DEF ClosingInvariant, None

\* Where nothing else moves, the row of an execution is what matters.
LEMMA ExecCloses ==
    ASSUME JointInvariant, ClosingInvariant, NEW p \in Execs, NEW r \in ProcRow, Set(p, r),
           UNCHANGED <<forecast, absence, seeds, flow>>,
           published' \subseteq DOMAIN seeds,
           \A w \in published' \ published : \A t \in seeds[w] : Terminal(t),
           procs[p].pc # "off", r.pc # "off", r.w = procs[p].w,
           ClosesInTurn(r, forecast, absence)
    PROVE  ClosingInvariant'
<1>1. /\ forecast \in [Targets -> 0..MaxExecs] /\ absence \in [Targets -> 0..None]
      /\ procs[p].w \in DOMAIN seeds
  BY DEF JointInvariant, ClosingInvariant, Used, WorksOnSeed
<1>2. p \in {Builder} \cup Execs /\ {} \in SUBSET Targets
  OBVIOUS
<1>3. QED
  BY <1>1, <1>2, ClosingMoves

\* An execution that raises or dies owes nothing.
LEMMA FailureCloses ==
    ASSUME JointInvariant, ClosingInvariant, NEW p \in Execs, procs[p].pc # "off",
           NEW pc \in {"raised", "dead"}, Set(p, End(procs[p], pc)),
           UNCHANGED <<forecast, absence, seeds, flow, published>>
    PROVE  ClosingInvariant'
<1>1. procs[p] \in ProcRow
  BY DEF JointInvariant
<1>2. PICK r \in ProcRow : r = End(procs[p], pc) /\ r.pc = pc /\ r.w = procs[p].w
  BY <1>1, EndRow
<1>3. r.known = {}
  BY <1>2 DEF End, Off
<1>4. ClosesInTurn(r, forecast, absence)
  BY <1>2, <1>3 DEF ClosesInTurn
<1>5. published' \subseteq DOMAIN seeds
  BY DEF ClosingInvariant
<1>6. QED
  BY <1>2, <1>4, <1>5, ExecCloses

\* One that begins to write has passed nothing.
LEMMA WriteCloses ==
    ASSUME JointInvariant, ClosingInvariant, NEW p \in Execs,
           procs[p].pc \in {"assess", "assessing", "posterior", "asking"},
           NEW s \in ProcRow, s.w = procs[p].w, s.seed = procs[p].seed,
           NEW mode \in {"absence", "forecast"}, NEW answer \in 0..MaxExecs,
           NEW known \in SUBSET Targets, \A t \in known : forecast[t] # 0,
           Set(p, Writing(s, mode, answer, known)),
           UNCHANGED <<forecast, absence, seeds, flow, published>>
    PROVE  ClosingInvariant'
<1>1. procs[p].pc # "off" /\ s.seed # {} /\ s.seed \in SUBSET Targets
  BY AtWork
<1>2. PICK r : r = Writing(s, mode, answer, known)
  OBVIOUS
<1>3. /\ r \in ProcRow /\ r.pc = "check" /\ r.w = s.w
      /\ r.seed = s.seed /\ r.at = FirstTarget(s.seed) /\ r.known = known
  BY <1>1, <1>2, WritingRow
<1>4. r.at \in r.seed /\ \A t \in r.seed : ~(t < r.at)
  <2>1. r.at \in r.seed /\ \A t \in r.seed : r.at <= t
    BY <1>1, <1>3, SeedHasFirst
  <2>2. r.at \in Nat /\ \A t \in r.seed : t \in Nat
    BY <1>1, <1>3, <2>1, PosteriorNumbers
  <2>3. QED
    BY <2>1, <2>2
<1>5. ClosesInTurn(r, forecast, absence)
  BY <1>3, <1>4 DEF ClosesInTurn
<1>6. published' \subseteq DOMAIN seeds
  BY DEF ClosingInvariant
<1>7. QED
  BY <1>1, <1>2, <1>3, <1>5, <1>6, ExecCloses

\* One that stays before its answer has written nothing.
LEMMA StageCloses ==
    ASSUME JointInvariant, JointInvariant', ClosingInvariant, NEW p \in Execs,
           procs[p].pc \in {"assess", "assessing", "posterior", "asking"},
           NEW r, Set(p, r), r.pc \in {"assess", "assessing", "posterior", "asking"},
           r.w = procs[p].w, r.mode = procs[p].mode, r.known = procs[p].known,
           UNCHANGED <<forecast, absence, seeds, flow, published>>
    PROVE  ClosingInvariant'
<1>1. procs[p].pc # "off" /\ p \in Used
  BY AtWork
<1>2. procs'[p] = r /\ r \in ProcRow
  BY DEF JointInvariant, Set
<1>3. ClosesInTurn(procs[p], forecast, absence) /\ published' \subseteq DOMAIN seeds
  BY <1>1 DEF ClosingInvariant
<1>4. ClosesInTurn(r, forecast, absence)
  BY <1>3 DEF ClosesInTurn
<1>5. QED
  BY <1>1, <1>2, <1>3, <1>4, ExecCloses

\* A step of the builder, which passes on no result.
LEMMA BuilderCloses ==
    ASSUME JointInvariant, JointInvariant', ClosingInvariant, NEW r, Set(Builder, r),
           forecast' = forecast, NEW a \in [Targets -> 0..None], absence' = a,
           \A t \in Targets : absence[t] # None => a[t] # None,
           NEW S \in SUBSET Targets, seeds' \in {seeds, Append(seeds, S)},
           flow'.pc \in {"none", "starting", "FAILED"} \/ (seeds' = seeds /\ flow' = flow),
           published' = published
    PROVE  ClosingInvariant'
<1>1. procs'[Builder] = r /\ r \in ProcRow
  BY DEF JointInvariant, Set
<1>2. forecast \in [Targets -> 0..MaxExecs] /\ published' \subseteq DOMAIN seeds
  BY DEF JointInvariant, ClosingInvariant
<1>3. Builder \in {Builder} \cup Execs /\ Builder \notin Execs
  BY PosteriorNumbers
<1>4. QED
  BY <1>1, <1>2, <1>3, ClosingMoves

\* An execution that has written a target goes on, or has written its seed.
LEMMA OnwardCloses ==
    ASSUME JointInvariant, ClosingInvariant, NEW p \in Execs,
           procs[p].pc \in {"check", "insert"},
           NEW f \in [Targets -> 0..MaxExecs], NEW a \in [Targets -> 0..None],
           \A t \in Targets : (forecast[t] # 0 => f[t] # 0) /\ (absence[t] # None => a[t] # None),
           Stands(procs[p].mode, procs[p].at, f, a),
           NEW r, r = Onward(p)
    PROVE  r \in ProcRow /\ r.pc # "off" /\ r.w = procs[p].w /\ ClosesInTurn(r, f, a)
<1>. DEFINE s == procs[p]
            rest == {t \in s.seed : t > s.at}
<1>1. /\ s \in ProcRow /\ p \in Used /\ s.seed = seeds[s.w] /\ s.seed \in SUBSET Targets
      /\ s.work \in {"run", "close"}
  BY AtWork
<1>2. /\ ClosesInTurn(s, forecast, absence) /\ s.known \in SUBSET Targets
      /\ s.mode \in {"absence", "forecast"}
  BY <1>1 DEF ClosingInvariant, ProcRow
<1>3. ASSUME NEW t \in Targets, Stands(s.mode, t, forecast, absence)
      PROVE  Stands(s.mode, t, f, a)
  BY <1>3 DEF Stands
<1>4. \A t \in s.seed : t <= s.at => Stands(s.mode, t, f, a)
  <2>1. SUFFICES ASSUME NEW t \in s.seed, t <= s.at PROVE Stands(s.mode, t, f, a)
    OBVIOUS
  <2>2. t \in Nat /\ s.at \in Nat /\ t \in Targets
    BY <1>1, PosteriorNumbers DEF ProcRow
  <2>3. CASE t = s.at
    BY <2>3
  <2>4. CASE t < s.at
    BY <1>2, <1>3, <2>2, <2>4 DEF ClosesInTurn
  <2>5. QED
    BY <2>1, <2>2, <2>3, <2>4
<1>5. CASE rest = {}
  <2>1. r = End(s, AfterLast(s)) /\ AfterLast(s) \in {"publish", "done"}
    BY <1>1, <1>5 DEF Onward, AfterLast
  <2>2. /\ r \in ProcRow /\ r.pc \in {"publish", "done"} /\ r.w = s.w /\ r.mode = s.mode
        /\ r.known = {}
    <3>1. r \in ProcRow /\ r.pc \in {"publish", "done"} /\ r.w = s.w /\ r.mode = s.mode
      BY <1>1, <2>1, EndRow
    <3>2. r.known = {}
      BY <2>1 DEF End, Off
    <3>3. QED
      BY <3>1, <3>2
  <2>3. \A t \in s.seed : t <= s.at
    <3>1. \A t \in s.seed : t \in Nat /\ ~(t > s.at)
      BY <1>1, <1>5, PosteriorNumbers
    <3>2. s.at \in Nat
      BY <1>1 DEF ProcRow
    <3>3. QED
      BY <3>1, <3>2
  <2>4. \A t \in seeds[r.w] : Stands(r.mode, t, f, a)
    BY <1>1, <1>4, <2>2, <2>3
  <2>5. QED
    BY <2>2, <2>4 DEF ClosesInTurn
<1>6. CASE rest # {}
  <2>1. rest \in SUBSET Targets
    BY <1>1
  <2>2. PICK n \in rest : n = FirstTarget(rest) /\ \A u \in rest : n <= u
    BY <1>6, <2>1, SeedHasFirst
  <2>3. r = [s EXCEPT !.pc = "check", !.at = n]
    BY <1>1, <1>6, <2>2 DEF Onward, FirstTarget
  <2>4. n \in Nat \ {0} /\ n \in s.seed /\ s.at \in Nat
    BY <1>1, <2>1, <2>2, PosteriorNumbers DEF ProcRow
  <2>5. /\ r \in ProcRow /\ r.pc = "check" /\ r.w = s.w /\ r.mode = s.mode /\ r.at = n
        /\ r.known = s.known /\ r.seed = s.seed
    BY <1>1, <2>3, <2>4 DEF ProcRow
  <2>6. \A t \in s.seed : t < n => t <= s.at
    <3>1. SUFFICES ASSUME NEW t \in s.seed, t < n, ~(t <= s.at) PROVE FALSE
      OBVIOUS
    <3>2. t \in Nat
      BY <1>1, PosteriorNumbers
    <3>3. t \in rest
      BY <2>4, <3>1, <3>2
    <3>4. QED
      BY <2>2, <2>4, <3>1, <3>2, <3>3
  <2>7. \A t \in r.known : f[t] # 0
    BY <1>2, <2>5 DEF ClosesInTurn
  <2>8. QED
    BY <1>4, <2>4, <2>5, <2>6, <2>7 DEF ClosesInTurn
<1>7. QED
  BY <1>5, <1>6

\* A process looks for what stands of its target.
LEMMA CheckCloses ==
    ASSUME JointInvariant, ClosingInvariant, NEW p \in {Builder} \cup Execs, Check(p)
    PROVE  ClosingInvariant'
<1>. DEFINE s == procs[p]
<1>0. JointInvariant'
  BY CheckKeeps
<1>1. /\ s \in ProcRow /\ s.pc = "check" /\ UNCHANGED <<forecast, absence, seeds, flow, published>>
      /\ forecast \in [Targets -> 0..MaxExecs] /\ absence \in [Targets -> 0..None]
      /\ published' \subseteq DOMAIN seeds /\ s.mode \in {"absence", "forecast"}
  BY DEF JointInvariant, ClosingInvariant, Check, Is, ledger, cognition, ProcRow
<1>2. \/ /\ Set(p, Onward(p))
         /\ \/ s.mode = "forecast" /\ s.at \in s.known
            \/ s.mode # "forecast" /\ absence[s.at] # None
            \/ s.work = "reserve"
      \/ Set(p, End(s, "raised"))
      \/ Set(p, [s EXCEPT !.pc = "insert"])
  <2>1. CASE s.mode = "forecast"
    BY <2>1 DEF Check
  <2>2. CASE s.mode # "forecast"
    BY <2>2 DEF Check
  <2>3. QED
    BY <2>1, <2>2
<1>3. CASE p = Builder
  <2>1. PICK r : Set(p, r)
    BY <1>2
  <2>2. {} \in SUBSET Targets
    OBVIOUS
  <2>3. QED
    BY <1>0, <1>1, <1>3, <2>1, <2>2, BuilderCloses
<1>4. CASE p \in Execs
  <2>1. /\ s.pc # "off" /\ p \in Used /\ s.work \in {"run", "close"}
        /\ ClosesInTurn(s, forecast, absence)
    BY <1>1, <1>4, AtWork DEF ClosingInvariant
  <2>2. CASE /\ Set(p, Onward(p))
             /\ \/ s.mode = "forecast" /\ s.at \in s.known
                \/ s.mode # "forecast" /\ absence[s.at] # None
    <3>1. Stands(s.mode, s.at, forecast, absence)
      BY <2>1, <2>2 DEF Stands, ClosesInTurn
    <3>2. PICK r : r = Onward(p)
      OBVIOUS
    <3>3. r \in ProcRow /\ r.pc # "off" /\ r.w = s.w /\ ClosesInTurn(r, forecast, absence)
      BY <1>1, <1>4, <3>1, <3>2, OnwardCloses
    <3>4. QED
      BY <1>1, <1>4, <2>1, <2>2, <3>2, <3>3, ExecCloses
  <2>3. CASE Set(p, End(s, "raised"))
    BY <1>1, <1>4, <2>1, <2>3, FailureCloses
  <2>4. CASE Set(p, [s EXCEPT !.pc = "insert"])
    <3>1. PICK r : r = [s EXCEPT !.pc = "insert"]
      OBVIOUS
    <3>2. /\ r \in ProcRow /\ r.pc = "insert" /\ r.w = s.w /\ r.mode = s.mode /\ r.at = s.at
          /\ r.seed = s.seed /\ r.known = s.known
      BY <1>1, <3>1 DEF ProcRow
    <3>3. ClosesInTurn(r, forecast, absence)
      BY <1>1, <2>1, <3>2 DEF ClosesInTurn
    <3>4. Set(p, r)
      BY <2>4, <3>1
    <3>5. QED
      BY <1>1, <1>4, <2>1, <3>2, <3>3, <3>4, ExecCloses
  <2>5. QED
    BY <1>2, <2>1, <2>2, <2>3, <2>4
<1>5. QED
  BY <1>3, <1>4

\* A process inserts: from then on the result stands.
LEMMA InsertCloses ==
    ASSUME JointInvariant, ClosingInvariant, NEW p \in {Builder} \cup Execs, Insert(p)
    PROVE  ClosingInvariant'
<1>. DEFINE s == procs[p]
<1>0. JointInvariant'
  BY InsertKeeps
<1>1. /\ s \in ProcRow /\ s.pc = "insert" /\ UNCHANGED <<seeds, flow, published>>
      /\ forecast \in [Targets -> 0..MaxExecs] /\ absence \in [Targets -> 0..None]
      /\ published' \subseteq DOMAIN seeds /\ s.mode \in {"absence", "forecast"}
  BY DEF JointInvariant, ClosingInvariant, Insert, Is, cognition, ProcRow
<1>2. p # None /\ p \in 0..None /\ None \in Nat /\ p \in Nat
  BY PosteriorNumbers DEF None, Execs
<1>3. PICK f : f = IF s.mode = "forecast" /\ forecast[s.at] = 0
                   THEN [forecast EXCEPT ![s.at] = s.answer] ELSE forecast
  OBVIOUS
<1>4. PICK a : a = IF s.mode # "forecast" /\ absence[s.at] = None
                   THEN [absence EXCEPT ![s.at] = p] ELSE absence
  OBVIOUS
<1>5. forecast' = f /\ absence' = a
  BY <1>3, <1>4 DEF Insert
<1>6. /\ f \in [Targets -> 0..MaxExecs] /\ a \in [Targets -> 0..None]
      /\ \A t \in Targets : (forecast[t] # 0 => f[t] # 0) /\ (absence[t] # None => a[t] # None)
  <2>1. f \in [Targets -> 0..MaxExecs]
    BY <1>0, <1>5 DEF JointInvariant
  <2>2. a \in [Targets -> 0..None]
    BY <1>1, <1>2, <1>4
  <2>3. \A t \in Targets : forecast[t] # 0 => f[t] # 0
    BY <1>1, <1>3
  <2>4. \A t \in Targets : absence[t] # None => a[t] # None
    BY <1>1, <1>2, <1>4
  <2>5. QED
    BY <2>1, <2>2, <2>3, <2>4
<1>7. \/ Set(p, Onward(p))
         /\ (s.mode = "forecast" => forecast[s.at] \in {0, s.answer})
         /\ (s.mode # "forecast" => absence[s.at] \in {None, p})
      \/ Set(p, End(s, "raised"))
  <2>1. CASE s.mode = "forecast"
    BY <2>1 DEF Insert
  <2>2. CASE s.mode # "forecast"
    BY <2>2 DEF Insert
  <2>3. QED
    BY <2>1, <2>2
<1>8. CASE p = Builder
  <2>1. PICK r : Set(p, r)
    BY <1>7
  <2>2. forecast' = forecast
    BY <1>3, <1>5, <1>8 DEF JointInvariant, BuilderIsPlain
  <2>3. {} \in SUBSET Targets
    OBVIOUS
  <2>4. QED
    BY <1>0, <1>1, <1>5, <1>6, <1>8, <2>1, <2>2, <2>3, BuilderCloses
<1>9. CASE p \in Execs
  <2>1. /\ s.pc # "off" /\ p \in Used /\ s.w \in DOMAIN seeds /\ s.seed \in SUBSET Targets
        /\ ClosesInTurn(s, forecast, absence) /\ AnswersForWorkflow(s)
    BY <1>1, <1>9, AtWork DEF ClosingInvariant
  <2>2. s.at \in Targets
    BY <1>1, <2>1 DEF ClosesInTurn
  <2>3. PICK r : Set(p, r) /\ r \in {Onward(p), End(s, "raised")}
                 /\ (r = Onward(p) \/ r = End(s, "raised"))
                 /\ (r # End(s, "raised") =>
                        /\ r = Onward(p)
                        /\ s.mode = "forecast" => forecast[s.at] \in {0, s.answer}
                        /\ s.mode # "forecast" => absence[s.at] \in {None, p})
    BY <1>7
  <2>4. r \in ProcRow /\ r.pc # "off" /\ r.w = s.w /\ ClosesInTurn(r, f, a)
    <3>1. CASE r = End(s, "raised")
      <4>1. r \in ProcRow /\ r.pc = "raised" /\ r.w = s.w
        BY <1>1, <3>1, EndRow
      <4>2. r.known = {}
        BY <3>1 DEF End, Off
      <4>3. QED
        BY <4>1, <4>2 DEF ClosesInTurn
    <3>2. CASE r # End(s, "raised")
      <4>1. s.mode = "forecast" => s.answer # 0
        BY <1>1, <2>1, PosteriorNumbers DEF AnswersForWorkflow
      <4>2. Stands(s.mode, s.at, f, a)
        <5>1. CASE s.mode = "forecast"
          BY <1>1, <1>3, <2>2, <2>3, <3>2, <4>1, <5>1 DEF Stands
        <5>2. CASE s.mode # "forecast"
          BY <1>1, <1>2, <1>4, <2>2, <2>3, <3>2, <5>2 DEF Stands
        <5>3. QED
          BY <5>1, <5>2
      <4>3. QED
        BY <1>1, <1>6, <1>9, <2>3, <3>2, <4>2, OnwardCloses
    <3>3. QED
      BY <3>1, <3>2
  <2>5. {} \in SUBSET Targets /\ p \in {Builder} \cup Execs
    OBVIOUS
  <2>6. QED
    BY <1>1, <1>5, <1>6, <1>9, <2>1, <2>3, <2>4, <2>5, ClosingMoves
<1>10. QED
  BY <1>8, <1>9

\* A new execution is launched, for the last seed.
LEMMA LaunchCloses ==
    ASSUME JointInvariant, ClosingInvariant, NEW work \in {"run", "close"}, Launch(work),
           Len(seeds) # 0, UNCHANGED <<forecast, absence, seeds, published>>
    PROVE  ClosingInvariant'
<1>1. PICK p : p = Cardinality(Used) + 1
  OBVIOUS
<1>2. PICK s : s = [Off EXCEPT !.work = work, !.w = Len(seeds), !.seed = seeds[Len(seeds)]]
  OBVIOUS
<1>3. PICK r : r = IF work = "run" THEN [s EXCEPT !.pc = "assess"] ELSE CloseSeed(s)
  OBVIOUS
<1>4. p \in Execs /\ Set(p, r) /\ flow'.pc = work /\ flow'.exec = p
  BY <1>1, <1>2, <1>3 DEF Launch
<1>5. /\ Len(seeds) \in Nat /\ Len(seeds) \in DOMAIN seeds
      /\ seeds[Len(seeds)] \in SUBSET Targets /\ seeds[Len(seeds)] # {}
  BY DEF JointInvariant
<1>6. s \in ProcRow /\ s.w = Len(seeds) /\ s.seed # {} /\ s.mode = "absence" /\ s.known = {}
  <2>1. PICK o \in ProcRow : o = Off
    BY OffRow
  <2>2. PICK w \in Nat, S \in SUBSET Targets : w = Len(seeds) /\ S = seeds[Len(seeds)]
    BY <1>5
  <2>3. s = [o EXCEPT !.work = work, !.w = w, !.seed = S] /\ o.mode = "absence" /\ o.known = {}
    <3>1. Off.mode = "absence" /\ Off.known = {}
      BY DEF Off
    <3>2. QED
      BY <1>2, <2>1, <2>2, <3>1
  <2>4. s \in ProcRow /\ s.w = w /\ s.seed = S /\ s.mode = o.mode /\ s.known = o.known
    BY <2>3 DEF ProcRow
  <2>5. QED
    BY <1>5, <2>2, <2>3, <2>4
<1>7. r \in ProcRow /\ r.pc # "off" /\ r.w = Len(seeds) /\ ClosesInTurn(r, forecast, absence)
  <2>1. CASE work = "run"
    <3>1. r = [s EXCEPT !.pc = "assess"]
      BY <1>3, <2>1
    <3>2. /\ r \in ProcRow /\ r.pc = "assess" /\ r.w = s.w /\ r.mode = s.mode
          /\ r.known = s.known
      BY <1>6, <3>1 DEF ProcRow
    <3>3. QED
      BY <1>6, <3>2 DEF ClosesInTurn
  <2>2. CASE work # "run"
    <3>1. r = Writing(s, "absence", 0, {})
      BY <1>3, <2>2 DEF CloseSeed
    <3>2. 0 \in 0..MaxExecs /\ {} \in SUBSET Targets /\ "absence" \in {"absence", "forecast"}
      BY PosteriorNumbers
    <3>3. /\ r \in ProcRow /\ r.pc = "check" /\ r.w = s.w /\ r.known = {}
          /\ r.seed = s.seed /\ r.at = FirstTarget(s.seed) /\ r.at \in s.seed
      BY <1>6, <3>1, <3>2, WritingRow
    <3>4. \A t \in r.seed : ~(t < r.at)
      <4>1. s.seed \in SUBSET Targets
        BY <1>6 DEF ProcRow
      <4>2. \A t \in r.seed : r.at <= t /\ t \in Nat
        BY <1>6, <3>3, <4>1, SeedHasFirst, PosteriorNumbers
      <4>3. r.at \in Nat
        BY <3>3, <4>2
      <4>4. QED
        BY <4>2, <4>3
    <3>5. QED
      BY <1>6, <3>3, <3>4 DEF ClosesInTurn
  <2>3. QED
    BY <2>1, <2>2
<1>8. procs[p].pc = "off"
  <2>1. PICK n \in 0..MaxExecs : Used = 1..n
    BY DEF JointInvariant
  <2>2. Cardinality(1..n) = IF 1 > n THEN 0 ELSE n - 1 + 1
    BY FS_Interval
  <2>3. p = n + 1
    BY <1>1, <2>1, <2>2
  <2>4. p \notin Used
    BY <2>1, <2>3
  <2>5. QED
    BY <1>4, <2>4 DEF Used
<1>9. /\ forecast \in [Targets -> 0..MaxExecs] /\ absence \in [Targets -> 0..None]
      /\ published' \subseteq DOMAIN seeds
  BY DEF JointInvariant, ClosingInvariant
<1>10. p \in {Builder} \cup Execs /\ {} \in SUBSET Targets
  BY <1>4
<1>11. QED
  BY <1>4, <1>5, <1>7, <1>8, <1>9, <1>10, ClosingMoves

\* What a workflow hears is written in full.
LEMMA HeardCloses ==
    ASSUME JointInvariant, ClosingInvariant, Heard, flow'.pc \in Ended
    PROVE  ClosingInvariant'
<1>1. /\ flow.pc \in {"run", "close"} /\ flow.exec \in Used /\ procs[flow.exec].w = Len(seeds)
      /\ UNCHANGED <<forecast, absence, seeds, published>>
  BY DEF Heard, ClosingInvariant, ledger, cognition
<1>2. flow \in FlowRow /\ Launch("close") => flow'.pc \notin Ended
  BY DEF Launch, Ended
<1>3. flow \in FlowRow
  BY DEF JointInvariant
<1>4. UNCHANGED procs
  BY <1>2, <1>3 DEF Heard
<1>5. PICK pc \in Ended : /\ flow' = [flow EXCEPT !.pc = pc]
                          /\ pc # "FAILED" => /\ procs[flow.exec].pc = "done"
                                              /\ pc = IF procs[flow.exec].mode = "forecast"
                                                      THEN "SUCCEEDED" ELSE "NO_ESTIMATE"
  BY <1>2, <1>3 DEF Heard, Is, Ended
<1>6. flow'.pc = pc
  BY <1>3, <1>5 DEF FlowRow
<1>7. ClosesInTurn(procs[flow.exec], forecast, absence)
  BY <1>1 DEF ClosingInvariant
<1>8. ReportedAsRecorded'
  BY <1>1, <1>5, <1>6, <1>7 DEF ReportedAsRecorded, ClosesInTurn, Stands, None
<1>9. QED
  BY <1>1, <1>4, <1>6, <1>8
     DEF ClosingInvariant, Ended, Used, ClosesInTurn, Stands, PublishedAfterTerminal, Terminal, None

\* The workflow starts, hears of an execution or gives it up.
LEMMA FlowCloses ==
    ASSUME JointInvariant, ClosingInvariant, StartFlow \/ Heard \/ GiveUp
    PROVE  ClosingInvariant'
<1>1. Len(seeds) # 0 /\ UNCHANGED <<forecast, absence, seeds, published>>
  BY DEF StartFlow, Heard, GiveUp, JointInvariant, ledger, cognition
<1>2. ASSUME Launch("run") \/ Launch("close") PROVE ClosingInvariant'
  BY <1>1, <1>2, LaunchCloses
<1>3. CASE StartFlow \/ GiveUp
  BY <1>2, <1>3 DEF StartFlow, GiveUp
<1>4. CASE Heard
  <2>1. Launch("close") \/ \E pc \in Ended : flow' = [flow EXCEPT !.pc = pc]
    BY <1>4 DEF Heard, Ended
  <2>2. flow \in FlowRow
    BY DEF JointInvariant
  <2>3. CASE \E pc \in Ended : flow' = [flow EXCEPT !.pc = pc]
    <3>1. flow'.pc \in Ended
      BY <2>2, <2>3 DEF FlowRow
    <3>2. QED
      BY <1>4, <3>1, HeardCloses
  <2>4. QED
    BY <1>2, <2>1, <2>3
<1>5. QED
  BY <1>3, <1>4

\* The builder reserves, prepares, is rebuilt or takes a later batch.
LEMMA BuilderStepsClose ==
    ASSUME JointInvariant, ClosingInvariant, Reserve \/ Prepare \/ BuilderDies \/ NextBatch
    PROVE  ClosingInvariant'
<1>1. JointInvariant'
  BY BuilderKeeps
<1>2. /\ UNCHANGED <<forecast, absence, published>> /\ absence \in [Targets -> 0..None]
      /\ procs[Builder] \in ProcRow
  BY PosteriorNumbers
     DEF Reserve, Prepare, BuilderDies, NextBatch, ledger, cognition, ClosingInvariant, JointInvariant
<1>3. PICK S \in SUBSET Targets : S = procs[Builder].seed
  BY <1>2 DEF ProcRow
<1>4. \E r : Set(Builder, r)
  BY DEF Reserve, Prepare, BuilderDies, NextBatch, Goto
<1>5. /\ seeds' \in {seeds, Append(seeds, S)}
      /\ flow'.pc \in {"none", "starting", "FAILED"} \/ (seeds' = seeds /\ flow' = flow)
  <2>1. [NoFlow EXCEPT !.pc = "starting"].pc = "starting"
    BY DEF NoFlow
  <2>2. QED
    BY <1>3, <2>1 DEF Reserve, Prepare, BuilderDies, NextBatch
<1>6. QED
  BY <1>1, <1>2, <1>4, <1>5, BuilderCloses

\* An execution finds a world model, has one made or fails to.
LEMMA WorldModelCloses ==
    ASSUME JointInvariant, ClosingInvariant, NEW p \in Execs, Assess(p) \/ WorldModel(p)
    PROVE  ClosingInvariant'
<1>. DEFINE s == procs[p]
<1>0. JointInvariant'
  BY WorldModelKeeps
<1>1. s.pc \in {"assess", "assessing"} /\ UNCHANGED <<forecast, absence, seeds, flow, published>>
  BY DEF Assess, WorldModel, RecordAssessment, Is, ledger, cognition
<1>2. s \in ProcRow /\ s.pc # "off"
  BY <1>1, AtWork
<1>3. 0 \in 0..MaxExecs /\ {} \in SUBSET Targets /\ "absence" \in {"absence", "forecast"}
      /\ s.pc \in {"assess", "assessing", "posterior", "asking"}
  BY <1>1, PosteriorNumbers
<1>4. PICK c : c = [s EXCEPT !.tell = TRUE]
  OBVIOUS
<1>5. c \in ProcRow /\ c.w = s.w /\ c.seed = s.seed
  BY <1>2, <1>4 DEF ProcRow
<1>6. \/ Set(p, Writing(c, "absence", 0, {}))
      \/ Set(p, Writing(s, "absence", 0, {}))
      \/ Set(p, [s EXCEPT !.pc = "posterior", !.tell = TRUE])
      \/ Set(p, [s EXCEPT !.pc = "assessing"])
      \/ Set(p, End(s, "raised"))
  BY <1>4 DEF Assess, WorldModel, RecordAssessment, AfterWorldModel, CloseSeed, Goto
<1>7. CASE Set(p, Writing(c, "absence", 0, {})) \/ Set(p, Writing(s, "absence", 0, {}))
  BY <1>1, <1>2, <1>3, <1>5, <1>7, WriteCloses
<1>8. CASE Set(p, [s EXCEPT !.pc = "posterior", !.tell = TRUE])
  <2>1. PICK r : r = [s EXCEPT !.pc = "posterior", !.tell = TRUE]
    OBVIOUS
  <2>2. r.pc = "posterior" /\ r.w = s.w /\ r.mode = s.mode /\ r.known = s.known
    BY <1>2, <2>1 DEF ProcRow
  <2>3. QED
    BY <1>0, <1>1, <1>3, <1>8, <2>1, <2>2, StageCloses
<1>9. CASE Set(p, [s EXCEPT !.pc = "assessing"])
  <2>1. PICK r : r = [s EXCEPT !.pc = "assessing"]
    OBVIOUS
  <2>2. r.pc = "assessing" /\ r.w = s.w /\ r.mode = s.mode /\ r.known = s.known
    BY <1>2, <2>1 DEF ProcRow
  <2>3. QED
    BY <1>0, <1>1, <1>3, <1>9, <2>1, <2>2, StageCloses
<1>10. CASE Set(p, End(s, "raised"))
  BY <1>1, <1>2, <1>10, FailureCloses
<1>11. QED
  BY <1>6, <1>7, <1>8, <1>9, <1>10

\* An execution asks, or finds the answer that stands: one that stands for the
\* whole seed is told as it is.
LEMMA PosteriorCloses ==
    ASSUME JointInvariant, ClosingInvariant, NEW p \in Execs, Posterior(p)
    PROVE  ClosingInvariant'
<1>. DEFINE s == procs[p]
            F == Forecasted(s.seed)
            A == Absent(s.seed)
<1>0. JointInvariant'
  BY PosteriorKeeps
<1>1. s.pc = "posterior" /\ UNCHANGED <<forecast, absence, seeds, flow, published>>
  BY DEF Posterior, Is, ledger, cognition
<1>2. /\ s \in ProcRow /\ s.pc # "off" /\ s.seed = seeds[s.w] /\ s.seed \in SUBSET Targets
      /\ p \in Used
  BY <1>1, AtWork
<1>3. 0 \in 0..MaxExecs /\ {} \in SUBSET Targets /\ "absence" \in {"absence", "forecast"}
      /\ "forecast" \in {"absence", "forecast"}
      /\ s.pc \in {"assess", "assessing", "posterior", "asking"}
  BY <1>1, PosteriorNumbers
<1>4. s.mode = "absence" /\ published' \subseteq DOMAIN seeds
  BY <1>1, <1>2 DEF ClosingInvariant, ClosesInTurn
<1>5. \/ Set(p, End(s, "raised"))
      \/ F = s.seed /\ Set(p, End([s EXCEPT !.mode = "forecast"], "publish"))
      \/ A = s.seed /\ Set(p, End(s, "publish"))
      \/ F # {} /\ Set(p, Recover(s))
      \/ Set(p, NoEstimates(s))
      \/ Set(p, [s EXCEPT !.pc = "asking"])
  BY DEF Posterior
<1>6. ASSUME NEW c \in ProcRow, c.w = s.w, Set(p, End(c, "publish")),
             \A t \in s.seed : Stands(c.mode, t, forecast, absence)
      PROVE  ClosingInvariant'
  <2>1. PICK r \in ProcRow : r = End(c, "publish") /\ r.pc = "publish" /\ r.w = c.w
                             /\ r.mode = c.mode
    BY <1>6, EndRow
  <2>2. r.known = {}
    BY <2>1 DEF End, Off
  <2>3. ClosesInTurn(r, forecast, absence)
    BY <1>2, <1>6, <2>1, <2>2 DEF ClosesInTurn
  <2>4. QED
    BY <1>1, <1>2, <1>4, <1>6, <2>1, <2>3, ExecCloses
<1>7. CASE F = s.seed /\ Set(p, End([s EXCEPT !.mode = "forecast"], "publish"))
  <2>1. PICK c : c = [s EXCEPT !.mode = "forecast"]
    OBVIOUS
  <2>2. c \in ProcRow /\ c.w = s.w /\ c.mode = "forecast"
    BY <1>2, <2>1 DEF ProcRow
  <2>3. \A t \in s.seed : Stands(c.mode, t, forecast, absence)
    BY <1>7, <2>2 DEF Forecasted, Stands
  <2>4. QED
    BY <1>6, <1>7, <2>1, <2>2, <2>3
<1>8. CASE A = s.seed /\ Set(p, End(s, "publish"))
  <2>1. \A t \in s.seed : Stands(s.mode, t, forecast, absence)
    BY <1>4, <1>8 DEF Absent, Stands
  <2>2. QED
    BY <1>2, <1>6, <1>8, <2>1
<1>9. CASE Set(p, End(s, "raised"))
  BY <1>1, <1>2, <1>9, FailureCloses
<1>10. CASE Set(p, NoEstimates(s))
  BY <1>1, <1>2, <1>3, <1>10, WriteCloses DEF NoEstimates
<1>11. CASE Set(p, [s EXCEPT !.pc = "asking"])
  <2>1. PICK r : r = [s EXCEPT !.pc = "asking"]
    OBVIOUS
  <2>2. r.pc = "asking" /\ r.w = s.w /\ r.mode = s.mode /\ r.known = s.known
    BY <1>2, <2>1 DEF ProcRow
  <2>3. QED
    BY <1>0, <1>1, <1>3, <1>11, <2>1, <2>2, StageCloses
<1>12. CASE F # {} /\ Set(p, Recover(s))
  <2>1. F \in SUBSET Targets /\ \A t \in F : forecast[t] # 0
    BY <1>2 DEF Forecasted
  <2>2. PICK won : won = forecast[CHOOSE t \in F : \A u \in F : t <= u]
    OBVIOUS
  <2>3. (CHOOSE t \in F : \A u \in F : t <= u) \in F
    BY <1>12, <2>1, SeedHasFirst DEF FirstTarget
  <2>4. won \in 0..MaxExecs
    BY <2>1, <2>2, <2>3 DEF JointInvariant
  <2>5. Recover(s) = IF procs[won].w = s.w THEN Writing(s, "forecast", won, F)
                     ELSE End(s, "raised")
    BY <2>2 DEF Recover
  <2>6. CASE procs[won].w = s.w
    <3>1. Set(p, Writing(s, "forecast", won, F))
      BY <1>12, <2>5, <2>6
    <3>2. QED
      BY <1>1, <1>2, <1>3, <2>1, <2>4, <3>1, WriteCloses
  <2>7. CASE procs[won].w # s.w
    BY <1>1, <1>2, <1>12, <2>5, <2>7, FailureCloses
  <2>8. QED
    BY <2>6, <2>7
<1>13. QED
  BY <1>5, <1>7, <1>8, <1>9, <1>10, <1>11, <1>12

\* An execution has its answer, tells of it or dies.
LEMMA AnswerCloses ==
    ASSUME JointInvariant, ClosingInvariant, NEW p \in Execs, Answer(p) \/ Publish(p) \/ Die(p)
    PROVE  ClosingInvariant'
<1>. DEFINE s == procs[p]
<1>1. UNCHANGED <<forecast, absence, seeds, flow>> /\ s.pc # "off" /\ s \in ProcRow /\ p \in Used
  BY DEF Answer, Publish, Die, Is, ledger, JointInvariant, Used
<1>2. s.w \in DOMAIN seeds /\ published \subseteq DOMAIN seeds
  BY <1>1 DEF JointInvariant, ClosingInvariant, WorksOnSeed
<1>3. CASE Publish(p)
  <2>1. CASE Goto(p, "raised") /\ UNCHANGED published
    BY <1>1, <2>1, FailureCloses DEF Goto
  <2>2. CASE Goto(p, "done") /\ published' = published \cup {s.w}
    <3>1. \A t \in seeds[s.w] : Stands(s.mode, t, forecast, absence)
      BY <1>1, <1>3 DEF Publish, Is, ClosingInvariant, ClosesInTurn
    <3>2. PICK r \in ProcRow : r = End(s, "done") /\ r.pc = "done" /\ r.w = s.w
                               /\ r.mode = s.mode
      BY <1>1, EndRow
    <3>3. r.known = {}
      BY <3>2 DEF End, Off
    <3>4. ClosesInTurn(r, forecast, absence)
      BY <3>1, <3>2, <3>3 DEF ClosesInTurn
    <3>5. \A t \in seeds[s.w] : Terminal(t)
      BY <3>1 DEF Stands, Terminal
    <3>6. Set(p, r) /\ published' \subseteq DOMAIN seeds
          /\ \A w \in published' \ published : w = s.w
      BY <1>2, <2>2, <3>2 DEF Goto
    <3>7. QED
      BY <1>1, <3>2, <3>4, <3>5, <3>6, ExecCloses
  <2>3. QED
    BY <1>3, <2>1, <2>2 DEF Publish
<1>4. CASE Die(p)
  BY <1>1, <1>4, FailureCloses DEF Die, Goto, cognition
<1>5. CASE Answer(p)
  <2>1. s.pc \in {"assess", "assessing", "posterior", "asking"} /\ UNCHANGED published
    BY <1>5 DEF Answer, Is, cognition
  <2>2. /\ p \in 0..MaxExecs /\ 0 \in 0..MaxExecs /\ {} \in SUBSET Targets
        /\ {"absence", "forecast"} = {"forecast", "absence"}
    BY PosteriorNumbers
  <2>3. Set(p, Writing(s, "forecast", p, {})) \/ Set(p, Writing(s, "absence", 0, {}))
    BY <1>5 DEF Answer, CompleteForecasts, NoEstimates
  <2>4. QED
    BY <1>1, <2>1, <2>2, <2>3, WriteCloses
<1>6. QED
  BY <1>3, <1>4, <1>5

\* An execution passes a target only when its result stands there.
THEOREM ClosingInvariantHolds == PosteriorSpec => []ClosingInvariant
<1>1. PosteriorInit => ClosingInvariant
  <2>. SUFFICES ASSUME PosteriorInit PROVE ClosingInvariant
    OBVIOUS
  <2>1. Used = {}
    BY PosteriorNumbers DEF PosteriorInit, Used, Off
  <2>2. flow.pc = "none" /\ published = {}
    BY DEF PosteriorInit, NoFlow
  <2>3. absence \in [Targets -> 0..None]
    BY PosteriorNumbers DEF PosteriorInit, None
  <2>4. QED
    BY <2>1, <2>2, <2>3 DEF ClosingInvariant, PublishedAfterTerminal, ReportedAsRecorded
<1>2. JointInvariant /\ ClosingInvariant /\ [PosteriorNext]_posteriorVars => ClosingInvariant'
  <2>1. ClosingInvariant /\ (DeadlinePasses \/ UNCHANGED posteriorVars) => ClosingInvariant'
    <3>. SUFFICES ASSUME ClosingInvariant, DeadlinePasses \/ UNCHANGED posteriorVars
                  PROVE  ClosingInvariant'
      OBVIOUS
    <3>1. UNCHANGED <<forecast, absence, procs, flow, seeds, published>>
      BY DEF DeadlinePasses, posteriorVars, ledger, cognition
    <3>2. QED
      BY <3>1 DEF ClosingInvariant, Used, ClosesInTurn, Stands, PublishedAfterTerminal,
                  ReportedAsRecorded, Terminal, None
  <2>2. JointInvariant /\ ClosingInvariant /\ PosteriorNext => ClosingInvariant'
    BY <2>1, BuilderStepsClose, FlowCloses, CheckCloses, InsertCloses, WorldModelCloses,
       PosteriorCloses, AnswerCloses DEF PosteriorNext, ExecStep
  <2>3. QED
    BY <2>1, <2>2
<1>3. QED
  BY <1>1, <1>2, JointInvariantHolds, PTL DEF PosteriorSpec

\* Downstream capital is told of a world model only when every target of its seed has
\* its result, whichever execution told it (posterior_execution.py).
THEOREM ToldAfterTerminal == PosteriorSpec => []PublishedAfterTerminal
BY ClosingInvariantHolds, PTL DEF ClosingInvariant

\* What the workflow reports stands in the ledger for its whole seed
\* (posterior_workflow.py), however many executions were given up.
THEOREM ReportsAreRecorded == PosteriorSpec => []ReportedAsRecorded
BY ClosingInvariantHolds, PTL DEF ClosingInvariant
=============================================================================
