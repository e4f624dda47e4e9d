---------------------------- MODULE CodexRouter ----------------------------
(***************************************************************************)
(* The router that gives an analysis to one of several Codex accounts:     *)
(* forecast/codex/router.py with the lease and audit tables of             *)
(* forecast/codex/repository.py.                                           *)
(*                                                                         *)
(* Each router (one per role and worker process) keeps its own view of the *)
(* accounts in memory; leases and the audit of attempts are rows of the    *)
(* one database.  An execution lasts at most Timeout; probes and the steps *)
(* between them may take any time.  Left open: whether a capacity snapshot *)
(* is still young enough to be reused, how far ahead a limit window resets *)
(* and how the accounts fit to be chosen are ranked.                       *)
(***************************************************************************)
EXTENDS Integers, FiniteSets

CONSTANTS Routers,       \* the routers at work on one database
          Accounts,      \* the enabled accounts of the registry
          MaxTries,      \* 1 + max_account_switches
          LeaseTtl,      \* lease_ttl_seconds
          Timeout,       \* timeout_seconds of one execution
          Cooldown,      \* transient_failure_cooldown_seconds
          Resets,        \* how far ahead a limit window may reset
          MaxClock,      \* bound of the clock
          MaxRuns        \* bound of the runs of each router

ASSUME CodexAssumption ==
    /\ {MaxTries, Timeout, Cooldown} \cup Resets \subseteq Nat \ {0}
    /\ {LeaseTtl, MaxClock, MaxRuns} \subseteq Nat /\ LeaseTtl > Timeout

VARIABLES clock,    \* the time of day
          leases,   \* account -> its ACTIVE lease row, or NoLease
          audit,    \* account -> its latest audited attempt
          mem,      \* router -> account -> what the router believes
          run,      \* router -> the run it is in
          runs      \* router -> runs begun (a bound, not code)

routerVars == <<clock, leases, audit, mem, run, runs>>

Never   == -1
NoLease == [by |-> "nobody", attempt |-> 0, expires |-> Never]
NoAudit == [observed |-> Never, failed |-> Never]
Unknown == [state |-> "UNKNOWN", until |-> Never]
NoAccount == "no account"
Idle    == [pc |-> "idle", now |-> Never, tried |-> {}, attempt |-> 0,
            account |-> NoAccount, expires |-> Never, since |-> Never]

Transient == {"UPSTREAM", "CRASH"}          \* CRASH: also TIMEOUT
Failover  == {"RATE_LIMIT", "AUTH", "UPSTREAM"}
Outcomes  == {"none", "RATE_LIMIT", "AUTH", "UPSTREAM", "CRASH", "OTHER"}

LeaseRow == [by : Routers \cup {"nobody"}, attempt : 0..MaxTries,
             expires : Never..(MaxClock + LeaseTtl)]
AuditRow == [observed : Never..MaxClock, failed : Never..MaxClock]
Belief   == [state : {"UNKNOWN", "HEALTHY", "LEASED", "COOLDOWN", "AUTH_FAILED"},
             until : Int]
RunState == [pc : {"idle", "selecting", "chosen", "executing"},
             now : Never..MaxClock, tried : SUBSET Accounts, attempt : 0..MaxTries,
             account : Accounts \cup {NoAccount},
             expires : Never..(MaxClock + LeaseTtl), since : Never..MaxClock]

RouterTypeOK ==
    /\ clock \in 0..MaxClock
    /\ leases \in [Accounts -> LeaseRow]
    /\ audit \in [Accounts -> AuditRow]
    /\ mem \in [Routers -> [Accounts -> Belief]]
    /\ run \in [Routers -> RunState]
    /\ runs \in [Routers -> 0..MaxRuns]
    /\ \A r \in Routers :
         /\ run[r].pc \in {"chosen", "executing"} => run[r].account \in Accounts
         /\ run[r].pc # "idle" => run[r].now \in 0..clock

RouterInit ==
    /\ clock = 0
    /\ leases = [a \in Accounts |-> NoLease]
    /\ audit = [a \in Accounts |-> NoAudit]
    /\ mem = [r \in Routers |-> [a \in Accounts |-> Unknown]]
    /\ run = [r \in Routers |-> Idle]
    /\ runs = [r \in Routers |-> 0]

-----------------------------------------------------------------------------
(* Capacity refresh, at the start of a run.                                *)

\* What a probe that answers may make of an account: capacity, or none.
Probed(m) ==
    {[m EXCEPT !.state = "HEALTHY", !.until = Never]} \cup
    {[m EXCEPT !.state = "COOLDOWN", !.until = clock + d] : d \in Resets}

\* The audited cooldown of an account, as every router reads it back.
AuditedCooldown(a) ==
    IF audit[a].failed = Never THEN Never ELSE audit[a].failed + Cooldown

\* Mutant of Refreshed: believes the memory of its own process alone.
RefreshedFromMemory(m, a) ==
    IF m.state = "AUTH_FAILED" \/ m.until > clock THEN {m}
    ELSE {[m EXCEPT !.until = Never]} \cup Probed(m)

\* The states the refresh may leave an account in.
Refreshed(m, a) ==
    IF m.state = "AUTH_FAILED" THEN {m}
    ELSE IF AuditedCooldown(a) > clock
         THEN {[m EXCEPT !.state = "COOLDOWN", !.until = AuditedCooldown(a)]}
    ELSE IF m.until > clock THEN {m}
    ELSE {[m EXCEPT !.until = Never]} \cup Probed(m)   \* kept, or read anew

\* A run begins: its time is read once and used to the end.
StartRun(r) ==
    /\ run[r].pc = "idle"
    /\ runs[r] < MaxRuns
    /\ runs' = [runs EXCEPT ![r] = @ + 1]
    /\ \E view \in [Accounts -> UNION {Refreshed(mem[r][a], a) : a \in Accounts}] :
         /\ \A a \in Accounts : view[a] \in Refreshed(mem[r][a], a)
         /\ mem' = [mem EXCEPT ![r] = view]
    /\ run' = [run EXCEPT ![r] = [Idle EXCEPT !.pc = "selecting", !.now = clock]]
    /\ UNCHANGED <<clock, leases, audit>>

-----------------------------------------------------------------------------
(* Choice of an account and its lease.                                     *)

Considered(r) ==
    {a \in Accounts \ run[r].tried : mem[r][a].state = "HEALTHY"}

\* has_active compares with the time of the run, not the time of day.
Swept(r) ==
    [a \in Accounts |->
        IF a \in Considered(r) /\ leases[a].expires <= run[r].now
        THEN NoLease ELSE leases[a]]

Eligible(r) == {a \in Considered(r) : Swept(r)[a] = NoLease}

Select(r) ==
    /\ run[r].pc = "selecting"
    /\ run[r].attempt < MaxTries
    /\ leases' = Swept(r)
    /\ \E a \in Eligible(r) :
         run' = [run EXCEPT ![r].pc = "chosen", ![r].account = a,
                            ![r].tried = @ \cup {a}, ![r].attempt = @ + 1]
    /\ UNCHANGED <<clock, audit, mem, runs>>

\* No account is left, or no attempt.
Unavailable(r) ==
    /\ run[r].pc = "selecting"
    /\ \/ run[r].attempt = MaxTries
          /\ UNCHANGED leases
       \/ run[r].attempt < MaxTries
          /\ Eligible(r) = {}
          /\ leases' = Swept(r)
    /\ run' = [run EXCEPT ![r] = Idle]
    /\ UNCHANGED <<clock, audit, mem, runs>>

\* The unique index lets one ACTIVE row stand; expired ones make way.  The
\* term of the lease counts from the start of the run.
Acquire(r) ==
    LET a    == run[r].account
        free == leases[a].expires <= clock
        mine == [by |-> r, attempt |-> run[r].attempt,
                 expires |-> run[r].now + LeaseTtl]
    IN  /\ run[r].pc = "chosen"
        /\ \/ /\ free
              /\ leases' = [leases EXCEPT ![a] = mine]
              /\ mem' = [mem EXCEPT ![r][a].state = "LEASED"]
              /\ run' = [run EXCEPT ![r].pc = "executing", ![r].since = clock,
                                    ![r].expires = mine.expires]
           \/ /\ ~free
              /\ run' = [run EXCEPT ![r].pc = "selecting", ![r].account = NoAccount]
              /\ UNCHANGED <<leases, mem>>
        /\ UNCHANGED <<clock, audit, runs>>

-----------------------------------------------------------------------------
(* The end of an execution.                                                *)

MyLease(r) == [by |-> r, attempt |-> run[r].attempt, expires |-> run[r].expires]

\* Mutant of Released: releases whatever lease stands on the account.
ReleasedOfAccount(r) == [leases EXCEPT ![run[r].account] = NoLease]

\* A lease is released by its own id, whoever holds the account by now.
Released(r) ==
    [a \in Accounts |-> IF leases[a] = MyLease(r) THEN NoLease ELSE leases[a]]

\* What a failure does to the account in the memory of its router.
AfterFailure(m, failure) ==
    CASE failure = "AUTH" -> {[m EXCEPT !.state = "AUTH_FAILED"]}
      [] failure = "RATE_LIMIT" ->
            {[m EXCEPT !.state = "COOLDOWN", !.until = clock + d] : d \in Resets}
      [] failure \in Transient ->
            {[m EXCEPT !.state = "COOLDOWN", !.until = clock + Cooldown]}
      [] OTHER -> {[m EXCEPT !.state = "HEALTHY"]}

\* The latest attempt of an account is the one observed last; of its end
\* only the time of a transient failure is ever read back.
Audited(r, failure) ==
    LET a   == run[r].account
        row == [observed |-> run[r].since,
                failed |-> IF failure \in Transient THEN clock ELSE Never]
    IN  IF row.observed < audit[a].observed THEN {audit}
        ELSE {[audit EXCEPT ![a] = row]}
             \cup (IF row.observed = audit[a].observed THEN {audit} ELSE {})

Finish(r, outcome) ==
    LET a == run[r].account IN
    /\ run[r].pc = "executing"
    /\ leases' = Released(r)
    /\ audit' \in Audited(r, outcome)
    /\ \E m \in AfterFailure(mem[r][a], outcome) :
         mem' = [mem EXCEPT ![r][a] = m]
    /\ run' = [run EXCEPT ![r] =
                 IF outcome \in Failover
                 THEN [@ EXCEPT !.pc = "selecting", !.account = NoAccount,
                                !.expires = Never, !.since = Never]
                 ELSE Idle]
    /\ UNCHANGED <<clock, runs>>

\* The execution raises, or its audit row cannot be written: the run ends
\* and the account stays LEASED in memory until a probe says otherwise.
FinishUnrecorded(r) ==
    /\ run[r].pc = "executing"
    /\ leases' = Released(r)
    /\ run' = [run EXCEPT ![r] = Idle]
    /\ UNCHANGED <<clock, audit, mem, runs>>

\* The process of a router dies; its lease rows stay.
Crash(r) ==
    /\ mem' = [mem EXCEPT ![r] = [a \in Accounts |-> Unknown]]
    /\ run' = [run EXCEPT ![r] = Idle]
    /\ UNCHANGED <<clock, leases, audit, runs>>

Tick ==
    /\ clock < MaxClock
    /\ \A r \in Routers :
         run[r].pc = "executing" => clock < run[r].since + Timeout
    /\ clock' = clock + 1
    /\ UNCHANGED <<leases, audit, mem, run, runs>>

RouterStep(r) ==
    \/ StartRun(r)
    \/ Select(r)
    \/ Unavailable(r)
    \/ Acquire(r)
    \/ \E outcome \in Outcomes : Finish(r, outcome)
    \/ FinishUnrecorded(r)
    \/ Crash(r)

RouterNext == Tick \/ \E r \in Routers : RouterStep(r)

RouterSpec == RouterInit /\ [][RouterNext]_routerVars

-----------------------------------------------------------------------------
Executing(r, a) == run[r].pc = "executing" /\ run[r].account = a

\* For as long as its lease lasts an execution holds its account: no sweep
\* by a run with an older clock, and no late release by the router whose
\* lease ran out before, takes the row away from it.
LeaseHolds ==
    \A r \in Routers, a \in Accounts :
        Executing(r, a) /\ clock < run[r].expires => leases[a] = MyLease(r)

\* An account whose newest audited attempt failed transiently is left alone
\* for its cooldown by every run that starts after it, whichever router ran
\* it and whether or not that router has restarted since.
CooldownIsShared ==
    \A r \in Routers, a \in Accounts :
        Executing(r, a) /\ audit[a].failed < run[r].now
            => AuditedCooldown(a) <= run[r].now

\* What makes CooldownIsShared inductive: the choice of a run is among accounts
\* that were fit when it began, and what has failed since is later than its time.
ChoiceIsFit ==
    \A r \in Routers, a \in Accounts :
        /\ run[r].pc # "idle"
        /\ \/ mem[r][a].state = "HEALTHY"
           \/ run[r].pc \in {"chosen", "executing"} /\ run[r].account = a
        /\ audit[a].failed < run[r].now
        => AuditedCooldown(a) <= run[r].now

RouterInvariant == RouterTypeOK /\ LeaseHolds /\ ChoiceIsFit

\* What OPERATIONS.md promises of the leases: one execution per account.
OneExecutionPerAccount ==
    \A r, s \in Routers, a \in Accounts :
        Executing(r, a) /\ Executing(s, a) => r = s
=============================================================================
