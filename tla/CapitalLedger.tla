----------------------------- MODULE CapitalLedger -----------------------------
(* The append-only ledgers one capital cycle reads and writes: forecast     *)
(* panels, account snapshots with their performance intervals, targets,     *)
(* risk decisions, holding reviews, trade plans, execution groups and       *)
(* receipts (portfolio, risk and execution repositories).                   *)
(*                                                                          *)
(* One portfolio with one sleeve of at most one unit.  A batch is its       *)
(* created_at, which is also its cause; a panel is its cutoff's rank.  An   *)
(* execution group is what GroupOutcome promises: open, then ended hedged   *)
(* with its trade done, or flat with nothing changed.                       *)
EXTENDS Integers, Sequences, FiniteSetsExt

CONSTANTS
    MaxPanel,     \* bound: forecast panels
    PanelLife,    \* time a panel may be decided on
    MaxTime,      \* bound: last created_at of a batch
    MaxAdvances   \* bound: run_once calls that leave a group open

ASSUME LedgerAssumption == {MaxPanel, PanelLife, MaxTime, MaxAdvances} \subseteq Nat \ {0}

VARIABLES
    published,  \* available_at of each panel, or NoTime
    accounts,   \* account snapshots by revision, each with its holding review
    measured,   \* the snapshot up to which performance intervals exist
    targets,    \* PortfolioTarget of each cycle
    approved,   \* what Risk approved of the target of each cycle
    plans,      \* TradePlan of each cycle
    groups,     \* execution group of each cycle's plan
    exposure,   \* what the ended groups bought in all
    receipts    \* CapitalCycleRecord of each cause

chainVars == <<targets, approved, plans>>
venueVars == <<groups, exposure>>
ledgerVars == <<published, accounts, measured, chainVars, venueVars, receipts>>

Time == 0 .. MaxTime
NoTime == -1
Panels == 1 .. MaxPanel

\* A cycle id names its forecasts, or the instant of an observation.
PanelCycle(p) == <<"panel", p>>
WatchCycle(t) == <<"watch", t>>
NoCycle == <<"none", 0>>
PanelCycles == {PanelCycle(p) : p \in Panels}
Cycles == PanelCycles \cup {WatchCycle(t) : t \in Time}

NoTarget == [asOf |-> NoTime, account |-> 0, desired |-> 0]
Undecided == -1
NoPlan == [by |-> "NONE", account |-> 0, trade |-> 0]
NoGroup == [status |-> "NONE", advances |-> 0, started |-> NoTime, updated |-> NoTime]
NoReceipt == [outcome |-> "NONE", target |-> NoCycle, account |-> 0]

LedgerInit ==
    /\ published = [p \in Panels |-> NoTime]
    /\ accounts = <<>> /\ measured = 1
    /\ targets = [c \in Cycles |-> NoTarget]
    /\ approved = [c \in Cycles |-> Undecided]
    /\ plans = [c \in Cycles |-> NoPlan]
    /\ groups = [c \in Cycles |-> NoGroup] /\ exposure = 0
    /\ receipts = [t \in Time |-> NoReceipt]

AccountRecord == [asOf     : Time,
                  position : Int,
                  pending  : BOOLEAN,
                  of       : Cycles \cup {NoCycle},  \* plan it follows, if any
                  advances : 0 .. MaxAdvances + 1,   \* and the group value then
                  review   : {"NONE", "DEFER", "HOLD", "EXIT"}]
Outcomes == {"NONE", "RISK_EXIT", "TARGET_DECIDED", "FORECAST_ALREADY_DECIDED", "HOLD", "CASH"}

LedgerTypeOK ==
    /\ published \in [Panels -> Time \cup {NoTime, MaxTime + 1}]
    /\ accounts \in Seq(AccountRecord)
    /\ measured \in Nat
    /\ targets \in [Cycles -> [asOf : Time \cup {NoTime}, account : Nat, desired : {0, 1}]]
    /\ approved \in [Cycles -> {Undecided, 0, 1}]
    /\ plans \in [Cycles -> [by : {"NONE", "target", "review"}, account : Nat, trade : Int]]
    /\ groups \in [Cycles -> [status   : {"NONE", "OPEN", "HEDGED", "FLAT"},
                              advances : 0 .. MaxAdvances + 1,
                              started  : Time \cup {NoTime},
                              updated  : Time \cup {NoTime}]]
    /\ exposure \in Int
    /\ receipts \in [Time -> [outcome : Outcomes, target : Cycles \cup {NoCycle}, account : Nat]]

-----------------------------------------------------------------------------
(* Forecast panels.                                                         *)

\* active_base_for_binding: available and not yet past valid_until.
ActivePanels(t) ==
    {p \in Panels : /\ published[p] # NoTime
                    /\ published[p] <= t
                    /\ t < published[p] + PanelLife}

\* The newest common cutoff; 0 without one.
NewestPanel(t) == Max(ActivePanels(t) \cup {0})

\* A panel's transaction may commit after a batch was created whose as_of
\* its available_at does not exceed.
PublishAt(p, at) ==
    /\ published[p] = NoTime
    /\ p > 1 => published[p - 1] # NoTime /\ published[p - 1] <= at
    /\ published' = [published EXCEPT ![p] = at]
    /\ UNCHANGED <<accounts, measured, chainVars, venueVars, receipts>>

-----------------------------------------------------------------------------
(* Accounts.                                                                *)

HeadAccount == Len(accounts)

\* latest_account: the last snapshot not after t; 0 without one.
LatestAccount(t) ==
    LET Visible == {i \in 1 .. HeadAccount : accounts[i].asOf <= t}
    IN  IF Visible = {} THEN 0
        ELSE CHOOSE i \in Visible : \A j \in Visible :
                 \/ accounts[j].asOf < accounts[i].asOf
                 \/ accounts[j].asOf = accounts[i].asOf /\ j <= i

Position(i) == IF i = 0 THEN 0 ELSE accounts[i].position

\* Open groups visible at t.
OpenAt(t) == {c \in Cycles : groups[c].status = "OPEN" /\ groups[c].started <= t}
PendingAt(t) ==
    {c \in Cycles : /\ groups[c].status # "NONE" /\ groups[c].started <= t
                    /\ (groups[c].status = "OPEN" \/ groups[c].updated > t)}

\* project: an open group may have traded any part of its plan.  A position
\* against the direction of its sleeve is no SleevePosition.
Projections(t, c) ==
    {[asOf     |-> t,
      position |-> held,
      pending  |-> PendingAt(t) # {},
      of       |-> c,
      advances |-> IF c = NoCycle THEN 0 ELSE groups[c].advances,
      review   |-> "NONE"] :
        held \in {exposure} \cup {exposure + plans[g].trade : g \in OpenAt(t)}}

\* account_for_cycle of an execution account: plan cycle, instant and the
\* content of the groups.
ExecutionAccounts(c, t) ==
    {i \in 1 .. HeadAccount : /\ accounts[i].of = c /\ accounts[i].asOf = t
                              /\ accounts[i].advances = groups[c].advances}

\* Mutant: no interval is recorded.
MeasuredByNone(i) == measured

\* SqlPortfolioPerformanceStore.record fills the gap up to snapshot i, which
\* must be the latest; revision 0 begins no interval.
Measurable(i) == i <= measured \/ i = LatestAccount(MaxTime)
MeasuredBy(i) == IF i <= measured THEN measured ELSE i

-----------------------------------------------------------------------------
(* The decision chain of a cycle.                                           *)

\* Rows exist for every stage; a plan without a trade has no group.
Complete(c) ==
    /\ targets[c] # NoTarget
    /\ approved[c] # Undecided
    /\ plans[c] # NoPlan
    /\ plans[c].trade # 0 => groups[c].status # "NONE"

Disposed(c) == Complete(c) /\ groups[c].status # "OPEN"

\* The stored result of a complete chain can be returned as it is.
Settled(c) == plans[c].trade = 0 \/ ExecutionAccounts(c, targets[c].asOf) # {}

\* run_once on an open group: it stays open, or ends hedged or flat.
Advance(c, t) ==
    \E status \in {"OPEN", "HEDGED", "FLAT"} :
        /\ status = "OPEN" => groups[c].advances < MaxAdvances
        /\ groups' = [groups EXCEPT ![c].status = status,
                                    ![c].advances = @ + 1,
                                    ![c].updated = t]
        /\ exposure' = IF status = "HEDGED" THEN exposure + plans[c].trade ELSE exposure
=============================================================================
