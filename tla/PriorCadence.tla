---------------------------- MODULE PriorCadence ----------------------------
(***************************************************************************)
(* The cadence of the prior forecasts and the settlement of their slots:   *)
(*   forecast/program/prior.py        the rolling prior producer           *)
(*   forecast/contract_repository.py  slots and obligations                *)
(*   forecast/settlement.py, forecast/repository.py  the outcomes          *)
(*   governance/evaluation/outcome_service.py        the settlement loop   *)
(*                                                                         *)
(* Time is counted in cadence periods, slot s standing at time s.  A batch *)
(* may come at any time, stop anywhere and be tried again.  Quotes observed *)
(* before a boundary reach the database in their own time: facts[b] is how *)
(* many of them are there, the last one being the one a reader takes.      *)
(***************************************************************************)
EXTENDS Naturals, FiniteSets

CONSTANTS Contracts,    \* contracts of the artifact, 1..n in contract order
          First,        \* the first boundary after the joint activation
          Deadline,     \* completion deadline, after the boundary
          Horizon,      \* evaluation, after the boundary
          Grace,        \* settlement grace
          BatchSize,    \* slots a settlement takes at once
          MaxQuotes,    \* bound of the quotes about one boundary
          MaxTime       \* bound of the time

ASSUME CadenceAssumption ==
    /\ Contracts = 1..Cardinality(Contracts)
    /\ IsFiniteSet(Contracts) /\ Contracts # {}
    /\ {First, Horizon, BatchSize} \subseteq Nat \ {0}
    /\ {Deadline, Grace, MaxQuotes, MaxTime} \subseteq Nat
    /\ Deadline < Horizon

VARIABLES now,
          facts,      \* boundary -> quotes that reached the database
          slot,       \* slot -> contract -> its cutoff quote, or NoSlot
          result,     \* slot -> contract -> its result
          outcome,    \* slot -> contract -> its outcome
          producer,   \* the batch in progress
          settler     \* the settlement in progress

cadenceVars == <<now, facts, slot, result, outcome, producer, settler>>

Times  == 0..MaxTime
Slots  == First..MaxTime
NoSlot == MaxQuotes + 1
NoResult  == [kind |-> "none", counted |-> {}]
NoOutcome == [status |-> "none", at |-> 0]
Resting   == [pc |-> "rest", last |-> 0, at |-> 0, contract |-> 1]
Asleep    == [pc |-> "rest", asof |-> 0, todo |-> {}]

ResultRow  == [kind : {"none", "forecast", "missed", "invalid"}, counted : SUBSET Slots]
OutcomeRow == [status : {"none", "SETTLED", "UNAVAILABLE"}, at : Times]

CadenceTypeOK ==
    /\ now \in Times
    /\ facts \in [Slots -> 0..MaxQuotes]
    /\ slot \in [Slots -> [Contracts -> 0..NoSlot]]
    /\ result \in [Slots -> [Contracts -> ResultRow]]
    /\ outcome \in [Slots -> [Contracts -> OutcomeRow]]
    /\ producer \in [pc : {"rest", "slot", "judge", "conflict"},
                     last : Times, at : Times, contract : Contracts]
    /\ settler \in [pc : {"rest", "work"}, asof : 0..now,
                    todo : SUBSET (Slots \X Contracts)]

CadenceInit ==
    /\ now = 0
    /\ facts = [b \in Slots |-> 0]
    /\ slot = [s \in Slots |-> [c \in Contracts |-> NoSlot]]
    /\ result = [s \in Slots |-> [c \in Contracts |-> NoResult]]
    /\ outcome = [s \in Slots |-> [c \in Contracts |-> NoOutcome]]
    /\ producer = Resting
    /\ settler = Asleep

Least(S)   == CHOOSE x \in S : \A y \in S : x <= y
Latest(S)  == CHOOSE x \in S : \A y \in S : y <= x

-----------------------------------------------------------------------------
(* The producer: every due slot, every contract.                           *)

Obligated(c) == {s \in Slots : slot[s][c] # NoSlot}

\* Mutant of Due: starts behind the latest slot that any contract has.
DueOfAny ==
    LET all == UNION {Obligated(c) : c \in Contracts}
    IN  {s \in Slots : (IF all = {} THEN First ELSE Latest(all) + 1) <= s /\ s <= now}

\* The slots due: from the latest one every contract has an obligation for,
\* that one included, to the last boundary past.
Due ==
    LET start == IF \E c \in Contracts : Obligated(c) = {} THEN First
                 ELSE Least({Latest(Obligated(c)) : c \in Contracts})
    IN  {s \in Slots : start <= s /\ s <= now}

StartBatch ==
    /\ producer.pc \in {"rest", "conflict"}
    /\ Due # {}
    /\ producer' = [pc |-> "slot", last |-> Latest(Due), at |-> Least(Due),
                    contract |-> 1]
    /\ UNCHANGED <<now, facts, slot, result, outcome, settler>>

NextTarget ==
    IF producer.contract < Cardinality(Contracts)
    THEN [producer EXCEPT !.pc = "slot", !.contract = @ + 1]
    ELSE IF producer.at < producer.last
    THEN [producer EXCEPT !.pc = "slot", !.contract = 1, !.at = @ + 1]
    ELSE Resting

\* A result that stands is taken as it is.  Otherwise the slot is recorded
\* with its obligation; one recorded before must have the same content.
RecordSlot ==
    LET s == producer.at
        c == producer.contract
    IN  /\ producer.pc = "slot"
        /\ IF result[s][c] # NoResult
           THEN producer' = NextTarget /\ UNCHANGED slot
           ELSE IF slot[s][c] \in {NoSlot, facts[s]}
           THEN /\ slot' = [slot EXCEPT ![s][c] = facts[s]]
                /\ producer' = [producer EXCEPT !.pc = "judge"]
           ELSE /\ producer' = [producer EXCEPT !.pc = "conflict"]
                /\ UNCHANGED slot
        /\ UNCHANGED <<now, facts, result, outcome, settler>>

\* The outcomes of the contract that were settled by the boundary.
Visible(s, c) ==
    {p \in Slots : outcome[p][c].status = "SETTLED" /\ outcome[p][c].at <= s}

\* Deadline, cutoff quote, entry quote (there or not), then the counts.
Judge ==
    LET s == producer.at
        c == producer.contract
        kinds == IF now > s + Deadline THEN {"missed"}
                 ELSE IF slot[s][c] = 0 THEN {"invalid"}
                 ELSE {"forecast", "invalid"}
    IN  /\ producer.pc = "judge"
        /\ \E k \in kinds :
             result' = [result EXCEPT ![s][c] =
                [kind |-> k,
                 counted |-> IF k = "forecast" THEN Visible(s, c) ELSE {}]]
        /\ producer' = NextTarget
        /\ UNCHANGED <<now, facts, slot, outcome, settler>>

BatchStops ==
    /\ producer.pc \in {"slot", "judge"}
    /\ producer' = Resting
    /\ UNCHANGED <<now, facts, slot, result, outcome, settler>>

-----------------------------------------------------------------------------
(* The settlement loop.                                                    *)

\* What is due and has no outcome, oldest first; keys order the ties.
Pending ==
    {k \in Slots \X Contracts :
        /\ slot[k[1]][k[2]] # NoSlot
        /\ outcome[k[1]][k[2]] = NoOutcome
        /\ k[1] + Horizon <= now}

Before(j, k) == j[1] < k[1] \/ (j[1] = k[1] /\ j[2] <= k[2])

StartSettling ==
    /\ settler.pc = "rest"
    /\ Pending # {}
    /\ settler' = [pc |-> "work", asof |-> now,
                   todo |-> {k \in Pending :
                     Cardinality({j \in Pending : Before(j, k)}) <= BatchSize}]
    /\ UNCHANGED <<now, facts, slot, result, outcome, producer>>

\* The payoff of a slot has its cutoff price and its exit quote.
Complete(s, c) == slot[s][c] # 0 /\ facts[s + Horizon] # 0

RecordOutcome(s, c, status) ==
    outcome' = [outcome EXCEPT ![s][c] = [status |-> status, at |-> settler.asof]]

\* One slot of the batch: settled when its payoff is complete, unavailable
\* when it still is not after the grace.
SettleOne ==
    LET k == CHOOSE j \in settler.todo : \A i \in settler.todo : Before(j, i)
        s == k[1]
        c == k[2]
        rest == settler.todo \ {k}
    IN  /\ settler.pc = "work"
        /\ IF Complete(s, c) THEN RecordOutcome(s, c, "SETTLED")
           ELSE IF settler.asof < s + Horizon + Grace THEN UNCHANGED outcome
           ELSE RecordOutcome(s, c, "UNAVAILABLE")
        /\ settler' = IF rest = {} THEN Asleep ELSE [settler EXCEPT !.todo = rest]
        /\ UNCHANGED <<now, facts, slot, result, producer>>

SettlerStops ==
    /\ settler.pc = "work"
    /\ settler' = Asleep
    /\ UNCHANGED <<now, facts, slot, result, outcome, producer>>

-----------------------------------------------------------------------------
Passes ==
    /\ now < MaxTime
    /\ now' = now + 1
    /\ UNCHANGED <<facts, slot, result, outcome, producer, settler>>

QuoteArrives ==
    /\ \E b \in Slots :
         /\ b <= now /\ facts[b] < MaxQuotes
         /\ facts' = [facts EXCEPT ![b] = @ + 1]
    /\ UNCHANGED <<now, slot, result, outcome, producer, settler>>

CadenceNext ==
    \/ StartBatch \/ RecordSlot \/ Judge \/ BatchStops
    \/ StartSettling \/ SettleOne \/ SettlerStops
    \/ Passes \/ QuoteArrives

CadenceSpec == CadenceInit /\ [][CadenceNext]_cadenceVars

-----------------------------------------------------------------------------
\* OPERATIONS.md: recovery takes up every slot due since the activation, not
\* only the latest one: wherever batches stop and however long none comes,
\* the obligations of a contract have no gap.
NoSlotSkipped ==
    \A c \in Contracts, s \in Slots :
        s \in Obligated(c) => First..s \subseteq Obligated(c)

\* A prior reads no outcome that its boundary did not know, and no outcome
\* it counted is later taken back or changed.
PriorsReadThePast ==
    \A s \in Slots, c \in Contracts : \A p \in result[s][c].counted :
        /\ p + Horizon <= s
        /\ outcome[p][c].status = "SETTLED" /\ outcome[p][c].at <= s

\* What the settlement declares unavailable had its grace; what it settles
\* rests on a price at both ends.
UnavailableHadItsGrace ==
    \A s \in Slots, c \in Contracts :
        outcome[s][c].status = "UNAVAILABLE" =>
            outcome[s][c].at >= s + Horizon + Grace

\* What makes NoSlotSkipped inductive: the batch in progress has nothing left
\* behind it, and what has a result has its obligation.
NothingLeftBehind ==
    producer.pc \in {"slot", "judge"} =>
        /\ First <= producer.at /\ producer.at <= producer.last
        /\ \A c \in Contracts :
             /\ First..(producer.at - 1) \subseteq Obligated(c)
             /\ c < producer.contract => producer.at \in Obligated(c)
        /\ producer.pc = "judge" => producer.at \in Obligated(producer.contract)

ResultsHaveSlots ==
    \A s \in Slots, c \in Contracts : result[s][c] # NoResult => s \in Obligated(c)

\* The settlement in progress works on what is still open and was due by its time,
\* and so was what it has settled.
SettlesTheDue ==
    /\ settler.pc = "work" =>
         /\ settler.todo # {}
         /\ \A k \in settler.todo : /\ k[1] + Horizon <= settler.asof
                                    /\ outcome[k[1]][k[2]] = NoOutcome
    /\ \A s \in Slots, c \in Contracts :
         outcome[s][c] # NoOutcome => /\ outcome[s][c].status # "none"
                                      /\ s + Horizon <= outcome[s][c].at

CadenceInvariant ==
    /\ CadenceTypeOK /\ NoSlotSkipped /\ NothingLeftBehind /\ ResultsHaveSlots
    /\ SettlesTheDue /\ PriorsReadThePast /\ UnavailableHadItsGrace

\* OPERATIONS.md: recovery rebuilds the same result of the same slot: it
\* never finds its own slot in the way.
RecoveryRebuildsTheSlot == producer.pc # "conflict"
=============================================================================
