--------------------------- MODULE CapitalIncrement ---------------------------
(***************************************************************************)
(* The capital value of a forecasting behaviour, replayed from the records *)
(* of governance/evaluation:                                               *)
(*   logical_account.py    panels of answers, and the logical account      *)
(*   producer_capital.py   the replay of a producer's panels on it         *)
(*   capital_increment.py  the candidate against its comparator, and with  *)
(*                         and without its event panels, each cached       *)
(*                                                                         *)
(* The candidate is the posterior and the comparator the prior it refers   *)
(* to; each keeps one behaviour.  The shared capital algorithm is taken at *)
(* its simplest: what is forecast to pay is held, until a newer answer or  *)
(* the end of the forecast it was bought on.  Prices are left out: a path  *)
(* is the panels it took, the fundings it was charged and what it holds.   *)
(***************************************************************************)
EXTENDS Integers, FiniteSets, Sequences, Functions

CONSTANTS Slots,       \* decision slots
          SlotAt,      \* slot -> its time
          Stratum,     \* slot -> "cadence" or "material"
          Contracts,   \* slot -> the contracts forecast in it
          Lag,         \* time in which a slot may be forecast
          Horizon,     \* of a forecast, from the time of its slot
          FundingAt,   \* times of the fundings
          Outlooks,    \* what a forecast may say, of "buy" and "pass"
          MaxGaps,     \* bound of the times without a quote
          LastInstant  \* bound of the time

ASSUME IncrementAssumption ==
    /\ Slots \subseteq Nat /\ IsFiniteSet(Slots)
    /\ SlotAt \in [Slots -> Nat]
    /\ Stratum \in [Slots -> {"cadence", "material"}] /\ DOMAIN Contracts = Slots
    /\ Lag \in Nat /\ Horizon \in Nat \ {0} /\ LastInstant \in Nat
    /\ FundingAt \subseteq Nat /\ MaxGaps \in Nat
    /\ Outlooks \subseteq {"buy", "pass"}

VARIABLES instant,   \* the time
          quoted,    \* times at which the products have an executable quote
          settled,   \* funding -> time it was observed
          answers,   \* producer -> slot and contract -> its obligation
          cached     \* comparison -> the evidence kept, and its key

incrementVars == <<instant, quoted, settled, answers, cached>>

Producers == {"prior", "posterior"}
Cells     == UNION {{s} \X Contracts[s] : s \in Slots}
Unasked   == [kind |-> "unasked", at |-> 0]
Asked     == [kind |-> "due", at |-> 0]
Forecasts == {"buy", "pass"}
Terminals == Forecasts \cup {"none"}
NotKept   == [key |-> << >>, evidence |-> << >>]

IncrementTypeOK ==
    /\ instant \in 0..LastInstant /\ quoted \subseteq 0..instant
    /\ DOMAIN settled \subseteq FundingAt
    /\ \A t \in DOMAIN settled : t < settled[t]
    /\ answers \in [Producers -> [Cells -> [kind : Terminals \cup {"unasked", "due"},
                                            at : 0..LastInstant]]]
    /\ DOMAIN cached = {"increment", "response"}

IncrementInit ==
    /\ instant = 0
    /\ quoted = {0}
    /\ settled = << >>
    /\ answers = [p \in Producers |-> [x \in Cells |-> Unasked]]
    /\ cached = [c \in {"increment", "response"} |-> NotKept]

-----------------------------------------------------------------------------
(* The facts: the clock and the quotes, the fundings and the answers.      *)

InstantPasses ==
    /\ instant < LastInstant
    /\ instant' = instant + 1
    /\ \/ quoted' = quoted \cup {instant + 1}
       \/ Cardinality((0..instant) \ quoted) < MaxGaps /\ UNCHANGED quoted
    /\ UNCHANGED <<settled, answers, cached>>

\* What is observed between two instants is observed at the later one.
FundingSettles ==
    /\ \E t \in FundingAt \ DOMAIN settled :
          /\ t <= instant
          /\ settled' = [u \in DOMAIN settled \cup {t} |->
                           IF u = t THEN instant + 1 ELSE settled[u]]
    /\ UNCHANGED <<instant, quoted, answers, cached>>

Open(p, s) == {c \in Contracts[s] : answers[p][<<s, c>>].kind = "due"}
Ended(p, s, c) == answers[p][<<s, c>>].kind \in Terminals

\* One contract after the other, each in a transaction of its own; the
\* posterior is asked once the prior has answered, and where that has no
\* estimate neither has the posterior.
Ask(p, s, c) ==
    /\ SlotAt[s] <= instant /\ answers[p][<<s, c>>] = Unasked
    /\ p = "posterior" => \A d \in Contracts[s] : Ended("prior", s, d)
    /\ answers' = [answers EXCEPT ![p][<<s, c>>] =
                     IF p = "posterior" /\ answers["prior"][<<s, c>>].kind = "none"
                     THEN [kind |-> "none", at |-> instant] ELSE Asked]
    /\ UNCHANGED <<instant, quoted, settled, cached>>

\* The answers of a slot have one time; after the deadline there are none.
AnswerSlot(p, s) ==
    /\ Open(p, s) # {}
    /\ \E kinds \in [Open(p, s) -> Outlooks \cup {"none"}] :
          /\ instant > SlotAt[s] + Lag => \A c \in DOMAIN kinds : kinds[c] = "none"
          /\ answers' = [answers EXCEPT ![p] = [x \in Cells |->
                           IF x[1] = s /\ x[2] \in DOMAIN kinds
                           THEN [kind |-> kinds[x[2]], at |-> instant] ELSE @[x]]]
    /\ UNCHANGED <<instant, quoted, settled, cached>>

-----------------------------------------------------------------------------
(* The panels of a producer.                                               *)

\* What a producer was asked at one time for one cause, once all is answered.
PanelOf(p, s) ==
    LET asked == {c \in Contracts[s] : answers[p][<<s, c>>] # Unasked}
        times == {answers[p][<<s, c>>].at : c \in asked}
    IN  [slot |-> s, kinds |-> [c \in asked |-> answers[p][<<s, c>>].kind],
         at |-> CHOOSE t \in times : \A u \in times : u <= t]

CompletePanels(p) ==
    {PanelOf(p, s) : s \in {t \in Slots : /\ \E c \in Contracts[t] : Ended(p, t, c)
                                          /\ Open(p, t) = {}}}

\* In the order they became available.
Sooner(p, q) == p.at < q.at \/ (p.at = q.at /\ p.slot < q.slot)
Ordered(panels) ==
    [n \in 1..Cardinality(panels) |->
        CHOOSE p \in panels : Cardinality({q \in panels : Sooner(q, p)}) = n - 1]

PanelsForStratum(panels, stratum) == {p \in panels : Stratum[p.slot] = stratum}
EvaluationAt(p) == SlotAt[p.slot] + Horizon
EndedPanels(panels) == {p \in panels : EvaluationAt(p) <= instant}
Latest(panels) ==
    LET ends == {EvaluationAt(p) : p \in panels} IN CHOOSE t \in ends : \A u \in ends : u <= t

-----------------------------------------------------------------------------
(* The logical account of a producer, replayed on what the market has told *)
(* so far.                                                                 *)

Market == [quoted |-> quoted, settled |-> settled]

Never == -1
NewAccount == [at |-> Never, since |-> Never, hold |-> << >>, charged |-> {},
               steps |-> << >>, state |-> "open"]

\* The fundings of a step: since the last one, and visible at this one.
FundingsSeen(account, at, market) ==
    IF account.since = Never THEN {}
    ELSE {t \in DOMAIN market.settled :
            account.since <= t /\ t < at /\ market.settled[t] <= at}

Charge(account, at, market) ==
    account.charged \cup ((DOMAIN account.hold) \X FundingsSeen(account, at, market))

\* The forecast a position was bought on lasts.
StillSupported(account, c, at) == at < SlotAt[account.hold[c]] + Horizon

\* Held after a panel: what it forecasts to pay, and what it says nothing of
\* while the forecast it was bought on lasts.
HeldAfter(account, panel) ==
    LET told == {c \in DOMAIN panel.kinds : panel.kinds[c] \in Forecasts}
        kept == {c \in DOMAIN account.hold \ told : StillSupported(account, c, panel.at)}
        new  == {c \in told : panel.kinds[c] = "buy"}
    IN  [c \in kept \cup new |-> IF c \in new THEN panel.slot ELSE account.hold[c]]

\* A forecast is mapped before its end only, a quote is needed for each forecast
\* and each position, and a step does not go back in time.
AdvanceAccount(account, panel, market) ==
    LET silent == \A c \in DOMAIN panel.kinds : panel.kinds[c] = "none"
        late == panel.at >= EvaluationAt(panel)
    IN  IF account.state # "open" THEN account
        ELSE IF late /\ ~silent THEN [account EXCEPT !.state = "refused"]
        ELSE IF panel.at \notin market.quoted /\ ~(silent /\ DOMAIN account.hold = {})
             THEN [account EXCEPT !.state = "input"]
        ELSE IF panel.at <= account.at THEN [account EXCEPT !.state = "refused"]
        ELSE [at |-> panel.at, since |-> panel.at, hold |-> HeldAfter(account, panel),
              charged |-> Charge(account, panel.at, market),
              steps |-> Append(account.steps, panel.slot), state |-> "open"]

\* At the common end what is held is sold, at a quote.
Liquidate(account, at, market) ==
    IF account.at >= at THEN account
    ELSE IF DOMAIN account.hold # {} /\ at \notin market.quoted
         THEN [account EXCEPT !.state = "input"]
    ELSE [account EXCEPT !.at = at, !.since = at, !.hold = << >>,
                         !.charged = Charge(account, at, market)]

\* One panel after the other.
Advanced(panels, market) ==
    LET account[n \in 0..Cardinality(panels)] ==
          IF n = 0 THEN NewAccount
          ELSE AdvanceAccount(account[n - 1], Ordered(panels)[n], market)
    IN  account[Cardinality(panels)]

\* The path of a producer.
Path(panels, markAt, market) ==
    LET account == Advanced(panels, market)
    IN  IF account.state # "open" THEN account
        ELSE IF panels # {} /\ markAt < Ordered(panels)[Cardinality(panels)].at
             THEN [account EXCEPT !.state = "refused"]
        ELSE Liquidate(account, markAt, market)

-----------------------------------------------------------------------------
(* The two comparisons.                                                    *)

Answer(status, key, evidence) == [status |-> status, key |-> key, evidence |-> evidence]
Empty(status) == Answer(status, << >>, << >>)

\* Evidence, unless one of the paths lacks an input or was refused.
Compared(key, paths) ==
    LET states == {paths[i].state : i \in DOMAIN paths}
    IN  IF "input" \in states THEN Empty("INPUT_UNAVAILABLE")
        ELSE IF "refused" \in states THEN Empty("raised")
        ELSE Answer("EVIDENCE_AVAILABLE", key, paths)

\* The prior's forecasts the candidate refers to cover all its slots.
ComparatorFound(candidate) ==
    \A p \in candidate : \A c \in DOMAIN p.kinds :
        answers["prior"][<<p.slot, c>>].kind \in Forecasts

CommonPanels(candidate, comparator) ==
    {q \in comparator :
        \E p \in candidate : p.slot = q.slot /\ DOMAIN p.kinds = DOMAIN q.kinds}

\* Mutant of PanelKey: the panels are not in the key.
BehaviorKey(candidate, comparator) == <<"posterior", "prior">>

PanelKey(candidate, comparator) == <<candidate, comparator>>

ReadIncrement ==
    LET cadence == PanelsForStratum(CompletePanels("posterior"), "cadence")
        candidate == EndedPanels(cadence)
        comparator == CommonPanels(candidate,
                        PanelsForStratum(CompletePanels("prior"), "cadence"))
        key == PanelKey(candidate, comparator)
    IN  IF cadence = {} THEN Empty("AWAITING_FORECAST")
        ELSE IF candidate = {} THEN Empty("AWAITING_SETTLEMENT")
        ELSE IF \/ ~ComparatorFound(candidate)
                \/ Cardinality(comparator) # Cardinality(candidate)
             THEN Empty("AWAITING_FORECAST")
        ELSE Compared(key, <<Path(candidate, Latest(candidate), Market),
                             Path(comparator, Latest(candidate), Market)>>)

\* The candidate with its event panels, and without them.
ReadEventResponse ==
    LET material == PanelsForStratum(CompletePanels("posterior"), "material")
        ends == EndedPanels(material)
        all == {p \in CompletePanels("posterior") : p.at <= Latest(ends)}
        cadence == PanelsForStratum(all, "cadence")
    IN  IF material = {} THEN Empty("NOT_STARTED")
        ELSE IF ends = {} THEN Empty("AWAITING_SETTLEMENT")
        ELSE Compared(<<Latest(ends), all>>,
                      <<Path(all, Latest(ends), Market), Path(cadence, Latest(ends), Market)>>)

Computed(comparison) ==
    IF comparison = "increment" THEN ReadIncrement ELSE ReadEventResponse

\* What is kept under the key of the panels is not replayed again.
Read(comparison) ==
    /\ LET computed == Computed(comparison)
       IN  /\ computed.status = "EVIDENCE_AVAILABLE"
           /\ computed.key # cached[comparison].key
           /\ cached' = [cached EXCEPT ![comparison] =
                           [key |-> computed.key, evidence |-> computed.evidence]]
    /\ UNCHANGED <<instant, quoted, settled, answers>>

IncrementNext ==
    \/ InstantPasses \/ FundingSettles
    \/ \E p \in Producers, s \in Slots :
          AnswerSlot(p, s) \/ \E c \in Contracts[s] : Ask(p, s, c)
    \/ \E comparison \in DOMAIN cached : Read(comparison)

IncrementSpec == IncrementInit /\ [][IncrementNext]_incrementVars

-----------------------------------------------------------------------------
(* Properties.                                                             *)

\* The panels a key stands for.
KeyPanels(comparison, key) ==
    IF comparison = "increment" THEN key[1] \cup key[2] ELSE key[2]

\* The last panel came at the very end of the path: nothing is sold after it.
TookItsEnd(path, panels) ==
    \E p \in panels : p.slot = path.steps[Len(path.steps)] /\ p.at = path.at

\* Evidence kept under the key a reader computes now is the evidence a replay
\* would give now, and it compares both paths over the same decisions, to cash
\* at one end.
IncrementStands ==
    \A comparison \in DOMAIN cached :
        LET now    == Computed(comparison)
            kept   == cached[comparison].evidence
            panels == KeyPanels(comparison, cached[comparison].key)
        IN  /\ /\ now.status = "EVIDENCE_AVAILABLE"
               /\ now.key = cached[comparison].key
               => now.evidence = kept
            /\ kept # << >> =>
                 /\ \A i \in 1..2 : kept[i].hold = << >> \/ TookItsEnd(kept[i], panels)
                 /\ comparison = "increment" =>
                      /\ kept[1].at = kept[2].at
                      /\ Range(kept[1].steps) = Range(kept[2].steps)

-----------------------------------------------------------------------------
(* Why it stands: a key holds panels of the past, and what the market tells *)
(* later has another time.                                                  *)

SlotsTaken(panels) == {p.slot : p \in panels}

\* Panels of one producer that were available at a time.
PanelsBy(panels, at) ==
    /\ IsFiniteSet(panels)
    /\ \A p \in panels : p.slot \in Slots /\ p.at \in 0..at
    /\ \A p, q \in panels : p.slot = q.slot => p = q

KeyIsOfThePast(comparison, key, at) ==
    /\ key = <<key[1], key[2]>> /\ PanelsBy(key[2], at)
    /\ IF comparison = "increment"
       THEN /\ PanelsBy(key[1], at) /\ Latest(key[1]) \in 0..at
            /\ SlotsTaken(key[1]) = SlotsTaken(key[2])
       ELSE key[1] \in 0..at

\* What a replay of the key gives.
Replayed(comparison, key, market) ==
    IF comparison = "increment"
    THEN <<Path(key[1], Latest(key[1]), market), Path(key[2], Latest(key[1]), market)>>
    ELSE <<Path(key[2], key[1], market),
           Path(PanelsForStratum(key[2], "cadence"), key[1], market)>>

KeptIsReplay(comparison, kept, at, market) ==
    \/ kept = NotKept
    \/ /\ kept = [key |-> kept.key, evidence |-> Replayed(comparison, kept.key, market)]
       /\ KeyIsOfThePast(comparison, kept.key, at)
       /\ \A i \in 1..2 : kept.evidence[i].state = "open"

IncrementInvariant ==
    /\ IncrementTypeOK
    /\ \A p \in Producers, x \in Cells : answers[p][x].at <= instant
    /\ \A c \in DOMAIN cached : KeptIsReplay(c, cached[c], instant, Market)

\* A read ends in one of its statuses. Violated: a slot answered after its own
\* end, or two slots ended at one time, make it raise.
ReadNeverRaises ==
    \A comparison \in DOMAIN cached : Computed(comparison).status # "raised"

\* A slot without an estimate is part of the comparison
\* (docs/ARCHITECTURE.md:317: each path takes its own NO_ESTIMATE). Violated:
\* after one of the prior the reader awaits forecasts for ever.
NoEstimateIsCompared ==
    \/ \E p \in Producers, x \in Cells : answers[p][x].kind \in {"unasked", "due"}
    \/ instant < LastInstant
    \/ ReadIncrement.status # "AWAITING_FORECAST"

\* A position is charged each funding it is held through (docs/ARCHITECTURE.md
\* :317: the true cash flows that follow). Violated: one observed after the
\* step that follows it is in no later window.
LateFundingIsCharged ==
    LET kept == cached["increment"].evidence
    IN  kept # << >> =>
          \A i \in 1..2, t \in DOMAIN settled :
             LET p     == IF i = 1 THEN "posterior" ELSE "prior"
                 steps == Range(kept[i].steps)
             IN  \A c \in {d \in UNION Range(Contracts) : steps \X {d} \subseteq Cells} :
                 (/\ \A s \in steps : answers[p][<<s, c>>].kind = "buy"
                  /\ \E s \in steps : answers[p][<<s, c>>].at <= t
                  /\ t < kept[i].at /\ settled[t] <= kept[i].at)
                 => <<c, t>> \in kept[i].charged
=============================================================================
