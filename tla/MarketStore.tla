------------------------------- MODULE MarketStore -------------------------------
(***************************************************************************)
(* The market facts and what is read of them at a time                     *)
(* (market/repository.py), with the writers that fetch them:               *)
(*   market/runtime.py            bootstrap, stream, the other venues      *)
(*   market/perpetual/service.py  states, funding, rules, schedule         *)
(*                                                                         *)
(* One instrument.  A fact is known by the time it is of at the exchange,  *)
(* and carries the time it was observed; it reaches the table later, fact  *)
(* by fact.  Its content is a price and a volume, either of which the      *)
(* exchange may still correct.                                             *)
(***************************************************************************)
EXTENDS Integers, FiniteSets, FiniteSetsExt

CONSTANTS Writers,     \* the fetches that may overlap
          MaxCorrected, \* bound of the facts corrected
          MaxMoment    \* bound of the time

ASSUME StoreAssumption ==
    MaxMoment \in Nat \ {0} /\ MaxCorrected \in Nat /\ IsFiniteSet(Writers)

VARIABLES moment,
          kind,       \* what the facts are
          tape,       \* exchange time -> what the exchange says of it
          table,      \* exchange time -> the stored content and its observation
          writers,    \* writer -> its fetch
          answers     \* time -> what was read as of it

storeVars == <<moment, kind, tape, table, writers, answers>>

Moments == 1..MaxMoment
Content == [price : {0, 1}, volume : {0, 1}]
NoCorrection == [price |-> 0, volume |-> 0]
Resting == [pc |-> "rest", facts |-> <<>>, seen |-> 0]

(* What a fetch shows of the facts: the latest one, or a window of them.   *)
QuoteFetch     == {"latest"}
TradeFetch     == {"latest"}
BarFetch       == {"latest", "window"}
VenueFetch     == {"latest"}
PerpetualFetch == {"latest"}
FundingFetch   == {"window"}
ScheduleFetch  == {"latest"}

(* How a reader orders what it may see, and what a writer that meets       *)
(* another content under the same identity does: a bar corrected in its    *)
(* volumes is left as it is, anything else is refused.                     *)
SpotQuote  == [shows |-> QuoteFetch, by |-> "seen", late |-> "refuse"]
SpotTrade  == [shows |-> TradeFetch, by |-> "time", late |-> "refuse"]
SpotBar    == [shows |-> BarFetch, by |-> "bars", late |-> "volume"]
VenueQuote == [shows |-> VenueFetch, by |-> "venue", late |-> "refuse"]
Perpetual  == [shows |-> PerpetualFetch, by |-> "perpetual", late |-> "refuse"]
Funding    == [shows |-> FundingFetch, by |-> "range", late |-> "refuse"]
Schedule   == [shows |-> ScheduleFetch, by |-> "schedule", late |-> "refuse"]
Kinds == {SpotQuote, VenueQuote, SpotTrade, SpotBar, Perpetual, Funding, Schedule}

StoreTypeOK ==
    /\ moment \in Moments /\ kind \in Kinds
    /\ DOMAIN tape \subseteq 1..moment
    /\ DOMAIN table \subseteq DOMAIN tape
    /\ \A k \in DOMAIN table : table[k].seen \in k..moment
    /\ \A w \in Writers : writers[w].pc \in {"rest", "fetched"}
                          /\ writers[w].seen \in 0..moment
    /\ DOMAIN answers \subseteq 1..moment

StoreInit ==
    /\ moment = 1
    /\ kind \in Kinds
    /\ tape = <<>> /\ table = <<>>
    /\ writers = [w \in Writers |-> Resting]
    /\ answers = <<>>

-----------------------------------------------------------------------------
(* The exchange.                                                           *)

Happens ==
    /\ moment \notin DOMAIN tape
    /\ tape' = [k \in DOMAIN tape \cup {moment} |->
                  IF k = moment THEN NoCorrection ELSE tape[k]]
    /\ UNCHANGED <<moment, kind, table, writers, answers>>

IsCorrected ==
    /\ Cardinality({k \in DOMAIN tape : tape[k] # NoCorrection}) < MaxCorrected
    /\ \E k \in DOMAIN tape, field \in {"price", "volume"} :
         /\ tape[k] = NoCorrection
         /\ tape' = [tape EXCEPT ![k][field] = 1]
    /\ UNCHANGED <<moment, kind, table, writers, answers>>

MomentPasses ==
    /\ moment < MaxMoment
    /\ moment' = moment + 1
    /\ UNCHANGED <<kind, tape, table, writers, answers>>

-----------------------------------------------------------------------------
(* The writers.                                                            *)

\* One observation time for whatever the exchange shows of its facts: the
\* latest over a stream, a window of them over REST.
FetchFacts(w) ==
    /\ writers[w].pc = "rest"
    /\ DOMAIN tape # {}
    /\ \E shows \in kind.shows :
         LET S == IF shows = "latest" THEN {Max(DOMAIN tape)} ELSE DOMAIN tape
         IN  writers' = [writers EXCEPT ![w] =
              [pc |-> "fetched", seen |-> moment, facts |-> [k \in S |-> tape[k]]]]
    /\ UNCHANGED <<moment, kind, tape, table, answers>>

Rest(w) == writers' = [writers EXCEPT ![w] = Resting]

\* Whether a fact that is met again may be, or is refused.
Tolerated(row, content) ==
    \/ row.content = content
    \/ kind.late = "volume" /\ row.content.price = content.price

\* Mutant of Kept: the row is brought up to date.
Updated(row, content, seen) == [content |-> content, seen |-> seen]

\* The row that stays is the one first stored.
Kept(row, content, seen) == row

\* The facts of a fetch are put one after the other; one that is refused
\* ends the fetch, and what it stored stays.
PutNext(w) ==
    LET f == writers[w]
        k == Min(DOMAIN f.facts)
    IN  /\ f.pc = "fetched"
        /\ IF k \in DOMAIN table
           THEN IF Tolerated(table[k], f.facts[k])
                THEN table' = [table EXCEPT ![k] = Kept(@, f.facts[k], f.seen)]
                ELSE UNCHANGED table
           ELSE table' = [j \in DOMAIN table \cup {k} |->
                    IF j = k THEN [content |-> f.facts[k], seen |-> f.seen] ELSE table[j]]
        /\ IF \/ DOMAIN f.facts = {k}
              \/ k \in DOMAIN table /\ ~Tolerated(table[k], f.facts[k])
           THEN Rest(w)
           ELSE writers' = [writers EXCEPT ![w].facts =
                              [j \in DOMAIN f.facts \ {k} |-> f.facts[j]]]
    /\ UNCHANGED <<moment, kind, tape, answers>>

\* Another part of the refresh fails, or the process ends.
WriterStops(w) ==
    /\ writers[w].pc = "fetched"
    /\ Rest(w)
    /\ UNCHANGED <<moment, kind, tape, table, answers>>

-----------------------------------------------------------------------------
(* The readers.                                                            *)

Last(S) == {k \in S : \A j \in S : j <= k}
Seen(asof) == {k \in DOMAIN table : table[k].seen <= asof}
Shown(S) == {<<k, table[k].content>> : k \in S}

\* Ordered by observation, then identity; the exchange time is not asked.
LatestSpotQuote(asof) ==
    Last({k \in Seen(asof) : \A j \in Seen(asof) : table[j].seen <= table[k].seen})

\* Of the latest exchange time that is past and observed.
LatestTrade(asof) == Last({k \in Seen(asof) : k <= asof})
LatestVenueQuote(asof) == Last({k \in Seen(asof) : k <= asof})
LatestPerpetual(asof) == Last({k \in Seen(asof) : k <= asof})
LatestTradingSchedule(asof) == Last({k \in Seen(asof) : k <= asof})

\* The newest bars of a window.
BarWindow == 2
LatestBars(asof) ==
    {k \in Seen(asof) : Cardinality({j \in Seen(asof) : j > k}) < BarWindow}

\* Settlements from a start on and before the end, which is not included.
FundingSettlements(start, end, asof) == {k \in Seen(asof) : start <= k /\ k < end}

Answer(asof) ==
    Shown(CASE kind = SpotQuote  -> LatestSpotQuote(asof)
            [] kind = SpotTrade  -> LatestTrade(asof)
            [] kind = SpotBar    -> LatestBars(asof)
            [] kind = VenueQuote -> LatestVenueQuote(asof)
            [] kind = Perpetual  -> LatestPerpetual(asof)
            [] kind = Schedule   -> LatestTradingSchedule(asof)
            [] kind = Funding    -> FundingSettlements(asof - 1, asof, asof))

\* An analysis reads as of a time that is past, once the fetches that
\* observed anything by then are through.
Settled(asof) ==
    asof < moment /\ \A w \in Writers : writers[w].pc = "fetched" => writers[w].seen > asof

ReadAsOf(asof) ==
    /\ Settled(asof) /\ asof \notin DOMAIN answers
    /\ answers' = [t \in DOMAIN answers \cup {asof} |->
                     IF t = asof THEN Answer(asof) ELSE answers[t]]
    /\ UNCHANGED <<moment, kind, tape, table, writers>>

StoreNext ==
    \/ Happens \/ IsCorrected \/ MomentPasses
    \/ \E w \in Writers : FetchFacts(w) \/ PutNext(w) \/ WriterStops(w)
    \/ \E t \in Moments : ReadAsOf(t)

StoreSpec == StoreInit /\ [][StoreNext]_storeVars

-----------------------------------------------------------------------------
(* What an analysis was shown can be shown again: however often the        *)
(* writers meet a fact again, correct it, or fetch late what the exchange  *)
(* had long before, a time that was read settled reads the same for ever.  *)
ReadsAreStable ==
    \A t \in DOMAIN answers : Answer(t) = answers[t]

\* NOT an invariant: any time that is past reads the same for ever.  A
\* fetch observed by then may still be putting its facts.
PastIsStable == [][\A t \in 1..(moment - 1) : Answer(t)' = Answer(t)]_storeVars

-----------------------------------------------------------------------------
(* Why it does: a time that was answered is settled for good, so whatever  *)
(* is put from then on was observed after it, and a row that is there      *)
(* stays as it is.                                                         *)
WritersAndRows ==
    /\ moment \in Nat /\ kind \in Kinds
    /\ table = [k \in DOMAIN table |-> table[k]]
    /\ writers = [w \in Writers |-> [pc |-> writers[w].pc, seen |-> writers[w].seen,
                                     facts |-> writers[w].facts]]
    /\ \A w \in Writers : writers[w].seen \in 0..moment

AnswersAreSettled == DOMAIN answers \subseteq Moments /\ \A t \in DOMAIN answers : Settled(t)

StoreInvariant == WritersAndRows /\ AnswersAreSettled /\ ReadsAreStable
=============================================================================
