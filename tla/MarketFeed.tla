------------------------------- MODULE MarketFeed -------------------------------
(***************************************************************************)
(* The market stream and the shocks it wakes the analysis for              *)
(* (market/runtime.py: BinanceMarketStreamService, MarketShockDetector).   *)
(*                                                                         *)
(* One process reads the trades and closed bars of several symbols, stores *)
(* each and shows it to the detector, which reports a move over a rolling  *)
(* window to the trigger sink.  All symbols share one analysis scope.      *)
(* Prices are in units in which moves may be subtracted; how often a trade *)
(* is persisted does not matter to the detector and is left out.           *)
(***************************************************************************)
EXTENDS Integers, Sequences, FiniteSets, FiniteSetsExt

CONSTANTS Symbols,
          Marks,       \* prices
          Threshold,   \* relative_move_threshold
          Span,        \* window_seconds
          MaxSecond,   \* bound of the time
          MaxBreaks    \* bound of the lost connections

ASSUME MarketAssumption ==
    /\ Marks \subseteq Nat /\ {Threshold, Span, MaxSecond} \subseteq Nat \ {0}
    /\ MaxBreaks \in Nat

VARIABLES second,
          link,       \* the stream: closed, or open
          breaks,
          windows,    \* symbol -> its rolling window, or NoWindow
          episode,    \* the shock the scope is in, or NoEpisode
          shocks,     \* reported to the sink, in order
          unreported  \* shocks the sink failed to record

marketVars == <<second, link, breaks, windows, episode, shocks, unreported>>

NoWindow  == [seconds |-> {}, fired |-> -1]
NoEpisode == [start |-> -1, urgent |-> FALSE]

MarketTypeOK ==
    /\ second \in 0..MaxSecond /\ link \in {"closed", "open"} /\ breaks \in 0..MaxBreaks
    /\ \A s \in Symbols :
          /\ windows[s].fired \in -1..second
          /\ windows[s].seconds \subseteq [at : 0..second, low : Marks, high : Marks]
    /\ episode.start \in -1..second /\ episode.urgent \in BOOLEAN
    /\ \A i \in DOMAIN shocks : shocks[i].at \in 0..second /\ shocks[i].urgent \in BOOLEAN
    /\ unreported \subseteq [at : 0..second, urgent : BOOLEAN]

MarketInit ==
    /\ second = 0 /\ link = "closed" /\ breaks = 0
    /\ windows = [s \in Symbols |-> NoWindow]
    /\ episode = NoEpisode
    /\ shocks = <<>> /\ unreported = {}

Distance(a, b) == IF a < b THEN b - a ELSE a - b

-----------------------------------------------------------------------------
(* The connection.                                                         *)

\* Quote, trade and bars are read over REST first; then the stream opens.
Connect ==
    /\ link = "closed"
    /\ link' = "open"
    /\ UNCHANGED <<second, breaks, windows, episode, shocks, unreported>>

\* Silence, the planned reconnect, or a store that refuses an event: what
\* the detector remembers outlives the connection.
Disconnect ==
    /\ link = "open" /\ breaks < MaxBreaks
    /\ link' = "closed" /\ breaks' = breaks + 1
    /\ UNCHANGED <<second, windows, episode, shocks, unreported>>

-----------------------------------------------------------------------------
(* The detector.                                                           *)

NewWindow(at, price, fired) ==
    [seconds |-> {[at |-> at, low |-> price, high |-> price]}, fired |-> fired]

CurrentSecond(w) == CHOOSE s \in w.seconds : \A t \in w.seconds : t.at <= s.at

\* The window with a trade in it; a new second drops those out of the span.
WithTrade(w, at, price) ==
    LET c == CurrentSecond(w) IN
    [w EXCEPT !.seconds =
        IF at > c.at
        THEN {s \in @ : s.at >= at - Span} \cup {[at |-> at, low |-> price, high |-> price]}
        ELSE (@ \ {c}) \cup {[c EXCEPT !.low = Min({c.low, price}),
                                       !.high = Max({c.high, price})]}]

Move(w, price) ==
    Max({Distance(price, Min({s.low : s \in w.seconds})),
         Distance(price, Max({s.high : s \in w.seconds}))})

\* Priority 100, the highest there is.
Urgent(move) == move * 80 >= 100 * Threshold

\* The first shock of an episode, and one urgent one after it.
Opens == episode = NoEpisode \/ second - episode.start >= Span
\* Mutant of Admitted: an urgent shock is always admitted.
AdmittedUrgent(urgent) ==
    IF Opens THEN {[start |-> second, urgent |-> urgent]}
    ELSE IF urgent THEN {[episode EXCEPT !.urgent = TRUE]}
    ELSE {}

Admitted(urgent) ==
    IF Opens THEN {[start |-> second, urgent |-> urgent]}
    ELSE IF urgent /\ ~episode.urgent THEN {[episode EXCEPT !.urgent = TRUE]}
    ELSE {}

\* A move past the threshold ends the window it was measured in, except
\* where the sink fails, which also ends the connection.
Report(s, before, move, at, price, reset) ==
    LET urgent == Urgent(move)
        shock  == [at |-> second, urgent |-> urgent]
        after  == [windows EXCEPT ![s] = NewWindow(reset, price, at)]
    IN  IF Admitted(urgent) = {}
        THEN windows' = after /\ UNCHANGED <<link, episode, shocks, unreported>>
        ELSE /\ episode' \in Admitted(urgent)
             /\ \/ /\ windows' = after
                   /\ shocks' = Append(shocks, shock)
                   /\ UNCHANGED <<link, unreported>>
                \/ /\ windows' = [windows EXCEPT ![s] = before]
                   /\ link' = "closed"
                   /\ unreported' = unreported \cup {shock}
                   /\ UNCHANGED shocks

Trade(s) ==
    /\ link = "open"
    /\ \E price \in Marks, at \in {second, second - 1} \cap Nat :
         LET w     == windows[s]
             after == WithTrade(w, at, price)
         IN  IF w.seconds = {}
             THEN /\ windows' = [windows EXCEPT ![s] = NewWindow(at, price, -1)]
                  /\ UNCHANGED <<link, episode, shocks, unreported>>
             ELSE /\ at >= CurrentSecond(w).at           \* an older trade is ignored
                  /\ IF Move(after, price) < Threshold
                     THEN /\ windows' = [windows EXCEPT ![s] = after]
                          /\ UNCHANGED <<link, episode, shocks, unreported>>
                     ELSE Report(s, after, Move(after, price), at, price, at)
    /\ UNCHANGED <<second, breaks>>

\* A closed bar, one second long, whose extreme is that far from its open: an
\* ordinary shock, or an urgent one.  A trade of the bar may have reported it.
Bar(s) ==
    /\ link = "open" /\ second > 0
    /\ windows[s].fired \notin {second - 1, second}
    /\ \E move \in {Threshold, 2 * Threshold}, close \in Marks :
         Report(s, windows[s], move, second, close, second)
    /\ UNCHANGED <<second, breaks>>

SecondPasses ==
    /\ second < MaxSecond
    /\ second' = second + 1
    /\ UNCHANGED <<link, breaks, windows, episode, shocks, unreported>>

MarketNext ==
    \/ Connect \/ Disconnect \/ SecondPasses
    \/ \E s \in Symbols : Trade(s) \/ Bar(s)

MarketSpec == MarketInit /\ [][MarketNext]_marketVars

-----------------------------------------------------------------------------
\* The shocks of the scope so far, those the sink did not record included.
EveryShock == {shocks[i] : i \in DOMAIN shocks} \cup unreported

(* The analysis is not flooded: of one scope, over however many symbols,   *)
(* failures and reconnections, two ordinary shocks are a span apart, and   *)
(* of two urgent ones that are closer the earlier ended an episode that    *)
(* began a span before the later one.                                      *)
ShocksAreSpaced ==
    \A i, j \in DOMAIN shocks : i < j /\ shocks[j].at - shocks[i].at < Span =>
        /\ shocks[i].urgent \/ shocks[j].urgent
        /\ shocks[i].urgent /\ shocks[j].urgent =>
             \E h \in EveryShock : h.at <= shocks[i].at /\ h.at + Span <= shocks[j].at

\* NOT an invariant: a shock the sink could not record is reported by a
\* later one of its episode.  The episode counts it as reported.
UnreportedAreMadeUp ==
    \A u \in unreported : second >= u.at + Span =>
        \E i \in DOMAIN shocks : shocks[i].at \in u.at..(u.at + Span)

-----------------------------------------------------------------------------
(* Why they are: the shock that opened the episode is the earliest of it,  *)
(* the others of it are urgent, of which it admits one, and it lasts a     *)
(* span; an urgent one from before it is of an episode that ended.         *)
WindowsHoldPrices ==
    /\ windows \in [Symbols -> [seconds : SUBSET [at : 0..second, low : Marks, high : Marks],
                                fired : -1..second]]
    /\ \A s \in Symbols : IsFiniteSet(windows[s].seconds)

RecordedRows ==
    /\ second \in 0..MaxSecond /\ link \in {"closed", "open"} /\ breaks \in 0..MaxBreaks
    /\ shocks \in Seq([at : 0..second, urgent : BOOLEAN])
    /\ unreported \subseteq [at : 0..second, urgent : BOOLEAN]
    /\ episode \in [start : -1..second, urgent : BOOLEAN]

EpisodeIsOpened ==
    IF episode = NoEpisode THEN EveryShock = {}
    ELSE episode.start >= 0 /\ \E h \in EveryShock : h.at = episode.start

EpisodeOfShocks ==
    \A i \in DOMAIN shocks :
       /\ shocks[i].at < episode.start + Span
       /\ shocks[i].at > episode.start => shocks[i].urgent
       /\ shocks[i].urgent /\ shocks[i].at >= episode.start => episode.urgent

EarlierEpisodeEnded ==
    \A i \in DOMAIN shocks : shocks[i].urgent /\ shocks[i].at < episode.start =>
       \E h \in EveryShock : h.at <= shocks[i].at /\ h.at + Span <= episode.start

SpacingInvariant ==
    /\ RecordedRows /\ EpisodeIsOpened
    /\ EpisodeOfShocks /\ EarlierEpisodeEnded /\ ShocksAreSpaced

MarketInvariant == WindowsHoldPrices /\ SpacingInvariant
=============================================================================
