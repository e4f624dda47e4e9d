------------------------------ MODULE MetricSeries ------------------------------
(***************************************************************************)
(* What a document of a metric feed says (information/official/metrics.py) *)
(* and what the store remembers of it (metric_history of                   *)
(* information/official/repository.py).                                    *)
(*                                                                         *)
(* A document is a set of dated rows; a row holds one amount, Broken when  *)
(* what the parser needs of it is missing.  A parser refuses the document  *)
(* or makes a snapshot of its latest row: the level, the changes over its  *)
(* lags, and which of them is the most unusual among those of the document.*)
(* Months, years and the counts of rows are scaled down.                   *)
(***************************************************************************)
EXTENDS Integers, FiniteSets, FiniteSetsExt

CONSTANTS Levels,      \* amounts of a row
          LastDate,    \* bound of the dates
          MaxSnaps     \* bound of the documents read

ASSUME MetricAssumption == Levels \subseteq Nat /\ {LastDate, MaxSnaps} \subseteq Nat \ {0}

VARIABLES today, stream, page, latestSnap, kept, snaps

metricVars == <<today, stream, page, latestSnap, kept, snaps>>

Dates   == 1..LastDate
Broken  == -1
NoSnap  == [date |-> 0]
Pages   == UNION {[D -> Levels \cup {Broken}] : D \in SUBSET Dates}
Abs(n)  == IF n < 0 THEN -n ELSE n

-----------------------------------------------------------------------------
(* The feeds.                                                              *)
(*   least   rows a document must have                                     *)
(*   future  rows dated after the reading are kept, skipped or refused     *)
(*   today   whether the row of the day of the reading counts              *)
(*   gaps    a broken row is skipped, refused, or matters "latest" only    *)
(*   dense   the rows needed are of consecutive days                       *)
(*   base    what a change is against: rows so many before, the same month *)
(*           a year before, the days of a window, or the history stored    *)
(*   ratio   a change is a percentage, so its base is not zero             *)
Feed(least, future, gaps, base, lags) ==
    [least |-> least, future |-> future, today |-> TRUE, gaps |-> gaps, dense |-> FALSE,
     base |-> base, lags |-> lags, ratio |-> FALSE]

Tga            == Feed(2, "keep", "refuse", "rows", {1, 2})
Auctions       == Feed(1, "skip", "skip", "window", {})
Refinancing    == Feed(1, "skip", "latest", "none", {})
AverageCost    == Feed(1, "skip", "skip", "year", {})
Expense        == [Feed(1, "skip", "latest", "year", {}) EXCEPT !.ratio = TRUE]
Yields         == Feed(2, "keep", "refuse", "rows", {1})
RealYields     == Feed(2, "keep", "refuse", "rows", {1})
BroadDollar    == [Feed(2, "keep", "refuse", "rows", {1}) EXCEPT !.ratio = TRUE]
FredSeries(ratio) == [Feed(3, "refuse", "skip", "rows", {1}) EXCEPT !.ratio = ratio]
Sp500          == FredSeries(TRUE)
HighYield      == FredSeries(FALSE)
Wti            == FredSeries(TRUE)
Stablecoins    == [Feed(3, "refuse", "refuse", "rows", {1, 2})
                       EXCEPT !.today = FALSE, !.dense = TRUE]
ReverseRepo    == Feed(2, "keep", "refuse", "rows", {1})
Soma           == Feed(2, "keep", "refuse", "rows", {1})
ReferenceRates == Feed(1, "keep", "latest", "none", {})
Ibit           == Feed(1, "keep", "refuse", "history", {1})
Arkb           == Feed(1, "keep", "refuse", "history", {1})
Bitb           == Feed(1, "keep", "refuse", "history", {1})

MetricStreams ==
    {Tga, Auctions, Refinancing, AverageCost, Expense, Yields, RealYields, BroadDollar,
     Sp500, HighYield, Wti, Stablecoins, ReverseRepo, Soma, ReferenceRates,
     Ibit, Arkb, Bitb}

\* The page of a fund shows its latest day only.
LatestOnly == stream.base = "history"

-----------------------------------------------------------------------------
(* The parsers.                                                            *)

\* The rows a parser looks at, of a document read on a day.
Usable(doc, at) ==
    {d \in DOMAIN doc : /\ stream.future = "skip" => d <= at
                        /\ stream.today \/ d # at
                        /\ stream.gaps = "skip" => doc[d] # Broken}

\* The row so many rows before d, if any.
Before(rows, d, lag) == {b \in rows : b < d /\ Cardinality({r \in rows : b <= r /\ r < d}) = lag}
The(S) == CHOOSE x \in S : TRUE

YearOf == 2
Base(rows, d, lag) ==
    IF stream.base = "year" THEN rows \cap {d - YearOf} ELSE Before(rows, d, lag)

Recent(rows, n) == {d \in rows : Cardinality({r \in rows : r > d}) < n}

RefusesDocument(doc, at) ==
    LET rows == Usable(doc, at)
        last == Max(rows)
        lags == IF stream.base = "year" THEN {YearOf} ELSE stream.lags
        used == IF stream.base = "year" THEN {last, last - YearOf} ELSE {last}
    IN  \/ Cardinality(rows) < stream.least
        \/ stream.future = "refuse" /\ \E d \in DOMAIN doc : d > at
        \/ stream.gaps = "refuse" /\ \E d \in rows : doc[d] = Broken
        \/ stream.gaps = "latest" /\ \E d \in used \cap rows : doc[d] = Broken
        \/ stream.base = "year" /\ last - YearOf \notin rows
        \/ stream.ratio /\ \E lag \in lags : \E b \in Base(rows, last, lag) : doc[b] = 0
        \/ /\ stream.dense
           /\ \E d \in Recent(rows, stream.least) :
                 d # Min(Recent(rows, stream.least)) /\ d - 1 \notin rows

\* A percentage change is compared as a fraction of its base.
Change(doc, rows, d, lag) ==
    LET b == The(Base(rows, d, lag))
    IN  IF stream.ratio THEN <<doc[d] - doc[b], doc[b]>> ELSE <<doc[d] - doc[b], 1>>
NoSmaller(c, than) == Abs(c[1]) * than[2] >= Abs(than[1]) * c[2]

\* The days of the document with a change over a lag.
Changing(doc, rows, lag) ==
    {d \in rows : \E b \in Before(rows, d, lag) : stream.ratio => doc[b] # 0}

\* The most unusual change: the highest percentile of its own history, the
\* longer history when two are alike.
Unusual(doc, rows, lags) ==
    LET size(lag) == Cardinality(Changing(doc, rows, lag))
        last      == Max(rows)
        rank(lag) == Cardinality({d \in Changing(doc, rows, lag) :
                         NoSmaller(Change(doc, rows, last, lag), Change(doc, rows, d, lag))})
        known     == {lag \in lags : size(lag) > 0}
    IN  {lag \in known : \A other \in known \ {lag} :
            \/ rank(lag) * size(other) > rank(other) * size(lag)
            \/ /\ rank(lag) * size(other) = rank(other) * size(lag)
               /\ size(lag) > size(other)}

Window == 2
Total(doc, rows) == MapThenSumSet(LAMBDA d : doc[d], rows)
Level(doc, rows) ==
    IF stream.base = "window" THEN Total(doc, {r \in rows : r > Max(rows) - Window})
    ELSE doc[Max(rows)]

SnapshotOf(doc) ==
    LET rows == DOMAIN doc
        lags == {lag \in stream.lags : Base(rows, Max(rows), lag) # {}}
    IN  [date |-> Max(rows), level |-> Level(doc, rows),
         changes |-> {<<lag, Change(doc, rows, Max(rows), lag)>> :
                        lag \in IF stream.base = "year" THEN {YearOf} ELSE lags},
         context |-> Unusual(doc, rows, stream.lags)]

\* The days before d, as the store last heard of them, and d.
EarlierOrSame(d) == {k \in Dates : k <= d /\ kept[k] # Broken}
Earlier(d) == {k \in Dates : k < d /\ kept[k] # Broken}
Known(d) == Earlier(d)

SeriesTo(d, amount) == [k \in Known(d) \cup {d} |-> IF k = d THEN amount ELSE kept[k]]

WithHistory(doc, at) ==
    LET d == Max(Usable(doc, at))
    IN  [SnapshotOf(SeriesTo(d, doc[d])) EXCEPT !.changes =
            {<<1, <<doc[d] - kept[k], 1>>>> : k \in Recent(Known(d), 1)}]

Parse(doc, at) ==
    IF RefusesDocument(doc, at) THEN NoSnap
    ELSE IF LatestOnly THEN WithHistory(doc, at)
    ELSE SnapshotOf([d \in Usable(doc, at) |-> doc[d]])

-----------------------------------------------------------------------------
MetricTypeOK ==
    /\ today \in Dates /\ stream \in MetricStreams
    /\ \A d \in DOMAIN page : d \in Dates /\ page[d] \in Levels \cup {Broken}
    /\ snaps \in 0..MaxSnaps
    /\ latestSnap.date \in {0} \cup Dates
    /\ kept \in [Dates -> Levels \cup {Broken}]

MetricInit ==
    /\ today = 1 /\ stream \in MetricStreams
    /\ page = <<>> /\ latestSnap = NoSnap /\ snaps = 0
    /\ kept = [d \in Dates |-> Broken]

\* Only the feeds with a history are read more than once.
ReadPage ==
    /\ snaps < IF LatestOnly THEN MaxSnaps ELSE 1
    /\ \E doc \in Pages :
         /\ LatestOnly => Cardinality(DOMAIN doc) = 1 /\ Max(DOMAIN doc) <= today
         /\ Parse(doc, today) # NoSnap
         /\ page' = doc /\ latestSnap' = Parse(doc, today)
         /\ kept' = IF LatestOnly
                    THEN [kept EXCEPT ![latestSnap'.date] = latestSnap'.level] ELSE kept
    /\ snaps' = snaps + 1
    /\ UNCHANGED <<today, stream>>

MetricDayPasses ==
    /\ today < LastDate /\ (snaps = 0 \/ LatestOnly)
    /\ today' = today + 1
    /\ page' = <<>> /\ latestSnap' = NoSnap
    /\ UNCHANGED <<stream, kept, snaps>>

MetricNext == ReadPage \/ MetricDayPasses

MetricSpec == MetricInit /\ [][MetricNext]_metricVars

-----------------------------------------------------------------------------
(* A document says the same whenever it is read on a day: once more, after *)
(* its own snapshot and all later ones were stored, it gives the snapshot  *)
(* it gave, so that a repeated poll stores no revision; and, unless the    *)
(* feed is trusted with its dates, nothing dated after the reading is in   *)
(* it.                                                                     *)
SnapshotsAreReproducible ==
    latestSnap # NoSnap =>
        /\ Parse(page, today) = latestSnap
        /\ stream.future # "keep" =>
             Parse([d \in {k \in DOMAIN page : k <= today} |-> page[d]], today) = latestSnap

\* NOT an invariant: the change over one day of a feed with a history is
\* that of a day.  It is the change since the day that was last read.
OneDayIsADay ==
    LatestOnly /\ latestSnap # NoSnap /\ latestSnap.changes # {} =>
        kept[latestSnap.date - 1] # Broken
-----------------------------------------------------------------------------
(* Why they are: a snapshot is read from the days before its own, of which *)
(* the store hears nothing new when it stores the snapshot.                *)
MetricInvariant ==
    /\ stream \in MetricStreams /\ today \in Dates
    /\ DOMAIN kept = Dates
    /\ SnapshotsAreReproducible
=============================================================================
