------------------------------ MODULE FrozenHistory ------------------------------
(***************************************************************************)
(* The research data catalogs: bars, settled funding, events, executable   *)
(* quotes and economic series are collected, checked and frozen into       *)
(* directories named by their content, by commands that may run at once    *)
(* and may be killed (research/dataset.py, quote_dataset.py,               *)
(* economic_series.py).                                                    *)
(*                                                                         *)
(* Time is counted in slots: slot t is over at t + 1.  facts are the slots *)
(* the source has something for (a halted market has nothing), vintage is  *)
(* how often it has revised what it published.  A behaviour collects one   *)
(* family of datasets.                                                     *)
(***************************************************************************)
EXTENDS Integers, FiniteSets, FiniteSetsExt

CONSTANTS
    Keepers,      \* commands that may collect at one time
    PageSize,     \* rows of a page of the exchange
    MonthLength,  \* slots of a monthly archive
    Bucket,       \* slots of a sampling interval of quotes
    LastSlot,     \* bound: the clock stops here
    MaxCollected  \* bound: collections begun

ASSUME FrozenAssumption ==
    /\ {PageSize, MonthLength, Bucket} \subseteq Nat \ {0}
    /\ {LastSlot, MaxCollected} \subseteq Nat

VARIABLES
    family,    \* the kind of dataset collected
    tick,      \* the clock
    facts,     \* slots the source has
    vintage,   \* revisions published
    keeper,    \* the collection of each command
    catalog,   \* the directories
    collected  \* collections begun

frozenVars == <<family, tick, facts, vintage, keeper, catalog, collected>>

Families == {"bars", "archived", "verified", "events", "quotes", "series"}
Steps    == {"idle", "reading", "verifying", "checking", "rows",
             "manifest", "replacing", "refused"}

Row      == [slot : 0..LastSlot, whole : BOOLEAN, vintage : 0..1]
Manifest == [start : 0..LastSlot, end : 0..(LastSlot + 1), rows : SUBSET Row]
Dataset  == [id : Manifest, at : 0..LastSlot, files : SUBSET {"rows", "manifest"}]

NoWork == [step |-> "idle", start |-> 0, end |-> 0, at |-> 0, cursor |-> 0,
           rows |-> {}, files |-> {}]

SlotsOf(rows) == {r.slot : r \in rows}

-----------------------------------------------------------------------------
(* What a collection may ask for.                                          *)

\* requested_end no later than the collection; bars may end in the future.
EndsInTime(end, at) ==
    CASE family = "bars"                     -> TRUE
      [] family \in {"archived", "verified"} -> end <= at - (at % MonthLength)
      [] family \in {"events", "quotes"}     -> end <= at
      [] family = "series"                   -> end = at

InWindow(w, t) == w.start <= t /\ t < w.end

\* The months a window covers, whole.
MonthsCovering(w) ==
    {t \in 0..LastSlot : \E u \in 0..LastSlot :
        InWindow(w, u) /\ t \div MonthLength = u \div MonthLength}

-----------------------------------------------------------------------------
(* The source, as read now.                                                *)

RowOf(t) == [slot |-> t, whole |-> t < tick, vintage |-> IF family = "series" THEN vintage ELSE 0]

\* A page of klines from the cursor: the bar of the present slot still forms.
PageFrom(w) ==
    LET offered == {t \in facts \cup {tick} : w.cursor <= t /\ t < w.end}
    IN  {t \in offered : Cardinality({u \in offered : u <= t}) <= PageSize}

\* A page that keeps the bar still forming when the collection began.
ClosedOrForming(t, at) == t <= at

\* close_ms > collected_ms is passed over.
Closed(t, at) == t < at

\* The slots of the window the tables have.
Tabled(w) == {t \in facts : InWindow(w, t)}

\* Of quotes, the first of each bucket.
FirstOfBuckets(slots) ==
    {t \in slots : ~ \E u \in slots : u < t /\ u \div Bucket = t \div Bucket}

\* Of a series, all its publisher has, in its present vintage.
Published == {RowOf(t) : t \in facts}

\* What one select or download returns.
AllRows(w) ==
    CASE family = "series" -> Published
      [] family = "quotes" -> {RowOf(t) : t \in FirstOfBuckets(Tabled(w))}
      [] OTHER             -> {RowOf(t) : t \in Tabled(w)}

-----------------------------------------------------------------------------
(* What the manifests and the datasets refuse.                             *)

\* _validate_bars: some bars, without a gap.
Contiguous(slots) == \A t \in slots : t = Max(slots) \/ t + 1 \in slots

\* An archive alone must have no gap; both ends lie within one interval of
\* the window.
FundingCovers(w, slots) ==
    /\ family = "archived" => Contiguous(slots)
    /\ Min(slots) - w.start <= 1
    /\ w.end - Max(slots) <= 1

\* Events lie in the window; there may be none.
EventsFit(w, slots) == \A t \in slots : InWindow(w, t)

\* At least two quotes, in the window.
QuotesFit(w, slots) == Cardinality(slots) > 1 /\ EventsFit(w, slots)

\* At least two observations, none later than the collection.
SeriesFits(w, slots) == Cardinality(slots) > 1 /\ Max(slots) <= w.at

Acceptable(w) ==
    LET slots == SlotsOf(w.rows)
    IN  CASE family = "bars"   -> slots # {} /\ Contiguous(slots)
          [] family = "events" -> EventsFit(w, slots)
          [] family = "quotes" -> QuotesFit(w, slots)
          [] family = "series" -> SeriesFits(w, slots)
          [] OTHER             -> slots # {} /\ FundingCovers(w, slots)

\* The identity of a dataset leaves out when it was collected.
IdOf(w) == [start |-> w.start, end |-> w.end, rows |-> w.rows]

Stored(id) == {d \in catalog : d.id = id}

\* Bars, funding and events compare all but collected_at; quotes and series
\* compare all of it.
SameContent(d, w) == family \in {"quotes", "series"} => d.at = w.at

-----------------------------------------------------------------------------
FrozenInit ==
    /\ family \in Families
    /\ tick = 0 /\ facts = {} /\ vintage = 0
    /\ keeper = [k \in Keepers |-> NoWork]
    /\ catalog = {} /\ collected = 0

\* The slot ends, with something the source has or with nothing.
SlotEnds ==
    /\ tick < LastSlot
    /\ tick' = tick + 1
    /\ facts' \in {facts, facts \cup {tick}}
    /\ UNCHANGED <<family, vintage, keeper, catalog, collected>>

\* The publisher revises its history.
SourceRevises ==
    /\ family = "series" /\ vintage = 0 /\ facts # {}
    /\ vintage' = 1
    /\ UNCHANGED <<family, tick, facts, keeper, catalog, collected>>

\* The command checks the window it was asked for and takes collected_at.
BeginCollection(k) ==
    /\ keeper[k].step = "idle" /\ collected < MaxCollected
    /\ \E start \in 0..(LastSlot - 1), end \in 1..LastSlot :
        /\ start < end /\ EndsInTime(end, tick)
        /\ family = "series" => start = 0
        /\ keeper' = [keeper EXCEPT ![k] =
                [NoWork EXCEPT !.step = "reading", !.start = start, !.end = end,
                               !.at = tick, !.cursor = start]]
    /\ collected' = collected + 1
    /\ UNCHANGED <<family, tick, facts, vintage, catalog>>

\* _fetch_binance_kline_history: one page, or the end of the pages.
ReadPage(k) ==
    LET w    == keeper[k]
        page == PageFrom(w)
        kept == {RowOf(t) : t \in {u \in page : Closed(u, w.at)}}
    IN  /\ family = "bars" /\ w.step = "reading"
        /\ keeper' = [keeper EXCEPT ![k] =
             IF w.cursor >= w.end \/ page = {}
             THEN [w EXCEPT !.step = "checking"]
             ELSE [w EXCEPT !.rows = @ \cup kept, !.cursor = Max(page) + 1]]
        /\ UNCHANGED <<family, tick, facts, vintage, catalog, collected>>

\* The monthly archives; one of them may lack a settlement that took place.
ReadArchives(k) ==
    LET w       == keeper[k]
        covered == facts \cap MonthsCovering(w)
    IN  /\ family \in {"archived", "verified"} /\ w.step = "reading"
        /\ \E lost \in SUBSET covered :
            /\ Cardinality(lost) <= 1
            /\ LET read == {t \in covered \ lost : InWindow(w, t)}
               IN  keeper' = [keeper EXCEPT ![k].rows = {RowOf(t) : t \in read},
                                            ![k].step = IF read = {} THEN "refused"
                                                        ELSE IF family = "verified"
                                                             THEN "verifying" ELSE "checking"]
        /\ UNCHANGED <<family, tick, facts, vintage, catalog, collected>>

\* _verify_funding_observations: the settlements of the archives and those of
\* the exchange must be the same set.
VerifyFunding(k) ==
    LET w == keeper[k]
    IN  /\ w.step = "verifying"
        /\ keeper' = [keeper EXCEPT ![k].step =
                IF SlotsOf(w.rows) = Tabled(w) THEN "checking" ELSE "refused"]
        /\ UNCHANGED <<family, tick, facts, vintage, catalog, collected>>

\* Events and quotes are selected from their tables, a series is downloaded,
\* at once.
ReadAll(k) ==
    /\ family \in {"events", "quotes", "series"} /\ keeper[k].step = "reading"
    /\ keeper' = [keeper EXCEPT ![k].step = "checking", ![k].rows = AllRows(keeper[k])]
    /\ UNCHANGED <<family, tick, facts, vintage, catalog, collected>>

\* The dataset is built, its manifest and it checking each other; then store
\* loads a directory of its name and compares.
CheckAndLook(k) ==
    LET w == keeper[k]
    IN  /\ w.step = "checking"
        /\ keeper' = [keeper EXCEPT ![k] =
             IF ~ Acceptable(w) THEN [w EXCEPT !.step = "refused"]
             ELSE IF Stored(IdOf(w)) = {} THEN [w EXCEPT !.step = "rows"]
             ELSE IF \A d \in Stored(IdOf(w)) : SameContent(d, w) THEN NoWork
             ELSE [w EXCEPT !.step = "refused"]]
        /\ UNCHANGED <<family, tick, facts, vintage, catalog, collected>>

WriteRows(k) ==
    /\ keeper[k].step = "rows"
    /\ keeper' = [keeper EXCEPT ![k].step = "manifest", ![k].files = @ \cup {"rows"}]
    /\ UNCHANGED <<family, tick, facts, vintage, catalog, collected>>

WriteManifest(k) ==
    /\ keeper[k].step = "manifest"
    /\ keeper' = [keeper EXCEPT ![k].step = "replacing", ![k].files = @ \cup {"manifest"}]
    /\ UNCHANGED <<family, tick, facts, vintage, catalog, collected>>

\* temporary.replace(target): a directory that is not empty is not replaced,
\* and the temporary one is taken away.
ReplaceDirectory(k) ==
    LET w == keeper[k]
    IN  /\ w.step = "replacing"
        /\ IF Stored(IdOf(w)) = {}
           THEN /\ catalog' = catalog \cup {[id |-> IdOf(w), at |-> w.at, files |-> w.files]}
                /\ keeper' = [keeper EXCEPT ![k] = NoWork]
           ELSE /\ keeper' = [keeper EXCEPT ![k].step = "refused", ![k].files = {}]
                /\ UNCHANGED catalog
        /\ UNCHANGED <<family, tick, facts, vintage, collected>>

\* A command that was refused ends, or one is killed where it stands: what it wrote to its
\* temporary directory stays there, beside the catalog's names.
CommandEnds(k) ==
    /\ keeper[k].step # "idle"
    /\ keeper' = [keeper EXCEPT ![k] = NoWork]
    /\ UNCHANGED <<family, tick, facts, vintage, catalog, collected>>

FrozenNext ==
    \/ SlotEnds \/ SourceRevises
    \/ \E k \in Keepers :
        \/ BeginCollection(k) \/ ReadPage(k) \/ ReadArchives(k) \/ VerifyFunding(k)
        \/ ReadAll(k) \/ CheckAndLook(k) \/ WriteRows(k)
        \/ WriteManifest(k) \/ ReplaceDirectory(k) \/ CommandEnds(k)

FrozenSpec == FrozenInit /\ [][FrozenNext]_frozenVars

-----------------------------------------------------------------------------
(* load_window: a part of a bar dataset with the bars that precede it.     *)

WindowAllowed(d, start, end) ==
    start < end /\ start >= Min(SlotsOf(d.id.rows)) /\ end <= d.id.end

LoadWindow(d, start, end, warmup) ==
    LET slots  == SlotsOf(d.id.rows)
        before == {t \in slots : t < start}
        inside == {t \in slots : start <= t /\ t < end}
    IN  IF inside = {} THEN {}
        ELSE inside \cup {t \in before : Cardinality({u \in before : u >= t}) <= warmup}

-----------------------------------------------------------------------------
\* Every variable keeps its type.
FrozenTypeOK ==
    /\ family \in Families /\ tick \in 0..LastSlot /\ facts \subseteq 0..LastSlot
    /\ vintage \in 0..1 /\ collected \in 0..MaxCollected
    /\ \A d \in catalog : d \in Dataset
    /\ \A k \in Keepers :
        /\ keeper[k].step \in Steps /\ keeper[k].rows \subseteq Row
        /\ keeper[k].cursor \in 0..(LastSlot + 1)

\* What the source had of a window by the time of a collection.
HadBy(w, at) == {t \in facts : InWindow(w, t) /\ t < at}

\* What a dataset must hold of its window, given what the source had by then.
OwedOf(w, at) ==
    CASE family = "quotes"   -> FirstOfBuckets(HadBy(w, at))
      [] family = "archived" -> HadBy(w, at) \ {w.start}
      [] OTHER               -> HadBy(w, at)
Owed(d) == OwedOf(d.id, d.at)

\* Every dataset of the catalog is complete on disk and true: each of its rows
\* was over when it was read, none is of another window, and every slot of the
\* window the source had by collected_at is there (an archive alone may lack
\* the settlement its window begins with); a series is of one vintage; and a
\* window loaded from bars is without a gap and begins where it was asked to
\* (dataset.py:768-895, 962-998, 1076-1138, 198-259).
FrozenIsTrue ==
    \A d \in catalog :
        LET slots == SlotsOf(d.id.rows)
        IN  /\ d.files = {"rows", "manifest"}
            /\ \A r \in d.id.rows : r.whole
            /\ Cardinality({r.vintage : r \in d.id.rows}) <= 1
            /\ Owed(d) \subseteq slots
            /\ family # "series" => slots \subseteq Tabled(d.id)
            /\ family = "bars" =>
                \A start, end \in 0..LastSlot, warmup \in 0..1 :
                    WindowAllowed(d, start, end) =>
                        LET window == LoadWindow(d, start, end, warmup)
                        IN  window # {} => /\ Contiguous(window)
                                           /\ start \in window

\* A command that stores what the catalog already has succeeds.  Refuted: two
\* commands that store one dataset at once, or quotes and series collected
\* again later (quote_dataset.py:121-123, economic_series.py:153-155).
StoringAgainSucceeds ==
    \A k \in Keepers :
        (keeper[k].step = "refused" /\ Acceptable(keeper[k]) /\ family # "verified")
            => Stored(IdOf(keeper[k])) = {}

\* A window load_window allows is covered to its end.  Refuted: requested_end
\* may lie past the last bar collected (dataset.py:217).
AllowedWindowIsCovered ==
    \A d \in catalog : family = "bars" =>
        \A start, end \in 0..LastSlot :
            WindowAllowed(d, start, end) =>
                \A t \in start..(end - 1) : t \in LoadWindow(d, start, end, 0)

-----------------------------------------------------------------------------
(* Why a dataset is true: every collection is, as far as it got.           *)

WorkRow == [step : Steps, start : 0..LastSlot, end : 0..LastSlot, at : 0..LastSlot,
            cursor : 0..(LastSlot + 1), rows : SUBSET Row,
            files : SUBSET {"rows", "manifest"}]

\* Rows that were over, of one vintage and of the window.
RowsAreTrue(w) ==
    /\ \A r \in w.rows : /\ r.whole /\ r.slot \in facts
                         /\ family # "series" => InWindow(w, r.slot) /\ r.vintage = 0
    /\ \A r, s \in w.rows : r.vintage = s.vintage

\* The window is covered, and bars leave nothing out.
IsWhole(w, at) ==
    /\ OwedOf(w, at) \subseteq SlotsOf(w.rows)
    /\ family = "bars" => SlotsOf(w.rows) # {} /\ Contiguous(SlotsOf(w.rows))

\* A collection covers what it has read of the window, and all of it before
\* it writes; the archives alone are only known whole once they were checked.
WorkIsTrue(w) ==
    /\ w.at <= tick /\ w.start <= w.cursor
    /\ w.step # "idle" => EndsInTime(w.end, w.at)
    /\ RowsAreTrue(w)
    /\ w.step = "reading" /\ family = "bars" =>
          \A t \in HadBy(w, w.at) : t < w.cursor => t \in SlotsOf(w.rows)
    /\ w.step = "checking" /\ family # "archived" => OwedOf(w, w.at) \subseteq SlotsOf(w.rows)
    /\ w.step \in {"rows", "manifest", "replacing"} => IsWhole(w, w.at)
    /\ w.step = "manifest" => "rows" \in w.files
    /\ w.step = "replacing" => w.files = {"rows", "manifest"}

CatalogIsTrue ==
    \A d \in catalog :
        /\ d.at <= tick /\ EndsInTime(d.id.end, d.at)
        /\ d.files = {"rows", "manifest"}
        /\ RowsAreTrue(d.id) /\ IsWhole(d.id, d.at)

FrozenInvariant ==
    /\ FrozenTypeOK /\ keeper \in [Keepers -> WorkRow]
    /\ \A t \in facts : t < tick
    /\ \A k \in Keepers : WorkIsTrue(keeper[k])
    /\ CatalogIsTrue
=============================================================================
