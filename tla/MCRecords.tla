------------------------------- MODULE MCRecords -------------------------------
(***************************************************************************)
(* The services that observe the world and keep what they observe, and the *)
(* choice of what an analysis is shown, one instance of each.  They meet   *)
(* only in tables that each reads from its own side, so a behaviour of     *)
(* this module is a behaviour of one of them, the part, and the others     *)
(* stay where they begin.                                                  *)
(***************************************************************************)
EXTENDS FactFeed, StateHistory, InformationFeed, CalendarLedger, MetricSeries,
        PacketSelection, MarketFeed, MarketStore, TLC

VARIABLE part

Parts == {"facts", "history", "information", "calendar", "metrics", "packet",
          "market", "store"}

recordsVars == <<part, feedVars, historyVars, informationVars, calendarVars,
                 metricVars, packetVars, marketVars, storeVars>>

NothingToSelect ==
    /\ shown = [facts |-> {}, events |-> {}] /\ limit \in {CHOOSE l \in Limits : TRUE}
    /\ context = 0 /\ draft = NoDraft /\ step = "select"

\* A part that stays where it begins begins in one way.
RecordsInit ==
    /\ part \in Parts
    /\ HistoryInit /\ MarketInit
    /\ FeedInit /\ (part # "facts" => feed = CHOOSE f \in Feeds : TRUE)
    /\ InformationInit /\ (part # "information" => readers = CHOOSE g \in Groups : TRUE)
    /\ CalendarInit /\ (part # "calendar" => calendar = CHOOSE c \in Calendars : TRUE)
    /\ MetricInit /\ (part # "metrics" => stream = CHOOSE s \in MetricStreams : TRUE)
    /\ StoreInit /\ (part # "store" => kind = CHOOSE k \in Kinds : TRUE)
    /\ IF part = "packet" THEN PacketInit ELSE NothingToSelect

RecordsNext ==
    /\ UNCHANGED part
    /\ \/ /\ part = "facts" /\ FeedNext
          /\ UNCHANGED <<historyVars, informationVars, calendarVars, metricVars,
                         packetVars, marketVars, storeVars>>
       \/ /\ part = "history" /\ HistoryNext
          /\ UNCHANGED <<feedVars, informationVars, calendarVars, metricVars,
                         packetVars, marketVars, storeVars>>
       \/ /\ part = "information" /\ InformationNext
          /\ UNCHANGED <<feedVars, historyVars, calendarVars, metricVars,
                         packetVars, marketVars, storeVars>>
       \/ /\ part = "calendar" /\ CalendarNext
          /\ UNCHANGED <<feedVars, historyVars, informationVars, metricVars,
                         packetVars, marketVars, storeVars>>
       \/ /\ part = "metrics" /\ MetricNext
          /\ UNCHANGED <<feedVars, historyVars, informationVars, calendarVars,
                         packetVars, marketVars, storeVars>>
       \/ /\ part = "packet" /\ PacketNext
          /\ UNCHANGED <<feedVars, historyVars, informationVars, calendarVars,
                         metricVars, marketVars, storeVars>>
       \/ /\ part = "market" /\ MarketNext
          /\ UNCHANGED <<feedVars, historyVars, informationVars, calendarVars,
                         metricVars, packetVars, storeVars>>
       \/ /\ part = "store" /\ StoreNext
          /\ UNCHANGED <<feedVars, historyVars, informationVars, calendarVars,
                         metricVars, packetVars, marketVars>>

RecordsSpec == RecordsInit /\ [][RecordsNext]_recordsVars

\* Every variable of every service keeps its type.
RecordsTypeOK ==
    /\ FeedTypeOK /\ HistoryTypeOK /\ InformationTypeOK /\ CalendarTypeOK
    /\ MetricTypeOK /\ (part = "packet" => PacketTypeOK)
    /\ MarketTypeOK /\ StoreTypeOK

\* The other parts have nothing to select from.
SelectedPacketInvariant == part = "packet" => PacketInvariant

-----------------------------------------------------------------------------
(* What a state may show, chosen so that every limit is met and missed.    *)
AFact(i, k, d, c, ch) ==
    [id |-> i, kind |-> k, direct |-> d, candidate |-> c, channel |-> ch]
AnEvent(i, d, r, s) == [id |-> i, direct |-> d, retained |-> r, strong |-> s]

MCFactPool == {{f, g, h} :
    f \in {AFact(1, "continuous", d, FALSE, ch) : d \in BOOLEAN, ch \in {{1}, {2}, {1, 2}}}
          \cup {AFact(1, "fresh", TRUE, FALSE, {1}), AFact(1, "old", FALSE, TRUE, {2}),
                AFact(1, "calendar", FALSE, FALSE, {1})},
    g \in {AFact(2, "continuous", FALSE, c, ch) : c \in BOOLEAN, ch \in {{1}, {1, 2}}}
          \cup {AFact(2, "policy", FALSE, FALSE, {1}), AFact(2, "calendar", FALSE, FALSE, {2})},
    h \in {AFact(3, "continuous", FALSE, FALSE, {2}), AFact(3, "fresh", FALSE, FALSE, {1}),
           AFact(3, "policy", FALSE, FALSE, {2})}}
MCEventPool == {{}, {AnEvent(1, TRUE, FALSE, FALSE), AnEvent(2, FALSE, FALSE, FALSE)},
                {AnEvent(1, FALSE, TRUE, FALSE), AnEvent(2, FALSE, FALSE, TRUE)}}
MCLimits == [facts : {2, 3}, raw : {4, 6}, events : {1}, packet : {3, 4, 5}]
=============================================================================
