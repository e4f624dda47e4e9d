---------------------------- MODULE InformationFeed ----------------------------
(***************************************************************************)
(* From the news and publication sources to normalized events and their    *)
(* triggers:                                                               *)
(*   information/collector.py              sources, normalizer, collector  *)
(*   information/official/publications.py  indexes of publications         *)
(*   information/models.py                 what a revision adds            *)
(*   information/repository.py             the event store                 *)
(*                                                                         *)
(* One document, at one address of one upstream source, that upstream      *)
(* revises.  A text is a set of fragments, the symbols it is routed to     *)
(* among them.  The sources of a collection are read in parallel and       *)
(* stored one after the other, in the order their reads complete.          *)
(***************************************************************************)
EXTENDS Naturals, Sequences

CONSTANTS MaxEditions,   \* bound of the editions upstream makes
          MaxHour,       \* bound of the time
          MaxRestarts    \* bound of the collector's restarts

ASSUME InformationAssumption ==
    {MaxEditions, MaxHour} \subseteq Nat \ {0} /\ MaxRestarts \in Nat

VARIABLES hour,
          readers,    \* the sources that deliver the document
          edition,    \* what upstream publishes
          cycle,      \* observation time of the collection under way, 0: none
          reads,      \* source -> its read
          memory,     \* what the source object remembers of the document
          events,     \* stored events, in order of storing
          wakeups,    \* events with a trigger
          restarts

informationVars == <<hour, readers, edition, cycle, reads, memory, events, wakeups, restarts>>

\* The aggregator is read by two routes under one name.
Groups   == {{"mcp", "fast"}, {"rss"}, {"index"}}
Waiting  == [pc |-> "idle", text |-> {}, at |-> 0]
Nothing  == [validator |-> 0, page |-> 0, at |-> 0]
Part(kind, e) == <<kind, e>>
Texts    == SUBSET ({"title", "hover", "summary", "body"} \X (1..MaxEditions))

InformationTypeOK ==
    /\ hour \in 1..MaxHour /\ cycle \in 0..hour
    /\ readers \in Groups /\ DOMAIN reads = readers
    /\ \A s \in readers : reads[s].pc \in {"idle", "reading", "read", "done"}
                          /\ reads[s].text \in Texts
    /\ \A i \in DOMAIN events : events[i].at \in 1..hour /\ events[i].text \in Texts
    /\ wakeups \subseteq DOMAIN events

InformationInit ==
    /\ hour = 1
    /\ readers \in Groups
    /\ edition = 1
    /\ cycle = 0
    /\ reads = [s \in readers |-> Waiting]
    /\ memory = Nothing
    /\ events = <<>> /\ wakeups = {}
    /\ restarts = 0

-----------------------------------------------------------------------------
(* The sources.                                                            *)

Delivers(s, text, at) == reads' = [reads EXCEPT ![s] = [pc |-> "read", text |-> text, at |-> at]]
\* Nothing to store: unchanged, failed, or too old.
Ends(s) == reads' = [reads EXCEPT ![s].pc = "done"]

BeginCollection ==
    /\ cycle = 0
    /\ cycle' = hour
    /\ reads' = [s \in readers |-> [Waiting EXCEPT !.pc = "reading"]]
    /\ UNCHANGED <<hour, readers, edition, memory, events, wakeups, restarts>>

\* The slow route carries the title, dated by the collection.
ReadMcp ==
    /\ Delivers("mcp", {Part("title", edition)}, cycle)
    /\ UNCHANGED memory

\* The fast route carries a note as well, dated by its own answer.
ReadFast ==
    /\ Delivers("fast", {Part("title", edition), Part("hover", edition)}, hour)
    /\ UNCHANGED memory

\* A feed's validator is kept with the answer.  The page of an entry is
\* fetched once; the summary stands in for a page that cannot be read.
ReadRss ==
    IF memory.validator = edition THEN Ends("rss") /\ UNCHANGED memory
    ELSE \E page \in (IF memory.page # 0 THEN {memory.page} ELSE {0, edition}) :
           /\ memory' = [memory EXCEPT !.validator = edition, !.page = page]
           /\ Delivers("rss", {Part("title", edition),
                               IF page = 0 THEN Part("summary", edition)
                               ELSE Part("body", page)}, cycle)

\* The pages of an index are remembered with the time they were read, and
\* delivered again every time; one that cannot be read fails the source.
ReadIndex ==
    LET known == memory.page # 0
        text  == {Part("title", memory.page), Part("body", memory.page)}
    IN  \/ /\ memory.validator = edition \/ known
           /\ memory' = [memory EXCEPT !.validator = edition]
           /\ IF known THEN Delivers("index", text, memory.at) ELSE Ends("index")
        \/ /\ memory.validator # edition /\ ~known
           /\ \/ /\ memory' = [validator |-> edition, page |-> edition, at |-> cycle]
                 /\ Delivers("index", {Part("title", edition), Part("body", edition)}, cycle)
              \/ /\ memory' = [memory EXCEPT !.validator = edition]
                 /\ Ends("index")

Read(s) ==
    /\ reads[s].pc = "reading"
    /\ \/ s = "mcp"   /\ ReadMcp
       \/ s = "fast"  /\ ReadFast
       \/ s = "rss"   /\ ReadRss
       \/ s = "index" /\ ReadIndex
       \/ Ends(s) /\ UNCHANGED memory      \* the source is unreachable
    /\ UNCHANGED <<hour, readers, edition, cycle, events, wakeups, restarts>>

-----------------------------------------------------------------------------
(* The event store.                                                        *)

Recorded(at) == {i \in DOMAIN events : events[i].at <= at}

\* An observation is news when part of it is in no earlier one.
IsNews(text, at) == ~ text \subseteq UNION {events[i].text : i \in Recorded(at)}
IsFirst(text, at) == Recorded(at) = {}

AddsInformation(text, at) == IsNews(text, at)

\* The same text of the same source is one event.
Put(text, at) ==
    IF \E i \in DOMAIN events : events[i].text = text
    THEN UNCHANGED <<events, wakeups>>
    ELSE /\ events' = Append(events, [text |-> text, at |-> at,
                                      news |-> AddsInformation(text, at)])
         /\ wakeups' = IF AddsInformation(text, at)
                       THEN wakeups \cup {Len(events) + 1} ELSE wakeups

\* The normalizer routes a text, or drops one that names nothing relevant.
Normalized(text) == {text, {}}

\* The reads of a collection are stored by one thread; a store that fails
\* fails the source's poll.
StoreRead(s) ==
    /\ reads[s].pc = "read"
    /\ \/ \E text \in Normalized(reads[s].text) :
             IF text = {} THEN UNCHANGED <<events, wakeups>> ELSE Put(text, reads[s].at)
       \/ UNCHANGED <<events, wakeups>>
    /\ Ends(s)
    /\ UNCHANGED <<hour, readers, edition, cycle, memory, restarts>>

EndCollection ==
    /\ cycle # 0
    /\ \A s \in readers : reads[s].pc = "done"
    /\ cycle' = 0
    /\ reads' = [s \in readers |-> Waiting]
    /\ UNCHANGED <<hour, readers, edition, memory, events, wakeups, restarts>>

CollectorRestarts ==
    /\ restarts < MaxRestarts
    /\ restarts' = restarts + 1
    /\ cycle' = 0 /\ memory' = Nothing
    /\ reads' = [s \in readers |-> Waiting]
    /\ UNCHANGED <<hour, readers, edition, events, wakeups>>

UpstreamRevises ==
    /\ edition < MaxEditions
    /\ edition' = edition + 1
    /\ UNCHANGED <<hour, readers, cycle, reads, memory, events, wakeups, restarts>>

HourPasses ==
    /\ hour < MaxHour
    /\ hour' = hour + 1
    /\ UNCHANGED <<readers, edition, cycle, reads, memory, events, wakeups, restarts>>

InformationNext ==
    \/ BeginCollection \/ EndCollection
    \/ \E s \in readers : Read(s) \/ StoreRead(s)
    \/ CollectorRestarts \/ UpstreamRevises \/ HourPasses

InformationSpec == InformationInit /\ [][InformationNext]_informationVars

-----------------------------------------------------------------------------
\* The revision of the document an analysis reads: the latest that was news.
ShownAt(at) ==
    {i \in Recorded(at) : events[i].news /\
        \A j \in Recorded(at) : events[j].news => events[j].at <= events[i].at}

(* Nothing is stored silently: every part of every stored text was part of *)
(* an event that woke the analysis, whatever the order in which the routes *)
(* of a document are dated and stored.                                     *)
EveryPartWasNews ==
    \A i \in DOMAIN events, part \in UNION {events[k].text : k \in DOMAIN events} :
       part \in events[i].text => \E w \in wakeups : part \in events[w].text

\* NOT an invariant: an event wakes the analysis only for something that
\* was not stored before.  The slow route, dated by the start of the
\* collection, does not see the fast one, stored first and dated later.
WakesForNews ==
    \A w \in wakeups : ~ events[w].text \subseteq UNION {events[i].text : i \in 1..(w - 1)}

\* NOT an invariant: the page once read stays what the analysis sees while
\* upstream publishes the same edition.
PageStaysShown ==
    \A i \in DOMAIN events : Part("body", edition) \in events[i].text =>
        \E j \in ShownAt(hour) : Part("body", edition) \in events[j].text

\* NOT an invariant: between collections, a source that has the edition's
\* validator has stored the edition.
ValidatedIsStored ==
    cycle = 0 /\ memory.validator = edition =>
        \E i \in DOMAIN events : Part("title", edition) \in events[i].text

-----------------------------------------------------------------------------
\* Why it was: a text that is no news says what earlier ones did.
StoredEvents ==
    /\ {hour, cycle} \subseteq Nat /\ edition \in 1..MaxEditions
    /\ memory \in [validator : 0..MaxEditions, page : 0..MaxEditions, at : Nat]
    /\ reads \in [readers -> [pc : {"idle", "reading", "read", "done"}, text : Texts, at : Nat]]
    /\ events \in Seq([text : Texts, at : Nat, news : BOOLEAN])
    /\ wakeups \subseteq DOMAIN events

InformationInvariant == StoredEvents /\ EveryPartWasNews
=============================================================================
