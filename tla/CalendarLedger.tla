----------------------------- MODULE CalendarLedger -----------------------------
(***************************************************************************)
(* The calendars of official events, read as snapshots and kept as         *)
(* revisions of each event:                                                *)
(*   information/official/repository.py   the ingestors and the store      *)
(*   information/official/public_calendar.py, economic_calendar.py,        *)
(*   treasury_buybacks.py, records.py     what a row of a calendar says    *)
(*                                                                         *)
(* A poll reads the whole calendar at one time, then stores one event per  *)
(* transaction, the ones it lists first and the cancellations of those it  *)
(* no longer lists after them.  A record holds all a row says, a revision  *)
(* of the calendar its time and status only.                               *)
(***************************************************************************)
EXTENDS Naturals

CONSTANTS Entries,   \* the events
          MaxDay     \* bound of the time

ASSUME CalendarAssumption == MaxDay \in Nat \ {0}

VARIABLES day,
          calendar,    \* whose calendar it is
          ledger,      \* event -> its latest record
          timing,      \* event -> its latest calendar revision
          ingest       \* the poll in progress, or what the last one read

calendarVars == <<day, calendar, ledger, timing, ingest>>

\* What becomes of a row that changes in what its revision does not hold: the
\* revision of a meeting of the committee holds all of it.
FomcRevision     == "none"
ChairRevision    == "refuse"
EconomicRevision == "refuse"
BuybackRevision  == "reuse"

\* past:    rows of events that are over are kept
\* removal: an event that is no longer listed is cancelled
FomcCalendar     == [past |-> TRUE,  removal |-> FALSE, detail |-> FomcRevision]
ChairCalendar    == [past |-> FALSE, removal |-> TRUE,  detail |-> ChairRevision]
EconomicCalendar == [past |-> FALSE, removal |-> TRUE,  detail |-> EconomicRevision]
BuybackCalendar  == [past |-> TRUE,  removal |-> TRUE,  detail |-> BuybackRevision]
Calendars == {FomcCalendar, ChairCalendar, EconomicCalendar, BuybackCalendar}

Days     == 1..MaxDay
Absent   == [status |-> "absent", at |-> 0, detail |-> 0]
Rows     == [status : {"SCHEDULED"}, at : Days,
             detail : IF calendar.detail = "none" THEN {0} ELSE {0, 1}]
NoRecord == [row |-> Absent, seen |-> 0]
NoTiming == [status |-> "absent", at |-> 0, seen |-> 0]
AtRest   == [pc |-> "rest", read |-> 0, rows |-> [e \in Entries |-> Absent],
             covered |-> {}, ended |-> FALSE, todo |-> {}, gone |-> {}]

CalendarTypeOK ==
    /\ day \in Days /\ calendar \in Calendars
    /\ \A e \in Entries :
         /\ ledger[e].seen \in 0..day /\ timing[e].seen \in 0..ledger[e].seen
    /\ ingest.pc \in {"rest", "storing"}
    /\ ingest.todo \cup ingest.gone \cup ingest.covered \subseteq Entries

CalendarInit ==
    /\ day = 1
    /\ calendar \in Calendars
    /\ ledger = [e \in Entries |-> NoRecord]
    /\ timing = [e \in Entries |-> NoTiming]
    /\ ingest = AtRest

-----------------------------------------------------------------------------
Cancelled(row) == [row EXCEPT !.status = "CANCELLED"]

\* The events a snapshot read now speaks of.
Current(rows) == {e \in Entries : rows[e] # Absent /\ (calendar.past \/ rows[e].at >= day)}

\* The events it no longer speaks of, of the years or the cycle it covers.
Removed(rows, covered) ==
    {e \in covered \ Current(rows) :
        /\ calendar.removal
        /\ ledger[e].row.status = "SCHEDULED"
        /\ ledger[e].row.at > day
        /\ ledger[e].seen < day}

\* The source shows whatever it likes.  Successive polls read a later clock.
ReadCalendar ==
    /\ ingest.pc = "rest" /\ ingest.read < day
    /\ \E rows \in [Entries -> Rows \cup {Absent}], covered \in SUBSET Entries :
         /\ {e \in Entries : rows[e] # Absent} \subseteq covered
         /\ ingest' = [pc |-> "storing", read |-> day, rows |-> rows,
                       covered |-> covered, ended |-> FALSE,
                       todo |-> Current(rows), gone |-> Removed(rows, covered)]
    /\ UNCHANGED <<day, calendar, ledger, timing>>

SameTiming(e, row) == timing[e].status = row.status /\ timing[e].at = row.at
SameTime(e, row)   == timing[e].at = row.at

\* A row that is already there needs the revision that came with it; a new one
\* must be read later, and bring a new revision where none can be reused.
Replays(e, row) == ledger[e].row = row
Reuses(e, row)  == SameTiming(e, row)
Refused(e, row) ==
    IF Replays(e, row) THEN timing[e].seen # ledger[e].seen
    ELSE \/ ledger[e].seen >= ingest.read
         \/ calendar.detail # "reuse" /\ SameTiming(e, row)

PutRecord(e, row) ==
    IF Refused(e, row)
    THEN ingest' = [AtRest EXCEPT !.read = ingest.read] /\ UNCHANGED <<ledger, timing>>
    ELSE /\ ingest' = [ingest EXCEPT !.todo = @ \ {e}, !.gone = @ \ {e}]
         /\ IF Replays(e, row) THEN UNCHANGED <<ledger, timing>>
            ELSE /\ ledger' = [ledger EXCEPT ![e] = [row |-> row, seen |-> ingest.read]]
                 /\ timing' = IF Reuses(e, row) THEN timing
                              ELSE [timing EXCEPT ![e] = [status |-> row.status,
                                        at |-> row.at, seen |-> ingest.read]]

StoreCurrent ==
    /\ ingest.pc = "storing"
    /\ \E e \in ingest.todo : PutRecord(e, ingest.rows[e])
    /\ UNCHANGED <<day, calendar>>

StoreCancellation ==
    /\ ingest.pc = "storing" /\ ingest.todo = {}
    /\ \E e \in ingest.gone : PutRecord(e, Cancelled(ledger[e].row))
    /\ UNCHANGED <<day, calendar>>

\* A parser or a store fails the poll, what it stored stays.
IngestFails ==
    /\ ingest.pc = "storing"
    /\ ingest' = [AtRest EXCEPT !.read = ingest.read]
    /\ UNCHANGED <<day, calendar, ledger, timing>>

IngestEnds ==
    /\ ingest.pc = "storing" /\ ingest.todo = {} /\ ingest.gone = {}
    /\ ingest' = [ingest EXCEPT !.pc = "rest", !.ended = TRUE]
    /\ UNCHANGED <<day, calendar, ledger, timing>>

DayPasses ==
    /\ day < MaxDay
    /\ day' = day + 1
    /\ UNCHANGED <<calendar, ledger, timing, ingest>>

CalendarNext ==
    \/ ReadCalendar \/ StoreCurrent \/ StoreCancellation \/ IngestFails \/ IngestEnds
    \/ DayPasses

CalendarSpec == CalendarInit /\ [][CalendarNext]_calendarVars

-----------------------------------------------------------------------------
(* When a poll has ended, the calendar of the events to come is the one it *)
(* read: what it lists is scheduled as listed, what it covers and does not *)
(* list is not scheduled; and at any time, polls broken off included, the  *)
(* latest revision of an event has the time and the status of its latest   *)
(* record.                                                                 *)
CalendarMirrorsSource ==
    /\ \A e \in Entries :
          timing[e].status = ledger[e].row.status /\ timing[e].at = ledger[e].row.at
    /\ ingest.ended => \A e \in ingest.covered :
          LET row == ingest.rows[e] IN
          IF row # Absent /\ row.at >= ingest.read
          THEN ledger[e].row = row
          ELSE calendar.removal /\ ledger[e].row.status = "SCHEDULED" =>
                   \/ ledger[e].row.at <= ingest.read
                   \/ ledger[e].row = row

\* NOT an invariant: a calendar that only changes the details of a row can
\* be read.  The reused revision belongs to another observation, and the
\* next poll that replays the row does not find one for it.
DetailsDoNotBreakPolls ==
    calendar.detail = "reuse" /\ ingest.pc = "storing" =>
        \A e \in ingest.todo : ~Refused(e, ingest.rows[e])

-----------------------------------------------------------------------------
(* Why it does: a poll works off what its snapshot lists, and after that   *)
(* what it should cancel, each event in one of the two; nothing was        *)
(* observed after the clock the poll read.                                 *)
AnyRow == [status : {"absent", "SCHEDULED", "CANCELLED"}, at : 0..MaxDay, detail : {0, 1}]

RecordsAndPoll ==
    /\ day \in Days /\ calendar \in Calendars
    /\ ledger \in [Entries -> [row : AnyRow, seen : 0..ingest.read]]
    /\ timing \in [Entries -> [status : {"absent", "SCHEDULED", "CANCELLED"},
                               at : 0..MaxDay, seen : 0..ingest.read]]
    /\ ingest \in [pc : {"rest", "storing"}, read : 0..day, rows : [Entries -> AnyRow],
                   covered : SUBSET Entries, ended : BOOLEAN,
                   todo : SUBSET Entries, gone : SUBSET Entries]

TimingMirrorsLedger ==
    \A e \in Entries :
       timing[e].status = ledger[e].row.status /\ timing[e].at = ledger[e].row.at

\* The events the snapshot of the poll speaks of.
Listed == {e \in Entries : ingest.rows[e] # Absent /\
                           (calendar.past \/ ingest.rows[e].at >= ingest.read)}

PollIsWorkedOff ==
    /\ ingest.todo \subseteq Listed /\ ingest.gone \cap Listed = {}
    /\ ingest.ended => ingest.todo = {} /\ ingest.gone = {}
    /\ ingest.pc = "storing" \/ ingest.ended =>
          /\ \A e \in Listed : ledger[e].row = ingest.rows[e] \/ e \in ingest.todo
          /\ \A e \in ingest.covered \ Listed :
                calendar.removal /\ ledger[e].row.status = "SCHEDULED"
                                 /\ ledger[e].row.at > ingest.read => e \in ingest.gone

CalendarInvariant == RecordsAndPoll /\ TimingMirrorsLedger /\ PollIsWorkedOff
=============================================================================
