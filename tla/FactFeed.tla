------------------------------- MODULE FactFeed -------------------------------
(***************************************************************************)
(* From a source to the revisions of one fact:                             *)
(*   information/official/source.py, repository.py   fetch, observations   *)
(*   state/official_ingestion.py, metric_ingestion.py,                     *)
(*   economic_releases.py              the collectors and ingestors        *)
(*   state/facts.py, repository.py     the fact ledger                     *)
(*   scheduling/fact_triggers.py       triggers of revisions               *)
(*                                                                         *)
(* The fact is that of one feed; which one is left open, for the           *)
(* collectors differ only in what its record says.  A fact carries the     *)
(* time its observation was fetched and reaches the ledger later.          *)
(***************************************************************************)
EXTENDS Naturals, Sequences

CONSTANTS MaxVersions,    \* bound of the versions a source publishes
          MaxInstant,     \* bound of the time
          PollInterval,   \* poll_seconds
          Validity,       \* how long a trigger of a revision is worth sending
          ResolveBy,      \* deadline_seconds of an actual value, from time 0
          MaxCrashes      \* bound of the restarts of the collector

ASSUME FeedAssumption ==
    /\ {MaxVersions, MaxInstant, PollInterval, Validity} \subseteq Nat \ {0}
    /\ {ResolveBy, MaxCrashes} \subseteq Nat

VARIABLES instant,
          feed,        \* what the collector and the ingestor of the fact do
          version,     \* what the source publishes now; 0: nothing yet
          tag,         \* validator kept by the source client, 0: none
          observed,    \* observations stored, in order
          facts,       \* revisions of the fact, in order
          work,        \* the poll in progress
          polls,       \* the latest poll and the latest that did not fail
          told,        \* revisions this process has dealt with
          triggers,    \* revisions with a trigger in the outbox
          crashes

feedVars == <<instant, feed, version, tag, observed, facts, work, polls, told,
                triggers, crashes>>

Instants == 0..MaxInstant
Revisions == 1..Len(facts)
Gone     == MaxVersions + 1      \* the value of an UNAVAILABLE revision
Polling  == [pc |-> "rest", doc |-> 0, inserted |-> FALSE, fresh |-> FALSE]

(* What an ingestor does with an observation that was stored before:       *)
(* nothing ("ignore"), project it if its fact has no revision ("repair"),  *)
(* or if its event has no result yet ("resolve").                          *)
MetricIngest   == "repair"
FlowIngest     == "ignore"
FedIngest      == "repair"
RegisterIngest == "repair"
CalendarIngest == "repair"
BuybackIngest  == "repair"
ResultIngest   == "ignore"
ActualIngest   == "resolve"

(* How a source is asked: with the validator of its last answer, from a    *)
(* cache of its own that answers every poll, or anew.                      *)
MetricFetch   == "conditional"
FlowFetch     == "plain"
FedFetch      == "conditional"
RegisterFetch == "conditional"
CalendarFetch == "cached"
BuybackFetch  == "conditional"
ResultFetch   == "conditional"
ActualFetch   == "plain"

(* What a poll comes to when the source has no document for it.            *)
MetricPoll   == {"failed"}
FlowPoll     == {"failed"}
FedPoll      == {"failed"}
RegisterPoll == {"failed"}
CalendarPoll == {"failed"}
BuybackPoll  == {"failed"}
ResultPoll   == {"failed", "record"}
ActualPoll   == {"failed", "record"}

(* What a revision is to the analysis: a series of which only some         *)
(* revisions stand out, an event, or a date in a calendar.                 *)
MetricRole   == "continuous"
FlowRole     == "continuous"
ReleaseRole  == "event"
RegisterRole == "event"
CalendarRole == "scheduled"
BuybackRole  == "scheduled"
ResultRole   == "event"
ActualRole   == "event"

FeedOf(replay, fetch, miss, role) ==
    [replay |-> replay, fetch |-> fetch, miss |-> miss, role |-> role]

MetricFeed   == FeedOf(MetricIngest, MetricFetch, MetricPoll, MetricRole)
FlowFeed     == FeedOf(FlowIngest, FlowFetch, FlowPoll, FlowRole)
ReleaseFeed  == FeedOf(FedIngest, FedFetch, FedPoll, ReleaseRole)
RegisterFeed == FeedOf(RegisterIngest, RegisterFetch, RegisterPoll, RegisterRole)
CalendarFeed == FeedOf(CalendarIngest, CalendarFetch, CalendarPoll, CalendarRole)
BuybackFeed  == FeedOf(BuybackIngest, BuybackFetch, BuybackPoll, BuybackRole)
ResultFeed   == FeedOf(ResultIngest, ResultFetch, ResultPoll, ResultRole)
ActualFeed   == FeedOf(ActualIngest, ActualFetch, ActualPoll, ActualRole)
Feeds == {MetricFeed, FlowFeed, ReleaseFeed, RegisterFeed, CalendarFeed,
          BuybackFeed, ResultFeed, ActualFeed}

FeedTypeOK ==
    /\ instant \in Instants /\ version \in 0..MaxVersions /\ tag \in 0..MaxVersions
    /\ feed \in Feeds
    /\ \A i \in DOMAIN observed : observed[i] \in [value : 1..MaxVersions, at : Instants]
    /\ \A i \in Revisions : facts[i] \in [value : 1..Gone, at : Instants]
    /\ told \cup triggers \subseteq Revisions
    /\ work.pc \in {"rest", "store", "project", "record", "failed"}

FeedInit ==
    /\ instant = 0 /\ version = 0 /\ tag = 0
    /\ feed \in Feeds
    /\ observed = <<>> /\ facts = <<>>
    /\ work = Polling
    /\ polls = [status |-> "none", at |-> 0, success |-> 0]
    /\ told = {} /\ triggers = {}
    /\ crashes = 0

collector == <<tag, work, told>>
records   == <<observed, facts, polls, triggers>>

-----------------------------------------------------------------------------
(* The collector.                                                          *)

Resolved == Len(facts) > 0 /\ facts[Len(facts)].value # Gone

\* A release whose value is known is not polled any more, one that was
\* given up is, once in a deadline.
DueForPoll ==
    feed.replay = "resolve" =>
        /\ ~Resolved
        /\ Len(facts) > 0 => facts[Len(facts)].at + ResolveBy <= instant

\* The validator is kept as soon as the answer is there.
Fetch ==
    /\ work.pc = "rest"
    /\ DueForPoll
    /\ \/ /\ version # 0
          /\ (feed.fetch # "conditional" \/ tag # version)
          /\ work' = [Polling EXCEPT !.pc = "store", !.doc = version]
          /\ tag' = IF feed.fetch = "conditional" THEN version ELSE tag
       \/ /\ version # 0 /\ feed.fetch = "conditional" /\ tag = version
          /\ work' = [Polling EXCEPT !.pc = "record"]
          /\ UNCHANGED tag
       \/ /\ \E end \in feed.miss : work' = [Polling EXCEPT !.pc = end]
          /\ UNCHANGED tag
    /\ UNCHANGED <<instant, feed, version, told, records, crashes>>

\* The same payload again is no new observation; a new one must be later.
StoreObservation ==
    LET last == observed[Len(observed)] IN
    /\ work.pc = "store"
    /\ IF observed # <<>> /\ last.value = work.doc
       THEN /\ work' = [work EXCEPT !.pc = "project", !.doc = Len(observed)]
            /\ UNCHANGED observed
       ELSE IF observed # <<>> /\ last.at >= instant
       THEN work' = [work EXCEPT !.pc = "failed"] /\ UNCHANGED observed
       ELSE /\ observed' = Append(observed, [value |-> work.doc, at |-> instant])
            /\ work' = [work EXCEPT !.pc = "project", !.inserted = TRUE,
                                    !.doc = Len(observed) + 1]
    /\ UNCHANGED <<instant, feed, version, tag, facts, polls, triggers, told, crashes>>

\* The revision to write for an observation, if any.
Skipped(observation) ==
    \/ facts # <<>> /\ facts[Len(facts)].value = observation.value
    \/ /\ ~work.inserted
       /\ CASE feed.replay = "ignore"  -> TRUE
            [] feed.replay = "repair"  -> facts # <<>>
            [] feed.replay = "resolve" -> Resolved

\* A revision must be later than the one it succeeds.
PutFact(revision) ==
    IF facts # <<>> /\ facts[Len(facts)].at >= revision.at
    THEN work' = [work EXCEPT !.pc = "failed"] /\ UNCHANGED facts
    ELSE /\ facts' = Append(facts, revision)
         /\ work' = [work EXCEPT !.pc = "record", !.fresh = TRUE]

ProjectFact ==
    LET observation == observed[work.doc] IN
    /\ work.pc = "project"
    /\ IF Skipped(observation)
       THEN work' = [work EXCEPT !.pc = "record"] /\ UNCHANGED facts
       ELSE PutFact(observation)
    /\ UNCHANGED <<instant, feed, version, tag, observed, polls, triggers, told, crashes>>

\* A store fails under the poll.
PollBreaks ==
    /\ work.pc \in {"store", "project"}
    /\ work' = [work EXCEPT !.pc = "failed"]
    /\ UNCHANGED <<instant, feed, version, tag, told, records, crashes>>

GivesUpAgain ==
    /\ feed.replay = "resolve" /\ ~Resolved /\ instant >= ResolveBy
    /\ \/ work.pc = "record" /\ ~work.fresh
       \/ work.pc = "failed" /\ work.doc = 0

\* An obligation past its deadline that no document met is given up.
GivesUp ==
    /\ feed.replay = "resolve" /\ facts = <<>> /\ instant >= ResolveBy
    /\ \/ work.pc = "record" /\ ~work.fresh
       \/ work.pc = "failed" /\ work.doc = 0

\* A failed poll leaves the latest success where it is.
RecordPoll(status) ==
    polls' = IF status = "FAILED" THEN [polls EXCEPT !.status = status, !.at = instant]
             ELSE [status |-> status, at |-> instant, success |-> instant]

\* The end of a poll.  Giving up may fail, and fails the poll.
EndPoll ==
    /\ work.pc \in {"record", "failed"}
    /\ \E stored \in {GivesUp, FALSE} :
         /\ facts' = IF stored THEN Append(facts, [value |-> Gone, at |-> instant])
                     ELSE facts
         /\ RecordPoll(IF work.pc = "failed" \/ GivesUp # stored THEN "FAILED" ELSE "OK")
    /\ work' = Polling
    /\ UNCHANGED <<instant, feed, version, tag, observed, triggers, told, crashes>>

\* Revisions observed within the validity of a trigger of them.
RecentRevisions == {r \in Revisions : facts[r].at + Validity >= instant}

Material(r) == feed.role = "continuous" => facts[r].value % 2 = 1

\* Every recent revision is dealt with once by a process; its trigger is
\* the same whoever publishes it.
PublishRecent ==
    /\ work.pc = "rest"
    /\ RecentRevisions \ told # {}
    /\ told' = RecentRevisions
    /\ triggers' = triggers \cup
         {r \in RecentRevisions \ told : Material(r) /\ feed.role # "scheduled"}
    /\ UNCHANGED <<instant, feed, version, tag, work, observed, facts, polls, crashes>>

CollectorDies ==
    /\ crashes < MaxCrashes
    /\ crashes' = crashes + 1
    /\ tag' = 0 /\ work' = Polling /\ told' = {}
    /\ UNCHANGED <<instant, feed, version, records>>

SourceChanges ==
    /\ version < MaxVersions
    /\ version' = version + 1
    /\ UNCHANGED <<instant, feed, collector, records, crashes>>

TimePasses ==
    /\ instant < MaxInstant
    /\ instant' = instant + 1
    /\ UNCHANGED <<feed, version, collector, records, crashes>>

FeedNext ==
    \/ Fetch \/ StoreObservation \/ ProjectFact \/ PollBreaks \/ EndPoll
    \/ PublishRecent \/ CollectorDies \/ SourceChanges \/ TimePasses

FeedSpec == FeedInit /\ [][FeedNext]_feedVars

-----------------------------------------------------------------------------
\* What the analysis is told of the source.
Coverage ==
    CASE polls.status = "FAILED" -> "SOURCE_FAILED"
      [] \/ polls.status = "none"
         \/ polls.status = "OK" /\ polls.success + 2 * PollInterval < instant -> "SOURCE_STALE"
      [] OTHER -> "CURRENT"

(* The ledger is an ordered choice from the observations: each revision is *)
(* one of them, dated by it and saying something new, in the order they    *)
(* were made; only the first can be the mark that a release was given up,  *)
(* made at the deadline and not before it.                                 *)
LedgerFollowsObservations ==
    \A i \in Revisions :
       /\ IF facts[i].value = Gone
          THEN i = 1 /\ facts[i].at >= ResolveBy
          ELSE \E o \in DOMAIN observed : observed[o] = facts[i]
       /\ i > 1 => /\ facts[i].at > facts[i - 1].at
                   /\ facts[i].value # facts[i - 1].value

\* NOT an invariant: a source that covers its domain, and has changed
\* nothing since it was last read, is in the ledger.  A validator kept
\* before the document is stored turns the next poll into "unchanged".
CurrentMeansStored ==
    work.pc = "rest" /\ Coverage = "CURRENT" /\ version # 0 /\ tag = version
        => facts # <<>> /\ facts[Len(facts)].value = version

\* NOT an invariant: a release is given up only while no value of it was
\* read.  The value read but not projected is older than the mark, and
\* every later attempt to project it is refused.
GivenUpMeansUnread ==
    \A i \in Revisions : facts[i].value = Gone =>
        \A o \in DOMAIN observed : observed[o].at > facts[i].at

-----------------------------------------------------------------------------
(* Why it does: a poll projects an observation that is stored, and is told *)
(* the revision before it.                                                 *)
StoredAndInWork ==
    /\ instant \in Nat /\ feed \in Feeds
    /\ observed \in Seq([value : 1..MaxVersions, at : Instants])
    /\ facts \in Seq([value : 1..Gone, at : Instants])
    /\ version \in 0..MaxVersions
    /\ work \in [pc : {"rest", "store", "project", "record", "failed"}, doc : Nat,
                 inserted : BOOLEAN, fresh : BOOLEAN]
    /\ work.pc = "store" => work.doc \in 1..MaxVersions
    /\ work.pc = "project" => work.doc \in DOMAIN observed

FeedInvariant == StoredAndInWork /\ instant <= MaxInstant /\ LedgerFollowsObservations
=============================================================================
