----------------------------- MODULE StateHistory -----------------------------
(***************************************************************************)
(* How an analysis freezes what it knows:                                  *)
(*   state/decision/application.py   DecisionPacketApplication.prepare     *)
(*   state/projection.py             StateProjectionService.project        *)
(*   state/facts.py                  the snapshot and its material delta   *)
(*   state/repository.py             the chain of states and deltas        *)
(*   state/decision/repository.py    the packet's assembly                 *)
(*                                                                         *)
(* One scope with one fact and some intelligence events.  Preparations of  *)
(* one scope overlap: an activity that timed out runs on beside its retry, *)
(* and several triggers share the scope.  Facts and events carry the time  *)
(* they were observed and may reach the ledger later.                      *)
(***************************************************************************)
EXTENDS Naturals, FiniteSets, FiniteSetsExt

CONSTANTS Preparers,    \* preparations under way
          Events,       \* intelligence events
          DeltaLife,    \* validity_seconds of the delta policy
          MaxNow,       \* bound of the time
          MaxFacts      \* bound of the revisions of the fact

ASSUME HistoryAssumption ==
    /\ {DeltaLife, MaxNow, MaxFacts} \subseteq Nat \ {0}
    /\ IsFiniteSet(Preparers) /\ IsFiniteSet(Events)
    /\ Events \cap {"FACT", "SHOCK", "REVIEW"} = {}

VARIABLES now,
          revisions,  \* revisions of the fact: observation times, by number
          eventSeen,  \* event -> when it was observed, for the visible ones
          states,     \* as_of -> the recorded state
          preps,      \* preparer -> its preparation
          analysed,   \* events that were part of a packet
          dismissed   \* events whose preparation found nothing material

historyVars == <<now, revisions, eventSeen, states, preps, analysed, dismissed>>

Times  == 1..MaxNow
None   == 0             \* no revision, no state
Review == "REVIEW"      \* explicit review, or an event too weak on its own
Shock  == "SHOCK"
Causes == Events \cup {"FACT", Shock, Review}

NoDelta == [fact |-> None, events |-> {}, shock |-> FALSE]
Idle    == [pc |-> "rest", cause |-> "FACT", asof |-> None, fact |-> None,
            events |-> {}, before |-> None, delta |-> NoDelta]

HistoryTypeOK ==
    /\ now \in Times
    /\ DOMAIN revisions \in SUBSET (1..MaxFacts)
    /\ \A r \in DOMAIN revisions : revisions[r] \in Times
    /\ DOMAIN eventSeen \subseteq Events /\ \A e \in DOMAIN eventSeen : eventSeen[e] \in Times
    /\ DOMAIN states \subseteq Times
    /\ \A t \in DOMAIN states :
          /\ states[t].fact \in 0..MaxFacts /\ states[t].before \in 0..MaxNow
          /\ states[t].events \subseteq Events
    /\ \A p \in Preparers : /\ preps[p].pc \in {"rest", "again", "read", "compare", "packet"}
                            /\ preps[p].asof \in 0..MaxNow
                            /\ preps[p].cause \in Causes
    /\ analysed \cup dismissed \subseteq Events

HistoryInit ==
    /\ now = 1
    /\ revisions = <<>>
    /\ eventSeen = <<>>
    /\ states = <<>>
    /\ preps = [p \in Preparers |-> Idle]
    /\ analysed = {} /\ dismissed = {}

-----------------------------------------------------------------------------
(* What the ledgers say.                                                   *)

Latest(times) == IF times = {} THEN None ELSE Max(times)

FactAsOf(t)    == Latest({r \in DOMAIN revisions : revisions[r] <= t})
VisibleAt(t)   == {e \in DOMAIN eventSeen : eventSeen[e] <= t}
StateBefore(t) == Latest({s \in DOMAIN states : s < t})
LatestState    == Latest(DOMAIN states)

\* Revisions of a continuous series matter only when they stand out.
IsMaterial(r) == r # None /\ r % 2 = 1

\* What a state says beyond the one before it, for a cause.
DeltaOf(p) ==
    LET q == preps[p] IN
    IF q.before = None THEN NoDelta
    ELSE [fact   |-> IF q.fact # states[q.before].fact /\ IsMaterial(q.fact)
                     THEN q.fact ELSE None,
          events |-> {q.cause} \cap (Events \ states[q.before].events),
          shock  |-> q.cause = Shock]

\* Referenced revisions are the latest visible ones; a fact that was not
\* there at all is not looked for.
DependenciesHold(fact, asof) == fact # None => fact = FactAsOf(asof)

\* An exact state at the as_of: the same, a different one, or none.
SameState(p)  == /\ preps[p].asof \in DOMAIN states
                 /\ LET s == states[preps[p].asof]
                    IN  s.fact = preps[p].fact /\ s.events = preps[p].events
OtherState(p) == preps[p].asof \in DOMAIN states /\ ~SameState(p)

-----------------------------------------------------------------------------
(* Preparations.                                                           *)

others == <<now, revisions, eventSeen>>
Become(p, q) == preps' = [preps EXCEPT ![p] = q]
Retry(p) == Become(p, [preps[p] EXCEPT !.pc = "again"])

\* A preparation starts at the present, or again at the as_of it has frozen.
Prepare(p) ==
    /\ \/ /\ preps[p].pc = "rest"
          /\ \E cause \in {"FACT", Shock, Review} \cup DOMAIN eventSeen :
                Become(p, [Idle EXCEPT !.pc = "read", !.cause = cause, !.asof = now,
                               !.fact = FactAsOf(now), !.events = VisibleAt(now)])
       \/ /\ preps[p].pc = "again"
          /\ Become(p, [preps[p] EXCEPT !.pc = "read",
                               !.fact = FactAsOf(preps[p].asof),
                               !.events = VisibleAt(preps[p].asof)])
    /\ UNCHANGED <<others, states, analysed, dismissed>>

ReadPredecessor(p) ==
    /\ preps[p].pc = "read"
    /\ IF OtherState(p) THEN Retry(p)
       ELSE Become(p, [preps[p] EXCEPT !.pc = "compare",
                                       !.before = StateBefore(preps[p].asof)])
    /\ UNCHANGED <<others, states, analysed, dismissed>>

MayRecordStateAnywhere(p) == SameState(p) \/ ~OtherState(p)

\* record_state: the state stands already, or it continues the chain.
MayRecordState(p) == SameState(p) \/ (~OtherState(p) /\ LatestState = preps[p].before)

\* A delta leads from the direct predecessor and tells something it lacks.
MayPutDelta(p) ==
    LET q == preps[p]
        d == DeltaOf(p)
    IN  /\ StateBefore(q.asof) = q.before
        /\ \/ d.shock \/ d.fact \notin {None, states[q.before].fact}
           \/ ~(d.events \subseteq states[q.before].events)

\* record_transition: the same delta stands already, or it continues the
\* chain; the state of another delta at the as_of is the latest itself.
MayRecordTransition(p) ==
    \/ SameState(p) /\ states[preps[p].asof].delta = DeltaOf(p)
                    /\ states[preps[p].asof].before = preps[p].before
    \/ LatestState = preps[p].before /\ MayPutDelta(p)

MayRecord(p) ==
    /\ IF DeltaOf(p) = NoDelta THEN MayRecordState(p) ELSE MayRecordTransition(p)
    /\ DependenciesHold(preps[p].fact, preps[p].asof)

StateOf(p) ==
    LET q == preps[p]
    IN  [fact |-> q.fact, events |-> q.events, before |-> q.before, delta |-> DeltaOf(p)]

PutState(p) ==
    states' = [t \in DOMAIN states \cup {preps[p].asof} |->
                 IF t \in DOMAIN states THEN states[t] ELSE StateOf(p)]

RecordState(p) ==
    /\ preps[p].pc = "compare"
    /\ IF MayRecord(p)
       THEN PutState(p) /\ Become(p, [preps[p] EXCEPT !.pc = "packet", !.delta = DeltaOf(p)])
       ELSE Retry(p) /\ UNCHANGED states
    /\ UNCHANGED <<others, analysed, dismissed>>

\* The explicit cause of a state without a predecessor becomes a review.
Reviewed(p) ==
    \/ preps[p].cause = Review
    \/ /\ preps[p].delta = NoDelta
       /\ StateBefore(preps[p].asof) = None
       /\ preps[p].cause \in Events \cup {Shock}

DeltaTime(p) ==
    LET d == preps[p].delta
    IN  IF d.shock THEN preps[p].asof
        ELSE Max((IF d.fact = None THEN {} ELSE {revisions[d.fact]})
                   \cup {eventSeen[e] : e \in d.events})
Expired(p) == /\ preps[p].delta # NoDelta
              /\ preps[p].asof >= DeltaTime(p) + DeltaLife

\* The packet is assembled of the recorded state; an input too large for it
\* is given up, any other failure comes back at the same as_of.
Assemble(p) ==
    LET wanted == preps[p].delta # NoDelta \/ Reviewed(p) IN
    /\ preps[p].pc = "packet"
    /\ \/ /\ wanted /\ ~Expired(p)
          /\ analysed' = analysed \cup preps[p].events
          /\ Become(p, Idle)
          /\ UNCHANGED dismissed
       \/ /\ wanted /\ ~Expired(p)
          /\ Retry(p) \/ Become(p, Idle)
          /\ UNCHANGED <<analysed, dismissed>>
       \/ /\ ~wanted \/ Expired(p)
          /\ dismissed' = IF wanted THEN dismissed ELSE dismissed \cup ({preps[p].cause} \cap Events)
          /\ Become(p, Idle)
          /\ UNCHANGED analysed
    /\ UNCHANGED <<others, states>>

-----------------------------------------------------------------------------
(* The collectors and the clock.                                           *)

\* A revision is later than the one before it, not than every state.
FactArrives ==
    /\ Cardinality(DOMAIN revisions) < MaxFacts
    /\ LET r == Cardinality(DOMAIN revisions) + 1
       IN  \E t \in (IF r = 1 THEN 1 ELSE revisions[r - 1] + 1)..now :
             revisions' = [i \in 1..r |-> IF i = r THEN t ELSE revisions[i]]
    /\ UNCHANGED <<now, eventSeen, states, preps, analysed, dismissed>>

EventArrives ==
    /\ \E e \in Events \ DOMAIN eventSeen, t \in 1..now :
         eventSeen' = [i \in DOMAIN eventSeen \cup {e} |-> IF i = e THEN t ELSE eventSeen[i]]
    /\ UNCHANGED <<now, revisions, states, preps, analysed, dismissed>>

NowPasses ==
    /\ now < MaxNow
    /\ now' = now + 1
    /\ UNCHANGED <<revisions, eventSeen, states, preps, analysed, dismissed>>

HistoryNext ==
    \/ \E p \in Preparers :
          Prepare(p) \/ ReadPredecessor(p) \/ RecordState(p) \/ Assemble(p)
    \/ FactArrives \/ EventArrives \/ NowPasses

HistorySpec == HistoryInit /\ [][HistoryNext]_historyVars

-----------------------------------------------------------------------------
(* The states of a scope form one chain whatever overlaps: each is         *)
(* compared with the state directly before it, and a material revision     *)
(* that came between the two is in its delta.                              *)
DeltasJoinNeighbours ==
    \A t \in DOMAIN states :
       /\ states[t].before = StateBefore(t)
       /\ LET b == states[t].before
          IN  b # None /\ states[t].fact # states[b].fact /\ IsMaterial(states[t].fact)
                => states[t].delta.fact = states[t].fact

(* An event is the news of one state only, and a revision of another only  *)
(* where a state between the two had lost sight of the whole fact.         *)
ReportedOnceUnlessLost ==
    \A s, t \in DOMAIN states : s < t =>
       /\ states[s].delta.events \cap states[t].delta.events = {}
       /\ states[s].delta.fact # None /\ states[s].delta.fact = states[t].delta.fact
             => \E u \in DOMAIN states : s < u /\ u < t /\ states[u].fact = None

\* NOT an invariant: a preparation that read its facts before the first
\* revision of one was committed may record behind a state that has it
\* (nothing is looked for that a state does not reference), and the next
\* state reports the revision again.
ReportedOnce ==
    \A s, t \in DOMAIN states : s # t =>
       /\ states[s].delta.fact # None => states[s].delta.fact # states[t].delta.fact
       /\ states[s].delta.events \cap states[t].delta.events = {}

\* NOT an invariant: a triggered event whose preparation finds nothing
\* material was analysed before.  A state recorded for another cause may
\* carry the event without a packet.
DismissedWasAnalysed == dismissed \subseteq analysed

-----------------------------------------------------------------------------
(* Why they do: a state is recorded only behind the latest one, which is   *)
(* the predecessor that its preparation read before its as_of.             *)
ChainAndPreparations ==
    /\ now \in Times /\ DOMAIN revisions \subseteq 1..MaxFacts /\ DOMAIN eventSeen \subseteq Events
    /\ states = [t \in DOMAIN states |-> states[t]] /\ DOMAIN states \subseteq Times
    /\ preps \in [Preparers -> [pc : {"rest", "again", "read", "compare", "packet"},
                                cause : Causes, asof : 0..MaxNow, fact : 0..MaxFacts,
                                events : SUBSET Events, before : 0..MaxNow,
                                delta : [fact : 0..MaxFacts, events : SUBSET Events,
                                         shock : BOOLEAN]]]

PredecessorIsEarlier ==
    \A p \in Preparers :
       /\ preps[p].pc # "rest" => preps[p].asof \in Times
       /\ preps[p].pc = "compare" =>
             preps[p].before < preps[p].asof /\ preps[p].before \in DOMAIN states \cup {None}

HistoryInvariant == ChainAndPreparations /\ PredecessorIsEarlier /\ DeltasJoinNeighbours

-----------------------------------------------------------------------------
(* Why news is not repeated: who prepares for a later time has read what   *)
(* an earlier preparation came for, and a revision stays visible.          *)
Working(p) == preps[p].pc # "rest"

LedgersInOrder ==
    /\ DOMAIN revisions = 1..Cardinality(DOMAIN revisions)
    /\ \A r \in DOMAIN revisions : revisions[r] \in 1..now
    /\ \A e \in DOMAIN eventSeen : eventSeen[e] \in 1..now

CausesAreRead ==
    \A p \in Preparers : Working(p) =>
       /\ preps[p].asof <= now
       /\ preps[p].cause \in Events =>
             /\ preps[p].cause \in DOMAIN eventSeen /\ eventSeen[preps[p].cause] <= preps[p].asof
             /\ preps[p].cause \in preps[p].events
             /\ \A q \in Preparers :
                   Working(q) /\ preps[p].asof < preps[q].asof => preps[p].cause \in preps[q].events

FactsGoOn ==
    \A s \in DOMAIN states :
       /\ states[s].fact \in 0..MaxFacts
       /\ states[s].fact # None =>
             states[s].fact \in DOMAIN revisions /\ revisions[states[s].fact] <= s
       /\ \A t \in DOMAIN states :
             s < t /\ states[t].fact # None => states[s].fact <= states[t].fact

\* A delta names what its state has and the one before it had not...
DeltasAreNews ==
    \A s \in DOMAIN states :
       /\ states[s].delta.fact # None =>
             /\ states[s].delta.fact = states[s].fact /\ states[s].before # None
             /\ states[states[s].before].fact # states[s].fact
       /\ \A e \in states[s].delta.events :
             states[s].before # None /\ e \notin states[states[s].before].events

\* ... and an event it names no later state lacks.
NewsIsKept ==
    \A s \in DOMAIN states :
       /\ s <= now
       /\ \A e \in states[s].delta.events :
             /\ e \in DOMAIN eventSeen /\ eventSeen[e] <= s
             /\ \A t \in DOMAIN states : s <= t => e \in states[t].events
             /\ \A p \in Preparers : Working(p) /\ s < preps[p].asof => e \in preps[p].events

NewsInvariant ==
    /\ HistoryInvariant /\ LedgersInOrder
    /\ CausesAreRead /\ FactsGoOn /\ DeltasAreNews /\ NewsIsKept
=============================================================================
