----------------------------- MODULE RecordsProofs -----------------------------
(***************************************************************************)
(* Proofs about the services that observe the world and keep what they     *)
(* observe, each about its own specification: the market shocks and the    *)
(* market facts, the chain of states, the fact ledger, the calendars, the  *)
(* events, the snapshots of metrics and the packets.  The invariants are   *)
(* stated beside what they explain, in the modules of the services.        *)
(***************************************************************************)
EXTENDS FactFeed, StateHistory, InformationFeed, CalendarLedger, MarketFeed, MarketStore,
        MetricSeries, PacketSelection,
        WellFoundedInduction, FiniteSetTheorems, TLAPS

-----------------------------------------------------------------------------
(* Sequences, and sets of numbers.                                         *)

\* An element of a sequence is in what the sequence is over.
LEMMA SeqElement == ASSUME NEW S, NEW q \in Seq(S), NEW i \in DOMAIN q PROVE q[i] \in S
OBVIOUS

\* A sequence over a set is one over a larger set.
LEMMA SeqWidened == ASSUME NEW S, NEW T, S \subseteq T, NEW q \in Seq(S) PROVE q \in Seq(T)
<1>1. q \in [1..Len(q) -> T] /\ Len(q) \in Nat
  OBVIOUS
<1>2. QED
  BY <1>1

\* Appending adds one place behind the others.
LEMMA SeqAppended ==
    ASSUME NEW S, NEW q \in Seq(S), NEW x
    PROVE  /\ Len(q) \in Nat /\ Len(Append(q, x)) = Len(q) + 1
           /\ DOMAIN q = 1..Len(q) /\ DOMAIN Append(q, x) = 1..(Len(q) + 1)
           /\ Append(q, x)[Len(q) + 1] = x
           /\ \A i \in 1..Len(q) : Append(q, x)[i] = q[i]
           /\ x \in S => Append(q, x) \in Seq(S)
OBVIOUS

\* A set of numbers that is not empty has a least one.
LEMMA LeastNat ==
    ASSUME NEW S \in SUBSET Nat, S # {}
    PROVE  \E m \in S : \A n \in S : m <= n
<1>1. PICK R : R = OpToRel(<, Nat)
  OBVIOUS
<1>2. IsWellFoundedOn(R, Nat)
  BY <1>1, NatLessThanWellFounded
<1>3. PICK m \in S : \A n \in S : <<n, m>> \notin R
  BY <1>2, WFMin
<1>4. \A n, k \in Nat : n < k => <<n, k>> \in R
  BY <1>1 DEF OpToRel
<1>5. \A n \in S : n \in Nat /\ m \in Nat /\ ~(n < m)
  BY <1>3, <1>4
<1>6. \A n \in S : m <= n
  BY <1>5
<1>7. QED
  BY <1>3, <1>6

\* One that is bounded has a greatest.
LEMMA GreatestNat ==
    ASSUME NEW b \in Nat, NEW S \in SUBSET (0 .. b), S # {}
    PROVE  \E m \in S : \A n \in S : m >= n
<1>1. PICK T : T = {b - x : x \in S}
  OBVIOUS
<1>2. T \in SUBSET Nat /\ T # {}
  <2>1. \A x \in S : x \in 0 .. b /\ b - x \in Nat
    OBVIOUS
  <2>2. QED
    BY <1>1, <2>1
<1>3. PICK t \in T : \A n \in T : t <= n
  BY <1>2, LeastNat
<1>4. PICK m \in S : t = b - m
  BY <1>1, <1>3
<1>5. \A n \in S : b - n \in T
  BY <1>1
<1>6. QED
  BY <1>3, <1>4, <1>5

\* A sequence of numbers has a bound: of those that had none a shortest
\* would be left without its last number.
LEMMA SeqBounded ==
    ASSUME NEW q \in Seq(Nat)
    PROVE  \E b \in Nat : \A i \in DOMAIN q : q[i] <= b
<1>1. PICK L : L = {l \in Nat : \E r \in Seq(Nat) :
                      Len(r) = l /\ ~\E b \in Nat : \A i \in DOMAIN r : r[i] <= b}
  OBVIOUS
<1>2. ASSUME L # {} PROVE FALSE
  <2>1. PICK m \in L : \A n \in L : m <= n
    BY <1>1, <1>2, LeastNat
  <2>2. PICK r \in Seq(Nat) : Len(r) = m /\ ~\E b \in Nat : \A i \in DOMAIN r : r[i] <= b
    BY <1>1, <2>1
  <2>3. m \in Nat /\ DOMAIN r = 1..m /\ \A i \in 1..m : r[i] \in Nat
    <3>1. m \in Nat /\ DOMAIN r = 1..m
      BY <1>1, <2>1, <2>2
    <3>2. QED
      BY <2>2, <3>1, SeqElement
  <2>4. m # 0
    <3>1. m = 0 => \A i \in DOMAIN r : r[i] <= 0
      BY <2>3
    <3>2. QED
      BY <2>2, <3>1
  <2>5. PICK s : s = [i \in 1..(m - 1) |-> r[i]]
    OBVIOUS
  <2>6. m - 1 \in Nat /\ s \in [1..(m - 1) -> Nat]
    BY <2>3, <2>4, <2>5
  <2>7. s \in Seq(Nat) /\ Len(s) = m - 1 /\ DOMAIN s = 1..(m - 1)
    BY <2>6
  <2>8. PICK b \in Nat : \A i \in DOMAIN s : s[i] <= b
    <3>1. m - 1 \notin L
      BY <2>1, <2>3
    <3>2. QED
      BY <1>1, <2>6, <2>7, <3>1
  <2>9. \A i \in 1..m : r[i] <= b + r[m]
    <3>1. ASSUME NEW i \in 1..m PROVE r[i] <= b + r[m]
      <4>1. r[i] \in Nat /\ r[m] \in Nat
        BY <2>3, <2>4
      <4>2. CASE i = m
        BY <4>1, <4>2
      <4>3. CASE i # m
        <5>1. i \in 1..(m - 1)
          BY <2>3, <4>3
        <5>2. r[i] <= b
          BY <2>5, <2>7, <2>8, <5>1
        <5>3. QED
          BY <4>1, <5>2
      <4>4. QED
        BY <4>2, <4>3
    <3>2. QED
      BY <3>1
  <2>10. b + r[m] \in Nat
    BY <2>3, <2>4
  <2>11. QED
    BY <2>2, <2>3, <2>9, <2>10
<1>3. Len(q) \in Nat /\ Len(q) \notin L
  BY <1>2
<1>4. QED
  BY <1>1, <1>3

\* What a function makes of a finite set is finite.
LEMMA ImageIsFinite ==
    ASSUME NEW S, IsFiniteSet(S), NEW f PROVE IsFiniteSet({f[s] : s \in S})
<1>1. PICK q \in Seq(S) : \A s \in S : \E n \in 1..Len(q) : q[n] = s
  BY DEF IsFiniteSet
<1>2. PICK T : T = {f[s] : s \in S}
  OBVIOUS
<1>3. DOMAIN q = 1..Len(q) /\ Len(q) \in Nat /\ \A n \in 1..Len(q) : q[n] \in S
  BY SeqElement
<1>4. PICK r : r = [n \in 1..Len(q) |-> f[q[n]]]
  OBVIOUS
<1>5. r \in [1..Len(q) -> T]
  BY <1>2, <1>3, <1>4
<1>6. r \in Seq(T) /\ Len(r) = Len(q)
  BY <1>3, <1>5
<1>7. ASSUME NEW t \in T PROVE \E n \in 1..Len(r) : r[n] = t
  <2>1. PICK s \in S : t = f[s]
    BY <1>2
  <2>2. PICK n \in 1..Len(q) : q[n] = s
    BY <1>1
  <2>3. r[n] = t
    BY <1>4, <2>1, <2>2
  <2>4. QED
    BY <1>6, <2>3
<1>8. QED
  BY <1>2, <1>6, <1>7 DEF IsFiniteSet

\* A finite set of numbers is one up to some number.
LEMMA FiniteIsBounded ==
    ASSUME NEW S \in SUBSET Nat, IsFiniteSet(S)
    PROVE  \E b \in Nat : S \subseteq 0 .. b
<1>1. PICK q \in Seq(S) : \A s \in S : \E n \in 1..Len(q) : q[n] = s
  BY DEF IsFiniteSet
<1>2. q \in Seq(Nat)
  BY SeqWidened
<1>3. PICK b \in Nat : \A i \in DOMAIN q : q[i] <= b
  BY <1>2, SeqBounded
<1>4. \A s \in S : s \in Nat /\ s <= b
  BY <1>1, <1>3
<1>5. ASSUME NEW s \in S PROVE s \in 0 .. b
  BY <1>4
<1>6. QED
  BY <1>5

\* Max and Min of a bounded set that is not empty.
LEMMA MaxMin ==
    ASSUME NEW b \in Nat, NEW S \in SUBSET (0 .. b), S # {}
    PROVE  /\ Max(S) \in S /\ \A n \in S : n <= Max(S)
           /\ Min(S) \in S /\ \A n \in S : Min(S) <= n
<1>1. \E m \in S : \A n \in S : m >= n
  BY GreatestNat
<1>2. \E m \in S : \A n \in S : m <= n
  BY LeastNat
<1>3. Max(S) \in S /\ \A n \in S : Max(S) >= n
  BY <1>1 DEF Max
<1>4. Min(S) \in S /\ \A n \in S : Min(S) <= n
  BY <1>2 DEF Min
<1>5. QED
  BY <1>3, <1>4

-----------------------------------------------------------------------------
(* The fact ledger.                                                        *)

\* The invariant of the feed holds where it begins.
LEMMA FeedBegins == FeedInit => FeedInvariant
<1>1. SUFFICES ASSUME FeedInit PROVE FeedInvariant
  OBVIOUS
<1>2. <<>> \in Seq([value : 1..MaxVersions, at : Instants]) /\ <<>> \in Seq([value : 1..Gone, at : Instants])
  OBVIOUS
<1>3. StoredAndInWork
  BY <1>1, <1>2, FeedAssumption DEF FeedInit, StoredAndInWork, Polling
<1>4. LedgerFollowsObservations /\ instant <= MaxInstant
  BY <1>1, FeedAssumption DEF FeedInit, LedgerFollowsObservations, Revisions
<1>5. QED
  BY <1>3, <1>4 DEF FeedInvariant

\* A revision is appended: it is an observation and says something new, or
\* it is the mark that a release was given up, and the first.
LEMMA RevisionAppended ==
    ASSUME FeedInvariant, observed' = observed, instant' \in Nat,
           NEW r \in [value : 1..Gone, at : Instants], facts' = Append(facts, r),
           IF r.value = Gone THEN facts = <<>> /\ r.at >= ResolveBy
           ELSE \E o \in DOMAIN observed : observed[o] = r,
           facts # <<>> => r.at > facts[Len(facts)].at /\ r.value # facts[Len(facts)].value
    PROVE  /\ facts' \in Seq([value : 1..Gone, at : Instants])
           /\ LedgerFollowsObservations'
<1>1. facts \in Seq([value : 1..Gone, at : Instants]) /\ LedgerFollowsObservations
  BY DEF FeedInvariant, StoredAndInWork
<1>2. /\ facts' \in Seq([value : 1..Gone, at : Instants])
      /\ Len(facts') = Len(facts) + 1 /\ Len(facts) \in Nat
      /\ facts'[Len(facts) + 1] = r
      /\ \A i \in 1..Len(facts) : facts'[i] = facts[i]
  BY <1>1
<1>3. facts # <<>> <=> Len(facts) > 0
  BY <1>1
<1>4. ASSUME NEW i \in 1..Len(facts')
      PROVE  /\ IF facts'[i].value = Gone
                THEN i = 1 /\ facts'[i].at >= ResolveBy
                ELSE \E o \in DOMAIN observed' : observed'[o] = facts'[i]
             /\ i > 1 => /\ facts'[i].at > facts'[i - 1].at
                         /\ facts'[i].value # facts'[i - 1].value
  <2>1. CASE i = Len(facts) + 1
    <3>1. facts'[i] = r
      BY <1>2, <2>1
    <3>2. r.value = Gone => i = 1
      BY <1>2, <1>3, <2>1
    <3>3. i > 1 => facts # <<>> /\ facts'[i - 1] = facts[Len(facts)]
      BY <1>2, <1>3, <2>1
    <3>4. QED
      BY <3>1, <3>2, <3>3
  <2>2. CASE i # Len(facts) + 1
    <3>1. i \in 1..Len(facts) /\ facts'[i] = facts[i]
      BY <1>2, <2>2
    <3>2. i > 1 => facts'[i - 1] = facts[i - 1]
      BY <1>2, <3>1
    <3>3. QED
      BY <1>1, <3>1, <3>2 DEF LedgerFollowsObservations, Revisions
  <2>3. QED
    BY <2>1, <2>2
<1>5. QED
  BY <1>2, <1>4 DEF LedgerFollowsObservations, Revisions, Gone

\* Where neither observations nor revisions change, nothing is to be shown of them.
LEMMA LedgerKept ==
    ASSUME FeedInvariant, facts' = facts,
           observed' = observed \/ \E x : observed' = Append(observed, x)
    PROVE  /\ facts' \in Seq([value : 1..Gone, at : Instants])
           /\ LedgerFollowsObservations'
<1>1. /\ facts \in Seq([value : 1..Gone, at : Instants]) /\ LedgerFollowsObservations
      /\ observed \in Seq([value : 1..MaxVersions, at : Instants])
  BY DEF FeedInvariant, StoredAndInWork
<1>2. \A o \in DOMAIN observed : o \in DOMAIN observed' /\ observed'[o] = observed[o]
  <2>1. CASE observed' = observed
    BY <2>1
  <2>2. CASE \E x : observed' = Append(observed, x)
    <3>1. PICK x : observed' = Append(observed, x)
      BY <2>2
    <3>2. ASSUME NEW o \in DOMAIN observed
          PROVE  o \in DOMAIN Append(observed, x) /\ Append(observed, x)[o] = observed[o]
      BY <1>1, SeqAppended
    <3>3. QED
      BY <3>1, <3>2
  <2>3. QED
    BY <2>1, <2>2
<1>3. QED
  BY <1>1, <1>2 DEF LedgerFollowsObservations, Revisions, Gone

\* A poll that the source has no document for failed, or is recorded.
LEMMA MissesEnd == \A f \in Feeds : f.miss \subseteq {"failed", "record"}
BY DEF Feeds, MetricFeed, FlowFeed, ReleaseFeed, RegisterFeed, CalendarFeed, BuybackFeed,
       ResultFeed, ActualFeed, FeedOf, MetricPoll, FlowPoll, FedPoll, RegisterPoll,
       CalendarPoll, BuybackPoll, ResultPoll, ActualPoll

\* Every step keeps the invariant of the feed.
LEMMA FeedStep == FeedInvariant /\ [FeedNext]_feedVars => FeedInvariant'
<1> SUFFICES ASSUME FeedInvariant, [FeedNext]_feedVars PROVE FeedInvariant'
  OBVIOUS
<1>1. /\ instant \in Nat /\ instant <= MaxInstant /\ version \in 0..MaxVersions
      /\ feed \in Feeds
      /\ observed \in Seq([value : 1..MaxVersions, at : Instants])
      /\ facts \in Seq([value : 1..Gone, at : Instants])
      /\ work \in [pc : {"rest", "store", "project", "record", "failed"}, doc : Nat,
                   inserted : BOOLEAN, fresh : BOOLEAN]
      /\ work.pc = "store" => work.doc \in 1..MaxVersions
      /\ work.pc = "project" => work.doc \in DOMAIN observed
      /\ LedgerFollowsObservations
  BY DEF FeedInvariant, StoredAndInWork
<1>2. instant \in Instants /\ MaxInstant \in Nat /\ MaxVersions \in Nat /\ ResolveBy \in Nat
  BY <1>1, FeedAssumption DEF Instants
<1>3. CASE Fetch
  <2>1. UNCHANGED <<instant, feed, version, observed, facts>>
    BY <1>3 DEF Fetch, records
  <2>2. /\ work' \in [pc : {"rest", "store", "project", "record", "failed"}, doc : Nat,
                      inserted : BOOLEAN, fresh : BOOLEAN]
        /\ work'.pc = "store" => work'.doc \in 1..MaxVersions
        /\ work'.pc # "project"
    <3>1. CASE work' = [Polling EXCEPT !.pc = "store", !.doc = version] /\ version # 0
      <4>1. work' = [pc |-> "store", doc |-> version, inserted |-> FALSE, fresh |-> FALSE]
        BY <3>1 DEF Polling
      <4>2. version \in Nat /\ version \in 1..MaxVersions
        BY <1>1, <1>2, <3>1
      <4>3. QED
        BY <4>1, <4>2
    <3>2. CASE work' = [Polling EXCEPT !.pc = "record"]
      BY <3>2 DEF Polling
    <3>3. CASE \E end \in feed.miss : work' = [Polling EXCEPT !.pc = end]
      <4>1. PICK end \in feed.miss : work' = [Polling EXCEPT !.pc = end]
        BY <3>3
      <4>2. end \in {"failed", "record"}
        BY <1>1, <4>1, MissesEnd
      <4>3. QED
        BY <4>1, <4>2 DEF Polling
    <3>4. QED
      BY <1>3, <3>1, <3>2, <3>3 DEF Fetch
  <2>3. QED
    BY <1>1, <2>1, <2>2, LedgerKept DEF FeedInvariant, StoredAndInWork
<1>4. CASE StoreObservation
  <2>1. UNCHANGED <<instant, feed, version, facts>> /\ work.pc = "store"
    BY <1>4 DEF StoreObservation
  <2>2. CASE work' = [work EXCEPT !.pc = "failed"] /\ observed' = observed
    BY <1>1, <2>1, <2>2, LedgerKept DEF FeedInvariant, StoredAndInWork
  <2>3. CASE /\ observed # <<>> /\ observed' = observed
             /\ work' = [work EXCEPT !.pc = "project", !.doc = Len(observed)]
    <3>1. Len(observed) \in Nat /\ Len(observed) \in DOMAIN observed
      BY <1>1, <2>3
    <3>2. QED
      BY <1>1, <2>1, <2>3, <3>1, LedgerKept DEF FeedInvariant, StoredAndInWork
  <2>4. CASE /\ observed' = Append(observed, [value |-> work.doc, at |-> instant])
             /\ work' = [work EXCEPT !.pc = "project", !.inserted = TRUE,
                                    !.doc = Len(observed) + 1]
    <3>1. [value |-> work.doc, at |-> instant] \in [value : 1..MaxVersions, at : Instants]
      BY <1>1, <1>2, <2>1
    <3>2. /\ observed' \in Seq([value : 1..MaxVersions, at : Instants])
          /\ Len(observed) \in Nat /\ Len(observed) + 1 \in DOMAIN observed'
      BY <1>1, <2>4, <3>1
    <3>3. /\ facts' \in Seq([value : 1..Gone, at : Instants])
          /\ LedgerFollowsObservations'
      BY <2>1, <2>4, LedgerKept
    <3>4. QED
      <4>1. /\ work' \in [pc : {"rest", "store", "project", "record", "failed"}, doc : Nat,
                           inserted : BOOLEAN, fresh : BOOLEAN]
            /\ work'.pc = "project" /\ work'.doc = Len(observed) + 1
        <5>1. PICK n \in Nat : n = Len(observed) + 1
          BY <3>2
        <5>2. work' = [work EXCEPT !.pc = "project", !.inserted = TRUE, !.doc = n]
          BY <2>4, <5>1
        <5>3. QED
          BY <1>1, <5>1, <5>2
      <4>2. QED
        BY <1>1, <2>1, <3>2, <3>3, <4>1 DEF FeedInvariant, StoredAndInWork
  <2>5. QED
    BY <1>4, <2>2, <2>3, <2>4 DEF StoreObservation
<1>5. CASE ProjectFact
  <2>1. UNCHANGED <<instant, feed, version, observed>> /\ work.pc = "project"
    BY <1>5 DEF ProjectFact
  <2>2. CASE facts' = facts /\ (work' = [work EXCEPT !.pc = "record"] \/ work' = [work EXCEPT !.pc = "failed"])
    BY <1>1, <2>1, <2>2, LedgerKept DEF FeedInvariant, StoredAndInWork
  <2>3. CASE /\ ~Skipped(observed[work.doc])
             /\ ~(facts # <<>> /\ facts[Len(facts)].at >= observed[work.doc].at)
             /\ facts' = Append(facts, observed[work.doc])
             /\ work' = [work EXCEPT !.pc = "record", !.fresh = TRUE]
    <3>1. PICK r : r = observed[work.doc]
      OBVIOUS
    <3>2. r \in [value : 1..MaxVersions, at : Instants] /\ \E o \in DOMAIN observed : observed[o] = r
      <4>1. work.doc \in DOMAIN observed
        BY <1>1, <2>1
      <4>2. observed[work.doc] \in [value : 1..MaxVersions, at : Instants]
        BY <1>1, <4>1, SeqElement
      <4>3. QED
        BY <3>1, <4>1, <4>2
    <3>3. r.value # Gone /\ r \in [value : 1..Gone, at : Instants]
      BY <1>2, <3>2 DEF Gone
    <3>4. facts # <<>> => facts[Len(facts)] \in [value : 1..Gone, at : Instants]
      <4>1. facts # <<>> => Len(facts) \in DOMAIN facts
        BY <1>1
      <4>2. QED
        BY <1>1, <4>1, SeqElement
    <3>5. facts # <<>> => r.at > facts[Len(facts)].at /\ r.value # facts[Len(facts)].value
      <4>1. facts # <<>> => facts[Len(facts)].at \in Nat /\ r.at \in Nat
        BY <3>2, <3>4 DEF Instants
      <4>2. facts # <<>> => r.value # facts[Len(facts)].value
        BY <2>3, <3>1, Zenon DEF Skipped
      <4>3. facts # <<>> => ~(facts[Len(facts)].at >= r.at)
        BY <2>3, <3>1
      <4>4. QED
        BY <4>1, <4>2, <4>3
    <3>6. /\ facts' \in Seq([value : 1..Gone, at : Instants])
          /\ LedgerFollowsObservations'
      BY <1>1, <2>1, <2>3, <3>1, <3>2, <3>3, <3>5, RevisionAppended
    <3>7. QED
      BY <1>1, <2>1, <2>3, <3>6 DEF FeedInvariant, StoredAndInWork
  <2>4. QED
    BY <1>5, <2>2, <2>3 DEF ProjectFact, PutFact
<1>6. CASE PollBreaks
  BY <1>1, <1>6, LedgerKept DEF PollBreaks, records, FeedInvariant, StoredAndInWork
<1>7. CASE EndPoll
  <2>1. UNCHANGED <<instant, feed, version, observed>> /\ work' = Polling
    BY <1>7 DEF EndPoll
  <2>2. \/ facts' = facts
        \/ GivesUp /\ facts' = Append(facts, [value |-> Gone, at |-> instant])
    <3>1. PICK g : g = GivesUp
      OBVIOUS
    <3>2. PICK stored \in {g, FALSE} :
             facts' = IF stored THEN Append(facts, [value |-> Gone, at |-> instant]) ELSE facts
      BY <1>7, <3>1, Zenon DEF EndPoll
    <3>3. g \in BOOLEAN
      BY <3>1 DEF GivesUp
    <3>4. CASE g = TRUE
      BY <3>1, <3>2, <3>4
    <3>5. CASE g = FALSE
      BY <3>2, <3>5
    <3>6. QED
      BY <3>3, <3>4, <3>5
  <2>3. CASE facts' = facts
    BY <1>1, <2>1, <2>3, LedgerKept DEF FeedInvariant, StoredAndInWork, Polling
  <2>4. CASE GivesUp /\ facts' = Append(facts, [value |-> Gone, at |-> instant])
    <3>1. PICK r : r = [value |-> Gone, at |-> instant]
      OBVIOUS
    <3>2. r \in [value : 1..Gone, at : Instants] /\ r.value = Gone /\ r.at = instant
      BY <1>2, <3>1 DEF Gone
    <3>3. facts = <<>> /\ instant >= ResolveBy
      BY <2>4 DEF GivesUp
    <3>4. /\ facts' \in Seq([value : 1..Gone, at : Instants])
          /\ LedgerFollowsObservations'
      BY <1>1, <2>1, <2>4, <3>1, <3>2, <3>3, RevisionAppended
    <3>5. QED
      BY <1>1, <2>1, <3>4 DEF FeedInvariant, StoredAndInWork, Polling
  <2>5. QED
    BY <2>2, <2>3, <2>4
<1>8. CASE PublishRecent
  BY <1>1, <1>8, LedgerKept DEF PublishRecent, FeedInvariant, StoredAndInWork
<1>9. CASE CollectorDies
  BY <1>1, <1>9, LedgerKept DEF CollectorDies, records, FeedInvariant, StoredAndInWork, Polling
<1>10. CASE SourceChanges
  <2>1. version' \in 0..MaxVersions /\ UNCHANGED <<instant, feed, observed, facts, work>>
    BY <1>1, <1>2, <1>10 DEF SourceChanges, collector, records
  <2>2. QED
    BY <1>1, <2>1, LedgerKept DEF FeedInvariant, StoredAndInWork
<1>11. CASE TimePasses
  <2>1. instant' \in Nat /\ instant' <= MaxInstant /\ UNCHANGED <<feed, version, observed, facts, work>>
    BY <1>1, <1>2, <1>11 DEF TimePasses, collector, records
  <2>2. QED
    BY <1>1, <2>1, LedgerKept DEF FeedInvariant, StoredAndInWork
<1>12. CASE UNCHANGED feedVars
  BY <1>1, <1>12, LedgerKept DEF feedVars, FeedInvariant, StoredAndInWork
<1>13. QED
  BY <1>3, <1>4, <1>5, <1>6, <1>7, <1>8, <1>9, <1>10, <1>11, <1>12 DEF FeedNext

\* The revisions of a fact are its observations, in their order, each saying
\* something new, and a release is given up first or not at all.
THEOREM LedgerIsOrdered == FeedSpec => []LedgerFollowsObservations
<1>1. FeedInvariant => LedgerFollowsObservations
  BY DEF FeedInvariant
<1>2. QED
  BY <1>1, FeedBegins, FeedStep, PTL DEF FeedSpec

-----------------------------------------------------------------------------
(* The events.                                                             *)

\* The invariant of the collection holds where it begins.
LEMMA InformationBegins == InformationInit => InformationInvariant
<1>1. SUFFICES ASSUME InformationInit PROVE InformationInvariant
  OBVIOUS
<1>2. events = <<>> /\ wakeups = {} /\ {} \in Texts
  BY <1>1 DEF InformationInit, Texts
<1>3. reads \in [readers -> [pc : {"idle", "reading", "read", "done"}, text : Texts, at : Nat]]
  BY <1>1, <1>2 DEF InformationInit, Waiting
<1>4. memory \in [validator : 0..MaxEditions, page : 0..MaxEditions, at : Nat]
      /\ edition \in 1..MaxEditions /\ {hour, cycle} \subseteq Nat
  BY <1>1, InformationAssumption DEF InformationInit, Nothing
<1>5. QED
  BY <1>2, <1>3, <1>4 DEF InformationInvariant, StoredEvents, EveryPartWasNews

\* What stands in the store is kept where the store is not touched.
LEMMA EventsKept ==
    ASSUME InformationInvariant, events' = events, wakeups' = wakeups
    PROVE  /\ events' \in Seq([text : Texts, at : Nat, news : BOOLEAN])
           /\ wakeups' \subseteq DOMAIN events' /\ EveryPartWasNews'
BY DEF InformationInvariant, StoredEvents, EveryPartWasNews

\* Putting a text: if it says something new it wakes the analysis itself, if
\* not all it says is in events that are there.
LEMMA TextPut ==
    ASSUME InformationInvariant, NEW text \in Texts, NEW at \in Nat, Put(text, at)
    PROVE  /\ events' \in Seq([text : Texts, at : Nat, news : BOOLEAN])
           /\ wakeups' \subseteq DOMAIN events' /\ EveryPartWasNews'
<1>1. /\ events \in Seq([text : Texts, at : Nat, news : BOOLEAN])
      /\ wakeups \subseteq DOMAIN events
      /\ EveryPartWasNews
  BY DEF InformationInvariant, StoredEvents
<1>2. CASE UNCHANGED <<events, wakeups>>
  BY <1>2, EventsKept
<1>3. CASE ~UNCHANGED <<events, wakeups>>
  <2>1. PICK n : n = Len(events) + 1
    OBVIOUS
  <2>2. PICK news \in BOOLEAN : news = AddsInformation(text, at)
    BY DEF AddsInformation, IsNews
  <2>3. PICK e : e = [text |-> text, at |-> at, news |-> news]
    OBVIOUS
  <2>4. /\ events' = Append(events, e)
        /\ wakeups' = IF news THEN wakeups \cup {n} ELSE wakeups
    BY <1>3, <2>1, <2>2, <2>3 DEF Put
  <2>5. /\ events' \in Seq([text : Texts, at : Nat, news : BOOLEAN])
        /\ DOMAIN events = 1..Len(events) /\ DOMAIN events' = 1..n
        /\ Len(events) \in Nat /\ n \in Nat /\ events'[n] = e
        /\ \A i \in DOMAIN events : i \in DOMAIN events' /\ events'[i] = events[i]
    <3>1. e \in [text : Texts, at : Nat, news : BOOLEAN]
      BY <2>2, <2>3
    <3>2. QED
      BY <1>1, <2>1, <2>4, <3>1, SeqAppended
  <2>6. wakeups' \subseteq DOMAIN events'
    BY <1>1, <2>1, <2>4, <2>5
  <2>7. ASSUME NEW i \in DOMAIN events', NEW p, p \in events'[i].text
        PROVE  \E w \in wakeups' : p \in events'[w].text
    <3>1. ASSUME NEW j \in DOMAIN events, p \in events[j].text
          PROVE  \E w \in wakeups' : p \in events'[w].text
      <4>1. p \in UNION {events[k].text : k \in DOMAIN events}
        BY <3>1
      <4>2. PICK w \in wakeups : p \in events[w].text
        BY <1>1, <3>1, <4>1 DEF EveryPartWasNews
      <4>3. w \in wakeups' /\ events'[w] = events[w]
        BY <1>1, <2>4, <2>5
      <4>4. QED
        BY <4>2, <4>3
    <3>2. CASE i \in DOMAIN events
      BY <2>5, <2>7, <3>1, <3>2
    <3>3. CASE i \notin DOMAIN events
      <4>1. i = n /\ p \in text
        BY <2>1, <2>3, <2>5, <2>7, <3>3
      <4>2. CASE news
        <5>1. n \in wakeups' /\ p \in events'[n].text
          BY <2>4, <4>1, <4>2, <2>7
        <5>2. QED
          BY <5>1
      <4>3. CASE ~news
        <5>1. text \subseteq UNION {events[k].text : k \in Recorded(at)}
          BY <2>2, <4>3, Zenon DEF AddsInformation, IsNews
        <5>2. PICK j \in Recorded(at) : p \in events[j].text
          BY <4>1, <5>1
        <5>3. QED
          BY <3>1, <5>2 DEF Recorded
      <4>4. QED
        BY <4>2, <4>3
    <3>4. QED
      BY <3>2, <3>3
  <2>8. QED
    BY <2>5, <2>6, <2>7 DEF EveryPartWasNews
<1>4. QED
  BY <1>2, <1>3

\* Every step keeps the invariant of the collection.
LEMMA InformationStep ==
    InformationInvariant /\ [InformationNext]_informationVars => InformationInvariant'
<1> SUFFICES ASSUME InformationInvariant, [InformationNext]_informationVars
             PROVE  InformationInvariant'
  OBVIOUS
<1>1. /\ hour \in Nat /\ cycle \in Nat /\ edition \in 1..MaxEditions
      /\ memory \in [validator : 0..MaxEditions, page : 0..MaxEditions, at : Nat]
      /\ reads \in [readers -> [pc : {"idle", "reading", "read", "done"}, text : Texts, at : Nat]]
      /\ MaxEditions \in Nat
  BY InformationAssumption DEF InformationInvariant, StoredEvents
<1>2. \A q \in {"title", "hover", "summary", "body"}, e \in 1..MaxEditions :
         Part(q, e) \in {"title", "hover", "summary", "body"} \X (1..MaxEditions)
  BY DEF Part
<1>3. {} \in Texts
  BY DEF Texts
<1>4. ASSUME NEW s \in readers, Read(s) PROVE InformationInvariant'
  <2>1. UNCHANGED <<hour, readers, edition, cycle, events, wakeups>>
    BY <1>4 DEF Read
  <2>2. ASSUME NEW text \in Texts, NEW at \in Nat, Delivers(s, text, at)
        PROVE  reads' \in [readers' -> [pc : {"idle", "reading", "read", "done"},
                                        text : Texts, at : Nat]]
    BY <1>1, <2>1, <2>2 DEF Delivers
  <2>3. Ends(s) => reads' \in [readers' -> [pc : {"idle", "reading", "read", "done"},
                                            text : Texts, at : Nat]]
    BY <1>1, <2>1 DEF Ends
  <2>4. /\ reads' \in [readers' -> [pc : {"idle", "reading", "read", "done"},
                                    text : Texts, at : Nat]]
        /\ memory' \in [validator : 0..MaxEditions, page : 0..MaxEditions, at : Nat]
    <3>1. CASE s = "mcp" /\ ReadMcp
      <4>1. {Part("title", edition)} \in Texts
        BY <1>1, <1>2 DEF Texts
      <4>2. QED
        BY <1>1, <2>2, <3>1, <4>1 DEF ReadMcp
    <3>2. CASE s = "fast" /\ ReadFast
      <4>1. {Part("title", edition), Part("hover", edition)} \in Texts
        BY <1>1, <1>2 DEF Texts
      <4>2. QED
        BY <1>1, <2>2, <3>2, <4>1 DEF ReadFast
    <3>3. CASE ReadRss /\ s = "rss"
      <4>1. CASE Ends("rss") /\ UNCHANGED memory
        BY <1>1, <2>3, <3>3, <4>1
      <4>2. CASE \E found \in (IF memory.page # 0 THEN {memory.page} ELSE {0, edition}) :
                   /\ memory' = [memory EXCEPT !.validator = edition, !.page = found]
                   /\ Delivers("rss", {Part("title", edition),
                               IF found = 0 THEN Part("summary", edition)
                               ELSE Part("body", found)}, cycle)
        <5>1. PICK found \in (IF memory.page # 0 THEN {memory.page} ELSE {0, edition}) :
                   /\ memory' = [memory EXCEPT !.validator = edition, !.page = found]
                   /\ Delivers("rss", {Part("title", edition),
                               IF found = 0 THEN Part("summary", edition)
                               ELSE Part("body", found)}, cycle)
          BY <4>2
        <5>2. found \in 0..MaxEditions
          BY <1>1
        <5>3. PICK part : part = IF found = 0 THEN Part("summary", edition) ELSE Part("body", found)
          OBVIOUS
        <5>4. part \in {"title", "hover", "summary", "body"} \X (1..MaxEditions)
          <6>1. CASE found = 0
            BY <1>1, <1>2, <5>3, <6>1
          <6>2. CASE found # 0
            <7>1. found \in 1..MaxEditions
              BY <1>1, <5>2, <6>2
            <7>2. QED
              BY <1>2, <5>3, <6>2, <7>1
          <6>3. QED
            BY <6>1, <6>2
        <5>5. {Part("title", edition), part} \in Texts
          BY <1>1, <1>2, <5>4 DEF Texts
        <5>6. Delivers(s, {Part("title", edition), part}, cycle)
          BY <3>3, <5>1, <5>3
        <5>7. reads' \in [readers' -> [pc : {"idle", "reading", "read", "done"},
                                       text : Texts, at : Nat]]
          BY <1>1, <2>2, <5>5, <5>6
        <5>8. edition \in 0..MaxEditions /\ memory' = [memory EXCEPT !.validator = edition, !.page = found]
          BY <1>1, <5>1
        <5>9. memory' \in [validator : 0..MaxEditions, page : 0..MaxEditions, at : Nat]
          BY <1>1, <5>2, <5>8
        <5>10. QED
          BY <5>7, <5>9
      <4>3. QED
        BY <3>3, <4>1, <4>2 DEF ReadRss
    <3>4. CASE ReadIndex /\ s = "index"
      <4>1. CASE memory.page # 0 /\ memory' = [memory EXCEPT !.validator = edition]
                 /\ Delivers("index", {Part("title", memory.page), Part("body", memory.page)}, memory.at)
        <5>1. {Part("title", memory.page), Part("body", memory.page)} \in Texts
          BY <1>1, <1>2, <4>1 DEF Texts
        <5>2. memory.at \in Nat
          BY <1>1
        <5>3. reads' \in [readers' -> [pc : {"idle", "reading", "read", "done"},
                                       text : Texts, at : Nat]]
          BY <2>2, <3>4, <4>1, <5>1, <5>2
        <5>4. QED
          BY <1>1, <4>1, <5>3
      <4>2. CASE memory' = [memory EXCEPT !.validator = edition] /\ Ends("index")
        BY <1>1, <2>3, <3>4, <4>2
      <4>3. CASE /\ memory' = [validator |-> edition, page |-> edition, at |-> cycle]
                 /\ Delivers("index", {Part("title", edition), Part("body", edition)}, cycle)
        <5>1. {Part("title", edition), Part("body", edition)} \in Texts
          BY <1>1, <1>2 DEF Texts
        <5>2. reads' \in [readers' -> [pc : {"idle", "reading", "read", "done"},
                                       text : Texts, at : Nat]]
          BY <1>1, <2>2, <3>4, <4>3, <5>1
        <5>3. QED
          BY <1>1, <4>3, <5>2
      <4>4. QED
        BY <3>4, <4>1, <4>2, <4>3 DEF ReadIndex
    <3>5. CASE Ends(s) /\ UNCHANGED memory
      BY <1>1, <2>3, <3>5
    <3>6. QED
      BY <1>4, <3>1, <3>2, <3>3, <3>4, <3>5 DEF Read
  <2>5. QED
    BY <1>1, <2>1, <2>4, EventsKept DEF InformationInvariant, StoredEvents
<1>5. ASSUME NEW s \in readers, StoreRead(s) PROVE InformationInvariant'
  <2>1. UNCHANGED <<hour, readers, edition, cycle, memory>> /\ Ends(s)
    BY <1>5 DEF StoreRead
  <2>2. reads' \in [readers' -> [pc : {"idle", "reading", "read", "done"}, text : Texts, at : Nat]]
    BY <1>1, <2>1 DEF Ends
  <2>3. /\ events' \in Seq([text : Texts, at : Nat, news : BOOLEAN])
        /\ wakeups' \subseteq DOMAIN events' /\ EveryPartWasNews'
    <3>1. CASE UNCHANGED <<events, wakeups>>
      BY <3>1, EventsKept
    <3>2. CASE ~UNCHANGED <<events, wakeups>>
      <4>1. PICK text \in Normalized(reads[s].text) : Put(text, reads[s].at)
        BY <1>5, <3>2 DEF StoreRead
      <4>2. text \in Texts /\ reads[s].at \in Nat
        BY <1>1, <1>3 DEF Normalized
      <4>3. QED
        BY <4>1, <4>2, TextPut
    <3>3. QED
      BY <3>1, <3>2
  <2>4. QED
    BY <1>1, <2>1, <2>2, <2>3 DEF InformationInvariant, StoredEvents
<1>6. CASE BeginCollection
  <2>1. UNCHANGED <<hour, readers, edition, memory, events, wakeups>> /\ cycle' \in Nat
    BY <1>1, <1>6 DEF BeginCollection
  <2>2. reads' \in [readers' -> [pc : {"idle", "reading", "read", "done"}, text : Texts, at : Nat]]
    BY <1>3, <1>6 DEF BeginCollection, Waiting
  <2>3. QED
    BY <1>1, <2>1, <2>2, EventsKept DEF InformationInvariant, StoredEvents
<1>7. CASE EndCollection
  <2>1. UNCHANGED <<hour, readers, edition, memory, events, wakeups>> /\ cycle' \in Nat
    BY <1>1, <1>7 DEF EndCollection
  <2>2. reads' \in [readers' -> [pc : {"idle", "reading", "read", "done"}, text : Texts, at : Nat]]
    BY <1>3, <1>7 DEF EndCollection, Waiting
  <2>3. QED
    BY <1>1, <2>1, <2>2, EventsKept DEF InformationInvariant, StoredEvents
<1>8. CASE CollectorRestarts
  <2>1. UNCHANGED <<hour, readers, edition, events, wakeups>> /\ cycle' \in Nat
    BY <1>1, <1>8 DEF CollectorRestarts
  <2>2. reads' \in [readers' -> [pc : {"idle", "reading", "read", "done"}, text : Texts, at : Nat]]
    BY <1>3, <1>8 DEF CollectorRestarts, Waiting
  <2>3. memory' \in [validator : 0..MaxEditions, page : 0..MaxEditions, at : Nat]
    BY <1>1, <1>8 DEF CollectorRestarts, Nothing
  <2>4. QED
    BY <1>1, <2>1, <2>2, <2>3, EventsKept DEF InformationInvariant, StoredEvents
<1>9. CASE UpstreamRevises
  <2>1. UNCHANGED <<hour, readers, cycle, reads, memory, events, wakeups>>
        /\ edition' \in 1..MaxEditions
    BY <1>1, <1>9 DEF UpstreamRevises
  <2>2. QED
    BY <1>1, <2>1, EventsKept DEF InformationInvariant, StoredEvents
<1>10. CASE HourPasses
  <2>1. UNCHANGED <<readers, edition, cycle, reads, memory, events, wakeups>> /\ hour' \in Nat
    BY <1>1, <1>10 DEF HourPasses
  <2>2. QED
    BY <1>1, <2>1, EventsKept DEF InformationInvariant, StoredEvents
<1>11. CASE UNCHANGED informationVars
  BY <1>1, <1>11, EventsKept DEF informationVars, InformationInvariant, StoredEvents
<1>12. QED
  BY <1>4, <1>5, <1>6, <1>7, <1>8, <1>9, <1>10, <1>11 DEF InformationNext

\* Whatever is stored was part of an event that woke the analysis.
THEOREM NothingIsStoredSilently == InformationSpec => []EveryPartWasNews
<1>1. InformationInvariant => EveryPartWasNews
  BY DEF InformationInvariant
<1>2. QED
  BY <1>1, InformationBegins, InformationStep, PTL DEF InformationSpec

-----------------------------------------------------------------------------
(* The calendars.                                                          *)

\* The invariant of the calendar holds where it begins.
LEMMA CalendarBegins == CalendarInit => CalendarInvariant
<1>1. SUFFICES ASSUME CalendarInit PROVE CalendarInvariant
  OBVIOUS
<1>2. Absent \in AnyRow
  BY CalendarAssumption DEF Absent, AnyRow
<1>3. ingest = AtRest /\ ingest.read = 0 /\ ingest.rows = [e \in Entries |-> Absent]
      /\ ingest.todo = {} /\ ingest.gone = {} /\ ingest.pc = "rest" /\ ingest.ended = FALSE
  BY <1>1 DEF CalendarInit, AtRest
<1>4. ingest \in [pc : {"rest", "storing"}, read : 0..day, rows : [Entries -> AnyRow],
                  covered : SUBSET Entries, ended : BOOLEAN,
                  todo : SUBSET Entries, gone : SUBSET Entries]
  BY <1>1, <1>2 DEF CalendarInit, AtRest
<1>5. /\ ledger \in [Entries -> [row : AnyRow, seen : 0..ingest.read]]
      /\ timing \in [Entries -> [status : {"absent", "SCHEDULED", "CANCELLED"},
                                 at : 0..MaxDay, seen : 0..ingest.read]]
      /\ TimingMirrorsLedger
  BY <1>1, <1>2, <1>3, CalendarAssumption
     DEF CalendarInit, NoRecord, NoTiming, Absent, TimingMirrorsLedger
<1>6. day \in Days /\ calendar \in Calendars
  BY <1>1, CalendarAssumption DEF CalendarInit, Days
<1>7. PollIsWorkedOff
  BY <1>3 DEF PollIsWorkedOff
<1>8. QED
  BY <1>4, <1>5, <1>6, <1>7 DEF CalendarInvariant, RecordsAndPoll

\* A poll that is given up has nothing more to work off.
LEMMA PollDropped ==
    ASSUME CalendarInvariant, UNCHANGED <<day, calendar, ledger, timing>>,
           ingest' = [AtRest EXCEPT !.read = ingest.read]
    PROVE  CalendarInvariant'
<1>1. /\ day \in Days /\ calendar \in Calendars
      /\ ledger \in [Entries -> [row : AnyRow, seen : 0..ingest.read]]
      /\ timing \in [Entries -> [status : {"absent", "SCHEDULED", "CANCELLED"},
                                 at : 0..MaxDay, seen : 0..ingest.read]]
      /\ ingest.read \in 0..day /\ TimingMirrorsLedger
  BY DEF CalendarInvariant, RecordsAndPoll
<1>2. Absent \in AnyRow
  BY CalendarAssumption DEF Absent, AnyRow
<1>3. ingest' = [pc |-> "rest", read |-> ingest.read, rows |-> [e \in Entries |-> Absent],
                 covered |-> {}, ended |-> FALSE, todo |-> {}, gone |-> {}]
  BY DEF AtRest
<1>4. /\ ingest' \in [pc : {"rest", "storing"}, read : 0..day, rows : [Entries -> AnyRow],
                      covered : SUBSET Entries, ended : BOOLEAN,
                      todo : SUBSET Entries, gone : SUBSET Entries]
      /\ ingest'.read = ingest.read
  <2>1. PICK r, rows : r = ingest.read /\ rows = [e \in Entries |-> Absent]
    OBVIOUS
  <2>2. rows \in [Entries -> AnyRow] /\ r \in 0..day /\ day' = day
    BY <1>1, <1>2, <2>1
  <2>3. ingest' = [pc |-> "rest", read |-> r, rows |-> rows,
                   covered |-> {}, ended |-> FALSE, todo |-> {}, gone |-> {}]
    BY <1>3, <2>1
  <2>4. \A none \in SUBSET Entries : none = {} =>
           [pc |-> "rest", read |-> r, rows |-> rows,
                   covered |-> none, ended |-> FALSE, todo |-> none, gone |-> none]
             \in [pc : {"rest", "storing"}, read : 0..day, rows : [Entries -> AnyRow],
                  covered : SUBSET Entries, ended : BOOLEAN,
                  todo : SUBSET Entries, gone : SUBSET Entries]
    BY <2>2
  <2>5. {} \in SUBSET Entries
    OBVIOUS
  <2>6. ingest'.read = ingest.read
    BY <2>1, <2>3
  <2>7. QED
    BY <2>3, <2>4, <2>5, <2>6
<1>5. PollIsWorkedOff' /\ TimingMirrorsLedger'
  BY <1>1, <1>3 DEF PollIsWorkedOff, TimingMirrorsLedger
<1>6. QED
  BY <1>1, <1>4, <1>5 DEF CalendarInvariant, RecordsAndPoll

\* Putting a row of the poll: refused it ends the poll and leaves what is
\* stored, else the latest record of the event is the row, with its timing.
LEMMA RecordPut ==
    ASSUME CalendarInvariant, ingest.pc = "storing",
           NEW e \in ingest.todo \cup ingest.gone, NEW row \in AnyRow,
           PutRecord(e, row), UNCHANGED <<day, calendar>>,
           e \in ingest.todo => row = ingest.rows[e],
           e \in ingest.gone => row.status # "SCHEDULED"
    PROVE  CalendarInvariant'
<1>1. /\ day \in Days /\ calendar \in Calendars
      /\ ledger \in [Entries -> [row : AnyRow, seen : 0..ingest.read]]
      /\ timing \in [Entries -> [status : {"absent", "SCHEDULED", "CANCELLED"},
                                 at : 0..MaxDay, seen : 0..ingest.read]]
      /\ ingest \in [pc : {"rest", "storing"}, read : 0..day, rows : [Entries -> AnyRow],
                     covered : SUBSET Entries, ended : BOOLEAN,
                     todo : SUBSET Entries, gone : SUBSET Entries]
      /\ TimingMirrorsLedger /\ PollIsWorkedOff
  BY DEF CalendarInvariant, RecordsAndPoll
<1>2. /\ ingest.read \in 0..day /\ day \in Nat /\ e \in Entries
      /\ row.status \in {"absent", "SCHEDULED", "CANCELLED"} /\ row.at \in 0..MaxDay
  BY <1>1, CalendarAssumption DEF Days, AnyRow
<1>3. CASE Refused(e, row)
  <2>1. ingest' = [AtRest EXCEPT !.read = ingest.read] /\ UNCHANGED <<ledger, timing>>
    BY <1>3 DEF PutRecord
  <2>2. QED
    BY <1>1, <1>2, <2>1, PollDropped
<1>4. CASE ~Refused(e, row)
  <2>1. /\ ingest' = [ingest EXCEPT !.todo = ingest.todo \ {e}, !.gone = ingest.gone \ {e}]
        /\ IF Replays(e, row) THEN UNCHANGED <<ledger, timing>>
           ELSE /\ ledger' = [ledger EXCEPT ![e] = [row |-> row, seen |-> ingest.read]]
                /\ timing' = IF Reuses(e, row) THEN timing
                             ELSE [timing EXCEPT ![e] = [status |-> row.status,
                                       at |-> row.at, seen |-> ingest.read]]
    BY <1>4 DEF PutRecord
  <2>2. /\ ingest' \in [pc : {"rest", "storing"}, read : 0..day, rows : [Entries -> AnyRow],
                        covered : SUBSET Entries, ended : BOOLEAN,
                        todo : SUBSET Entries, gone : SUBSET Entries]
        /\ ingest'.pc = "storing" /\ ingest'.read = ingest.read /\ ingest'.rows = ingest.rows
        /\ ingest'.covered = ingest.covered /\ ingest'.ended = ingest.ended
        /\ ingest'.todo = ingest.todo \ {e} /\ ingest'.gone = ingest.gone \ {e}
    BY <1>1, <2>1
  <2>3. /\ ledger' \in [Entries -> [row : AnyRow, seen : 0..ingest.read]]
        /\ timing' \in [Entries -> [status : {"absent", "SCHEDULED", "CANCELLED"},
                                    at : 0..MaxDay, seen : 0..ingest.read]]
        /\ ledger'[e].row = row /\ timing'[e].status = row.status /\ timing'[e].at = row.at
        /\ \A f \in Entries \ {e} : ledger'[f] = ledger[f] /\ timing'[f] = timing[f]
    <3>1. CASE Replays(e, row)
      BY <1>1, <1>2, <2>1, <3>1 DEF Replays, TimingMirrorsLedger
    <3>2. CASE ~Replays(e, row)
      <4>1. ledger' = [ledger EXCEPT ![e] = [row |-> row, seen |-> ingest.read]]
        BY <2>1, <3>2
      <4>2. ingest.read \in 0..ingest.read
        BY <1>2
      <4>3. CASE Reuses(e, row)
        BY <1>1, <1>2, <2>1, <3>2, <4>1, <4>2, <4>3 DEF Reuses, SameTiming
      <4>4. CASE ~Reuses(e, row)
        <5>1. PICK q : q = [status |-> row.status, at |-> row.at, seen |-> ingest.read]
          OBVIOUS
        <5>2. /\ q \in [status : {"absent", "SCHEDULED", "CANCELLED"},
                        at : 0..MaxDay, seen : 0..ingest.read]
              /\ q.status = row.status /\ q.at = row.at
          BY <1>2, <4>2, <5>1
        <5>3. timing' = [timing EXCEPT ![e] = q]
          BY <2>1, <3>2, <4>4, <5>1
        <5>4. /\ timing' \in [Entries -> [status : {"absent", "SCHEDULED", "CANCELLED"},
                                          at : 0..MaxDay, seen : 0..ingest.read]]
              /\ timing'[e] = q /\ \A f \in Entries \ {e} : timing'[f] = timing[f]
          BY <1>1, <1>2, <5>2, <5>3
        <5>5. PICK l : l = [row |-> row, seen |-> ingest.read]
          OBVIOUS
        <5>6. l \in [row : AnyRow, seen : 0..ingest.read] /\ l.row = row
          BY <4>2, <5>5
        <5>7. /\ ledger' \in [Entries -> [row : AnyRow, seen : 0..ingest.read]]
              /\ ledger'[e] = l /\ \A f \in Entries \ {e} : ledger'[f] = ledger[f]
          BY <1>1, <1>2, <4>1, <5>5, <5>6
        <5>8. QED
          BY <5>2, <5>4, <5>6, <5>7
      <4>5. QED
        BY <4>3, <4>4
    <3>3. QED
      BY <3>1, <3>2
  <2>4. TimingMirrorsLedger'
    BY <1>1, <1>2, <2>3 DEF TimingMirrorsLedger
  <2>5. Listed' = Listed
    BY <2>2 DEF Listed
  <2>6. PollIsWorkedOff'
    <3>1. ingest'.todo \subseteq Listed' /\ ingest'.gone \cap Listed' = {}
      BY <1>1, <2>2, <2>5 DEF PollIsWorkedOff
    <3>2. ~ ingest.ended
      BY <1>1 DEF PollIsWorkedOff
    <3>3. ASSUME NEW f \in Listed PROVE ledger'[f].row = ingest.rows[f] \/ f \in ingest'.todo
      <4>1. CASE f = e
        BY <1>1, <2>3, <3>3, <4>1 DEF PollIsWorkedOff
      <4>2. CASE f # e
        BY <1>1, <2>2, <2>3, <3>3, <4>2 DEF PollIsWorkedOff, Listed
      <4>3. QED
        BY <4>1, <4>2
    <3>4. ASSUME NEW f \in ingest.covered \ Listed,
                 calendar.removal, ledger'[f].row.status = "SCHEDULED",
                 ledger'[f].row.at > ingest.read
          PROVE  f \in ingest'.gone
      <4>1. f \in Entries
        BY <1>1
      <4>2. CASE f = e
        BY <1>1, <2>3, <3>4, <4>2 DEF PollIsWorkedOff
      <4>3. CASE f # e
        BY <1>1, <2>2, <2>3, <3>4, <4>1, <4>3 DEF PollIsWorkedOff
      <4>4. QED
        BY <4>2, <4>3
    <3>5. QED
      BY <2>2, <2>5, <3>1, <3>2, <3>3, <3>4 DEF PollIsWorkedOff
  <2>7. QED
    BY <1>1, <2>2, <2>3, <2>4, <2>6 DEF CalendarInvariant, RecordsAndPoll
<1>5. QED
  BY <1>3, <1>4

\* Every step keeps the invariant of the calendar.
LEMMA CalendarStep == CalendarInvariant /\ [CalendarNext]_calendarVars => CalendarInvariant'
<1> SUFFICES ASSUME CalendarInvariant, [CalendarNext]_calendarVars PROVE CalendarInvariant'
  OBVIOUS
<1>1. /\ day \in Days /\ calendar \in Calendars
      /\ ledger \in [Entries -> [row : AnyRow, seen : 0..ingest.read]]
      /\ timing \in [Entries -> [status : {"absent", "SCHEDULED", "CANCELLED"},
                                 at : 0..MaxDay, seen : 0..ingest.read]]
      /\ ingest \in [pc : {"rest", "storing"}, read : 0..day, rows : [Entries -> AnyRow],
                     covered : SUBSET Entries, ended : BOOLEAN,
                     todo : SUBSET Entries, gone : SUBSET Entries]
      /\ TimingMirrorsLedger /\ PollIsWorkedOff
  BY DEF CalendarInvariant, RecordsAndPoll
<1>2. ingest.read \in 0..day /\ day \in Nat /\ day \in 1..MaxDay /\ MaxDay \in Nat
  BY <1>1, CalendarAssumption DEF Days
<1>3. CASE ReadCalendar
  <2>1. /\ ingest.read < day /\ UNCHANGED <<day, calendar, ledger, timing>>
    BY <1>3 DEF ReadCalendar
  <2>2. PICK rows \in [Entries -> Rows \cup {Absent}], covered \in SUBSET Entries :
          ingest' = [pc |-> "storing", read |-> day, rows |-> rows,
                     covered |-> covered, ended |-> FALSE,
                     todo |-> Current(rows), gone |-> Removed(rows, covered)]
    BY <1>3 DEF ReadCalendar
  <2>3. Rows \cup {Absent} \subseteq AnyRow
    BY <1>2 DEF Rows, Absent, AnyRow, Days
  <2>4. rows \in [Entries -> AnyRow]
    BY <2>3
  <2>5. Current(rows) \in SUBSET Entries /\ Removed(rows, covered) \in SUBSET Entries
    BY DEF Current, Removed
  <2>6. /\ ingest' \in [pc : {"rest", "storing"}, read : 0..day, rows : [Entries -> AnyRow],
                        covered : SUBSET Entries, ended : BOOLEAN,
                        todo : SUBSET Entries, gone : SUBSET Entries]
        /\ ingest'.pc = "storing" /\ ingest'.read = day /\ ingest'.rows = rows
        /\ ingest'.covered = covered /\ ingest'.ended = FALSE
        /\ ingest'.todo = Current(rows) /\ ingest'.gone = Removed(rows, covered)
    BY <1>2, <2>2, <2>4, <2>5
  <2>7. 0..ingest.read \subseteq 0..day
    BY <1>2
  <2>8. /\ ledger' \in [Entries -> [row : AnyRow, seen : 0..day]]
        /\ timing' \in [Entries -> [status : {"absent", "SCHEDULED", "CANCELLED"},
                                    at : 0..MaxDay, seen : 0..day]]
    BY <1>1, <2>1, <2>7
  <2>9. TimingMirrorsLedger'
    BY <1>1, <2>1 DEF TimingMirrorsLedger
  <2>10. Listed' = Current(rows)
    BY <2>1, <2>6 DEF Listed, Current
  <2>11. ASSUME NEW e \in covered \ Current(rows), calendar.removal,
                ledger[e].row.status = "SCHEDULED", ledger[e].row.at > day
         PROVE  e \in Removed(rows, covered)
    <3>1. ledger[e].seen \in 0..ingest.read
      BY <1>1
    <3>2. ledger[e].seen < day
      BY <1>2, <2>1, <3>1
    <3>3. QED
      BY <2>11, <3>2 DEF Removed
  <2>12. Removed(rows, covered) \cap Current(rows) = {}
    BY DEF Removed
  <2>13. PollIsWorkedOff'
    BY <2>1, <2>6, <2>10, <2>11, <2>12 DEF PollIsWorkedOff
  <2>14. QED
    BY <1>1, <2>1, <2>6, <2>8, <2>9, <2>13 DEF CalendarInvariant, RecordsAndPoll
<1>4. CASE StoreCurrent
  <2>1. PICK e \in ingest.todo : PutRecord(e, ingest.rows[e])
    BY <1>4 DEF StoreCurrent
  <2>2. e \in Listed /\ e \notin ingest.gone /\ ingest.rows[e] \in AnyRow
    BY <1>1 DEF PollIsWorkedOff
  <2>3. QED
    BY <1>4, <2>1, <2>2, RecordPut DEF StoreCurrent
<1>5. CASE StoreCancellation
  <2>1. PICK e \in ingest.gone : PutRecord(e, Cancelled(ledger[e].row))
    BY <1>5 DEF StoreCancellation
  <2>2. ledger[e].row \in AnyRow
    BY <1>1
  <2>3. PICK row : row = Cancelled(ledger[e].row)
    OBVIOUS
  <2>4. row \in AnyRow /\ row.status = "CANCELLED"
    BY <2>2, <2>3 DEF Cancelled, AnyRow
  <2>5. QED
    BY <1>5, <2>1, <2>3, <2>4, RecordPut DEF StoreCancellation
<1>6. CASE IngestFails
  BY <1>1, <1>2, <1>6, PollDropped DEF IngestFails
<1>7. CASE IngestEnds
  <2>1. /\ UNCHANGED <<day, calendar, ledger, timing>> /\ ingest.pc = "storing"
        /\ ingest.todo = {} /\ ingest.gone = {}
        /\ ingest' = [ingest EXCEPT !.pc = "rest", !.ended = TRUE]
    BY <1>7 DEF IngestEnds
  <2>2. /\ ingest' \in [pc : {"rest", "storing"}, read : 0..day, rows : [Entries -> AnyRow],
                        covered : SUBSET Entries, ended : BOOLEAN,
                        todo : SUBSET Entries, gone : SUBSET Entries]
        /\ ingest'.read = ingest.read /\ ingest'.rows = ingest.rows
        /\ ingest'.covered = ingest.covered /\ ingest'.todo = {} /\ ingest'.gone = {}
    BY <1>1, <2>1
  <2>3. Listed' = Listed
    BY <2>1, <2>2 DEF Listed
  <2>4. PollIsWorkedOff' /\ TimingMirrorsLedger'
    BY <1>1, <2>1, <2>2, <2>3 DEF PollIsWorkedOff, TimingMirrorsLedger
  <2>5. QED
    BY <1>1, <2>1, <2>2, <2>4 DEF CalendarInvariant, RecordsAndPoll
<1>8. CASE DayPasses
  <2>1. UNCHANGED <<calendar, ledger, timing, ingest>> /\ day' = day + 1 /\ day < MaxDay
    BY <1>8 DEF DayPasses
  <2>2. day' \in Days /\ 0..day \subseteq 0..day'
    BY <1>2, <2>1 DEF Days
  <2>3. ingest' \in [pc : {"rest", "storing"}, read : 0..day', rows : [Entries -> AnyRow],
                     covered : SUBSET Entries, ended : BOOLEAN,
                     todo : SUBSET Entries, gone : SUBSET Entries]
    BY <1>1, <2>1, <2>2
  <2>4. PollIsWorkedOff' /\ TimingMirrorsLedger'
    BY <1>1, <2>1 DEF PollIsWorkedOff, TimingMirrorsLedger, Listed
  <2>5. QED
    BY <1>1, <2>1, <2>2, <2>3, <2>4 DEF CalendarInvariant, RecordsAndPoll
<1>9. CASE UNCHANGED calendarVars
  <2>1. PollIsWorkedOff' /\ TimingMirrorsLedger'
    BY <1>1, <1>9 DEF calendarVars, PollIsWorkedOff, TimingMirrorsLedger, Listed
  <2>2. QED
    BY <1>1, <1>9, <2>1 DEF calendarVars, CalendarInvariant, RecordsAndPoll
<1>10. QED
  BY <1>3, <1>4, <1>5, <1>6, <1>7, <1>8, <1>9 DEF CalendarNext

\* A poll that was worked off left the calendar it read.
LEMMA WorkedOffIsMirrored == CalendarInvariant => CalendarMirrorsSource
<1>1. SUFFICES ASSUME CalendarInvariant PROVE CalendarMirrorsSource
  OBVIOUS
<1>2. /\ ledger \in [Entries -> [row : AnyRow, seen : 0..ingest.read]]
      /\ ingest \in [pc : {"rest", "storing"}, read : 0..day, rows : [Entries -> AnyRow],
                     covered : SUBSET Entries, ended : BOOLEAN,
                     todo : SUBSET Entries, gone : SUBSET Entries]
      /\ day \in Nat /\ TimingMirrorsLedger /\ PollIsWorkedOff
  BY <1>1, CalendarAssumption DEF CalendarInvariant, RecordsAndPoll, Days
<1>3. ASSUME ingest.ended, NEW e \in ingest.covered, ingest.rows[e] # Absent,
             ingest.rows[e].at >= ingest.read
      PROVE  ledger[e].row = ingest.rows[e]
  <2>1. e \in Entries /\ e \in Listed
    BY <1>2, <1>3 DEF Listed
  <2>2. QED
    BY <1>2, <1>3, <2>1 DEF PollIsWorkedOff
<1>4. ASSUME ingest.ended, NEW e \in ingest.covered,
             calendar.removal, ledger[e].row.status = "SCHEDULED"
      PROVE  ledger[e].row.at <= ingest.read \/ ledger[e].row = ingest.rows[e]
  <2>1. ledger[e].row.at \in 0..MaxDay /\ ingest.read \in 0..day /\ e \in Entries
    BY <1>2 DEF AnyRow
  <2>2. CASE e \in Listed
    BY <1>2, <1>4, <2>2 DEF PollIsWorkedOff
  <2>3. CASE e \notin Listed
    <3>1. ~(ledger[e].row.at > ingest.read)
      BY <1>2, <1>4, <2>3 DEF PollIsWorkedOff
    <3>2. QED
      BY <1>2, <2>1, <3>1, CalendarAssumption
  <2>4. QED
    BY <2>2, <2>3
<1>5. QED
  BY <1>2, <1>3, <1>4 DEF CalendarMirrorsSource, TimingMirrorsLedger

\* The calendar an ended poll leaves is the one it read, and the time of an
\* event is that of its latest record, whatever broke polls off.
THEOREM CalendarsAreMirrored == CalendarSpec => []CalendarMirrorsSource
BY CalendarBegins, CalendarStep, WorkedOffIsMirrored, PTL DEF CalendarSpec

-----------------------------------------------------------------------------
(* The chain of states.                                                    *)

\* The invariant of the chain holds where it begins.
LEMMA HistoryBegins == HistoryInit => HistoryInvariant
<1>1. SUFFICES ASSUME HistoryInit PROVE HistoryInvariant
  OBVIOUS
<1>2. states = <<>> /\ preps = [p \in Preparers |-> Idle]
  BY <1>1 DEF HistoryInit
<1>3. NoDelta \in [fact : 0..MaxFacts, events : SUBSET Events, shock : BOOLEAN]
  BY HistoryAssumption DEF NoDelta, None
<1>4. Idle \in [pc : {"rest", "again", "read", "compare", "packet"},
                cause : Causes, asof : 0..MaxNow, fact : 0..MaxFacts,
                events : SUBSET Events, before : 0..MaxNow,
                delta : [fact : 0..MaxFacts, events : SUBSET Events, shock : BOOLEAN]]
      /\ Idle.pc = "rest"
  BY <1>3, HistoryAssumption DEF Idle, Causes, None
<1>5. ChainAndPreparations
  BY <1>1, <1>2, <1>4, HistoryAssumption DEF HistoryInit, ChainAndPreparations, Times
<1>6. PredecessorIsEarlier /\ DeltasJoinNeighbours
  BY <1>2, <1>4 DEF PredecessorIsEarlier, DeltasJoinNeighbours
<1>7. QED
  BY <1>5, <1>6 DEF HistoryInvariant

\* The latest of a set of times is in it, and none where there is none.
LEMMA LatestOf ==
    ASSUME NEW b \in Nat, NEW S \in SUBSET (1 .. b)
    PROVE  /\ Latest(S) \in 0 .. b
           /\ S = {} => Latest(S) = None
           /\ S # {} => Latest(S) \in S /\ \A s \in S : s <= Latest(S)
<1>1. CASE S = {}
  BY <1>1 DEF Latest, None
<1>2. CASE S # {}
  <2>1. S \in SUBSET (0 .. b)
    OBVIOUS
  <2>2. Max(S) \in S /\ \A n \in S : n <= Max(S)
    BY <1>2, <2>1, MaxMin
  <2>3. Latest(S) = Max(S)
    BY <1>2 DEF Latest
  <2>4. Max(S) \in 0 .. b
    BY <2>1, <2>2
  <2>5. QED
    BY <1>2, <2>2, <2>3, <2>4
<1>3. QED
  BY <1>1, <1>2

\* A preparation that becomes another, the chain as it was.
LEMMA PreparationMoves ==
    ASSUME HistoryInvariant, NEW p \in Preparers,
           NEW q \in [pc : {"rest", "again", "read", "compare", "packet"},
                      cause : Causes, asof : 0..MaxNow, fact : 0..MaxFacts,
                      events : SUBSET Events, before : 0..MaxNow,
                      delta : [fact : 0..MaxFacts, events : SUBSET Events, shock : BOOLEAN]],
           Become(p, q), states' = states, UNCHANGED others,
           q.pc # "rest" => q.asof \in Times,
           q.pc = "compare" => q.before < q.asof /\ q.before \in DOMAIN states \cup {None}
    PROVE  HistoryInvariant'
<1>1. ChainAndPreparations /\ PredecessorIsEarlier /\ DeltasJoinNeighbours
  BY DEF HistoryInvariant
<1>2. preps'[p] = q /\ \A r \in Preparers \ {p} : preps'[r] = preps[r]
  BY <1>1 DEF Become, ChainAndPreparations
<1>3. ChainAndPreparations'
  BY <1>1 DEF Become, ChainAndPreparations, others
<1>4. PredecessorIsEarlier'
  BY <1>1, <1>2 DEF PredecessorIsEarlier
<1>5. DeltasJoinNeighbours'
  BY <1>1 DEF DeltasJoinNeighbours, StateBefore
<1>6. QED
  BY <1>3, <1>4, <1>5 DEF HistoryInvariant

\* A state recorded behind all the others joins the latest of them.
LEMMA StateRecorded ==
    ASSUME HistoryInvariant, NEW p \in Preparers, preps[p].pc = "compare",
           preps[p].asof \notin DOMAIN states, LatestState = preps[p].before, PutState(p)
    PROVE  /\ DOMAIN states' = DOMAIN states \cup {preps[p].asof}
           /\ states' = [t \in DOMAIN states' |-> states'[t]]
           /\ DeltasJoinNeighbours'
<1>1. /\ states = [t \in DOMAIN states |-> states[t]] /\ DOMAIN states \subseteq Times
      /\ DeltasJoinNeighbours /\ MaxNow \in Nat
  BY HistoryAssumption DEF HistoryInvariant, ChainAndPreparations
<1>2. PICK a, b : a = preps[p].asof /\ b = preps[p].before
  OBVIOUS
<1>3. a \in Times /\ b < a /\ a \notin DOMAIN states /\ b = LatestState
  BY <1>2 DEF HistoryInvariant, PredecessorIsEarlier
<1>4. PICK new : new = StateOf(p)
  OBVIOUS
<1>5. states' = [t \in DOMAIN states \cup {a} |-> IF t \in DOMAIN states THEN states[t] ELSE new]
  BY <1>2, <1>4 DEF PutState
<1>6. /\ DOMAIN states' = DOMAIN states \cup {a} /\ states'[a] = new
      /\ \A t \in DOMAIN states : states'[t] = states[t]
      /\ states' = [t \in DOMAIN states' |-> states'[t]]
  BY <1>3, <1>5
<1>7. /\ b = None <=> DOMAIN states = {}
      /\ b # None => b \in DOMAIN states
      /\ \A t \in DOMAIN states : t <= b
  <2>1. DOMAIN states \in SUBSET (1 .. MaxNow)
    BY <1>1 DEF Times
  <2>2. None \notin DOMAIN states
    BY <2>1 DEF None
  <2>3. QED
    BY <1>1, <1>3, <2>1, <2>2, LatestOf DEF LatestState
<1>8. \A t \in DOMAIN states : t < a
  <2>1. ASSUME NEW t \in DOMAIN states PROVE t < a
    <3>1. t \in Nat /\ a \in Nat /\ t <= b /\ b < a /\ b \in Nat
      BY <1>1, <1>3, <1>7 DEF Times
    <3>2. QED
      BY <3>1
  <2>2. QED
    BY <2>1
<1>9. ASSUME NEW t \in DOMAIN states PROVE StateBefore(t)' = StateBefore(t)
  <2>1. t \in Nat /\ a \in Nat /\ t < a
    BY <1>1, <1>3, <1>8 DEF Times
  <2>2. {s \in DOMAIN states' : s < t} = {s \in DOMAIN states : s < t}
    BY <1>6, <2>1
  <2>3. QED
    BY <2>2 DEF StateBefore
<1>10. StateBefore(a)' = b
  <2>1. a \in Nat
    BY <1>3 DEF Times
  <2>2. {s \in DOMAIN states' : s < a} = DOMAIN states
    BY <1>6, <1>8, <2>1
  <2>3. QED
    BY <1>3, <2>2 DEF StateBefore, LatestState
<1>11. ASSUME NEW t \in DOMAIN states PROVE StateBefore(t) = None \/ StateBefore(t) \in DOMAIN states
  <2>1. {s \in DOMAIN states : s < t} \in SUBSET (1 .. MaxNow)
    BY <1>1 DEF Times
  <2>2. QED
    BY <1>1, <2>1, LatestOf DEF StateBefore
<1>12. ASSUME NEW t \in DOMAIN states'
       PROVE  /\ states'[t].before = StateBefore(t)'
              /\ LET c == states'[t].before
                 IN  c # None /\ states'[t].fact # states'[c].fact /\ IsMaterial(states'[t].fact)
                       => states'[t].delta.fact = states'[t].fact
  <2>1. CASE t \in DOMAIN states
    <3>1. states'[t] = states[t] /\ states[t].before = StateBefore(t)
      BY <1>1, <1>6, <2>1 DEF DeltasJoinNeighbours
    <3>2. PICK c : c = states[t].before
      OBVIOUS
    <3>3. c # None => states'[c] = states[c]
      BY <1>6, <1>11, <2>1, <3>1, <3>2
    <3>4. c # None /\ states[t].fact # states[c].fact /\ IsMaterial(states[t].fact)
             => states[t].delta.fact = states[t].fact
      BY <1>1, <2>1, <3>2 DEF DeltasJoinNeighbours
    <3>5. QED
      BY <1>9, <2>1, <3>1, <3>2, <3>3, <3>4
  <2>2. CASE t = a
    <3>1. new.before = b /\ new.fact = preps[p].fact /\ new.delta = DeltaOf(p)
      BY <1>2, <1>4 DEF StateOf
    <3>2. b # None => states'[b] = states[b]
      BY <1>6, <1>7
    <3>3. b # None /\ preps[p].fact # states[b].fact /\ IsMaterial(preps[p].fact)
            => DeltaOf(p).fact = preps[p].fact
      BY <1>2 DEF DeltaOf
    <3>4. QED
      BY <1>6, <1>10, <2>2, <3>1, <3>2, <3>3
  <2>3. QED
    BY <1>6, <2>1, <2>2
<1>13. QED
  BY <1>2, <1>6, <1>12 DEF DeltasJoinNeighbours

\* What a preparation finds at a time it can have.
LEMMA Findings ==
    ASSUME HistoryInvariant, NEW t
    PROVE  FactAsOf(t) \in 0..MaxFacts /\ VisibleAt(t) \in SUBSET Events
<1>1. {r \in DOMAIN revisions : revisions[r] <= t} \in SUBSET (1 .. MaxFacts)
  BY DEF HistoryInvariant, ChainAndPreparations
<1>2. MaxFacts \in Nat
  BY HistoryAssumption
<1>3. FactAsOf(t) \in 0..MaxFacts
  BY <1>1, <1>2, LatestOf DEF FactAsOf
<1>4. QED
  BY <1>3 DEF VisibleAt, HistoryInvariant, ChainAndPreparations

\* The predecessor a preparation reads is before its as_of.
LEMMA PredecessorRead ==
    ASSUME HistoryInvariant, NEW t \in Times
    PROVE  StateBefore(t) \in 0..MaxNow /\ StateBefore(t) < t
           /\ StateBefore(t) \in DOMAIN states \cup {None}
<1>1. MaxNow \in Nat /\ t \in Nat /\ t > 0
  BY HistoryAssumption DEF Times
<1>2. PICK S : S = {s \in DOMAIN states : s < t}
  OBVIOUS
<1>3. S \in SUBSET (1 .. MaxNow)
  BY <1>2 DEF HistoryInvariant, ChainAndPreparations, Times
<1>4. StateBefore(t) = Latest(S)
  BY <1>2 DEF StateBefore
<1>5. CASE S = {}
  BY <1>1, <1>3, <1>4, <1>5, LatestOf DEF None
<1>6. CASE S # {}
  <2>1. Latest(S) \in S /\ Latest(S) \in 0..MaxNow
    BY <1>1, <1>3, <1>6, LatestOf
  <2>2. QED
    BY <1>2, <1>4, <2>1
<1>7. QED
  BY <1>5, <1>6

\* Every step keeps the invariant of the chain.
LEMMA HistoryStep == HistoryInvariant /\ [HistoryNext]_historyVars => HistoryInvariant'
<1> SUFFICES ASSUME HistoryInvariant, [HistoryNext]_historyVars PROVE HistoryInvariant'
  OBVIOUS
<1>1. /\ states = [t \in DOMAIN states |-> states[t]] /\ DOMAIN states \subseteq Times
      /\ now \in Times /\ DOMAIN revisions \subseteq 1..MaxFacts /\ DOMAIN eventSeen \subseteq Events
      /\ preps \in [Preparers -> [pc : {"rest", "again", "read", "compare", "packet"},
                                  cause : Causes, asof : 0..MaxNow, fact : 0..MaxFacts,
                                  events : SUBSET Events, before : 0..MaxNow,
                                  delta : [fact : 0..MaxFacts, events : SUBSET Events,
                                           shock : BOOLEAN]]]
      /\ PredecessorIsEarlier /\ DeltasJoinNeighbours
  BY DEF HistoryInvariant, ChainAndPreparations
<1>2. MaxNow \in Nat \ {0} /\ MaxFacts \in Nat \ {0} /\ Times = 1..MaxNow
  BY HistoryAssumption DEF Times
<1>3. NoDelta \in [fact : 0..MaxFacts, events : SUBSET Events, shock : BOOLEAN]
  BY <1>2 DEF NoDelta, None
<1>4. Idle \in [pc : {"rest", "again", "read", "compare", "packet"},
                cause : Causes, asof : 0..MaxNow, fact : 0..MaxFacts,
                events : SUBSET Events, before : 0..MaxNow,
                delta : [fact : 0..MaxFacts, events : SUBSET Events, shock : BOOLEAN]]
      /\ Idle.pc = "rest"
  BY <1>2, <1>3 DEF Idle, Causes, None
<1>5. ASSUME NEW p \in Preparers, Retry(p), preps[p].pc # "rest", UNCHANGED <<others, states>>
      PROVE  HistoryInvariant'
  <2>1. PICK q : q = [preps[p] EXCEPT !.pc = "again"]
    OBVIOUS
  <2>2. /\ q \in [pc : {"rest", "again", "read", "compare", "packet"},
                  cause : Causes, asof : 0..MaxNow, fact : 0..MaxFacts,
                  events : SUBSET Events, before : 0..MaxNow,
                  delta : [fact : 0..MaxFacts, events : SUBSET Events, shock : BOOLEAN]]
        /\ q.pc = "again" /\ q.asof = preps[p].asof
    BY <1>1, <2>1
  <2>3. q.asof \in Times
    BY <1>1, <1>5, <2>2 DEF PredecessorIsEarlier
  <2>4. Become(p, q)
    BY <1>5, <2>1 DEF Retry
  <2>5. QED
    BY <1>5, <2>2, <2>3, <2>4, PreparationMoves
<1>6. ASSUME NEW p \in Preparers, Prepare(p) PROVE HistoryInvariant'
  <2>1. UNCHANGED <<others, states>>
    BY <1>6 DEF Prepare
  <2>2. CASE preps[p].pc = "rest"
    <3>1. PICK cause \in {"FACT", Shock, Review} \cup DOMAIN eventSeen :
             Become(p, [Idle EXCEPT !.pc = "read", !.cause = cause, !.asof = now,
                               !.fact = FactAsOf(now), !.events = VisibleAt(now)])
      BY <1>6, <2>2 DEF Prepare
    <3>2. cause \in Causes
      BY <1>1 DEF Causes
    <3>3. PICK f, v : f = FactAsOf(now) /\ v = VisibleAt(now)
      OBVIOUS
    <3>4. f \in 0..MaxFacts /\ v \in SUBSET Events
      BY <3>3, Findings
    <3>5. PICK q : q = [Idle EXCEPT !.pc = "read", !.cause = cause, !.asof = now,
                               !.fact = f, !.events = v]
      OBVIOUS
    <3>6. /\ q \in [pc : {"rest", "again", "read", "compare", "packet"},
                    cause : Causes, asof : 0..MaxNow, fact : 0..MaxFacts,
                    events : SUBSET Events, before : 0..MaxNow,
                    delta : [fact : 0..MaxFacts, events : SUBSET Events, shock : BOOLEAN]]
          /\ q.pc = "read" /\ q.asof = now
      <4>1. q = [pc |-> "read", cause |-> cause, asof |-> now, fact |-> f, events |-> v,
                 before |-> None, delta |-> NoDelta]
        BY <3>5 DEF Idle
      <4>2. now \in 0..MaxNow /\ None \in 0..MaxNow
        BY <1>1, <1>2 DEF None
      <4>3. QED
        BY <1>3, <3>2, <3>4, <4>1, <4>2
    <3>7. Become(p, q)
      BY <3>1, <3>3, <3>5
    <3>8. QED
      BY <1>1, <2>1, <3>6, <3>7, PreparationMoves
  <2>3. CASE preps[p].pc = "again"
    <3>1. PICK a : a = preps[p].asof
      OBVIOUS
    <3>2. PICK f, v : f = FactAsOf(a) /\ v = VisibleAt(a)
      OBVIOUS
    <3>3. f \in 0..MaxFacts /\ v \in SUBSET Events
      BY <3>2, Findings
    <3>4. PICK q : q = [preps[p] EXCEPT !.pc = "read", !.fact = f, !.events = v]
      OBVIOUS
    <3>5. /\ q \in [pc : {"rest", "again", "read", "compare", "packet"},
                    cause : Causes, asof : 0..MaxNow, fact : 0..MaxFacts,
                    events : SUBSET Events, before : 0..MaxNow,
                    delta : [fact : 0..MaxFacts, events : SUBSET Events, shock : BOOLEAN]]
          /\ q.pc = "read" /\ q.asof = a
      BY <1>1, <3>1, <3>3, <3>4
    <3>6. Become(p, q)
      BY <1>6, <2>3, <3>1, <3>2, <3>4 DEF Prepare
    <3>7. a \in Times
      BY <1>1, <2>3, <3>1 DEF PredecessorIsEarlier
    <3>8. QED
      BY <2>1, <3>5, <3>6, <3>7, PreparationMoves
  <2>4. QED
    BY <1>6, <2>2, <2>3 DEF Prepare
<1>7. ASSUME NEW p \in Preparers, ReadPredecessor(p) PROVE HistoryInvariant'
  <2>1. UNCHANGED <<others, states>> /\ preps[p].pc = "read"
    BY <1>7 DEF ReadPredecessor
  <2>2. CASE OtherState(p)
    BY <1>5, <1>7, <2>1, <2>2 DEF ReadPredecessor
  <2>3. CASE ~OtherState(p)
    <3>1. PICK a, b : a = preps[p].asof /\ b = StateBefore(a)
      OBVIOUS
    <3>2. a \in Times
      BY <1>1, <2>1, <3>1 DEF PredecessorIsEarlier
    <3>3. b \in 0..MaxNow /\ b < a /\ b \in DOMAIN states \cup {None}
      BY <3>1, <3>2, PredecessorRead
    <3>4. PICK q : q = [preps[p] EXCEPT !.pc = "compare", !.before = b]
      OBVIOUS
    <3>5. /\ q \in [pc : {"rest", "again", "read", "compare", "packet"},
                    cause : Causes, asof : 0..MaxNow, fact : 0..MaxFacts,
                    events : SUBSET Events, before : 0..MaxNow,
                    delta : [fact : 0..MaxFacts, events : SUBSET Events, shock : BOOLEAN]]
          /\ q.asof = a /\ q.before = b
      BY <1>1, <3>1, <3>3, <3>4
    <3>6. Become(p, q)
      BY <1>7, <2>3, <3>1, <3>4 DEF ReadPredecessor
    <3>7. QED
      BY <2>1, <3>2, <3>3, <3>5, <3>6, PreparationMoves
  <2>4. QED
    BY <2>2, <2>3
<1>8. ASSUME NEW p \in Preparers, RecordState(p) PROVE HistoryInvariant'
  <2>1. UNCHANGED others /\ preps[p].pc = "compare"
    BY <1>8 DEF RecordState
  <2>2. CASE ~MayRecord(p)
    BY <1>5, <1>8, <2>1, <2>2 DEF RecordState
  <2>3. CASE MayRecord(p)
    <3>1. PutState(p) /\ Become(p, [preps[p] EXCEPT !.pc = "packet", !.delta = DeltaOf(p)])
      BY <1>8, <2>3 DEF RecordState
    <3>2. PICK d : d = DeltaOf(p)
      OBVIOUS
    <3>3. d \in [fact : 0..MaxFacts, events : SUBSET Events, shock : BOOLEAN]
      <4>1. PICK c, f, g, e : /\ c = preps[p].cause /\ f = preps[p].fact
                              /\ g = (IF f # states[preps[p].before].fact /\ IsMaterial(f) THEN f ELSE None)
                              /\ e = {c} \cap (Events \ states[preps[p].before].events)
        OBVIOUS
      <4>2. f \in 0..MaxFacts /\ g \in 0..MaxFacts /\ e \in SUBSET Events
        BY <1>1, <1>2, <4>1 DEF None
      <4>3. d = NoDelta \/ d = [fact |-> g, events |-> e, shock |-> c = Shock]
        BY <3>2, <4>1 DEF DeltaOf
      <4>4. QED
        <5>1. PICK h : h = (c = Shock)
          OBVIOUS
        <5>2. h \in BOOLEAN
          BY <5>1
        <5>3. CASE d = [fact |-> g, events |-> e, shock |-> h]
          BY <4>2, <5>2, <5>3
        <5>4. QED
          BY <1>3, <4>3, <5>1, <5>3
    <3>4. PICK q : q = [preps[p] EXCEPT !.pc = "packet", !.delta = d]
      OBVIOUS
    <3>5. /\ q \in [pc : {"rest", "again", "read", "compare", "packet"},
                    cause : Causes, asof : 0..MaxNow, fact : 0..MaxFacts,
                    events : SUBSET Events, before : 0..MaxNow,
                    delta : [fact : 0..MaxFacts, events : SUBSET Events, shock : BOOLEAN]]
          /\ q.pc = "packet" /\ q.asof = preps[p].asof
      <4>1. PICK o : o = preps[p]
        OBVIOUS
      <4>2. o \in [pc : {"rest", "again", "read", "compare", "packet"},
                    cause : Causes, asof : 0..MaxNow, fact : 0..MaxFacts,
                    events : SUBSET Events, before : 0..MaxNow,
                    delta : [fact : 0..MaxFacts, events : SUBSET Events, shock : BOOLEAN]]
        BY <1>1, <4>1
      <4>3. q = [o EXCEPT !.pc = "packet", !.delta = d]
        BY <3>4, <4>1
      <4>4. QED
        BY <3>3, <4>1, <4>2, <4>3
    <3>6. Become(p, q) /\ q.asof \in Times
      BY <1>1, <2>1, <3>1, <3>2, <3>4, <3>5 DEF PredecessorIsEarlier
    <3>7. CASE preps[p].asof \in DOMAIN states
      <4>1. states' = [t \in DOMAIN states |-> states[t]]
        BY <3>1, <3>7 DEF PutState
      <4>2. QED
        BY <1>1, <2>1, <3>5, <3>6, <4>1, PreparationMoves
    <3>8. CASE preps[p].asof \notin DOMAIN states
      <4>1. LatestState = preps[p].before
        BY <2>3, <3>8 DEF MayRecord, MayRecordState, MayRecordTransition, SameState
      <4>2. /\ DOMAIN states' = DOMAIN states \cup {preps[p].asof}
            /\ states' = [t \in DOMAIN states' |-> states'[t]]
            /\ DeltasJoinNeighbours'
        BY <2>1, <3>1, <3>8, <4>1, StateRecorded
      <4>3. preps'[p] = q /\ \A r \in Preparers \ {p} : preps'[r] = preps[r]
        BY <1>1, <3>6 DEF Become
      <4>4. preps' \in [Preparers -> [pc : {"rest", "again", "read", "compare", "packet"},
                                  cause : Causes, asof : 0..MaxNow, fact : 0..MaxFacts,
                                  events : SUBSET Events, before : 0..MaxNow,
                                  delta : [fact : 0..MaxFacts, events : SUBSET Events,
                                           shock : BOOLEAN]]]
        BY <1>1, <3>5, <3>6 DEF Become
      <4>5. DOMAIN states' \subseteq Times
        BY <1>1, <3>5, <3>6, <4>2
      <4>6. ChainAndPreparations'
        BY <1>1, <2>1, <4>2, <4>4, <4>5 DEF ChainAndPreparations, others
      <4>7. PredecessorIsEarlier'
        BY <1>1, <3>5, <3>6, <4>2, <4>3 DEF PredecessorIsEarlier
      <4>8. QED
        BY <4>2, <4>6, <4>7 DEF HistoryInvariant
    <3>9. QED
      BY <3>7, <3>8
  <2>4. QED
    BY <2>2, <2>3
<1>9. ASSUME NEW p \in Preparers, Assemble(p) PROVE HistoryInvariant'
  <2>1. UNCHANGED <<others, states>> /\ preps[p].pc = "packet"
    BY <1>9 DEF Assemble
  <2>2. CASE Become(p, Idle)
    BY <1>4, <2>1, <2>2, PreparationMoves
  <2>3. CASE Retry(p)
    BY <1>5, <2>1, <2>3
  <2>4. QED
    BY <1>9, <2>2, <2>3 DEF Assemble
<1>10. CASE FactArrives
  <2>1. UNCHANGED <<now, eventSeen, states, preps>> /\ Cardinality(DOMAIN revisions) < MaxFacts
    BY <1>10 DEF FactArrives
  <2>2. PICK r : r = Cardinality(DOMAIN revisions) + 1
    OBVIOUS
  <2>3. DOMAIN revisions' = 1..r
    BY <1>10, <2>2 DEF FactArrives
  <2>4. Cardinality(DOMAIN revisions) \in Nat
    <3>1. IsFiniteSet(1..MaxFacts)
      BY <1>2, FS_Interval
    <3>2. IsFiniteSet(DOMAIN revisions)
      BY <1>1, <3>1, FS_Subset
    <3>3. QED
      BY <3>2, FS_CardinalityType
  <2>5. DOMAIN revisions' \subseteq 1..MaxFacts
    BY <1>2, <2>1, <2>2, <2>3, <2>4
  <2>6. ChainAndPreparations'
    BY <1>1, <2>1, <2>5 DEF ChainAndPreparations
  <2>7. QED
    BY <1>1, <2>1, <2>6 DEF HistoryInvariant, PredecessorIsEarlier, DeltasJoinNeighbours, StateBefore
<1>11. CASE EventArrives
  <2>1. UNCHANGED <<now, revisions, states, preps>> /\ DOMAIN eventSeen' \subseteq Events
    BY <1>1, <1>11 DEF EventArrives
  <2>2. ChainAndPreparations'
    BY <1>1, <2>1 DEF ChainAndPreparations
  <2>3. QED
    BY <1>1, <2>1, <2>2 DEF HistoryInvariant, PredecessorIsEarlier, DeltasJoinNeighbours, StateBefore
<1>12. CASE NowPasses
  <2>1. UNCHANGED <<eventSeen, revisions, states, preps>> /\ now' \in Times
    BY <1>1, <1>2, <1>12 DEF NowPasses
  <2>2. ChainAndPreparations'
    BY <1>1, <2>1 DEF ChainAndPreparations
  <2>3. QED
    BY <1>1, <2>1, <2>2 DEF HistoryInvariant, PredecessorIsEarlier, DeltasJoinNeighbours, StateBefore
<1>13. CASE UNCHANGED historyVars
  <2>1. ChainAndPreparations'
    BY <1>1, <1>13 DEF ChainAndPreparations, historyVars
  <2>2. QED
    BY <1>1, <1>13, <2>1
       DEF historyVars, HistoryInvariant, PredecessorIsEarlier, DeltasJoinNeighbours, StateBefore
<1>14. QED
  BY <1>6, <1>7, <1>8, <1>9, <1>10, <1>11, <1>12, <1>13 DEF HistoryNext

\* Each recorded state is compared with the one directly before it, and a
\* material revision between the two is in its delta, whatever overlaps.
THEOREM StatesFormAChain == HistorySpec => []DeltasJoinNeighbours
<1>1. HistoryInvariant => DeltasJoinNeighbours
  BY DEF HistoryInvariant
<1>2. QED
  BY <1>1, HistoryBegins, HistoryStep, PTL DEF HistorySpec

\* A state recorded behind all the others is the only one that is new.
LEMMA StateAppended ==
    ASSUME HistoryInvariant, NEW p \in Preparers, preps[p].pc = "compare",
           preps[p].asof \notin DOMAIN states, LatestState = preps[p].before, PutState(p)
    PROVE  \E a \in Times, b \in 0..MaxNow :
              /\ a = preps[p].asof /\ b = preps[p].before
              /\ DOMAIN states' = DOMAIN states \cup {a} /\ states'[a] = StateOf(p)
              /\ \A t \in DOMAIN states : states'[t] = states[t] /\ t < a /\ t <= b
              /\ b # None => b \in DOMAIN states
<1>1. DOMAIN states \subseteq Times /\ MaxNow \in Nat
  BY HistoryAssumption DEF HistoryInvariant, ChainAndPreparations
<1>2. PICK a, b : a = preps[p].asof /\ b = preps[p].before
  OBVIOUS
<1>3. a \in Times /\ b < a /\ a \notin DOMAIN states /\ b = LatestState /\ b \in 0..MaxNow
  BY <1>2 DEF HistoryInvariant, PredecessorIsEarlier, ChainAndPreparations
<1>4. PICK new : new = StateOf(p)
  OBVIOUS
<1>5. states' = [t \in DOMAIN states \cup {a} |-> IF t \in DOMAIN states THEN states[t] ELSE new]
  BY <1>2, <1>4 DEF PutState
<1>6. /\ DOMAIN states' = DOMAIN states \cup {a} /\ states'[a] = new
      /\ \A t \in DOMAIN states : states'[t] = states[t]
  BY <1>3, <1>5
<1>7. b # None => b \in DOMAIN states
  BY <1>2 DEF HistoryInvariant, PredecessorIsEarlier
<1>8. ASSUME NEW t \in DOMAIN states PROVE t < a /\ t <= b
  <2>1. DOMAIN states \in SUBSET (1 .. MaxNow)
    BY <1>1 DEF Times
  <2>2. t <= b
    BY <1>1, <1>3, <2>1, LatestOf DEF LatestState
  <2>3. QED
    BY <1>1, <1>3, <2>2 DEF Times
<1>9. QED
  BY <1>2, <1>3, <1>4, <1>6, <1>7, <1>8

\* What the preparations hold, one at a time.
LEMMA PreparationFacts ==
    ASSUME NewsInvariant, NEW p \in Preparers
    PROVE  /\ preps[p].asof \in 0..MaxNow /\ preps[p].fact \in 0..MaxFacts
           /\ preps[p].before \in 0..MaxNow
           /\ preps[p].events \in SUBSET Events /\ preps[p].cause \in Causes
           /\ now \in Times /\ MaxNow \in Nat /\ MaxFacts \in Nat
BY HistoryAssumption DEF NewsInvariant, HistoryInvariant, ChainAndPreparations

\* The news of a chain holds where it begins.
LEMMA NewsBegins == HistoryInit => NewsInvariant
<1>1. SUFFICES ASSUME HistoryInit PROVE NewsInvariant
  OBVIOUS
<1>2. HistoryInvariant
  BY <1>1, HistoryBegins
<1>3. /\ revisions = <<>> /\ eventSeen = <<>> /\ states = <<>> /\ DOMAIN <<>> = {}
      /\ preps = [p \in Preparers |-> Idle]
  BY <1>1 DEF HistoryInit
<1>4. \A p \in Preparers : ~Working(p)
  BY <1>3 DEF Working, Idle
<1>5. LedgersInOrder
  <2>1. Cardinality({}) = 0
    BY FS_EmptySet
  <2>2. QED
    BY <1>3, <2>1 DEF LedgersInOrder
<1>6. CausesAreRead
  BY <1>4 DEF CausesAreRead
<1>7. FactsGoOn /\ DeltasAreNews /\ NewsIsKept
  BY <1>3 DEF FactsGoOn, DeltasAreNews, NewsIsKept
<1>8. QED
  BY <1>2, <1>5, <1>6, <1>7 DEF NewsInvariant

\* A preparation that begins, reads again, goes on or ends repeats no news.
LEMMA NewsPreparation ==
    ASSUME NewsInvariant, HistoryInvariant', NEW p \in Preparers, NEW q,
           preps' = [preps EXCEPT ![p] = q], UNCHANGED <<others, states>>,
           \/ q.pc = "rest"
           \/ /\ Working(p) /\ q.asof = preps[p].asof /\ q.cause = preps[p].cause
              /\ q.events = preps[p].events \/ q.events = VisibleAt(q.asof)
           \/ /\ q.asof = now /\ q.events = VisibleAt(q.asof)
              /\ q.cause \in Events => q.cause \in DOMAIN eventSeen
    PROVE  NewsInvariant'
<1>1. /\ HistoryInvariant /\ LedgersInOrder
      /\ CausesAreRead /\ FactsGoOn /\ DeltasAreNews /\ NewsIsKept
  BY DEF NewsInvariant
<1>2. UNCHANGED <<now, revisions, eventSeen, states>>
  BY DEF others
<1>3. preps'[p] = q /\ \A r \in Preparers \ {p} : preps'[r] = preps[r]
  BY <1>1 DEF HistoryInvariant, ChainAndPreparations
<1>4. LedgersInOrder' /\ FactsGoOn' /\ DeltasAreNews'
  BY <1>1, <1>2 DEF LedgersInOrder, FactsGoOn, DeltasAreNews
<1>5. now \in Nat /\ \A r \in Preparers : preps[r].asof \in Nat /\ preps'[r].asof \in Nat
  <2>1. now \in Times /\ \A r \in Preparers : preps[r].asof \in 0..MaxNow /\ preps'[r].asof \in 0..MaxNow
    BY <1>1 DEF HistoryInvariant, ChainAndPreparations
  <2>2. QED
    BY <2>1 DEF Times
<1>6. \A e \in DOMAIN eventSeen : eventSeen[e] \in Nat /\ eventSeen[e] <= now
  BY <1>1, <1>5 DEF LedgersInOrder
<1>7. ASSUME NEW r \in Preparers, Working(r)'
      PROVE  /\ preps'[r].asof <= now
             /\ preps'[r].cause \in Events =>
                   /\ preps'[r].cause \in DOMAIN eventSeen
                   /\ eventSeen[preps'[r].cause] <= preps'[r].asof
                   /\ preps'[r].cause \in preps'[r].events
  <2>1. CASE r # p
    <3>1. preps'[r] = preps[r] /\ Working(r)
      BY <1>3, <1>7, <2>1 DEF Working
    <3>2. QED
      BY <1>1, <3>1 DEF CausesAreRead
  <2>2. CASE r = p /\ q.asof = now /\ q.events = VisibleAt(q.asof)
                   /\ (q.cause \in Events => q.cause \in DOMAIN eventSeen)
    BY <1>3, <1>5, <1>6, <2>2 DEF VisibleAt
  <2>3. CASE r = p /\ Working(p) /\ q.asof = preps[p].asof /\ q.cause = preps[p].cause
                   /\ (q.events = preps[p].events \/ q.events = VisibleAt(q.asof))
    BY <1>1, <1>3, <2>3 DEF CausesAreRead, VisibleAt
  <2>4. QED
    BY <1>3, <1>7, <2>1, <2>2, <2>3 DEF Working
<1>8. ASSUME NEW r \in Preparers, NEW s \in Preparers, Working(r)', Working(s)',
             preps'[r].cause \in Events, preps'[r].asof < preps'[s].asof
      PROVE  preps'[r].cause \in preps'[s].events
  <2>1. PICK c, t : c = preps'[r].cause /\ t = preps'[r].asof
    OBVIOUS
  <2>2. c \in DOMAIN eventSeen /\ eventSeen[c] <= t /\ t \in Nat
    BY <1>5, <1>7, <1>8, <2>1
  <2>3. CASE preps'[s].events = VisibleAt(preps'[s].asof)
    <3>1. eventSeen[c] <= preps'[s].asof
      BY <1>5, <1>6, <1>8, <2>1, <2>2
    <3>2. QED
      BY <2>1, <2>2, <2>3, <3>1 DEF VisibleAt
  <2>4. CASE preps'[s].events # VisibleAt(preps'[s].asof)
    <3>1. preps'[s].asof = preps[s].asof /\ preps'[s].events = preps[s].events /\ Working(s)
      BY <1>3, <1>8, <2>4 DEF Working
    <3>2. preps[s].asof <= now
      BY <1>1, <3>1 DEF CausesAreRead
    <3>3. t # now
      BY <1>5, <1>8, <2>1, <3>1, <3>2
    <3>4. Working(r) /\ preps[r].asof = t /\ preps[r].cause = c
      BY <1>3, <1>8, <2>1, <3>3 DEF Working
    <3>5. QED
      BY <1>1, <1>8, <2>1, <3>1, <3>4 DEF CausesAreRead
  <2>5. QED
    BY <2>3, <2>4
<1>9. CausesAreRead'
  BY <1>2, <1>7, <1>8 DEF CausesAreRead
<1>10. ASSUME NEW s \in DOMAIN states, NEW e \in states[s].delta.events,
              NEW r \in Preparers, Working(r)', s < preps'[r].asof
       PROVE  e \in preps'[r].events
  <2>1. e \in DOMAIN eventSeen /\ eventSeen[e] <= s /\ s \in Nat
    BY <1>1 DEF NewsIsKept, HistoryInvariant, ChainAndPreparations, Times
  <2>2. CASE preps'[r].events = VisibleAt(preps'[r].asof)
    <3>1. eventSeen[e] <= preps'[r].asof
      BY <1>5, <1>6, <1>10, <2>1
    <3>2. QED
      BY <2>1, <2>2, <3>1 DEF VisibleAt
  <2>3. CASE preps'[r].events # VisibleAt(preps'[r].asof)
    <3>1. preps'[r].asof = preps[r].asof /\ preps'[r].events = preps[r].events /\ Working(r)
      BY <1>3, <1>10, <2>3 DEF Working
    <3>2. QED
      BY <1>1, <1>10, <3>1 DEF NewsIsKept
  <2>4. QED
    BY <2>2, <2>3
<1>11. NewsIsKept'
  BY <1>1, <1>2, <1>10 DEF NewsIsKept
<1>12. QED
  BY <1>4, <1>9, <1>11 DEF NewsInvariant

\* A fact referenced is the latest visible one.
LEMMA ReferencedIsLatest ==
    ASSUME NewsInvariant, NEW t \in Times, NEW f \in 0..MaxFacts, f # None, DependenciesHold(f, t)
    PROVE  /\ f \in DOMAIN revisions /\ revisions[f] <= t
           /\ \A r \in DOMAIN revisions : revisions[r] <= t => r <= f
<1>1. PICK S : S = {r \in DOMAIN revisions : revisions[r] <= t}
  OBVIOUS
<1>2. S \in SUBSET (1 .. MaxFacts) /\ MaxFacts \in Nat
  BY <1>1, HistoryAssumption DEF NewsInvariant, HistoryInvariant, ChainAndPreparations
<1>3. f = Latest(S)
  BY <1>1 DEF DependenciesHold, FactAsOf
<1>4. S # {}
  BY <1>2, <1>3, LatestOf
<1>5. f \in S /\ \A r \in S : r <= f
  BY <1>2, <1>3, <1>4, LatestOf
<1>6. QED
  BY <1>1, <1>5

\* A delta says what its state has and the one before it had not.
LEMMA DeltaIsNews ==
    ASSUME NEW p
    PROVE  /\ DeltaOf(p).fact # None =>
                 /\ DeltaOf(p).fact = preps[p].fact /\ preps[p].before # None
                 /\ states[preps[p].before].fact # preps[p].fact
           /\ \A e \in DeltaOf(p).events :
                 /\ e = preps[p].cause /\ e \in Events /\ preps[p].before # None
                 /\ e \notin states[preps[p].before].events
BY DEF DeltaOf, NoDelta

\* A state that is recorded repeats no news.
LEMMA NewsRecorded ==
    ASSUME NewsInvariant, HistoryInvariant', NEW p \in Preparers, preps[p].pc = "compare",
           preps[p].asof \notin DOMAIN states, LatestState = preps[p].before, MayRecord(p),
           PutState(p), UNCHANGED others,
           preps' = [preps EXCEPT ![p] = [preps[p] EXCEPT !.pc = "packet", !.delta = DeltaOf(p)]]
    PROVE  NewsInvariant'
<1>1. /\ HistoryInvariant /\ LedgersInOrder
      /\ CausesAreRead /\ FactsGoOn /\ DeltasAreNews /\ NewsIsKept
  BY DEF NewsInvariant
<1>2. UNCHANGED <<now, revisions, eventSeen>>
  BY DEF others
<1>3. PICK a \in Times, b \in 0..MaxNow :
         /\ a = preps[p].asof /\ b = preps[p].before
         /\ DOMAIN states' = DOMAIN states \cup {a} /\ states'[a] = StateOf(p)
         /\ \A t \in DOMAIN states : states'[t] = states[t] /\ t < a /\ t <= b
         /\ b # None => b \in DOMAIN states
  BY <1>1, StateAppended
<1>4. PICK f, v, d, c : /\ f = preps[p].fact /\ v = preps[p].events /\ d = DeltaOf(p)
                        /\ c = preps[p].cause
  OBVIOUS
<1>5. states'[a] = [fact |-> f, events |-> v, before |-> b, delta |-> d]
  BY <1>3, <1>4 DEF StateOf
<1>6. \A r \in Preparers :
         /\ preps'[r].asof = preps[r].asof /\ preps'[r].events = preps[r].events
         /\ preps'[r].cause = preps[r].cause /\ (Working(r)' <=> Working(r))
  BY <1>1 DEF Working, HistoryInvariant, ChainAndPreparations
<1>7. LedgersInOrder'
  BY <1>1, <1>2 DEF LedgersInOrder
<1>8. CausesAreRead'
  BY <1>1, <1>2, <1>6 DEF CausesAreRead
<1>9. a \in Nat /\ \A t \in DOMAIN states : t \in Nat /\ t < a
  BY <1>1, <1>3 DEF Times, HistoryInvariant, ChainAndPreparations
<1>10. FactsGoOn'
  <2>1. f \in 0..MaxFacts /\ MaxFacts \in Nat /\ DependenciesHold(f, a)
    BY <1>3, <1>4, PreparationFacts DEF MayRecord
  <2>2. f # None => /\ f \in DOMAIN revisions /\ revisions[f] <= a
                    /\ \A r \in DOMAIN revisions : revisions[r] <= a => r <= f
    BY <2>1, ReferencedIsLatest
  <2>3. ASSUME NEW s \in DOMAIN states, f # None PROVE states[s].fact <= f
    <3>1. PICK g \in 0..MaxFacts : g = states[s].fact /\ (g # None => g \in DOMAIN revisions /\ revisions[g] <= s)
      BY <1>1 DEF FactsGoOn
    <3>2. CASE g = None
      BY <2>1, <2>3, <3>1, <3>2 DEF None
    <3>3. CASE g # None
      <4>1. revisions[g] \in Nat /\ revisions[g] <= s
        BY <1>1, <3>1, <3>3 DEF LedgersInOrder
      <4>2. revisions[g] <= a
        BY <1>9, <4>1
      <4>3. QED
        BY <2>2, <2>3, <3>1, <3>3, <4>2
    <3>4. QED
      BY <3>2, <3>3
  <2>4. ASSUME NEW s \in DOMAIN states'
        PROVE  /\ states'[s].fact \in 0..MaxFacts
               /\ states'[s].fact # None =>
                     states'[s].fact \in DOMAIN revisions /\ revisions[states'[s].fact] <= s
               /\ \A t \in DOMAIN states' :
                     s < t /\ states'[t].fact # None => states'[s].fact <= states'[t].fact
    <3>1. CASE s = a
      BY <1>3, <1>5, <1>9, <2>1, <2>2, <3>1
    <3>2. CASE s \in DOMAIN states
      BY <1>1, <1>3, <1>5, <2>3, <3>2 DEF FactsGoOn
    <3>3. QED
      BY <1>3, <3>1, <3>2
  <2>5. QED
    BY <1>2, <2>4 DEF FactsGoOn
<1>11. /\ d.fact # None => d.fact = f /\ b # None /\ states[b].fact # f
       /\ \A e \in d.events : e = c /\ e \in Events /\ b # None /\ e \notin states[b].events
  BY <1>3, <1>4, DeltaIsNews
<1>12. DeltasAreNews'
  <2>1. ASSUME NEW s \in DOMAIN states, states[s].before # None
        PROVE  states'[states[s].before] = states[states[s].before]
    <3>1. states[s].before = StateBefore(s) /\ s \in Times
      BY <1>1 DEF HistoryInvariant, DeltasJoinNeighbours, ChainAndPreparations
    <3>2. StateBefore(s) \in DOMAIN states \cup {None}
      BY <1>1, <3>1, PredecessorRead
    <3>3. QED
      BY <1>3, <2>1, <3>1, <3>2
  <2>2. ASSUME NEW s \in DOMAIN states'
        PROVE  /\ states'[s].delta.fact # None =>
                     /\ states'[s].delta.fact = states'[s].fact /\ states'[s].before # None
                     /\ states'[states'[s].before].fact # states'[s].fact
               /\ \A e \in states'[s].delta.events :
                     states'[s].before # None /\ e \notin states'[states'[s].before].events
    <3>1. CASE s = a
      <4>1. b # None => states'[b] = states[b]
        BY <1>3
      <4>2. QED
        BY <1>5, <1>11, <3>1, <4>1
    <3>2. CASE s \in DOMAIN states
      BY <1>1, <1>3, <2>1, <3>2 DEF DeltasAreNews
    <3>3. QED
      BY <1>3, <3>1, <3>2
  <2>3. QED
    BY <2>2 DEF DeltasAreNews
<1>13. NewsIsKept'
  <2>1. Working(p)
    BY DEF Working
  <2>2. a <= now /\ \A e \in d.events :
           /\ e \in DOMAIN eventSeen /\ eventSeen[e] <= a /\ e \in v
           /\ \A r \in Preparers : Working(r) /\ a < preps[r].asof => e \in preps[r].events
    BY <1>1, <1>3, <1>4, <1>11, <2>1 DEF CausesAreRead
  <2>3. \A s \in DOMAIN states : \A e \in states[s].delta.events : e \in v
    BY <1>1, <1>3, <1>4, <2>1 DEF NewsIsKept
  <2>4. ASSUME NEW s \in DOMAIN states'
        PROVE  /\ s <= now
               /\ \A e \in states'[s].delta.events :
                     /\ e \in DOMAIN eventSeen /\ eventSeen[e] <= s
                     /\ \A t \in DOMAIN states' : s <= t => e \in states'[t].events
                     /\ \A r \in Preparers : Working(r) /\ s < preps[r].asof => e \in preps[r].events
    <3>1. CASE s = a
      <4>1. \A t \in DOMAIN states' : s <= t => t = a
        BY <1>3, <1>9, <3>1
      <4>2. QED
        BY <1>5, <2>2, <3>1, <4>1
    <3>2. CASE s \in DOMAIN states
      BY <1>1, <1>3, <1>5, <2>3, <3>2 DEF NewsIsKept
    <3>3. QED
      BY <1>3, <3>1, <3>2
  <2>5. QED
    BY <1>2, <1>6, <2>4 DEF NewsIsKept
<1>14. QED
  BY <1>7, <1>8, <1>10, <1>12, <1>13 DEF NewsInvariant

\* What arrives or passes leaves what was read and recorded as it is.
LEMMA NewsUndisturbed ==
    ASSUME NewsInvariant, HistoryInvariant', UNCHANGED <<states, preps>>,
           LedgersInOrder', now' \in Nat, now <= now',
           \A r \in DOMAIN revisions : r \in DOMAIN revisions' /\ revisions'[r] = revisions[r],
           \A e \in DOMAIN eventSeen : e \in DOMAIN eventSeen' /\ eventSeen'[e] = eventSeen[e]
    PROVE  NewsInvariant'
<1>1. /\ HistoryInvariant /\ LedgersInOrder
      /\ CausesAreRead /\ FactsGoOn /\ DeltasAreNews /\ NewsIsKept
  BY DEF NewsInvariant
<1>2. now \in Nat /\ (\A p \in Preparers : preps[p].asof \in Nat) /\ \A s \in DOMAIN states : s \in Nat
  <2>1. now \in Times /\ (\A p \in Preparers : preps[p].asof \in 0..MaxNow) /\ DOMAIN states \subseteq Times
    BY <1>1 DEF HistoryInvariant, ChainAndPreparations
  <2>2. QED
    BY <2>1 DEF Times
<1>3. \A n \in Nat : n <= now => n <= now'
  BY <1>2
<1>4. CausesAreRead'
  BY <1>1, <1>2, <1>3 DEF CausesAreRead, Working
<1>5. FactsGoOn'
  BY <1>1 DEF FactsGoOn
<1>6. DeltasAreNews'
  BY <1>1 DEF DeltasAreNews
<1>7. NewsIsKept'
  BY <1>1, <1>2, <1>3 DEF NewsIsKept, Working
<1>8. QED
  BY <1>4, <1>5, <1>6, <1>7 DEF NewsInvariant

\* Every step repeats no news.
LEMMA NewsStep == NewsInvariant /\ [HistoryNext]_historyVars => NewsInvariant'
<1>. SUFFICES ASSUME NewsInvariant, [HistoryNext]_historyVars PROVE NewsInvariant'
  OBVIOUS
<1>1. HistoryInvariant /\ HistoryInvariant' /\ LedgersInOrder
  BY HistoryStep DEF NewsInvariant
<1>2. /\ MaxNow \in Nat /\ MaxFacts \in Nat /\ now \in Nat /\ now > 0
      /\ DOMAIN revisions \subseteq 1..MaxFacts
  BY <1>1, HistoryAssumption DEF HistoryInvariant, ChainAndPreparations, Times
<1>3. ASSUME NEW p \in Preparers, Working(p), Retry(p), UNCHANGED <<others, states>>
      PROVE  NewsInvariant'
  <2>1. PICK q : q = [preps[p] EXCEPT !.pc = "again"]
    OBVIOUS
  <2>2. q.asof = preps[p].asof /\ q.cause = preps[p].cause /\ q.events = preps[p].events
    BY <1>1, <2>1 DEF HistoryInvariant, ChainAndPreparations
  <2>3. preps' = [preps EXCEPT ![p] = q]
    BY <1>3, <2>1 DEF Retry, Become
  <2>4. QED
    BY <1>1, <1>3, <2>2, <2>3, NewsPreparation
<1>4. ASSUME NEW p \in Preparers, Prepare(p) PROVE NewsInvariant'
  <2>1. UNCHANGED <<others, states>>
    BY <1>4 DEF Prepare
  <2>2. CASE preps[p].pc = "rest"
    <3>1. PICK cause \in {"FACT", Shock, Review} \cup DOMAIN eventSeen :
             Become(p, [Idle EXCEPT !.pc = "read", !.cause = cause, !.asof = now,
                               !.fact = FactAsOf(now), !.events = VisibleAt(now)])
      BY <1>4, <2>2 DEF Prepare
    <3>2. PICK f, v : f = FactAsOf(now) /\ v = VisibleAt(now)
      OBVIOUS
    <3>3. PICK q : q = [Idle EXCEPT !.pc = "read", !.cause = cause, !.asof = now,
                               !.fact = f, !.events = v]
      OBVIOUS
    <3>4. q.asof = now /\ q.events = v /\ q.cause = cause
      BY <3>3 DEF Idle
    <3>5. cause \in Events => cause \in DOMAIN eventSeen
      BY HistoryAssumption DEF Shock, Review
    <3>6. preps' = [preps EXCEPT ![p] = q]
      BY <3>1, <3>2, <3>3 DEF Become
    <3>7. QED
      BY <1>1, <2>1, <3>2, <3>4, <3>5, <3>6, NewsPreparation
  <2>3. CASE preps[p].pc = "again"
    <3>1. PICK f, v : f = FactAsOf(preps[p].asof) /\ v = VisibleAt(preps[p].asof)
      OBVIOUS
    <3>2. PICK q : q = [preps[p] EXCEPT !.pc = "read", !.fact = f, !.events = v]
      OBVIOUS
    <3>3. q.asof = preps[p].asof /\ q.events = v /\ q.cause = preps[p].cause /\ Working(p)
      BY <1>1, <2>3, <3>2 DEF HistoryInvariant, ChainAndPreparations, Working
    <3>4. preps' = [preps EXCEPT ![p] = q]
      BY <1>4, <2>3, <3>1, <3>2 DEF Prepare, Become
    <3>5. QED
      BY <1>1, <2>1, <3>1, <3>3, <3>4, NewsPreparation
  <2>4. QED
    BY <1>4, <2>2, <2>3 DEF Prepare
<1>5. ASSUME NEW p \in Preparers, ReadPredecessor(p) PROVE NewsInvariant'
  <2>1. UNCHANGED <<others, states>> /\ Working(p)
    BY <1>5 DEF ReadPredecessor, Working
  <2>2. CASE OtherState(p)
    BY <1>3, <1>5, <2>1, <2>2 DEF ReadPredecessor
  <2>3. CASE ~OtherState(p)
    <3>1. PICK q : q = [preps[p] EXCEPT !.pc = "compare", !.before = StateBefore(preps[p].asof)]
      OBVIOUS
    <3>2. q.asof = preps[p].asof /\ q.cause = preps[p].cause /\ q.events = preps[p].events
      BY <1>1, <3>1 DEF HistoryInvariant, ChainAndPreparations
    <3>3. preps' = [preps EXCEPT ![p] = q]
      BY <1>5, <2>3, <3>1 DEF ReadPredecessor, Become
    <3>4. QED
      BY <1>1, <2>1, <3>2, <3>3, NewsPreparation
  <2>4. QED
    BY <2>2, <2>3
<1>6. ASSUME NEW p \in Preparers, RecordState(p) PROVE NewsInvariant'
  <2>1. UNCHANGED others /\ preps[p].pc = "compare" /\ Working(p)
    BY <1>6 DEF RecordState, Working
  <2>2. CASE ~MayRecord(p)
    BY <1>3, <1>6, <2>1, <2>2 DEF RecordState
  <2>3. CASE MayRecord(p)
    <3>1. PutState(p) /\ preps' = [preps EXCEPT ![p] = [preps[p] EXCEPT !.pc = "packet", !.delta = DeltaOf(p)]]
      BY <1>6, <2>3 DEF RecordState, Become
    <3>2. CASE preps[p].asof \in DOMAIN states
      <4>1. states' = states
        <5>1. states = [t \in DOMAIN states |-> states[t]]
          BY <1>1 DEF HistoryInvariant, ChainAndPreparations
        <5>2. states' = [t \in DOMAIN states |-> states[t]]
          BY <3>1, <3>2 DEF PutState
        <5>3. QED
          BY <5>1, <5>2
      <4>2. PICK q : q = [preps[p] EXCEPT !.pc = "packet", !.delta = DeltaOf(p)]
        OBVIOUS
      <4>3. q.asof = preps[p].asof /\ q.cause = preps[p].cause /\ q.events = preps[p].events
        BY <1>1, <4>2 DEF HistoryInvariant, ChainAndPreparations
      <4>4. QED
        BY <1>1, <2>1, <3>1, <4>1, <4>2, <4>3, NewsPreparation
    <3>3. CASE preps[p].asof \notin DOMAIN states
      <4>1. LatestState = preps[p].before
        BY <2>3, <3>3 DEF MayRecord, MayRecordState, MayRecordTransition, SameState
      <4>2. QED
        BY <1>1, <2>1, <2>3, <3>1, <3>3, <4>1, NewsRecorded
    <3>4. QED
      BY <3>2, <3>3
  <2>4. QED
    BY <2>2, <2>3
<1>7. ASSUME NEW p \in Preparers, Assemble(p) PROVE NewsInvariant'
  <2>1. UNCHANGED <<others, states>> /\ Working(p)
    BY <1>7 DEF Assemble, Working
  <2>2. CASE Become(p, Idle)
    <3>1. Idle.pc = "rest" /\ preps' = [preps EXCEPT ![p] = Idle]
      BY <2>2 DEF Idle, Become
    <3>2. QED
      BY <1>1, <2>1, <3>1, NewsPreparation
  <2>3. CASE Retry(p)
    BY <1>3, <2>1, <2>3
  <2>4. QED
    BY <1>7, <2>2, <2>3 DEF Assemble
<1>8. CASE FactArrives
  <2>1. UNCHANGED <<now, eventSeen, states, preps>>
    BY <1>8 DEF FactArrives
  <2>2. PICK n \in Nat : n = Cardinality(DOMAIN revisions) /\ DOMAIN revisions = 1..n
    <3>1. IsFiniteSet(1..MaxFacts) /\ DOMAIN revisions \in SUBSET (1 .. MaxFacts)
      BY <1>2, FS_Interval
    <3>2. IsFiniteSet(DOMAIN revisions)
      BY <3>1, FS_Subset
    <3>3. QED
      BY <1>1, <3>2, FS_CardinalityType DEF LedgersInOrder
  <2>3. PICK r \in Nat : r = n + 1
    OBVIOUS
  <2>4. PICK t \in (IF r = 1 THEN 1 ELSE revisions[r - 1] + 1)..now :
           revisions' = [i \in 1..r |-> IF i = r THEN t ELSE revisions[i]]
    BY <1>8, <2>2, <2>3 DEF FactArrives
  <2>5. t \in 1..now
    <3>1. CASE r = 1
      BY <2>4, <3>1
    <3>2. CASE r # 1
      <4>1. r - 1 \in DOMAIN revisions
        <5>1. r - 1 = n /\ n \in 1..n
          BY <2>3, <3>2
        <5>2. QED
          BY <2>2, <5>1
      <4>2. PICK u \in 1..now : u = revisions[r - 1]
        BY <1>1, <4>1 DEF LedgersInOrder
      <4>3. QED
        BY <1>2, <2>4, <3>2, <4>2
    <3>3. QED
      BY <3>1, <3>2
  <2>6. DOMAIN revisions' = 1..r /\ Cardinality(1..r) = r
    BY <2>3, <2>4, FS_Interval
  <2>7. \A i \in DOMAIN revisions : i \in DOMAIN revisions' /\ revisions'[i] = revisions[i]
    <3>1. ASSUME NEW i \in 1..n PROVE i \in 1..r /\ i # r
      BY <2>3
    <3>2. QED
      BY <2>2, <2>4, <2>6, <3>1
  <2>8. LedgersInOrder'
    <3>1. DOMAIN revisions' = 1..Cardinality(DOMAIN revisions')
      BY <2>6
    <3>2. ASSUME NEW i \in 1..r PROVE revisions'[i] \in 1..now
      <4>1. CASE i = r
        BY <2>3, <2>4, <2>5, <4>1
      <4>2. CASE i # r
        <5>1. i \in 1..n
          BY <2>3, <4>2
        <5>2. QED
          BY <1>1, <2>2, <2>7, <5>1 DEF LedgersInOrder
      <4>3. QED
        BY <4>1, <4>2
    <3>3. QED
      BY <1>1, <2>1, <2>6, <3>1, <3>2 DEF LedgersInOrder
  <2>9. QED
    BY <1>1, <1>2, <2>1, <2>7, <2>8, NewsUndisturbed
<1>9. CASE EventArrives
  <2>1. UNCHANGED <<now, revisions, states, preps>>
    BY <1>9 DEF EventArrives
  <2>2. PICK e \in Events \ DOMAIN eventSeen, t \in 1..now :
           eventSeen' = [i \in DOMAIN eventSeen \cup {e} |-> IF i = e THEN t ELSE eventSeen[i]]
    BY <1>9 DEF EventArrives
  <2>3. \A i \in DOMAIN eventSeen : i \in DOMAIN eventSeen' /\ eventSeen'[i] = eventSeen[i]
    BY <2>2
  <2>4. LedgersInOrder'
    BY <1>1, <2>1, <2>2 DEF LedgersInOrder
  <2>5. QED
    BY <1>1, <1>2, <2>1, <2>3, <2>4, NewsUndisturbed
<1>10. CASE NowPasses
  <2>1. UNCHANGED <<revisions, eventSeen, states, preps>> /\ now' = now + 1
    BY <1>10 DEF NowPasses
  <2>2. \A n \in 1..now : n \in 1..now'
    BY <1>2, <2>1
  <2>3. LedgersInOrder'
    BY <1>1, <2>1, <2>2 DEF LedgersInOrder
  <2>4. QED
    BY <1>1, <1>2, <2>1, <2>3, NewsUndisturbed
<1>11. CASE UNCHANGED historyVars
  <2>1. UNCHANGED <<now, revisions, eventSeen, states, preps>>
    BY <1>11 DEF historyVars
  <2>2. LedgersInOrder'
    BY <1>1, <2>1 DEF LedgersInOrder
  <2>3. QED
    BY <1>1, <1>2, <2>1, <2>2, NewsUndisturbed
<1>12. QED
  BY <1>4, <1>5, <1>6, <1>7, <1>8, <1>9, <1>10, <1>11 DEF HistoryNext

\* An event is the news of one state only, and a revision of another only where
\* a state between the two had lost sight of the whole fact
\* (state/repository.py looks for what a state references, not for what it
\* lacks), whatever preparations overlap.
THEOREM NewsIsNotRepeated == HistorySpec => []ReportedOnceUnlessLost
<1>1. NewsInvariant => ReportedOnceUnlessLost
  <2>. SUFFICES ASSUME NewsInvariant, NEW s \in DOMAIN states, NEW t \in DOMAIN states, s < t
                PROVE  /\ states[s].delta.events \cap states[t].delta.events = {}
                       /\ states[s].delta.fact # None /\ states[s].delta.fact = states[t].delta.fact
                             => \E u \in DOMAIN states : s < u /\ u < t /\ states[u].fact = None
    BY DEF ReportedOnceUnlessLost
  <2>1. /\ HistoryInvariant /\ FactsGoOn /\ DeltasAreNews /\ NewsIsKept
        /\ DOMAIN states \in SUBSET (1 .. MaxNow) /\ MaxNow \in Nat
    BY HistoryAssumption DEF NewsInvariant, HistoryInvariant, ChainAndPreparations, Times
  <2>2. PICK S : S = {u \in DOMAIN states : u < t}
    OBVIOUS
  <2>3. S \in SUBSET (1 .. MaxNow) /\ s \in S
    BY <2>1, <2>2
  <2>4. PICK b : b = states[t].before /\ b = Latest(S)
    BY <2>1, <2>2 DEF HistoryInvariant, DeltasJoinNeighbours, StateBefore
  <2>5. b \in S /\ s <= b
    BY <2>1, <2>3, <2>4, LatestOf
  <2>6. b \in DOMAIN states /\ b < t
    BY <2>2, <2>5
  <2>7. ASSUME NEW e \in states[s].delta.events PROVE e \notin states[t].delta.events
    <3>1. e \in states[b].events
      BY <2>1, <2>5, <2>6 DEF NewsIsKept
    <3>2. \A d \in states[t].delta.events : d \notin states[states[t].before].events
      BY <2>1 DEF DeltasAreNews
    <3>3. QED
      BY <2>4, <3>1, <3>2
  <2>8. ASSUME states[s].delta.fact # None, states[s].delta.fact = states[t].delta.fact
        PROVE  \E u \in DOMAIN states : s < u /\ u < t /\ states[u].fact = None
    <3>1. PICK f \in 0..MaxFacts, g \in 0..MaxFacts : f = states[s].fact /\ g = states[b].fact
      BY <2>1, <2>6 DEF FactsGoOn
    <3>2. f # None /\ states[t].fact = f /\ g # f
      BY <2>1, <2>4, <2>8, <3>1 DEF DeltasAreNews
    <3>3. s # b /\ s < b
      <4>1. s # b
        BY <3>1, <3>2
      <4>2. s \in Nat /\ b \in Nat
        BY <2>1, <2>6
      <4>3. QED
        BY <2>5, <4>1, <4>2
    <3>4. g # None => f <= g /\ g <= f
      BY <2>1, <2>6, <3>1, <3>2, <3>3 DEF FactsGoOn
    <3>5. f \in Int /\ g \in Int
      OBVIOUS
    <3>6. g = None
      BY <3>2, <3>4, <3>5
    <3>7. QED
      BY <2>6, <3>1, <3>3, <3>6
  <2>9. QED
    BY <2>7, <2>8
<1>2. QED
  BY <1>1, NewsBegins, NewsStep, PTL DEF HistorySpec

-----------------------------------------------------------------------------
(* The market shocks.                                                      *)

\* The invariant of the shocks holds where they begin.
LEMMA SpacingBegins == MarketInit => SpacingInvariant
<1>1. SUFFICES ASSUME MarketInit PROVE SpacingInvariant
  OBVIOUS
<1>2. shocks = <<>> /\ unreported = {} /\ episode = NoEpisode /\ second = 0
  BY <1>1 DEF MarketInit
<1>3. RecordedRows
  BY <1>1, <1>2, MarketAssumption DEF MarketInit, RecordedRows, NoEpisode
<1>4. EveryShock = {}
  BY <1>2 DEF EveryShock
<1>5. EpisodeIsOpened
  BY <1>2, <1>4 DEF EpisodeIsOpened
<1>6. EpisodeOfShocks /\ EarlierEpisodeEnded /\ ShocksAreSpaced
  BY <1>2 DEF EpisodeOfShocks, EarlierEpisodeEnded, ShocksAreSpaced
<1>7. QED
  BY <1>3, <1>5, <1>6 DEF SpacingInvariant

\* The invariant does not depend on the windows or the link, and time passes.
LEMMA ShocksKept ==
    ASSUME SpacingInvariant, UNCHANGED <<episode, shocks, unreported>>,
           second' = second \/ (second < MaxSecond /\ second' = second + 1),
           link' \in {"closed", "open"}, breaks' \in 0..MaxBreaks
    PROVE  SpacingInvariant'
<1>1. /\ second \in Nat /\ second \in 0..MaxSecond
      /\ shocks \in Seq([at : 0..second, urgent : BOOLEAN])
      /\ unreported \subseteq [at : 0..second, urgent : BOOLEAN]
      /\ episode \in [start : -1..second, urgent : BOOLEAN]
      /\ EpisodeIsOpened /\ EpisodeOfShocks /\ EarlierEpisodeEnded /\ ShocksAreSpaced
  BY DEF SpacingInvariant, RecordedRows
<1>2. second' \in 0..MaxSecond /\ second' \in Nat /\ 0..second \subseteq 0..second' /\ -1..second \subseteq -1..second'
  BY <1>1, MarketAssumption
<1>3. [at : 0..second, urgent : BOOLEAN] \subseteq [at : 0..second', urgent : BOOLEAN]
  BY <1>2
<1>4. shocks' \in Seq([at : 0..second', urgent : BOOLEAN])
  <2>1. PICK S, T : S = [at : 0..second, urgent : BOOLEAN] /\ T = [at : 0..second', urgent : BOOLEAN]
    OBVIOUS
  <2>2. S \subseteq T /\ shocks' \in Seq(S)
    BY <1>1, <1>3, <2>1
  <2>3. shocks' \in Seq(T)
    BY <2>2, SeqWidened
  <2>4. QED
    BY <2>1, <2>3
<1>5. RecordedRows'
  BY <1>1, <1>2, <1>3, <1>4 DEF RecordedRows
<1>6. EveryShock' = EveryShock
  BY DEF EveryShock
<1>7. EpisodeIsOpened' /\ EpisodeOfShocks' /\ EarlierEpisodeEnded' /\ ShocksAreSpaced'
  BY <1>1, <1>6 DEF EpisodeIsOpened, EpisodeOfShocks, EarlierEpisodeEnded, ShocksAreSpaced
<1>8. QED
  BY <1>5, <1>7 DEF SpacingInvariant

\* One more shock, the nth, at second.
OneMoreShock(n, shock, urgent) ==
    /\ n \in Nat /\ Span \in Nat /\ second \in Nat
    /\ shock.at = second /\ shock.urgent = urgent
    /\ DOMAIN shocks = 1..(n - 1) /\ DOMAIN shocks \subseteq DOMAIN shocks'
    /\ \A i \in DOMAIN shocks : shocks'[i] = shocks[i]
    /\ \A i \in DOMAIN shocks' \ DOMAIN shocks : i = n /\ shocks'[i] = shock
    /\ EveryShock \subseteq EveryShock'

\* A shock at second is spaced from those before it.
SpacedBehind(urgent) ==
    \A i \in DOMAIN shocks : second - shocks[i].at < Span =>
        /\ shocks[i].urgent \/ urgent
        /\ shocks[i].urgent /\ urgent =>
             \E h \in EveryShock' : h.at <= shocks[i].at /\ h.at + Span <= second

\* What was spaced stays so when the one shock behind the others is.
LEMMA ShocksSpacedBehind ==
    ASSUME ShocksAreSpaced, NEW n, NEW shock, NEW urgent,
           OneMoreShock(n, shock, urgent), SpacedBehind(urgent)
    PROVE  ShocksAreSpaced'
<1>. USE DEF OneMoreShock, SpacedBehind
<1>1. ASSUME NEW i \in DOMAIN shocks', NEW j \in DOMAIN shocks', i < j,
             shocks'[j].at - shocks'[i].at < Span
      PROVE  /\ shocks'[i].urgent \/ shocks'[j].urgent
             /\ shocks'[i].urgent /\ shocks'[j].urgent =>
                  \E h \in EveryShock' : h.at <= shocks'[i].at /\ h.at + Span <= shocks'[j].at
  <2>1. CASE j \in DOMAIN shocks
    <3>1. i \in DOMAIN shocks
      BY <1>1, <2>1
    <3>2. shocks'[i] = shocks[i] /\ shocks'[j] = shocks[j]
      BY <2>1, <3>1
    <3>3. /\ shocks[i].urgent \/ shocks[j].urgent
          /\ shocks[i].urgent /\ shocks[j].urgent =>
               \E h \in EveryShock : h.at <= shocks[i].at /\ h.at + Span <= shocks[j].at
      BY <1>1, <2>1, <3>1, <3>2 DEF ShocksAreSpaced
    <3>4. QED
      BY <3>2, <3>3
  <2>2. CASE j \notin DOMAIN shocks
    <3>1. j = n /\ shocks'[j] = shock
      BY <2>2
    <3>2. i \in DOMAIN shocks
      BY <1>1, <3>1
    <3>3. shocks'[i] = shocks[i]
      BY <3>2
    <3>4. second - shocks[i].at < Span
      BY <1>1, <3>1, <3>3
    <3>5. QED
      BY <3>1, <3>2, <3>3, <3>4
  <2>3. QED
    BY <2>1, <2>2
<1>2. QED
  BY <1>1 DEF ShocksAreSpaced

\* A shock that is admitted, recorded or not.
LEMMA ShockAdmitted ==
    ASSUME SpacingInvariant, second' = second, NEW urgent \in BOOLEAN,
           link' \in {"closed", "open"}, breaks' \in 0..MaxBreaks,
           episode' \in Admitted(urgent),
           NEW shock, shock = [at |-> second, urgent |-> urgent],
           \/ shocks' = Append(shocks, shock) /\ unreported' = unreported
           \/ shocks' = shocks /\ unreported' = unreported \cup {shock}
    PROVE  SpacingInvariant'
<1>1. /\ second \in Nat /\ second \in 0..MaxSecond
      /\ shocks \in Seq([at : 0..second, urgent : BOOLEAN])
      /\ unreported \subseteq [at : 0..second, urgent : BOOLEAN]
      /\ episode \in [start : -1..second, urgent : BOOLEAN]
      /\ EpisodeIsOpened /\ EpisodeOfShocks /\ EarlierEpisodeEnded /\ ShocksAreSpaced
      /\ Span \in Nat \ {0}
  BY MarketAssumption DEF SpacingInvariant, RecordedRows
<1>2. shock \in [at : 0..second, urgent : BOOLEAN] /\ shock.at = second /\ shock.urgent = urgent
  BY <1>1
<1>3. PICK n \in Nat : n = Len(shocks) + 1
  BY <1>1
<1>4. /\ DOMAIN shocks = 1..(n - 1)
      /\ \A i \in DOMAIN shocks : shocks[i] \in [at : 0..second, urgent : BOOLEAN]
  <2>1. DOMAIN shocks = 1..Len(shocks) /\ Len(shocks) = n - 1
    BY <1>1, <1>3
  <2>2. QED
    BY <1>1, <2>1, SeqElement
<1>5. /\ shocks' \in Seq([at : 0..second, urgent : BOOLEAN])
      /\ unreported' \subseteq [at : 0..second, urgent : BOOLEAN]
      /\ DOMAIN shocks \subseteq DOMAIN shocks'
      /\ \A i \in DOMAIN shocks : shocks'[i] = shocks[i]
      /\ \A i \in DOMAIN shocks' \ DOMAIN shocks : i = n /\ shocks'[i] = shock
  <2>1. CASE shocks' = Append(shocks, shock) /\ unreported' = unreported
    <3>1. /\ DOMAIN shocks' = 1..n /\ shocks'[n] = shock
          /\ \A i \in 1..(n - 1) : shocks'[i] = shocks[i]
          /\ shocks' \in Seq([at : 0..second, urgent : BOOLEAN])
      BY <1>1, <1>2, <1>3, <2>1, SeqAppended
    <3>2. \A i \in 1..n : i \notin 1..(n - 1) => i = n
      OBVIOUS
    <3>3. QED
      BY <1>1, <1>3, <1>4, <2>1, <3>1, <3>2
  <2>2. CASE shocks' = shocks /\ unreported' = unreported \cup {shock}
    BY <1>1, <1>2, <2>2
  <2>3. QED
    BY <2>1, <2>2
<1>6. EveryShock \subseteq EveryShock' /\ shock \in EveryShock'
  <2>1. CASE shocks' = Append(shocks, shock) /\ unreported' = unreported
    <3>1. n \in DOMAIN shocks' /\ shocks'[n] = shock
      BY <1>1, <1>3, <2>1, SeqAppended
    <3>2. QED
      BY <1>5, <2>1, <3>1 DEF EveryShock
  <2>2. CASE shocks' = shocks /\ unreported' = unreported \cup {shock}
    BY <2>2 DEF EveryShock
  <2>3. QED
    BY <2>1, <2>2
<1>7. \A h \in EveryShock : h \in [at : 0..second, urgent : BOOLEAN]
  BY <1>1, <1>4 DEF EveryShock
<1>8. CASE Opens
  <2>1. episode' = [start |-> second, urgent |-> urgent]
    BY <1>8 DEF Admitted
  <2>2. episode' \in [start : -1..second, urgent : BOOLEAN] /\ episode'.start = second
        /\ episode'.urgent = urgent
    BY <1>1, <2>1
  <2>3. ASSUME NEW i \in DOMAIN shocks
        PROVE  /\ episode # NoEpisode /\ episode.start >= 0
               /\ shocks[i].at < second \/ shocks[i].at = second
               /\ episode.start + Span <= second
               /\ shocks[i].at < second
               /\ \E h \in EveryShock : h.at = episode.start
    <3>1. shocks[i] \in EveryShock
      BY DEF EveryShock
    <3>2. episode # NoEpisode
      BY <1>1, <3>1 DEF EpisodeIsOpened
    <3>3. episode.start >= 0 /\ \E h \in EveryShock : h.at = episode.start
      BY <1>1, <3>2 DEF EpisodeIsOpened
    <3>4. second - episode.start >= Span /\ episode.start \in -1..second
      BY <1>1, <1>8, <3>2 DEF Opens
    <3>5. shocks[i].at < episode.start + Span /\ shocks[i].at \in 0..second
      BY <1>1, <1>4 DEF EpisodeOfShocks
    <3>6. Span \in Nat /\ second \in Nat /\ shocks[i].at \in Nat /\ episode.start \in Int
      BY <1>1, <3>4, <3>5
    <3>7. episode.start + Span <= second
      BY <3>4, <3>6
    <3>8. shocks[i].at < second
      BY <3>5, <3>6, <3>7
    <3>9. QED
      BY <3>2, <3>3, <3>7, <3>8
  <2>4. ASSUME NEW i \in DOMAIN shocks, shocks[i].urgent
        PROVE  \E h \in EveryShock : h.at <= shocks[i].at /\ h.at + Span <= second
    <3>1. CASE shocks[i].at < episode.start
      <4>1. PICK h \in EveryShock : h.at <= shocks[i].at /\ h.at + Span <= episode.start
        BY <1>1, <2>4, <3>1 DEF EarlierEpisodeEnded
      <4>2. h.at \in 0..second /\ episode.start \in -1..second /\ episode.start <= second
        BY <1>1, <1>7
      <4>3. h.at + Span <= second
        BY <1>1, <4>1, <4>2
      <4>4. QED
        BY <4>1, <4>3
    <3>2. CASE ~(shocks[i].at < episode.start)
      <4>1. PICK h \in EveryShock : h.at = episode.start
        BY <2>3
      <4>2. shocks[i].at \in 0..second /\ episode.start \in -1..second
        BY <1>1, <1>4
      <4>3. h.at <= shocks[i].at /\ h.at + Span <= second
        BY <1>1, <2>3, <3>2, <4>1, <4>2
      <4>4. QED
        BY <4>3
    <3>3. QED
      BY <3>1, <3>2
  <2>5. ASSUME NEW i \in DOMAIN shocks, second - shocks[i].at < Span
        PROVE  shocks[i].urgent
    <3>1. shocks[i].at \in 0..second /\ episode.start \in -1..second
      BY <1>1, <1>4
    <3>2. shocks[i].at > episode.start
      BY <1>1, <2>3, <2>5, <3>1
    <3>3. QED
      BY <1>1, <3>2 DEF EpisodeOfShocks
  <2>6. EpisodeIsOpened'
    <3>1. episode' # NoEpisode
      BY <1>1, <2>2 DEF NoEpisode
    <3>2. QED
      BY <1>1, <1>2, <1>6, <2>2, <3>1 DEF EpisodeIsOpened
  <2>7. EpisodeOfShocks'
    <3>1. ASSUME NEW i \in DOMAIN shocks'
          PROVE  /\ shocks'[i].at < second + Span
                 /\ ~(shocks'[i].at > second)
                 /\ shocks'[i].urgent /\ shocks'[i].at >= second => urgent
      <4>1. CASE i \in DOMAIN shocks
        <5>1. shocks'[i] = shocks[i] /\ shocks[i].at < second /\ shocks[i].at \in 0..second
          BY <1>4, <1>5, <2>3, <4>1
        <5>2. PICK a \in Nat : a = shocks[i].at
          BY <5>1
        <5>3. Span \in Nat /\ second \in Nat
          BY <1>1
        <5>4. a < second + Span /\ ~(a > second) /\ ~(a >= second)
          BY <5>1, <5>2, <5>3
        <5>5. QED
          BY <5>1, <5>2, <5>4
      <4>2. CASE i \notin DOMAIN shocks
        BY <1>1, <1>2, <1>5, <4>2
      <4>3. QED
        BY <4>1, <4>2
    <3>2. QED
      BY <2>2, <3>1 DEF EpisodeOfShocks
  <2>8. EarlierEpisodeEnded'
    <3>1. ASSUME NEW i \in DOMAIN shocks', shocks'[i].urgent, shocks'[i].at < second
          PROVE  \E h \in EveryShock' : h.at <= shocks'[i].at /\ h.at + Span <= second
      <4>1. i \in DOMAIN shocks
        BY <1>1, <1>2, <1>5, <3>1
      <4>2. shocks'[i] = shocks[i]
        BY <1>5, <4>1
      <4>3. QED
        BY <1>6, <2>4, <3>1, <4>1, <4>2
    <3>2. QED
      BY <2>2, <3>1 DEF EarlierEpisodeEnded
  <2>9. ShocksAreSpaced'
    <3>1. ASSUME NEW i \in DOMAIN shocks, second - shocks[i].at < Span
          PROVE  /\ shocks[i].urgent \/ urgent
                 /\ shocks[i].urgent /\ urgent =>
                      \E h \in EveryShock' : h.at <= shocks[i].at /\ h.at + Span <= second
      BY <1>6, <2>4, <2>5, <3>1
    <3>2. SpacedBehind(urgent)
      BY <3>1 DEF SpacedBehind
    <3>3. OneMoreShock(n, shock, urgent)
      BY <1>1, <1>2, <1>4, <1>5, <1>6 DEF OneMoreShock
    <3>4. QED
      BY <1>1, <3>2, <3>3, ShocksSpacedBehind
  <2>10. RecordedRows'
    BY <1>1, <1>5, <2>2 DEF RecordedRows
  <2>11. QED
    BY <2>6, <2>7, <2>8, <2>9, <2>10 DEF SpacingInvariant
<1>9. CASE ~Opens
  <2>1. urgent /\ ~episode.urgent /\ episode' = [episode EXCEPT !.urgent = TRUE]
    BY <1>9 DEF Admitted
  <2>2. /\ episode' \in [start : -1..second, urgent : BOOLEAN]
        /\ episode'.start = episode.start /\ episode'.urgent = TRUE
    BY <1>1, <2>1
  <2>3. /\ episode # NoEpisode /\ episode.start >= 0 /\ episode.start \in -1..second
        /\ second < episode.start + Span
        /\ \E h \in EveryShock : h.at = episode.start
    <3>1. episode # NoEpisode /\ ~(second - episode.start >= Span)
      BY <1>9 DEF Opens
    <3>2. episode.start \in -1..second
      BY <1>1
    <3>3. QED
      BY <1>1, <3>1, <3>2 DEF EpisodeIsOpened
  <2>4. EpisodeIsOpened'
    <3>1. episode' # NoEpisode
      BY <2>2 DEF NoEpisode
    <3>2. QED
      BY <1>6, <2>2, <2>3, <3>1 DEF EpisodeIsOpened
  <2>5. EpisodeOfShocks'
    <3>1. ASSUME NEW i \in DOMAIN shocks'
          PROVE  /\ shocks'[i].at < episode.start + Span
                 /\ shocks'[i].at > episode.start => shocks'[i].urgent
      <4>1. CASE i \in DOMAIN shocks
        BY <1>1, <1>5, <4>1 DEF EpisodeOfShocks
      <4>2. CASE i \notin DOMAIN shocks
        BY <1>2, <1>5, <2>1, <2>3, <4>2
      <4>3. QED
        BY <4>1, <4>2
    <3>2. QED
      BY <2>2, <3>1 DEF EpisodeOfShocks
  <2>6. EarlierEpisodeEnded'
    <3>1. ASSUME NEW i \in DOMAIN shocks', shocks'[i].urgent, shocks'[i].at < episode.start
          PROVE  \E h \in EveryShock' : h.at <= shocks'[i].at /\ h.at + Span <= episode.start
      <4>1. i \in DOMAIN shocks
        BY <1>1, <1>2, <1>5, <2>3, <3>1
      <4>2. shocks'[i] = shocks[i]
        BY <1>5, <4>1
      <4>3. QED
        BY <1>1, <1>6, <3>1, <4>1, <4>2 DEF EarlierEpisodeEnded
    <3>2. QED
      BY <2>2, <3>1 DEF EarlierEpisodeEnded
  <2>7. ShocksAreSpaced'
    <3>1. ASSUME NEW i \in DOMAIN shocks, shocks[i].urgent
          PROVE  \E h \in EveryShock' : h.at <= shocks[i].at /\ h.at + Span <= second
      <4>1. shocks[i].at \in 0..second
        BY <1>4
      <4>2. ~(shocks[i].at >= episode.start)
        BY <1>1, <2>1, <3>1 DEF EpisodeOfShocks
      <4>3. shocks[i].at < episode.start
        BY <1>1, <2>3, <4>1, <4>2
      <4>4. PICK h \in EveryShock : h.at <= shocks[i].at /\ h.at + Span <= episode.start
        BY <1>1, <3>1, <4>3 DEF EarlierEpisodeEnded
      <4>5. h.at \in 0..second
        BY <1>7
      <4>6. h.at + Span <= second
        BY <1>1, <2>3, <4>4, <4>5
      <4>7. QED
        BY <1>6, <4>4, <4>6
    <3>2. SpacedBehind(urgent)
      BY <2>1, <3>1 DEF SpacedBehind
    <3>3. OneMoreShock(n, shock, urgent)
      BY <1>1, <1>2, <1>4, <1>5, <1>6 DEF OneMoreShock
    <3>4. QED
      BY <1>1, <3>2, <3>3, ShocksSpacedBehind
  <2>8. RecordedRows'
    BY <1>1, <1>5, <2>2 DEF RecordedRows
  <2>9. QED
    BY <2>4, <2>5, <2>6, <2>7, <2>8 DEF SpacingInvariant
<1>10. QED
  BY <1>8, <1>9

\* The invariant of the detector holds where it begins.
LEMMA MarketBegins == MarketInit => MarketInvariant
<1>1. SUFFICES ASSUME MarketInit PROVE MarketInvariant
  OBVIOUS
<1>2. NoWindow \in [seconds : SUBSET [at : 0..second, low : Marks, high : Marks],
                    fired : -1..second] /\ NoWindow.seconds = {}
  BY <1>1 DEF MarketInit, NoWindow
<1>3. WindowsHoldPrices
  BY <1>1, <1>2, FS_EmptySet DEF MarketInit, WindowsHoldPrices
<1>4. QED
  BY <1>1, <1>3, SpacingBegins DEF MarketInvariant

\* A window is one of finitely many prices up to now.
LEMMA WindowBegins ==
    ASSUME NEW at \in 0..second, NEW price \in Marks, NEW fired \in -1..second
    PROVE  /\ NewWindow(at, price, fired) \in
                [seconds : SUBSET [at : 0..second, low : Marks, high : Marks], fired : -1..second]
           /\ IsFiniteSet(NewWindow(at, price, fired).seconds)
<1>1. PICK x : x = [at |-> at, low |-> price, high |-> price]
  OBVIOUS
<1>2. x \in [at : 0..second, low : Marks, high : Marks]
  BY <1>1
<1>3. NewWindow(at, price, fired) = [seconds |-> {x}, fired |-> fired]
  BY <1>1 DEF NewWindow
<1>4. IsFiniteSet({x})
  BY FS_Singleton
<1>5. NewWindow(at, price, fired).seconds = {x} /\ NewWindow(at, price, fired).fired = fired
  BY <1>3
<1>6. {x} \in SUBSET [at : 0..second, low : Marks, high : Marks]
  BY <1>2
<1>7. QED
  BY <1>3, <1>4, <1>5, <1>6

\* The current second of a window that is not empty is its latest.
LEMMA CurrentIsThere ==
    ASSUME NEW b \in Nat, NEW w,
           w.seconds \in SUBSET [at : 0..b, low : Marks, high : Marks], w.seconds # {}
    PROVE  CurrentSecond(w) \in w.seconds
<1>1. PICK S : S = {s.at : s \in w.seconds}
  OBVIOUS
<1>2. S \in SUBSET (0 .. b) /\ S # {}
  BY <1>1
<1>3. PICK m \in S : \A n \in S : m >= n
  BY <1>2, GreatestNat
<1>4. PICK s \in w.seconds : s.at = m
  BY <1>1
<1>5. \A t \in w.seconds : t.at \in S /\ t.at \in 0..b /\ m \in 0..b
  BY <1>1, <1>2
<1>6. \A t \in w.seconds : t.at <= s.at
  BY <1>3, <1>4, <1>5
<1>7. QED
  BY <1>6 DEF CurrentSecond

\* A trade leaves a window of finitely many prices, and not an empty one.
LEMMA TradeInWindow ==
    ASSUME second \in Nat, NEW at \in 0..second, NEW price \in Marks,
           NEW w \in [seconds : SUBSET [at : 0..second, low : Marks, high : Marks],
                      fired : -1..second],
           IsFiniteSet(w.seconds), w.seconds # {}
    PROVE  /\ WithTrade(w, at, price) \in
                [seconds : SUBSET [at : 0..second, low : Marks, high : Marks], fired : -1..second]
           /\ IsFiniteSet(WithTrade(w, at, price).seconds)
           /\ WithTrade(w, at, price).seconds # {}
<1>1. PICK c : c = CurrentSecond(w)
  OBVIOUS
<1>2. c \in w.seconds /\ c \in [at : 0..second, low : Marks, high : Marks]
  BY <1>1, CurrentIsThere
<1>3. PICK x, l, h : /\ x = [at |-> at, low |-> price, high |-> price]
                     /\ l = Min({c.low, price}) /\ h = Max({c.high, price})
  OBVIOUS
<1>4. l \in Marks /\ h \in Marks
  <2>1. c.low \in Nat /\ c.high \in Nat /\ price \in Nat /\ c.low \in Marks /\ c.high \in Marks
    BY <1>2, MarketAssumption
  <2>2. PICK b \in Nat : b = c.low + c.high + price
    BY <2>1
  <2>3. {c.low, price} \in SUBSET (0 .. b) /\ {c.high, price} \in SUBSET (0 .. b)
    BY <2>1, <2>2
  <2>4. l \in {c.low, price} /\ h \in {c.high, price}
    BY <1>3, <2>3, MaxMin
  <2>5. QED
    BY <2>1, <2>4
<1>5. PICK y : y = [c EXCEPT !.low = l, !.high = h]
  OBVIOUS
<1>6. x \in [at : 0..second, low : Marks, high : Marks]
      /\ y \in [at : 0..second, low : Marks, high : Marks]
  BY <1>2, <1>3, <1>4, <1>5
<1>7. PICK T : T = IF at > c.at THEN {s \in w.seconds : s.at >= at - Span} \cup {x}
                   ELSE (w.seconds \ {c}) \cup {y}
  OBVIOUS
<1>8. WithTrade(w, at, price) = [w EXCEPT !.seconds = T]
  BY <1>1, <1>3, <1>5, <1>7 DEF WithTrade
<1>9. T \in SUBSET [at : 0..second, low : Marks, high : Marks] /\ T # {}
  BY <1>6, <1>7
<1>10. IsFiniteSet(T)
  <2>1. IsFiniteSet({s \in w.seconds : s.at >= at - Span}) /\ IsFiniteSet(w.seconds \ {c})
    BY FS_Subset
  <2>2. /\ IsFiniteSet({s \in w.seconds : s.at >= at - Span} \cup {x})
        /\ IsFiniteSet((w.seconds \ {c}) \cup {y})
    BY <2>1, FS_AddElement
  <2>3. QED
    BY <1>7, <2>2
<1>11. QED
  BY <1>8, <1>9, <1>10

\* How far a price is from the extremes of a window is a number.
LEMMA MoveIsANumber ==
    ASSUME NEW price \in Marks, NEW w,
           w.seconds \in SUBSET [at : 0..second, low : Marks, high : Marks],
           IsFiniteSet(w.seconds), w.seconds # {}
    PROVE  Move(w, price) \in Nat
<1>1. PICK L, H : L = {s.low : s \in w.seconds} /\ H = {s.high : s \in w.seconds}
  OBVIOUS
<1>2. L \in SUBSET Nat /\ H \in SUBSET Nat /\ L # {} /\ H # {} /\ price \in Nat
  BY <1>1, MarketAssumption
<1>3. IsFiniteSet(L) /\ IsFiniteSet(H)
  <2>1. IsFiniteSet({s.low : s \in w.seconds})
    <3>1. PICK f : f = [s \in w.seconds |-> s.low]
      OBVIOUS
    <3>2. {s.low : s \in w.seconds} = {f[s] : s \in w.seconds}
      BY <3>1
    <3>3. QED
      BY <3>1, <3>2, ImageIsFinite
  <2>2. IsFiniteSet({s.high : s \in w.seconds})
    <3>1. PICK f : f = [s \in w.seconds |-> s.high]
      OBVIOUS
    <3>2. {s.high : s \in w.seconds} = {f[s] : s \in w.seconds}
      BY <3>1
    <3>3. QED
      BY <3>1, <3>2, ImageIsFinite
  <2>3. QED
    BY <1>1, <2>1, <2>2
<1>4. PICK b \in Nat : L \subseteq 0 .. b
  BY <1>2, <1>3, FiniteIsBounded
<1>5. PICK d \in Nat : H \subseteq 0 .. d
  BY <1>2, <1>3, FiniteIsBounded
<1>6. Min(L) \in Nat /\ Max(H) \in Nat
  <2>1. Min(L) \in L
    BY <1>2, <1>4, MaxMin
  <2>2. Max(H) \in H
    BY <1>2, <1>5, MaxMin
  <2>3. QED
    BY <1>2, <2>1, <2>2
<1>7. PICK e, f : e = Distance(price, Min(L)) /\ f = Distance(price, Max(H))
  OBVIOUS
<1>8. e \in Nat /\ f \in Nat
  BY <1>2, <1>6, <1>7 DEF Distance
<1>9. Max({e, f}) \in {e, f}
  <2>1. e + f \in Nat /\ {e, f} \in SUBSET (0 .. (e + f))
    BY <1>8
  <2>2. QED
    BY <2>1, MaxMin
<1>10. Move(w, price) = Max({e, f})
  BY <1>1, <1>7 DEF Move
<1>11. QED
  BY <1>8, <1>9, <1>10

\* A window that changes to another of finitely many prices.
LEMMA WindowMoves ==
    ASSUME WindowsHoldPrices, second' = second, NEW s \in Symbols,
           NEW w \in [seconds : SUBSET [at : 0..second, low : Marks, high : Marks],
                      fired : -1..second],
           IsFiniteSet(w.seconds), windows' = [windows EXCEPT ![s] = w]
    PROVE  WindowsHoldPrices'
<1>1. windows' \in [Symbols -> [seconds : SUBSET [at : 0..second, low : Marks, high : Marks],
                                fired : -1..second]]
  BY DEF WindowsHoldPrices
<1>2. windows'[s] = w /\ \A r \in Symbols \ {s} : windows'[r] = windows[r]
  BY DEF WindowsHoldPrices
<1>3. \A r \in Symbols : IsFiniteSet(windows'[r].seconds)
  BY <1>2 DEF WindowsHoldPrices
<1>4. QED
  BY <1>1, <1>3 DEF WindowsHoldPrices

\* A report of a move keeps the windows and the spacing of the shocks.
LEMMA Reported ==
    ASSUME MarketInvariant, NEW s \in Symbols,
           NEW before \in [seconds : SUBSET [at : 0..second, low : Marks, high : Marks],
                           fired : -1..second],
           IsFiniteSet(before.seconds),
           NEW move \in Nat, NEW at \in 0..second, NEW price \in Marks, NEW reset \in 0..second,
           Report(s, before, move, at, price, reset), UNCHANGED <<second, breaks>>
    PROVE  MarketInvariant'
<1>1. WindowsHoldPrices /\ SpacingInvariant /\ link \in {"closed", "open"} /\ breaks' \in 0..MaxBreaks
  BY DEF MarketInvariant, SpacingInvariant, RecordedRows
<1>2. PICK urgent : urgent = Urgent(move)
  OBVIOUS
<1>3. urgent \in BOOLEAN
  BY <1>2, MarketAssumption DEF Urgent
<1>4. PICK shock : shock = [at |-> second, urgent |-> urgent]
  OBVIOUS
<1>5. PICK n : n = NewWindow(reset, price, at)
  OBVIOUS
<1>6. n \in [seconds : SUBSET [at : 0..second, low : Marks, high : Marks], fired : -1..second]
      /\ IsFiniteSet(n.seconds)
  BY <1>5, WindowBegins
<1>7. /\ \/ windows' = [windows EXCEPT ![s] = n]
         \/ windows' = [windows EXCEPT ![s] = before]
      /\ link' \in {"closed", "open"}
      /\ \/ UNCHANGED <<episode, shocks, unreported>>
         \/ /\ episode' \in Admitted(urgent)
            /\ \/ shocks' = Append(shocks, shock) /\ unreported' = unreported
               \/ shocks' = shocks /\ unreported' = unreported \cup {shock}
  BY <1>1, <1>2, <1>4, <1>5 DEF Report
<1>8. WindowsHoldPrices'
  BY <1>1, <1>6, <1>7, WindowMoves
<1>9. SpacingInvariant'
  <2>1. CASE UNCHANGED <<episode, shocks, unreported>>
    BY <1>1, <1>7, <2>1, ShocksKept
  <2>2. CASE ~UNCHANGED <<episode, shocks, unreported>>
    BY <1>1, <1>3, <1>4, <1>7, <2>2, ShockAdmitted
  <2>3. QED
    BY <2>1, <2>2
<1>10. QED
  BY <1>8, <1>9 DEF MarketInvariant

\* Every step keeps the invariant of the detector.
LEMMA MarketStep == MarketInvariant /\ [MarketNext]_marketVars => MarketInvariant'
<1> SUFFICES ASSUME MarketInvariant, [MarketNext]_marketVars PROVE MarketInvariant'
  OBVIOUS
<1>1. /\ second \in Nat /\ second \in 0..MaxSecond /\ link \in {"closed", "open"}
      /\ breaks \in 0..MaxBreaks /\ MaxBreaks \in Nat /\ WindowsHoldPrices /\ SpacingInvariant
      /\ windows \in [Symbols -> [seconds : SUBSET [at : 0..second, low : Marks, high : Marks],
                                  fired : -1..second]]
      /\ \A s \in Symbols : IsFiniteSet(windows[s].seconds)
  BY MarketAssumption DEF MarketInvariant, SpacingInvariant, RecordedRows, WindowsHoldPrices
<1>2. CASE Connect
  <2>1. SpacingInvariant'
    BY <1>1, <1>2, ShocksKept DEF Connect
  <2>2. WindowsHoldPrices'
    BY <1>1, <1>2 DEF Connect, WindowsHoldPrices
  <2>3. QED
    BY <2>1, <2>2 DEF MarketInvariant
<1>3. CASE Disconnect
  <2>1. breaks' \in 0..MaxBreaks
    BY <1>1, <1>3 DEF Disconnect
  <2>2. SpacingInvariant'
    BY <1>1, <1>3, <2>1, ShocksKept DEF Disconnect
  <2>3. WindowsHoldPrices'
    BY <1>1, <1>3 DEF Disconnect, WindowsHoldPrices
  <2>4. QED
    BY <2>2, <2>3 DEF MarketInvariant
<1>4. CASE SecondPasses
  <2>1. SpacingInvariant'
    BY <1>1, <1>4, ShocksKept DEF SecondPasses
  <2>2. second' = second + 1 /\ windows' = windows
    BY <1>4 DEF SecondPasses
  <2>3. 0..second \subseteq 0..second' /\ -1..second \subseteq -1..second'
    BY <1>1, <2>2
  <2>4. [at : 0..second, low : Marks, high : Marks] \subseteq [at : 0..second', low : Marks, high : Marks]
    BY <2>3
  <2>5. [seconds : SUBSET [at : 0..second, low : Marks, high : Marks], fired : -1..second]
          \subseteq [seconds : SUBSET [at : 0..second', low : Marks, high : Marks], fired : -1..second']
    BY <2>3, <2>4
  <2>6. WindowsHoldPrices'
    BY <1>1, <2>2, <2>5 DEF WindowsHoldPrices
  <2>7. QED
    BY <2>1, <2>6 DEF MarketInvariant
<1>5. ASSUME NEW s \in Symbols, Trade(s) PROVE MarketInvariant'
  <2>1. UNCHANGED <<second, breaks>>
    BY <1>5 DEF Trade
  <2>2. PICK w : w = windows[s]
    OBVIOUS
  <2>3. w \in [seconds : SUBSET [at : 0..second, low : Marks, high : Marks], fired : -1..second]
        /\ IsFiniteSet(w.seconds)
    BY <1>1, <2>2
  <2>4. PICK price \in Marks, at \in {second, second - 1} \cap Nat :
          IF w.seconds = {}
             THEN /\ windows' = [windows EXCEPT ![s] = NewWindow(at, price, -1)]
                  /\ UNCHANGED <<link, episode, shocks, unreported>>
             ELSE /\ at >= CurrentSecond(w).at
                  /\ IF Move(WithTrade(w, at, price), price) < Threshold
                     THEN /\ windows' = [windows EXCEPT ![s] = WithTrade(w, at, price)]
                          /\ UNCHANGED <<link, episode, shocks, unreported>>
                     ELSE Report(s, WithTrade(w, at, price),
                                 Move(WithTrade(w, at, price), price), at, price, at)
    BY <1>5, <2>2, Zenon DEF Trade
  <2>5. at \in 0..second /\ -1 \in -1..second
    BY <1>1
  <2>6. CASE w.seconds = {}
    <3>1. PICK n : n = NewWindow(at, price, -1)
      OBVIOUS
    <3>2. n \in [seconds : SUBSET [at : 0..second, low : Marks, high : Marks], fired : -1..second]
          /\ IsFiniteSet(n.seconds)
      BY <2>5, <3>1, WindowBegins
    <3>3. WindowsHoldPrices'
      BY <1>1, <2>1, <2>4, <2>6, <3>1, <3>2, WindowMoves
    <3>4. SpacingInvariant'
      BY <1>1, <2>1, <2>4, <2>6, ShocksKept
    <3>5. QED
      BY <3>3, <3>4 DEF MarketInvariant
  <2>7. CASE w.seconds # {}
    <3>1. PICK n, move : n = WithTrade(w, at, price) /\ move = Move(n, price)
      OBVIOUS
    <3>2. /\ n \in [seconds : SUBSET [at : 0..second, low : Marks, high : Marks], fired : -1..second]
          /\ IsFiniteSet(n.seconds) /\ n.seconds # {}
      BY <1>1, <2>3, <2>5, <2>7, <3>1, TradeInWindow
    <3>3. move \in Nat
      BY <3>1, <3>2, MoveIsANumber
    <3>4. \/ windows' = [windows EXCEPT ![s] = n] /\ UNCHANGED <<link, episode, shocks, unreported>>
          \/ Report(s, n, move, at, price, at)
      BY <2>4, <2>7, <3>1
    <3>5. CASE windows' = [windows EXCEPT ![s] = n] /\ UNCHANGED <<link, episode, shocks, unreported>>
      <4>1. WindowsHoldPrices'
        BY <1>1, <2>1, <3>2, <3>5, WindowMoves
      <4>2. SpacingInvariant'
        BY <1>1, <2>1, <3>5, ShocksKept
      <4>3. QED
        BY <4>1, <4>2 DEF MarketInvariant
    <3>6. CASE Report(s, n, move, at, price, at)
      BY <2>1, <2>5, <3>2, <3>3, <3>6, Reported
    <3>7. QED
      BY <3>4, <3>5, <3>6
  <2>8. QED
    BY <2>6, <2>7
<1>6. ASSUME NEW s \in Symbols, Bar(s) PROVE MarketInvariant'
  <2>1. PICK move \in {Threshold, 2 * Threshold}, close \in Marks :
           Report(s, windows[s], move, second, close, second)
    BY <1>6 DEF Bar
  <2>2. move \in Nat /\ second \in 0..second
    BY <1>1, MarketAssumption
  <2>3. PICK w : w = windows[s]
    OBVIOUS
  <2>4. w \in [seconds : SUBSET [at : 0..second, low : Marks, high : Marks], fired : -1..second]
        /\ IsFiniteSet(w.seconds)
    BY <1>1, <2>3
  <2>5. UNCHANGED <<second, breaks>>
    BY <1>6 DEF Bar
  <2>6. QED
    BY <2>1, <2>2, <2>3, <2>4, <2>5, Reported
<1>7. CASE UNCHANGED marketVars
  <2>1. SpacingInvariant'
    BY <1>1, <1>7, ShocksKept DEF marketVars
  <2>2. WindowsHoldPrices'
    BY <1>1, <1>7 DEF marketVars, WindowsHoldPrices
  <2>3. QED
    BY <2>1, <2>2 DEF MarketInvariant
<1>8. QED
  BY <1>2, <1>3, <1>4, <1>5, <1>6, <1>7 DEF MarketNext

\* The detector keeps its types: windows of prices that were traded, dated up
\* to now.
THEOREM MarketTypeCorrect == MarketSpec => []MarketTypeOK
<1>1. ASSUME MarketInvariant PROVE MarketTypeOK
  <2>1. /\ shocks \in Seq([at : 0..second, urgent : BOOLEAN])
        /\ WindowsHoldPrices /\ RecordedRows
    BY <1>1 DEF MarketInvariant, SpacingInvariant, RecordedRows
  <2>2. ASSUME NEW i \in DOMAIN shocks
        PROVE  shocks[i].at \in 0..second /\ shocks[i].urgent \in BOOLEAN
    <3>1. shocks[i] \in [at : 0..second, urgent : BOOLEAN]
      BY <2>1, SeqElement
    <3>2. QED
      BY <3>1
  <2>3. QED
    BY <2>1, <2>2 DEF MarketTypeOK, WindowsHoldPrices, RecordedRows
<1>2. QED
  BY <1>1, MarketBegins, MarketStep, PTL DEF MarketSpec

\* Of one scope, over any number of symbols, failures and reconnections, two
\* ordinary shocks are a span apart, and two urgent ones that are closer are
\* of two episodes.
THEOREM ShocksStaySpaced == MarketSpec => []ShocksAreSpaced
<1>1. MarketInvariant => ShocksAreSpaced
  BY DEF MarketInvariant, SpacingInvariant
<1>2. QED
  BY <1>1, MarketBegins, MarketStep, PTL DEF MarketSpec

-----------------------------------------------------------------------------
(* The market facts.                                                       *)

\* The invariant of the store holds where it begins.
LEMMA StoreBegins == StoreInit => StoreInvariant
<1>1. SUFFICES ASSUME StoreInit PROVE StoreInvariant
  OBVIOUS
<1>2. /\ moment = 1 /\ kind \in Kinds /\ table = <<>> /\ answers = <<>>
      /\ writers = [w \in Writers |-> [pc |-> "rest", facts |-> <<>>, seen |-> 0]]
  BY <1>1 DEF StoreInit, Resting
<1>3. WritersAndRows
  BY <1>2 DEF WritersAndRows
<1>4. AnswersAreSettled /\ ReadsAreStable
  BY <1>2 DEF AnswersAreSettled, ReadsAreStable
<1>5. QED
  BY <1>3, <1>4 DEF StoreInvariant

\* Which of the facts that may be seen are read depends on those facts, and
\* on what they were when they were observed, alone.
LEMMA AnswerOfSeen ==
    ASSUME NEW t, kind \in Kinds, kind' = kind, Seen(t)' = Seen(t),
           \A k \in Seen(t) : table'[k] = table[k]
    PROVE  Answer(t)' = Answer(t)
<1>1. Seen(t)' = Seen(t) /\ \A S : Last(S)' = Last(S)
  BY DEF Last
<1>2. \A S \in SUBSET Seen(t) : Shown(S)' = Shown(S)
  BY DEF Shown
<1>3. /\ SpotQuote.by = "seen" /\ SpotTrade.by = "time" /\ SpotBar.by = "bars"
      /\ VenueQuote.by = "venue" /\ Perpetual.by = "perpetual" /\ Funding.by = "range"
      /\ Schedule.by = "schedule"
  BY DEF SpotQuote, SpotTrade, SpotBar, VenueQuote, Perpetual, Funding, Schedule
<1>4. CASE kind = SpotQuote
  <2>1. {k \in Seen(t) : \A j \in Seen(t) : table'[j].seen <= table'[k].seen}
          = {k \in Seen(t) : \A j \in Seen(t) : table[j].seen <= table[k].seen}
    OBVIOUS
  <2>2. LatestSpotQuote(t)' = LatestSpotQuote(t)
    BY <1>1, <2>1 DEF LatestSpotQuote, Last
  <2>3. LatestSpotQuote(t) \in SUBSET Seen(t)
    BY DEF LatestSpotQuote, Last
  <2>4. Answer(t) = Shown(LatestSpotQuote(t))
    BY <1>3, <1>4 DEF Answer
  <2>5. Answer(t)' = Shown(LatestSpotQuote(t))'
    BY <1>3, <1>4 DEF Answer
  <2>6. QED
    BY <1>2, <2>2, <2>3, <2>4, <2>5
<1>5. CASE kind = SpotTrade
  <2>1. LatestTrade(t)' = LatestTrade(t) /\ LatestTrade(t) \in SUBSET Seen(t)
    BY <1>1 DEF LatestTrade, Last
  <2>2. Answer(t) = Shown(LatestTrade(t))
    BY <1>3, <1>5 DEF Answer
  <2>3. Answer(t)' = Shown(LatestTrade(t))'
    BY <1>3, <1>5 DEF Answer
  <2>4. QED
    BY <1>2, <2>1, <2>2, <2>3
<1>6. CASE kind = SpotBar
  <2>1. LatestBars(t)' = LatestBars(t) /\ LatestBars(t) \in SUBSET Seen(t)
    BY <1>1 DEF LatestBars
  <2>2. Answer(t) = Shown(LatestBars(t))
    BY <1>3, <1>6 DEF Answer
  <2>3. Answer(t)' = Shown(LatestBars(t))'
    BY <1>3, <1>6 DEF Answer
  <2>4. QED
    BY <1>2, <2>1, <2>2, <2>3
<1>7. CASE kind = VenueQuote
  <2>1. LatestVenueQuote(t)' = LatestVenueQuote(t) /\ LatestVenueQuote(t) \in SUBSET Seen(t)
    BY <1>1 DEF LatestVenueQuote, Last
  <2>2. Answer(t) = Shown(LatestVenueQuote(t))
    BY <1>3, <1>7 DEF Answer
  <2>3. Answer(t)' = Shown(LatestVenueQuote(t))'
    BY <1>3, <1>7 DEF Answer
  <2>4. QED
    BY <1>2, <2>1, <2>2, <2>3
<1>8. CASE kind = Perpetual
  <2>1. LatestPerpetual(t)' = LatestPerpetual(t) /\ LatestPerpetual(t) \in SUBSET Seen(t)
    BY <1>1 DEF LatestPerpetual, Last
  <2>2. Answer(t) = Shown(LatestPerpetual(t))
    BY <1>3, <1>8 DEF Answer
  <2>3. Answer(t)' = Shown(LatestPerpetual(t))'
    BY <1>3, <1>8 DEF Answer
  <2>4. QED
    BY <1>2, <2>1, <2>2, <2>3
<1>9. CASE kind = Funding
  <2>1. FundingSettlements(t - 1, t, t)' = FundingSettlements(t - 1, t, t) /\ FundingSettlements(t - 1, t, t) \in SUBSET Seen(t)
    BY <1>1 DEF FundingSettlements
  <2>2. Answer(t) = Shown(FundingSettlements(t - 1, t, t))
    BY <1>3, <1>9 DEF Answer
  <2>3. Answer(t)' = Shown(FundingSettlements(t - 1, t, t))'
    BY <1>3, <1>9 DEF Answer
  <2>4. QED
    BY <1>2, <2>1, <2>2, <2>3
<1>10. CASE kind = Schedule
  <2>1. LatestTradingSchedule(t)' = LatestTradingSchedule(t) /\ LatestTradingSchedule(t) \in SUBSET Seen(t)
    BY <1>1 DEF LatestTradingSchedule, Last
  <2>2. Answer(t) = Shown(LatestTradingSchedule(t))
    BY <1>3, <1>10 DEF Answer
  <2>3. Answer(t)' = Shown(LatestTradingSchedule(t))'
    BY <1>3, <1>10 DEF Answer
  <2>4. QED
    BY <1>2, <2>1, <2>2, <2>3
<1>11. QED
  BY <1>4, <1>5, <1>6, <1>7, <1>8, <1>9, <1>10 DEF Kinds

\* A time that is settled stays settled and reads the same while rows that
\* are there stay, and only what was observed later is added.
LEMMA SettledStaysRead ==
    ASSUME StoreInvariant, WritersAndRows', kind' = kind,
           \A t \in Moments : Settled(t) => Settled(t)',
           \A t \in Moments : \A k : Settled(t) =>
              /\ k \in Seen(t) => k \in DOMAIN table' /\ table'[k] = table[k]
              /\ k \in DOMAIN table' => k \in DOMAIN table \/ ~(table'[k].seen <= t),
           \A k \in DOMAIN table : table'[k] = table[k],
           \/ answers' = answers
           \/ \E t \in Moments : Settled(t) /\
                 answers' = [u \in DOMAIN answers \cup {t} |-> IF u = t THEN Answer(t) ELSE answers[u]]
    PROVE  StoreInvariant'
<1>1. WritersAndRows /\ DOMAIN answers \subseteq Moments /\ (\A t \in DOMAIN answers : Settled(t))
      /\ (\A t \in DOMAIN answers : Answer(t) = answers[t])
  BY DEF StoreInvariant, AnswersAreSettled, ReadsAreStable
<1>2. ASSUME NEW t \in Moments, Settled(t) PROVE Answer(t)' = Answer(t)
  <2>1. Seen(t)' = Seen(t)
    BY <1>2 DEF Seen
  <2>2. \A k \in Seen(t) : table'[k] = table[k]
    BY <1>2
  <2>3. QED
    BY <1>1, <2>1, <2>2, AnswerOfSeen DEF WritersAndRows
<1>3. CASE answers' = answers
  <2>1. AnswersAreSettled'
    BY <1>1, <1>3 DEF AnswersAreSettled, Moments
  <2>2. ReadsAreStable'
    BY <1>1, <1>2, <1>3 DEF ReadsAreStable
  <2>3. QED
    BY <2>1, <2>2 DEF StoreInvariant
<1>4. CASE \E t \in Moments : Settled(t) /\
              answers' = [u \in DOMAIN answers \cup {t} |-> IF u = t THEN Answer(t) ELSE answers[u]]
  <2>1. PICK t \in Moments : Settled(t) /\
              answers' = [u \in DOMAIN answers \cup {t} |-> IF u = t THEN Answer(t) ELSE answers[u]]
    BY <1>4
  <2>2. AnswersAreSettled'
    BY <1>1, <2>1 DEF AnswersAreSettled, Moments
  <2>3. ASSUME NEW u \in DOMAIN answers' PROVE Answer(u)' = answers'[u]
    <3>1. CASE u = t
      BY <1>2, <2>1, <3>1
    <3>2. CASE u # t
      BY <1>1, <1>2, <2>1, <2>3, <3>2
    <3>3. QED
      BY <3>1, <3>2
  <2>4. QED
    BY <2>2, <2>3 DEF StoreInvariant, ReadsAreStable
<1>5. QED
  BY <1>3, <1>4

\* Every step keeps the invariant of the store.
LEMMA StoreStep == StoreInvariant /\ [StoreNext]_storeVars => StoreInvariant'
<1> SUFFICES ASSUME StoreInvariant, [StoreNext]_storeVars PROVE StoreInvariant'
  OBVIOUS
<1>1. /\ moment \in Nat /\ kind \in Kinds
      /\ table = [k \in DOMAIN table |-> table[k]]
      /\ writers = [w \in Writers |-> [pc |-> writers[w].pc, seen |-> writers[w].seen,
                                       facts |-> writers[w].facts]]
      /\ \A w \in Writers : writers[w].seen \in 0..moment
      /\ WritersAndRows
  BY DEF StoreInvariant, WritersAndRows
<1>2. \A t \in Moments : t \in Nat
  BY DEF Moments
<1>3. ASSUME UNCHANGED <<table, writers, answers, kind, moment>> PROVE StoreInvariant'
  <2>1. WritersAndRows'
    BY <1>1, <1>3 DEF WritersAndRows
  <2>2. \A t \in Moments : Settled(t) => Settled(t)'
    BY <1>3 DEF Settled
  <2>3. QED
    BY <1>3, <2>1, <2>2, SettledStaysRead DEF Seen
<1>4. CASE Happens
  BY <1>3, <1>4 DEF Happens
<1>5. CASE IsCorrected
  BY <1>3, <1>5 DEF IsCorrected
<1>6. CASE MomentPasses
  <2>1. UNCHANGED <<table, writers, answers, kind>> /\ moment' = moment + 1
    BY <1>6 DEF MomentPasses
  <2>2. WritersAndRows'
    BY <1>1, <2>1 DEF WritersAndRows
  <2>3. \A t \in Moments : Settled(t) => Settled(t)'
    BY <1>1, <1>2, <2>1 DEF Settled
  <2>4. QED
    BY <2>1, <2>2, <2>3, SettledStaysRead DEF Seen
<1>7. ASSUME NEW w \in Writers, UNCHANGED <<moment, kind, table, answers>>,
             NEW f, f = [pc |-> f.pc, seen |-> f.seen, facts |-> f.facts],
             f.seen \in 0..moment,
             f.pc = "fetched" => f.seen = moment \/ (writers[w].pc = "fetched" /\ f.seen = writers[w].seen),
             writers' = [writers EXCEPT ![w] = f]
      PROVE  StoreInvariant'
  <2>1. writers' = [v \in Writers |-> IF v = w THEN f ELSE writers[v]]
    BY <1>1, <1>7
  <2>2. writers'[w] = f /\ \A v \in Writers \ {w} : writers'[v] = writers[v]
    BY <2>1
  <2>3. \A v \in Writers : /\ writers'[v].seen \in 0..moment
                           /\ writers'[v] = [pc |-> writers'[v].pc, seen |-> writers'[v].seen,
                                             facts |-> writers'[v].facts]
    <3>1. ASSUME NEW v \in Writers
          PROVE  writers[v] = [pc |-> writers[v].pc, seen |-> writers[v].seen,
                               facts |-> writers[v].facts]
      BY <1>1
    <3>2. QED
      BY <1>1, <1>7, <2>2, <3>1
  <2>4. writers' = [v \in Writers |-> [pc |-> writers'[v].pc, seen |-> writers'[v].seen,
                                       facts |-> writers'[v].facts]]
    BY <2>1, <2>3
  <2>5. WritersAndRows'
    BY <1>1, <1>7, <2>3, <2>4 DEF WritersAndRows
  <2>6. ASSUME NEW t \in Moments, Settled(t) PROVE Settled(t)'
    BY <1>1, <1>2, <1>7, <2>2, <2>6 DEF Settled
  <2>7. QED
    BY <1>7, <2>5, <2>6, SettledStaysRead DEF Seen
<1>8. ASSUME NEW w \in Writers, FetchFacts(w) PROVE StoreInvariant'
  <2>1. PICK shows \in kind.shows :
         LET S == IF shows = "latest" THEN {Max(DOMAIN tape)} ELSE DOMAIN tape
         IN  writers' = [writers EXCEPT ![w] =
              [pc |-> "fetched", seen |-> moment, facts |-> [k \in S |-> tape[k]]]]
    BY <1>8 DEF FetchFacts
  <2>2. PICK F : writers' = [writers EXCEPT ![w] = [pc |-> "fetched", seen |-> moment, facts |-> F]]
    BY <2>1
  <2>3. PICK f : f = [pc |-> "fetched", seen |-> moment, facts |-> F]
    OBVIOUS
  <2>4. /\ f = [pc |-> f.pc, seen |-> f.seen, facts |-> f.facts]
        /\ f.seen = moment /\ f.seen \in 0..moment /\ writers' = [writers EXCEPT ![w] = f]
    BY <1>1, <2>2, <2>3
  <2>5. UNCHANGED <<moment, kind, table, answers>>
    BY <1>8 DEF FetchFacts
  <2>6. QED
    BY <1>7, <2>4, <2>5
<1>9. ASSUME NEW w \in Writers, WriterStops(w) PROVE StoreInvariant'
  BY <1>1, <1>7, <1>9 DEF WriterStops, Rest, Resting
<1>10. ASSUME NEW w \in Writers, PutNext(w) PROVE StoreInvariant'
  <2>1. PICK f, k : f = writers[w] /\ k = Min(DOMAIN f.facts)
    OBVIOUS
  <2>2. /\ f.pc = "fetched" /\ f.seen \in 0..moment
        /\ f = [pc |-> f.pc, seen |-> f.seen, facts |-> f.facts]
        /\ UNCHANGED <<moment, kind, tape, answers>>
    BY <1>1, <1>10, <2>1 DEF PutNext
  <2>3. \/ table' = table
        \/ /\ k \notin DOMAIN table
           /\ table' = [j \in DOMAIN table \cup {k} |->
                    IF j = k THEN [content |-> f.facts[k], seen |-> f.seen] ELSE table[j]]
    <3>1. CASE k \in DOMAIN table
      BY <1>1, <1>10, <2>1, <3>1 DEF PutNext, Kept
    <3>2. CASE k \notin DOMAIN table
      BY <1>10, <2>1, <3>2 DEF PutNext
    <3>3. QED
      BY <3>1, <3>2
  <2>4. PICK g : /\ writers' = [writers EXCEPT ![w] = g]
                 /\ g = [pc |-> g.pc, seen |-> g.seen, facts |-> g.facts]
                 /\ g.seen \in 0..moment
                 /\ g.pc = "fetched" => g.seen = f.seen
    <3>1. CASE Rest(w)
      <4>1. PICK g : g = Resting
        OBVIOUS
      <4>2. /\ g = [pc |-> g.pc, seen |-> g.seen, facts |-> g.facts]
            /\ g.seen \in 0..moment /\ g.pc # "fetched"
        BY <1>1, <4>1 DEF Resting
      <4>3. writers' = [writers EXCEPT ![w] = g]
        BY <3>1, <4>1 DEF Rest
      <4>4. QED
        BY <4>2, <4>3
    <3>2. CASE ~Rest(w)
      <4>1. PICK F : writers' = [writers EXCEPT ![w].facts = F]
        BY <1>10, <2>1, <3>2 DEF PutNext
      <4>2. PICK g : g = [f EXCEPT !.facts = F]
        OBVIOUS
      <4>3. /\ g = [pc |-> g.pc, seen |-> g.seen, facts |-> g.facts]
            /\ g.seen = f.seen
        BY <2>2, <4>2
      <4>4. writers' = [writers EXCEPT ![w] = g]
        BY <2>1, <4>1, <4>2
      <4>5. QED
        BY <2>2, <4>3, <4>4
    <3>3. QED
      BY <3>1, <3>2
  <2>5. CASE table' = table
    BY <1>7, <2>1, <2>2, <2>4, <2>5
  <2>6. CASE /\ k \notin DOMAIN table
             /\ table' = [j \in DOMAIN table \cup {k} |->
                    IF j = k THEN [content |-> f.facts[k], seen |-> f.seen] ELSE table[j]]
    <3>1. /\ DOMAIN table' = DOMAIN table \cup {k} /\ table'[k].seen = f.seen
          /\ \A j \in DOMAIN table : table'[j] = table[j]
          /\ table' = [j \in DOMAIN table' |-> table'[j]]
      BY <2>6
    <3>2. writers' = [v \in Writers |-> IF v = w THEN g ELSE writers[v]]
      BY <1>1, <2>4
    <3>3. writers'[w] = g /\ \A v \in Writers \ {w} : writers'[v] = writers[v]
      BY <3>2
    <3>4. \A v \in Writers : /\ writers'[v].seen \in 0..moment
                             /\ writers'[v] = [pc |-> writers'[v].pc, seen |-> writers'[v].seen,
                                               facts |-> writers'[v].facts]
      <4>1. ASSUME NEW v \in Writers
            PROVE  writers[v] = [pc |-> writers[v].pc, seen |-> writers[v].seen,
                                 facts |-> writers[v].facts]
        BY <1>1
      <4>2. QED
        BY <1>1, <2>4, <3>3, <4>1
    <3>5. writers' = [v \in Writers |-> [pc |-> writers'[v].pc, seen |-> writers'[v].seen,
                                         facts |-> writers'[v].facts]]
      BY <3>2, <3>4
    <3>6. WritersAndRows'
      BY <1>1, <2>2, <3>1, <3>4, <3>5 DEF WritersAndRows
    <3>7. ASSUME NEW t \in Moments, Settled(t) PROVE Settled(t)' /\ ~(f.seen <= t)
      <4>1. t \in Nat /\ f.seen \in Nat /\ f.seen > t
        BY <1>1, <1>2, <2>1, <2>2, <3>7 DEF Settled
      <4>2. Settled(t)'
        BY <2>1, <2>2, <2>4, <3>3, <3>7 DEF Settled
      <4>3. QED
        BY <4>1, <4>2
    <3>8. QED
      BY <2>2, <3>1, <3>6, <3>7, SettledStaysRead DEF Seen
  <2>7. QED
    BY <2>3, <2>5, <2>6
<1>11. ASSUME NEW t \in Moments, ReadAsOf(t) PROVE StoreInvariant'
  <2>1. UNCHANGED <<moment, kind, tape, table, writers>>
    BY <1>11 DEF ReadAsOf
  <2>2. WritersAndRows'
    BY <1>1, <2>1 DEF WritersAndRows
  <2>3. \A u \in Moments : Settled(u) => Settled(u)'
    BY <2>1 DEF Settled
  <2>4. Settled(t) /\ answers' = [u \in DOMAIN answers \cup {t} |->
                                   IF u = t THEN Answer(t) ELSE answers[u]]
    BY <1>11 DEF ReadAsOf
  <2>5. QED
    BY <2>1, <2>2, <2>3, <2>4, SettledStaysRead DEF Seen
<1>12. CASE UNCHANGED storeVars
  BY <1>3, <1>12 DEF storeVars
<1>13. QED
  BY <1>4, <1>5, <1>6, <1>8, <1>9, <1>10, <1>11, <1>12 DEF StoreNext

\* A time that was read when it was settled reads the same for ever, however
\* late and often the writers bring what the exchange had.
THEOREM SettledReadsAreStable == StoreSpec => []ReadsAreStable
<1>1. StoreInvariant => ReadsAreStable
  BY DEF StoreInvariant
<1>2. QED
  BY <1>1, StoreBegins, StoreStep, PTL DEF StoreSpec
-----------------------------------------------------------------------------
(* MetricSeries.                                                            *)

\* Every feed wants a row, and does one of three things with later ones.
LEMMA FeedKinds ==
    ASSUME NEW s \in MetricStreams
    PROVE  s.least \in Nat \ {0} /\ s.future \in {"keep", "skip", "refuse"}
<1>. DEFINE Kind(f) == f.least \in Nat \ {0} /\ f.future \in {"keep", "skip", "refuse"}
<1>1. /\ Kind(Tga) /\ Kind(Auctions) /\ Kind(Refinancing) /\ Kind(AverageCost)
      /\ Kind(Yields) /\ Kind(RealYields) /\ Kind(ReverseRepo) /\ Kind(Soma)
      /\ Kind(ReferenceRates) /\ Kind(Ibit) /\ Kind(Arkb) /\ Kind(Bitb)
  BY DEF Feed, Tga, Auctions, Refinancing, AverageCost, Yields, RealYields, ReverseRepo,
         Soma, ReferenceRates, Ibit, Arkb, Bitb
<1>2. Kind(Expense) /\ Kind(BroadDollar)
  BY DEF Feed, Expense, BroadDollar
<1>3. Kind(Sp500) /\ Kind(HighYield) /\ Kind(Wti) /\ Kind(Stablecoins)
  BY DEF Feed, FredSeries, Sp500, HighYield, Wti, Stablecoins
<1>. HIDE DEF Kind
<1>4. Kind(s)
  BY <1>1, <1>2, <1>3 DEF MetricStreams
<1>5. QED
  BY <1>4 DEF Kind

\* Dates that are not none have a latest.
LEMMA LatestDate ==
    ASSUME NEW S \in SUBSET Dates, S # {}
    PROVE  Max(S) \in S /\ \A d \in S : d <= Max(S)
<1>1. LastDate \in Nat /\ S \in SUBSET (0..LastDate)
  BY MetricAssumption DEF Dates
<1>2. PICK m \in S : \A n \in S : m >= n
  BY <1>1, GreatestNat
<1>3. QED
  BY <1>2 DEF Max, Dates

\* Dates before one, and this one: the latest is this one.
LEMMA LatestIsOwn ==
    ASSUME NEW d \in Dates, NEW S \in SUBSET Dates, \A k \in S : k < d
    PROVE  Max(S \cup {d}) = d
<1>1. d \in Int /\ \A k \in S : k \in Int
  BY DEF Dates
<1>2. \A x \in S \cup {d} : (\A y \in S \cup {d} : x >= y) => x = d
  BY <1>1
<1>3. d \in S \cup {d} /\ \A y \in S \cup {d} : d >= y
  BY <1>1
<1>4. QED
  BY <1>2, <1>3 DEF Max

\* What a document says depends on its usable rows alone, when later ones are
\* not a reason to refuse it.
LEMMA SameRowsSameRefusal ==
    ASSUME NEW doc, NEW doc2, NEW at, Usable(doc2, at) = Usable(doc, at),
           \A d \in Usable(doc, at) : doc2[d] = doc[d], stream.future # "refuse"
    PROVE  RefusesDocument(doc2, at) <=> RefusesDocument(doc, at)
<1>1. PICK rows : rows = Usable(doc, at)
  OBVIOUS
<1>2. PICK last : last = Max(rows)
  OBVIOUS
<1>3. \A lag : Base(rows, last, lag) \subseteq rows
  BY DEF Base, Before
<1>4. \A d \in rows : doc2[d] = doc[d]
  BY <1>1
<1>5. QED
  BY <1>1, <1>2, <1>3, <1>4 DEF RefusesDocument

\* Two documents that agree on their usable rows are read alike.
LEMMA SameRowsSameSnapshot ==
    ASSUME NEW doc, NEW doc2, NEW at, Usable(doc2, at) = Usable(doc, at),
           Usable(doc, at) # {}, Usable(doc, at) \in SUBSET Dates,
           \A d \in Usable(doc, at) : doc2[d] = doc[d], stream.future # "refuse"
    PROVE  Parse(doc2, at) = Parse(doc, at)
<1>1. RefusesDocument(doc2, at) <=> RefusesDocument(doc, at)
  BY SameRowsSameRefusal
<1>2. [d \in Usable(doc2, at) |-> doc2[d]] = [d \in Usable(doc, at) |-> doc[d]]
  OBVIOUS
<1>3. Max(Usable(doc, at)) \in Usable(doc, at)
  BY LatestDate
<1>4. PICK m : m = Max(Usable(doc, at)) /\ doc2[m] = doc[m]
  BY <1>3
<1>5. WithHistory(doc2, at) = WithHistory(doc, at)
  BY <1>4 DEF WithHistory
<1>6. QED
  BY <1>1, <1>2, <1>5 DEF Parse

\* The feed does not change, nor does what it makes of a series.
LEMMA SnapshotStands ==
    ASSUME UNCHANGED stream, NEW doc
    PROVE  SnapshotOf(doc)' = SnapshotOf(doc)
BY DEF SnapshotOf, Base, Level, Unusual, Change, Changing

\* While the feed does not change, what it makes of a document does not.
LEMMA RefusalStands ==
    ASSUME UNCHANGED stream, NEW doc, NEW at
    PROVE  /\ RefusesDocument(doc, at)' <=> RefusesDocument(doc, at)
           /\ Usable(doc, at)' = Usable(doc, at)
BY DEF RefusesDocument, Usable, Base

\* What the store hears of a day and later ones changes nothing of what a
\* document of that day says.
LEMMA ParseStands ==
    ASSUME UNCHANGED stream, NEW doc, NEW at,
           DOMAIN kept = Dates, DOMAIN kept' = Dates,
           \A k \in Dates : k < Max(Usable(doc, at)) => kept'[k] = kept[k]
    PROVE  Parse(doc, at)' = Parse(doc, at)
<1>. DEFINE d == Max(Usable(doc, at))
<1>1. /\ RefusesDocument(doc, at)' <=> RefusesDocument(doc, at)
      /\ Usable(doc, at)' = Usable(doc, at)
  BY RefusalStands
<1>2. Known(d)' = Known(d) /\ \A k \in Known(d) : k \in Dates /\ k < d
  BY <1>1 DEF Known, Earlier
<1>3. PICK e : e = d
  OBVIOUS
<1>4. Known(e)' = Known(e) /\ \A k \in Known(e) \cup {e} : k # e => kept'[k] = kept[k]
  BY <1>1, <1>2, <1>3 DEF Known, Earlier
<1>5. WithHistory(doc, at)' = WithHistory(doc, at)
  <2>1. PICK amount : amount = doc[e]
    OBVIOUS
  <2>2. PICK series : series = SeriesTo(e, amount)
    OBVIOUS
  <2>3. SeriesTo(e, amount)' = SeriesTo(e, amount)
    BY <1>4 DEF SeriesTo
  <2>4. SnapshotOf(series)' = SnapshotOf(series)
    BY SnapshotStands
  <2>5. SnapshotOf(SeriesTo(e, amount))' = SnapshotOf(series)
    BY <2>2, <2>3, <2>4
  <2>6. PICK changes : changes = {<<1, <<amount - kept[k], 1>>>> : k \in Recent(Known(e), 1)}
    OBVIOUS
  <2>7. \A k \in Recent(Known(e), 1) : kept'[k] = kept[k]
    BY <1>2, <1>3 DEF Recent
  <2>8. {<<1, <<amount - kept'[k], 1>>>> : k \in Recent(Known(e)', 1)} = changes
    BY <1>4, <2>6, <2>7
  <2>9. WithHistory(doc, at) = [SnapshotOf(series) EXCEPT !.changes = changes]
    BY <1>3, <2>1, <2>2, <2>6 DEF WithHistory
  <2>10. Max(Usable(doc, at)') = e
    BY <1>1, <1>3
  <2>11. WithHistory(doc, at)' = [SnapshotOf(SeriesTo(e, amount))' EXCEPT !.changes =
             {<<1, <<amount - kept'[k], 1>>>> : k \in Recent(Known(e)', 1)}]
    BY <2>1, <2>10 DEF WithHistory
  <2>12. QED
    BY <2>5, <2>8, <2>9, <2>11
<1>6. SnapshotOf([k \in Usable(doc, at) |-> doc[k]])' = SnapshotOf([k \in Usable(doc, at) |-> doc[k]])
  <2>1. PICK series : series = [k \in Usable(doc, at) |-> doc[k]]
    OBVIOUS
  <2>2. SnapshotOf(series)' = SnapshotOf(series)
    BY SnapshotStands
  <2>3. QED
    BY <1>1, <2>1, <2>2
<1>7. QED
  BY <1>1, <1>5, <1>6 DEF Parse, LatestOnly

\* The snapshot of a feed with a history is of the latest usable row.
LEMMA SnapshotDate ==
    ASSUME NEW doc, NEW at, Usable(doc, at) \in SUBSET Dates, Usable(doc, at) # {}
    PROVE  WithHistory(doc, at).date = Max(Usable(doc, at))
<1>1. PICK d \in Dates : d = Max(Usable(doc, at))
  BY LatestDate
<1>2. Known(d) \in SUBSET Dates /\ \A k \in Known(d) : k < d
  BY DEF Known, Earlier
<1>3. PICK series : series = SeriesTo(d, doc[d])
  OBVIOUS
<1>4. DOMAIN series = Known(d) \cup {d}
  BY <1>3 DEF SeriesTo
<1>5. SnapshotOf(series).date = d
  BY <1>2, <1>4, LatestIsOwn DEF SnapshotOf
<1>6. PICK changes : changes = {<<1, <<doc[d] - kept[k], 1>>>> : k \in Recent(Known(d), 1)}
  OBVIOUS
<1>7. WithHistory(doc, at) = [SnapshotOf(series) EXCEPT !.changes = changes]
  BY <1>1, <1>3, <1>6 DEF WithHistory
<1>8. [SnapshotOf(series) EXCEPT !.changes = changes].date = SnapshotOf(series).date
  BY DEF SnapshotOf
<1>9. QED
  BY <1>1, <1>5, <1>7, <1>8

\* A document that is not refused has a usable row, of a date.
LEMMA NotRefusedHasRows ==
    ASSUME MetricInvariant, NEW doc \in Pages, NEW at, ~RefusesDocument(doc, at)
    PROVE  Usable(doc, at) \in SUBSET Dates /\ Usable(doc, at) # {}
<1>1. DOMAIN doc \in SUBSET Dates
  BY DEF Pages
<1>2. Usable(doc, at) \in SUBSET Dates
  BY <1>1 DEF Usable
<1>3. stream.least \in Nat \ {0}
  BY FeedKinds DEF MetricInvariant
<1>4. ~(Cardinality(Usable(doc, at)) < stream.least)
  BY DEF RefusesDocument
<1>5. Cardinality({}) = 0
  BY FS_EmptySet
<1>6. Usable(doc, at) # {}
  BY <1>3, <1>4, <1>5
<1>7. QED
  BY <1>2, <1>6

\* A document without its later rows says the same, unless it is trusted.
LEMMA LaterRowsSayNothing ==
    ASSUME MetricInvariant, NEW doc \in Pages, NEW at \in Dates, ~RefusesDocument(doc, at),
           stream.future # "keep"
    PROVE  Parse([d \in {k \in DOMAIN doc : k <= at} |-> doc[d]], at) = Parse(doc, at)
<1>1. PICK early : early = [d \in {k \in DOMAIN doc : k <= at} |-> doc[d]]
  OBVIOUS
<1>2. stream.future \in {"skip", "refuse"}
  BY FeedKinds DEF MetricInvariant
<1>3. DOMAIN doc \in SUBSET Dates /\ doc = [d \in DOMAIN doc |-> doc[d]]
  BY DEF Pages
<1>4. CASE stream.future = "refuse"
  <2>1. \A d \in DOMAIN doc : ~(d > at)
    BY <1>4 DEF RefusesDocument
  <2>2. \A d \in DOMAIN doc : d <= at
    BY <1>3, <2>1 DEF Dates
  <2>3. {k \in DOMAIN doc : k <= at} = DOMAIN doc
    BY <2>2
  <2>4. QED
    BY <1>3, <2>3
<1>5. CASE stream.future = "skip"
  <2>1. DOMAIN early = {k \in DOMAIN doc : k <= at} /\ \A d \in DOMAIN early : early[d] = doc[d]
    BY <1>1
  <2>2. Usable(early, at) = Usable(doc, at)
    BY <1>5, <2>1 DEF Usable
  <2>3. \A d \in Usable(doc, at) : early[d] = doc[d]
    BY <1>5, <2>1 DEF Usable
  <2>4. Usable(doc, at) \in SUBSET Dates /\ Usable(doc, at) # {}
    BY NotRefusedHasRows
  <2>5. Parse(early, at) = Parse(doc, at)
    BY <1>5, <2>2, <2>3, <2>4, SameRowsSameSnapshot
  <2>6. QED
    BY <1>1, <2>5
<1>6. QED
  BY <1>2, <1>4, <1>5

\* A page that is read gives the same snapshot once its own is stored.
LEMMA ReadPageReproducible == MetricInvariant /\ ReadPage => MetricInvariant'
<1>1. SUFFICES ASSUME MetricInvariant, ReadPage PROVE MetricInvariant'
  OBVIOUS
<1>2. PICK doc \in Pages :
         /\ Parse(doc, today) # NoSnap
         /\ page' = doc /\ latestSnap' = Parse(doc, today)
         /\ kept' = IF LatestOnly
                    THEN [kept EXCEPT ![latestSnap'.date] = latestSnap'.level] ELSE kept
  BY <1>1 DEF ReadPage
<1>3. UNCHANGED <<today, stream>> /\ today \in Dates /\ stream \in MetricStreams
      /\ DOMAIN kept = Dates
  BY <1>1 DEF ReadPage, MetricInvariant
<1>4. PICK at \in Dates : at = today /\ at = today'
  BY <1>3
<1>5. ~RefusesDocument(doc, at)
  BY <1>2, <1>4 DEF Parse
<1>6. Usable(doc, at) \in SUBSET Dates /\ Usable(doc, at) # {}
  BY <1>1, <1>5, NotRefusedHasRows
<1>7. DOMAIN kept' = Dates
  BY <1>2, <1>3
<1>8. \A k \in Dates : k < Max(Usable(doc, at)) => kept'[k] = kept[k]
  <2>1. CASE ~LatestOnly
    BY <1>2, <2>1
  <2>2. CASE LatestOnly
    <3>1. latestSnap'.date = Max(Usable(doc, at))
      BY <1>2, <1>4, <1>5, <1>6, <2>2, SnapshotDate DEF Parse
    <3>2. PICK m \in Dates : m = Max(Usable(doc, at))
      BY <1>6, LatestDate
    <3>3. \A k \in Dates : k < m => k # m
      BY <3>2 DEF Dates
    <3>4. kept' = [kept EXCEPT ![m] = latestSnap'.level]
      BY <1>2, <2>2, <3>1, <3>2
    <3>5. QED
      BY <1>3, <3>2, <3>3, <3>4
  <2>3. QED
    BY <2>1, <2>2
<1>9. Parse(doc, at)' = Parse(doc, at)
  BY <1>3, <1>7, <1>8, ParseStands
<1>10. PICK early : early = [d \in {k \in DOMAIN doc : k <= at} |-> doc[d]]
  OBVIOUS
<1>11. stream.future # "keep" => Parse(early, at) = Parse(doc, at)
  BY <1>1, <1>5, <1>10, LaterRowsSayNothing
<1>12. ASSUME stream.future # "keep" PROVE Parse(early, at)' = Parse(early, at)
  <2>1. Usable(early, at) = Usable(doc, at)
    <3>1. DOMAIN early = {k \in DOMAIN doc : k <= at}
          /\ \A d \in DOMAIN early : early[d] = doc[d]
      BY <1>10
    <3>2. CASE stream.future = "skip"
      BY <3>1, <3>2 DEF Usable
    <3>3. CASE stream.future = "refuse"
      <4>1. \A d \in DOMAIN doc : d \in Dates /\ ~(d > at)
        BY <1>5, <3>3 DEF RefusesDocument, Pages
      <4>2. DOMAIN early = DOMAIN doc
        BY <3>1, <4>1 DEF Dates
      <4>3. QED
        BY <3>1, <4>2 DEF Usable
    <3>4. QED
      BY <1>3, <1>12, <3>2, <3>3, FeedKinds
  <2>2. \A k \in Dates : k < Max(Usable(early, at)) => kept'[k] = kept[k]
    BY <1>8, <2>1
  <2>3. QED
    BY <1>3, <1>7, <2>2, ParseStands
<1>13. Parse(page, today)' = latestSnap'
  <2>1. Parse(page, today)' = Parse(doc, at)'
    BY <1>2, <1>4
  <2>2. QED
    BY <1>2, <1>4, <1>9, <2>1
<1>14. (stream.future # "keep" =>
          Parse([d \in {k \in DOMAIN page : k <= today} |-> page[d]], today) = latestSnap)'
  <2>1. SUFFICES ASSUME stream.future # "keep"
                 PROVE  Parse([d \in {k \in DOMAIN page : k <= today} |-> page[d]], today)'
                          = latestSnap'
    BY <1>3
  <2>2. [d \in {k \in DOMAIN page' : k <= today'} |-> page'[d]] = early
    BY <1>2, <1>4, <1>10
  <2>3. Parse([d \in {k \in DOMAIN page : k <= today} |-> page[d]], today)' = Parse(early, at)'
    BY <1>4, <2>2
  <2>4. QED
    BY <1>2, <1>4, <1>11, <1>12, <2>1, <2>3
<1>15. SnapshotsAreReproducible'
  BY <1>13, <1>14 DEF SnapshotsAreReproducible
<1>16. QED
  BY <1>3, <1>7, <1>15 DEF MetricInvariant

\* A series has a place for every date, and the page last read gives its
\* snapshot again whatever of it was stored since.
THEOREM MetricInvariantHolds == MetricSpec => []MetricInvariant
<1>1. MetricInit => MetricInvariant
  <2>1. 1 \in Dates
    BY MetricAssumption DEF Dates
  <2>2. QED
    BY <2>1 DEF MetricInit, MetricInvariant, SnapshotsAreReproducible
<1>2. MetricInvariant /\ MetricDayPasses => MetricInvariant'
  <2>1. SUFFICES ASSUME MetricInvariant, MetricDayPasses PROVE MetricInvariant'
    OBVIOUS
  <2>2. today' \in Dates
    BY <2>1, MetricAssumption DEF MetricInvariant, MetricDayPasses, Dates
  <2>3. latestSnap' = NoSnap /\ UNCHANGED <<stream, kept>>
    BY <2>1 DEF MetricDayPasses
  <2>4. SnapshotsAreReproducible'
    <3>1. NoSnap' = NoSnap
      BY DEF NoSnap
    <3>2. QED
      BY <2>3, <3>1 DEF SnapshotsAreReproducible
  <2>5. QED
    BY <2>1, <2>2, <2>3, <2>4 DEF MetricInvariant
<1>3. MetricInvariant /\ UNCHANGED metricVars => MetricInvariant'
  <2>1. SUFFICES ASSUME MetricInvariant, UNCHANGED metricVars PROVE MetricInvariant'
    OBVIOUS
  <2>2. UNCHANGED <<today, stream, page, latestSnap, kept>>
    BY <2>1 DEF metricVars
  <2>3. PICK doc, at : doc = page /\ at = today /\ doc = page' /\ at = today'
    BY <2>2
  <2>4. PICK early : early = [d \in {k \in DOMAIN doc : k <= at} |-> doc[d]]
    OBVIOUS
  <2>5. Parse(doc, at)' = Parse(doc, at) /\ Parse(early, at)' = Parse(early, at)
    BY <2>1, <2>2, ParseStands DEF MetricInvariant
  <2>6. SnapshotsAreReproducible' <=> SnapshotsAreReproducible
    <3>1. Parse(page, today)' = Parse(doc, at)' /\ Parse(page, today) = Parse(doc, at)
      BY <2>3
    <3>2. /\ Parse([d \in {k \in DOMAIN page : k <= today} |-> page[d]], today)' = Parse(early, at)'
          /\ Parse([d \in {k \in DOMAIN page : k <= today} |-> page[d]], today) = Parse(early, at)
      BY <2>3, <2>4
    <3>3. QED
      BY <2>2, <2>5, <3>1, <3>2 DEF SnapshotsAreReproducible
  <2>7. QED
    BY <2>1, <2>2, <2>6 DEF MetricInvariant
<1>4. QED
  BY <1>1, <1>2, <1>3, ReadPageReproducible, PTL DEF MetricSpec, MetricNext

\* A document gives the snapshot it gave whenever it is read again on its day,
\* after its own snapshot was stored and without the rows dated later.
THEOREM SnapshotsStand == MetricSpec => []SnapshotsAreReproducible
BY MetricInvariantHolds, PTL DEF MetricInvariant

-----------------------------------------------------------------------------
(* The packet: what is removed and put back under a limit.                 *)

(* The order of the facts of a packet is total: no two facts of a state    *)
(* have one place.                                                         *)
FactsApart(F) ==
    IsFiniteSet(F) /\ F \subseteq FactSpace /\ \A f, g \in F : f.id = g.id => f = g

LEMMA RankIsList ==
    ASSUME NEW f \in FactSpace
    PROVE  Rank(f) \in [1..5 -> Nat] /\ Rank(f)[5] = f.id
BY DEF Rank, FactSpace

\* Lists of five numbers are ordered by their first difference.
First(a, b) == \E i \in 1..5 : a[i] < b[i] /\ \A j \in 1..(i - 1) : a[j] = b[j]

LEMMA FirstMeans ==
    ASSUME NEW a \in [1..5 -> Nat], NEW b \in [1..5 -> Nat]
    PROVE  First(a, b) <=>
              \/ a[1] < b[1]
              \/ a[1] = b[1] /\ a[2] < b[2]
              \/ a[1] = b[1] /\ a[2] = b[2] /\ a[3] < b[3]
              \/ a[1] = b[1] /\ a[2] = b[2] /\ a[3] = b[3] /\ a[4] < b[4]
              \/ a[1] = b[1] /\ a[2] = b[2] /\ a[3] = b[3] /\ a[4] = b[4] /\ a[5] < b[5]
<1>1. /\ 1..5 = {1, 2, 3, 4, 5}
      /\ 1..(1 - 1) = {} /\ 1..(2 - 1) = {1} /\ 1..(3 - 1) = {1, 2}
      /\ 1..(4 - 1) = {1, 2, 3} /\ 1..(5 - 1) = {1, 2, 3, 4}
  OBVIOUS
<1>2. QED
  BY <1>1 DEF First

LEMMA AheadIsFirst ==
    ASSUME NEW f, NEW g PROVE Ahead(f, g) <=> First(Rank(f), Rank(g))
BY DEF Ahead, First

LEMMA AheadOrders ==
    ASSUME NEW F, FactsApart(F)
    PROVE  /\ \A f \in F : ~Ahead(f, f)
           /\ \A f, g, h \in F : Ahead(f, g) /\ Ahead(g, h) => Ahead(f, h)
           /\ \A f, g \in F : f # g => Ahead(f, g) \/ Ahead(g, f)
<1>1. \A f \in F : Rank(f) \in [1..5 -> Nat] /\ Rank(f)[5] = f.id
  BY RankIsList DEF FactsApart
<1>2. ASSUME NEW f \in F PROVE ~Ahead(f, f)
  BY <1>1, FirstMeans, AheadIsFirst
<1>3. ASSUME NEW f \in F, NEW g \in F, NEW h \in F, Ahead(f, g), Ahead(g, h)
      PROVE  Ahead(f, h)
  <2> DEFINE a == Rank(f)
             b == Rank(g)
             c == Rank(h)
  <2>1. /\ a \in [1..5 -> Nat] /\ b \in [1..5 -> Nat] /\ c \in [1..5 -> Nat]
        /\ First(a, b) /\ First(b, c)
    BY <1>1, <1>3, AheadIsFirst
  <2>2. First(a, b) <=>
              \/ a[1] < b[1]
              \/ a[1] = b[1] /\ a[2] < b[2]
              \/ a[1] = b[1] /\ a[2] = b[2] /\ a[3] < b[3]
              \/ a[1] = b[1] /\ a[2] = b[2] /\ a[3] = b[3] /\ a[4] < b[4]
              \/ a[1] = b[1] /\ a[2] = b[2] /\ a[3] = b[3] /\ a[4] = b[4] /\ a[5] < b[5]
    BY <2>1, FirstMeans
  <2>3. First(b, c) <=>
              \/ b[1] < c[1]
              \/ b[1] = c[1] /\ b[2] < c[2]
              \/ b[1] = c[1] /\ b[2] = c[2] /\ b[3] < c[3]
              \/ b[1] = c[1] /\ b[2] = c[2] /\ b[3] = c[3] /\ b[4] < c[4]
              \/ b[1] = c[1] /\ b[2] = c[2] /\ b[3] = c[3] /\ b[4] = c[4] /\ b[5] < c[5]
    BY <2>1, FirstMeans
  <2>4. First(a, c) <=>
              \/ a[1] < c[1]
              \/ a[1] = c[1] /\ a[2] < c[2]
              \/ a[1] = c[1] /\ a[2] = c[2] /\ a[3] < c[3]
              \/ a[1] = c[1] /\ a[2] = c[2] /\ a[3] = c[3] /\ a[4] < c[4]
              \/ a[1] = c[1] /\ a[2] = c[2] /\ a[3] = c[3] /\ a[4] = c[4] /\ a[5] < c[5]
    BY <2>1, FirstMeans
  <2>5. \A i \in {1, 2, 3, 4, 5} : a[i] \in Nat /\ b[i] \in Nat /\ c[i] \in Nat
    BY <2>1
  <2>6. First(a, c)
    <3> HIDE DEF a, b, c
    <3>1. QED
      BY <2>1, <2>2, <2>3, <2>4, <2>5
  <2>7. QED
    BY <2>6, AheadIsFirst
<1>4. ASSUME NEW f \in F, NEW g \in F, f # g PROVE Ahead(f, g) \/ Ahead(g, f)
  <2>1. Rank(f)[5] # Rank(g)[5]
    BY <1>1, <1>4 DEF FactsApart
  <2>2. QED
    BY <1>1, <2>1, FirstMeans, AheadIsFirst
<1>5. QED
  BY <1>2, <1>3, <1>4

\* A class is ahead of another as a whole.
LEMMA ClassesAreApart ==
    ASSUME NEW f \in FactSpace, NEW g \in FactSpace, NEW h \in FactSpace,
           Class(g) = Class(h), Class(f) # Class(g)
    PROVE  /\ Ahead(f, g) <=> Ahead(f, h)
           /\ Ahead(g, f) <=> Ahead(h, f)
<1>1. /\ Rank(f) \in [1..5 -> Nat] /\ Rank(g) \in [1..5 -> Nat] /\ Rank(h) \in [1..5 -> Nat]
  BY RankIsList
<1>2. /\ Rank(g)[1] = Rank(h)[1] /\ Rank(g)[2] = Rank(h)[2]
      /\ Rank(f)[1] # Rank(g)[1] \/ Rank(f)[2] # Rank(g)[2]
  BY DEF Class, Rank, FactSpace
<1>3. QED
  BY <1>1, <1>2, FirstMeans, AheadIsFirst

\* So the facts of a packet are in one line.
LEMMA RoundIsNumber ==
    ASSUME NEW F, FactsApart(F), NEW f PROVE Round(f, F) \in Nat
<1>1. IsFiniteSet({g \in F : Class(g) = Class(f) /\ g.channel = f.channel /\ Ahead(g, f)})
  BY FS_Subset DEF FactsApart
<1>2. QED
  BY <1>1, FS_CardinalityType DEF Round

LEMMA PrecedesOrders ==
    ASSUME NEW F, FactsApart(F)
    PROVE  /\ \A f \in F : ~Precedes(f, f, F)
           /\ \A f, g, h \in F : Precedes(f, g, F) /\ Precedes(g, h, F) => Precedes(f, h, F)
           /\ \A f, g \in F : f # g => Precedes(f, g, F) \/ Precedes(g, f, F)
<1>1. \A f \in F : Round(f, F) \in Nat
  BY RoundIsNumber
<1>2. ASSUME NEW f \in F PROVE ~Precedes(f, f, F)
  BY <1>1, AheadOrders DEF Precedes
<1>3. ASSUME NEW f \in F, NEW g \in F, f # g PROVE Precedes(f, g, F) \/ Precedes(g, f, F)
  BY <1>1, <1>3, AheadOrders DEF Precedes
<1>4. ASSUME NEW f \in F, NEW g \in F, NEW h \in F, Precedes(f, g, F), Precedes(g, h, F)
      PROVE  Precedes(f, h, F)
  <2>0. f \in FactSpace /\ g \in FactSpace /\ h \in FactSpace
    BY DEF FactsApart
  <2>1. Ahead(f, g) /\ Ahead(g, h) => Ahead(f, h)
    BY AheadOrders
  <2>2. CASE Class(f) = Class(g) /\ Class(g) = Class(h)
    BY <1>1, <1>4, <2>1, <2>2 DEF Precedes
  <2>3. CASE Class(f) = Class(g) /\ Class(g) # Class(h)
    <3>1. Ahead(g, h)
      BY <1>4, <2>3 DEF Precedes
    <3>2. Ahead(f, h)
      BY <2>0, <2>3, <3>1, ClassesAreApart
    <3>3. QED
      BY <2>3, <3>2 DEF Precedes
  <2>4. CASE Class(f) # Class(g) /\ Class(g) = Class(h)
    <3>1. Ahead(f, g)
      BY <1>4, <2>4 DEF Precedes
    <3>2. Ahead(f, h)
      BY <2>0, <2>4, <3>1, ClassesAreApart
    <3>3. QED
      BY <2>4, <3>2 DEF Precedes
  <2>5. CASE Class(f) # Class(g) /\ Class(g) # Class(h)
    <3>1. Ahead(f, g) /\ Ahead(g, h)
      BY <1>4, <2>5 DEF Precedes
    <3>2. Ahead(f, h)
      BY <2>1, <3>1
    <3>3. Class(f) # Class(h)
      <4>1. SUFFICES ASSUME Class(f) = Class(h) PROVE FALSE
        OBVIOUS
      <4>2. Ahead(f, g) /\ Ahead(g, f)
        BY <2>0, <2>5, <3>1, <4>1, ClassesAreApart
      <4>3. QED
        BY <4>2, AheadOrders
    <3>4. QED
      BY <3>2, <3>3 DEF Precedes
  <2>6. QED
    BY <2>2, <2>3, <2>4, <2>5
<1>5. QED
  BY <1>2, <1>3, <1>4

\* Each fact has a position of its own, and each position a fact.
LEMMA PositionsApart ==
    ASSUME NEW F, FactsApart(F)
    PROVE  /\ \A f \in F : Position(f, F) \in 1..Cardinality(F)
           /\ \A f, g \in F : f # g => Position(f, F) # Position(g, F)
<1> DEFINE Prior(f) == {g \in F : Precedes(g, f, F)}
<1>0. IsFiniteSet(F) /\ Cardinality(F) \in Nat
  BY FS_CardinalityType DEF FactsApart
<1>1. \A f : /\ Prior(f) \subseteq F /\ IsFiniteSet(Prior(f)) /\ Cardinality(Prior(f)) \in Nat
             /\ Position(f, F) = Cardinality(Prior(f)) + 1
  BY <1>0, FS_Subset, FS_CardinalityType DEF Position
<1>2. ASSUME NEW f \in F PROVE Cardinality(Prior(f)) < Cardinality(F)
  <2>1. f \notin Prior(f)
    BY PrecedesOrders
  <2>2. /\ Cardinality(Prior(f)) <= Cardinality(F)
        /\ Cardinality(F) = Cardinality(Prior(f)) => F = Prior(f)
    BY <1>0, <1>1, FS_Subset
  <2>3. QED
    BY <1>0, <1>1, <2>1, <2>2
<1>3. ASSUME NEW f \in F, NEW g \in F, Precedes(f, g, F)
      PROVE  Cardinality(Prior(f)) < Cardinality(Prior(g))
  <2>1. Prior(f) \subseteq Prior(g)
    BY <1>3, PrecedesOrders
  <2>2. f \in Prior(g) /\ f \notin Prior(f)
    BY <1>3, PrecedesOrders
  <2>3. /\ Cardinality(Prior(f)) <= Cardinality(Prior(g))
        /\ Cardinality(Prior(g)) = Cardinality(Prior(f)) => Prior(g) = Prior(f)
    BY <1>1, <2>1, FS_Subset
  <2>4. QED
    BY <1>1, <2>2, <2>3
<1>4. \A f \in F : Position(f, F) \in 1..Cardinality(F)
  <2> HIDE DEF Prior
  <2>1. QED
    BY <1>0, <1>1, <1>2
<1>5. ASSUME NEW f \in F, NEW g \in F, f # g PROVE Position(f, F) # Position(g, F)
  <2>1. Precedes(f, g, F) \/ Precedes(g, f, F)
    BY <1>5, PrecedesOrders
  <2> HIDE DEF Prior
  <2>2. QED
    BY <1>1, <1>3, <2>1
<1>6. QED
  BY <1>4, <1>5

LEMMA PlacesAreTaken ==
    ASSUME NEW F, FactsApart(F), NEW n \in 1..Cardinality(F)
    PROVE  At(n, F) \in F
<1> DEFINE C == Cardinality(F)
           place == [f \in F |-> Position(f, F)]
<1>0. IsFiniteSet(F) /\ C \in Nat
  BY FS_CardinalityType DEF FactsApart
<1>1. place \in Injection(F, 1..C)
  BY PositionsApart DEF Injection, IsInjective
<1>2. IsFiniteSet(1..C) /\ Cardinality(1..C) = C
  BY <1>0, FS_Interval
<1>3. place \in Surjection(F, 1..C)
  BY <1>0, <1>1, <1>2, FS_Injection
<1>4. \E f \in F : place[f] = n
  BY <1>3 DEF Surjection
<1>5. \E f \in F : Position(f, F) = n
  BY <1>4
<1>6. QED
  BY <1>5 DEF At

-----------------------------------------------------------------------------
(* What is taken is a candidate: the recursion is well founded.            *)

Taking(t, F, most, top) ==
    t = [n \in 0..top |-> IF n = 0 THEN {} ELSE Take(t[n - 1], At(n, F), most)]

LEMMA TakingExists ==
    ASSUME NEW F, NEW most, NEW top \in Nat PROVE \E t : Taking(t, F, most, top)
<1> DEFINE Body(t, n) == IF n = 0 THEN {} ELSE Take(t[n - 1], At(n, F), most)
           Reached(m) == \E t : t = [n \in 0..m |-> Body(t, n)]
           Missing == {m \in Nat : ~Reached(m)}
<1>1. SUFFICES Missing = {}
  BY DEF Missing, Taking
<1>2. SUFFICES ASSUME Missing # {} PROVE FALSE
  OBVIOUS
<1>3. PICK m \in Missing : \A k \in Missing : m <= k
  BY <1>2, LeastNat
<1>4. m \in Nat /\ ~Reached(m)
  BY <1>3
<1>5. CASE m = 0
  <2> DEFINE t == [n \in 0..m |-> {}]
  <2>1. \A n \in 0..m : Body(t, n) = {}
    BY <1>5
  <2>2. t = [n \in 0..m |-> Body(t, n)]
    BY <2>1
  <2>3. QED
    BY <1>4, <2>2
<1>6. CASE m # 0
  <2>1. m - 1 \in Nat /\ m - 1 \notin Missing
    <3> HIDE DEF Missing
    <3>1. QED
      BY <1>3, <1>4, <1>6
  <2>2. PICK s : s = [n \in 0..(m - 1) |-> Body(s, n)]
    BY <2>1
  <2> DEFINE t == [n \in 0..m |-> Body(s, n)]
  <2>3. \A n \in 0..(m - 1) : t[n] = s[n]
    <3> HIDE DEF Body
    <3>1. QED
      BY <1>4, <2>1, <2>2
  <2>4. ASSUME NEW n \in 0..m PROVE Body(t, n) = Body(s, n)
    <3>1. n # 0 => n - 1 \in 0..(m - 1) /\ t[n - 1] = s[n - 1]
      <4> HIDE DEF t
      <4>1. QED
        BY <1>4, <2>3
    <3>2. QED
      BY <3>1
  <2>5. t = [n \in 0..m |-> Body(t, n)]
    BY <2>4
  <2>6. QED
    BY <1>4, <2>5
<1>7. QED
  BY <1>5, <1>6

LEMMA TakenFromCandidates ==
    ASSUME NEW F, FactsApart(F), NEW most
    PROVE  Taken(F, most) \subseteq F
<1> DEFINE C == Cardinality(F)
           Body(t, n) == IF n = 0 THEN {} ELSE Take(t[n - 1], At(n, F), most)
           take == CHOOSE t : Taking(t, F, most, C)
<1>1. C \in Nat
  BY FS_CardinalityType DEF FactsApart
<1>2. take = [n \in 0..C |-> Body(take, n)]
  <2>1. \E t : Taking(t, F, most, C)
    BY <1>1, TakingExists
  <2>2. Taking(take, F, most, C)
    BY <2>1
  <2>3. QED
    BY <2>2 DEF Taking
<1>3. Taken(F, most) = take[C]
  BY DEF Taken, Taking
<1> HIDE DEF take
<1>4. \A n \in 0..C : take[n] \subseteq F
  <2> DEFINE Beyond == {n \in 0..C : ~(take[n] \subseteq F)}
  <2>1. SUFFICES ASSUME Beyond # {} PROVE FALSE
    OBVIOUS
  <2>2. PICK m \in Beyond : \A k \in Beyond : m <= k
    <3>1. Beyond \subseteq Nat
      BY <1>1
    <3> HIDE DEF Beyond
    <3>2. QED
      BY <2>1, <3>1, LeastNat
  <2>3. m \in 0..C /\ ~(take[m] \subseteq F)
    BY <2>2
  <2>4. take[m] = Body(take, m)
    BY <1>2, <2>3
  <2>5. m # 0
    BY <2>3, <2>4
  <2>6. m - 1 \in 0..C /\ m - 1 \notin Beyond /\ m \in 1..C
    BY <1>1, <2>2, <2>3, <2>5
  <2>7. take[m - 1] \subseteq F /\ At(m, F) \in F
    BY <2>6, PlacesAreTaken
  <2>8. take[m] = Take(take[m - 1], At(m, F), most)
    BY <2>4, <2>5
  <2>9. QED
    BY <2>3, <2>7, <2>8 DEF Take
<1>5. QED
  BY <1>1, <1>3, <1>4

-----------------------------------------------------------------------------
(* Removal and refilling.                                                  *)

LEMMA SomeApart ==
    ASSUME NEW F, FactsApart(F), NEW G, G \subseteq F PROVE FactsApart(G)
BY FS_Subset DEF FactsApart

LEMMA ShownApart ==
    ASSUME shown.facts \in FactPool
    PROVE  /\ FactsApart(shown.facts) /\ FactsApart(Candidates(shown.facts))
           /\ Candidates(shown.facts) \subseteq shown.facts
<1>1. FactsApart(shown.facts)
  BY PacketAssumption DEF FactsApart
<1>2. Candidates(shown.facts) \subseteq shown.facts
  BY DEF Candidates, Representatives
<1>3. QED
  BY <1>1, <1>2, SomeApart

\* There is one last fact among some.
LEMMA LastIsOne ==
    ASSUME shown.facts \in FactPool, NEW S, S \subseteq Candidates(shown.facts),
           NEW f \in LastOf(S), NEW g \in LastOf(S)
    PROVE  f = g
<1> DEFINE F == Candidates(shown.facts)
<1>1. FactsApart(F) /\ f \in F /\ g \in F
  BY ShownApart DEF LastOf
<1>2. Position(f, F) \in Int /\ Position(g, F) \in Int
  BY <1>1, PositionsApart, FS_CardinalityType DEF FactsApart
<1>3. Position(f, F) >= Position(g, F) /\ Position(g, F) >= Position(f, F)
  BY DEF LastOf
<1>4. Position(f, F) = Position(g, F)
  BY <1>2, <1>3
<1>5. QED
  BY <1>1, <1>4, PositionsApart

\* A candidate left out comes back, and is no longer named.
LEMMA RefillMeans ==
    ASSUME shown.facts \in FactPool, NEW d, Refills(d) # {}
    PROVE  \E f \in Candidates(shown.facts) :
              Refill(d) = [d EXCEPT !.facts = @ \cup {f}, !.omitted = @ \ {f}]
<1> DEFINE F == Candidates(shown.facts)
           Places == {Position(f, F) : f \in Refills(d)}
<1>1. FactsApart(F) /\ Refills(d) \subseteq F
  BY ShownApart DEF Refills
<1>2. \A f \in F : Position(f, F) \in Nat
  BY <1>1, PositionsApart, FS_CardinalityType DEF FactsApart
<1>3. Places \subseteq Nat /\ Places # {}
  BY <1>1, <1>2
<1>4. PICK m \in Places : \A n \in Places : m <= n
  BY <1>3, LeastNat
<1>5. \E f \in Refills(d) : \A g \in Refills(d) : Position(f, F) <= Position(g, F)
  BY <1>4
<1> DEFINE least == CHOOSE f \in Refills(d) : \A g \in Refills(d) :
                       Position(f, F) <= Position(g, F)
<1>6. least \in Refills(d)
  BY <1>5
<1>7. Refill(d) = [d EXCEPT !.facts = @ \cup {least}, !.omitted = @ \ {least}]
  BY DEF Refill
<1>8. QED
  BY <1>1, <1>6, <1>7

\* A redundant metric leaves every factor to the others.
LEMMA RedundantLeavesFactors ==
    ASSUME NEW d, NEW f \in Redundant(d)
    PROVE  Factors(d.facts) \subseteq Factors(d.facts \ {f})
BY DEF Redundant, Factors

\* What is not a metric has no factor to leave.
LEMMA OthersLeaveFactors ==
    ASSUME NEW F, NEW S, \A f \in S : f.kind # "continuous"
    PROVE  Factors(F) \subseteq Factors(F \ S)
BY DEF Factors

Whole(d) ==
    d = [facts |-> d.facts, events |-> d.events, omitted |-> d.omitted, lost |-> d.lost]

\* Removal takes no direct input, and without a previous context no factor.
LEMMA TrimKeeps ==
    ASSUME shown.facts \in FactPool, Whole(draft),
           draft.facts \subseteq Candidates(shown.facts), draft.events \subseteq shown.events,
           draft.omitted = shown.facts \ draft.facts, draft.lost = shown.events \ draft.events
    PROVE  LET d == TrimOne(draft) IN
           /\ Whole(d)
           /\ d.facts \subseteq draft.facts /\ d.events \subseteq draft.events
           /\ d.omitted = shown.facts \ d.facts /\ d.lost = shown.events \ d.events
           /\ \A f \in draft.facts : f.direct => f \in d.facts
           /\ \A e \in draft.events : e.direct => e \in d.events
           /\ context = 0 => Factors(draft.facts) \subseteq Factors(d.facts)
<1> DEFINE d == TrimOne(draft)
<1>0. /\ draft.facts \subseteq shown.facts
      /\ \A f \in draft.facts : f.direct \in BOOLEAN
  BY ShownApart DEF FactsApart, FactSpace
<1>1. ASSUME NEW S, S \subseteq draft.facts, \A f \in S : ~f.direct,
             d = WithoutFact(draft, S),
             context = 0 => Factors(draft.facts) \subseteq Factors(draft.facts \ S)
      PROVE  /\ Whole(d)
             /\ d.facts \subseteq draft.facts /\ d.events \subseteq draft.events
             /\ d.omitted = shown.facts \ d.facts /\ d.lost = shown.events \ d.events
             /\ \A f \in draft.facts : f.direct => f \in d.facts
             /\ \A e \in draft.events : e.direct => e \in d.events
             /\ context = 0 => Factors(draft.facts) \subseteq Factors(d.facts)
  <2>1. d = [facts |-> draft.facts \ S, events |-> draft.events,
             omitted |-> draft.omitted \cup S, lost |-> draft.lost]
    BY <1>1 DEF WithoutFact, Whole
  <2>2. /\ d.facts = draft.facts \ S /\ d.events = draft.events
        /\ d.omitted = draft.omitted \cup S /\ d.lost = draft.lost /\ Whole(d)
    BY <2>1 DEF Whole
  <2> HIDE DEF d
  <2>3. QED
    BY <1>0, <1>1, <2>2
<1>2. ASSUME NEW S, S \subseteq draft.events, \A e \in S : ~e.direct,
             d = WithoutEvent(draft, S)
      PROVE  /\ Whole(d)
             /\ d.facts \subseteq draft.facts /\ d.events \subseteq draft.events
             /\ d.omitted = shown.facts \ d.facts /\ d.lost = shown.events \ d.events
             /\ \A f \in draft.facts : f.direct => f \in d.facts
             /\ \A e \in draft.events : e.direct => e \in d.events
             /\ context = 0 => Factors(draft.facts) \subseteq Factors(d.facts)
  <2>1. d = [facts |-> draft.facts, events |-> draft.events \ S,
             omitted |-> draft.omitted, lost |-> draft.lost \cup S]
    BY <1>2 DEF WithoutEvent, Whole
  <2>2. /\ d.facts = draft.facts /\ d.events = draft.events \ S
        /\ d.omitted = draft.omitted /\ d.lost = draft.lost \cup S /\ Whole(d)
    BY <2>1 DEF Whole
  <2> HIDE DEF d
  <2>3. QED
    BY <1>2, <2>2
<1>3. CASE Passing(draft) # {}
  <2>1. d = WithoutFact(draft, LastOf(Passing(draft)))
    BY <1>3 DEF TrimOne
  <2>2. /\ LastOf(Passing(draft)) \subseteq draft.facts
        /\ \A f \in LastOf(Passing(draft)) : ~f.direct /\ f.kind # "continuous"
    BY DEF LastOf, Passing
  <2>3. Factors(draft.facts) \subseteq Factors(draft.facts \ LastOf(Passing(draft)))
    BY <2>2, OthersLeaveFactors
  <2>4. QED
    BY <1>1, <2>1, <2>2, <2>3
<1>4. CASE Passing(draft) = {} /\ PassingEvents(draft) # {}
  <2>1. d = WithoutEvent(draft, LastEvent(PassingEvents(draft)))
    BY <1>4 DEF TrimOne
  <2>2. /\ LastEvent(PassingEvents(draft)) \subseteq draft.events
        /\ \A e \in LastEvent(PassingEvents(draft)) : ~e.direct
    BY DEF LastEvent, PassingEvents
  <2>3. QED
    BY <1>2, <2>1, <2>2
<1>5. CASE Passing(draft) = {} /\ PassingEvents(draft) = {} /\ Redundant(draft) # {}
  <2> DEFINE S == LastOf(Redundant(draft))
  <2>1. d = WithoutFact(draft, S)
    BY <1>5 DEF TrimOne
  <2>2. /\ S \subseteq Redundant(draft) /\ Redundant(draft) \subseteq draft.facts
        /\ \A f \in S : ~f.direct
    BY DEF LastOf, Redundant
  <2>3. Factors(draft.facts) \subseteq Factors(draft.facts \ S)
    <3>1. CASE S = {}
      <4>1. draft.facts \ S = draft.facts
        BY <3>1
      <4>2. QED
        BY <4>1
    <3>2. CASE S # {}
      <4>1. PICK f \in S : TRUE
        BY <3>2
      <4>2. \A g \in S : g = f
        BY <2>2, <4>1, LastIsOne
      <4>3. S = {f}
        BY <4>1, <4>2
      <4>4. f \in Redundant(draft)
        BY <2>2, <4>1
      <4>5. Factors(draft.facts) \subseteq Factors(draft.facts \ {f})
        BY <4>4, RedundantLeavesFactors
      <4>6. QED
        BY <4>3, <4>5
    <3>3. QED
      BY <3>1, <3>2
  <2> HIDE DEF S
  <2>4. QED
    BY <1>1, <2>1, <2>2, <2>3
<1>6. CASE Passing(draft) = {} /\ PassingEvents(draft) = {} /\ Redundant(draft) = {}
  <2> DEFINE S == LastOf(Inherited(draft))
  <2>1. d = WithoutFact(draft, S)
    BY <1>6 DEF TrimOne
  <2>2. S \subseteq Inherited(draft)
    BY DEF LastOf
  <2>3. S \subseteq draft.facts /\ \A f \in S : ~f.direct
    BY <2>2 DEF Inherited
  <2>4. context = 0 => S = {}
    BY <2>2 DEF Inherited
  <2>5. context = 0 => Factors(draft.facts) \subseteq Factors(draft.facts \ S)
    <3>1. SUFFICES ASSUME context = 0 PROVE Factors(draft.facts) \subseteq Factors(draft.facts \ S)
      OBVIOUS
    <3>2. draft.facts \ S = draft.facts
      BY <2>4, <3>1
    <3>3. QED
      BY <3>2
  <2> HIDE DEF S
  <2>6. QED
    BY <1>1, <2>1, <2>3, <2>5
<1>7. QED
  BY <1>3, <1>4, <1>5, <1>6

LEMMA InitPacket == PacketInit => PacketInvariant
BY DEF PacketInit, PacketInvariant

\* Every step keeps the invariant of the packet.
LEMMA StepPacket == PacketInvariant /\ [PacketNext]_packetVars => PacketInvariant'
<1> SUFFICES ASSUME PacketInvariant, [PacketNext]_packetVars PROVE PacketInvariant'
  OBVIOUS
<1>0. PICK all, able, most : /\ all = shown.facts /\ able = shown.events /\ most = limit
                             /\ all \in FactPool /\ able \in EventPool
                             /\ shown = [facts |-> all, events |-> able]
  BY DEF PacketInvariant
<1> DEFINE F == Candidates(all)
           base == Factors(Taken(F, most))
<1>01. FactsApart(all) /\ FactsApart(F) /\ F \subseteq all
  BY <1>0, ShownApart
<1>02. ASSUME shown' = shown, limit' = limit, NEW d, draft' = d, Whole(d),
              d.facts \subseteq F, d.events \subseteq able,
              d.omitted = all \ d.facts, d.lost = able \ d.events,
              step' \in {"select", "fit", "ready", "verify", "verified", "refused"},
              step' \notin {"select", "refused"} =>
                 /\ {f \in all : f.direct} \subseteq d.facts
                 /\ {e \in able : e.direct} \subseteq d.events
                 /\ context' = 0 => base \subseteq Factors(d.facts)
       PROVE  PacketInvariant'
  <2>1. shown'.facts = all /\ shown'.events = able /\ limit' = most
    BY <1>0, <1>02
  <2>2. Candidates(shown.facts)' = F
    BY <2>1
  <2>3. Factors(Taken(Candidates(shown.facts), limit))' = base
    BY <2>1
  <2>4. Factors(draft.facts)' = Factors(d.facts)
    BY <1>02
  <2>5. QED
    BY <1>0, <1>02, <2>1, <2>2, <2>3, <2>4 DEF PacketInvariant, Whole
<1>1. CASE Select
  <2> DEFINE taken == Taken(F, most)
             heeded == TakenEvents
             d == [facts |-> taken, events |-> heeded,
                   omitted |-> all \ taken, lost |-> able \ heeded]
  <2>1. /\ shown' = shown /\ limit' = limit /\ draft' = d /\ step' \in {"refused", "fit"}
        /\ step' = "fit" => /\ ~\E f \in all \ taken : f.direct
                            /\ ~\E e \in able \ heeded : RequiredEvent(e)
    BY <1>0, <1>1 DEF Select
  <2>2. taken \subseteq F
    BY <1>01, TakenFromCandidates
  <2>3. heeded \subseteq able
    BY <1>0 DEF TakenEvents
  <2>4. step' = "fit" => /\ {f \in all : f.direct} \subseteq taken
                         /\ {e \in able : e.direct} \subseteq heeded
    BY <2>1 DEF RequiredEvent
  <2>5. /\ Whole(d) /\ d.facts = taken /\ d.events = heeded
        /\ d.omitted = all \ taken /\ d.lost = able \ heeded
    BY DEF Whole
  <2> HIDE DEF d, heeded, taken
  <2>6. step' \notin {"select", "refused"} =>
                 /\ {f \in all : f.direct} \subseteq d.facts
                 /\ {e \in able : e.direct} \subseteq d.events
    BY <2>1, <2>4, <2>5
  <2>7. base \subseteq Factors(d.facts)
    BY <2>5 DEF taken
  <2>8. QED
    BY <1>02, <2>1, <2>2, <2>3, <2>5, <2>6, <2>7
<1>2. ASSUME step # "select"
      PROVE  /\ Whole(draft) /\ draft.facts \subseteq F /\ draft.events \subseteq able
             /\ draft.omitted = all \ draft.facts /\ draft.lost = able \ draft.events
             /\ step # "refused" =>
                 /\ {f \in all : f.direct} \subseteq draft.facts
                 /\ {e \in able : e.direct} \subseteq draft.events
                 /\ context = 0 => base \subseteq Factors(draft.facts)
  BY <1>0, <1>2 DEF PacketInvariant, Whole
<1>3. ASSUME step \in {"fit", "verify"}, draft' = TrimOne(draft),
             step' = IF draft' = draft THEN "refused" ELSE step,
             UNCHANGED <<shown, limit, context>>
      PROVE  PacketInvariant'
  <2> DEFINE d == TrimOne(draft)
  <2>1. /\ Whole(d)
        /\ d.facts \subseteq draft.facts /\ d.events \subseteq draft.events
        /\ d.omitted = all \ d.facts /\ d.lost = able \ d.events
        /\ \A f \in draft.facts : f.direct => f \in d.facts
        /\ \A e \in draft.events : e.direct => e \in d.events
        /\ context = 0 => Factors(draft.facts) \subseteq Factors(d.facts)
    BY <1>0, <1>2, <1>3, TrimKeeps
  <2> HIDE DEF d
  <2>2. draft' = d /\ step' \in {"fit", "verify", "refused"} /\ context' = context
    BY <1>3 DEF d
  <2>3. step # "select" /\ step # "refused"
    BY <1>3
  <2>4. /\ {f \in all : f.direct} \subseteq d.facts
        /\ {e \in able : e.direct} \subseteq d.events
        /\ context' = 0 => base \subseteq Factors(d.facts)
    BY <1>2, <2>1, <2>2, <2>3
  <2>5. QED
    BY <1>02, <1>2, <1>3, <2>1, <2>2, <2>3, <2>4
<1>4. ASSUME step \in {"fit", "ready", "verify"},
             step' \in {"ready", "verify", "verified"}, draft' = draft,
             shown' = shown, limit' = limit, context' = context \/ context' # 0
      PROVE  PacketInvariant'
  <2>1. step # "select" /\ step # "refused"
    BY <1>4
  <2>2. context' = 0 => base \subseteq Factors(draft.facts)
    BY <1>2, <1>4, <2>1
  <2>3. QED
    BY <1>02, <1>2, <1>4, <2>1, <2>2
<1>5. CASE Fit
  <2>1. step = "fit" /\ UNCHANGED <<shown, limit, context>>
    BY <1>5 DEF Fit
  <2>2. CASE Fits(draft) /\ Refills(draft) # {}
    <3>1. draft' = Refill(draft) /\ step' = step
      BY <1>5, <2>2 DEF Fit
    <3>2. PICK f \in F : Refill(draft) = [draft EXCEPT !.facts = @ \cup {f}, !.omitted = @ \ {f}]
      BY <1>0, <2>2, RefillMeans
    <3> DEFINE d == Refill(draft)
    <3>3. d = [facts |-> draft.facts \cup {f}, events |-> draft.events,
               omitted |-> draft.omitted \ {f}, lost |-> draft.lost]
      BY <1>2, <2>1, <3>2 DEF Whole
    <3>4. /\ Whole(d) /\ d.facts = draft.facts \cup {f} /\ d.events = draft.events
          /\ d.omitted = draft.omitted \ {f} /\ d.lost = draft.lost
      BY <3>3 DEF Whole
    <3> HIDE DEF d
    <3>5. Factors(draft.facts) \subseteq Factors(d.facts)
      BY <3>4 DEF Factors
    <3>6. draft' = d /\ context' = context
      BY <2>1, <3>1 DEF d
    <3>7. /\ d.facts \subseteq F /\ d.events \subseteq able
          /\ d.omitted = all \ d.facts /\ d.lost = able \ d.events
          /\ {g \in all : g.direct} \subseteq d.facts
          /\ {e \in able : e.direct} \subseteq d.events
          /\ context' = 0 => base \subseteq Factors(d.facts)
      BY <1>2, <2>1, <3>4, <3>5, <3>6
    <3>8. QED
      BY <1>02, <2>1, <3>1, <3>4, <3>6, <3>7
  <2>3. CASE Fits(draft) /\ Refills(draft) = {}
    BY <1>4, <1>5, <2>1, <2>3 DEF Fit
  <2>4. CASE ~Fits(draft)
    BY <1>3, <1>5, <2>1, <2>4 DEF Fit
  <2>5. QED
    BY <2>2, <2>3, <2>4
<1>6. CASE VerifyContext
  BY <1>4, <1>6 DEF VerifyContext
<1>7. CASE Refit
  <2>1. CASE Fits(draft)
    BY <1>4, <1>7, <2>1 DEF Refit
  <2>2. CASE ~Fits(draft)
    BY <1>3, <1>7, <2>2 DEF Refit
  <2>3. QED
    BY <2>1, <2>2
<1>8. CASE UNCHANGED packetVars
  <2>1. /\ shown' = shown /\ limit' = limit /\ context' = context /\ draft' = draft
        /\ step' = step
    BY <1>8 DEF packetVars
  <2>2. QED
    BY <2>1 DEF PacketInvariant
<1>9. QED
  BY <1>1, <1>5, <1>6, <1>7, <1>8 DEF PacketNext

THEOREM PacketSafe == PacketSpec => []PacketInvariant
BY InitPacket, StepPacket, PTL DEF PacketSpec

(* A packet handed to an analysis holds all a trigger points to, names what *)
(* it leaves out, and without a previous context keeps the risk factors of  *)
(* all metrics selected, however often it was trimmed and refilled.         *)
THEOREM BaselinesAreKept == PacketSpec => []PacketKeepsItsBaseline
<1>1. PacketInvariant => PacketKeepsItsBaseline
  BY DEF PacketInvariant, PacketKeepsItsBaseline
<1>2. QED
  BY <1>1, PacketSafe, PTL
=============================================================================
