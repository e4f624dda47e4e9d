----------------------------- MODULE PacketSelection -----------------------------
(***************************************************************************)
(* What an analysis is shown (state/decision/packet.py): the facts and     *)
(* events selected under the limits of a packet, the removal of the least  *)
(* valuable while the projection is too long, the facts put back while it  *)
(* has room, and the removal once more when the previous context, with its *)
(* verified observations, has grown.                                       *)
(*                                                                         *)
(* A fact is what the rules tell apart, and a number that stands for the   *)
(* rest of its rank.  A size is counted in units.                          *)
(***************************************************************************)
EXTENDS Integers, FiniteSets, FiniteSetsExt

CONSTANTS Limits,      \* [facts, raw, events, packet]: the limits of the policy
          FactPool,    \* sets of facts a state may show
          EventPool    \* sets of events

\* kind: "continuous" metrics, "calendar" of operations, "policy" stance,
\* "fresh" and "old" others.  A channel is the set of its risk factors.
FactSpace  == [id : Nat, kind : {"continuous", "calendar", "policy", "fresh", "old"},
               direct : BOOLEAN, candidate : BOOLEAN, channel : SUBSET {1, 2}]
EventSpace == [id : Nat, direct : BOOLEAN, retained : BOOLEAN, strong : BOOLEAN]

\* The facts of a state are finitely many, each with an identity of its own.
ASSUME PacketAssumption ==
    /\ \A F \in FactPool : /\ IsFiniteSet(F) /\ F \subseteq FactSpace
                           /\ \A f, g \in F : f.id = g.id => f = g
    /\ \A E \in EventPool : E \subseteq EventSpace

VARIABLES shown, limit, context, draft, step

packetVars == <<shown, limit, context, draft, step>>

NoDraft == [facts |-> {}, events |-> {}, omitted |-> {}, lost |-> {}]

-----------------------------------------------------------------------------
(* Selection.                                                              *)

Eligible(f) == f.direct \/ f.candidate \/ f.kind # "old"

\* The order of the candidates: direct, candidate, their channel by the factor
\* the mandate names first and then as a list, their kind, and the rest.
Rank(f) ==
    <<IF f.direct THEN 0 ELSE 1, IF f.candidate THEN 0 ELSE 1,
      CASE f.channel = {1} -> 1 [] f.channel = {1, 2} -> 2 [] f.channel = {2} -> 3
        [] OTHER -> 4,
      CASE f.kind = "continuous" -> 1 [] f.kind = "policy" -> 2
        [] f.kind = "calendar" -> 3 [] OTHER -> 4,
      f.id>>
Ahead(f, g) ==
    \E i \in 1..5 : /\ Rank(f)[i] < Rank(g)[i]
                    /\ \A j \in 1..(i - 1) : Rank(f)[j] = Rank(g)[j]

\* One fact of a type stands for the others that no trigger asks for.
Collapsible(f) == ~f.direct /\ (f.kind \in {"calendar", "policy"} \/ f.candidate)
Representatives(F) ==
    {f \in F : Collapsible(f) =>
        ~\E g \in F : Collapsible(g) /\ g.kind = f.kind /\ Ahead(g, f)}

\* Within a class, every channel once before any of them again.
Class(f)    == <<f.direct, f.candidate>>
Round(f, F) == Cardinality({g \in F : Class(g) = Class(f) /\ g.channel = f.channel
                                      /\ Ahead(g, f)})
Precedes(f, g, F) ==
    \/ Class(f) # Class(g) /\ Ahead(f, g)
    \/ /\ Class(f) = Class(g)
       /\ \/ Round(f, F) < Round(g, F)
          \/ Round(f, F) = Round(g, F) /\ Ahead(f, g)

Candidates(F) == Representatives({f \in F : Eligible(f)})
Position(f, F) == Cardinality({g \in F : Precedes(g, f, F)}) + 1
At(n, F) == CHOOSE f \in F : Position(f, F) = n

RawCost(f)  == 2
SlimCost(f) == IF f.kind = "continuous" THEN 1 ELSE 2

\* The candidates taken in order while they fit.
Take(before, f, most) ==
    IF \/ Cardinality(before) >= most.facts
       \/ MapThenSumSet(RawCost, before) + RawCost(f) > most.raw
    THEN before ELSE before \cup {f}
Taken(F, most) ==
    LET take[n \in 0..Cardinality(F)] ==
          IF n = 0 THEN {} ELSE Take(take[n - 1], At(n, F), most)
    IN  take[Cardinality(F)]

RequiredEvent(e) == e.direct \/ e.retained
EventKey(e) == (IF e.direct THEN 0 ELSE 100) + (IF e.retained THEN 0 ELSE 50) + e.id
TakenEvents ==
    LET able == {e \in shown.events : RequiredEvent(e) \/ e.strong}
    IN  {e \in able : Cardinality({g \in able : EventKey(g) < EventKey(e)}) < limit.events}

-----------------------------------------------------------------------------
(* The length of the projection, and what may be removed from it.          *)

Size(d) == 1 + context + MapThenSumSet(SlimCost, d.facts) + Cardinality(d.events)
Fits(d) == Size(d) <= limit.packet

LastOf(S) == {f \in S : \A g \in S : Position(f, Candidates(shown.facts))
                                    >= Position(g, Candidates(shown.facts))}
LastEvent(S) == {e \in S : \A g \in S : EventKey(e) >= EventKey(g)}

\* The risk factors of the metrics.
Factors(F) == UNION {f.channel : f \in {g \in F : g.kind = "continuous"}}

Passing(d) == {f \in d.facts : ~f.direct /\ f.kind \notin {"continuous", "policy"}}
PassingEvents(d) == {e \in d.events : ~e.direct}

\* Mutant of Redundant: any input may take a channel over.
RedundantInAny(d) ==
    {f \in d.facts : /\ ~f.direct /\ f.kind = "continuous"
                     /\ f.channel \subseteq UNION {g.channel : g \in d.facts \ {f}}}

Redundant(d) ==
    {f \in d.facts : /\ ~f.direct /\ f.kind = "continuous" /\ f.channel # {}
                     /\ f.channel \subseteq Factors(d.facts \ {f})}

Inherited(d) == IF context > 0 THEN {f \in d.facts : ~f.direct /\ f.kind = "continuous"} ELSE {}

WithoutFact(d, S)  == [d EXCEPT !.facts = @ \ S, !.omitted = @ \cup S]
WithoutEvent(d, S) == [d EXCEPT !.events = @ \ S, !.lost = @ \cup S]

\* The first kind of input there is, its lowest; the draft itself if none.
TrimOne(d) ==
    CASE Passing(d) # {}       -> WithoutFact(d, LastOf(Passing(d)))
      [] Passing(d) = {} /\ PassingEvents(d) # {} -> WithoutEvent(d, LastEvent(PassingEvents(d)))
      [] Passing(d) = {} /\ PassingEvents(d) = {} /\ Redundant(d) # {}
                               -> WithoutFact(d, LastOf(Redundant(d)))
      [] OTHER                 -> WithoutFact(d, LastOf(Inherited(d)))

\* The first continuous candidate left out that the projection has room for.
Refills(d) ==
    {f \in Candidates(shown.facts) \ d.facts :
        /\ Cardinality(d.facts) < limit.facts
        /\ f.kind = "continuous"
        /\ Fits([d EXCEPT !.facts = @ \cup {f}])}
Refill(d) ==
    LET f == CHOOSE f \in Refills(d) : \A g \in Refills(d) :
                Position(f, Candidates(shown.facts)) <= Position(g, Candidates(shown.facts))
    IN  [d EXCEPT !.facts = @ \cup {f}, !.omitted = @ \ {f}]

-----------------------------------------------------------------------------
PacketTypeOK ==
    /\ shown.facts \in FactPool /\ shown.facts \subseteq FactSpace
    /\ shown.events \in EventPool /\ shown.events \subseteq EventSpace
    /\ limit \in Limits /\ context \in 0..2
    /\ step \in {"select", "fit", "ready", "verify", "verified", "refused"}
    /\ draft.facts \cup draft.omitted \subseteq shown.facts
    /\ draft.events \cup draft.lost \subseteq shown.events

PacketInit ==
    /\ shown \in [facts : FactPool, events : EventPool]
    /\ limit \in Limits
    /\ context \in {0, 1}
    /\ draft = NoDraft /\ step = "select"

\* Required input over a limit refuses the packet.
Select ==
    LET facts  == Taken(Candidates(shown.facts), limit)
        events == TakenEvents
    IN  /\ step = "select"
        /\ draft' = [facts |-> facts, events |-> events,
                     omitted |-> shown.facts \ facts, lost |-> shown.events \ events]
        /\ step' = IF \/ \E f \in shown.facts \ facts : f.direct
                      \/ \E e \in shown.events \ events : RequiredEvent(e)
                   THEN "refused" ELSE "fit"
        /\ UNCHANGED <<shown, limit, context>>

Fit ==
    /\ step = "fit"
    /\ IF Fits(draft)
       THEN IF Refills(draft) # {} THEN draft' = Refill(draft) /\ UNCHANGED step
            ELSE step' = "ready" /\ UNCHANGED draft
       ELSE /\ draft' = TrimOne(draft)
            /\ step' = IF draft' = draft THEN "refused" ELSE step
    /\ UNCHANGED <<shown, limit, context>>

\* The verified context may be longer than the one the packet was fit to.
VerifyContext ==
    /\ step = "ready" /\ context > 0
    /\ context' \in {1, 2}
    /\ step' = "verify"
    /\ UNCHANGED <<shown, limit, draft>>

Refit ==
    /\ step = "verify"
    /\ IF Fits(draft) THEN step' = "verified" /\ UNCHANGED draft
       ELSE /\ draft' = TrimOne(draft)
            /\ step' = IF draft' = draft THEN "refused" ELSE step
    /\ UNCHANGED <<shown, limit, context>>

PacketNext == Select \/ Fit \/ VerifyContext \/ Refit

PacketSpec == PacketInit /\ [][PacketNext]_packetVars

-----------------------------------------------------------------------------
(* Whatever had to be removed and put back: a packet that is handed to an  *)
(* analysis holds all a trigger points to; every other input is in it or   *)
(* is named as omitted, never both; and without a previous context to      *)
(* carry them, all the risk factors of the metrics selected are still in.  *)
PacketKeepsItsBaseline ==
    step \in {"ready", "verified"} =>
        /\ {f \in shown.facts : f.direct} \subseteq draft.facts
        /\ {e \in shown.events : e.direct} \subseteq draft.events
        /\ draft.omitted = shown.facts \ draft.facts
        /\ draft.lost = shown.events \ draft.events
        /\ context = 0 => Factors(Taken(Candidates(shown.facts), limit)) \subseteq Factors(draft.facts)

(* Why it does: the inductive invariant.  What is in the packet was a       *)
(* candidate, what is not is named, and no removal took what it must keep. *)
PacketInvariant ==
    /\ shown = [facts |-> shown.facts, events |-> shown.events]
    /\ shown.facts \in FactPool /\ shown.events \in EventPool
    /\ step \in {"select", "fit", "ready", "verify", "verified", "refused"}
    /\ step # "select" =>
          /\ draft = [facts |-> draft.facts, events |-> draft.events,
                      omitted |-> draft.omitted, lost |-> draft.lost]
          /\ draft.facts \subseteq Candidates(shown.facts)
          /\ draft.events \subseteq shown.events
          /\ draft.omitted = shown.facts \ draft.facts
          /\ draft.lost = shown.events \ draft.events
    /\ step \notin {"select", "refused"} =>
          /\ {f \in shown.facts : f.direct} \subseteq draft.facts
          /\ {e \in shown.events : e.direct} \subseteq draft.events
          /\ context = 0 =>
                Factors(Taken(Candidates(shown.facts), limit)) \subseteq Factors(draft.facts)

\* NOT an invariant: an event the previous context still holds active stays
\* in the packet.  Selection requires it, removal does not know it.
RetainedEventsStay ==
    step \in {"ready", "verified"} => {e \in shown.events : e.retained} \subseteq draft.events
=============================================================================
