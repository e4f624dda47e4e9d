---------------------------- MODULE ProductForecast ----------------------------
(***************************************************************************)
(* The product payoff projections of a forecast:                           *)
(*   forecast/product/projector.py, models.py   the projection itself      *)
(*   forecast/product/repository.py             its immutable record       *)
(*   forecast/product/settlement.py             the settlement             *)
(*   forecast/product/evaluation.py             the mapping evidence       *)
(*                                                                         *)
(* One perpetual, whose funding is settled at the multiples of Interval,    *)
(* is projected in every direction at once.  The product quote, the market  *)
(* state and the spot quote have one maximum age and are one feed here; the *)
(* product rules have their own.  Prices and rates are left out: of a       *)
(* projection stay its times and the fundings it expects.                  *)
(***************************************************************************)
EXTENDS Naturals, FiniteSets, Functions

CONSTANTS Sources,      \* persisted base forecasts
          Available,    \* forecast -> time it became available
          HorizonEnd,   \* forecast -> end of its economic horizon
          Cutoff,       \* forecast -> its information cutoff
          Directions,   \* of a target, in the order of the target ids
          Interval,     \* hours between fundings
          MaxAge,       \* maximum age of the market feed
          MaxRuleAge,   \* maximum age of the product rules
          MaxGap,       \* maximum gap between the fundings of an outcome
          Grace,        \* settlement grace
          BatchSize,    \* projections a settlement takes at once
          MaxDecisions, \* bound of the decisions on one forecast
          LastTime      \* bound of the time

ASSUME ProductAssumption ==
    /\ Available \in [Sources -> Nat] /\ Cutoff \in [Sources -> Nat]
    /\ HorizonEnd \in [Sources -> Nat]
    /\ \A f \in Sources : Cutoff[f] <= Available[f] /\ Available[f] < HorizonEnd[f]
    /\ {Interval, MaxAge, MaxRuleAge, MaxGap, BatchSize, MaxDecisions} \subseteq Nat \ {0}
    /\ {Grace, LastTime} \subseteq Nat
    /\ Directions = 1..Cardinality(Directions) /\ IsFiniteSet(Directions) /\ Directions # {}

VARIABLES hour,       \* the time
          heard,      \* feed -> time of its latest observation
          funded,     \* fundings stored
          decision,   \* the projections being recorded
          projected,  \* the projections recorded
          terminal,   \* projection -> its terminal status
          pass        \* the settlement in progress

productVars == <<hour, heard, funded, decision, projected, terminal, pass>>

Hours    == 0..LastTime
Fundings == {t \in Hours \ {0} : t % Interval = 0}
Feeds    == {"market", "rules"}
NoDecision == [pc |-> "rest", todo |-> {}]
NoPass     == [pc |-> "rest", asof |-> 0, todo |-> {}, overdue |-> {}, ended |-> 0]

ProductTypeOK ==
    /\ hour \in Hours
    /\ heard \in [Feeds -> Hours]
    /\ funded \subseteq Fundings
    /\ \A p \in projected \cup decision.todo :
          /\ p.source \in Sources /\ p.direction \in Directions
          /\ Available[p.source] <= p.at /\ p.at < p.until
          /\ p.until <= HorizonEnd[p.source]
    /\ DOMAIN terminal \subseteq projected
    /\ pass.todo \subseteq projected \ DOMAIN terminal

ProductInit ==
    /\ hour = 0
    /\ heard = [d \in Feeds |-> 0]
    /\ funded = {}
    /\ decision = NoDecision
    /\ projected = {}
    /\ terminal = << >>
    /\ pass = NoPass

Earliest(S) == CHOOSE t \in S : \A u \in S : t <= u
LatestOf(S) == CHOOSE t \in S : \A u \in S : u <= t

-----------------------------------------------------------------------------
(* The market of the product.                                              *)

HourPasses ==
    /\ hour < LastTime
    /\ hour' = hour + 1
    /\ UNCHANGED <<heard, funded, decision, projected, terminal, pass>>

Observe(feed) ==
    /\ heard' = [heard EXCEPT ![feed] = hour]
    /\ UNCHANGED <<hour, funded, decision, projected, terminal, pass>>

\* A settled funding reaches the database late or never.
StoreFunding ==
    /\ \E t \in Fundings \ funded : t <= hour /\ funded' = funded \cup {t}
    /\ UNCHANGED <<hour, heard, decision, projected, terminal, pass>>

-----------------------------------------------------------------------------
(* The projection.                                                         *)

\* The interval a decision has: of the rules, or that between the last three
\* fundings stored; none when there is neither or these are uneven.  (A funding
\* missing among the three so that they stay even is left out.)
Unknown == 0
KnownIntervals == {Interval, Unknown}

\* What the latest market state said of the next funding.
SaidNext == Interval * (heard["market"] \div Interval + 1)

\* Mutant of NextFunding: the market state is taken as it is.
NextFundingAsSaid(interval) == SaidNext

\* The next funding, rolled on past the decision when the state is behind.
NextFunding(interval) ==
    IF interval # Unknown /\ SaidNext <= hour
    THEN SaidNext + interval * ((hour - SaidNext) \div interval + 1)
    ELSE SaidNext

Expected(f, interval) ==
    IF NextFunding(interval) > HorizonEnd[f] THEN 0
    ELSE (HorizonEnd[f] - NextFunding(interval)) \div interval + 1

Fresh == hour - heard["market"] < MaxAge /\ hour - heard["rules"] < MaxRuleAge

\* The market, the rules and, for a funding ahead, its interval.
Projectable(f, interval) ==
    /\ Available[f] <= hour /\ hour < HorizonEnd[f]
    /\ Fresh
    /\ SaidNext <= HorizonEnd[f] => interval # Unknown

ValidUntil(f) ==
    Earliest({heard["market"] + MaxAge, heard["rules"] + MaxRuleAge, HorizonEnd[f]})

Project(f) ==
    /\ decision = NoDecision
    /\ Cardinality({p.at : p \in {q \in projected : q.source = f}} \ {hour}) < MaxDecisions
    /\ \E interval \in KnownIntervals :
         /\ Projectable(f, interval)
         /\ decision' = [pc |-> "record",
                         todo |-> {[source |-> f, at |-> hour, direction |-> d,
                                    until |-> ValidUntil(f),
                                    fundings |-> Expected(f, interval)] :
                                   d \in Directions}]
    /\ UNCHANGED <<hour, heard, funded, projected, terminal, pass>>

\* One by one, each in a transaction of its own; what stands is left as it is.
RecordProjection ==
    /\ decision.pc = "record"
    /\ LET p == CHOOSE q \in decision.todo :
                   \A r \in decision.todo : q.direction <= r.direction
           rest == decision.todo \ {p}
       IN  /\ projected' = projected \cup {p}
           /\ decision' = IF rest = {} THEN NoDecision ELSE [decision EXCEPT !.todo = rest]
    /\ UNCHANGED <<hour, heard, funded, terminal, pass>>

DecisionDies ==
    /\ decision # NoDecision
    /\ decision' = NoDecision
    /\ UNCHANGED <<hour, heard, funded, projected, terminal, pass>>

-----------------------------------------------------------------------------
(* The settlement.                                                         *)

End(p) == HorizonEnd[p.source]
Due    == {p \in projected \ DOMAIN terminal : End(p) <= hour}
Late(p, t) == t - End(p) >= Grace

\* Mutant of FirstDue: the oldest projections first.
FirstDueByAge(p, q) == p.at <= q.at

FirstDue(p, q) == End(p) <= End(q)

\* The batch: what is due, by the end of its horizon; ids break the ties.
Batches ==
    {b \in SUBSET Due :
        /\ Cardinality(b) = IF Cardinality(Due) < BatchSize THEN Cardinality(Due)
                            ELSE BatchSize
        /\ \A p \in b, q \in Due \ b : FirstDue(p, q)}

StartPass ==
    /\ pass.pc # "settle"
    /\ Due # {}
    /\ \E b \in Batches :
         pass' = [pc |-> "settle", asof |-> hour, todo |-> b,
                  overdue |-> {p \in Due : Late(p, hour)}, ended |-> 0]
    /\ UNCHANGED <<hour, heard, funded, decision, projected, terminal>>

\* The fundings an outcome counts: stored ones from the projection on, before
\* the end.
Realized(p) == {t \in funded : p.at <= t /\ t < End(p)}

\* A gap between them is a fact that is missing, unless all is shorter.
FundingComplete(p) ==
    LET points == Realized(p) \cup {p.at, End(p)}
        After(t) == Earliest({u \in points : t < u})
    IN  \/ End(p) - p.at < MaxGap /\ Realized(p) = {}
        \/ \A t \in points \ {End(p)} : After(t) - t <= MaxGap

\* The quote at the end is fresh or not; what lacks a fact waits for the grace
\* and is unavailable for good after it.
SettleOne ==
    /\ pass.pc = "settle"
    /\ \E p \in pass.todo, priced \in BOOLEAN :
         LET complete == priced /\ FundingComplete(p)
             waits == ~complete /\ ~Late(p, pass.asof)
             rest  == pass.todo \ {p}
         IN  /\ terminal' = IF waits THEN terminal
                            ELSE [q \in DOMAIN terminal \cup {p} |->
                                   IF q # p THEN terminal[q]
                                   ELSE IF complete THEN "SETTLED" ELSE "UNAVAILABLE"]
             /\ pass' = [pass EXCEPT
                           !.todo  = rest,
                           !.ended = IF waits THEN @ ELSE @ + 1,
                           !.pc    = IF rest = {} THEN "done" ELSE "settle"]
    /\ UNCHANGED <<hour, heard, funded, decision, projected>>

PassDies ==
    /\ pass.pc = "settle"
    /\ pass' = NoPass
    /\ UNCHANGED <<hour, heard, funded, decision, projected, terminal>>

ProductNext ==
    \/ HourPasses \/ StoreFunding
    \/ \E d \in Feeds : Observe(d)
    \/ \E f \in Sources : Project(f)
    \/ RecordProjection \/ DecisionDies
    \/ StartPass \/ SettleOne \/ PassDies

ProductSpec == ProductInit /\ [][ProductNext]_productVars

-----------------------------------------------------------------------------
(* The mapping evidence, as a reader would compute it now.                 *)

\* The projections of one cutoff and one time, once all of them are terminal.
Panel(c, t)  == {p \in projected : Cutoff[p.source] = c /\ p.at = t}
Cases ==
    UNION {Panel(Cutoff[p.source], p.at) :
           p \in {q \in projected :
                    Panel(Cutoff[q.source], q.at) \subseteq DOMAIN terminal}}

\* Of each forecast, its first decision; of these, the panels all settled.
FirstOf(p) == \A q \in Cases : q.source = p.source => p.at <= q.at
Counted(c, t) == {p \in Panel(c, t) \cap Cases : FirstOf(p)}
SettledPanels ==
    {k \in {<<Cutoff[p.source], p.at>> : p \in Cases} :
        /\ Counted(k[1], k[2]) # {}
        /\ \A p \in Counted(k[1], k[2]) : terminal[p] = "SETTLED"}

-----------------------------------------------------------------------------
(* Properties.                                                             *)

\* A projection expects each funding that comes after its decision and not
\* after its horizon, however old the market state was it was told by
\* (docs/ARCHITECTURE.md:145: only the fundings that have not happened).
FundingIsCounted ==
    \A p \in projected :
        p.fundings = Cardinality({t \in (p.at + 1)..End(p) : t % Interval = 0})

\* A settlement that ran to its end leaves no projection past its grace open,
\* unless it was full of outcomes: those that wait never crowd them out.
SettlesTheOverdue ==
    pass.pc = "done" =>
       pass.overdue \subseteq DOMAIN terminal \/ pass.ended = BatchSize

\* What a projection expected of the fundings is what its outcome counts, when
\* all of them are stored. Violated: one at the very end is expected and not
\* counted, one at the very start is counted and not expected.
FundingAgrees ==
    \A p \in projected :
        {t \in Fundings : p.at <= t /\ t <= End(p)} \subseteq funded =>
            p.fundings = Cardinality(Realized(p))

\* The evidence counts a forecast's decision with all the products projected
\* (docs/ARCHITECTURE.md:193: those left by a failure must not be put together
\* to a complete sample by their time stamps). Violated: outcome_cases does.
PanelsAreWhole ==
    \A k \in SettledPanels, p \in projected :
       p \in Counted(k[1], k[2]) =>
          \A d \in Directions : [p EXCEPT !.direction = d] \in projected

-----------------------------------------------------------------------------
(* Why the fundings are counted right: the inductive invariant.            *)

FundingInvariant ==
    /\ hour \in Nat /\ heard \in [Feeds -> Nat] /\ \A d \in Feeds : heard[d] <= hour
    /\ decision = [pc |-> decision.pc, todo |-> decision.todo]
    /\ decision.pc = "record" => decision.todo # {}
    /\ \A p \in decision.todo :
          /\ p.direction \in Nat
          /\ p.fundings = Cardinality({t \in (p.at + 1)..End(p) : t % Interval = 0})
    /\ FundingIsCounted

\* Why a pass leaves nothing overdue: it has all of it in hand, or its batch is
\* full of what is as late.
SettlementInvariant ==
    /\ hour \in Nat /\ IsFiniteSet(projected)
    /\ \A p \in projected \cup decision.todo : p.source \in Sources
    /\ pass = [pc |-> pass.pc, asof |-> pass.asof, todo |-> pass.todo,
               overdue |-> pass.overdue, ended |-> pass.ended]
    /\ pass.pc \in {"rest", "settle", "done"} /\ {pass.asof, pass.ended} \subseteq Nat
    /\ pass.todo \cup pass.overdue \subseteq projected
    /\ pass.pc # "settle" => pass.todo = {}
    /\ pass.pc # "rest" =>
          /\ \A p \in pass.overdue : Late(p, pass.asof)
          /\ \/ pass.overdue \subseteq DOMAIN terminal \cup pass.todo
             \/ /\ Cardinality(pass.todo) + pass.ended = BatchSize
                /\ \A p \in pass.todo : Late(p, pass.asof)
=============================================================================
