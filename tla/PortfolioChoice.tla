----------------------------- MODULE PortfolioChoice -----------------------------
(***************************************************************************)
(* What the portfolio holds: the decision of a capital cycle               *)
(* (portfolio/decision.py), the limits of the risk engine over it          *)
(* (risk/portfolio.py), the plan and what execution makes of it.           *)
(*                                                                         *)
(* Several products express one economic exposure (spot and perpetual, for *)
(* instance).  A decision values each product at the size it could have,   *)
(* chooses one per exposure, sizes it, values the size again; risk scales  *)
(* the whole.  A plan ends anywhere between what was held and what was     *)
(* approved, and the next decision starts there.                           *)
(*                                                                         *)
(* Sizes are in the quantity steps the planner rounds down to, values in   *)
(* basis points times size; net values per size are compared by cross      *)
(* multiplication.  Each product has one leg.                              *)
(***************************************************************************)
EXTENDS Integers, FiniteSets, FiniteSetsExt

CONSTANTS Products,      \* numbered: ties go to the smaller
          ExposureOf,    \* product -> the economic exposure it expresses
          SignOf,        \* product -> 1 long, -1 short, all of one asset
          MarginOf,      \* product -> margin per size
          Views,         \* what the forecasts can say of a product
          Half, Fee,     \* half spread and fee of every product
          Depth,         \* size the best level of a book takes
          Swing,         \* downside deviation of every product
          Equity, SingleLimit, TotalLimit,
          Limits         \* of the risk policy: gross, net, instrument, margin

ASSUME PortfolioAssumption ==
    /\ Products \subseteq Nat /\ IsFiniteSet(Products) /\ Products # {}
    /\ SignOf \in [Products -> {1, -1}] /\ MarginOf \in [Products -> Nat]
    /\ Limits \in [{"gross", "net", "instrument", "margin"} -> Nat]
    /\ Views \subseteq [edge : Int, state : {"fresh", "closed", "review", "invalid"}]
    /\ {Half, Fee} \subseteq Nat
    /\ {Depth, Swing, Equity, SingleLimit, TotalLimit} \subseteq Nat \ {0}

VARIABLES held,     \* product -> size held
          view,     \* product -> its forecast: fresh, closed to new exposure,
                    \* not of this cycle, or no longer valid
          target,   \* product -> decided size, before risk; or NoPlan
          plan,     \* product -> approved size, being executed; or NoPlan
          left      \* products a decision left for a better one, market unchanged

portfolioVars == <<held, view, target, plan, left>>

NoPlan == [p \in Products |-> -1]

PortfolioTypeOK ==
    /\ held \in [Products -> Nat] /\ view \in [Products -> Views]
    /\ {target, plan} \subseteq [Products -> Nat] \cup {NoPlan} /\ left \subseteq Products

PortfolioInit ==
    /\ held = [p \in Products |-> 0]
    /\ view \in [Products -> Views]
    /\ target = NoPlan /\ plan = NoPlan /\ left = {}

Lesser(a, b)  == IF a < b THEN a ELSE b
Greater(a, b) == IF a < b THEN b ELSE a
Gap(a, b)     == Greater(a - b, 0)
Total(f, S)   == MapThenSumSet(LAMBDA p : f[p], S)

-----------------------------------------------------------------------------
(* The value of a transition.                                              *)

\* What the book costs beyond its best level.
DepthCost(n) == IF n <= Depth THEN 0 ELSE (Half * n * (n - Depth)) \div Depth

\* Retained exposure is priced where it could be sold, added exposure where
\* it must be bought.
GrossValue(p, cur, n) ==
    view[p].edge * n + Half * Lesser(cur, n) - Half * Gap(n, cur)

TransitionCost(cur, n) ==
    Fee * (Gap(n, cur) + Gap(cur, n) + n) + Half * n
        + DepthCost(Gap(n, cur)) + DepthCost(Gap(cur, n)) + DepthCost(n)

Valid(p, n) ==
    \/ view[p].state \in {"closed", "review", "fresh"} /\ 0 < held[p] /\ n <= held[p]
    \/ view[p].state = "fresh"

ValuedAt(p, n, floor) ==
    LET net == GrossValue(p, held[p], n) - TransitionCost(held[p], n)
    IN  [size |-> n, net |-> net, valid |-> Valid(p, n),
         ok |-> Valid(p, n) /\ net > floor]

\* A holding that is not worth its size is worth keeping if leaving it costs
\* more.
Valued(p, n) ==
    LET asked == ValuedAt(p, n, 0)
    IN  IF held[p] = 0 \/ asked.ok \/ ~asked.valid THEN asked
        ELSE ValuedAt(p, Lesser(held[p], n), -TransitionCost(held[p], 0))

-----------------------------------------------------------------------------
(* The decision.                                                           *)

\* A product that is not held needs a forecast of this cycle.
Considered(p) == held[p] > 0 \/ view[p].state \in {"fresh", "closed"}

Cap(p) ==
    CASE view[p].state \in {"review", "invalid"} -> held[p]
      [] view[p].state = "closed" /\ held[p] > 0 -> Lesser(SingleLimit, held[p])
      [] OTHER                                   -> SingleLimit

Worth == [p \in {q \in Products : Considered(q)} |-> Valued(p, Cap(p))]

Beats(w, p, q) ==
    LET mine == w[p].net * w[q].size
        its  == w[q].net * w[p].size
    IN  mine > its \/ (mine = its /\ p < q)

Candidates(w, x) == {p \in DOMAIN w : ExposureOf[p] = x /\ w[p].ok}
Foremost(w, C)   == CHOOSE p \in C : \A q \in C \ {p} : Beats(w, p, q)
Holding(x)       == {p \in Products : ExposureOf[p] = x /\ held[p] > 0}

\* The best product of an exposure is worth leaving c for.
WorthTheSwitch(w, c, best) ==
    w[best].net * held[c] * w[c].size - TransitionCost(held[c], 0) * w[best].size * w[c].size
        > w[c].net * w[best].size * held[c]

\* A product that another should replace: it is left first, and only a later
\* decision, with nothing held, takes the other.
Leaves(w, c) ==
    /\ w[c].ok
    /\ LET best == Foremost(w, Candidates(w, ExposureOf[c]))
       IN  best # c /\ WorthTheSwitch(w, c, best)

SelectedAtOnce(w) ==
    {p \in DOMAIN w : w[p].ok /\ p = Foremost(w, Candidates(w, ExposureOf[p]))}

Selected(w) ==
    {p \in DOMAIN w :
        /\ w[p].ok
        /\ IF Holding(ExposureOf[p]) = {} THEN p = Foremost(w, Candidates(w, ExposureOf[p]))
           ELSE p \in Holding(ExposureOf[p]) /\ ~Leaves(w, p)}

Requested(w, p) ==
    IF w[p].net <= 0 THEN Lesser(held[p], w[p].size)
    ELSE Lesser(w[p].size,
                Greater(held[p], Lesser(SingleLimit,
                                        (Equity * w[p].net) \div (w[p].size * Swing))))

\* Retained exposure comes first; what is added shares what the limit leaves.
Desired(w) ==
    LET S     == Selected(w)
        kept  == [p \in S |-> Lesser(Requested(w, p), held[p])]
        added == [p \in S |-> Requested(w, p) - kept[p]]
        room  == Gap(TotalLimit, Total(kept, S))
        all   == Total(added, S)
    IN  [p \in S |-> kept[p] + (IF all <= room THEN added[p] ELSE (added[p] * room) \div all)]

\* A size is only a proposal until it has been valued itself.
Decided(w) ==
    LET d == Desired(w)
        Final(p) == IF p \notin DOMAIN d THEN 0
                    ELSE IF d[p] = 0 THEN 0
                    ELSE LET v == Valued(p, d[p]) IN IF v.ok THEN v.size ELSE 0
    IN  [p \in Products |-> Final(p)]

-----------------------------------------------------------------------------
(* The risk engine.                                                        *)

Net(n) == Total([p \in Products |-> SignOf[p] * n[p]], Products)

\* Gross, net, instrument and margin load of sizes n.
Loads(n) ==
    [gross      |-> Total(n, Products),
     net        |-> Greater(Net(n), -Net(n)),
     instrument |-> Max({n[p] : p \in Products}),
     margin     |-> Total([p \in Products |-> MarginOf[p] * n[p]], Products)]

WithinLimits(n) == \A l \in DOMAIN Limits : Loads(n)[l] <= Limits[l]

\* New risk needs a clear account and fresh quotes; a reduction never does.
Gated(want, gate) ==
    [p \in Products |->
        CASE gate = "killed"                       -> 0
          [] gate = "clear" \/ want[p] <= held[p]  -> want[p]
          [] OTHER                                 -> held[p]]

\* A size shrunk by what a load is over its limit, rounded down.
Fit(n, load, limit) == IF load <= limit THEN n ELSE (n * limit) \div load

\* Mutant of Approved: the net limit is forgotten.
ApprovedWithoutNet(want, gate) ==
    LET gated == Gated(want, gate)
        load  == Loads(gated)
    IN  [p \in Products |-> Min({Fit(gated[p], load[l], Limits[l]) : l \in DOMAIN Limits \ {"net"}})]

\* The whole portfolio shrinks by one factor, that of the tightest limit.
Approved(want, gate) ==
    LET gated == Gated(want, gate)
        load  == Loads(gated)
    IN  [p \in Products |-> Min({Fit(gated[p], load[l], Limits[l]) : l \in DOMAIN Limits})]

-----------------------------------------------------------------------------
(* Actions.                                                                *)

\* Two products of one exposure are never held together: the decision that
\* finds them so fails, and so does every decision after it
\* (portfolio/decision.py raises on the second holding of an exposure).
OneProductPerExposure ==
    \A x \in {ExposureOf[p] : p \in Products} : Cardinality(Holding(x)) <= 1

\* A cycle decides on the account it sees.
Decide ==
    /\ target = NoPlan /\ plan = NoPlan
    /\ OneProductPerExposure
    /\ target' = Decided(Worth)
    /\ left' = left \cup {p \in Products : held[p] > 0 /\ Leaves(Worth, p)}
    /\ UNCHANGED <<held, view, plan>>

\* The risk engine approves the target and the planner plans it...
Approve ==
    /\ target # NoPlan
    /\ \E gate \in {"clear", "stale", "killed"} : plan' = Approved(target, gate)
    /\ target' = NoPlan
    /\ UNCHANGED <<held, view, left>>

\* ... unless the target has expired.
Reject ==
    /\ target # NoPlan
    /\ target' = NoPlan
    /\ UNCHANGED <<held, view, plan, left>>

\* Between decisions a heartbeat looks at the holding: out of its limits, or
\* with the account stopped, it leaves everything.
Protect ==
    /\ target = NoPlan /\ plan = NoPlan /\ \E p \in Products : held[p] > 0
    /\ \E killed \in BOOLEAN :
          /\ killed \/ ~WithinLimits(held)
          /\ plan' = [p \in Products |-> 0]
    /\ UNCHANGED <<held, view, target, left>>

\* Execution moves a product towards its approved size...
Execute(p) ==
    /\ plan # NoPlan /\ held[p] # plan[p]
    /\ held' = [held EXCEPT ![p] = IF @ < plan[p] THEN @ + 1 ELSE @ - 1]
    /\ UNCHANGED <<view, target, plan, left>>

\* ... and the plan's groups end wherever they got to.
EndPlan ==
    /\ plan # NoPlan
    /\ plan' = NoPlan
    /\ UNCHANGED <<held, view, target, left>>

MarketMoves ==
    /\ target = NoPlan /\ plan = NoPlan
    /\ \E p \in Products : \E v \in Views \ {view[p]} : view' = [view EXCEPT ![p] = v]
    /\ left' = {}
    /\ UNCHANGED <<held, target, plan>>

PortfolioNext ==
    \/ Decide \/ Approve \/ Reject
    \/ Protect
    \/ \E p \in Products : Execute(p)
    \/ EndPlan
    \/ MarketMoves

PortfolioSpec == PortfolioInit /\ [][PortfolioNext]_portfolioVars

-----------------------------------------------------------------------------
(* Properties.                                                             *)

\* What the risk engine approves, the review of the holding would let stand: no
\* load is over its limit, but that sizes rounded down on one side may leave
\* the net of the other over it, by a size less than one for each of them.
Across(side) == {ExposureOf[p] : p \in {q \in Products : SignOf[q] = -side}}

ApprovedIsHoldable ==
    plan # NoPlan =>
       /\ \A l \in DOMAIN Limits \ {"net"} : Loads(plan)[l] <= Limits[l]
       /\ \A side \in {1, -1} :
             side * Net(plan) <= Limits["net"] + Gap(Cardinality(Across(side)), 1)

\* A product left for a better one is not taken back while nothing changes,
\* however much of the exit was executed.
SwitchIsNotUndone == plan # NoPlan => \A p \in left : plan[p] <= held[p]

-----------------------------------------------------------------------------
(* Why one product expresses an exposure: the inductive invariant.         *)

\* What is held, or will be when the decision is carried out.
InPlay(p) == held[p] > 0 \/ target[p] > 0 \/ plan[p] > 0

PortfolioInvariant ==
    /\ PortfolioTypeOK
    /\ \A p, q \in Products :
          ExposureOf[p] = ExposureOf[q] /\ InPlay(p) /\ InPlay(q) => p = q
    /\ ApprovedIsHoldable

\* Why a switch is not undone: of a product that was left, another of its
\* exposure is still worth the switch from what was held of it then, and it
\* was worth less the less of it is held.
NetAt(p, cur, n) == GrossValue(p, cur, n) - TransitionCost(cur, n)

StaysLeft(p) ==
    \E b \in Products, h \in 1..SingleLimit :
       /\ b # p /\ ExposureOf[b] = ExposureOf[p] /\ held[p] <= h
       /\ view[p].state = "fresh" /\ NetAt(p, h, SingleLimit) > 0 =>
             /\ view[b].state = "fresh" /\ NetAt(b, 0, SingleLimit) > 0
             /\ NetAt(b, 0, SingleLimit) * h
                    > NetAt(p, h, SingleLimit) * h + TransitionCost(h, 0) * SingleLimit

SwitchInvariant ==
    /\ PortfolioInvariant
    /\ target = NoPlan \/ plan = NoPlan
    /\ \A p \in Products : \A n \in {held[p], target[p], plan[p]} : n <= SingleLimit
    /\ \A p \in left : target[p] <= held[p] /\ plan[p] <= held[p] /\ StaysLeft(p)

=============================================================================
