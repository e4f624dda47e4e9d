-------------------------------- MODULE MCControl --------------------------------
(***************************************************************************)
(* What decides over the machine and over capital: the portfolio decision, *)
(* the release supervisors, the product forecasts it reads, the replay     *)
(* that compares the producers, the frozen history research reads and the  *)
(* account projected from the orders.                                      *)
(* They meet only in tables and files, so a behaviour                      *)
(* of this module is a behaviour of one of them, the part, and the others  *)
(* stay where they begin.                                                  *)
(***************************************************************************)
EXTENDS PortfolioChoice, ReleaseControl, ProductForecast, CapitalIncrement,
        FrozenHistory, AccountProjection, TLC

VARIABLE part

Parts == {"portfolio", "release", "product", "increment", "archive",
          "account"}

controlVars == <<part, portfolioVars, releaseVars, productVars, incrementVars,
                 frozenVars, accountVars>>

\* A part that stays where it begins begins in one way.
ControlInit ==
    /\ part \in Parts
    /\ ReleaseInit /\ ProductInit /\ IncrementInit /\ FrozenInit
    /\ PortfolioInit /\ AccountInit
    /\ part # "archive" => family = "bars"
    /\ part # "portfolio" => view = [p \in Products |-> CHOOSE v \in Views : TRUE]

ControlNext ==
    /\ UNCHANGED part
    /\ \/ /\ part = "portfolio" /\ PortfolioNext
          /\ UNCHANGED <<releaseVars, productVars, incrementVars, frozenVars,
                          accountVars>>
       \/ /\ part = "release" /\ ReleaseNext
          /\ UNCHANGED <<portfolioVars, productVars, incrementVars, frozenVars,
                          accountVars>>
       \/ /\ part = "product" /\ ProductNext
          /\ UNCHANGED <<portfolioVars, releaseVars, incrementVars, frozenVars,
                          accountVars>>
       \/ /\ part = "increment" /\ IncrementNext
          /\ UNCHANGED <<portfolioVars, releaseVars, productVars, frozenVars,
                          accountVars>>
       \/ /\ part = "archive" /\ FrozenNext
          /\ UNCHANGED <<portfolioVars, releaseVars, productVars, incrementVars,
                          accountVars>>
       \/ /\ part = "account" /\ AccountNext
          /\ UNCHANGED <<portfolioVars, releaseVars, productVars, incrementVars,
                          frozenVars>>

ControlSpec == ControlInit /\ [][ControlNext]_controlVars

\* Every variable of every part keeps its type.
ControlTypeOK ==
    /\ PortfolioTypeOK /\ ReleaseTypeOK /\ ProductTypeOK /\ IncrementTypeOK
    /\ FrozenTypeOK /\ AccountTypeOK

-----------------------------------------------------------------------------
(* Products 1 and 2 are the spot and the perpetual of one exposure, 3 the  *)
(* perpetual sold.                                                         *)
MCExposure == [p \in {1, 2, 3} |-> IF p = 3 THEN "short" ELSE "long"]
MCSign     == [p \in {1, 2, 3} |-> IF p = 3 THEN -1 ELSE 1]
MCMargin   == [p \in {1, 2, 3} |-> IF p = 1 THEN 2 ELSE 1]
MCViews    == [edge : {4, 7, 10}, state : {"fresh"}]
              \cup {[edge |-> 7, state |-> "closed"], [edge |-> 5, state |-> "review"],
                    [edge |-> 9, state |-> "invalid"]}
MCLimits   == [gross |-> 5, net |-> 2, instrument |-> 4, margin |-> 7]

\* A forecast available before the next, which ends first.
MCAvailable  == <<0, 1>>
MCHorizonEnd == <<4, 3>>
MCCutoff     == <<0, 1>>

\* Two slots of one time, one of them of a material event.
MCSlotAt    == <<0, 1, 1>>
MCStratum   == <<"cadence", "cadence", "material">>
MCContracts == <<{1}, {1}, {1}>>
\* The panels of the second slot may end with an answer for one contract only.
MCTwoContracts == <<{1}, {1, 2}, {1}>>

\* A carry is opened and closed past zero by two groups; a trend's spot product
\* is bought and sold again, and then its perpetual bought.  The id of a
\* compensation comes before its target's.
MCLegOf ==
    LET Leg(p, side, s, g, role, fills, delay) ==
            [product |-> p, side |-> side, sleeve |-> s, group |-> g, role |-> role,
             fills |-> fills, delay |-> delay]
    IN  <<Leg("spot",  1, "trend", 2, "target",       {1},    0),
          Leg("perp", -1, "carry", 1, "target",       {1, 2}, 1),
          Leg("spot", -1, "trend", 2, "compensation", {1},    0),
          Leg("perp",  1, "trend", 4, "target",       {1},    0),
          Leg("perp",  1, "carry", 3, "target",       {2},    0)>>
MCClientRanks == {[l \in 1..5 |-> 6 - l]}
MCBids        == (0 :> 120) @@ (1 :> 60) @@ (2 :> 180)
=============================================================================
