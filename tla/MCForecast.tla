------------------------------ MODULE MCForecast ------------------------------
(***************************************************************************)
(* The services that make and settle forecasts, one instance of each.      *)
(* They meet only in tables that each reads from its own side, so a        *)
(* behaviour of this module is a behaviour of one of them, the part, and   *)
(* the others stay where they begin.                                       *)
(***************************************************************************)
EXTENDS CodexRouter, CodexSession, ContextPosterior, PriorCadence,
        BatchDispatch, TLC

VARIABLE part

Parts == {"router", "session", "posterior", "cadence", "dispatch"}

forecastVars == <<part, routerVars, sessionVars, posteriorVars, cadenceVars,
                  dispatchVars>>

ForecastInit ==
    /\ part \in Parts
    /\ RouterInit /\ SessionInit /\ PosteriorInit /\ CadenceInit /\ DispatchInit
    /\ part # "posterior" => ~late /\ cause = "CADENCE" /\ ~\E t \in Targets : prior[t]

ForecastNext ==
    /\ UNCHANGED part
    /\ \/ /\ part = "router" /\ RouterNext
          /\ UNCHANGED <<sessionVars, posteriorVars, cadenceVars, dispatchVars>>
       \/ /\ part = "session" /\ SessionNext
          /\ UNCHANGED <<routerVars, posteriorVars, cadenceVars, dispatchVars>>
       \/ /\ part = "posterior" /\ PosteriorNext
          /\ UNCHANGED <<routerVars, sessionVars, cadenceVars, dispatchVars>>
       \/ /\ part = "cadence" /\ CadenceNext
          /\ UNCHANGED <<routerVars, sessionVars, posteriorVars, dispatchVars>>
       \/ /\ part = "dispatch" /\ DispatchNext
          /\ UNCHANGED <<routerVars, sessionVars, posteriorVars, cadenceVars>>

ForecastSpec == ForecastInit /\ [][ForecastNext]_forecastVars

\* Every variable of every service keeps its type.
ForecastTypeOK ==
    /\ RouterTypeOK /\ SessionTypeOK /\ PosteriorTypeOK /\ CadenceTypeOK
    /\ DispatchTypeOK

Symmetry == Permutations(Routers)
=============================================================================
