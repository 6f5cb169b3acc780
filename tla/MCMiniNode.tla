---------------------------- MODULE MCMiniNode ----------------------------
(***************************************************************************)
(* The three parts of the mini node, which share links and no state the    *)
(* properties are about: each behaviour is one of one part, while the      *)
(* others rest in their initial states, where no fair action is enabled.   *)
(***************************************************************************)
EXTENDS RouteMesh, MiniRelay, RelayWitness

VARIABLE part

allVars == <<routeVars, relayVars, witnessVars, part>>

MCInit ==
    /\ part \in {"routes", "relay", "witness"}
    /\ RoutesInit /\ RelayInit /\ WitnessInit

MCNext ==
    /\ UNCHANGED part
    /\ \/ part = "routes" /\ RoutesNext /\ UNCHANGED <<relayVars, witnessVars>>
       \/ part = "relay" /\ RelayNext /\ UNCHANGED <<routeVars, witnessVars>>
       \/ part = "witness" /\ WitnessNext /\ UNCHANGED <<routeVars, relayVars>>

MCSpec == MCInit /\ [][MCNext]_allVars /\ RoutesFairness /\ RelayFairness

\* The types of the three parts.
MiniTypeOK == RoutesTypeOK /\ RelayTypeOK /\ WitnessTypeOK
=============================================================================
