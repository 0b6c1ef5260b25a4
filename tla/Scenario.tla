------------------------------ MODULE Scenario -------------------------------
(***************************************************************************)
(* A scenario as the examples write it: a reader creates the topology, the *)
(* stack is installed on its nodes, ApplyOspfMetric sets the metrics of    *)
(* the faces, and GlobalRoutingHelper computes the routes.  Networks with  *)
(* a channel of three nodes, which no reader creates, are built by hand.   *)
(* Or nothing of this is used and ScenarioHelper does it all.              *)
(***************************************************************************)
EXTENDS Rocketfuel, Helpers

vars == <<readerVars, mapVars, routingVars, helperVars>>

Init ==
  /\ reader \in {"annotated", "weights", "map", "none", "helper"}
  /\ ReaderInit /\ RoutingInit /\ HelperInit
  /\ IF reader = "map" THEN MapInit
     ELSE /\ params = DefaultParams
          /\ uids = {} /\ vertices = {} /\ edges = {} /\ rank = [u \in Routers |-> UNKNOWN]

\* ApplyOspfMetric: both faces of a link get its metric.
NetworkOf(list) ==
  [channels |-> [i \in DOMAIN list |-> <<list[i].from, list[i].to>>],
   metric |-> [f \in (DOMAIN list) \X (1 .. 2) |-> list[f[1]].ospf]]

\* Bounds: of the maps only those go on to the stack that were read with the default
\* arguments of Read, of the weights files none (their links are like annotated ones),
\* of the annotated files those without resources,
\* what was read from a file gets one origin and one calculation, and where the
\* helpers set the routes none are calculated.
GoesOn ==
  /\ phase = "done" /\ reader # "weights"
  /\ params.keepOneComponent /\ params.connectBackbones
  /\ reader = "annotated" => node_comment = <<>>
Short ==
  \/ reader = "none"
  \/ reader # "helper" /\ count.calcs <= 1 /\ count.changes = 0 /\ \A p \in Names : Cardinality(Origins(p)) <= 1

Next ==
  \/ ReaderStep /\ UNCHANGED <<mapVars, routingVars, helperVars>>
  \/ MapStep /\ UNCHANGED <<routingVars, helperVars>>
  \/ /\ GoesOn
     /\ Build(NetworkOf(m_linksList))
     /\ UNCHANGED <<readerVars, mapVars, helperVars>>
  \/ /\ reader = "none"
     /\ \E net \in Networks : Build(net)
     /\ UNCHANGED <<readerVars, mapVars, helperVars>>
  \/ RoutingStep /\ UNCHANGED <<readerVars, mapVars, helperVars>> /\ Short'
  \/ reader = "helper" /\ HelperStep /\ UNCHANGED <<readerVars, mapVars>>

Spec == Init /\ [][Next]_vars
=============================================================================
