------------------------------- MODULE Helpers -------------------------------
(***************************************************************************)
(* A scenario without a topology file: ScenarioHelper makes a point to     *)
(* point link for every pair of each clique, FibHelper's routes are given  *)
(* by hand and LinkControlHelper fails links and brings them up again.     *)
(* Two nodes may share several links: ScenarioHelper then means the last   *)
(* of them, FibHelper and LinkControlHelper mean the first.                *)
(*                                                                         *)
(* A route is in the FIB when its command returns (Node has the delay).    *)
(***************************************************************************)
EXTENDS GlobalRouting, SequencesExt

CONSTANTS
  Cliques,      \* topologies: sequences of cliques, each a sequence of nodes
  MaxCommands   \* bound on routes and link commands

ASSUME CliquesAssumption == Cliques \subseteq Seq(Seq(Nat))

None == "none"      \* no ReceiveErrorModel
Failing == "1.0"    \* a RateErrorModel with ErrorRate 1
Working == "off"    \* a RateErrorModel that is not enabled

VARIABLES
  links,              \* ScenarioHelper::links, the device of a link from one node to another
  ReceiveErrorModel,  \* by device
  failed,             \* last link command for two nodes (a history variable)
  asked,              \* routes in force <<prefix, node, other node>> (history)
  commandCount

helperVars == <<links, ReceiveErrorModel, failed, asked, commandCount>>

HelperInit ==
  /\ links = <<>> /\ ReceiveErrorModel = <<>> /\ failed = <<>> /\ asked = {} /\ commandCount = 0

\* The pairs of a clique, in the order of the two loops.
Pairs(clique) ==
  FlattenSeq([i \in DOMAIN clique |->
    [k \in 1 .. Len(clique) - i |-> <<clique[i], clique[i + k]>>]])

\* Slip: both entries of a link hold its first device.
BothFirst(c, n) == <<c, 1>>

\* The device that p2p.Install made on node n for channel c.
DeviceOn(c, n) == <<c, IF channels'[c][1] = n THEN 1 ELSE 2>>

CreateTopology(cliques) ==
  LET made == FlattenSeq([i \in DOMAIN cliques |-> Pairs(cliques[i])])
      joined == {x \in Nodes' \X Nodes' : \E c \in DOMAIN made : Range(made[c]) = {x[1], x[2]}}
      LastLink(x) == Max({c \in DOMAIN made : Range(made[c]) = {x[1], x[2]}})
  IN  /\ Build([channels |-> made, metric |-> [f \in (DOMAIN made) \X (1 .. 2) |-> 1]])
      /\ links' = [x \in joined |-> DeviceOn(LastLink(x), x[1])]
      /\ ReceiveErrorModel' = [f \in Faces' |-> None]
      /\ UNCHANGED <<failed, asked, commandCount>>

Command ==
  /\ channels # <<>>
  /\ commandCount < MaxCommands
  /\ commandCount' = commandCount + 1
  /\ UNCHANGED <<graphVars, metric, configured, localPrefixes, calcVars, count, links>>

-----------------------------------------------------------------------------
(* Routes. *)

\* The faces of node n over which FibHelper and LinkControlHelper look for node m.
Leading(n, m) == {f \in FacesOf(n) : IsP2p(f[1]) /\ \E g \in OtherSides(f) : NodeOf(g) = m}

SetRoute(f, p, cost) ==
  /\ fib' = [fib EXCEPT ![f][p] = cost]
  /\ UNCHANGED <<ReceiveErrorModel, failed>>

\* ScenarioHelper::addRoutes.
AddRouteByName(p, n, m, cost) ==
  /\ Command
  /\ <<n, m>> \in DOMAIN links
  /\ SetRoute(links[<<n, m>>], p, cost)
  /\ asked' = asked \cup {<<p, n, m>>}

\* FibHelper::AddRoute and RemoveRoute with a node instead of a face.
AddRouteToNode(p, n, m, cost) ==
  /\ Command
  /\ Leading(n, m) # {}
  /\ SetRoute(First(Leading(n, m)), p, cost)
  /\ asked' = asked \cup {<<p, n, m>>}

\* It takes away what AddRoute with a node gave, a route over another link stays.
RemoveRouteToNode(p, n, m) ==
  /\ Command
  /\ Leading(n, m) # {}
  /\ SetRoute(First(Leading(n, m)), p, NoRoute)
  /\ asked' = IF \E f \in Leading(n, m) : fib'[f][p] # NoRoute THEN asked
              ELSE asked \ {<<p, n, m>>}

-----------------------------------------------------------------------------
(* Links. *)

\* Slip: the second device of the channel, whichever node asks.
SecondDevice(f) == <<f[1], 2>>

\* nd2: the first device of the channel unless that is on the same node.
Opposite(f) == <<f[1], IF NodeOf(<<f[1], 1>>) = NodeOf(f) THEN 2 ELSE 1>>

\* The first face of n that leads to m decides which link is meant.
SetErrorRate(n, m, model) ==
  /\ Command
  /\ Leading(n, m) # {}
  /\ LET f == First(Leading(n, m))
     IN  ReceiveErrorModel' =
           [g \in Faces |-> IF g \in {f, Opposite(f)} THEN model ELSE ReceiveErrorModel[g]]
  /\ failed' = [x \in DOMAIN failed \cup {{n, m}} |-> IF x = {n, m} THEN model ELSE failed[x]]
  /\ UNCHANGED <<fib, asked>>

FailLink(n, m) == SetErrorRate(n, m, Failing)
UpLink(n, m) == SetErrorRate(n, m, Working)

HelperStep ==
  \/ \E cliques \in Cliques : CreateTopology(cliques)
  \/ \E n, m \in Nodes : n # m /\
       \/ \E p \in Names, cost \in 1 .. 2 : AddRouteByName(p, n, m, cost) \/ AddRouteToNode(p, n, m, cost)
       \/ \E p \in Names : RemoveRouteToNode(p, n, m)
       \/ FailLink(n, m) \/ UpLink(n, m)

-----------------------------------------------------------------------------
(* Properties. *)

\* Of the links between two nodes the first one is what was last asked for, at both
\* ends and whichever node was named first, and all others are as they were made.
LinkControlled ==
  \A f \in DOMAIN ReceiveErrorModel :
    LET ends == Range(channels[f[1]])
        first == \A b \in 1 .. f[1] - 1 : Range(channels[b]) # ends
    IN  ReceiveErrorModel[f] = IF first /\ ends \in DOMAIN failed THEN failed[ends] ELSE None

\* A route that was asked for by the names of two nodes is in the FIB of the first
\* and leads to the second, also where several links join them.
RoutesLeadThere ==
  \A x \in asked : \E f \in FacesOf(x[2]) :
    fib[f][x[1]] # NoRoute /\ \E g \in OtherSides(f) : NodeOf(g) = x[3]
=============================================================================
