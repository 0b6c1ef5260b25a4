---------------------------- MODULE GlobalRouting ----------------------------
(***************************************************************************)
(* GlobalRoutingHelper: a GlobalRouter is put on every node and on every   *)
(* channel that is not point to point, their incidencies form a graph, and *)
(* two calculations fill the FIBs from shortest paths in it.  The second,  *)
(* CalculateAllPossibleRoutes, sets the metrics of a node to 65534 and     *)
(* lends each face its own metric for one run of Dijkstra.                 *)
(*                                                                         *)
(* External: Dijkstra itself (the Boost graph library), used for what it   *)
(* returns under the code's combine and compare functions, and the FIB,    *)
(* where a second next hop with the same face replaces the first.          *)
(***************************************************************************)
EXTENDS Integers, Sequences, FiniteSets, FiniteSetsExt, Functions

CONSTANTS
  Networks,         \* channels with the nodes of their devices, and face metrics
  Names,            \* names that are announced
  Metrics,          \* metrics given to faces between two calculations
  LinkDelays,       \* delays of point to point channels, in microseconds
  MaxOrigins,       \* bound on AddOrigin
  MaxCalculations,  \* bound on the calculations
  MaxChanges        \* bound on the changes of metrics

\* A channel is the sequence of its devices' nodes, which ns-3 numbers; the face of each
\* device has a metric.
ASSUME NetworksAssumption ==
  \A net \in Networks :
    /\ net.channels \in Seq(Seq(Nat))
    /\ net.metric \in [UNION {{<<c, i>> : i \in DOMAIN net.channels[c]} :
                              c \in DOMAIN net.channels} -> Nat]

ASSUME MetricsAssumption == Metrics \subseteq Nat /\ LinkDelays \subseteq Nat

\* What a conversion to uint16_t keeps of a metric, which faces hold in 64 bits.
Uint16(m) == m % 65536

WeightInf == 65535
Disabled == WeightInf - 1
NoRoute == WeightInf + 1     \* no next hop
NoFace == <<0, 0>>           \* the null face of a channel's incidency

VARIABLES
  channels,         \* ChannelList: the nodes of each channel's devices
  metric,           \* metric of the face of each device
  configured,       \* what the scenario set it to (a history variable)
  routers,          \* GlobalRouters: <<"node", n>> and <<"channel", c>>
  incidencies,      \* m_incidencies: edges <<face, router>>
  frames,           \* Install calls that have not returned, the innermost first
  localPrefixes,    \* m_localPrefixes
  fib,              \* cost of each next hop, by face and prefix
  calc,             \* the calculation that runs
  sources,          \* nodes it has not finished
  todo,             \* faces of the current source that were not enabled yet
  originalMetrics,  \* metrics of the current source, none between two sources
  count             \* [calcs, changes, last]: calculations, changes since the
                    \* first of them, the last one if nothing was done since

graphVars == <<channels, routers, incidencies, frames>>
calcVars == <<calc, sources, todo, originalMetrics>>
routingVars == <<graphVars, metric, configured, localPrefixes, fib, calcVars, count>>

\* A face is its device: the channel and its place there.
Faces == UNION {{<<c, i>> : i \in DOMAIN channels[c]} : c \in DOMAIN channels}
NodeOf(f) == channels[f[1]][f[2]]
Nodes == {NodeOf(f) : f \in Faces}
FacesOf(n) == {f \in Faces : NodeOf(f) = n}
OtherSides(f) == {g \in Faces : g[1] = f[1] /\ g # f}
First(fs) == CHOOSE f \in fs : \A g \in fs : f[1] <= g[1]

Node(n) == <<"node", n>>
Channel(c) == <<"channel", c>>
Sources == {n \in Nodes : Node(n) \in routers}

RoutingInit ==
  /\ channels = <<>> /\ metric = <<>> /\ configured = <<>>
  /\ routers = {} /\ incidencies = <<>> /\ frames = <<>>
  /\ localPrefixes = <<>> /\ fib = <<>>
  /\ calc = "idle" /\ sources = {} /\ todo = {} /\ originalMetrics = <<>>
  /\ count = [calcs |-> 0, changes |-> 0, last |-> "none"]

\* The stack on every node: a face per device.
Build(net) ==
  /\ channels = <<>>
  /\ channels' = net.channels
  /\ metric' = net.metric /\ configured' = net.metric
  /\ incidencies' = [r \in {Node(n) : n \in Nodes'} \cup {Channel(c) : c \in DOMAIN channels'}
                      |-> {}]
  /\ localPrefixes' = [n \in Nodes' |-> {}]
  /\ fib' = [f \in Faces' |-> [p \in Names |-> NoRoute]]
  /\ UNCHANGED <<routers, frames, calcVars, count>>

-----------------------------------------------------------------------------
(* Install.  It calls itself for the nodes and channels it meets. *)

Idle == channels # <<>> /\ frames = <<>> /\ calc = "idle"

IsP2p(c) == Len(channels[c]) = 2

DevicesAt(r) == IF r[1] = "node" THEN FacesOf(r[2]) ELSE {f \in Faces : f[1] = r[2]}

\* Slip: the first device of a channel is taken for the other side.
FirstDevice(f) == Node(channels[f[1]][1])

\* The router that the face of a node leads to.
OtherSide(f) ==
  IF IsP2p(f[1]) THEN Node(NodeOf(CHOOSE g \in OtherSides(f) : TRUE)) ELSE Channel(f[1])

Target(r, f) == IF r[1] = "node" THEN OtherSide(f) ELSE Node(NodeOf(f))

\* The router is aggregated before the faces are scanned, so that the calls end.
Call(r) ==
  /\ routers' = routers \cup {r}
  /\ frames' = <<[at |-> r, todo |-> DevicesAt(r)]>> \o frames

Install(n) ==
  /\ Idle
  /\ Node(n) \notin routers
  /\ Call(Node(n))
  /\ count' = [count EXCEPT !.last = "none"]
  /\ UNCHANGED <<channels, incidencies, metric, configured, localPrefixes, fib, calcVars>>

\* What a frame does next.
Caller == frames[1].at
NextDevice == First(frames[1].todo)
Callee == Target(Caller, NextDevice)

InstallOther ==
  /\ frames # <<>> /\ frames[1].todo # {}
  /\ Callee \notin routers
  /\ Call(Callee)
  /\ UNCHANGED <<channels, incidencies, metric, configured, localPrefixes, fib, calcVars, count>>

AddIncidency ==
  /\ frames # <<>> /\ frames[1].todo # {}
  /\ Callee \in routers
  /\ incidencies' = [incidencies EXCEPT ![Caller] =
       @ \cup {<<IF Caller[1] = "node" THEN NextDevice ELSE NoFace, Callee>>}]
  /\ frames' = [frames EXCEPT ![1].todo = @ \ {NextDevice}]
  /\ UNCHANGED <<channels, routers, metric, configured, localPrefixes, fib, calcVars, count>>

Return ==
  /\ frames # <<>> /\ frames[1].todo = {}
  /\ frames' = Tail(frames)
  /\ UNCHANGED <<channels, routers, incidencies, metric, configured, localPrefixes, fib,
                 calcVars, count>>

Origins(p) == {n \in Nodes : p \in localPrefixes[n]}

AddOrigin(p, n) ==
  /\ Idle
  /\ Node(n) \in routers
  /\ MapThenSumSet(LAMBDA x : Cardinality(localPrefixes[x]), Nodes) < MaxOrigins
  /\ localPrefixes' = [localPrefixes EXCEPT ![n] = @ \cup {p}]
  /\ count' = [count EXCEPT !.last = "none"]
  /\ UNCHANGED <<graphVars, metric, configured, fib, calcVars>>

-----------------------------------------------------------------------------
(* Dijkstra over the routers, as the graph adapter presents them. *)

WeightZero == <<NoFace, 0>>

\* Slip: the last face of a path instead of the first.
CombineLast(a, b) == <<IF b[1] = NoFace THEN a[1] ELSE b[1], a[2] + b[2]>>

\* A path's weight is its first face and the sum of its metrics.
WeightCombine(a, b) == <<IF a[1] = NoFace THEN b[1] ELSE a[1], a[2] + b[2]>>

\* m is the metrics while Dijkstra runs; the adapter converts them.
EdgeWeight(m, e) == <<e[1], IF e[1] = NoFace THEN 0 ELSE Uint16(m[e[1]])>>

\* Ends, visited routers and weights of the paths that start at s.
PathsFrom(m, s) ==
  LET P[k \in 0 .. Cardinality(routers)] ==
        IF k = 0 THEN {[at |-> s, seen |-> {s}, weight |-> WeightZero]}
        ELSE UNION {{[at |-> e[2], seen |-> x.seen \cup {e[2]},
                      weight |-> WeightCombine(x.weight, EdgeWeight(m, e))] :
                     e \in {i \in incidencies[x.at] : i[2] \notin x.seen}} : x \in P[k - 1]}
  IN  UNION {P[k] : k \in 1 .. Cardinality(routers)}

\* Dijkstra starts from infinite distances: a path has to be shorter to count.
Finite(m, s) == {x \in PathsFrom(m, s) : x.weight[2] < WeightInf}

\* distances: for every origin that is reached from n, one of its shortest weights.
\* Which one is up to the order of the routers' addresses.
Distances(m, n) ==
  LET paths == Finite(m, Node(n))
      reached == {o \in Nodes \ {n} : localPrefixes[o] # {} /\ \E x \in paths : x.at = Node(o)}
      Best(o) == LET ws == {x.weight : x \in {y \in paths : y.at = Node(o)}}
                 IN  {w \in ws : \A v \in ws : w[2] <= v[2]}
  IN  {d \in [reached -> UNION {Best(o) : o \in reached}] : \A o \in reached : d[o] \in Best(o)}

\* One AddRoute per reached origin and prefix of it, in the order of the map: a
\* later one with the same face and prefix replaces the cost.  Faces with the metric
\* Disabled are left out (CalculateRoutes does not look at that: skip is FALSE).
AddRoutes(m, d, skip) ==
  \E order \in {o \in [DOMAIN d -> 1 .. Cardinality(DOMAIN d)] : IsInjective(o)} :
    fib' = [f \in Faces |-> [p \in Names |->
      LET via == {o \in DOMAIN d : /\ d[o][1] = f /\ p \in localPrefixes[o]
                                  /\ ~(skip /\ m[f] = Disabled)}
          last == CHOOSE o \in via : \A x \in via : order[x] <= order[o]
      IN  IF via = {} THEN fib[f][p] ELSE d[last][2]]]

-----------------------------------------------------------------------------
(* The calculations: one source after the other. *)

Start(kind) ==
  /\ Idle
  /\ count.calcs < MaxCalculations
  /\ calc' = kind /\ sources' = Sources
  /\ count' = [count EXCEPT !.calcs = @ + 1]
  /\ UNCHANGED <<graphVars, metric, configured, localPrefixes, fib, todo, originalMetrics>>

CalculateRoutes == Start("plain")
CalculateAllPossibleRoutes == Start("all")

RoutesOf(n) ==
  /\ calc = "plain"
  /\ n \in sources
  /\ \E d \in Distances(metric, n) : AddRoutes(metric, d, FALSE)
  /\ sources' = sources \ {n}
  /\ UNCHANGED <<graphVars, metric, configured, localPrefixes, calc, todo, originalMetrics, count>>

\* Remember the metrics of a node, in 16 bits, and disable all its faces.
DisableFaces(n) ==
  /\ calc = "all" /\ originalMetrics = <<>>
  /\ n \in sources
  /\ originalMetrics' = [f \in FacesOf(n) |-> Uint16(metric[f])]
  /\ metric' = [f \in Faces |-> IF f \in FacesOf(n) THEN Disabled ELSE metric[f]]
  /\ todo' = FacesOf(n)
  /\ UNCHANGED <<graphVars, configured, localPrefixes, fib, calc, sources, count>>

\* Slip: the metric of the face is not taken away again.
StaysEnabled(f) == metric' = [metric EXCEPT ![f] = originalMetrics[f]]

\* After its run of Dijkstra a face is disabled again.
DisableAgain(f) == metric' = metric

RoutesVia(f) ==
  /\ f \in todo
  /\ LET enabled == [metric EXCEPT ![f] = originalMetrics[f]]
     IN  \E d \in Distances(enabled, NodeOf(f)) : AddRoutes(enabled, d, TRUE)
  /\ DisableAgain(f)
  /\ todo' = todo \ {f}
  /\ UNCHANGED <<graphVars, configured, localPrefixes, calc, sources, originalMetrics, count>>

\* Slip: the faces that were used keep the metric Disabled.
RecoverNothing(f) == metric[f]

Recovered(f) == IF f \in DOMAIN originalMetrics THEN originalMetrics[f] ELSE metric[f]

RecoverMetrics ==
  /\ originalMetrics # <<>> /\ todo = {}
  /\ metric' = [f \in Faces |-> Recovered(f)]
  /\ sources' = {n \in sources : FacesOf(n) # DOMAIN originalMetrics}
  /\ originalMetrics' = <<>>
  /\ UNCHANGED <<graphVars, configured, localPrefixes, fib, calc, todo, count>>

Finish ==
  /\ calc # "idle" /\ sources = {}
  /\ calc' = "idle"
  /\ count' = [count EXCEPT !.last = calc]
  /\ UNCHANGED <<graphVars, metric, configured, localPrefixes, fib, sources, todo, originalMetrics>>

\* The scenario changes metrics and may calculate again.
ChangeMetrics(new, conf) ==
  /\ Idle
  /\ count.changes < MaxChanges /\ count.calcs > 0
  /\ metric' = new /\ configured' = conf
  /\ count' = [count EXCEPT !.changes = @ + 1, !.last = "none"]
  /\ UNCHANGED <<graphVars, localPrefixes, fib, calcVars>>

SetMetric(f, m) ==
  /\ m # metric[f]
  /\ ChangeMetrics([metric EXCEPT ![f] = m], [configured EXCEPT ![f] = m])

\* StackHelper: the delay of its channel in whole milliseconds becomes the metric of a
\* face; every channel has to be point to point.
SetLinkDelayAsFaceMetric(delay) ==
  /\ \A c \in DOMAIN channels : IsP2p(c)
  /\ LET new == [f \in Faces |-> delay[f[1]] \div 1000]
     IN  ChangeMetrics(new, new)

RoutingStep ==
  \/ \E n \in Nodes : Install(n)
  \/ InstallOther \/ AddIncidency \/ Return
  \/ \E p \in Names, n \in Nodes : AddOrigin(p, n)
  \/ CalculateRoutes \/ CalculateAllPossibleRoutes
  \/ sources # {} /\ (RoutesOf(Min(sources)) \/ DisableFaces(Min(sources)))
  \/ todo # {} /\ RoutesVia(First(todo))
  \/ RecoverMetrics \/ Finish
  \/ \E f \in Faces, m \in Metrics : SetMetric(f, m)
  \/ \E delay \in [DOMAIN channels -> LinkDelays] : SetLinkDelayAsFaceMetric(delay)

RoutingNext == RoutingStep \/ \E net \in Networks : Build(net)

RoutingSpec == RoutingInit /\ [][RoutingNext]_routingVars

-----------------------------------------------------------------------------
(* Properties. *)

\* Install, also where it calls itself through nodes and channels, leaves the graph
\* of the network: on every connected node a GlobalRouter with an edge per face.
GraphMirrorsNetwork ==
  frames = <<>> =>
    /\ \A n \in Sources : incidencies[Node(n)] = {<<f, OtherSide(f)>> : f \in FacesOf(n)}
    /\ \A c \in {x \in DOMAIN channels : Channel(x) \in routers} :
         incidencies[Channel(c)] = {<<NoFace, Node(channels[c][i])>> : i \in DOMAIN channels[c]}
    /\ \A n \in Sources : \A f \in FacesOf(n) : \A g \in OtherSides(f) : NodeOf(g) \in Sources

\* Metrics are only borrowed by CalculateAllPossibleRoutes: the faces of the node it
\* works on are disabled, and every other metric is the one the scenario configured, or
\* what is left of one that is too large for the 16 bits it is remembered in.
MetricsBorrowed ==
  \A f \in Faces : metric[f] # configured[f] =>
    \/ calc = "all" /\ f \in DOMAIN originalMetrics /\ metric[f] = Disabled
    \/ configured[f] > WeightInf /\ metric[f] = Uint16(configured[f])

\* The cost of the cheapest way from each node to node o that avoids the nodes in
\* avoid, computed from the network itself by relaxing every face in turn.
CostTo(o, avoid) ==
  LET C[k \in 0 .. Cardinality(Nodes)] ==
        IF k = 0 THEN [n \in Nodes |-> IF n = o THEN 0 ELSE WeightInf]
        ELSE LET prev == C[k - 1]
             IN  [n \in Nodes |-> IF n \in avoid THEN WeightInf ELSE Min({prev[n]} \cup
                    UNION {{Uint16(configured[f]) + prev[NodeOf(g)] : g \in OtherSides(f)} :
                             f \in FacesOf(n)})]
  IN  C[Cardinality(Nodes)]

\* Cost of reaching o over face f without coming back to its node.
CostVia(f, o) ==
  LET without == CostTo(o, {NodeOf(f)})
  IN  Uint16(configured[f]) + Min({WeightInf} \cup {without[NodeOf(g)] : g \in OtherSides(f)})

\* What the next hops of face f for prefix p may cost.
CostsVia(f, p) == {CostVia(f, o) : o \in Origins(p) \ {NodeOf(f)}} \cap 0 .. Disabled

\* After CalculateAllPossibleRoutes the next hops of a node are exactly the faces
\* over which an origin is reached without coming back, each at its cost; after a
\* change of metrics a next hop that lost its origin is the only thing left over.  At a
\* cost of Disabled a way over a disabled face can be as short: a next hop may be there.
AllRoutesExact ==
  Idle /\ count.last = "all" =>
    \A p \in Names : \A f \in {x \in Faces : NodeOf(x) \in Sources} :
      IF CostsVia(f, p) \ {Disabled} # {} THEN fib[f][p] \in CostsVia(f, p)
      ELSE count.changes > 0 \/ fib[f][p] \in CostsVia(f, p) \cup {NoRoute}

\* Whether the shortest path from the node of face f to o can start with f.
StartsWith(f, o) == CostVia(f, o) = CostTo(o, {})[NodeOf(f)]

\* After CalculateRoutes every node has a next hop to each origin it can reach: a face
\* with which a shortest path to that origin starts.  Its cost is that path's, or, as
\* there is one cost per face and prefix, that of the shortest path to another origin
\* over the same face.  Unless metrics changed, every next hop leads to an origin at
\* its cost.
ShortestRouted ==
  Idle /\ count.last = "plain" =>
    \A p \in Names : \A n \in Sources :
      LET near == {o \in Origins(p) \ {n} : CostTo(o, {})[n] < WeightInf}
      IN  /\ \A o \in near : \E f \in FacesOf(n), x \in near :
               StartsWith(f, o) /\ StartsWith(f, x) /\ fib[f][p] = CostTo(x, {})[n]
          /\ count.changes = 0 =>
               \A f \in FacesOf(n) : fib[f][p] \in CostsVia(f, p) \cup {NoRoute}
=============================================================================
