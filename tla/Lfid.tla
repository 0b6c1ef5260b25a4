-------------------------------- MODULE Lfid --------------------------------
(***************************************************************************)
(* LFID routing (GlobalRoutingHelper::CalculateLfidRoutes): multipath      *)
(* routes towards one destination.  Every node first gets all neighbours   *)
(* that reach the destination without it, classed as downward (nearer to   *)
(* the destination) or upward; removeLoops then erases the upward next     *)
(* hops whose traffic could come back, removeDeadEnds those that can only  *)
(* send it back.  The destinations are independent of each other: the code *)
(* loops over them, the model is one iteration.                            *)
(*                                                                         *)
(* External: the graph library's Dijkstra, used for its result.            *)
(***************************************************************************)
EXTENDS Integers, FiniteSets, FiniteSetsExt

CONSTANTS
  Dst,         \* the destination
  Topologies,  \* nodes, those of them that ns3::Names knows, and the metric of each
               \* link, that is of each pair of nodes
  NodeIdLimit  \* NODE_ID_LIMIT of FibNextHop, 1000 in the code

\* The largest node id and number of nodes that checkInputs allows.
MaxSize == 100000

\* Bound: with a larger metric the code's sum of two ints overflows.
MaxMetric == 2147483647 - 65535

ASSUME LfidAssumption ==
  /\ NodeIdLimit \in Nat
  /\ \A t \in Topologies :
       /\ t.nodes \subseteq Nat /\ IsFiniteSet(t.nodes) /\ Dst \in t.nodes
       /\ \A l \in DOMAIN t.metric : /\ l \in kSubset(2, t.nodes)
                                     /\ t.metric[l] \in 0 .. MaxMetric

Inf == 65535     \* boost::WeightInf
MaxCost == 1000000     \* FibNextHop::MAX_COST

VARIABLES
  topo,    \* the topology; a link has the same metric in both directions
  phase,   \* what CalculateLfidRoutes is at
  dist,    \* distMap: cost of the shortest path to Dst
  fib,     \* perDstFib of each node's AbstractFib: set of FibNextHop
  dg,      \* the DiGraph of removeLoops
  q,       \* its priority queue of NodePrio
  nhSet    \* the set<pair<int, FibNextHop>> of removeDeadEnds

vars == <<topo, phase, dist, fib, dg, q, nhSet>>

Nodes == topo.nodes
Sources == Nodes \ {Dst}
Metric(n, m) == topo.metric[{n, m}]
Neighbors(n) == {m \in Nodes \ {n} : {n, m} \in DOMAIN topo.metric}

\* The graph adapter's cast of a face metric to uint16_t.
Weight(n, m) == Metric(n, m) % 65536

\* checkInputs; a node without links is only reported.
CheckInputs(n) ==
  n \in 0 .. MaxSize /\ n \in topo.named /\ Cardinality(Nodes) \in 2 .. MaxSize

\* createEmptyFib.
EmptyFib == [n \in Sources |-> {}]

Init ==
  /\ topo \in Topologies
  /\ phase = "fill"
  /\ dist = [n \in Nodes |-> Inf] /\ fib = EmptyFib
  /\ dg = {} /\ q = {} /\ nhSet = {}

-----------------------------------------------------------------------------
(* The initial FIB. *)

\* The costs of the shortest paths to Dst of one link more, for the nodes of V and
\* through them.
Relaxed(V, costs) ==
  [n \in V |-> Min({costs[n]} \cup {costs[m] + Weight(n, m) : m \in Neighbors(n) \cap V})]

\* Cost of the shortest path to Dst, for the nodes of V and through them.
DistIn(V) ==
  LET D[k \in Nat] == IF k = 0 THEN [n \in V |-> IF n = Dst THEN 0 ELSE Inf]
                      ELSE Relaxed(V, D[k - 1])
  IN  D[Cardinality(V)]

\* Slip: a neighbour at the same distance counts as nearer.
NotFurther(cost, sp) == cost <= sp

\* A neighbour that is nearer to the destination is a DOWNWARD next hop.
IsDownward(cost, sp) == cost < sp

FibNextHop(cost, nh, delta, up) == [nh |-> nh, cost |-> cost, delta |-> delta, up |-> up]

\* What its constructor asserts.
Constructible(h) == h.cost \in 1 .. MaxCost /\ h.nh \in 0 .. NodeIdLimit

\* The FibNextHops of n: the neighbours that reach Dst while the links of n are
\* set to infinity, that is without n.  The cost of the link is its whole metric.
NextHopsOf(n) ==
  LET without == DistIn(Nodes \ {n})
  IN  {FibNextHop(without[m] + Metric(n, m), m, without[m] + Metric(n, m) - dist'[n],
                  ~IsDownward(without[m], dist'[n]))
       : m \in {x \in Neighbors(n) : without[x] + Metric(n, x) < Inf}}

\* What is asserted of a next hop of n before it is in its FIB: that it costs no less
\* than the shortest path, what the constructor says, and that it is not n itself.
Insertable(n, h) == h.delta >= 0 /\ Constructible(h) /\ h.nh # n

\* checkFib: what reaches the destination at all has a way down, and a neighbour is
\* one next hop only.
CheckFib(hops) ==
  /\ \A h \in hops : h.cost \in 1 .. MaxCost - 1
  /\ hops # {} => \E h \in hops : ~h.up
  /\ \A h, o \in hops : h.nh = o.nh => h = o

Upward(n) == {h \in fib[n] : h.up}
FibArcs == UNION {{<<n, h.nh>> : h \in fib[n]} : n \in Sources}

FillFib ==
  /\ phase = "fill"
  /\ dist' = DistIn(Nodes)
  /\ fib' = [n \in Sources |-> NextHopsOf(n)]
  /\ phase' = IF /\ \A n \in Nodes : CheckInputs(n)
                 /\ \A n \in Sources : /\ \A h \in fib'[n] : Insertable(n, h)
                                       /\ CheckFib(fib'[n])
              THEN "graph" ELSE "asserted"
  /\ UNCHANGED <<topo, dg, q, nhSet>>

-----------------------------------------------------------------------------
(* removeLoops. *)

\* What the constructor of NodePrio and reduceRemainingNh assert.
Prioritized(p) == p.remaining > 0 /\ Cardinality(p.uw) < p.remaining

\* Steps 1 and 2: the digraph of the FIB, and a NodePrio per node with upward
\* next hops.
FillQueue ==
  /\ phase = "graph"
  /\ dg' = FibArcs
  /\ q' = {[id |-> n, remaining |-> Cardinality(fib[n]), uw |-> Upward(n)]
            : n \in {x \in Sources : Upward(x) # {}}}
  /\ phase' = IF \A p \in q' : Prioritized(p) THEN "loops" ELSE "asserted"
  /\ UNCHANGED <<topo, dist, fib, nhSet>>

\* operator< of FibNextHop: by (costDelta, cost, id).
NhBefore(a, b) ==
  \/ a.delta < b.delta
  \/ a.delta = b.delta /\ (a.cost < b.cost \/ (a.cost = b.cost /\ a.nh < b.nh))

HighestCostUw(p) == CHOOSE h \in p.uw : \A o \in p.uw \ {h} : NhBefore(o, h)

\* operator< of NodePrio: by (remaining next hops, highest upward one, id).
PrioBefore(a, b) ==
  LET x == HighestCostUw(a)
      y == HighestCostUw(b)
  IN  \/ a.remaining < b.remaining
      \/ /\ a.remaining = b.remaining
         /\ NhBefore(x, y) \/ (~NhBefore(y, x) /\ a.id < b.id)

Top == CHOOSE p \in q : \A o \in q \ {p} : PrioBefore(o, p)

\* There are arcs from j to i: every set of nodes with j but not i is left by an arc.
Reaches(arcs, j, i) ==
  \A V \in SUBSET (Nodes \ {i}) : j \in V => \E a \in arcs : a[1] \in V /\ a[2] \notin V

\* Slip: the opposite arc is not put back.
ReverseLost(i, j, g) == g

\* The opposite arc, taken out for the loop check, is put back if there was one.
PutBackReverse(i, j, g) == IF <<j, i>> \in dg THEN g \cup {<<j, i>>} ELSE g

\* Slip: the loop check looks at loops of three nodes only.
WillLoopShort(i, j) == \E k \in Nodes : {<<j, k>>, <<k, i>>} \subseteq dg

\* Could what i sends to j come back to i, other than from j itself?
WillLoop(i, j) == Reaches(dg \ {<<j, i>>}, j, i)

\* reduceRemainingNh.
Remaining(p, loops) == IF loops THEN p.remaining - 1 ELSE p.remaining

\* Slip: the next hop looked at stays in the NodePrio.
UwKept(p, h) == p.uw

\* popHighestCostUw.
UwWithout(p, h) == p.uw \ {h}

\* AbstractFib::erase of the next hop of n: nothing if there is none, and an assertion
\* says that it is an upward one.
Erase(n, nh) == [fib EXCEPT ![n] = {h \in @ : h.nh # nh}]
Erasable(n, nh) == \A h \in fib[n] : h.nh = nh => h.up

\* One iteration of the while loop.  NS_ABORT_UNLESS(res.second) ends the program
\* if a looping next hop has no opposite arc.
RemoveLoop ==
  /\ phase = "loops" /\ q # {}
  /\ LET p == Top
         i == p.id
         h == HighestCostUw(p)
         j == h.nh
         loops == WillLoop(i, j)
         uw == UwWithout(p, h)
         left == [id |-> i, remaining |-> Remaining(p, loops), uw |-> uw]
     IN  IF loops /\ ~(Prioritized(left) /\ Erasable(i, j))
           THEN phase' = "asserted" /\ UNCHANGED <<fib, dg, q>>
         ELSE IF loops /\ <<j, i>> \notin dg
           THEN phase' = "aborted" /\ UNCHANGED <<fib, dg, q>>
           ELSE /\ fib' = IF loops THEN Erase(i, j) ELSE fib
                /\ dg' = PutBackReverse(i, j, dg \ (IF loops THEN {<<i, j>>, <<j, i>>}
                                                             ELSE {<<j, i>>}))
                /\ q' = (q \ {p}) \cup
                        (IF uw = {} THEN {} ELSE {left})
                /\ UNCHANGED phase
  /\ UNCHANGED <<topo, dist, nhSet>>

-----------------------------------------------------------------------------
(* removeDeadEnds. *)

\* Step 1: all upward next hops.
FillNhSet ==
  /\ phase = "loops" /\ q = {}
  /\ nhSet' = UNION {{<<n, h>> : h \in Upward(n)} : n \in Sources}
  /\ phase' = "deadends"
  /\ UNCHANGED <<topo, dist, fib, dg, q>>

\* begin() of the set: the lowest node id, then the lowest cost.
First ==
  CHOOSE x \in nhSet : \A y \in nhSet \ {x} :
    x[1] < y[1] \/ (x[1] = y[1] /\ NhBefore(x[2], y[2]))

\* Slip: nothing is looked at again.
NothingAgain(i) == {}

\* The next hops that lead to i, at the neighbours i leads down to: they are
\* looked at again when i loses a next hop.
LeadingTo(i) ==
  UNION {{<<d.nh, y>> : y \in {z \in fib[d.nh] : z.nh = i}}
         : d \in {x \in fib[i] : ~x.up /\ x.nh # Dst}}

\* The neighbour may have another next hop than the one back.
LeadsOn(j) == j = Dst \/ Cardinality(fib[j]) > 1

\* One iteration: the next hop is erased if the neighbour has only one itself.
RemoveDeadEnd ==
  /\ phase = "deadends" /\ nhSet # {}
  /\ LET i == First[1]
         h == First[2]
         again == LeadingTo(i)
     IN  IF LeadsOn(h.nh)
           THEN nhSet' = nhSet \ {First} /\ UNCHANGED <<phase, fib>>
           ELSE IF fib[h.nh] = {} \/ ~Erasable(i, h.nh) \/ \E x \in again : ~x[2].up
                  THEN phase' = "asserted" /\ UNCHANGED <<fib, nhSet>>
                  ELSE /\ fib' = Erase(i, h.nh)
                       /\ nhSet' = (nhSet \ {First}) \cup again
                       /\ UNCHANGED phase
  /\ UNCHANGED <<topo, dist, dg, q>>

\* Step 5: the abstract FIB is what is installed.
Install ==
  /\ phase = "deadends" /\ nhSet = {}
  /\ phase' = "installed"
  /\ UNCHANGED <<topo, dist, fib, dg, q, nhSet>>

Next ==
  FillFib \/ FillQueue \/ RemoveLoop \/ FillNhSet \/ RemoveDeadEnd \/ Install

Spec == Init /\ [][Next]_vars

-----------------------------------------------------------------------------
(* Properties. *)

Hops == UNION {{<<n, h>> : h \in fib[n]} : n \in Sources}

\* The digraph the loop check searches is the one of the FIB.
DigraphMirrorsFib == phase = "loops" => dg = FibArcs

\* CalculateLfidRoutes is said to calculate "a set of loop-free multipath routes":
\* what is sent on an upward next hop cannot come back, unless straight from that
\* next hop.
LoopFree ==
  phase = "installed" =>
    \A x \in Hops :
      x[2].up => ~Reaches(FibArcs \ {<<x[2].nh, x[1]>>}, x[2].nh, x[1])

\* What the assertions ask of a scenario: nodes with names and small ids, and metrics
\* that are positive and fit the 16 bits the shortest paths are calculated with.
Fit16Bits(metric) == \A l \in DOMAIN metric : 0 < metric[l] /\ metric[l] < 65536
WellFormed(t) ==
  /\ t.nodes \subseteq t.named
  /\ t.nodes \subseteq 0 .. NodeIdLimit /\ t.nodes \subseteq 0 .. MaxSize
  /\ Cardinality(t.nodes) \in 2 .. MaxSize
  /\ Fit16Bits(t.metric)

\* All next hops classed as downward are nearer to the destination: following them
\* ends at Dst.  In a well-formed scenario every node that can reach the destination
\* keeps one, and no assertion of AbstractFib, FibNextHop or NodePrio ends the program:
\* a FIB has a way down, fewer upward next hops than all, and loses only upward ones.
\* With a metric of 65536 or more neither is certain: the shortest path is calculated
\* from its low 16 bits, while the next hop it leads over is skipped.
DownwardDescends ==
  phase # "fill" =>
    /\ WellFormed(topo) =>
         /\ phase # "asserted"
         /\ \A n \in Sources : dist[n] < Inf => \E h \in fib[n] : ~h.up
    /\ phase # "asserted" =>
         \A x \in Hops : ~x[2].up => dist[x[2].nh] < dist[x[1]]

\* An installed upward next hop leads somewhere else than back.
NoDeadEnds ==
  phase = "installed" =>
    \A x \in Hops : x[2].up /\ x[2].nh # Dst => \E h \in fib[x[2].nh] : h.nh # x[1]

\* NS_ABORT_UNLESS(res.second): a looping next hop has an opposite arc.
NoAbort == phase # "aborted"

\* Both queues get back part of what was taken out, yet the calculation ends:
\* an iteration of removeLoops leaves fewer next hops to look at, one of
\* removeDeadEnds fewer in the FIB or, with the same FIB, fewer to look at.
Queued == UNION {{<<p.id, h>> : h \in p.uw} : p \in q}
Smaller(new, old) == new \subseteq old /\ new # old
Progress ==
  [][/\ phase = "loops" /\ phase' = "loops" => Smaller(Queued', Queued)
     /\ phase = "deadends" /\ phase' = "deadends" =>
          Smaller(Hops', Hops) \/ (Hops' = Hops /\ Smaller(nhSet', nhSet))]_vars
=============================================================================
