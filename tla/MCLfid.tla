------------------------------- MODULE MCLfid -------------------------------
(* Topologies for model checking Lfid. *)
EXTENDS Lfid

\* A topology of nodes 0 to n that have names.
Named(n, metric) == [nodes |-> 0 .. n, named |-> 0 .. n, metric |-> metric]

\* Every one with some of the links and metrics 1 and 2.
Over(n, links) == {Named(n, f) : f \in UNION {[L -> {1, 2}] : L \in SUBSET links}}

FourNodes == Over(3, kSubset(2, 0 .. 3))

FiveNodes == Over(4, kSubset(2, 0 .. 4) \ {{0, 3}, {0, 4}})

\* The topologies with some of the links of one of seven nodes, in which
\* removeDeadEnds has to look again at a next hop it had passed.
SevenNodes ==
  LET metricOf(l) == CASE l \in {{0, 2}, {1, 5}, {4, 5}} -> 1
                       [] l \in {{0, 3}, {4, 6}, {5, 6}} -> 2
                       [] l \in {{3, 6}, {1, 6}} -> 3
                       [] l = {1, 2} -> 4
      links == {{0, 2}, {1, 5}, {4, 5}, {0, 3}, {4, 6}, {5, 6}, {3, 6}, {1, 6}, {1, 2}}
  IN  {Named(6, [l \in L |-> metricOf(l)]) : L \in SUBSET links}

\* Topologies of three nodes with metrics that do not fit 16 bits, or are zero, and
\* others that checkInputs and FibNextHop reject: with a nameless node, with one that
\* has a too large id, with one node.
IllFormed ==
  LET links == kSubset(2, 0 .. 2)
      one(n) == [l \in {{0, n}} |-> 1]
  IN  {Named(2, f) : f \in UNION {[L -> {0, 1, 65535, 65536, 65537}] : L \in SUBSET links}}
      \cup {[Named(1, one(1)) EXCEPT !.named = {n}] : n \in {0, 1}}
      \cup {Named(7, one(7)), Named(0, << >>)}

AllTopologies == FiveNodes \cup SevenNodes \cup IllFormed
=============================================================================
