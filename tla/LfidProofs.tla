----------------------------- MODULE LfidProofs -----------------------------
(***************************************************************************)
(* Proofs about LFID routing, for every topology and destination.  That    *)
(* routes are loop-free and lead on holds whichever element the priority   *)
(* queue or the set yields first: LfidInv.  That the assertions hold rests *)
(* on the distances: DownInv, from what the rounds of a shortest path      *)
(* relaxation (Rounds) say with and without a node (PathsOf).              *)
(***************************************************************************)
EXTENDS Lfid, Iterations, FiniteSetTheorems

-----------------------------------------------------------------------------
(* Shortest paths. *)

\* What the cast of a metric to 16 bits keeps.
LEMMA Low16Bits ==
  ASSUME NEW c \in Nat
  PROVE  /\ c % 65536 \in Nat /\ c % 65536 <= c
         /\ 0 < c /\ c < 65536 => c % 65536 = c /\ c % 65536 # 0
OBVIOUS

LEMMA Fits ==
  ASSUME NEW f, Fit16Bits(f), NEW l \in DOMAIN f
  PROVE  0 < f[l] /\ f[l] < 65536
BY DEF Fit16Bits

LEMMA TopologyFacts ==
  ASSUME topo \in Topologies
  PROVE  /\ Nodes \subseteq Nat /\ Dst \in Nodes
         /\ IsFiniteSet(Nodes) /\ Cardinality(Nodes) \in Nat \ {0}
         /\ \A n, m \in Nodes : m \in Neighbors(n) =>
              /\ n # m /\ Weight(n, m) \in Nat /\ Metric(n, m) \in Nat
              /\ Weight(n, m) <= Metric(n, m)
              /\ WellFormed(topo) => Weight(n, m) = Metric(n, m) /\ Weight(n, m) # 0
<1>1. /\ Nodes \subseteq Nat /\ IsFiniteSet(Nodes) /\ Dst \in Nodes
      /\ \A l \in DOMAIN topo.metric : topo.metric[l] \in Nat
  <2>1. MaxMetric \in Nat
    BY SMT DEF MaxMetric
  <2>2. 0 .. MaxMetric \subseteq Nat
    BY <2>1
  <2> QED
    BY <2>2, LfidAssumption DEF Nodes
<1>2. Cardinality(Nodes) \in Nat /\ Cardinality(Nodes) # 0
  BY <1>1, FS_CardinalityType, FS_EmptySet
<1>3. ASSUME NEW n \in Nodes, NEW m \in Nodes, m \in Neighbors(n)
      PROVE  /\ n # m /\ Weight(n, m) \in Nat /\ Metric(n, m) \in Nat
             /\ Weight(n, m) <= Metric(n, m)
             /\ WellFormed(topo) => Weight(n, m) = Metric(n, m) /\ Weight(n, m) # 0
  <2>1. n # m /\ {n, m} \in DOMAIN topo.metric /\ Metric(n, m) = topo.metric[{n, m}]
    BY <1>3 DEF Neighbors, Metric
  <2>2. PICK c : c = Metric(n, m)
    OBVIOUS
  <2>3. c \in Nat /\ Weight(n, m) = c % 65536
    BY <1>1, <2>1, <2>2 DEF Weight
  <2>4. ASSUME WellFormed(topo) PROVE 0 < c /\ c < 65536
    <3>1. PICK f : f = topo.metric
      OBVIOUS
    <3>2. Fit16Bits(f) /\ {n, m} \in DOMAIN f /\ f[{n, m}] = c
      BY <2>1, <2>2, <2>4, <3>1 DEF WellFormed
    <3> QED
      BY <3>2, Fits
  <2>5. PICK w : w = c % 65536
    OBVIOUS
  <2>6. /\ w \in Nat /\ w <= c
        /\ 0 < c /\ c < 65536 => w = c /\ w # 0
    BY <2>3, <2>5, Low16Bits
  <2> QED
    BY <2>1, <2>2, <2>3, <2>4, <2>5, <2>6
<1> QED
  BY <1>1, <1>2, <1>3

\* The rounds of the relaxation of V: each cost is the least of those before and those
\* of one link more.
Rounds(g, V) ==
  /\ \A k \in Nat : \A n \in V : g[k][n] \in Nat
  /\ \A n \in V : g[0][n] = (IF n = Dst THEN 0 ELSE Inf)
  /\ \A k \in Nat : \A n \in V :
       /\ g[k + 1][n] <= g[k][n]
       /\ \A m \in Neighbors(n) \cap V : g[k + 1][n] <= g[k][m] + Weight(n, m)
       /\ \/ g[k + 1][n] = g[k][n]
          \/ \E m \in Neighbors(n) \cap V : g[k + 1][n] = g[k][m] + Weight(n, m)

LEMMA RelaxedLeast ==
  ASSUME topo \in Topologies, NEW V, V \subseteq Nodes, NEW c \in [V -> Nat], NEW n \in V
  PROVE  /\ Relaxed(V, c)[n] \in Nat /\ Relaxed(V, c)[n] <= c[n]
         /\ \A m \in Neighbors(n) \cap V : Relaxed(V, c)[n] <= c[m] + Weight(n, m)
         /\ \/ Relaxed(V, c)[n] = c[n]
            \/ \E m \in Neighbors(n) \cap V : Relaxed(V, c)[n] = c[m] + Weight(n, m)
<1> DEFINE C == {c[n]} \cup {c[m] + Weight(n, m) : m \in Neighbors(n) \cap V}
<1>1. \A m \in Neighbors(n) \cap V : Weight(n, m) \in Nat
  BY TopologyFacts
<1>2. C \subseteq Nat /\ C # {}
  BY <1>1
<1>3. \E x \in C : \A y \in C : x <= y
  <2> HIDE DEF C
  <2> QED
    BY <1>2, LeastOf
<1>4. Min(C) \in C /\ \A y \in C : Min(C) <= y
  <2> HIDE DEF C
  <2> QED
    BY <1>3 DEF Min
<1>5. Relaxed(V, c)[n] = Min(C)
  BY DEF Relaxed
<1> PICK x : x = Min(C)
  OBVIOUS
<1>6. x \in C /\ (\A y \in C : x <= y) /\ x = Relaxed(V, c)[n]
  BY <1>4, <1>5
<1> QED
  BY <1>2, <1>6

LEMMA DistInRounds ==
  ASSUME topo \in Topologies, NEW V, V \subseteq Nodes
  PROVE  \E g : Rounds(g, V) /\ DOMAIN DistIn(V) = V /\ DistIn(V) = g[Cardinality(V)]
<1> DEFINE start == [n \in V |-> IF n = Dst THEN 0 ELSE Inf]
           F == [c \in [V -> Nat] |-> Relaxed(V, c)]
<1>1. F \in [[V -> Nat] -> [V -> Nat]]
  <2>1. ASSUME NEW c \in [V -> Nat] PROVE Relaxed(V, c) \in [V -> Nat]
    <3>1. \A n \in V : Relaxed(V, c)[n] \in Nat
      BY RelaxedLeast
    <3>2. Relaxed(V, c) = [n \in V |-> Relaxed(V, c)[n]]
      BY DEF Relaxed
    <3> QED
      BY <3>1, <3>2
  <2> QED
    BY <2>1
<1>2. start \in [V -> Nat]
  BY DEF Inf
<1>3. PICK g \in [Nat -> [V -> Nat]] : g = [k \in Nat |-> IF k = 0 THEN start ELSE F[g[k - 1]]]
  <2>1. PICK S : S = [V -> Nat]
    OBVIOUS
  <2> HIDE DEF F, start
  <2>2. F \in [S -> S] /\ start \in S
    BY <1>1, <1>2, <2>1
  <2>3. \E h \in [Nat -> S] : h = [k \in Nat |-> IF k = 0 THEN start ELSE F[h[k - 1]]]
    BY <2>2, Iteration
  <2> QED
    BY <2>1, <2>3
<1>4. g = [k \in Nat |-> IF k = 0 THEN start ELSE Relaxed(V, g[k - 1])]
  <2>1. \A k \in Nat \ {0} : F[g[k - 1]] = Relaxed(V, g[k - 1])
    <3>1. \A k \in Nat \ {0} : k - 1 \in Nat
      OBVIOUS
    <3> QED
      BY <3>1
  <2> HIDE DEF F, start
  <2> QED
    BY <1>3, <2>1
<1> DEFINE D == CHOOSE d : d = [k \in Nat |-> IF k = 0 THEN start ELSE Relaxed(V, d[k - 1])]
<1>5. D = [k \in Nat |-> IF k = 0 THEN start ELSE Relaxed(V, D[k - 1])]
  <2> HIDE DEF start
  <2> QED
    BY <1>4
<1>6. DistIn(V) = D[Cardinality(V)]
  BY DEF DistIn
<1>7. D[0] = start /\ \A k \in Nat : D[k + 1] = Relaxed(V, D[k])
  <2>1. \A k \in Nat : k + 1 \in Nat /\ k + 1 # 0 /\ (k + 1) - 1 = k
    OBVIOUS
  <2> HIDE DEF D, start
  <2> QED
    BY <1>5, <2>1
<1> HIDE DEF D
<1>8. \A k \in Nat : D[k] \in [V -> Nat]
  <2> DEFINE T == {k \in Nat : D[k] \in [V -> Nat]}
  <2>1. 0 \in T
    BY <1>2, <1>7
  <2>2. ASSUME NEW k \in T \cap Nat PROVE k + 1 \in T
    <3>1. k \in Nat /\ k + 1 \in Nat /\ D[k] \in [V -> Nat]
      OBVIOUS
    <3>2. D[k + 1] = F[D[k]]
      BY <1>7, <3>1
    <3>3. D[k + 1] \in [V -> Nat]
      <4> HIDE DEF F
      <4> QED
        BY <1>1, <3>1, <3>2
    <3> QED
      BY <3>1, <3>3
  <2>3. Nat \subseteq T
    <3> HIDE DEF T
    <3> QED
      BY <2>1, <2>2, NatSets
  <2> QED
    BY <2>3
<1>9. Rounds(D, V)
  <2>1. \A k \in Nat : \A n \in V : D[k][n] \in Nat
    BY <1>8
  <2>2. \A n \in V : D[0][n] = (IF n = Dst THEN 0 ELSE Inf)
    BY <1>7
  <2>3. ASSUME NEW k \in Nat, NEW n \in V
        PROVE  /\ D[k + 1][n] <= D[k][n]
               /\ \A m \in Neighbors(n) \cap V : D[k + 1][n] <= D[k][m] + Weight(n, m)
               /\ \/ D[k + 1][n] = D[k][n]
                  \/ \E m \in Neighbors(n) \cap V : D[k + 1][n] = D[k][m] + Weight(n, m)
    <3>1. D[k + 1] = Relaxed(V, D[k]) /\ D[k] \in [V -> Nat]
      BY <1>7, <1>8
    <3>2. PICK c : c = D[k]
      OBVIOUS
    <3>3. c \in [V -> Nat] /\ D[k + 1] = Relaxed(V, c)
      BY <3>1, <3>2
    <3>4. /\ Relaxed(V, c)[n] \in Nat /\ Relaxed(V, c)[n] <= c[n]
          /\ \A m \in Neighbors(n) \cap V : Relaxed(V, c)[n] <= c[m] + Weight(n, m)
          /\ \/ Relaxed(V, c)[n] = c[n]
             \/ \E m \in Neighbors(n) \cap V : Relaxed(V, c)[n] = c[m] + Weight(n, m)
      BY <3>3, RelaxedLeast
    <3> QED
      BY <3>2, <3>3, <3>4
  <2> QED
    BY <2>1, <2>2, <2>3 DEF Rounds
<1>10. Cardinality(V) \in Nat
  BY TopologyFacts, FS_Subset, FS_CardinalityType
<1>11. DOMAIN DistIn(V) = V
  <2>1. D[Cardinality(V)] \in [V -> Nat]
    BY <1>8, <1>10
  <2> QED
    BY <1>6, <2>1
<1> QED
  BY <1>6, <1>9, <1>11

\* More rounds never make a cost larger.
LEMMA RoundsFall ==
  ASSUME NEW g, NEW V, Rounds(g, V), NEW k \in Nat, NEW l \in Nat, k <= l, NEW n \in V
  PROVE  g[l][n] <= g[k][n]
<1> DEFINE T == {i \in Nat : g[k + i][n] <= g[k][n]}
<1>1. 0 \in T
  <2>1. k + 0 = k /\ g[k][n] \in Nat
    BY DEF Rounds
  <2> QED
    BY <2>1
<1>2. ASSUME NEW i \in T \cap Nat PROVE i + 1 \in T
  <2>1. i \in Nat /\ k + i \in Nat /\ k + (i + 1) = (k + i) + 1 /\ i + 1 \in Nat
    OBVIOUS
  <2>2. g[(k + i) + 1][n] <= g[k + i][n]
    BY <2>1 DEF Rounds
  <2>3. g[(k + i) + 1][n] \in Nat /\ g[k + i][n] \in Nat /\ g[k][n] \in Nat
    BY <2>1 DEF Rounds
  <2>4. g[k + i][n] <= g[k][n]
    OBVIOUS
  <2>5. g[k + (i + 1)][n] <= g[k][n]
    BY <2>1, <2>2, <2>3, <2>4
  <2> QED
    BY <2>1, <2>5
<1>3. Nat \subseteq T
  <2> HIDE DEF T
  <2> QED
    BY <1>1, <1>2, NatSets
<1>4. l - k \in Nat /\ k + (l - k) = l
  OBVIOUS
<1>5. g[k + (l - k)][n] <= g[k][n]
  BY <1>3, <1>4
<1> QED
  BY <1>4, <1>5

\* Without a node, no path is shorter.
LEMMA WithoutIsLonger ==
  ASSUME NEW n \in Nodes, NEW d, Rounds(d, Nodes), NEW e, Rounds(e, Nodes \ {n}),
         topo \in Topologies, NEW k \in Nat, NEW m \in Nodes \ {n}
  PROVE  d[k][m] <= e[k][m]
<1> DEFINE W == Nodes \ {n}
           T == {i \in Nat : \A x \in W : d[i][x] <= e[i][x]}
<1>1. 0 \in T
  BY DEF Rounds, Inf
<1>2. ASSUME NEW i \in T \cap Nat PROVE i + 1 \in T
  <2>1. i \in Nat /\ i + 1 \in Nat /\ \A x \in W : d[i][x] <= e[i][x]
    OBVIOUS
  <2>2. ASSUME NEW x \in W PROVE d[i + 1][x] <= e[i + 1][x]
    <3>1. /\ d[i][x] \in Nat /\ e[i][x] \in Nat /\ d[i + 1][x] \in Nat
          /\ d[i + 1][x] <= d[i][x] /\ d[i][x] <= e[i][x]
      BY <2>1 DEF Rounds
    <3>2. CASE e[i + 1][x] = e[i][x]
      BY <3>1, <3>2
    <3>3. CASE \E y \in Neighbors(x) \cap W : e[i + 1][x] = e[i][y] + Weight(x, y)
      <4>1. PICK y \in Neighbors(x) \cap W : e[i + 1][x] = e[i][y] + Weight(x, y)
        BY <3>3
      <4>2. d[i + 1][x] <= d[i][y] + Weight(x, y)
        BY <2>1 DEF Rounds
      <4>3. d[i][y] <= e[i][y]
        BY <2>1
      <4>4. d[i][y] \in Nat /\ e[i][y] \in Nat /\ Weight(x, y) \in Nat
        BY <2>1, TopologyFacts DEF Rounds
      <4> QED
        BY <3>1, <4>1, <4>2, <4>3, <4>4
    <3> QED
      BY <2>1, <3>2, <3>3 DEF Rounds
  <2> QED
    BY <2>1, <2>2
<1>3. Nat \subseteq T
  <2> HIDE DEF T
  <2> QED
    BY <1>1, <1>2, NatSets
<1> QED
  BY <1>3

\* A path shorter than any of n does not lead through n.
LEMMA ShorterAvoids ==
  ASSUME topo \in Topologies, NEW n \in Nodes, NEW d, Rounds(d, Nodes),
         NEW e, Rounds(e, Nodes \ {n}), NEW K \in Nat, NEW k \in Nat, k <= K,
         NEW m \in Nodes \ {n}, d[k][m] < d[K][n]
  PROVE  e[k][m] <= d[k][m]
<1> DEFINE W == Nodes \ {n}
           T == {i \in Nat : i <= K => \A x \in W : d[i][x] < d[K][n] => e[i][x] <= d[i][x]}
<1>1. 0 \in T
  BY DEF Rounds, Inf
<1>2. ASSUME NEW i \in T \cap Nat PROVE i + 1 \in T
  <2>1. i \in Nat /\ i + 1 \in Nat
    OBVIOUS
  <2>2. ASSUME i + 1 <= K, NEW x \in W, d[i + 1][x] < d[K][n]
        PROVE  e[i + 1][x] <= d[i + 1][x]
    <3>1. /\ d[i][x] \in Nat /\ e[i][x] \in Nat /\ e[i + 1][x] \in Nat /\ d[K][n] \in Nat
          /\ e[i + 1][x] <= e[i][x] /\ i <= K
      BY <2>1, <2>2 DEF Rounds
    <3>2. CASE d[i + 1][x] = d[i][x]
      <4>1. e[i][x] <= d[i][x]
        BY <2>2, <3>1, <3>2
      <4> QED
        BY <3>1, <3>2, <4>1
    <3>3. CASE \E y \in Neighbors(x) : d[i + 1][x] = d[i][y] + Weight(x, y)
      <4>1. PICK y \in Neighbors(x) : d[i + 1][x] = d[i][y] + Weight(x, y)
        BY <3>3
      <4>2. y \in Nodes
        BY DEF Neighbors
      <4>3. Weight(x, y) \in Nat /\ d[i][y] \in Nat
        BY <2>1, <4>2, TopologyFacts DEF Rounds
      <4>4. d[i][y] < d[K][n]
        BY <2>2, <3>1, <4>1, <4>3
      <4>5. y # n
        <5>1. d[K][n] <= d[i][n]
          BY <2>1, <3>1, RoundsFall
        <5>2. d[i][n] \in Nat
          BY <2>1 DEF Rounds
        <5> QED
          BY <3>1, <4>4, <5>1, <5>2
      <4>6. e[i][y] <= d[i][y] /\ e[i][y] \in Nat
        BY <2>1, <3>1, <4>2, <4>4, <4>5 DEF Rounds
      <4>7. e[i + 1][x] <= e[i][y] + Weight(x, y)
        BY <2>1, <4>2, <4>5 DEF Rounds
      <4> QED
        BY <3>1, <4>1, <4>3, <4>6, <4>7
    <3> QED
      BY <2>1, <3>2, <3>3 DEF Rounds
  <2> QED
    BY <2>1, <2>2
<1>3. Nat \subseteq T
  <2> HIDE DEF T
  <2> QED
    BY <1>1, <1>2, NatSets
<1> QED
  BY <1>3

\* What the next hops of n rest on: without n, its neighbours are no nearer than they
\* are, n no further than through any, and in a well-formed scenario as near as it is
\* through one of them.
LEMMA PathsOf ==
  ASSUME topo \in Topologies, NEW n \in Sources
  PROVE  /\ \A x \in Nodes : DistIn(Nodes)[x] \in 0 .. Inf
         /\ \A m \in Neighbors(n) :
              /\ DistIn(Nodes \ {n})[m] \in Nat
              /\ DistIn(Nodes)[m] <= DistIn(Nodes \ {n})[m]
              /\ DistIn(Nodes)[n] <= DistIn(Nodes \ {n})[m] + Weight(n, m)
         /\ WellFormed(topo) /\ DistIn(Nodes)[n] < Inf =>
              \E m \in Neighbors(n) :
                DistIn(Nodes \ {n})[m] + Weight(n, m) <= DistIn(Nodes)[n]
<1> DEFINE W == Nodes \ {n}
<1>1. n \in Nodes /\ n # Dst /\ IsFiniteSet(Nodes) /\ Cardinality(Nodes) \in Nat \ {0}
  BY TopologyFacts DEF Sources
<1>2. PICK K \in Nat : Cardinality(W) = K /\ Cardinality(Nodes) = K + 1
  <2>1. Cardinality(W) = Cardinality(Nodes) - 1
    BY <1>1, FS_RemoveElement
  <2> QED
    BY <1>1, <2>1
<1>3. PICK d : Rounds(d, Nodes) /\ DOMAIN DistIn(Nodes) = Nodes /\ DistIn(Nodes) = d[K + 1]
  BY <1>2, DistInRounds
<1>4. PICK e : Rounds(e, W) /\ DistIn(W) = e[K]
  BY <1>2, DistInRounds
<1>5. PICK D : D = DistIn(Nodes) /\ D = d[K + 1]
  BY <1>3
<1>6. PICK E : E = DistIn(W) /\ E = e[K]
  BY <1>4
<1>7. K \in Nat /\ K + 1 \in Nat /\ K <= K + 1
  OBVIOUS
<1>8. \A x \in Nodes : D[x] \in 0 .. Inf
  <2> SUFFICES ASSUME NEW x \in Nodes PROVE D[x] \in 0 .. Inf
    OBVIOUS
  <2>1. d[0][x] \in {0, Inf} /\ d[K + 1][x] \in Nat
    BY <1>3, <1>7 DEF Rounds
  <2>2. d[K + 1][x] <= d[0][x]
    BY <1>3, <1>7, RoundsFall
  <2>0. Inf \in Nat
    BY SMT DEF Inf
  <2>3. \A a \in Nat, b \in Nat : (a = 0 \/ a = Inf) /\ b <= a => b \in 0 .. Inf
    BY <2>0
  <2>4. d[K + 1][x] \in 0 .. Inf
    BY <2>0, <2>1, <2>2, <2>3
  <2> QED
    BY <1>5, <2>4
<1>9. ASSUME NEW m \in Neighbors(n)
      PROVE  E[m] \in Nat /\ D[m] <= E[m] /\ D[n] <= E[m] + Weight(n, m)
  <2>1. m \in W /\ m \in Nodes /\ Weight(n, m) \in Nat
    BY <1>1, TopologyFacts DEF Neighbors
  <2>2. E[m] \in Nat /\ D[m] \in Nat /\ D[n] \in Nat /\ d[K][m] \in Nat
    BY <1>1, <1>3, <1>4, <1>5, <1>6, <1>7, <2>1 DEF Rounds
  <2>3. d[K][m] <= E[m]
    BY <1>1, <1>3, <1>4, <1>6, <1>7, <2>1, WithoutIsLonger
  <2>4. D[m] <= d[K][m] /\ D[n] <= d[K][m] + Weight(n, m)
    BY <1>1, <1>3, <1>5, <1>7, <2>1 DEF Rounds
  <2> QED
    BY <2>1, <2>2, <2>3, <2>4
<1>10. ASSUME WellFormed(topo), D[n] < Inf
       PROVE  \E m \in Neighbors(n) : E[m] + Weight(n, m) <= D[n]
  <2> DEFINE R == {k \in Nat : k <= K + 1 /\ d[k][n] = D[n]}
  <2>1. K + 1 \in R
    BY <1>5, <1>7
  <2>2. PICK k \in R : \A l \in R : k <= l
    <3>1. R # {} /\ R \subseteq Nat
      BY <2>1
    <3> HIDE DEF R
    <3> QED
      BY <3>1, LeastOf
  <2>3. k # 0
    BY <1>1, <1>3, <1>10, <2>2 DEF Rounds
  <2>4. PICK j \in Nat : k = j + 1 /\ j <= K
    <3>1. k - 1 \in Nat /\ k = (k - 1) + 1 /\ k - 1 <= K
      BY <2>2, <2>3
    <3> QED
      BY <3>1
  <2>5. d[j][n] # D[n]
    BY <2>2, <2>4
  <2>6. PICK m \in Neighbors(n) \cap Nodes : d[j + 1][n] = d[j][m] + Weight(n, m)
    <3>1. d[j + 1][n] = D[n]
      BY <2>2, <2>4
    <3> QED
      BY <1>1, <1>3, <2>4, <2>5, <3>1 DEF Rounds
  <2>7. m \in W /\ Weight(n, m) \in Nat \ {0}
    BY <1>1, <1>10, <2>6, TopologyFacts DEF Neighbors
  <2>8. d[j][m] \in Nat /\ d[K + 1][n] = d[j][m] + Weight(n, m) /\ D[n] = d[K + 1][n]
    BY <1>3, <1>5, <2>2, <2>4, <2>6 DEF Rounds
  <2>9. e[j][m] <= d[j][m]
    <3>1. d[j][m] < d[K + 1][n] /\ j <= K + 1
      BY <2>4, <2>7, <2>8
    <3> QED
      BY <1>1, <1>3, <1>4, <1>7, <2>4, <2>7, <3>1, ShorterAvoids
  <2>10. e[K][m] <= e[j][m] /\ e[K][m] \in Nat /\ e[j][m] \in Nat
    <3>1. e[K][m] <= e[j][m]
      BY <1>4, <1>7, <2>4, <2>7, RoundsFall
    <3> QED
      BY <1>4, <1>7, <2>4, <2>7, <3>1 DEF Rounds
  <2>11. E[m] + Weight(n, m) <= D[n]
    BY <1>6, <2>7, <2>8, <2>9, <2>10
  <2> QED
    BY <2>6, <2>11
<1> QED
  BY <1>5, <1>6, <1>8, <1>9, <1>10

-----------------------------------------------------------------------------
(* Loops and dead ends: the invariant. *)

Ended == {"asserted", "aborted"}

\* FIBs as createEmptyFib and checkFib leave them, and erase keeps them: of known
\* neighbours, one next hop each, with a way down.
Known(f, N) == \A n \in N \ {Dst} : \A h \in f[n] : h.nh \in N \ {n}
OneEach(f, N) == \A n \in N \ {Dst} : \A h, o \in f[n] : h.nh = o.nh => h = o
WayDown(f, N) == \A n \in N \ {Dst} : f[n] # {} => \E h \in f[n] : ~h.up
Shaped(f, N) ==
  f = [n \in N \ {Dst} |-> f[n]] /\ Known(f, N) /\ OneEach(f, N) /\ WayDown(f, N)

\* The arcs of a FIB; a set of nodes with the next hop h of n but not n, which no arc
\* leaves but the one from h.nh back to n; and the next hop h of n leading on.
ArcsOf(f, N) == UNION {{<<n, h.nh>> : h \in f[n]} : n \in N \ {Dst}}
Closed(f, N, n, h, V) ==
  h.nh \in V /\ n \notin V
  /\ \A a \in ArcsOf(f, N) \ {<<h.nh, n>>} : a[1] \in V => a[2] \in V
Safe(f, N, n, h) == \E V \in SUBSET N : Closed(f, N, n, h, V)
Onward(f, n, h) == h.nh = Dst \/ \E o \in f[h.nh] : o.nh # n

\* In removeLoops, what is no longer queued is safe; in removeDeadEnds it leads on.
LoopsDone ==
  phase = "loops" =>
    /\ dg = ArcsOf(fib, Nodes)
    /\ \A n \in Sources : \A h \in fib[n] :
         h.up => (\E p \in q : p.id = n /\ h \in p.uw) \/ Safe(fib, Nodes, n, h)
EndsDone ==
  phase \in {"deadends", "installed"} =>
    /\ \A n \in Sources : \A h \in fib[n] :
         h.up => Safe(fib, Nodes, n, h) /\ (<<n, h>> \in nhSet \/ Onward(fib, n, h))
    /\ \A x \in nhSet : x = <<x[1], x[2]>>
    /\ phase = "installed" => nhSet = {}
LfidInv ==
  /\ topo \in Topologies
  /\ phase \notin Ended => Shaped(fib, Nodes)
  /\ LoopsDone /\ EndsDone

-----------------------------------------------------------------------------
(* Erasing a next hop. *)

Without(f, i, nh) == [f EXCEPT ![i] = {h \in @ : h.nh # nh}]

\* AbstractFib::erase leaves a FIB that has its shape, if what it erases leads upward.
LEMMA ErasedShape ==
  ASSUME NEW f, NEW N, NEW i, NEW nh, Shaped(f, N), \A h \in f[i] : h.nh = nh => h.up
  PROVE  Shaped(Without(f, i, nh), N)
<1> DEFINE g == Without(f, i, nh)
<1>1. DOMAIN f = N \ {Dst}
  BY DEF Shaped
<1>2. g = [n \in N \ {Dst} |-> IF n = i THEN {h \in f[n] : h.nh # nh} ELSE f[n]]
  BY <1>1 DEF Without
<1>3. \A n \in N \ {Dst} : g[n] \subseteq f[n]
  BY <1>2
<1>4. g = [n \in N \ {Dst} |-> g[n]]
  BY <1>2
<1>5. Known(g, N)
  BY <1>3 DEF Shaped, Known
<1>6. OneEach(g, N)
  BY <1>3 DEF Shaped, OneEach
<1>7. WayDown(g, N)
  <2> SUFFICES ASSUME NEW n \in N \ {Dst}, g[n] # {}
               PROVE  \E h \in g[n] : ~h.up
    BY DEF WayDown
  <2>1. PICK d \in f[n] : ~d.up
    BY <1>3 DEF Shaped, WayDown
  <2>2. d \in g[n]
    BY <2>1, <1>2
  <2> QED
    BY <2>1, <2>2
<1> QED
  BY <1>4, <1>5, <1>6, <1>7 DEF Shaped

\* It takes out the arc of that next hop, no other.
LEMMA ErasedArcs ==
  ASSUME NEW f, NEW N, NEW i, NEW nh, DOMAIN f = N \ {Dst}
  PROVE  /\ ArcsOf(Without(f, i, nh), N) = ArcsOf(f, N) \ {<<i, nh>>}
         /\ \A n \in N \ {Dst} : Without(f, i, nh)[n] \subseteq f[n]
<1> DEFINE g == Without(f, i, nh)
<1>1. g = [n \in N \ {Dst} |-> IF n = i THEN {h \in f[n] : h.nh # nh} ELSE f[n]]
  BY DEF Without
<1>2. ASSUME NEW n \in N \ {Dst}, NEW h \in g[n]
      PROVE  h \in f[n] /\ <<n, h.nh>> # <<i, nh>>
  BY <1>1
<1>3. ASSUME NEW n \in N \ {Dst}, NEW h \in f[n], <<n, h.nh>> # <<i, nh>>
      PROVE  h \in g[n]
  BY <1>1, <1>3
<1> HIDE DEF g
<1>4. ArcsOf(g, N) \subseteq ArcsOf(f, N) \ {<<i, nh>>}
  BY <1>2 DEF ArcsOf
<1>5. ArcsOf(f, N) \ {<<i, nh>>} \subseteq ArcsOf(g, N)
  BY <1>3 DEF ArcsOf
<1> QED
  BY <1>2, <1>4, <1>5 DEF g

\* With fewer arcs, what could not come back still cannot.
LEMMA SafeWithFewer ==
  ASSUME NEW f, NEW g, NEW N, NEW n, NEW h, ArcsOf(g, N) \subseteq ArcsOf(f, N),
         Safe(f, N, n, h)
  PROVE  Safe(g, N, n, h)
BY DEF Safe, Closed

\* Having more than one next hop, of different neighbours, is having one elsewhere.
LEMMA MoreThanOne ==
  ASSUME NEW S, NEW N, IsFiniteSet(N), \A h \in S : h.nh \in N, Cardinality(S) > 1, NEW n,
         \A h, o \in S : h.nh = o.nh => h = o
  PROVE  \E o \in S : o.nh # n
<1> SUFFICES ASSUME \A o \in S : o.nh = n
             PROVE  FALSE
  OBVIOUS
<1>1. IsFiniteSet(S)
  <2> DEFINE to == [h \in S |-> h.nh]
  <2>1. to \in Injection(S, N)
    BY DEF Injection, IsInjective
  <2> QED
    BY <2>1, FS_Injection
<1>2. S # {}
  BY FS_EmptySet
<1>3. PICK o \in S : TRUE
  BY <1>2
<1>4. S = {o}
  BY <1>3
<1>5. Cardinality(S) = 1
  BY <1>4, FS_Singleton
<1> QED
  BY <1>5

\* The Reaches of the loop check, with the set of nodes that shows it false.
LEMMA UnreachableIsSafe ==
  ASSUME NEW f, NEW n, NEW h, h.nh \in Nodes
  PROVE  ~Reaches(ArcsOf(f, Nodes) \ {<<h.nh, n>>}, h.nh, n) <=> Safe(f, Nodes, n, h)
<1>1. \A V : V \in SUBSET (Nodes \ {n}) <=> V \in SUBSET Nodes /\ n \notin V
  OBVIOUS
<1> QED
  BY <1>1 DEF Reaches, Safe, Closed

LEMMA ArcsAgree == FibArcs = ArcsOf(fib, Nodes)
BY DEF FibArcs, ArcsOf, Sources

-----------------------------------------------------------------------------
(* The steps of the calculation. *)

LEMMA InitEstablishes == Init => LfidInv
BY DEF Init, LfidInv, EmptyFib, Sources, Shaped, Known, OneEach, WayDown, LoopsDone, EndsDone

\* What the links lead to, and the assertions of checkFib, give FIBs their shape.
LEMMA FillKeeps ==
  ASSUME LfidInv, FillFib
  PROVE  LfidInv'
<1>1. topo' \in Topologies /\ Nodes' = Nodes /\ Sources' = Sources
  BY DEF LfidInv, FillFib, Nodes, Sources
<1>2. CASE phase' = "asserted"
  BY <1>1, <1>2 DEF LfidInv, Ended, LoopsDone, EndsDone
<1>3. CASE phase' = "graph"
  <2>1. \A n \in Sources : CheckFib(fib'[n])
    BY <1>3 DEF FillFib
  <2>2. fib' = [n \in Sources |-> NextHopsOf(n)]
    BY DEF FillFib
  <2>3. \A n \in Sources : \A h \in NextHopsOf(n) : h.nh \in Nodes \ {n}
    <3> SUFFICES ASSUME NEW n \in Sources, NEW h \in NextHopsOf(n)
                 PROVE  h.nh \in Nodes \ {n}
      OBVIOUS
    <3>1. \E m \in Neighbors(n) : \E c, e, u : h = FibNextHop(c, m, e, u)
      BY DEF NextHopsOf
    <3> QED
      BY <3>1 DEF FibNextHop, Neighbors
  <2>4. fib' = [n \in Sources |-> fib'[n]] /\ Known(fib', Nodes)
    BY <2>2, <2>3 DEF Known, Sources
  <2>5. OneEach(fib', Nodes) /\ WayDown(fib', Nodes)
    BY <2>1 DEF CheckFib, OneEach, WayDown, Sources
  <2>6. Shaped(fib', Nodes)
    BY <2>4, <2>5 DEF Shaped, Sources
  <2> QED
    BY <1>1, <1>3, <2>6 DEF LfidInv, Ended, LoopsDone, EndsDone
<1> QED
  BY <1>2, <1>3 DEF FillFib

LEMMA QueueKeeps ==
  ASSUME LfidInv, FillQueue
  PROVE  LfidInv'
<1>1. topo' = topo /\ fib' = fib /\ Nodes' = Nodes /\ Sources' = Sources
  BY DEF FillQueue, Nodes, Sources
<1>2. topo' \in Topologies /\ Shaped(fib', Nodes')
  BY <1>1 DEF LfidInv, FillQueue, Ended
<1>3. CASE phase' = "asserted"
  BY <1>2, <1>3 DEF LfidInv, Ended, LoopsDone, EndsDone
<1>4. CASE phase' = "loops"
  <2>1. dg' = ArcsOf(fib', Nodes')
    BY <1>1, ArcsAgree DEF FillQueue
  <2>2. ASSUME NEW n \in Sources, NEW h \in fib[n], h.up
        PROVE  \E p \in q' : p.id = n /\ h \in p.uw
    <3>1. h \in Upward(n)
      BY <2>2 DEF Upward
    <3> DEFINE p == [id |-> n, remaining |-> Cardinality(fib[n]), uw |-> Upward(n)]
    <3>2. p \in q'
      BY <3>1 DEF FillQueue
    <3> QED
      BY <3>1, <3>2
  <2> QED
    BY <1>1, <1>2, <1>4, <2>1, <2>2 DEF LfidInv, LoopsDone, EndsDone
<1> QED
  BY <1>3, <1>4 DEF FillQueue

\* removeLoops looks each queued next hop up once, and erases it or finds it safe.
LEMMA LoopsKeep ==
  ASSUME LfidInv, RemoveLoop
  PROVE  LfidInv'
<1> DEFINE p == Top
           i == p.id
           h == HighestCostUw(p)
           j == h.nh
           loops == WillLoop(i, j)
           uw == UwWithout(p, h)
           left == [id |-> i, remaining |-> Remaining(p, loops), uw |-> uw]
<1>1. topo' = topo /\ Nodes' = Nodes /\ Sources' = Sources
  BY DEF RemoveLoop, Nodes, Sources
<1>2. topo \in Topologies /\ phase = "loops" /\ Shaped(fib, Nodes)
  BY DEF LfidInv, RemoveLoop, Ended
<1>3. CASE phase' \in Ended
  BY <1>1, <1>2, <1>3 DEF LfidInv, Ended, LoopsDone, EndsDone
<1>4. CASE phase' \notin Ended
  <2>1. /\ phase' = "loops"
        /\ fib' = IF loops THEN Erase(i, j) ELSE fib
        /\ dg' = PutBackReverse(i, j, dg \ (IF loops THEN {<<i, j>>, <<j, i>>} ELSE {<<j, i>>}))
        /\ q' = (q \ {p}) \cup (IF uw = {} THEN {} ELSE {left})
        /\ loops => Erasable(i, j)
    BY <1>2, <1>4 DEF RemoveLoop, Ended
  <2> DEFINE d == dg \ {<<j, i>>}
  <2>2. dg = ArcsOf(fib, Nodes)
    BY <1>2 DEF LfidInv, LoopsDone
  <2>3. loops => fib' = Without(fib, i, j)
    BY <2>1 DEF Erase, Without
  <2>4. left.id = i /\ left.uw = uw /\ uw = p.uw \ {h}
    BY DEF UwWithout
  <2>5. loops <=> Reaches(d, j, i)
    BY DEF WillLoop
  <2> HIDE DEF p, i, h, j, loops, uw, left
  <2>6. Shaped(fib', Nodes)
    BY <1>2, <2>1, <2>3, ErasedShape DEF Erasable
  <2>7. DOMAIN fib = Nodes \ {Dst}
    BY <1>2 DEF Shaped
  <2>8. dg' = ArcsOf(fib', Nodes)
    <3>1. <<i, i>> \notin dg
      BY <1>2, <2>2 DEF ArcsOf, Shaped, Known
    <3>2. dg' = IF loops THEN dg \ {<<i, j>>} ELSE dg
      BY <2>1, <3>1 DEF PutBackReverse
    <3>3. CASE loops
      BY <3>2, <3>3, <2>2, <2>3, <2>7, ErasedArcs
    <3>4. CASE ~loops
      BY <3>2, <3>4, <2>1, <2>2
    <3> QED
      BY <3>3, <3>4
  <2>9. ASSUME NEW n \in Sources, NEW g \in fib'[n], g.up
        PROVE  (\E r \in q' : r.id = n /\ g \in r.uw) \/ Safe(fib', Nodes, n, g)
    <3>1. g \in fib[n] /\ ArcsOf(fib', Nodes) \subseteq ArcsOf(fib, Nodes)
      <4>1. n \in Nodes \ {Dst} /\ g \in fib'[n]
        BY <2>9 DEF Sources
      <4>2. CASE loops
        <5>1. fib' = Without(fib, i, j)
          BY <2>3, <4>2
        <5>2. /\ ArcsOf(Without(fib, i, j), Nodes) = ArcsOf(fib, Nodes) \ {<<i, j>>}
              /\ Without(fib, i, j)[n] \subseteq fib[n]
          BY <2>7, <4>1, ErasedArcs
        <5> QED
          BY <4>1, <5>1, <5>2
      <4>3. CASE ~loops
        <5>1. fib' = fib
          BY <2>1, <4>3
        <5> QED
          BY <4>1, <5>1
      <4> QED
        BY <4>2, <4>3
    <3>2. CASE Safe(fib, Nodes, n, g)
      BY <3>1, <3>2, SafeWithFewer
    <3>3. CASE \E r \in q : r.id = n /\ g \in r.uw
      <4>1. PICK r \in q : r.id = n /\ g \in r.uw
        BY <3>3
      <4>2. CASE r # p
        BY <4>1, <4>2, <2>1
      <4>3. CASE r = p /\ g # h
        <5>1. g \in uw
          BY <4>1, <4>3, <2>4
        <5>2. left \in q'
          BY <5>1, <2>1
        <5> QED
          BY <5>1, <5>2, <2>4, <4>1, <4>3 DEF i
      <4>4. CASE r = p /\ g = h
        <5>1. n = i /\ g.nh = j
          BY <4>1, <4>4 DEF i, j
        <5>2. ~loops
          BY <5>1, <2>3, <2>7, <2>9 DEF Without, Sources
        <5>3. g.nh \in Nodes
          BY <3>1, <1>2 DEF Shaped, Known, Sources
        <5>4. ~Reaches(ArcsOf(fib, Nodes) \ {<<g.nh, n>>}, g.nh, n)
          BY <5>1, <5>2, <2>2, <2>5
        <5>5. Safe(fib, Nodes, n, g)
          BY <5>3, <5>4, UnreachableIsSafe
        <5> QED
          BY <5>2, <5>5, <2>1
      <4> QED
        BY <4>2, <4>3, <4>4
    <3>4. Safe(fib, Nodes, n, g) \/ \E r \in q : r.id = n /\ g \in r.uw
      BY <3>1, <2>9, <1>2 DEF LfidInv, LoopsDone
    <3> QED
      BY <3>2, <3>3, <3>4
  <2> QED
    BY <1>1, <1>2, <2>1, <2>6, <2>8, <2>9 DEF LfidInv, LoopsDone, EndsDone
<1> QED
  BY <1>3, <1>4

LEMMA EndsStart ==
  ASSUME LfidInv, FillNhSet
  PROVE  LfidInv'
<1>1. topo' = topo /\ fib' = fib /\ Nodes' = Nodes /\ Sources' = Sources
  BY DEF FillNhSet, Nodes, Sources
<1>2. topo' \in Topologies /\ Shaped(fib', Nodes') /\ phase' = "deadends"
  BY <1>1 DEF LfidInv, FillNhSet, Ended
<1>3. ASSUME NEW n \in Sources, NEW h \in fib[n], h.up
      PROVE  Safe(fib, Nodes, n, h) /\ <<n, h>> \in nhSet'
  <2>1. Safe(fib, Nodes, n, h)
    BY <1>3 DEF LfidInv, LoopsDone, FillNhSet
  <2>2. <<n, h>> \in nhSet'
    BY <1>3 DEF FillNhSet, Upward
  <2> QED
    BY <2>1, <2>2
<1>4. \A x \in nhSet' : x = <<x[1], x[2]>>
  BY DEF FillNhSet
<1>5. EndsDone'
  BY <1>1, <1>2, <1>3, <1>4 DEF EndsDone
<1> QED
  BY <1>2, <1>5 DEF LfidInv, LoopsDone

\* removeDeadEnds: a next hop that leads on keeps doing so, or its neighbour loses a
\* next hop and it is looked at again.
LEMMA EndsKeep ==
  ASSUME LfidInv, RemoveDeadEnd
  PROVE  LfidInv'
<1> DEFINE i == First[1]
           h == First[2]
           again == LeadingTo(i)
<1>1. topo' = topo /\ Nodes' = Nodes /\ Sources' = Sources
  BY DEF RemoveDeadEnd, Nodes, Sources
<1>2. topo \in Topologies /\ phase = "deadends" /\ Shaped(fib, Nodes) /\ IsFiniteSet(Nodes)
  BY TopologyFacts DEF LfidInv, RemoveDeadEnd, Ended
<1>3. \A n \in Sources : \A g \in fib[n] :
        g.up => Safe(fib, Nodes, n, g) /\ (<<n, g>> \in nhSet \/ Onward(fib, n, g))
  BY <1>2 DEF LfidInv, EndsDone
<1>4. \A x \in nhSet : x = <<x[1], x[2]>>
  BY <1>2 DEF LfidInv, EndsDone
<1>5. CASE phase' \in Ended
  BY <1>1, <1>2, <1>5 DEF LfidInv, Ended, LoopsDone, EndsDone
<1>6. CASE LeadsOn(h.nh)
  <2>1. nhSet' = nhSet \ {First} /\ phase' = "deadends" /\ fib' = fib
    BY <1>2, <1>6 DEF RemoveDeadEnd
  <2>2. ASSUME NEW n \in Sources, NEW g \in fib[n], g.up, <<n, g>> \in nhSet, <<n, g>> \notin nhSet'
        PROVE  Onward(fib, n, g)
    <3>1. n = i /\ g = h
      BY <2>1, <2>2
    <3>2. CASE g.nh = Dst
      BY <3>2 DEF Onward
    <3>3. CASE g.nh # Dst
      <4>1. g.nh \in Sources
        BY <1>2, <3>3 DEF Shaped, Known, Sources
      <4>2. Cardinality(fib[g.nh]) > 1
        BY <1>6, <3>1, <3>3 DEF LeadsOn
      <4>3. /\ \A x \in fib[g.nh] : x.nh \in Nodes
            /\ \A x, y \in fib[g.nh] : x.nh = y.nh => x = y
        BY <1>2, <4>1 DEF Shaped, Known, OneEach, Sources
      <4>4. \E o \in fib[g.nh] : o.nh # n
        BY <1>2, <4>2, <4>3, MoreThanOne
      <4> QED
        BY <4>4 DEF Onward
    <3> QED
      BY <3>2, <3>3
  <2>3. EndsDone'
    BY <1>1, <1>3, <1>4, <2>1, <2>2 DEF EndsDone
  <2> QED
    BY <1>1, <1>2, <2>1, <2>3 DEF LfidInv, LoopsDone
<1>7. CASE phase' \notin Ended /\ ~LeadsOn(h.nh)
  <2>1. /\ fib' = Without(fib, i, h.nh) /\ phase' = "deadends"
        /\ nhSet' = (nhSet \ {First}) \cup again
        /\ \A x \in fib[i] : x.nh = h.nh => x.up
    BY <1>2, <1>7 DEF RemoveDeadEnd, Ended, Erase, Without, Erasable
  <2>2. again = UNION {{<<d.nh, y>> : y \in {z \in fib[d.nh] : z.nh = i}}
                       : d \in {x \in fib[i] : ~x.up /\ x.nh # Dst}}
    BY DEF LeadingTo
  <2>3. First \in nhSet => First = <<i, h>>
    BY <1>4
  <2> HIDE DEF i, h, again
  <2>4. Shaped(fib', Nodes)
    BY <1>2, <2>1, ErasedShape
  <2>5. DOMAIN fib = Nodes \ {Dst}
    BY <1>2 DEF Shaped
  <2>6. /\ ArcsOf(fib', Nodes) \subseteq ArcsOf(fib, Nodes)
        /\ \A n \in Sources : fib'[n] \subseteq fib[n]
    BY <2>1, <2>5, ErasedArcs DEF Sources
  <2>7. \A n \in Sources : \A g \in fib[n] : g \notin fib'[n] <=> n = i /\ g.nh = h.nh
    BY <2>1, <2>5 DEF Without, Sources
  <2>8. \A x \in nhSet' : x = <<x[1], x[2]>>
    BY <1>4, <2>1, <2>2
  <2>9. ASSUME NEW n \in Sources, NEW g \in fib'[n], g.up, <<n, g>> \notin nhSet'
        PROVE  Onward(fib', n, g)
    <3>1. g \in fib[n]
      BY <2>6
    <3>2. <<n, g>> # First
      BY <2>7, <2>9, <3>1 DEF i, h
    <3>3. Onward(fib, n, g)
      BY <1>3, <2>1, <2>9, <3>1, <3>2
    <3>4. CASE g.nh = Dst
      BY <3>4 DEF Onward
    <3>5. CASE g.nh # Dst
      <4>1. g.nh \in Sources
        BY <1>2, <3>1, <3>5 DEF Shaped, Known, Sources
      <4>2. PICK o \in fib[g.nh] : o.nh # n
        BY <3>3, <3>5 DEF Onward
      <4>3. CASE o \in fib'[g.nh]
        BY <4>2, <4>3 DEF Onward
      <4>4. CASE o \notin fib'[g.nh]
        <5>1. g.nh = i /\ o.nh = h.nh
          BY <2>7, <4>1, <4>4
        <5>2. PICK d \in fib[g.nh] : ~d.up
          BY <1>2, <4>1, <4>2 DEF Shaped, WayDown, Sources
        <5>3. d \in fib'[g.nh]
          BY <2>1, <2>7, <4>1, <5>1, <5>2
        <5>4. d.nh # n
          <6>1. SUFFICES ASSUME d.nh = n
                         PROVE  <<n, g>> \in again
            BY <2>1, <2>9
          <6>2. n # Dst /\ d \in fib[i]
            BY <5>1 DEF Sources
          <6>3. g \in fib[d.nh] /\ g.nh = i
            BY <3>1, <5>1, <6>1
          <6> QED
            BY <2>2, <5>2, <6>1, <6>2, <6>3
        <5> QED
          BY <5>3, <5>4 DEF Onward
      <4> QED
        BY <4>3, <4>4
    <3> QED
      BY <3>4, <3>5
  <2>10. ASSUME NEW n \in Sources, NEW g \in fib'[n], g.up
         PROVE  Safe(fib', Nodes, n, g)
    BY <1>3, <2>6, <2>10, SafeWithFewer
  <2>11. EndsDone'
    BY <1>1, <2>1, <2>8, <2>9, <2>10 DEF EndsDone
  <2> QED
    BY <1>1, <1>2, <2>1, <2>4, <2>11 DEF LfidInv, LoopsDone
<1> QED
  BY <1>5, <1>6, <1>7

LEMMA NextKeeps == LfidInv /\ [Next]_vars => LfidInv'
<1> SUFFICES ASSUME LfidInv, [Next]_vars
             PROVE  LfidInv'
  OBVIOUS
<1>1. CASE Install
  BY <1>1 DEF LfidInv, Install, Ended, LoopsDone, EndsDone, Nodes, Sources
<1>2. CASE UNCHANGED vars
  BY <1>2 DEF LfidInv, vars, LoopsDone, EndsDone, Nodes, Sources
<1> QED
  BY <1>1, <1>2, FillKeeps, QueueKeeps, LoopsKeep, EndsStart, EndsKeep DEF Next

\* The invariant holds in every state of the calculation, whatever the topology.
THEOREM LfidInvariant == Spec => []LfidInv
BY InitEstablishes, NextKeeps, PTL DEF Spec

-----------------------------------------------------------------------------

\* removeLoops always searches the digraph of the FIB as it is: erasing a next hop and
\* putting the opposite arc back keep the two together.
THEOREM SearchedDigraphIsTheFib == Spec => []DigraphMirrorsFib
<1>1. LfidInv => DigraphMirrorsFib
  BY ArcsAgree DEF LfidInv, LoopsDone, DigraphMirrorsFib
<1> QED
  BY <1>1, LfidInvariant, PTL

\* What an installed upward next hop is sent cannot come back but straight from it.
THEOREM RoutesAreLoopFree == Spec => []LoopFree
<1>1. LfidInv => LoopFree
  <2> SUFFICES ASSUME LfidInv, phase = "installed", NEW n \in Sources, NEW h \in fib[n], h.up
               PROVE  ~Reaches(FibArcs \ {<<h.nh, n>>}, h.nh, n)
    BY DEF LoopFree, Hops
  <2>1. Safe(fib, Nodes, n, h) /\ h.nh \in Nodes
    BY DEF LfidInv, EndsDone, Shaped, Known, Ended, Sources
  <2>2. ~Reaches(ArcsOf(fib, Nodes) \ {<<h.nh, n>>}, h.nh, n)
    BY <2>1, UnreachableIsSafe
  <2> QED
    BY <2>2, ArcsAgree
<1> QED
  BY <1>1, LfidInvariant, PTL

\* An installed upward next hop has somewhere to send to but back.
THEOREM RoutesDoNotEndDead == Spec => []NoDeadEnds
<1>1. LfidInv => NoDeadEnds
  BY DEF LfidInv, EndsDone, NoDeadEnds, Hops, Onward
<1> QED
  BY <1>1, LfidInvariant, PTL

-----------------------------------------------------------------------------
(* The order of the queue and of the set: they always have a first element. *)

\* What the order of next hops compares.
Ranked(h) == h.delta \in 0 .. Inf /\ h.cost \in 0 .. Inf /\ h.nh \in 0 .. MaxSize

LEMMA Bounds == Inf \in Nat /\ MaxSize \in Nat
BY SMT DEF Inf, MaxSize

LEMMA HighestIn ==
  ASSUME NEW S, S # {}, \A h \in S : Ranked(h)
  PROVE  \E h \in S : \A o \in S : ~NhBefore(h, o)
<1>1. \A h \in S : h.delta \in Nat /\ h.cost \in Nat /\ h.nh \in Nat
                   /\ h.delta <= Inf /\ h.cost <= Inf /\ h.nh <= MaxSize
  BY Bounds DEF Ranked
<1>2. PICK a \in S : \A o \in S : o.delta <= a.delta
  <2> DEFINE T == {h.delta : h \in S}
  <2>1. T # {} /\ T \subseteq Nat /\ \A x \in T : x <= Inf
    BY <1>1
  <2>2. \E x \in T : \A y \in T : y <= x
    <3> HIDE DEF T
    <3> QED
      BY <2>1, Bounds, GreatestOf
  <2> QED
    BY <2>2
<1> DEFINE A == {h \in S : h.delta = a.delta}
<1>3. PICK b \in A : \A o \in A : o.cost <= b.cost
  <2> DEFINE T == {h.cost : h \in A}
  <2>1. T # {} /\ T \subseteq Nat /\ \A x \in T : x <= Inf
    BY <1>1
  <2>2. \E x \in T : \A y \in T : y <= x
    <3> HIDE DEF T
    <3> QED
      BY <2>1, Bounds, GreatestOf
  <2> QED
    BY <2>2
<1> DEFINE B == {h \in A : h.cost = b.cost}
<1>4. PICK c \in B : \A o \in B : o.nh <= c.nh
  <2> DEFINE T == {h.nh : h \in B}
  <2>1. T # {} /\ T \subseteq Nat /\ \A x \in T : x <= MaxSize
    BY <1>1
  <2>2. \E x \in T : \A y \in T : y <= x
    <3> HIDE DEF T
    <3> QED
      BY <2>1, Bounds, GreatestOf
  <2> QED
    BY <2>2
<1>5. ASSUME NEW o \in S PROVE ~NhBefore(c, o)
  BY <1>1, <1>2, <1>3, <1>4 DEF NhBefore
<1> QED
  BY <1>4, <1>5

LEMMA LowestIn ==
  ASSUME NEW S, S # {}, \A h \in S : Ranked(h)
  PROVE  \E h \in S : \A o \in S : ~NhBefore(o, h)
<1>1. \A h \in S : h.delta \in Nat /\ h.cost \in Nat /\ h.nh \in Nat
  BY Bounds DEF Ranked
<1>2. PICK a \in S : \A o \in S : a.delta <= o.delta
  <2> DEFINE T == {h.delta : h \in S}
  <2>1. T # {} /\ T \subseteq Nat
    BY <1>1
  <2>2. \E x \in T : \A y \in T : x <= y
    <3> HIDE DEF T
    <3> QED
      BY <2>1, LeastOf
  <2> QED
    BY <2>2
<1> DEFINE A == {h \in S : h.delta = a.delta}
<1>3. PICK b \in A : \A o \in A : b.cost <= o.cost
  <2> DEFINE T == {h.cost : h \in A}
  <2>1. T # {} /\ T \subseteq Nat
    BY <1>1
  <2>2. \E x \in T : \A y \in T : x <= y
    <3> HIDE DEF T
    <3> QED
      BY <2>1, LeastOf
  <2> QED
    BY <2>2
<1> DEFINE B == {h \in A : h.cost = b.cost}
<1>4. PICK c \in B : \A o \in B : c.nh <= o.nh
  <2> DEFINE T == {h.nh : h \in B}
  <2>1. T # {} /\ T \subseteq Nat
    BY <1>1
  <2>2. \E x \in T : \A y \in T : x <= y
    <3> HIDE DEF T
    <3> QED
      BY <2>1, LeastOf
  <2> QED
    BY <2>2
<1>5. ASSUME NEW o \in S PROVE ~NhBefore(o, c)
  BY <1>1, <1>2, <1>3, <1>4 DEF NhBefore
<1> QED
  BY <1>4, <1>5

\* Next hops of different neighbours are before or after each other.
LEMMA Ordered ==
  ASSUME NEW a, NEW b, Ranked(a), Ranked(b)
  PROVE  /\ a.nh # b.nh => NhBefore(a, b) \/ NhBefore(b, a)
         /\ ~NhBefore(a, b) /\ ~NhBefore(b, a) =>
              a.delta = b.delta /\ a.cost = b.cost /\ a.nh = b.nh
<1>1. /\ a.delta \in Nat /\ a.cost \in Nat /\ a.nh \in Nat
      /\ b.delta \in Nat /\ b.cost \in Nat /\ b.nh \in Nat
  BY Bounds DEF Ranked
<1> QED
  BY <1>1 DEF NhBefore

LEMMA HighestChosen ==
  ASSUME NEW p, p.uw # {}, \A h \in p.uw : Ranked(h),
         \A h, o \in p.uw : h.nh = o.nh => h = o
  PROVE  HighestCostUw(p) \in p.uw
<1>1. PICK h \in p.uw : \A o \in p.uw : ~NhBefore(h, o)
  BY HighestIn
<1>2. \A o \in p.uw \ {h} : NhBefore(o, h)
  BY <1>1, Ordered
<1> QED
  BY <1>1, <1>2 DEF HighestCostUw

LEMMA TopChosen ==
  ASSUME q # {}, \A p \in q : p.remaining \in 0 .. MaxSize /\ p.id \in 0 .. MaxSize,
         \A p \in q : Ranked(HighestCostUw(p)), \A p, r \in q : p.id = r.id => p = r
  PROVE  Top \in q
<1>1. \A p \in q : /\ p.remaining \in Nat /\ p.remaining <= MaxSize
                   /\ p.id \in Nat /\ p.id <= MaxSize
  BY Bounds
<1>2. PICK a \in q : \A o \in q : o.remaining <= a.remaining
  <2> DEFINE T == {p.remaining : p \in q}
  <2>1. T # {} /\ T \subseteq Nat /\ \A x \in T : x <= MaxSize
    BY <1>1
  <2>2. \E x \in T : \A y \in T : y <= x
    <3> HIDE DEF T
    <3> QED
      BY <2>1, Bounds, GreatestOf
  <2> QED
    BY <2>2
<1> DEFINE A == {p \in q : p.remaining = a.remaining}
<1>3. PICK b \in A : \A o \in A : ~NhBefore(HighestCostUw(b), HighestCostUw(o))
  <2> DEFINE T == {HighestCostUw(p) : p \in A}
  <2>1. T # {} /\ \A h \in T : Ranked(h)
    OBVIOUS
  <2>2. \E x \in T : \A y \in T : ~NhBefore(x, y)
    <3> HIDE DEF T
    <3> QED
      BY <2>1, HighestIn
  <2> QED
    BY <2>2
<1> DEFINE B == {p \in A : ~NhBefore(HighestCostUw(p), HighestCostUw(b))}
<1>4. PICK c \in B : \A o \in B : o.id <= c.id
  <2> DEFINE T == {p.id : p \in B}
  <2>1. b \in B
    <3>1. ~NhBefore(HighestCostUw(b), HighestCostUw(b))
      BY <1>3
    <3> QED
      BY <3>1
  <2>2. T # {} /\ T \subseteq Nat /\ \A x \in T : x <= MaxSize
    BY <1>1, <2>1
  <2>3. \E x \in T : \A y \in T : y <= x
    <3> HIDE DEF T
    <3> QED
      BY <2>2, Bounds, GreatestOf
  <2> QED
    BY <2>3
<1>5. ASSUME NEW o \in q \ {c} PROVE PrioBefore(o, c)
  <2>1. c \in q /\ c.remaining = a.remaining /\ c \in A
    OBVIOUS
  <2>2. CASE o.remaining # a.remaining
    <3>1. o.remaining < c.remaining
      BY <1>1, <1>2, <2>1, <2>2
    <3> QED
      BY <3>1 DEF PrioBefore
  <2>3. CASE o.remaining = a.remaining
    <3>1. PICK x, y, z : x = HighestCostUw(o) /\ y = HighestCostUw(c) /\ z = HighestCostUw(b)
      OBVIOUS
    <3>2. Ranked(x) /\ Ranked(y) /\ Ranked(z)
      BY <2>1, <3>1
    <3>3. ~NhBefore(z, x) /\ ~NhBefore(z, y) /\ ~NhBefore(y, z)
      BY <1>3, <1>4, <2>1, <2>3, <3>1
    <3>4. y.delta = z.delta /\ y.cost = z.cost /\ y.nh = z.nh
      BY <3>2, <3>3, Ordered
    <3>5. ~NhBefore(y, x)
      BY <3>3, <3>4 DEF NhBefore
    <3>6. CASE NhBefore(x, y)
      BY <2>1, <2>3, <3>1, <3>6 DEF PrioBefore
    <3>7. CASE ~NhBefore(x, y)
      <4>1. ~NhBefore(x, z)
        BY <3>4, <3>7 DEF NhBefore
      <4>2. o \in B
        BY <2>3, <3>1, <4>1
      <4>3. o.id <= c.id /\ o.id # c.id /\ o.id \in Nat /\ c.id \in Nat
        BY <1>1, <1>4, <2>1, <4>2
      <4>4. o.id < c.id
        BY <4>3
      <4> QED
        BY <2>1, <2>3, <3>1, <3>5, <4>4 DEF PrioBefore
    <3> QED
      BY <3>6, <3>7
  <2> QED
    BY <2>2, <2>3
<1>6. c \in q /\ \A o \in q \ {c} : PrioBefore(o, c)
  BY <1>5
<1> QED
  BY <1>6 DEF Top

LEMMA FirstChosen ==
  ASSUME nhSet # {}, \A x \in nhSet : x = <<x[1], x[2]>> /\ x[1] \in Nat /\ Ranked(x[2]),
         \A x, y \in nhSet : x[1] = y[1] /\ x[2].nh = y[2].nh => x = y
  PROVE  First \in nhSet
<1>1. PICK a \in nhSet : \A o \in nhSet : a[1] <= o[1]
  <2> DEFINE T == {x[1] : x \in nhSet}
  <2>1. T # {} /\ T \subseteq Nat
    OBVIOUS
  <2>2. \E x \in T : \A y \in T : x <= y
    <3> HIDE DEF T
    <3> QED
      BY <2>1, LeastOf
  <2> QED
    BY <2>2
<1> DEFINE A == {x \in nhSet : x[1] = a[1]}
<1>2. PICK b \in A : \A o \in A : ~NhBefore(o[2], b[2])
  <2> DEFINE T == {x[2] : x \in A}
  <2>1. T # {} /\ \A h \in T : Ranked(h)
    OBVIOUS
  <2>2. \E x \in T : \A y \in T : ~NhBefore(y, x)
    <3> HIDE DEF T
    <3> QED
      BY <2>1, LowestIn
  <2> QED
    BY <2>2
<1>3. ASSUME NEW o \in nhSet \ {b}
      PROVE  b[1] < o[1] \/ (b[1] = o[1] /\ NhBefore(b[2], o[2]))
  <2>1. CASE o[1] # a[1]
    BY <1>1, <1>2, <2>1
  <2>2. CASE o[1] = a[1]
    <3>1. ~NhBefore(o[2], b[2]) /\ Ranked(o[2]) /\ Ranked(b[2]) /\ b[1] = o[1]
      BY <1>2, <2>2
    <3>2. o[2].nh # b[2].nh
      BY <3>1
    <3> QED
      BY <3>1, <3>2, Ordered
  <2> QED
    BY <2>1, <2>2
<1> QED
  BY <1>2, <1>3 DEF First

-----------------------------------------------------------------------------
(* Next hops keep leading down. *)

\* FIBs as the assertions admit the initial one, and what erase leaves: each node with
\* next hops has a way down, and they are of neighbours that reach Dst, downward ones
\* nearer to it.
Descending(f) ==
  /\ Nodes \subseteq 0 .. MaxSize /\ Cardinality(Nodes) \in 1 .. MaxSize
  /\ f = [n \in Sources |-> f[n]]
  /\ \A n \in Sources : \A h \in f[n] :
       /\ Ranked(h) /\ h.nh \in Nodes \ {n}
       /\ dist[n] < Inf /\ dist[h.nh] < Inf
       /\ ~h.up => dist[h.nh] < dist[n]
  /\ \A n \in Sources : \A h, o \in f[n] : h.nh = o.nh => h = o
  /\ \A n \in Sources : f[n] # {} => \E h \in f[n] : ~h.up

\* What is queued is in the FIB and upward, and fewer than the next hops.
QueueFits ==
  /\ \A p \in q :
       /\ p.id \in Sources /\ p.remaining \in 0 .. MaxSize
       /\ p.uw # {} /\ p.uw \subseteq Upward(p.id)
       /\ Prioritized(p)
  /\ \A p, r \in q : p.id = r.id => p = r
SetFits == \A x \in nhSet : x = <<x[1], x[2]>> /\ x[1] \in Sources /\ x[2] \in Upward(x[1])

\* In a well-formed scenario no assertion fails and who reaches Dst has next hops.
HasHops(f) == \A n \in Sources : dist[n] < Inf => f[n] # {}

DownInv ==
  /\ topo \in Topologies
  /\ phase \notin {"fill", "asserted"} =>
       (\A n \in Nodes : dist[n] \in Nat) /\ Descending(fib)
  /\ WellFormed(topo) => phase # "asserted" /\ (phase # "fill" => HasHops(fib))
  /\ phase = "loops" => QueueFits
  /\ phase = "deadends" => SetFits

LEMMA FirstHops ==
  ASSUME topo \in Topologies, dist' = DistIn(Nodes), NEW n \in Sources
  PROVE  /\ dist'[n] \in 0 .. Inf
         /\ \A h \in NextHopsOf(n) :
              /\ h.cost \in 0 .. Inf - 1 /\ h.delta \in 0 .. Inf /\ h.nh \in Nodes \ {n}
              /\ dist'[n] < Inf /\ dist'[h.nh] < Inf
              /\ ~h.up => dist'[h.nh] < dist'[n]
              /\ WellFormed(topo) => h.cost # 0
         /\ \A h, o \in NextHopsOf(n) : h.nh = o.nh => h = o
         /\ WellFormed(topo) /\ dist'[n] < Inf => \E h \in NextHopsOf(n) : ~h.up
<1> DEFINE d == dist'
           w == DistIn(Nodes \ {n})
           N == Neighbors(n)
<1>1. d = DistIn(Nodes)
  OBVIOUS
<1>6. NextHopsOf(n) =
        {FibNextHop(w[m] + Metric(n, m), m, w[m] + Metric(n, m) - d[n], ~IsDownward(w[m], d[n]))
         : m \in {x \in N : w[x] + Metric(n, x) < Inf}}
  BY DEF NextHopsOf
<1>2. n \in Nodes /\ d[n] \in 0 .. Inf /\ (\A x \in Nodes : d[x] \in 0 .. Inf)
  BY <1>1, PathsOf DEF Sources
<1>3. \A m \in N : w[m] \in Nat /\ d[m] <= w[m] /\ d[n] <= w[m] + Weight(n, m)
  BY <1>1, PathsOf DEF w, N
<1>4. WellFormed(topo) /\ d[n] < Inf => \E m \in N : w[m] + Weight(n, m) <= d[n]
  BY <1>1, PathsOf DEF w, N
<1>5. \A m \in N : /\ m \in Nodes \ {n} /\ Metric(n, m) \in Nat /\ Weight(n, m) \in Nat
                   /\ Weight(n, m) <= Metric(n, m)
                   /\ WellFormed(topo) => Weight(n, m) = Metric(n, m) /\ Weight(n, m) # 0
  BY <1>2, TopologyFacts DEF Neighbors, N
<1> HIDE DEF w, N
<1>7. ASSUME NEW h \in NextHopsOf(n)
      PROVE  /\ h.cost \in 0 .. Inf - 1 /\ h.delta \in 0 .. Inf /\ h.nh \in Nodes \ {n}
             /\ d[n] < Inf /\ d[h.nh] < Inf
             /\ ~h.up => d[h.nh] < d[n]
             /\ WellFormed(topo) => h.cost # 0
  <2>1. PICK m \in N :
          /\ w[m] + Metric(n, m) < Inf
          /\ h = FibNextHop(w[m] + Metric(n, m), m, w[m] + Metric(n, m) - d[n],
                            ~IsDownward(w[m], d[n]))
    BY <1>6
  <2>2. /\ h.nh = m /\ h.cost = w[m] + Metric(n, m) /\ h.delta = w[m] + Metric(n, m) - d[n]
        /\ ~h.up <=> w[m] < d[n]
    BY <2>1 DEF FibNextHop, IsDownward
  <2>3. PICK c, t : c = Metric(n, m) /\ t = Weight(n, m)
    OBVIOUS
  <2>4. /\ w[m] \in Nat /\ d[m] <= w[m] /\ d[n] <= w[m] + t /\ c \in Nat /\ t \in Nat /\ t <= c
        /\ m \in Nodes \ {n} /\ d[m] \in 0 .. Inf /\ d[n] \in 0 .. Inf /\ Inf \in Nat
        /\ w[m] + c < Inf
    BY <1>2, <1>3, <1>5, <2>1, <2>3, Bounds
  <2>5. WellFormed(topo) => c # 0
    BY <1>5, <2>3
  <2> QED
    BY <2>2, <2>3, <2>4, <2>5
<1>8. \A h, o \in NextHopsOf(n) : h.nh = o.nh => h = o
  BY <1>6 DEF FibNextHop
<1>9. ASSUME WellFormed(topo), d[n] < Inf PROVE \E h \in NextHopsOf(n) : ~h.up
  <2>1. PICK m \in N : w[m] + Metric(n, m) <= d[n]
    BY <1>4, <1>5, <1>9
  <2>2. PICK c : c = Metric(n, m)
    OBVIOUS
  <2>3. w[m] \in Nat /\ c \in Nat \ {0} /\ w[m] + c <= d[n] /\ d[n] \in 0 .. Inf /\ Inf \in Nat
    BY <1>2, <1>3, <1>5, <1>9, <2>1, <2>2, Bounds
  <2>4. w[m] + Metric(n, m) < Inf /\ w[m] < d[n]
    BY <1>9, <2>2, <2>3
  <2> PICK h : h = FibNextHop(w[m] + Metric(n, m), m, w[m] + Metric(n, m) - d[n],
                              ~IsDownward(w[m], d[n]))
    OBVIOUS
  <2>5. h \in NextHopsOf(n)
    BY <1>6, <2>4
  <2>6. ~h.up
    BY <2>4 DEF FibNextHop, IsDownward
  <2> QED
    BY <2>5, <2>6
<1> QED
  BY <1>1, <1>2, <1>7, <1>8, <1>9

\* In a well-formed scenario no assertion about the initial FIB fails.
LEMMA WellFormedPasses ==
  ASSUME topo \in Topologies, WellFormed(topo), dist' = DistIn(Nodes),
         fib' = [n \in Sources |-> NextHopsOf(n)]
  PROVE  /\ \A n \in Nodes : CheckInputs(n)
         /\ \A n \in Sources : /\ \A h \in fib'[n] : Insertable(n, h)
                               /\ CheckFib(fib'[n])
<1>1. /\ Nodes \subseteq 0 .. MaxSize /\ Nodes \subseteq 0 .. NodeIdLimit
      /\ Nodes \subseteq topo.named /\ Cardinality(Nodes) \in 2 .. MaxSize
  BY DEF WellFormed, Nodes
<1>2. \A n \in Nodes : CheckInputs(n)
  BY <1>1 DEF CheckInputs
<1>3. ASSUME NEW n \in Sources
      PROVE  (\A h \in fib'[n] : Insertable(n, h)) /\ CheckFib(fib'[n])
  <2>1. fib'[n] = NextHopsOf(n)
    OBVIOUS
  <2>2. \A h \in fib'[n] : /\ h.cost \in 0 .. Inf - 1 /\ h.cost # 0 /\ h.delta \in 0 .. Inf
                           /\ h.nh \in Nodes \ {n} /\ dist'[n] < Inf
    BY <2>1, FirstHops
  <2>3. \A c \in 0 .. Inf - 1 : c # 0 => c \in 1 .. MaxCost - 1 /\ c \in 1 .. MaxCost
    <3>1. Inf \in Nat /\ MaxCost \in Nat /\ Inf < MaxCost
      BY SMT DEF Inf, MaxCost
    <3> QED
      BY <3>1
  <2>4. \A c \in 0 .. Inf : c >= 0
    BY Bounds
  <2>5. \A h \in fib'[n] : Insertable(n, h)
    BY <1>1, <2>2, <2>3, <2>4 DEF Insertable, Constructible
  <2>6. \A h, o \in fib'[n] : h.nh = o.nh => h = o
    BY <2>1, FirstHops
  <2>7. fib'[n] # {} => \E h \in fib'[n] : ~h.up
    BY <2>1, <2>2, FirstHops
  <2>8. CheckFib(fib'[n])
    BY <2>2, <2>3, <2>6, <2>7 DEF CheckFib
  <2> QED
    BY <2>5, <2>8
<1> QED
  BY <1>2, <1>3

LEMMA FillDescends ==
  ASSUME DownInv, FillFib
  PROVE  DownInv'
<1>1. /\ topo' = topo /\ topo \in Topologies /\ Nodes' = Nodes /\ Sources' = Sources
      /\ dist' = DistIn(Nodes) /\ fib' = [n \in Sources |-> NextHopsOf(n)]
      /\ phase' \in {"graph", "asserted"}
  BY DEF DownInv, FillFib, Nodes, Sources
<1>2. \A n \in Sources : fib'[n] = NextHopsOf(n)
  BY <1>1
<1>3. Nodes \subseteq Nat /\ Cardinality(Nodes) \in Nat /\ Dst \in Nodes
  BY <1>1, TopologyFacts
<1>4. phase' = "graph" => /\ \A n \in Nodes : CheckInputs(n)
                          /\ \A n \in Sources : CheckFib(fib'[n])
  BY DEF FillFib
<1>5. WellFormed(topo) => phase' = "graph"
  BY <1>1, WellFormedPasses DEF FillFib
<1>6. \A n \in Nodes : dist'[n] \in Nat
  <2>1. ASSUME NEW n \in Nodes PROVE dist'[n] \in Nat
    <3>1. CASE n \in Sources
      BY <1>1, <3>1, FirstHops, Bounds
    <3>2. CASE n = Dst
      <4>1. PICK g : Rounds(g, Nodes) /\ DistIn(Nodes) = g[Cardinality(Nodes)]
        BY <1>1, DistInRounds
      <4> QED
        BY <1>1, <1>3, <4>1 DEF Rounds
    <3> QED
      BY <3>1, <3>2 DEF Sources
  <2> QED
    BY <2>1
<1>7. ASSUME phase' = "graph" PROVE Descending(fib)'
  <2>0. Nodes \subseteq 0 .. MaxSize /\ Cardinality(Nodes) \in 1 .. MaxSize
    <3>1. \A n \in Nodes : n \in 0 .. MaxSize /\ Cardinality(Nodes) \in 2 .. MaxSize
      BY <1>4, <1>7 DEF CheckInputs
    <3> QED
      BY <1>3, <3>1, Bounds
  <2>1. ASSUME NEW n \in Sources, NEW h \in fib'[n]
        PROVE  /\ Ranked(h) /\ h.nh \in Nodes \ {n}
               /\ dist'[n] < Inf /\ dist'[h.nh] < Inf
               /\ ~h.up => dist'[h.nh] < dist'[n]
    <3>1. /\ h.cost \in 0 .. Inf - 1 /\ h.delta \in 0 .. Inf /\ h.nh \in Nodes \ {n}
          /\ dist'[n] < Inf /\ dist'[h.nh] < Inf
          /\ ~h.up => dist'[h.nh] < dist'[n]
      BY <1>1, <1>2, FirstHops
    <3>2. Ranked(h)
      <4>1. h.nh \in 0 .. MaxSize
        BY <2>0, <3>1
      <4>2. \A c \in 0 .. Inf - 1 : c \in 0 .. Inf
        BY Bounds
      <4> QED
        BY <3>1, <4>1, <4>2 DEF Ranked
    <3> QED
      BY <3>1, <3>2
  <2>2. \A n \in Sources : \A h, o \in fib'[n] : h.nh = o.nh => h = o
    BY <1>1, <1>2, FirstHops
  <2>3. \A n \in Sources : fib'[n] # {} => \E h \in fib'[n] : ~h.up
    BY <1>4, <1>7 DEF CheckFib
  <2>4. fib' = [n \in Sources |-> fib'[n]]
    BY <1>1
  <2> QED
    BY <1>1, <2>0, <2>1, <2>2, <2>3, <2>4 DEF Descending
<1>8. WellFormed(topo) => HasHops(fib)'
  <2>1. WellFormed(topo) => \A n \in Sources : dist'[n] < Inf => fib'[n] # {}
    BY <1>1, <1>2, FirstHops
  <2> QED
    BY <1>1, <2>1 DEF HasHops
<1> QED
  BY <1>1, <1>5, <1>6, <1>7, <1>8 DEF DownInv

\* Next hops of one node are as many as its neighbours at most.
LEMMA HopsAreFew ==
  ASSUME topo \in Topologies, Descending(fib), NEW n \in Sources
  PROVE  IsFiniteSet(fib[n]) /\ Cardinality(fib[n]) \in 0 .. MaxSize
<1> DEFINE to == [h \in fib[n] |-> h.nh]
<1>1. to \in Injection(fib[n], Nodes)
  BY DEF Injection, IsInjective, Descending
<1>2. IsFiniteSet(Nodes) /\ Cardinality(Nodes) \in 1 .. MaxSize
  BY TopologyFacts DEF Descending
<1>3. IsFiniteSet(fib[n]) /\ Cardinality(fib[n]) <= Cardinality(Nodes)
  <2> HIDE DEF to
  <2> QED
    BY <1>1, <1>2, FS_Injection
<1>4. Cardinality(fib[n]) \in Nat
  BY <1>3, FS_CardinalityType
<1> QED
  BY <1>2, <1>3, <1>4, Bounds

\* Erasing an upward next hop takes that one out and leaves a way down.
LEMMA ErasedDescends ==
  ASSUME Descending(fib), NEW i \in Sources, NEW h \in fib[i], h.up
  PROVE  /\ Erasable(i, h.nh) /\ Descending(Erase(i, h.nh))
         /\ HasHops(fib) => HasHops(Erase(i, h.nh))
         /\ \A n \in Sources :
              Erase(i, h.nh)[n] = IF n = i THEN fib[n] \ {h} ELSE fib[n]
<1>1. DOMAIN fib = Sources
  BY DEF Descending
<1>2. \A n \in Sources : Erase(i, h.nh)[n] = IF n = i THEN {o \in fib[n] : o.nh # h.nh} ELSE fib[n]
  BY <1>1 DEF Erase
<1>3. \A o \in fib[i] : o.nh = h.nh => o = h
  BY DEF Descending
<1>4. \A n \in Sources : Erase(i, h.nh)[n] = IF n = i THEN fib[n] \ {h} ELSE fib[n]
  <2>1. {o \in fib[i] : o.nh # h.nh} = fib[i] \ {h}
    BY <1>3
  <2> QED
    BY <1>2, <2>1
<1>5. Erasable(i, h.nh)
  BY <1>3 DEF Erasable
<1>6. PICK f : f = Erase(i, h.nh)
  OBVIOUS
<1>7. f = [n \in Sources |-> f[n]]
  BY <1>1, <1>6 DEF Erase
<1>8. \A n \in Sources : f[n] \subseteq fib[n] /\ \A d \in fib[n] : ~d.up => d \in f[n]
  BY <1>4, <1>6
<1>9. \A n \in Sources : fib[n] # {} => \E d \in f[n] : ~d.up
  <2> SUFFICES ASSUME NEW n \in Sources, fib[n] # {} PROVE \E d \in f[n] : ~d.up
    OBVIOUS
  <2>1. PICK d \in fib[n] : ~d.up
    BY DEF Descending
  <2> QED
    BY <1>8, <2>1
<1>10. \A n \in Sources : \A o \in f[n] :
         /\ Ranked(o) /\ o.nh \in Nodes \ {n}
         /\ dist[n] < Inf /\ dist[o.nh] < Inf
         /\ ~o.up => dist[o.nh] < dist[n]
  BY <1>8 DEF Descending
<1>11. \A n \in Sources : \A o, g \in f[n] : o.nh = g.nh => o = g
  BY <1>8 DEF Descending
<1>12. Descending(f)
  <2>1. \A n \in Sources : f[n] # {} => \E d \in f[n] : ~d.up
    BY <1>8, <1>9
  <2> QED
    BY <1>7, <1>10, <1>11, <2>1 DEF Descending
<1>13. HasHops(fib) => HasHops(f)
  BY <1>9 DEF HasHops
<1> QED
  BY <1>4, <1>5, <1>6, <1>12, <1>13

LEMMA QueueDescends ==
  ASSUME DownInv, FillQueue
  PROVE  DownInv'
<1>1. /\ topo' = topo /\ fib' = fib /\ dist' = dist /\ topo \in Topologies
      /\ Nodes' = Nodes /\ Sources' = Sources
  BY DEF DownInv, FillQueue, Nodes, Sources
<1>2. Descending(fib) /\ \A n \in Nodes : dist[n] \in Nat
  BY DEF DownInv, FillQueue
<1>3. Descending(fib)' /\ (HasHops(fib) => HasHops(fib)')
  BY <1>1, <1>2 DEF Descending, HasHops
<1>4. ASSUME NEW p \in q'
      PROVE  /\ p.id \in Sources /\ p.remaining \in 0 .. MaxSize
             /\ p.uw # {} /\ p.uw = Upward(p.id) /\ Prioritized(p)
             /\ p.remaining = Cardinality(fib[p.id])
  <2>1. PICK n \in Sources : /\ Upward(n) # {}
                             /\ p = [id |-> n, remaining |-> Cardinality(fib[n]), uw |-> Upward(n)]
    BY DEF FillQueue
  <2>2. p.id = n /\ p.remaining = Cardinality(fib[n]) /\ p.uw = Upward(n)
    BY <2>1
  <2>3. IsFiniteSet(fib[n]) /\ Cardinality(fib[n]) \in 0 .. MaxSize
    BY <1>1, <1>2, HopsAreFew
  <2>4. PICK h \in fib[n] : h.up
    BY <2>1 DEF Upward
  <2>5. PICK d \in fib[n] : ~d.up
    BY <1>2, <2>4 DEF Descending
  <2>6. Upward(n) \subseteq fib[n] /\ Upward(n) # fib[n]
    BY <2>5 DEF Upward
  <2>7. /\ IsFiniteSet(Upward(n)) /\ Cardinality(Upward(n)) <= Cardinality(fib[n])
        /\ Cardinality(Upward(n)) # Cardinality(fib[n])
    BY <2>3, <2>6, FS_Subset
  <2>8. Cardinality(Upward(n)) \in Nat
    BY <2>7, FS_CardinalityType
  <2>9. Cardinality(fib[n]) \in Nat
    BY <2>3, Bounds
  <2>10. Cardinality(Upward(n)) < Cardinality(fib[n]) /\ Cardinality(fib[n]) > 0
    BY <2>7, <2>8, <2>9
  <2>11. Prioritized(p)
    BY <2>2, <2>10 DEF Prioritized
  <2> QED
    BY <2>1, <2>2, <2>3, <2>11
<1>5. phase' = "loops"
  BY <1>4 DEF FillQueue
<1>6. \A p, r \in q' : p.id = r.id => p = r
  BY DEF FillQueue
<1>7. \A n : Upward(n)' = Upward(n)
  BY <1>1 DEF Upward
<1>8. QueueFits'
  BY <1>1, <1>4, <1>6, <1>7 DEF QueueFits, Prioritized
<1> QED
  BY <1>1, <1>2, <1>3, <1>5, <1>8 DEF DownInv, FillQueue

\* removeLoops pops an upward next hop of the FIB, and its NodePrio still has more
\* next hops than upward ones.
LEMMA Popped ==
  ASSUME DownInv, phase = "loops", q # {}
  PROVE  /\ Top \in q /\ HighestCostUw(Top) \in Top.uw
         /\ LET p == Top
                h == HighestCostUw(p)
            IN  /\ p.id \in Sources /\ h \in fib[p.id] /\ h.up
                /\ p.uw \subseteq Upward(p.id)
                /\ \A loops \in BOOLEAN :
                     /\ Remaining(p, loops) \in 0 .. MaxSize
                     /\ Cardinality(UwWithout(p, h)) < Remaining(p, loops)
                     /\ Remaining(p, loops) > 0
<1>1. topo \in Topologies /\ Descending(fib) /\ QueueFits
  BY DEF DownInv
<1>2. \A p \in q : /\ \A h \in p.uw : Ranked(h) /\ h \in fib[p.id] /\ h.up
                   /\ \A h, o \in p.uw : h.nh = o.nh => h = o
  BY <1>1 DEF QueueFits, Descending, Upward
<1>3. \A p \in q : HighestCostUw(p) \in p.uw
  BY <1>1, <1>2, HighestChosen DEF QueueFits
<1>4. \A p \in q : p.id \in 0 .. MaxSize
  BY <1>1 DEF QueueFits, Sources, Descending
<1>5. Top \in q
  BY <1>1, <1>2, <1>3, <1>4, TopChosen DEF QueueFits
<1>6. PICK p \in q : p = Top
  BY <1>5
<1>7. PICK h \in p.uw : h = HighestCostUw(p)
  BY <1>3
<1>8. h \in fib[p.id] /\ h.up /\ p.id \in Sources /\ p.uw \subseteq Upward(p.id)
  BY <1>1, <1>2 DEF QueueFits
<1>9. ASSUME NEW loops \in BOOLEAN
      PROVE  /\ Remaining(p, loops) \in 0 .. MaxSize
             /\ Cardinality(UwWithout(p, h)) < Remaining(p, loops)
             /\ Remaining(p, loops) > 0
  <2>1. IsFiniteSet(p.uw)
    <3>1. p.uw \subseteq fib[p.id] /\ IsFiniteSet(fib[p.id])
      BY <1>1, <1>8, HopsAreFew DEF Upward
    <3> QED
      BY <3>1, FS_Subset
  <2>2. Cardinality(p.uw) \in Nat /\ Cardinality(p.uw) < p.remaining /\ p.remaining \in 0 .. MaxSize
    BY <1>1, <2>1, FS_CardinalityType DEF QueueFits, Prioritized
  <2>3. Cardinality(p.uw \ {h}) = Cardinality(p.uw) - 1 /\ IsFiniteSet(p.uw \ {h})
    BY <2>1, FS_RemoveElement
  <2>4. Cardinality(p.uw \ {h}) \in Nat
    BY <2>3, FS_CardinalityType
  <2>5. PICK c, d, r, b : /\ c = Cardinality(p.uw) /\ d = Cardinality(p.uw \ {h})
                          /\ r = p.remaining /\ b = MaxSize
    OBVIOUS
  <2>6. c \in Nat /\ d \in Nat /\ d = c - 1 /\ c < r /\ b \in Nat /\ r \in 0 .. b
    BY <2>2, <2>3, <2>4, <2>5, Bounds
  <2>7. r - 1 \in 0 .. b /\ d < r - 1 /\ r - 1 > 0 /\ d < r /\ r > 0
    BY <2>6
  <2>8. UwWithout(p, h) = p.uw \ {h} /\ Remaining(p, loops) = IF loops THEN r - 1 ELSE r
    BY <2>5 DEF UwWithout, Remaining
  <2> QED
    BY <2>5, <2>6, <2>7, <2>8
<1> QED
  BY <1>5, <1>6, <1>7, <1>8, <1>9

LEMMA LoopsDescend ==
  ASSUME DownInv, RemoveLoop
  PROVE  /\ DownInv'
         /\ phase' = "loops" => Smaller(Queued', Queued)
<1>1. /\ topo' = topo /\ dist' = dist /\ topo \in Topologies
      /\ Nodes' = Nodes /\ Sources' = Sources
      /\ phase = "loops" /\ q # {}
  BY DEF DownInv, RemoveLoop, Nodes, Sources
<1>2. Descending(fib) /\ QueueFits /\ \A n \in Nodes : dist[n] \in Nat
  BY <1>1 DEF DownInv
<1>3. PICK p, h : p = Top /\ h = HighestCostUw(Top)
  OBVIOUS
<1>4. PICK loops \in BOOLEAN : loops = WillLoop(p.id, h.nh)
  BY DEF WillLoop, Reaches
<1>5. /\ p \in q /\ h \in p.uw /\ p.id \in Sources /\ h \in fib[p.id] /\ h.up
      /\ p.uw \subseteq Upward(p.id)
      /\ Remaining(p, loops) \in 0 .. MaxSize
      /\ Cardinality(UwWithout(p, h)) < Remaining(p, loops)
      /\ Remaining(p, loops) > 0
  BY <1>1, <1>3, Popped
<1>6. PICK uw : uw = UwWithout(p, h) /\ uw = p.uw \ {h}
  BY DEF UwWithout
<1>7. PICK left : left = [id |-> p.id, remaining |-> Remaining(p, loops), uw |-> uw]
  OBVIOUS
<1>8. left.id = p.id /\ left.remaining = Remaining(p, loops) /\ left.uw = uw
  BY <1>7
<1>9. Prioritized(left)
  BY <1>5, <1>6, <1>8 DEF Prioritized
<1>10. /\ Erasable(p.id, h.nh) /\ Descending(Erase(p.id, h.nh))
       /\ HasHops(fib) => HasHops(Erase(p.id, h.nh))
       /\ \A n \in Sources :
            Erase(p.id, h.nh)[n] = IF n = p.id THEN fib[n] \ {h} ELSE fib[n]
  BY <1>2, <1>5, ErasedDescends
<1>11. \/ phase' = "aborted" /\ fib' = fib /\ q' = q
       \/ /\ fib' = IF loops THEN Erase(p.id, h.nh) ELSE fib
          /\ q' = (q \ {p}) \cup (IF uw = {} THEN {} ELSE {left})
          /\ phase' = phase
  BY <1>1, <1>3, <1>4, <1>6, <1>7, <1>9, <1>10 DEF RemoveLoop
<1>12. CASE phase' = "aborted" /\ fib' = fib /\ q' = q
  <2>1. Descending(fib)' /\ (HasHops(fib) => HasHops(fib)')
    BY <1>1, <1>2, <1>12 DEF Descending, HasHops
  <2> QED
    BY <1>1, <1>2, <1>12, <2>1 DEF DownInv
<1>13. CASE /\ fib' = IF loops THEN Erase(p.id, h.nh) ELSE fib
            /\ q' = (q \ {p}) \cup (IF uw = {} THEN {} ELSE {left})
            /\ phase' = phase
  <2>1. \A n \in Sources : fib'[n] = IF n = p.id /\ loops THEN fib[n] \ {h} ELSE fib[n]
    BY <1>10, <1>13
  <2>2. Descending(fib') /\ (HasHops(fib) => HasHops(fib'))
    BY <1>2, <1>10, <1>13
  <2>3. Descending(fib)' /\ (HasHops(fib) => HasHops(fib)')
    BY <1>1, <2>2 DEF Descending, HasHops
  <2>4. \A r \in q : r.id = p.id => r = p
    BY <1>2, <1>5 DEF QueueFits
  <2>5. ASSUME NEW r \in q'
        PROVE  /\ r.id \in Sources /\ r.remaining \in 0 .. MaxSize
               /\ r.uw # {} /\ r.uw \subseteq Upward(r.id)'
               /\ Prioritized(r)
               /\ r = left \/ (r \in q /\ r.id # p.id)
               /\ r = left => uw # {}
    <3>1. CASE r \in q /\ r # p
      <4>1. r.id # p.id
        BY <2>4, <3>1
      <4>2. /\ r.id \in Sources /\ r.remaining \in 0 .. MaxSize
            /\ r.uw # {} /\ r.uw \subseteq Upward(r.id) /\ Prioritized(r)
        BY <1>2, <3>1 DEF QueueFits
      <4>3. Upward(r.id)' = Upward(r.id)
        BY <2>1, <4>1, <4>2 DEF Upward
      <4>4. r # left
        BY <1>8, <4>1
      <4> QED
        BY <3>1, <4>1, <4>2, <4>3, <4>4
    <3>2. CASE r = left /\ uw # {}
      <4>1. uw \subseteq Upward(p.id)'
        <5>1. ASSUME NEW g \in uw PROVE g \in fib'[p.id] /\ g.up
          <6>1. g \in fib[p.id] /\ g.up /\ g # h
            BY <1>5, <1>6, <5>1 DEF Upward
          <6> QED
            BY <1>5, <2>1, <6>1
        <5> QED
          BY <5>1 DEF Upward
      <4>2. Upward(left.id)' = Upward(p.id)'
        BY <1>8 DEF Upward
      <4> QED
        BY <1>5, <1>8, <1>9, <3>2, <4>1, <4>2
    <3> QED
      BY <1>13, <3>1, <3>2
  <2>6. \A r, t \in q' : r.id = t.id => r = t
    <3>1. \A r, t \in q : r.id = t.id => r = t
      BY <1>2 DEF QueueFits
    <3> QED
      BY <1>8, <2>5, <3>1
  <2>7. QueueFits'
    BY <1>1, <2>5, <2>6 DEF QueueFits, Prioritized
  <2>8. DownInv'
    BY <1>1, <1>2, <1>13, <2>3, <2>7 DEF DownInv
  <2>9. <<p.id, h>> \in Queued
    BY <1>5 DEF Queued
  <2>10. \A x \in Queued' : x \in Queued /\ x # <<p.id, h>>
    <3> SUFFICES ASSUME NEW r \in q', NEW g \in r.uw
                 PROVE  <<r.id, g>> \in Queued /\ <<r.id, g>> # <<p.id, h>>
      BY DEF Queued
    <3>1. CASE r = left
      <4>1. g \in p.uw /\ g # h /\ r.id = p.id
        BY <1>6, <1>8, <3>1
      <4> QED
        BY <1>5, <4>1 DEF Queued
    <3>2. CASE r \in q /\ r.id # p.id
      BY <3>2 DEF Queued
    <3> QED
      BY <2>5, <3>1, <3>2
  <2>11. Smaller(Queued', Queued)
    BY <2>9, <2>10 DEF Smaller
  <2> QED
    BY <2>8, <2>11
<1> QED
  BY <1>11, <1>12, <1>13

LEMMA SetDescends ==
  ASSUME DownInv, FillNhSet
  PROVE  DownInv'
<1>1. /\ topo' = topo /\ fib' = fib /\ dist' = dist /\ topo \in Topologies
      /\ Nodes' = Nodes /\ Sources' = Sources /\ phase' = "deadends"
  BY DEF DownInv, FillNhSet, Nodes, Sources
<1>2. Descending(fib) /\ \A n \in Nodes : dist[n] \in Nat
  BY DEF DownInv, FillNhSet
<1>3. Descending(fib)' /\ (HasHops(fib) => HasHops(fib)')
  BY <1>1, <1>2 DEF Descending, HasHops
<1>4. \A n : Upward(n)' = Upward(n)
  BY <1>1 DEF Upward
<1>5. \A x \in nhSet' : x = <<x[1], x[2]>> /\ x[1] \in Sources /\ x[2] \in Upward(x[1])
  BY DEF FillNhSet
<1>6. SetFits'
  BY <1>1, <1>4, <1>5 DEF SetFits
<1> QED
  BY <1>1, <1>2, <1>3, <1>6 DEF DownInv, FillNhSet

\* removeDeadEnds: a next hop up is erased; what leads to it from below leads up, for a
\* way down and back would be nearer and further.
LEMMA EndsDescend ==
  ASSUME DownInv, RemoveDeadEnd
  PROVE  /\ DownInv'
         /\ phase' = "deadends" =>
              Smaller(Hops', Hops) \/ (Hops' = Hops /\ Smaller(nhSet', nhSet))
<1>1. /\ topo' = topo /\ dist' = dist /\ topo \in Topologies
      /\ Nodes' = Nodes /\ Sources' = Sources
      /\ phase = "deadends" /\ nhSet # {}
  BY DEF DownInv, RemoveDeadEnd, Nodes, Sources
<1>2. Descending(fib) /\ SetFits /\ \A n \in Nodes : dist[n] \in Nat
  BY <1>1 DEF DownInv
<1>3. Nodes \subseteq Nat
  BY <1>1, TopologyFacts
<1>4. First \in nhSet
  <2>1. \A x \in nhSet : x = <<x[1], x[2]>> /\ x[1] \in Sources /\ x[2] \in fib[x[1]]
    BY <1>2 DEF SetFits, Upward
  <2>2. \A x \in nhSet : x[1] \in Nat /\ Ranked(x[2])
    <3>1. \A n \in Sources : n \in Nat
      BY <1>3 DEF Sources
    <3> QED
      BY <1>2, <2>1, <3>1 DEF Descending
  <2>3. \A x, y \in nhSet : x[1] = y[1] /\ x[2].nh = y[2].nh => x = y
    BY <1>2, <2>1 DEF Descending
  <2> QED
    BY <1>1, <2>1, <2>2, <2>3, FirstChosen
<1>5. PICK i, h : i = First[1] /\ h = First[2]
  OBVIOUS
<1>6. First = <<i, h>> /\ i \in Sources /\ h \in fib[i] /\ h.up
  BY <1>2, <1>4, <1>5 DEF SetFits, Upward
<1>7. PICK again : again = LeadingTo(i)
  OBVIOUS
<1>8. /\ Erasable(i, h.nh) /\ Descending(Erase(i, h.nh))
      /\ HasHops(fib) => HasHops(Erase(i, h.nh))
      /\ \A n \in Sources : Erase(i, h.nh)[n] = IF n = i THEN fib[n] \ {h} ELSE fib[n]
  BY <1>2, <1>6, ErasedDescends
<1>9. \A x \in again : /\ x = <<x[1], x[2]>> /\ x[1] \in Sources /\ x[1] # i
                       /\ x[2] \in fib[x[1]] /\ x[2].up
  <2>1. again = UNION {{<<d.nh, y>> : y \in {z \in fib[d.nh] : z.nh = i}}
                       : d \in {x \in fib[i] : ~x.up /\ x.nh # Dst}}
    BY <1>7 DEF LeadingTo
  <2>2. ASSUME NEW d \in fib[i], ~d.up, d.nh # Dst, NEW y \in fib[d.nh], y.nh = i
        PROVE  d.nh \in Sources /\ d.nh # i /\ y.up
    <3>1. d.nh \in Nodes \ {i} /\ dist[d.nh] < dist[i]
      BY <1>2, <1>6, <2>2 DEF Descending
    <3>2. d.nh \in Sources
      BY <2>2, <3>1 DEF Sources
    <3>3. ~y.up => dist[i] < dist[d.nh]
      BY <1>2, <2>2, <3>2 DEF Descending
    <3>4. dist[i] \in Nat /\ dist[d.nh] \in Nat
      BY <1>2, <1>6, <3>1 DEF Sources
    <3> QED
      BY <3>1, <3>2, <3>3, <3>4
  <2> QED
    BY <2>1, <2>2
<1>10. CASE LeadsOn(h.nh)
  <2>1. nhSet' = nhSet \ {First} /\ phase' = phase /\ fib' = fib
    BY <1>5, <1>10 DEF RemoveDeadEnd
  <2>2. Descending(fib)' /\ (HasHops(fib) => HasHops(fib)') /\ Hops' = Hops
    BY <1>1, <1>2, <2>1 DEF Descending, HasHops, Hops
  <2>3. SetFits'
    <3>1. \A n : Upward(n)' = Upward(n)
      BY <2>1 DEF Upward
    <3> QED
      BY <1>1, <1>2, <2>1, <3>1 DEF SetFits
  <2>4. DownInv'
    BY <1>1, <1>2, <2>1, <2>2, <2>3 DEF DownInv
  <2>5. Smaller(nhSet', nhSet)
    BY <1>4, <2>1 DEF Smaller
  <2> QED
    BY <2>2, <2>4, <2>5
<1>11. CASE ~LeadsOn(h.nh) /\ fib[h.nh] = {}
  <2>1. phase' = "asserted"
    BY <1>5, <1>11 DEF RemoveDeadEnd
  <2>2. ~WellFormed(topo)
    <3>1. h.nh # Dst /\ h.nh \in Nodes /\ dist[h.nh] < Inf
      BY <1>2, <1>6, <1>11 DEF LeadsOn, Descending
    <3>2. h.nh \in Sources
      BY <3>1 DEF Sources
    <3> QED
      BY <1>1, <1>11, <3>1, <3>2 DEF DownInv, HasHops
  <2> QED
    BY <1>1, <2>1, <2>2 DEF DownInv
<1>12. CASE ~LeadsOn(h.nh) /\ fib[h.nh] # {}
  <2>2. /\ fib' = Erase(i, h.nh) /\ phase' = phase
        /\ nhSet' = (nhSet \ {First}) \cup again
    BY <1>5, <1>7, <1>8, <1>9, <1>12 DEF RemoveDeadEnd
  <2>3. Descending(fib)' /\ (HasHops(fib) => HasHops(fib)')
    <3>1. Descending(fib') /\ (HasHops(fib) => HasHops(fib'))
      BY <1>8, <2>2
    <3> QED
      BY <1>1, <3>1 DEF Descending, HasHops
  <2>4. \A n \in Sources : fib'[n] = IF n = i THEN fib[n] \ {h} ELSE fib[n]
    BY <1>8, <2>2
  <2>5. SetFits'
    <3>1. ASSUME NEW x \in nhSet'
          PROVE  x = <<x[1], x[2]>> /\ x[1] \in Sources /\ x[2] \in Upward(x[1])'
      <4>1. /\ x = <<x[1], x[2]>> /\ x[1] \in Sources /\ x[2] \in fib[x[1]] /\ x[2].up
            /\ x # First \/ x[1] # i
        BY <1>2, <1>9, <2>2 DEF SetFits, Upward
      <4>2. x[2] \in fib'[x[1]]
        BY <1>6, <2>4, <4>1
      <4> QED
        BY <4>1, <4>2 DEF Upward
    <3> QED
      BY <1>1, <3>1 DEF SetFits
  <2>6. DownInv'
    BY <1>1, <1>2, <2>2, <2>3, <2>5 DEF DownInv
  <2>7. Hops' = UNION {{<<n, g>> : g \in fib'[n]} : n \in Sources}
    BY <1>1 DEF Hops
  <2>8. \A n \in Sources : \A g \in fib'[n] : g \in fib[n] /\ <<n, g>> # <<i, h>>
    BY <2>4
  <2>9. \A x \in Hops' : x \in Hops /\ x # <<i, h>>
    BY <2>7, <2>8 DEF Hops
  <2>10. <<i, h>> \in Hops
    BY <1>6 DEF Hops
  <2>11. Smaller(Hops', Hops)
    BY <2>9, <2>10 DEF Smaller
  <2> QED
    BY <2>6, <2>11
<1> QED
  BY <1>10, <1>11, <1>12

LEMMA InitDescends == Init => DownInv
BY DEF Init, DownInv

LEMMA UnchangedDescends ==
  ASSUME DownInv, UNCHANGED <<topo, dist, fib, q, nhSet>>,
         phase' = phase \/ (phase = "deadends" /\ phase' = "installed")
  PROVE  DownInv'
<1>1. Nodes' = Nodes /\ Sources' = Sources /\ \A n : Upward(n)' = Upward(n)
  BY DEF Nodes, Sources, Upward
<1>2. (Descending(fib) => Descending(fib)') /\ (HasHops(fib) => HasHops(fib)')
  BY <1>1 DEF Descending, HasHops
<1>3. (QueueFits => QueueFits') /\ (SetFits => SetFits')
  BY <1>1 DEF QueueFits, SetFits, Prioritized
<1> QED
  BY <1>1, <1>2, <1>3 DEF DownInv

LEMMA NextDescends == DownInv /\ [Next]_vars => DownInv'
<1> SUFFICES ASSUME DownInv, [Next]_vars
             PROVE  DownInv'
  OBVIOUS
<1>1. CASE Install
  BY <1>1, UnchangedDescends DEF Install
<1>2. CASE UNCHANGED vars
  BY <1>2, UnchangedDescends DEF vars
<1> QED
  BY <1>1, <1>2, FillDescends, QueueDescends, LoopsDescend, SetDescends, EndsDescend DEF Next

THEOREM DownInvariant == Spec => []DownInv
BY InitDescends, NextDescends, PTL DEF Spec

-----------------------------------------------------------------------------

\* Whatever the topology, down is nearer; in every well-formed scenario no assertion of
\* the initial FIB, of NodePrio or of erase fails, and every node that reaches the
\* destination keeps a way down.
THEOREM EveryNodeKeepsAWayDown == Spec => []DownwardDescends
<1>1. DownInv => DownwardDescends
  BY DEF DownInv, Descending, HasHops, DownwardDescends, Hops
<1> QED
  BY <1>1, DownInvariant, PTL

\* Every iteration leaves less to do, whatever the order of the queue and the set.
THEOREM EveryIterationProgresses == Spec => Progress
<1> DEFINE Less == /\ phase = "loops" /\ phase' = "loops" => Smaller(Queued', Queued)
                   /\ phase = "deadends" /\ phase' = "deadends" =>
                        Smaller(Hops', Hops) \/ (Hops' = Hops /\ Smaller(nhSet', nhSet))
<1>1. DownInv /\ [Next]_vars => [Less]_vars
  <2> SUFFICES ASSUME DownInv, Next
               PROVE  Less
    BY DEF vars
  <2>1. CASE RemoveLoop
    BY <2>1, LoopsDescend DEF RemoveLoop
  <2>2. CASE RemoveDeadEnd
    BY <2>2, EndsDescend DEF RemoveDeadEnd
  <2>3. CASE FillFib \/ FillQueue \/ FillNhSet \/ Install
    BY <2>3 DEF FillFib, FillQueue, FillNhSet, Install
  <2> QED
    BY <2>1, <2>2, <2>3 DEF Next
<1> QED
  BY <1>1, DownInvariant, PTL DEF Spec, Progress
=============================================================================
