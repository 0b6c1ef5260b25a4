--------------------------- MODULE ScenarioProofs ---------------------------
(***************************************************************************)
(* Proofs about Scenario: the topology readers, the calculation of routes  *)
(* and the helpers, for every map, every pair of files, every network and  *)
(* every sequence of commands.                                             *)
(*                                                                         *)
(* Recursive functions are reasoned about as far as their values go: that  *)
(* such a function exists is shown with the lemmas of Iterations, and what *)
(* its values are by induction over the numbers of its domain.             *)
(***************************************************************************)
EXTENDS Scenario, Iterations, SequenceTheorems, FiniteSetTheorems

-----------------------------------------------------------------------------
(* Orders and components. *)

\* The elements of a finite set that is totally ordered are listed once each.
LEMMA ListedAll ==
  ASSUME NEW S, IsFiniteSet(S), NEW r,
         \A x, y \in S : x # y => <<x, y>> \in r \/ <<y, x>> \in r,
         \A x \in S : <<x, x>> \notin r,
         \A x, y, z \in S : <<x, y>> \in r /\ <<y, z>> \in r => <<x, z>> \in r
  PROVE  /\ Cardinality(S) \in Nat
         /\ Listed(S, r) \in [1 .. Cardinality(S) -> S]
         /\ \A x \in S : \E i \in 1 .. Cardinality(S) : Listed(S, r)[i] = x
         /\ \A i, j \in 1 .. Cardinality(S) : Listed(S, r)[i] = Listed(S, r)[j] => i = j
<1> DEFINE n == Cardinality(S)
           Below(x) == {y \in S : <<y, x>> \in r}
           pos == [x \in S |-> Cardinality(Below(x)) + 1]
<1>1. n \in Nat
  BY FS_CardinalityType
<1>2. ASSUME NEW x \in S
      PROVE  IsFiniteSet(Below(x)) /\ Cardinality(Below(x)) \in 0 .. n - 1
  <2>1. Below(x) \in SUBSET (S \ {x})
    OBVIOUS
  <2>2. IsFiniteSet(S \ {x}) /\ Cardinality(S \ {x}) = n - 1
    BY FS_RemoveElement
  <2>3. IsFiniteSet(Below(x)) /\ Cardinality(Below(x)) <= n - 1
    <3> HIDE DEF Below
    <3> QED
      BY <2>1, <2>2, FS_Subset
  <2>4. Cardinality(Below(x)) \in Nat
    BY <2>3, FS_CardinalityType
  <2> QED
    BY <1>1, <2>3, <2>4
<1>3. pos \in [S -> 1 .. n]
  <2>1. \A x \in S : Cardinality(Below(x)) + 1 \in 1 .. n
    <3> HIDE DEF Below
    <3> QED
      BY <1>1, <1>2
  <2> QED
    BY <2>1
<1>4. ASSUME NEW x \in S, NEW y \in S, <<x, y>> \in r
      PROVE  pos[x] < pos[y]
  <2>1. x \notin Below(x) /\ Below(x) \cup {x} \in SUBSET Below(y)
    BY <1>4
  <2>2. IsFiniteSet(Below(x)) /\ Cardinality(Below(x)) \in Nat
        /\ IsFiniteSet(Below(y)) /\ Cardinality(Below(y)) \in Nat
    <3> HIDE DEF Below
    <3>1. \A z \in S : IsFiniteSet(Below(z)) /\ Cardinality(Below(z)) \in 0 .. n - 1
      BY <1>2
    <3> QED
      BY <1>1, <3>1
  <2> HIDE DEF Below
  <2>3. Cardinality(Below(x) \cup {x}) = Cardinality(Below(x)) + 1
    BY <2>1, <2>2, FS_AddElement
  <2>4. Cardinality(Below(x) \cup {x}) <= Cardinality(Below(y))
    BY <2>1, <2>2, FS_Subset
  <2> QED
    BY <2>2, <2>3, <2>4
<1>5. ASSUME NEW x \in S, NEW y \in S, pos[x] = pos[y]
      PROVE  x = y
  <2>1. pos[x] \in Nat /\ pos[y] \in Nat
    BY <1>1, <1>3
  <2>2. x # y => pos[x] < pos[y] \/ pos[y] < pos[x]
    BY <1>4
  <2> HIDE DEF pos
  <2> QED
    BY <1>5, <2>1, <2>2
<1>6. pos \in Surjection(S, 1 .. n)
  <2>1. pos \in Injection(S, 1 .. n)
    <3> HIDE DEF pos
    <3> QED
      BY <1>3, <1>5 DEF Injection, IsInjective
  <2>2. IsFiniteSet(1 .. n) /\ Cardinality(1 .. n) = n
    BY <1>1, FS_Interval
  <2> HIDE DEF pos
  <2> QED
    BY <2>1, <2>2, FS_Injection
<1>7. \A i \in 1 .. n : \E x \in S : pos[x] = i
  <2> HIDE DEF pos
  <2> QED
    BY <1>6 DEF Surjection
<1>8. Listed(S, r) = [i \in 1 .. n |-> CHOOSE x \in S : Cardinality(Below(x)) = i - 1]
  BY DEF Listed
<1>9. ASSUME NEW i \in 1 .. n, NEW x \in S, pos[x] = i
      PROVE  Listed(S, r)[i] = x
  <2>1. Cardinality(Below(x)) = i - 1
    <3>1. pos[x] = Cardinality(Below(x)) + 1
      OBVIOUS
    <3>2. Cardinality(Below(x)) \in 0 .. n - 1
      BY <1>2
    <3> HIDE DEF pos, Below
    <3> QED
      BY <1>1, <1>9, <3>1, <3>2
  <2>2. \A y \in S : Cardinality(Below(y)) = i - 1 => y = x
    <3>1. \A y \in S : Cardinality(Below(y)) = i - 1 => pos[y] = i
      OBVIOUS
    <3> HIDE DEF pos
    <3> QED
      BY <1>5, <1>9, <3>1
  <2>3. \A y \in S : Cardinality(Below(y)) = i - 1 <=> y = x
    BY <2>1, <2>2
  <2>4. (CHOOSE y \in S : Cardinality(Below(y)) = i - 1) = x
    <3> HIDE DEF Below
    <3> QED
      BY <2>3
  <2> QED
    BY <1>8, <2>4
<1> HIDE DEF pos, Below
<1>10. \A x \in S : Listed(S, r)[pos[x]] = x /\ pos[x] \in 1 .. n
  BY <1>3, <1>9
<1>11. \A i \in 1 .. n : Listed(S, r)[i] \in S
  BY <1>7, <1>9
<1>12. Listed(S, r) = [i \in 1 .. n |-> Listed(S, r)[i]]
  BY <1>8
<1>13. \A i \in 1 .. n : pos[Listed(S, r)[i]] = i
  BY <1>7, <1>9
<1> QED
  BY <1>1, <1>10, <1>11, <1>12, <1>13

\* Component, in a graph with these edges.
ComponentIn(E, v, V) ==
  LET C[k \in 0 .. Cardinality(V)] ==
        IF k = 0 THEN {v}
        ELSE LET prev == C[k - 1] IN prev \cup {u \in V : \E w \in prev : {u, w} \in E}
  IN  C[Cardinality(V)]

Closed(E, T, V) == \A w \in T, u \in V : {u, w} \in E => u \in T

\* A component is the least set with its first node that no edge leaves.
LEMMA ComponentLeast ==
  ASSUME NEW V, IsFiniteSet(V), NEW v \in V, NEW E
  PROVE  /\ v \in ComponentIn(E, v, V) /\ ComponentIn(E, v, V) \subseteq V
         /\ Closed(E, ComponentIn(E, v, V), V)
         /\ \A T : v \in T /\ Closed(E, T, V) => ComponentIn(E, v, V) \subseteq T
<1> DEFINE n == Cardinality(V)
           More(s) == s \cup {u \in V : \E w \in s : {u, w} \in E}
<1>1. n \in Nat
  BY FS_CardinalityType
<1> DEFINE F == [j \in Nat |-> [s \in SUBSET V |-> More(s)]]
<1>2. F \in IndexedSteps(SUBSET V)
  BY DEF IndexedSteps
<1>3. PICK g \in [Nat -> SUBSET V] : g[0] = {v} /\ \A k \in Nat : g[k + 1] = F[k][g[k]]
  <2>1. \E g : Values(g, SUBSET V, F, {v})
    <3>1. {v} \in SUBSET V
      OBVIOUS
    <3>2. PICK S, x : S = SUBSET V /\ x = {v}
      OBVIOUS
    <3> HIDE DEF F
    <3>3. \E g : Values(g, S, F, x)
      BY <1>2, <3>1, <3>2, Recursion
    <3> QED
      BY <3>2, <3>3
  <2> HIDE DEF F
  <2> QED
    BY <2>1 DEF Values
<1>4. \A k \in Nat : g[k + 1] = More(g[k])
  BY <1>3
<1> DEFINE Is(d) == d = [k \in 0 .. n |-> IF k = 0 THEN {v}
                           ELSE LET prev == d[k - 1]
                                IN  prev \cup {u \in V : \E w \in prev : {u, w} \in E}]
           D == CHOOSE d : Is(d)
<1> HIDE DEF F
<1>5. Is([k \in 0 .. n |-> g[k]])
  <2> DEFINE d == [k \in 0 .. n |-> g[k]]
  <2>1. ASSUME NEW k \in 0 .. n
        PROVE  g[k] = IF k = 0 THEN {v} ELSE More(d[k - 1])
    <3>1. CASE k = 0
      BY <1>3, <3>1
    <3>2. CASE k # 0
      <4>1. k - 1 \in Nat /\ (k - 1) + 1 = k /\ d[k - 1] = g[k - 1]
        BY <1>1, <3>2
      <4>2. g[k] = More(g[k - 1])
        BY <1>4, <4>1
      <4> QED
        BY <3>2, <4>1, <4>2
    <3> QED
      BY <3>1, <3>2
  <2> QED
    BY <2>1
<1>6. Is(D)
  <2> HIDE DEF Is
  <2> QED
    BY <1>5
<1>7. ComponentIn(E, v, V) = D[n]
  BY DEF ComponentIn
<1> HIDE DEF D
<1>8. \A k \in 0 .. n : D[k] = IF k = 0 THEN {v} ELSE More(D[k - 1])
  BY <1>6
<1> HIDE DEF Is, More
<1>9. \A k \in 0 .. n : D[k] = g[k]
  <2> DEFINE T == {k \in Nat : k \in 0 .. n => D[k] = g[k]}
  <2>1. 0 \in T
    BY <1>3, <1>8
  <2>2. ASSUME NEW k \in T \cap Nat PROVE k + 1 \in T
    <3>1. ASSUME k + 1 \in 0 .. n PROVE D[k + 1] = g[k + 1]
      <4>1. k \in 0 .. n /\ k + 1 # 0 /\ (k + 1) - 1 = k /\ D[k] = g[k]
        BY <1>1, <3>1
      <4>2. D[k + 1] = More(D[k])
        BY <1>8, <3>1, <4>1
      <4> QED
        BY <1>4, <4>1, <4>2
    <3> QED
      BY <3>1
  <2>3. Nat \subseteq T
    <3> HIDE DEF T
    <3> QED
      BY <2>1, <2>2, NatSets
  <2> QED
    BY <2>3
<1>10. ComponentIn(E, v, V) = g[n]
  BY <1>1, <1>7, <1>9
<1>11. \A s \in SUBSET V : s \subseteq More(s) /\ (Closed(E, s, V) => More(s) = s)
                           /\ (~Closed(E, s, V) => \E u \in More(s) : u \notin s)
  BY DEF Closed, More
<1>12. \A k \in Nat : v \in g[k]
  <2> DEFINE T == {k \in Nat : v \in g[k]}
  <2>1. 0 \in T
    BY <1>3
  <2>2. \A k \in T \cap Nat : k + 1 \in T
    BY <1>4, <1>11
  <2>3. Nat \subseteq T
    <3> HIDE DEF T
    <3> QED
      BY <2>1, <2>2, NatSets
  <2> QED
    BY <2>3
<1>13. \A k \in Nat : IsFiniteSet(g[k]) /\ Cardinality(g[k]) \in Nat /\ Cardinality(g[k]) <= n
  BY FS_Subset, FS_CardinalityType
<1>14. Closed(E, g[n], V)
  <2> DEFINE T == {k \in Nat : Closed(E, g[k], V) \/ Cardinality(g[k]) >= k + 1}
  <2>1. 0 \in T
    <3>1. Cardinality(g[0]) = 1
      BY <1>3, FS_Singleton
    <3> QED
      BY <3>1
  <2>2. ASSUME NEW k \in T \cap Nat PROVE k + 1 \in T
    <3>1. CASE Closed(E, g[k], V)
      BY <1>4, <1>11, <3>1
    <3>2. CASE ~Closed(E, g[k], V)
      <4>1. PICK u \in g[k + 1] : u \notin g[k]
        BY <1>4, <1>11, <3>2
      <4>2. g[k] \cup {u} \in SUBSET g[k + 1] /\ k + 1 \in Nat
        BY <1>4, <1>11, <4>1
      <4>3. Cardinality(g[k] \cup {u}) = Cardinality(g[k]) + 1
        BY <1>13, <4>1, FS_AddElement
      <4>4. Cardinality(g[k] \cup {u}) <= Cardinality(g[k + 1])
        BY <1>13, <4>2, FS_Subset
      <4>5. Cardinality(g[k]) >= k + 1
        BY <3>2
      <4>6. Cardinality(g[k]) \in Nat /\ Cardinality(g[k + 1]) \in Nat
        BY <1>13, <4>2
      <4> QED
        BY <4>2, <4>3, <4>4, <4>5, <4>6
    <3> QED
      BY <3>1, <3>2
  <2>3. Nat \subseteq T
    <3> HIDE DEF T
    <3> QED
      BY <2>1, <2>2, NatSets
  <2>4. n \in T
    BY <1>1, <2>3
  <2> QED
    BY <1>1, <1>13, <2>4
<1>15. ASSUME NEW T, v \in T, Closed(E, T, V)
       PROVE  g[n] \subseteq T
  <2> DEFINE U == {k \in Nat : g[k] \subseteq T}
  <2>1. 0 \in U
    BY <1>3, <1>15
  <2>2. \A k \in U \cap Nat : k + 1 \in U
    <3>1. \A s \in SUBSET V : s \subseteq T => More(s) \subseteq T
      BY <1>15 DEF More, Closed
    <3> QED
      BY <1>4, <3>1
  <2>3. Nat \subseteq U
    <3> HIDE DEF U
    <3> QED
      BY <2>1, <2>2, NatSets
  <2> QED
    BY <1>1, <2>3
<1> QED
  BY <1>1, <1>10, <1>12, <1>14, <1>15

\* Links between the parts i - 1 and i.
Between(parts, i) == {{v1, v2} : v1 \in parts[i - 1], v2 \in parts[i]}

OneMore(z, sets, a, b) == \E y \in sets, v1 \in a, v2 \in b : z = y \cup {{v1, v2}}

\* What Joined makes of a set of links.
LEMMA JoinedIs == \A sets, a, b : \A z \in Joined(sets, a, b) : OneMore(z, sets, a, b)
  BY DEF Joined, OneMore

\* Each of the possible sets of links has one to every part from the one before it, and
\* no others.
LEMMA JoinsAll ==
  ASSUME NEW n \in Nat, NEW R, NEW parts \in [1 .. n -> SUBSET R], NEW js \in Joins(parts)
  PROVE  /\ \A e \in js : \E i \in 2 .. n : e \in Between(parts, i)
         /\ \A i \in 2 .. n : \E e \in js : e \in Between(parts, i)
<1>1. Len(parts) = n
  BY LenProperties
<1> DEFINE Next1(j, x) == Joined(x, parts[j + 1], parts[j + 2])
           S == SUBSET (SUBSET (SUBSET R))
           F == [j \in Nat |-> [x \in S |-> IF j + 2 \in 1 .. n THEN Next1(j, x) ELSE x]]
<1>2. F \in IndexedSteps(S)
  <2> SUFFICES ASSUME NEW j \in Nat, NEW x \in S, j + 2 \in 1 .. n
               PROVE  Next1(j, x) \in S
    BY DEF IndexedSteps
  <2>1. j + 1 \in 1 .. n
    OBVIOUS
  <2>2. parts[j + 1] \subseteq R /\ parts[j + 2] \subseteq R
    BY <2>1
  <2>3. \A z \in Next1(j, x) : z \in SUBSET (SUBSET R)
    <3> SUFFICES ASSUME NEW z \in Next1(j, x)
                 PROVE  z \in SUBSET (SUBSET R)
      OBVIOUS
    <3>1. PICK y \in x, v1 \in parts[j + 1], v2 \in parts[j + 2] : z = y \cup {{v1, v2}}
      <4>1. OneMore(z, x, parts[j + 1], parts[j + 2])
        BY JoinedIs
      <4> QED
        BY <4>1 DEF OneMore
    <3>2. v1 \in R /\ v2 \in R
      BY <2>2
    <3> QED
      BY <3>1, <3>2
  <2> QED
    BY <2>3
<1>3. PICK g \in [Nat -> S] : g[0] = {{}} /\ \A k \in Nat : g[k + 1] = F[k][g[k]]
  <2>1. \E g : Values(g, S, F, {{}})
    <3>1. PICK T, x : T = S /\ x = {{}}
      OBVIOUS
    <3>3. x \in T
      BY <3>1
    <3> HIDE DEF F, S
    <3>2. \E g : Values(g, T, F, x)
      BY <1>2, <3>1, <3>3, Recursion
    <3> QED
      BY <3>1, <3>2
  <2> HIDE DEF F, S
  <2> QED
    BY <2>1 DEF Values
<1>4. \A k \in Nat : k + 2 \in 1 .. n => g[k + 1] = Next1(k, g[k])
  BY <1>3
<1> DEFINE Is(d) == d = [i \in 1 .. Len(parts) |->
                           IF i = 1 THEN {{}}
                           ELSE Joined(d[i - 1], parts[i - 1], parts[i])]
           D == CHOOSE d : Is(d)
<1> HIDE DEF F, S
<1>5. Is([i \in 1 .. n |-> g[i - 1]])
  <2> DEFINE d == [i \in 1 .. n |-> g[i - 1]]
             Val(i) == IF i = 1 THEN {{}}
                       ELSE Joined(d[i - 1], parts[i - 1], parts[i])
  <2>1. ASSUME NEW i \in 1 .. n
        PROVE  g[i - 1] = Val(i)
    <3>1. CASE i = 1
      BY <1>3, <3>1
    <3>2. CASE i # 1
      <4>1. PICK k \in Nat : k = i - 2 /\ k + 1 = i - 1 /\ k + 2 = i /\ i - 1 \in 1 .. n
        <5>1. i - 2 \in Nat /\ (i - 2) + 1 = i - 1 /\ (i - 2) + 2 = i /\ i - 1 \in 1 .. n
          BY <3>2
        <5> QED
          BY <5>1
      <4>2. d[i - 1] = g[k]
        <5>1. (i - 1) - 1 = k
          BY <4>1
        <5> QED
          BY <4>1, <5>1
      <4>3. g[i - 1] = Next1(k, g[k])
        BY <1>4, <4>1
      <4> HIDE DEF d
      <4>4. Val(i) = Joined(g[k], parts[k + 1], parts[k + 2])
        BY <3>2, <4>1, <4>2
      <4> QED
        BY <4>3, <4>4
    <3> QED
      BY <3>1, <3>2
  <2> HIDE DEF Val
  <2>2. d = [i \in 1 .. n |-> Val(i)]
    BY <2>1
  <2> QED
    BY <1>1, <2>2 DEF Val
<1>6. Is(D)
  <2> HIDE DEF Is
  <2> QED
    BY <1>5
<1>7. Joins(parts) = IF n < 1 THEN {{}} ELSE D[n]
  BY <1>1 DEF Joins, LastConnected
<1> HIDE DEF D
<1>8. \A i \in 1 .. n : D[i] = IF i = 1 THEN {{}}
        ELSE Joined(D[i - 1], parts[i - 1], parts[i])
  BY <1>1, <1>6
<1> HIDE DEF Is, Next1
<1>9. ASSUME NEW m \in 1 .. n, m + 1 \in 1 .. n, NEW z \in D[m + 1]
       PROVE  OneMore(z, D[m], parts[m], parts[m + 1])
  <2>1. m + 1 # 1 /\ (m + 1) - 1 = m
    OBVIOUS
  <2>2. D[m + 1] = Joined(D[m], parts[m], parts[m + 1])
    BY <1>8, <1>9, <2>1
  <2> QED
    BY <2>2, JoinedIs
<1> DEFINE Good(y, i) == /\ \A e \in y : \E k \in 2 .. i : e \in Between(parts, k)
                         /\ \A k \in 2 .. i : \E e \in y : e \in Between(parts, k)
<1>10. ASSUME NEW m \in 1 .. n, m + 1 \in 1 .. n, NEW z \in D[m + 1], \A y \in D[m] : Good(y, m)
       PROVE  Good(z, m + 1)
  <2>1. OneMore(z, D[m], parts[m], parts[m + 1])
    BY <1>9, <1>10
  <2>2. PICK y \in D[m], v1 \in parts[m], v2 \in parts[m + 1] : z = y \cup {{v1, v2}}
    <3> HIDE DEF Good
    <3> QED
      BY <2>1 DEF OneMore
  <2>3. {v1, v2} \in Between(parts, m + 1)
    <3>1. (m + 1) - 1 = m
      OBVIOUS
    <3> QED
      BY <3>1 DEF Between
  <2>4. \A k : k \in 2 .. m + 1 <=> k \in 2 .. m \/ k = m + 1
    BY <1>10
  <2>5. Good(y, m)
    BY <1>10
  <2> QED
    BY <2>2, <2>3, <2>4, <2>5
<1> DEFINE T == {i \in Nat : i + 1 \in 1 .. n => \A y \in D[i + 1] : Good(y, i + 1)}
<1>11. 0 \in T
  <2>1. ASSUME 1 \in 1 .. n PROVE \A y \in D[1] : Good(y, 1)
    <3>1. D[1] = {{}}
      BY <1>8, <2>1
    <3> QED
      BY <3>1
  <2> QED
    BY <2>1
<1>12. ASSUME NEW i \in T \cap Nat PROVE i + 1 \in T
  <2> SUFFICES ASSUME (i + 1) + 1 \in 1 .. n, NEW z \in D[(i + 1) + 1]
               PROVE  Good(z, (i + 1) + 1)
    OBVIOUS
  <2>1. i + 1 \in 1 .. n /\ \A y \in D[i + 1] : Good(y, i + 1)
    OBVIOUS
  <2> HIDE DEF Good
  <2> QED
    BY <1>10, <2>1
<1>13. Nat \subseteq T
  <2> HIDE DEF T
  <2> QED
    BY <1>11, <1>12, NatSets
<1>14. CASE n < 1
  BY <1>7, <1>14
<1>15. CASE n >= 1
  <2>1. n - 1 \in T /\ (n - 1) + 1 = n
    BY <1>13, <1>15
  <2>2. Good(js, n)
    BY <1>7, <1>15, <2>1
  <2> QED
    BY <2>2
<1> QED
  BY <1>14, <1>15

\* The least of some numbers is the least.
LEMMA MinOf ==
  ASSUME NEW S, S \subseteq Nat, S # {}
  PROVE  Min(S) \in S /\ \A x \in S : Min(S) <= x
<1>1. \E x \in S : \A y \in S : x <= y
  BY LeastOf
<1> QED
  BY <1>1 DEF Min

\* The greatest of finitely many numbers is the greatest.
LEMMA MaxOf ==
  ASSUME NEW S, S \subseteq Nat, IsFiniteSet(S), S # {}
  PROVE  Max(S) \in S /\ \A x \in S : x <= Max(S)
<1> DEFINE Bounded(U) == \E b \in Nat : \A x \in U : x <= b
<1>1. Bounded(S)
  <2> DEFINE T == {k \in Nat : \A U \in SUBSET S : Cardinality(U) = k => Bounded(U)}
  <2>1. 0 \in T
    <3> SUFFICES ASSUME NEW U \in SUBSET S, Cardinality(U) = 0
                 PROVE  Bounded(U)
      OBVIOUS
    <3>1. IsFiniteSet(U)
      BY FS_Subset
    <3>2. U = {}
      BY <3>1, FS_EmptySet
    <3> QED
      BY <3>2
  <2>2. ASSUME NEW k \in T \cap Nat PROVE k + 1 \in T
    <3> SUFFICES ASSUME NEW U \in SUBSET S, Cardinality(U) = k + 1
                 PROVE  Bounded(U)
      <4> HIDE DEF Bounded
      <4> QED
        OBVIOUS
    <3>1. IsFiniteSet(U)
      BY FS_Subset
    <3>2. PICK y : y \in U
      BY <3>1, FS_EmptySet
    <3>3. Cardinality(U \ {y}) = k
      <4>1. k \in Nat
        OBVIOUS
      <4> HIDE DEF T
      <4>2. Cardinality(U \ {y}) = Cardinality(U) - 1
        BY <3>1, <3>2, FS_RemoveElement
      <4> QED
        BY <4>1, <4>2
    <3>4. PICK b \in Nat : \A x \in U \ {y} : x <= b
      BY <3>3
    <3>5. CASE y <= b
      BY <3>4, <3>5
    <3>6. CASE ~(y <= b)
      <4>1. y \in Nat /\ \A x \in U : x <= y
        BY <3>2, <3>4, <3>6
      <4> QED
        BY <4>1
    <3> QED
      BY <3>5, <3>6
  <2>3. Nat \subseteq T
    <3> HIDE DEF T
    <3> QED
      BY <2>1, <2>2, NatSets
  <2>4. Cardinality(S) \in T
    BY <2>3, FS_CardinalityType
  <2> QED
    BY <2>4
<1>2. \E x \in S : \A y \in S : y <= x
  BY <1>1, GreatestOf
<1>3. \E x \in S : \A y \in S : x >= y
  BY <1>2
<1> QED
  BY <1>3 DEF Max

\* Edges go both ways: any node of a component has the same one.
LEMMA ComponentSame ==
  ASSUME NEW V, IsFiniteSet(V), NEW v \in V, NEW E, NEW w \in ComponentIn(E, v, V)
  PROVE  w \in V /\ ComponentIn(E, w, V) = ComponentIn(E, v, V)
<1> DEFINE A == ComponentIn(E, v, V)
           B == ComponentIn(E, w, V)
<1>1. v \in A /\ A \subseteq V /\ Closed(E, A, V) /\ \A T : v \in T /\ Closed(E, T, V) => A \subseteq T
  BY ComponentLeast
<1>2. w \in V /\ w \in A
  BY <1>1
<1>3. w \in B /\ B \subseteq V /\ Closed(E, B, V) /\ \A T : w \in T /\ Closed(E, T, V) => B \subseteq T
  BY <1>2, ComponentLeast
<1> HIDE DEF A, B
<1>4. B \subseteq A
  BY <1>1, <1>2, <1>3
<1>5. v \in B
  <2> SUFFICES ASSUME v \notin B PROVE FALSE
    OBVIOUS
  <2>1. Closed(E, A \ B, V)
    <3> SUFFICES ASSUME NEW x \in A \ B, NEW u \in V, {u, x} \in E, u \in B
                 PROVE  FALSE
      BY <1>1 DEF Closed
    <3>1. {x, u} = {u, x} /\ x \in V
      BY <1>1
    <3>2. {x, u} \in E
      BY <3>1
    <3> QED
      BY <1>3, <3>1, <3>2 DEF Closed
  <2>2. A \subseteq A \ B
    BY <1>1, <2>1
  <2> QED
    BY <1>2, <1>3, <2>2
<1>6. A \subseteq B
  BY <1>1, <1>3, <1>5
<1> QED
  BY <1>2, <1>4, <1>6 DEF A, B

\* Components, in a graph with these edges.
ComponentsIn(E, V) ==
  LET parts == {ComponentIn(E, v, V) : v \in V}
  IN  Listed(parts, {x \in parts \X parts : Min(x[1]) < Min(x[2])})

\* The list of the components has each of them, and nothing else.
LEMMA ComponentsAll ==
  ASSUME NEW V, V \subseteq Routers, NEW E
  PROVE  \E n \in Nat :
           /\ ComponentsIn(E, V) \in [1 .. n -> SUBSET V]
           /\ \A i \in 1 .. n : \E v \in V : ComponentsIn(E, V)[i] = ComponentIn(E, v, V)
           /\ \A v \in V : \E i \in 1 .. n : ComponentsIn(E, V)[i] = ComponentIn(E, v, V)
<1>1. IsFiniteSet(V) /\ V \subseteq Nat
  BY RoutersAssumption, FS_Subset
<1> DEFINE parts == {ComponentIn(E, v, V) : v \in V}
           r == {x \in parts \X parts : Min(x[1]) < Min(x[2])}
<1>2. \A v \in V : v \in ComponentIn(E, v, V) /\ ComponentIn(E, v, V) \subseteq V
  BY <1>1, ComponentLeast
<1>3. IsFiniteSet(parts)
  <2>1. parts \in SUBSET (SUBSET V)
    BY <1>2
  <2>2. IsFiniteSet(SUBSET V)
    BY <1>1, FS_SUBSET
  <2> HIDE DEF parts
  <2> QED
    BY <2>1, <2>2, FS_Subset
<1>4. \A p \in parts : p \subseteq Nat /\ p # {} /\ Min(p) \in p /\ Min(p) \in Nat
  <2> SUFFICES ASSUME NEW p \in parts
               PROVE  p \subseteq Nat /\ p # {} /\ Min(p) \in p /\ Min(p) \in Nat
    OBVIOUS
  <2>1. p \subseteq Nat /\ p # {}
    BY <1>1, <1>2
  <2> QED
    BY <2>1, MinOf
<1>5. \A p, q \in parts : \A w : w \in p /\ w \in q => p = q
  <2> SUFFICES ASSUME NEW p \in parts, NEW q \in parts, NEW w, w \in p, w \in q
               PROVE  p = q
    OBVIOUS
  <2>1. PICK v \in V, u \in V : p = ComponentIn(E, v, V) /\ q = ComponentIn(E, u, V)
    OBVIOUS
  <2>2. ComponentIn(E, w, V) = p
    BY <1>1, <2>1, ComponentSame
  <2>3. ComponentIn(E, w, V) = q
    BY <1>1, <2>1, ComponentSame
  <2> QED
    BY <2>2, <2>3
<1>6. \A p, q \in parts : <<p, q>> \in r <=> Min(p) < Min(q)
  <2> HIDE DEF parts
  <2> QED
    OBVIOUS
<1> HIDE DEF r, parts
<1>7. \A p, q \in parts : p # q => <<p, q>> \in r \/ <<q, p>> \in r
  <2> SUFFICES ASSUME NEW p \in parts, NEW q \in parts, p # q
               PROVE  Min(p) < Min(q) \/ Min(q) < Min(p)
    BY <1>6
  <2>1. Min(p) # Min(q)
    BY <1>4, <1>5
  <2> QED
    BY <1>4, <2>1
<1>8. \A p \in parts : <<p, p>> \notin r
  BY <1>4, <1>6
<1>9. \A p, q, s \in parts : <<p, q>> \in r /\ <<q, s>> \in r => <<p, s>> \in r
  BY <1>4, <1>6
<1>10. /\ Cardinality(parts) \in Nat
       /\ Listed(parts, r) \in [1 .. Cardinality(parts) -> parts]
       /\ \A p \in parts : \E i \in 1 .. Cardinality(parts) : Listed(parts, r)[i] = p
  BY <1>3, <1>7, <1>8, <1>9, ListedAll
<1>11. ComponentsIn(E, V) = Listed(parts, r)
  BY DEF ComponentsIn, parts, r
<1>12. /\ parts \subseteq SUBSET V
       /\ \A p \in parts : \E v \in V : p = ComponentIn(E, v, V)
       /\ \A v \in V : ComponentIn(E, v, V) \in parts
  BY <1>2 DEF parts
<1> QED
  BY <1>10, <1>11, <1>12

\* The operators of Rocketfuel for the edges that it has.
LEMMA ComponentsAre ==
  /\ \A v, V : Component(v, V) = ComponentIn(edges, v, V)
  /\ \A V : Components(V) = ComponentsIn(edges, V)
<1>1. \A v, V : Component(v, V) = ComponentIn(edges, v, V)
  BY DEF Component, ComponentIn
<1>2. \A V : {Component(v, V) : v \in V} = {ComponentIn(edges, v, V) : v \in V}
  BY <1>1
<1>3. \A V : Components(V) = ComponentsIn(edges, V)
  BY <1>2 DEF Components, ComponentsIn
<1> QED
  BY <1>1, <1>3

\* Biggest is one of the components.
LEMMA BiggestIs ==
  ASSUME vertices \subseteq Routers, vertices # {}
  PROVE  \E v \in vertices : Biggest = ComponentIn(edges, v, vertices)
<1> DEFINE parts == Components(vertices)
           sizes == {Cardinality(parts[i]) : i \in DOMAIN parts}
           size == Max(sizes)
           places == {i \in DOMAIN parts : Cardinality(parts[i]) = size}
<1>1. PICK n \in Nat :
        /\ parts \in [1 .. n -> SUBSET vertices]
        /\ \A i \in 1 .. n : \E v \in vertices : parts[i] = ComponentIn(edges, v, vertices)
        /\ \A v \in vertices : \E i \in 1 .. n : parts[i] = ComponentIn(edges, v, vertices)
  <2>1. parts = ComponentsIn(edges, vertices)
    BY ComponentsAre
  <2> HIDE DEF parts
  <2>2. PICK n \in Nat :
          /\ ComponentsIn(edges, vertices) \in [1 .. n -> SUBSET vertices]
          /\ \A i \in 1 .. n : \E v \in vertices :
               ComponentsIn(edges, vertices)[i] = ComponentIn(edges, v, vertices)
          /\ \A v \in vertices : \E i \in 1 .. n :
               ComponentsIn(edges, vertices)[i] = ComponentIn(edges, v, vertices)
    BY ComponentsAll
  <2> QED
    BY <2>1, <2>2
<1> HIDE DEF parts
<1>2. DOMAIN parts = 1 .. n /\ 1 .. n # {}
  BY <1>1
<1>3. IsFiniteSet(vertices) /\ Cardinality(vertices) \in Nat
  BY RoutersAssumption, FS_Subset, FS_CardinalityType
<1>4. sizes \subseteq 0 .. Cardinality(vertices)
  <2> SUFFICES ASSUME NEW i \in 1 .. n
               PROVE  Cardinality(parts[i]) \in 0 .. Cardinality(vertices)
    BY <1>2
  <2>1. parts[i] \in SUBSET vertices
    BY <1>1
  <2>2. /\ IsFiniteSet(parts[i]) /\ Cardinality(parts[i]) \in Nat
        /\ Cardinality(parts[i]) <= Cardinality(vertices)
    BY <1>3, <2>1, FS_Subset, FS_CardinalityType
  <2> QED
    BY <1>3, <2>2
<1>5. sizes # {}
  BY <1>2
<1> HIDE DEF sizes
<1>6. IsFiniteSet(sizes) /\ sizes \subseteq Nat
  <2>1. IsFiniteSet(0 .. Cardinality(vertices))
    BY <1>3, FS_Interval
  <2>2. IsFiniteSet(sizes)
    BY <1>4, <2>1, FS_Subset
  <2>3. 0 .. Cardinality(vertices) \subseteq Nat
    BY <1>3
  <2> QED
    BY <1>4, <2>2, <2>3
<1>7. size \in sizes
  BY <1>5, <1>6, MaxOf
<1>8. places # {} /\ places \subseteq 1 .. n
  <2>1. \E i \in DOMAIN parts : Cardinality(parts[i]) = size
    BY <1>7 DEF sizes
  <2> HIDE DEF size
  <2> QED
    BY <1>2, <2>1
<1> HIDE DEF places
<1>9. Min(places) \in 1 .. n
  <2>1. places \subseteq Nat
    BY <1>8
  <2>2. Min(places) \in places
    BY <1>8, <2>1, MinOf
  <2> QED
    BY <1>8, <2>2
<1>10. Biggest = parts[Min(places)]
  BY DEF Biggest, parts, sizes, places
<1> QED
  BY <1>1, <1>9, <1>10

\* A component is made of vertices and has the one that it is of.
LEMMA ComponentInside ==
  ASSUME NEW V, V \subseteq Routers, NEW v \in V, NEW E
  PROVE  ComponentIn(E, v, V) \subseteq V /\ v \in ComponentIn(E, v, V)
<1>1. IsFiniteSet(V)
  BY RoutersAssumption, FS_Subset
<1> QED
  BY <1>1, ComponentLeast

EdgesOk(E) == \A e \in E : \E u, v \in Routers : e = {u, v}
MapInv == uids \subseteq Routers /\ vertices \subseteq Routers /\ EdgesOk(edges)

\* KeepOnlyBiggestConnectedComponent adds nothing to the map.
LEMMA KeptIsOk ==
  ASSUME MapInv, KeepOnlyBiggestConnectedComponent
  PROVE  vertices' \subseteq Routers /\ EdgesOk(edges')
<1>1. CASE UNCHANGED <<vertices, edges>>
  BY <1>1 DEF MapInv
<1>2. CASE vertices # {} /\ vertices' = Biggest /\ edges' = EdgesIn(Biggest)
  <2>1. PICK v \in vertices : Biggest = ComponentIn(edges, v, vertices)
    BY <1>2, BiggestIs DEF MapInv
  <2>2. Biggest \subseteq vertices
    BY <2>1, ComponentInside DEF MapInv
  <2>3. EdgesIn(Biggest) \subseteq edges
    BY DEF EdgesIn
  <2> QED
    BY <1>2, <2>2, <2>3 DEF MapInv, EdgesOk
<1> QED
  BY <1>1, <1>2 DEF KeepOnlyBiggestConnectedComponent

\* Edges that connect the backbone have their ends in it.
LEMMA JoinedIsOk ==
  ASSUME MapInv, NEW js \in Joins(Components(Of(BACKBONE)))
  PROVE  EdgesOk(js)
<1> DEFINE V == Of(BACKBONE)
           parts == Components(V)
<1>1. V \subseteq Routers
  BY DEF MapInv, Of
<1> HIDE DEF V
<1>2. PICK n \in Nat : parts \in [1 .. n -> SUBSET V]
  BY <1>1, ComponentsAll, ComponentsAre
<1>3. js \in Joins(parts)
  BY DEF V
<1> HIDE DEF parts
<1>4. \A e \in js : \E i \in 2 .. n : e \in Between(parts, i)
  BY <1>2, <1>3, JoinsAll
<1>5. ASSUME NEW i \in 2 .. n, NEW e \in Between(parts, i)
      PROVE  \E u, v \in Routers : e = {u, v}
  <2>1. i - 1 \in 1 .. n /\ i \in 1 .. n
    OBVIOUS
  <2>2. PICK v1 \in parts[i - 1], v2 \in parts[i] : e = {v1, v2}
    BY <1>5 DEF Between
  <2>3. v1 \in V /\ v2 \in V
    BY <1>2, <2>1, <2>2
  <2> QED
    BY <1>1, <2>2, <2>3
<1> QED
  BY <1>4, <1>5 DEF EdgesOk

\* Every step that reads or changes a map leaves edges between its routers.
LEMMA MapStepKeeps == MapInv /\ MapStep => MapInv'
<1>1. ASSUME MapInv, NEW u \in uids, NEW radius \in 0 .. 1,
             NEW neighbours \in SUBSET {v \in Routers : {u, v} \in MapLinks},
             ReadMapLine(u, neighbours, radius)
      PROVE  MapInv'
  <2>1. uids' \subseteq Routers /\ vertices' \subseteq Routers
    BY <1>1 DEF ReadMapLine, MapInv
  <2>2. \A e \in edges' : e \in edges \/ \E v \in neighbours : e = {u, v}
    BY <1>1 DEF ReadMapLine
  <2> QED
    BY <1>1, <2>1, <2>2 DEF MapInv, EdgesOk
<1>2. ASSUME MapInv, EndOfMap \/ KeepAgain
      PROVE  MapInv'
  <2>1. KeepOnlyBiggestConnectedComponent /\ uids' = uids
    BY <1>2 DEF EndOfMap, KeepAgain
  <2> QED
    BY <1>2, <2>1, KeptIsOk DEF MapInv
<1>3. ASSUME MapInv, ConnectBackboneRouters
      PROVE  MapInv'
  <2>1. /\ uids' = uids /\ vertices' = vertices
        /\ \/ edges' = edges
           \/ \E js \in Joins(Components(Of(BACKBONE))) : edges' = edges \cup js
    BY <1>3 DEF ConnectBackboneRouters
  <2>2. EdgesOk(edges')
    BY <1>3, <2>1, JoinedIsOk DEF MapInv, EdgesOk
  <2> QED
    BY <1>3, <2>1, <2>2 DEF MapInv
<1>4. ASSUME MapInv, RemoveWrongLinks
      PROVE  MapInv'
  <2>1. uids' = uids /\ vertices' = vertices /\ edges' \subseteq edges
    BY <1>4 DEF RemoveWrongLinks
  <2> QED
    BY <1>4, <2>1 DEF MapInv, EdgesOk
<1>5. ASSUME MapInv, RankVertices \/ CreateNodes \/ CreateLinks
      PROVE  MapInv'
  BY <1>5 DEF MapInv, RankVertices, CreateNodes, CreateLinks, mapVars
<1> QED
  BY <1>1, <1>2, <1>3, <1>4, <1>5 DEF MapStep

-----------------------------------------------------------------------------
(* What is read from files. *)

DrawnBandwidths == UNION {Bandwidths[c] : c \in DOMAIN Bandwidths}
LinkSet == [from : Routers, to : Routers,
            ospf : OspfMetrics \cup {Ospf(b) : b \in DrawnBandwidths}, for : SUBSET Routers]

\* Where the second file of the weights reader is at.
IteratorInv == phase = "latencies" => lines \in Nat /\ linkIterator = lines + 1

FileInv == MapInv /\ m_linksList \in Seq(LinkSet) /\ LatencyOfOwnLink /\ IteratorInv

\* A new link has no latency.
LEMMA LinkType ==
  ASSUME NEW from \in Routers, NEW to \in Routers,
         NEW ospf \in OspfMetrics \cup {Ospf(b) : b \in DrawnBandwidths}
  PROVE  Link(from, to, ospf) \in LinkSet /\ Link(from, to, ospf).for = {}
  BY DEF Link, LinkSet

\* A link that is added leaves the latencies of the others.
LEMMA LinkAdded ==
  ASSUME FileInv, NEW link \in LinkSet, link.for = {}, AddLink(link)
  PROVE  m_linksList' \in Seq(LinkSet) /\ LatencyOfOwnLink'
<1>1. m_linksList \in Seq(LinkSet) /\ m_linksList' = Append(m_linksList, link)
  BY DEF FileInv, AddLink
<1>2. m_linksList' \in Seq(LinkSet)
  BY <1>1
<1>3. \A i \in DOMAIN m_linksList' :
        \/ i \in DOMAIN m_linksList /\ m_linksList'[i] = m_linksList[i]
        \/ m_linksList'[i] = link
  BY <1>1
<1> QED
  BY <1>2, <1>3 DEF FileInv, LatencyOfOwnLink

\* The two ends of an edge.
LEMMA EdgeEnds ==
  ASSUME NEW u \in Routers, NEW v \in Routers
  PROVE  /\ Min({u, v}) \in {u, v} /\ Max({u, v}) \in {u, v}
         /\ Min({u, v}) \in Nat /\ Max({u, v}) \in Nat
         /\ {u, v} = {Min({u, v}), Max({u, v})}
<1>1. {u, v} \subseteq Nat /\ {u, v} # {} /\ IsFiniteSet({u, v}) /\ u \in Nat /\ v \in Nat
  BY RoutersAssumption, FS_Subset
<1>2. Min({u, v}) \in {u, v} /\ \A x \in {u, v} : Min({u, v}) <= x
  BY <1>1, MinOf
<1>3. Max({u, v}) \in {u, v} /\ \A x \in {u, v} : x <= Max({u, v})
  BY <1>1, MaxOf
<1> QED
  BY <1>1, <1>2, <1>3

\* CreateLinks goes through every edge, and once only.
LEMMA EdgesListed ==
  ASSUME EdgesOk(edges)
  PROVE  \E n \in Nat :
           /\ Listed(edges, {x \in edges \X edges : Before(x[1], x[2])}) \in [1 .. n -> edges]
           /\ \A i, j \in 1 .. n : Listed(edges, {x \in edges \X edges : Before(x[1], x[2])})[i]
                = Listed(edges, {x \in edges \X edges : Before(x[1], x[2])})[j] => i = j
<1> DEFINE r == {x \in edges \X edges : Before(x[1], x[2])}
<1>1. IsFiniteSet(edges)
  <2>1. edges \in SUBSET (SUBSET Routers)
    BY DEF EdgesOk
  <2>2. IsFiniteSet(SUBSET Routers)
    BY RoutersAssumption, FS_SUBSET
  <2> QED
    BY <2>1, <2>2, FS_Subset
<1>2. \A e \in edges : Min(e) \in Nat /\ Max(e) \in Nat /\ e = {Min(e), Max(e)}
  <2> SUFFICES ASSUME NEW e \in edges
               PROVE  Min(e) \in Nat /\ Max(e) \in Nat /\ e = {Min(e), Max(e)}
    OBVIOUS
  <2>1. PICK u \in Routers, v \in Routers : e = {u, v}
    BY DEF EdgesOk
  <2> QED
    BY <2>1, EdgeEnds
<1>3. \A e, d \in edges : <<e, d>> \in r <=> Before(e, d)
  OBVIOUS
<1> HIDE DEF r
<1>4. \A e, d \in edges : e # d => <<e, d>> \in r \/ <<d, e>> \in r
  <2> SUFFICES ASSUME NEW e \in edges, NEW d \in edges, e # d
               PROVE  Before(e, d) \/ Before(d, e)
    BY <1>3
  <2>1. Min(e) # Min(d) \/ Max(e) # Max(d)
    BY <1>2
  <2> QED
    BY <1>2, <2>1 DEF Before
<1>5. \A e \in edges : <<e, e>> \notin r
  BY <1>2, <1>3 DEF Before
<1>6. \A e, d, b \in edges : <<e, d>> \in r /\ <<d, b>> \in r => <<e, b>> \in r
  BY <1>2, <1>3 DEF Before
<1>7. /\ Cardinality(edges) \in Nat
      /\ Listed(edges, r) \in [1 .. Cardinality(edges) -> edges]
      /\ \A i, j \in 1 .. Cardinality(edges) : Listed(edges, r)[i] = Listed(edges, r)[j] => i = j
  BY <1>1, <1>4, <1>5, <1>6, ListedAll
<1> QED
  BY <1>7 DEF r

\* CreateLinks makes links without latencies.
LEMMA LinksCreated ==
  ASSUME FileInv, CreateLinks
  PROVE  m_linksList' \in Seq(LinkSet) /\ LatencyOfOwnLink'
<1> DEFINE list == Listed(edges, {x \in edges \X edges : Before(x[1], x[2])})
<1>1. PICK n \in Nat : list \in [1 .. n -> edges]
  BY EdgesListed DEF FileInv, MapInv
<1>2. PICK drawn \in [edges -> DrawnBandwidths] :
        m_linksList' = [i \in DOMAIN list |-> Link(Min(list[i]), Max(list[i]), Ospf(drawn[list[i]]))]
  BY DEF CreateLinks, DrawnBandwidths
<1> HIDE DEF list
<1>3. ASSUME NEW i \in 1 .. n
      PROVE  /\ Link(Min(list[i]), Max(list[i]), Ospf(drawn[list[i]])) \in LinkSet
             /\ Link(Min(list[i]), Max(list[i]), Ospf(drawn[list[i]])).for = {}
  <2>1. list[i] \in edges
    BY <1>1
  <2>2. PICK u \in Routers, v \in Routers : list[i] = {u, v}
    BY <2>1 DEF FileInv, MapInv, EdgesOk
  <2>3. Min(list[i]) \in Routers /\ Max(list[i]) \in Routers
    BY <2>2, EdgeEnds
  <2>4. drawn[list[i]] \in DrawnBandwidths
    BY <2>1
  <2>5. Ospf(drawn[list[i]]) \in OspfMetrics \cup {Ospf(b) : b \in DrawnBandwidths}
    BY <2>4
  <2> QED
    BY <2>3, <2>5, LinkType
<1>4. /\ DOMAIN m_linksList' = 1 .. n
      /\ \A i \in 1 .. n : m_linksList'[i] \in LinkSet /\ m_linksList'[i].for = {}
  BY <1>1, <1>2, <1>3
<1>5. m_linksList' \in [1 .. n -> LinkSet]
  <2>1. m_linksList' = [i \in 1 .. n |-> m_linksList'[i]]
    BY <1>1, <1>2
  <2> QED
    BY <1>4, <2>1
<1>6. m_linksList' \in Seq(LinkSet)
  BY <1>5
<1> QED
  BY <1>4, <1>6 DEF LatencyOfOwnLink

\* A line of the second file is for the link that the iterator is at.
LEMMA LatencyRead ==
  ASSUME FileInv, NEW from \in FileRouters, NEW to \in FileRouters, ReadLatency(from, to),
         UNCHANGED mapVars
  PROVE  FileInv'
<1>1. MapInv' /\ m_linksList \in Seq(LinkSet)
  BY DEF FileInv, MapInv, mapVars
<1>2. phase = "latencies" /\ phase' = phase /\ lines \in Nat /\ linkIterator = lines + 1
  BY DEF ReadLatency, FileInv, IteratorInv
<1>3. CASE Duplicated(processedLinks, from, to)
  <2>1. UNCHANGED <<m_linksList, lines, linkIterator>>
    BY <1>3 DEF ReadLatency, Advanced
  <2> QED
    BY <1>1, <1>2, <2>1 DEF FileInv, IteratorInv, LatencyOfOwnLink
<1>4. CASE ~Duplicated(processedLinks, from, to)
  <2>1. /\ linkIterator' = linkIterator + 1 /\ lines' = lines + 1
        /\ linkIterator <= Len(m_linksList)
        /\ m_linksList' = [m_linksList EXCEPT ![linkIterator].for = {from, to}]
        /\ {from, to} = {m_linksList[linkIterator].from, m_linksList[linkIterator].to}
    BY <1>2, <1>4 DEF ReadLatency, Advanced, InOrder
  <2>2. linkIterator \in DOMAIN m_linksList /\ m_linksList[linkIterator] \in LinkSet
    BY <1>1, <1>2, <2>1
  <2> DEFINE k == linkIterator
             new == [m_linksList[k] EXCEPT !.for = {from, to}]
  <2>3. m_linksList' = [m_linksList EXCEPT ![k] = new]
    BY <2>1
  <2>4. /\ new \in LinkSet /\ new.from = m_linksList[k].from /\ new.to = m_linksList[k].to
        /\ new.for = {from, to}
    BY <2>2, RoutersAssumption DEF LinkSet
  <2> HIDE DEF new, k
  <2>5. /\ m_linksList' \in Seq(LinkSet) /\ DOMAIN m_linksList' = DOMAIN m_linksList
        /\ m_linksList'[k] = new
        /\ \A i \in DOMAIN m_linksList : i # k => m_linksList'[i] = m_linksList[i]
    BY <1>1, <2>2, <2>3, <2>4 DEF k
  <2>6. LatencyOfOwnLink'
    BY <2>1, <2>4, <2>5 DEF LatencyOfOwnLink, FileInv, k
  <2> QED
    BY <1>1, <1>2, <2>1, <2>5, <2>6 DEF FileInv, IteratorInv
<1> QED
  BY <1>3, <1>4

\* FileInv and the steps of the readers of files.
LEMMA ReaderKeepsFiles ==
  ASSUME FileInv, ReaderStep, UNCHANGED mapVars
  PROVE  FileInv'
<1>1. MapInv' /\ FileRouters \subseteq Routers
  BY RoutersAssumption DEF FileInv, MapInv, mapVars
<1>2. ASSUME UNCHANGED m_linksList, phase' = "latencies" => lines' = 0 /\ linkIterator' = 1
      PROVE  FileInv'
  BY <1>1, <1>2 DEF FileInv, IteratorInv, LatencyOfOwnLink
<1>3. ASSUME (\E name \in FileRouters \ m_nodes, comment \in Comments : ReadRouter(name, comment))
             \/ LinkSection \/ OpenLatencies \/ ApplySettings
      PROVE  FileInv'
  <2> SUFFICES UNCHANGED m_linksList /\ (phase' = "latencies" => lines' = 0 /\ linkIterator' = 1)
    BY <1>2
  <2> QED
    BY <1>3 DEF ReadRouter, LinkSection, OpenLatencies, ApplySettings
<1>4. ASSUME NEW from \in FileRouters, NEW to \in FileRouters, NEW ospf \in OspfMetrics,
             ReadAnnotated(from, to, ospf) \/ ReadWeight(from, to, ospf)
      PROVE  FileInv'
  <2>1. phase = "read" /\ phase' = phase
    BY <1>4 DEF ReadAnnotated, ReadWeight, NextLine
  <2>2. UNCHANGED m_linksList \/ AddLink(Link(from, to, ospf))
    BY <1>4 DEF ReadAnnotated, ReadWeight
  <2>3. CASE UNCHANGED m_linksList
    BY <1>2, <2>1, <2>3
  <2>4. CASE AddLink(Link(from, to, ospf))
    <3>1. Link(from, to, ospf) \in LinkSet /\ Link(from, to, ospf).for = {}
      BY <1>1, LinkType
    <3> QED
      BY <1>1, <2>1, <2>4, <3>1, LinkAdded DEF FileInv, IteratorInv
  <2> QED
    BY <2>2, <2>3, <2>4
<1>5. ASSUME NEW from \in FileRouters, NEW to \in FileRouters, ReadLatency(from, to)
      PROVE  FileInv'
  BY <1>5, LatencyRead
<1> QED
  BY <1>3, <1>4, <1>5 DEF ReaderStep

\* FileInv and the steps of the map reader.
LEMMA MapKeepsFiles ==
  ASSUME FileInv, MapStep
  PROVE  FileInv'
<1>1. MapInv'
  BY MapStepKeeps DEF FileInv
<1>2. phase' # "latencies" \/ (phase' = phase /\ UNCHANGED <<lines, linkIterator>>)
  BY DEF MapStep, ReadMapLine, EndOfMap, RankVertices, ConnectBackboneRouters, RemoveWrongLinks,
         KeepAgain, CreateNodes, CreateLinks, readerVars
<1>3. CreateLinks \/ UNCHANGED m_linksList
  BY DEF MapStep, ReadMapLine, EndOfMap, RankVertices, ConnectBackboneRouters, RemoveWrongLinks,
         KeepAgain, CreateNodes, readerVars
<1>4. m_linksList' \in Seq(LinkSet) /\ LatencyOfOwnLink'
  BY <1>3, LinksCreated DEF FileInv, LatencyOfOwnLink
<1> QED
  BY <1>1, <1>2, <1>4 DEF FileInv, IteratorInv

\* FileInv holds when Read is called.
LEMMA FileInit == Init => FileInv
<1> SUFFICES ASSUME Init PROVE FileInv
  OBVIOUS
<1>1. m_linksList = <<>> /\ phase # "latencies"
  BY DEF Init, ReaderInit
<1>2. uids \subseteq Routers /\ vertices = {} /\ edges = {}
  BY DEF Init, MapInit
<1> QED
  BY <1>1, <1>2 DEF FileInv, MapInv, EdgesOk, LatencyOfOwnLink, IteratorInv

\* FileInv is inductive.
LEMMA FileStep == FileInv /\ [Next]_vars => FileInv'
<1>1. ASSUME FileInv, UNCHANGED <<readerVars, mapVars>>
      PROVE  FileInv'
  BY <1>1 DEF FileInv, MapInv, EdgesOk, LatencyOfOwnLink, IteratorInv, readerVars, mapVars
<1> QED
  BY <1>1, ReaderKeepsFiles, MapKeepsFiles DEF Next, vars

\* Whatever the two files and however their duplicated lines are mixed: RocketfuelWeights-
\* Reader::Read gives a link the latency of the line that names its own two nodes.
THEOREM LatenciesAreOfTheirLinks == Spec => []LatencyOfOwnLink
<1>1. FileInv => LatencyOfOwnLink
  BY DEF FileInv
<1> QED
  BY FileInit, FileStep, <1>1, PTL DEF Spec

-----------------------------------------------------------------------------
(* The backbone of a map. *)

\* Links between a component and the one before it join them all.
LEMMA JoinsConnect ==
  ASSUME NEW V, V \subseteq Routers, NEW E, NEW js \in Joins(ComponentsIn(E, V)), NEW v \in V
  PROVE  ComponentIn(E \cup js, v, V) = V
<1> DEFINE parts == ComponentsIn(E, V)
           A == ComponentIn(E \cup js, v, V)
<1>1. IsFiniteSet(V)
  BY RoutersAssumption, FS_Subset
<1>2. /\ v \in A /\ A \subseteq V /\ Closed(E \cup js, A, V)
  BY <1>1, ComponentLeast
<1>3. PICK n \in Nat :
        /\ parts \in [1 .. n -> SUBSET V]
        /\ \A i \in 1 .. n : \E w \in V : parts[i] = ComponentIn(E, w, V)
        /\ \A w \in V : \E i \in 1 .. n : parts[i] = ComponentIn(E, w, V)
  BY ComponentsAll
<1> HIDE DEF parts
<1>4. \A i \in 2 .. n : \E e \in js : e \in Between(parts, i)
  <2>1. js \in Joins(parts)
    BY DEF parts
  <2> QED
    BY <1>3, <2>1, JoinsAll
<1> HIDE DEF A
<1>5. Closed(E, A, V)
  BY <1>2 DEF Closed
\* A part that A has a vertex of is in A.
<1>6. ASSUME NEW i \in 1 .. n, NEW w \in parts[i], w \in A
      PROVE  parts[i] \subseteq A
  <2>1. PICK x \in V : parts[i] = ComponentIn(E, x, V)
    BY <1>3
  <2>2. w \in V /\ ComponentIn(E, w, V) = parts[i]
    BY <1>1, <2>1, ComponentSame
  <2>3. \A T : w \in T /\ Closed(E, T, V) => ComponentIn(E, w, V) \subseteq T
    BY <1>1, <2>2, ComponentLeast
  <2> QED
    BY <1>5, <1>6, <2>2, <2>3
<1>7. ASSUME NEW i \in 2 .. n
      PROVE  parts[i - 1] \subseteq A <=> parts[i] \subseteq A
  <2>1. i - 1 \in 1 .. n /\ i \in 1 .. n
    OBVIOUS
  <2>2. PICK e \in js : e \in Between(parts, i)
    BY <1>4
  <2>3. PICK v1 \in parts[i - 1], v2 \in parts[i] : e = {v1, v2}
    BY <2>2 DEF Between
  <2>4. v1 \in V /\ v2 \in V
    BY <1>3, <2>1, <2>3
  <2>5. {v1, v2} \in E \cup js /\ {v2, v1} \in E \cup js
    <3>1. {v1, v2} = {v2, v1}
      OBVIOUS
    <3> QED
      BY <2>3, <3>1
  <2>6. v1 \in A <=> v2 \in A
    BY <1>2, <2>4, <2>5 DEF Closed
  <2>7. (parts[i - 1] \subseteq A <=> v1 \in A) /\ (parts[i] \subseteq A <=> v2 \in A)
    BY <1>6, <2>1, <2>3
  <2> QED
    BY <2>6, <2>7
<1>8. \A i \in 1 .. n : parts[1] \subseteq A <=> parts[i] \subseteq A
  <2> DEFINE T == {k \in Nat : k + 1 \in 1 .. n => (parts[1] \subseteq A <=> parts[k + 1] \subseteq A)}
  <2>1. 0 \in T
    OBVIOUS
  <2>2. ASSUME NEW m \in Nat, m + 1 \in 2 .. n
        PROVE  m \in 1 .. n /\ (parts[m] \subseteq A <=> parts[m + 1] \subseteq A)
    <3>1. (m + 1) - 1 = m
      OBVIOUS
    <3> QED
      BY <1>7, <2>2, <3>1
  <2>3. ASSUME NEW k \in T \cap Nat PROVE k + 1 \in T
    <3> SUFFICES ASSUME (k + 1) + 1 \in 1 .. n
                 PROVE  parts[1] \subseteq A <=> parts[(k + 1) + 1] \subseteq A
      OBVIOUS
    <3>1. k + 1 \in Nat /\ (k + 1) + 1 \in 2 .. n /\ k + 1 \in 1 .. n
      OBVIOUS
    <3>2. parts[k + 1] \subseteq A <=> parts[(k + 1) + 1] \subseteq A
      BY <2>2, <3>1
    <3>3. parts[1] \subseteq A <=> parts[k + 1] \subseteq A
      BY <3>1
    <3> QED
      BY <3>2, <3>3
  <2>4. Nat \subseteq T
    <3> HIDE DEF T
    <3> QED
      BY <2>1, <2>3, NatSets
  <2> SUFFICES ASSUME NEW i \in 1 .. n
               PROVE  parts[1] \subseteq A <=> parts[i] \subseteq A
    OBVIOUS
  <2>5. i - 1 \in Nat /\ (i - 1) + 1 = i
    OBVIOUS
  <2>6. i - 1 \in T
    BY <2>4, <2>5
  <2> QED
    BY <2>5, <2>6
<1>9. \A w \in V : \E i \in 1 .. n : w \in parts[i]
  BY <1>1, <1>3, ComponentLeast
<1>10. PICK j \in 1 .. n : parts[j] \subseteq A
  BY <1>2, <1>6, <1>9
<1>11. V \subseteq A
  BY <1>8, <1>9, <1>10
<1> QED
  BY <1>2, <1>11 DEF A

\* The set V is connected by edges within it.
Whole(E, V) == \A v \in V : ComponentIn(E, v, V) = V

\* Whole is Connected, for any edges.
LEMMA WholeConnected == \A V : Connected(V) <=> Whole(edges, V)
  BY ComponentsAre DEF Connected, Whole

\* Only the edges within V matter.
LEMMA WholeByEdges ==
  ASSUME NEW V, IsFiniteSet(V), NEW E, NEW F, Whole(E, V),
         \A u, w \in V : {u, w} \in E => {u, w} \in F
  PROVE  Whole(F, V)
<1> SUFFICES ASSUME NEW v \in V
             PROVE  ComponentIn(F, v, V) = V
  BY DEF Whole
<1>1. /\ v \in ComponentIn(F, v, V) /\ ComponentIn(F, v, V) \subseteq V
      /\ Closed(F, ComponentIn(F, v, V), V)
  BY ComponentLeast
<1>2. Closed(E, ComponentIn(F, v, V), V)
  BY <1>1 DEF Closed
<1>3. ComponentIn(E, v, V) \subseteq ComponentIn(F, v, V)
  BY <1>1, <1>2, ComponentLeast
<1>4. ComponentIn(E, v, V) = V
  BY DEF Whole
<1> QED
  BY <1>1, <1>3, <1>4

\* A connected set is in one component, or outside of it.
LEMMA WholeInOne ==
  ASSUME NEW U, IsFiniteSet(U), NEW V, V \subseteq U, NEW E, Whole(E, V), NEW x \in U
  PROVE  V \cap ComponentIn(E, x, U) \in {{}, V}
<1> DEFINE A == ComponentIn(E, x, U)
<1>1. Closed(E, A, U) /\ A \subseteq U /\ IsFiniteSet(V)
  BY ComponentLeast, FS_Subset
<1> HIDE DEF A
<1>2. ASSUME NEW v \in V \cap A
      PROVE  V \subseteq A
  <2>1. Closed(E, A \cap V, V)
    BY <1>1 DEF Closed
  <2>2. ComponentIn(E, v, V) \subseteq A \cap V
    BY <1>1, <2>1, ComponentLeast
  <2>3. ComponentIn(E, v, V) = V
    BY DEF Whole
  <2> QED
    BY <2>2, <2>3
<1> QED
  BY <1>2 DEF A

BackboneInv ==
  phase \in {"remove", "keep", "create", "nodes", "links", "done"} /\ reader = "map"
    /\ params.connectBackbones => Whole(edges, Of(BACKBONE))

\* The backbone is a finite set of routers.
LEMMA BackboneFinite == MapInv => Of(BACKBONE) \subseteq Routers /\ IsFiniteSet(Of(BACKBONE))
<1>1. Of(BACKBONE) \subseteq vertices
  BY DEF Of
<1> QED
  BY <1>1, RoutersAssumption, FS_Subset DEF MapInv

\* KeepOnlyBiggestConnectedComponent keeps the backbone or drops it.
LEMMA KeptBackbone ==
  ASSUME MapInv, Whole(edges, Of(BACKBONE)), KeepOnlyBiggestConnectedComponent, rank' = rank
  PROVE  Whole(edges', Of(BACKBONE)')
<1> DEFINE V == Of(BACKBONE)
<1>1. CASE UNCHANGED <<vertices, edges>>
  <2>1. Of(BACKBONE)' = V
    BY <1>1 DEF Of
  <2> QED
    BY <1>1, <2>1
<1>2. CASE vertices # {} /\ vertices' = Biggest /\ edges' = EdgesIn(Biggest)
  <2>1. PICK x \in vertices : Biggest = ComponentIn(edges, x, vertices)
    BY <1>2, BiggestIs DEF MapInv
  <2>2. IsFiniteSet(vertices) /\ V \subseteq vertices /\ IsFiniteSet(V)
    BY RoutersAssumption, FS_Subset, BackboneFinite DEF MapInv, Of
  <2>3. V \cap Biggest \in {{}, V}
    <3> HIDE DEF V
    <3> QED
      BY <2>1, <2>2, WholeInOne DEF V
  <2>4. Biggest \subseteq vertices
    BY <2>1, ComponentInside DEF MapInv
  <2>5. Of(BACKBONE)' = V \cap Biggest
    BY <1>2, <2>4 DEF Of
  <2>6. CASE V \cap Biggest = {}
    BY <2>5, <2>6 DEF Whole
  <2>7. CASE V \cap Biggest = V
    <3>1. \A u, w \in V : {u, w} \in edges => {u, w} \in edges'
      BY <1>2, <2>7 DEF EdgesIn
    <3> HIDE DEF V
    <3>2. Whole(edges', V)
      BY <2>2, <3>1, WholeByEdges DEF V
    <3> QED
      BY <2>5, <2>7, <3>2
  <2> QED
    BY <2>3, <2>6, <2>7
<1> QED
  BY <1>1, <1>2 DEF KeepOnlyBiggestConnectedComponent

\* ConnectBackboneRouters connects the backbone.
LEMMA BackboneJoined ==
  ASSUME MapInv, ConnectBackboneRouters, params.connectBackbones
  PROVE  Whole(edges', Of(BACKBONE)')
<1>1. PICK js \in Joins(Components(Of(BACKBONE))) : edges' = edges \cup js
  BY DEF ConnectBackboneRouters
<1>2. Of(BACKBONE)' = Of(BACKBONE)
  BY DEF ConnectBackboneRouters, Of
<1>3. Of(BACKBONE) \subseteq Routers
  BY BackboneFinite
<1>4. js \in Joins(ComponentsIn(edges, Of(BACKBONE)))
  BY <1>1, ComponentsAre
<1>5. Whole(edges \cup js, Of(BACKBONE))
  BY <1>3, <1>4, JoinsConnect DEF Whole
<1> QED
  BY <1>1, <1>2, <1>5

\* RemoveWrongLinks leaves links within the backbone alone.
LEMMA BackboneLeftAlone ==
  ASSUME MapInv, RemoveWrongLinks, Whole(edges, Of(BACKBONE))
  PROVE  Whole(edges', Of(BACKBONE)')
<1>1. edges' = {e \in edges : \A u, v \in e : u # v => RightLink(u, v)}
  BY DEF RemoveWrongLinks
<1>2. Of(BACKBONE)' = Of(BACKBONE) /\ IsFiniteSet(Of(BACKBONE))
  BY BackboneFinite DEF RemoveWrongLinks, Of
<1>3. \A u, w \in Of(BACKBONE) : RightLink(u, w)
  BY DEF RightLink, Of, CLIENT, BACKBONE
<1>4. ASSUME NEW u \in Of(BACKBONE), NEW w \in Of(BACKBONE), {u, w} \in edges
      PROVE  {u, w} \in edges'
  BY <1>1, <1>3, <1>4
<1>5. Whole(edges', Of(BACKBONE))
  BY <1>2, <1>4, WholeByEdges
<1> QED
  BY <1>2, <1>5

\* BackboneInv is inductive.
LEMMA BackboneStep == FileInv /\ BackboneInv /\ [Next]_vars => BackboneInv'
<1> SUFFICES ASSUME MapInv, BackboneInv, [Next]_vars
             PROVE  BackboneInv'
  BY DEF FileInv
<1> DEFINE Late == {"remove", "keep", "create", "nodes", "links", "done"}
<1>1. ASSUME UNCHANGED mapVars, reader' = reader,
             phase' \in Late /\ reader = "map" => phase \in Late
      PROVE  BackboneInv'
  <2>1. UNCHANGED <<params, edges>> /\ Of(BACKBONE)' = Of(BACKBONE)
    BY <1>1 DEF mapVars, Of
  <2> QED
    BY <1>1, <2>1 DEF BackboneInv
<1>2. ASSUME ReaderStep, UNCHANGED mapVars
      PROVE  BackboneInv'
  <2>1. reader' = reader
    BY <1>2 DEF ReaderStep, ReadRouter, LinkSection, ReadAnnotated, ReadWeight, OpenLatencies,
                ReadLatency, ApplySettings
  <2>2. phase' \in Late /\ reader = "map" => phase \in Late
    BY <1>2 DEF ReaderStep, ReadRouter, LinkSection, ReadAnnotated, ReadWeight, OpenLatencies,
                ReadLatency, ApplySettings, Committed
  <2> QED
    BY <1>1, <1>2, <2>1, <2>2
<1>3. CASE UNCHANGED <<readerVars, mapVars>>
  BY <1>1, <1>3 DEF readerVars
<1>4. ASSUME MapStep
      PROVE  BackboneInv'
  <2>1. ASSUME NEW u \in uids, NEW radius \in 0 .. 1,
               NEW neighbours \in SUBSET {v \in Routers : {u, v} \in MapLinks},
               ReadMapLine(u, neighbours, radius)
        PROVE  BackboneInv'
    BY <2>1 DEF ReadMapLine, BackboneInv, readerVars
  <2>2. CASE EndOfMap \/ RankVertices
    BY <2>2 DEF EndOfMap, RankVertices, BackboneInv
  <2>3. CASE ConnectBackboneRouters
    BY <2>3, BackboneJoined DEF BackboneInv, ConnectBackboneRouters
  <2>4. CASE RemoveWrongLinks
    BY <2>4, BackboneLeftAlone DEF BackboneInv, RemoveWrongLinks
  <2>5. CASE KeepAgain
    BY <2>5, KeptBackbone DEF BackboneInv, KeepAgain
  <2>6. CASE CreateNodes \/ CreateLinks
    BY <2>6, <1>1 DEF CreateNodes, CreateLinks
  <2> QED
    BY <1>4, <2>1, <2>2, <2>3, <2>4, <2>5, <2>6 DEF MapStep
<1> QED
  BY <1>2, <1>3, <1>4 DEF Next, vars

\* Whatever map is read: when RocketfuelMapReader has connected the components of the
\* backbone, neither removing links between the wrong classes nor keeping one component
\* cuts the backbone again.
THEOREM BackboneStaysConnected == Spec => []BackboneConnected
<1>1. Init => BackboneInv
  BY DEF Init, ReaderInit, BackboneInv
<1>2. BackboneInv => BackboneConnected
  BY WholeConnected DEF BackboneInv, BackboneConnected
<1> QED
  BY FileInit, FileStep, BackboneStep, <1>1, <1>2, PTL DEF Spec

-----------------------------------------------------------------------------
(* Ranks of routers. *)

Unknown(r) == {u \in Routers : r[u] = UNKNOWN}
CallMeasure(c) == Cardinality(Unknown(c.ranks)) * (Cardinality(Routers) + 1) + Cardinality(c.us)

\* A call of assignGw, given what the calls it makes come to.
GwBody(h, c, degree) ==
  IF c.us = {} THEN c.ranks
  ELSE LET u == Min(c.us)
           ranked == [c.ranks EXCEPT ![u] = c.nodeType]
           deeper == IF Degree(u) < degree THEN h[GwCall(ranked, Adjacent(u), BACKBONE)] ELSE ranked
       IN  h[GwCall(IF c.ranks[u] # UNKNOWN THEN c.ranks ELSE deeper, c.us \ {u}, c.nodeType)]

\* Finitely many routers have no class yet.
LEMMA UnknownFinite ==
  ASSUME NEW r
  PROVE  IsFiniteSet(Unknown(r)) /\ Cardinality(Unknown(r)) \in Nat
<1>1. Unknown(r) \in SUBSET Routers
  BY DEF Unknown
<1> QED
  BY <1>1, RoutersAssumption, FS_Subset, FS_CardinalityType

\* The measure of a call is a natural number.
LEMMA CallMeasureType == \A c \in GwCalls : CallMeasure(c) \in Nat
<1> SUFFICES ASSUME NEW c \in GwCalls PROVE CallMeasure(c) \in Nat
  OBVIOUS
<1>1. c.us \in SUBSET Routers
  BY DEF GwCalls
<1>2. IsFiniteSet(Routers) /\ IsFiniteSet(c.us)
  BY <1>1, RoutersAssumption, FS_Subset
<1>3. Cardinality(Routers) \in Nat /\ Cardinality(c.us) \in Nat /\ Cardinality(Unknown(c.ranks)) \in Nat
  BY <1>2, FS_CardinalityType, UnknownFinite
<1>4. \A a, b, d \in Nat : a * (b + 1) + d \in Nat
  OBVIOUS
<1> QED
  BY <1>3, <1>4 DEF CallMeasure

\* Calls with more ranks known, or with the same and fewer neighbours left, are smaller.
LEMMA SmallerCall ==
  ASSUME NEW c \in GwCalls, NEW d \in GwCalls, Unknown(d.ranks) \subseteq Unknown(c.ranks),
         \/ Unknown(d.ranks) # Unknown(c.ranks)
         \/ d.us \subseteq c.us /\ d.us # c.us
  PROVE  CallMeasure(d) < CallMeasure(c)
<1>1. c.us \in SUBSET Routers /\ d.us \in SUBSET Routers
  BY DEF GwCalls
<1>2. IsFiniteSet(Routers) /\ IsFiniteSet(c.us) /\ IsFiniteSet(d.us)
      /\ Cardinality(d.us) <= Cardinality(Routers)
  BY <1>1, RoutersAssumption, FS_Subset
<1>3. PICK N \in Nat, a \in Nat, b \in Nat, p \in Nat, q \in Nat :
        /\ N = Cardinality(Routers)
        /\ a = Cardinality(Unknown(c.ranks)) /\ b = Cardinality(Unknown(d.ranks))
        /\ p = Cardinality(c.us) /\ q = Cardinality(d.us)
  BY <1>2, FS_CardinalityType, UnknownFinite
<1>4. IsFiniteSet(Unknown(c.ranks))
  BY UnknownFinite
<1>5. CASE Unknown(d.ranks) # Unknown(c.ranks)
  <2>1. b < a
    BY <1>3, <1>4, <1>5, FS_Subset
  <2>2. q <= N
    BY <1>2, <1>3
  <2>3. b * (N + 1) + q < a * (N + 1) + p
    <3>1. PICK k \in Nat : a = b + 1 + k
      <4>1. a - b - 1 \in Nat /\ a = b + 1 + (a - b - 1)
        BY <2>1
      <4> QED
        BY <4>1
    <3>2. a * (N + 1) = b * (N + 1) + (N + 1) + k * (N + 1)
      BY <3>1
    <3>3. k * (N + 1) \in Nat /\ b * (N + 1) \in Nat
      OBVIOUS
    <3> QED
      BY <2>2, <3>2, <3>3
  <2> QED
    BY <1>3, <2>3 DEF CallMeasure
<1>6. CASE Unknown(d.ranks) = Unknown(c.ranks) /\ d.us \subseteq c.us /\ d.us # c.us
  <2>1. q < p
    BY <1>2, <1>3, <1>6, FS_Subset
  <2>2. a = b /\ b * (N + 1) \in Nat
    BY <1>3, <1>6
  <2>3. b * (N + 1) + q < a * (N + 1) + p
    BY <2>1, <2>2
  <2> QED
    BY <1>3, <2>3 DEF CallMeasure
<1> QED
  BY <1>5, <1>6

\* assignGw leaves the ranks that it finds.
GwKeeps == {x \in GwCalls \X Ranks : Unknown(x[2]) \subseteq Unknown(x[1].ranks)}

\* The parts of a call of assignGw.
LEMMA GwCallType ==
  ASSUME NEW r \in Ranks, NEW us \in SUBSET Routers, NEW nodeType \in {GATEWAY, BACKBONE}
  PROVE  /\ GwCall(r, us, nodeType) \in GwCalls
         /\ GwCall(r, us, nodeType).ranks = r /\ GwCall(r, us, nodeType).us = us
         /\ GwCall(r, us, nodeType).nodeType = nodeType
  BY DEF GwCall, GwCalls

\* The calls that assignGw makes are smaller, given that the ones before leave known ranks alone.
LEMMA GwDescends ==
  ASSUME vertices \subseteq Routers, NEW degree,
         NEW g, NEW h \in [GwCalls -> Ranks], NEW c \in GwCalls,
         \A e \in GwCalls : CallMeasure(e) < CallMeasure(c) => g[e] = h[e] /\ <<e, g[e]>> \in GwKeeps
  PROVE  /\ GwBody(g, c, degree) = GwBody(h, c, degree)
         /\ <<c, GwBody(g, c, degree)>> \in GwKeeps
<1>1. c.ranks \in Ranks /\ c.us \in SUBSET Routers /\ c.nodeType \in {GATEWAY, BACKBONE}
  BY DEF GwCalls
<1>2. CASE c.us = {}
  BY <1>1, <1>2 DEF GwBody, GwKeeps
<1>3. CASE c.us # {}
  <2> DEFINE u == Min(c.us)
             ranked == [c.ranks EXCEPT ![u] = c.nodeType]
             Deeper(f) == IF Degree(u) < degree THEN f[GwCall(ranked, Adjacent(u), BACKBONE)] ELSE ranked
             Kept(f) == IF c.ranks[u] # UNKNOWN THEN c.ranks ELSE Deeper(f)
             Rest(f) == GwCall(Kept(f), c.us \ {u}, c.nodeType)
  <2>1. u \in c.us /\ u \in Routers
    BY <1>1, <1>3, RoutersAssumption, MinOf
  <2>2. GwBody(g, c, degree) = g[Rest(g)] /\ GwBody(h, c, degree) = h[Rest(h)]
    BY <1>3 DEF GwBody
  <2> HIDE DEF u
  <2>3. ranked \in Ranks
    BY <1>1, <2>1 DEF Ranks, UNKNOWN, GATEWAY, BACKBONE
  <2>4. ASSUME c.ranks[u] = UNKNOWN
        PROVE  /\ Deeper(g) = Deeper(h) /\ Deeper(g) \in Ranks
               /\ Unknown(Deeper(g)) \subseteq Unknown(c.ranks) \ {u}
    <3>1. Unknown(ranked) \subseteq Unknown(c.ranks) \ {u} /\ u \in Unknown(c.ranks)
      BY <1>1, <2>1, <2>4 DEF Unknown, Ranks, UNKNOWN, GATEWAY, BACKBONE
    <3>2. CASE ~(Degree(u) < degree)
      BY <2>3, <3>1, <3>2
    <3>3. CASE Degree(u) < degree
      <4> DEFINE e == GwCall(ranked, Adjacent(u), BACKBONE)
      <4>1. Adjacent(u) \in SUBSET Routers
        BY DEF Adjacent
      <4> HIDE DEF ranked
      <4>2. e \in GwCalls /\ e.ranks = ranked
        BY <2>3, <4>1, GwCallType
      <4> HIDE DEF e
      <4>3. CallMeasure(e) < CallMeasure(c)
        BY <3>1, <4>2, SmallerCall
      <4>4. g[e] = h[e] /\ <<e, g[e]>> \in GwKeeps /\ g[e] \in Ranks
        BY <4>2, <4>3
      <4>5. Unknown(g[e]) \subseteq Unknown(ranked)
        BY <4>2, <4>4 DEF GwKeeps
      <4>6. Deeper(g) = g[e] /\ Deeper(h) = h[e]
        BY <3>3 DEF e
      <4> QED
        BY <3>1, <4>4, <4>5, <4>6
    <3> QED
      BY <3>2, <3>3
  <2> HIDE DEF Deeper
  <2>5. Kept(g) = Kept(h) /\ Kept(g) \in Ranks /\ Unknown(Kept(g)) \subseteq Unknown(c.ranks)
    BY <1>1, <2>4
  <2> HIDE DEF Kept
  <2>6. c.us \ {u} \in SUBSET Routers
    BY <1>1
  <2>7. Rest(g) \in GwCalls /\ Rest(g).ranks = Kept(g) /\ Rest(g).us = c.us \ {u} /\ Rest(h) = Rest(g)
    BY <1>1, <2>5, <2>6, GwCallType
  <2> HIDE DEF Rest
  <2>8. CallMeasure(Rest(g)) < CallMeasure(c)
    BY <2>1, <2>5, <2>7, SmallerCall
  <2>9. g[Rest(g)] = h[Rest(g)] /\ <<Rest(g), g[Rest(g)]>> \in GwKeeps /\ g[Rest(g)] \in Ranks
    BY <2>7, <2>8
  <2>10. Unknown(g[Rest(g)]) \subseteq Unknown(c.ranks)
    BY <2>5, <2>7, <2>9 DEF GwKeeps
  <2>11. <<c, g[Rest(g)]>> \in GwKeeps
    BY <2>9, <2>10 DEF GwKeeps
  <2> QED
    BY <2>2, <2>7, <2>9, <2>11
<1> QED
  BY <1>2, <1>3

\* assignGw ends, with a rank for every router.
LEMMA AssignGwType ==
  ASSUME vertices \subseteq Routers, NEW r \in Ranks, NEW us \in SUBSET Routers, NEW degree,
         NEW nodeType \in {GATEWAY, BACKBONE}
  PROVE  AssignGw(r, us, degree, nodeType) \in Ranks
<1> DEFINE B == [h \in [GwCalls -> Ranks] |-> [c \in GwCalls |-> GwBody(h, c, degree)]]
           m == [c \in GwCalls |-> CallMeasure(c)]
           Is(d) == d = [c \in GwCalls |-> GwBody(d, c, degree)]
           D == CHOOSE d : Is(d)
<1>1. m \in [GwCalls -> Nat]
  BY CallMeasureType
<1>2. ASSUME NEW g \in [GwCalls -> Ranks], NEW c \in GwCalls
      PROVE  GwBody(g, c, degree) \in Ranks
  <2>1. c.ranks \in Ranks /\ c.us \in SUBSET Routers /\ c.nodeType \in {GATEWAY, BACKBONE}
    BY DEF GwCalls
  <2>2. CASE c.us = {}
    BY <2>1, <2>2 DEF GwBody
  <2>3. CASE c.us # {}
    <3> DEFINE u == Min(c.us)
               ranked == [c.ranks EXCEPT ![u] = c.nodeType]
               deeper == IF Degree(u) < degree THEN g[GwCall(ranked, Adjacent(u), BACKBONE)] ELSE ranked
               last == IF c.ranks[u] # UNKNOWN THEN c.ranks ELSE deeper
    <3>1. u \in Routers
      BY <2>1, <2>3, RoutersAssumption, MinOf
    <3>2. GwBody(g, c, degree) = g[GwCall(last, c.us \ {u}, c.nodeType)]
      BY <2>3 DEF GwBody
    <3> HIDE DEF u
    <3>3. ranked \in Ranks
      BY <2>1, <3>1 DEF Ranks, UNKNOWN, GATEWAY, BACKBONE
    <3> HIDE DEF ranked
    <3>4. Adjacent(u) \in SUBSET Routers
      BY DEF Adjacent
    <3>5. GwCall(ranked, Adjacent(u), BACKBONE) \in GwCalls
      BY <3>3, <3>4, GwCallType
    <3>6. deeper \in Ranks
      BY <3>3, <3>5
    <3> HIDE DEF deeper
    <3>7. last \in Ranks /\ c.us \ {u} \in SUBSET Routers
      BY <2>1, <3>6
    <3> HIDE DEF last
    <3>8. GwCall(last, c.us \ {u}, c.nodeType) \in GwCalls
      BY <2>1, <3>7, GwCallType
    <3> QED
      BY <3>2, <3>8
  <2> QED
    BY <2>2, <2>3
<1>3. B \in [[GwCalls -> Ranks] -> [GwCalls -> Ranks]]
  BY <1>2
<1>4. Descends(GwCalls, Ranks, m, GwKeeps, B)
  <2> SUFFICES ASSUME NEW g \in [GwCalls -> Ranks], NEW h \in [GwCalls -> Ranks], NEW c \in GwCalls,
                      OnSmaller(c, GwCalls, m, GwKeeps, g, h)
               PROVE  B[g][c] = B[h][c] /\ <<c, B[g][c]>> \in GwKeeps
    BY DEF Descends
  <2>1. \A e \in GwCalls : CallMeasure(e) < CallMeasure(c) => g[e] = h[e] /\ <<e, g[e]>> \in GwKeeps
    BY DEF OnSmaller
  <2>2. B[g][c] = GwBody(g, c, degree) /\ B[h][c] = GwBody(h, c, degree)
    OBVIOUS
  <2> HIDE DEF B, m
  <2> QED
    BY <2>1, <2>2, GwDescends
<1>5. \E h \in [GwCalls -> Ranks] : h = B[h] /\ \A c \in GwCalls : <<c, h[c]>> \in GwKeeps
  <2> HIDE DEF B, m
  <2>1. PICK C, S, M, Q, F : C = GwCalls /\ S = Ranks /\ M = m /\ Q = GwKeeps /\ F = B
    OBVIOUS
  <2>2. Recursive(C, S, M, F) /\ r \in S /\ Descends(C, S, M, Q, F)
    BY <1>1, <1>3, <1>4, <2>1 DEF Recursive
  <2>3. \E h : Solves(h, C, S, Q, F)
    BY <2>2, MeasuredRecursion
  <2> QED
    BY <2>1, <2>3 DEF Solves
<1>6. PICK h \in [GwCalls -> Ranks] : h = B[h] /\ \A c \in GwCalls : <<c, h[c]>> \in GwKeeps
  BY <1>5
<1>7. h = [c \in GwCalls |-> GwBody(h, c, degree)]
  <2>1. B[h] = [c \in GwCalls |-> GwBody(h, c, degree)]
    OBVIOUS
  <2> HIDE DEF B
  <2> QED
    BY <1>6, <2>1
<1>8. Is(D)
  <2>1. Is(h)
    BY <1>7
  <2> HIDE DEF Is
  <2> QED
    BY <2>1
<1>9. AssignGw(r, us, degree, nodeType) = D[GwCall(r, us, nodeType)]
  BY DEF AssignGw, GwBody
\* There is only one such function.
<1>10. \A c \in GwCalls : D[c] = GwBody(D, c, degree) /\ h[c] = GwBody(h, c, degree)
  <2> HIDE DEF D
  <2>1. PICK d : d = D
    OBVIOUS
  <2>2. d = [c \in GwCalls |-> GwBody(d, c, degree)]
    BY <1>8, <2>1
  <2>3. \A c \in GwCalls : d[c] = GwBody(d, c, degree)
    BY <2>2
  <2>4. \A c \in GwCalls : h[c] = GwBody(h, c, degree)
    BY <1>7
  <2> QED
    BY <2>1, <2>3, <2>4
<1> DEFINE T == {k \in Nat : \A c \in GwCalls : CallMeasure(c) < k => D[c] = h[c]}
<1> HIDE DEF D, B
<1>11. 0 \in T
  BY CallMeasureType
<1>12. ASSUME NEW k \in T \cap Nat PROVE k + 1 \in T
  <2> SUFFICES ASSUME NEW c \in GwCalls, CallMeasure(c) < k + 1
               PROVE  D[c] = h[c]
    OBVIOUS
  <2>1. \A e \in GwCalls : CallMeasure(e) < CallMeasure(c) => D[e] = h[e] /\ <<e, D[e]>> \in GwKeeps
    <3> SUFFICES ASSUME NEW e \in GwCalls, CallMeasure(e) < CallMeasure(c)
                 PROVE  D[e] = h[e] /\ <<e, D[e]>> \in GwKeeps
      OBVIOUS
    <3>1. CallMeasure(e) \in Nat /\ CallMeasure(c) \in Nat
      BY CallMeasureType
    <3>2. CallMeasure(e) < k
      BY <3>1
    <3> QED
      BY <1>6, <3>2
  <2>2. GwBody(D, c, degree) = GwBody(h, c, degree)
    BY <2>1, GwDescends
  <2> QED
    BY <1>10, <2>2
<1>13. Nat \subseteq T
  <2> HIDE DEF T
  <2> QED
    BY <1>11, <1>12, NatSets
<1>14. \A c \in GwCalls : D[c] \in Ranks
  <2> SUFFICES ASSUME NEW c \in GwCalls PROVE D[c] \in Ranks
    OBVIOUS
  <2>1. CallMeasure(c) \in Nat
    BY CallMeasureType
  <2>2. CallMeasure(c) + 1 \in T /\ CallMeasure(c) < CallMeasure(c) + 1
    BY <1>13, <2>1
  <2>3. D[c] = h[c]
    BY <2>2
  <2> QED
    BY <2>3
<1> QED
  BY <1>9, <1>14, GwCallType

\* The ranks after AssignClients for the vertices vs, given those for fewer vertices.
ClientBody(h, vs, r, clientDegree, gwDegree) ==
  IF vs = {} THEN r
  ELSE LET v == Max(vs)
           ranked == [h[vs \ {v}] EXCEPT ![v] = CLIENT]
       IN  IF Degree(v) # clientDegree THEN h[vs \ {v}]
           ELSE AssignGw(ranked, Adjacent(v), gwDegree + 1, GATEWAY)

\* It needs the ranks for one vertex less, and these are ranks again.
LEMMA ClientBodyType ==
  ASSUME vertices \subseteq Routers, NEW r \in Ranks, NEW clientDegree, NEW gwDegree,
         NEW g, NEW h, NEW vs \in SUBSET Routers,
         \A ws \in SUBSET Routers : Cardinality(ws) < Cardinality(vs) => g[ws] = h[ws] /\ g[ws] \in Ranks
  PROVE  /\ ClientBody(g, vs, r, clientDegree, gwDegree) = ClientBody(h, vs, r, clientDegree, gwDegree)
         /\ ClientBody(g, vs, r, clientDegree, gwDegree) \in Ranks
<1>1. CASE vs = {}
  BY <1>1 DEF ClientBody
<1>2. CASE vs # {}
  <2> DEFINE v == Max(vs)
             ranked == [g[vs \ {v}] EXCEPT ![v] = CLIENT]
  <2>1. IsFiniteSet(vs) /\ vs \subseteq Nat
    BY RoutersAssumption, FS_Subset
  <2>2. v \in vs /\ v \in Routers
    BY <1>2, <2>1, MaxOf
  <2> HIDE DEF v
  <2>3. Cardinality(vs \ {v}) < Cardinality(vs)
    <3>1. vs \ {v} \subseteq vs /\ vs \ {v} # vs
      BY <2>2
    <3>2. Cardinality(vs \ {v}) \in Nat /\ Cardinality(vs) \in Nat
      BY <2>1, <3>1, FS_Subset, FS_CardinalityType
    <3> QED
      BY <2>1, <3>1, <3>2, FS_Subset
  <2>4. g[vs \ {v}] = h[vs \ {v}] /\ g[vs \ {v}] \in Ranks
    BY <2>3
  <2>5. ranked \in Ranks /\ ranked = [h[vs \ {v}] EXCEPT ![v] = CLIENT]
    <3>1. \A f \in [Routers -> 0 .. 3] : [f EXCEPT ![v] = 1] \in [Routers -> 0 .. 3]
      BY <2>2
    <3>2. PICK f \in [Routers -> 0 .. 3] : f = g[vs \ {v}]
      BY <2>4 DEF Ranks, UNKNOWN, BACKBONE
    <3>3. ranked = [f EXCEPT ![v] = 1] /\ f = h[vs \ {v}]
      BY <2>4, <3>2 DEF CLIENT
    <3> HIDE DEF ranked
    <3>4. ranked \in Ranks
      BY <3>1, <3>3 DEF Ranks, UNKNOWN, BACKBONE
    <3> QED
      BY <3>3, <3>4 DEF CLIENT
  <2>6. Adjacent(v) \in SUBSET Routers
    BY DEF Adjacent
  <2> HIDE DEF ranked
  <2>7. AssignGw(ranked, Adjacent(v), gwDegree + 1, GATEWAY) \in Ranks
    BY <2>5, <2>6, AssignGwType
  <2>8. /\ ClientBody(g, vs, r, clientDegree, gwDegree)
             = IF Degree(v) # clientDegree THEN g[vs \ {v}]
               ELSE AssignGw(ranked, Adjacent(v), gwDegree + 1, GATEWAY)
        /\ ClientBody(h, vs, r, clientDegree, gwDegree)
             = IF Degree(v) # clientDegree THEN h[vs \ {v}]
               ELSE AssignGw([h[vs \ {v}] EXCEPT ![v] = CLIENT], Adjacent(v), gwDegree + 1, GATEWAY)
    BY <1>2 DEF ClientBody, v, ranked
  <2> QED
    BY <2>4, <2>5, <2>7, <2>8
<1> QED
  BY <1>1, <1>2

\* AssignClients gives every router a rank.
LEMMA AssignClientsType ==
  ASSUME vertices \subseteq Routers, NEW r \in Ranks, NEW clientDegree, NEW gwDegree
  PROVE  AssignClients(r, clientDegree, gwDegree) \in Ranks
<1> DEFINE Body(h, vs) == ClientBody(h, vs, r, clientDegree, gwDegree)
           P == SUBSET Routers
           B == [h \in [P -> Ranks] |-> [vs \in P |-> Body(h, vs)]]
           m == [vs \in P |-> Cardinality(vs)]
           Q == P \X Ranks
           Is(d) == d = [vs \in P |-> Body(d, vs)]
           D == CHOOSE d : Is(d)
<1>1. \A vs \in P : IsFiniteSet(vs) /\ Cardinality(vs) \in Nat
  BY RoutersAssumption, FS_Subset, FS_CardinalityType
<1>2. Recursive(P, Ranks, m, B)
  <2>1. m \in [P -> Nat]
    BY <1>1
  <2>2. ASSUME NEW h \in [P -> Ranks], NEW vs \in P
        PROVE  Body(h, vs) \in Ranks
    BY ClientBodyType
  <2> HIDE DEF Body
  <2>3. B \in [[P -> Ranks] -> [P -> Ranks]]
    BY <2>2
  <2> QED
    BY <2>1, <2>3 DEF Recursive
<1>3. Descends(P, Ranks, m, Q, B)
  <2> SUFFICES ASSUME NEW g \in [P -> Ranks], NEW h \in [P -> Ranks], NEW vs \in P,
                      OnSmaller(vs, P, m, Q, g, h)
               PROVE  B[g][vs] = B[h][vs] /\ <<vs, B[g][vs]>> \in Q
    BY DEF Descends
  <2>1. \A ws \in P : Cardinality(ws) < Cardinality(vs) => g[ws] = h[ws] /\ g[ws] \in Ranks
    BY DEF OnSmaller
  <2>2. B[g][vs] = Body(g, vs) /\ B[h][vs] = Body(h, vs)
    <3> HIDE DEF Body
    <3> QED
      OBVIOUS
  <2>3. Body(g, vs) = Body(h, vs) /\ Body(g, vs) \in Ranks
    BY <2>1, ClientBodyType
  <2> HIDE DEF B, Body
  <2> QED
    BY <2>2, <2>3
<1>4. PICK h : Solves(h, P, Ranks, Q, B)
  <2>1. PICK C, S, M, R, F : C = P /\ S = Ranks /\ M = m /\ R = Q /\ F = B
    OBVIOUS
  <2>2. Recursive(C, S, M, F) /\ r \in S /\ Descends(C, S, M, R, F)
    BY <1>2, <1>3, <2>1
  <2>3. \E h : Solves(h, C, S, R, F)
    BY <2>2, MeasuredRecursion
  <2> QED
    BY <2>1, <2>3
<1>5. Is(D)
  <2>1. h \in [P -> Ranks] /\ h = B[h]
    BY <1>4 DEF Solves
  <2>2. B[h] = [vs \in P |-> Body(h, vs)]
    <3> HIDE DEF Body
    <3> QED
      BY <2>1
  <2>3. Is(h)
    <3> HIDE DEF B, Body
    <3> QED
      BY <2>1, <2>2
  <2> HIDE DEF Is
  <2> QED
    BY <2>3
<1>6. AssignClients(r, clientDegree, gwDegree) = D[vertices]
  BY DEF AssignClients, ClientBody
<1>7. \A vs \in P : D[vs] = Body(D, vs)
  <2> HIDE DEF D
  <2>1. PICK d : d = D
    OBVIOUS
  <2>2. d = [vs \in P |-> Body(d, vs)]
    BY <1>5, <2>1
  <2> HIDE DEF Body
  <2>3. \A vs \in P : d[vs] = Body(d, vs)
    BY <2>2
  <2> QED
    BY <2>1, <2>3
<1> DEFINE T == {k \in Nat : \A vs \in P : Cardinality(vs) < k => D[vs] \in Ranks}
<1> HIDE DEF D, B
<1>8. 0 \in T
  BY <1>1
<1>9. ASSUME NEW k \in T \cap Nat PROVE k + 1 \in T
  <2> SUFFICES ASSUME NEW vs \in P, Cardinality(vs) < k + 1
               PROVE  D[vs] \in Ranks
    OBVIOUS
  <2>1. \A ws \in P : Cardinality(ws) < Cardinality(vs) => D[ws] = D[ws] /\ D[ws] \in Ranks
    <3> SUFFICES ASSUME NEW ws \in P, Cardinality(ws) < Cardinality(vs)
                 PROVE  D[ws] \in Ranks
      OBVIOUS
    <3>1. Cardinality(ws) < k
      BY <1>1
    <3> QED
      BY <3>1
  <2>2. Body(D, vs) \in Ranks
    BY <2>1, ClientBodyType
  <2> HIDE DEF Body
  <2> QED
    BY <1>7, <2>2
<1>10. Nat \subseteq T
  <2> HIDE DEF T
  <2> QED
    BY <1>8, <1>9, NatSets
<1>11. D[vertices] \in Ranks
  <2>1. vertices \in P /\ Cardinality(vertices) \in Nat
    BY <1>1
  <2>2. Cardinality(vertices) + 1 \in T /\ Cardinality(vertices) < Cardinality(vertices) + 1
    BY <1>10, <2>1
  <2> QED
    BY <2>1, <2>2
<1> QED
  BY <1>6, <1>11

\* Every router of the map gets a class.
LEMMA RankVerticesType ==
  ASSUME vertices \subseteq Routers, rank \in Ranks, params.clientNodeDegrees \in Nat, RankVertices
  PROVE  rank' \in Ranks /\ \A v \in vertices : rank'[v] # UNKNOWN
<1> DEFINE n == params.clientNodeDegrees
           Is(f) == f = [d \in 0 .. n |->
                           IF d = 0 THEN rank ELSE AssignClients(f[d - 1], d, Min({d, 3}))]
           R == CHOOSE f : Is(f)
           F == [k \in Nat |-> [r \in Ranks |-> AssignClients(r, k + 1, Min({k + 1, 3}))]]
<1>1. F \in IndexedSteps(Ranks)
  BY AssignClientsType DEF IndexedSteps
<1>2. PICK g : Values(g, Ranks, F, rank)
  <2>1. PICK S, x : S = Ranks /\ x = rank
    OBVIOUS
  <2>2. x \in S /\ F \in IndexedSteps(S)
    BY <1>1, <2>1
  <2> HIDE DEF F
  <2>3. \E g : Values(g, S, F, x)
    BY <2>2, Recursion
  <2> QED
    BY <2>1, <2>3
<1>3. /\ \A k \in Nat : g[k] \in Ranks
      /\ g[0] = rank
      /\ \A k \in Nat : g[k + 1] = AssignClients(g[k], k + 1, Min({k + 1, 3}))
  BY <1>2 DEF Values
<1>4. Is([d \in 0 .. n |-> g[d]])
  <2> DEFINE f == [d \in 0 .. n |-> g[d]]
             Val(d) == IF d = 0 THEN rank ELSE AssignClients(f[d - 1], d, Min({d, 3}))
  <2>1. ASSUME NEW d \in 0 .. n PROVE f[d] = Val(d)
    <3>1. CASE d = 0
      BY <1>3, <3>1
    <3>2. CASE d # 0
      <4>1. PICK k \in Nat : d = k + 1 /\ d - 1 = k /\ k \in 0 .. n
        <5>1. d - 1 \in Nat /\ d = (d - 1) + 1 /\ d - 1 \in 0 .. n
          BY <3>2
        <5> QED
          BY <5>1
      <4>2. f[d - 1] = g[k] /\ f[d] = g[k + 1]
        BY <4>1
      <4> HIDE DEF f
      <4> QED
        BY <1>3, <3>2, <4>1, <4>2
    <3> QED
      BY <3>1, <3>2
  <2> HIDE DEF Val
  <2>2. f = [d \in 0 .. n |-> Val(d)]
    BY <2>1
  <2> QED
    BY <2>2 DEF Val
<1>5. Is(R)
  <2> HIDE DEF Is
  <2> QED
    BY <1>4
<1>6. rank' = [v \in Routers |-> IF v \in vertices /\ R[n][v] = UNKNOWN THEN BACKBONE ELSE R[n][v]]
  BY DEF RankVertices
<1> HIDE DEF R
<1>7. \A d \in 0 .. n : R[d] = IF d = 0 THEN rank ELSE AssignClients(R[d - 1], d, Min({d, 3}))
  BY <1>5
<1> DEFINE T == {k \in Nat : k \in 0 .. n => R[k] \in Ranks}
<1> HIDE DEF Is
<1>8. 0 \in T
  BY <1>7
<1>9. ASSUME NEW k \in T \cap Nat PROVE k + 1 \in T
  <2> SUFFICES ASSUME k + 1 \in 0 .. n PROVE R[k + 1] \in Ranks
    OBVIOUS
  <2>1. k \in 0 .. n /\ R[k] \in Ranks /\ (k + 1) - 1 = k /\ k + 1 # 0
    OBVIOUS
  <2>2. R[k + 1] = AssignClients(R[k], k + 1, Min({k + 1, 3}))
    BY <1>7, <2>1
  <2> QED
    BY <2>1, <2>2, AssignClientsType
<1>10. Nat \subseteq T
  <2> HIDE DEF T
  <2> QED
    BY <1>8, <1>9, NatSets
<1>11. R[n] \in Ranks
  BY <1>10
<1> QED
  BY <1>6, <1>11 DEF Ranks, UNKNOWN, BACKBONE

-----------------------------------------------------------------------------
(* Saving a topology and reading it again. *)

\* No link is taken for a duplicate of an earlier one.
NoReverse ==
  \A i, j \in DOMAIN m_linksList :
    i < j => ~(m_linksList[j].from = m_linksList[i].to /\ m_linksList[j].to = m_linksList[i].from)

LinesInv ==
  /\ NoReverse
  /\ phase = "routers" => m_linksList = <<>>
  /\ phase = "read" => \A i \in DOMAIN m_linksList :
                          <<m_linksList[i].from, m_linksList[i].to>> \in processedLinks

\* The phases after RankVertices, and those after CreateNodes.
Ranked == {"connect", "remove", "keep", "create", "nodes", "links", "done"}
Created == {"nodes", "links", "done"}

ClassInv ==
  /\ rank \in Ranks /\ params.clientNodeDegrees \in Nat
  /\ reader = "map" /\ phase \in Ranked => \A v \in vertices : rank[v] # UNKNOWN
  /\ reader = "map" /\ phase \in Created =>
       m_nodes = vertices /\ node_comment = [v \in vertices |-> node_comment[v]]

SavedInv == LinesInv /\ ClassInv

\* A file in which no line is the reverse of an earlier one is read as it is.
LEMMA ReadsBackAll ==
  ASSUME NEW S, NEW file \in Seq(S),
         \A i, j \in DOMAIN file : i < j => ~(file[j][1] = file[i][2] /\ file[j][2] = file[i][1])
  PROVE  ReadBack(file) = file
<1> DEFINE n == Len(file)
           Pairs2(read) == {<<read[i][1], read[i][2]>> : i \in DOMAIN read}
           More(read, k) == IF Duplicated(Pairs2(read), file[k][1], file[k][2]) THEN read
                            ELSE Append(read, file[k])
           Is(d) == d = [k \in 0 .. Len(file) |-> IF k = 0 THEN <<>> ELSE More(d[k - 1], k)]
           D == CHOOSE d : Is(d)
           Prefix(k) == [i \in 1 .. k |-> file[i]]
<1>1. n \in Nat /\ DOMAIN file = 1 .. n
  OBVIOUS
<1>2. ASSUME NEW k \in 1 .. n
      PROVE  More(Prefix(k - 1), k) = Prefix(k)
  <2>1. k - 1 \in Nat /\ k - 1 < k /\ (k - 1) + 1 = k /\ DOMAIN Prefix(k - 1) = 1 .. k - 1
    OBVIOUS
  <2>2. Prefix(k - 1) \in Seq(S) /\ Len(Prefix(k - 1)) = k - 1
    BY <1>1, <2>1
  <2>3. <<file[k][2], file[k][1]>> \notin Pairs2(Prefix(k - 1))
    <3> SUFFICES ASSUME NEW i \in 1 .. k - 1, <<file[k][2], file[k][1]>> = <<file[i][1], file[i][2]>>
                 PROVE  FALSE
      BY <2>1
    <3>1. i \in DOMAIN file /\ k \in DOMAIN file /\ i < k
      BY <1>1
    <3>2. file[k][2] = file[i][1] /\ file[k][1] = file[i][2]
      OBVIOUS
    <3> QED
      BY <3>1, <3>2
  <2>4. More(Prefix(k - 1), k) = Append(Prefix(k - 1), file[k])
    <3> HIDE DEF Pairs2, Prefix
    <3> QED
      BY <2>3 DEF Duplicated
  <2>5. Append(Prefix(k - 1), file[k]) = Prefix(k)
    <3>1. file[k] \in S
      BY <1>1
    <3>2. PICK p : p = Prefix(k - 1)
      OBVIOUS
    <3>3. Append(p, file[k]) \in Seq(S) /\ Len(Append(p, file[k])) = k
          /\ \A i \in 1 .. k : Append(p, file[k])[i] = IF i = k THEN file[k] ELSE p[i]
      BY <2>1, <2>2, <3>1, <3>2
    <3>4. PICK q : q = Append(p, file[k])
      OBVIOUS
    <3>5. q = [i \in 1 .. k |-> q[i]]
      BY <3>3, <3>4
    <3>6. \A i \in 1 .. k : q[i] = file[i]
      BY <3>2, <3>3, <3>4
    <3>7. q = Prefix(k)
      BY <3>5, <3>6
    <3> QED
      BY <3>2, <3>4, <3>7
  <2> QED
    BY <2>4, <2>5
<1> HIDE DEF More
<1>3. Is([k \in 0 .. n |-> Prefix(k)])
  <2> DEFINE d == [k \in 0 .. n |-> Prefix(k)]
             Val(k) == IF k = 0 THEN <<>> ELSE More(d[k - 1], k)
  <2>1. ASSUME NEW k \in 0 .. n PROVE d[k] = Val(k)
    <3>1. CASE k = 0
      <4>1. Prefix(0) = <<>>
        OBVIOUS
      <4> QED
        BY <3>1, <4>1
    <3>2. CASE k # 0
      <4>1. k \in 1 .. n /\ k - 1 \in 0 .. n
        BY <3>2
      <4>2. d[k] = Prefix(k) /\ d[k - 1] = Prefix(k - 1)
        BY <4>1
      <4> HIDE DEF d, Prefix
      <4> QED
        BY <1>2, <3>2, <4>1, <4>2
    <3> QED
      BY <3>1, <3>2
  <2> HIDE DEF Val
  <2>2. d = [k \in 0 .. n |-> Val(k)]
    BY <2>1
  <2> QED
    BY <2>2 DEF Val
<1>4. Is(D)
  <2> HIDE DEF Is
  <2> QED
    BY <1>3
<1>5. ReadBack(file) = D[n]
  BY DEF ReadBack, More
<1> HIDE DEF D
<1>6. \A k \in 0 .. n : D[k] = IF k = 0 THEN <<>> ELSE More(D[k - 1], k)
  BY <1>4
<1> DEFINE T == {k \in Nat : k \in 0 .. n => D[k] = Prefix(k)}
<1> HIDE DEF Is
<1>7. 0 \in T
  <2>1. Prefix(0) = <<>>
    OBVIOUS
  <2> QED
    BY <1>6, <2>1
<1>8. ASSUME NEW k \in T \cap Nat PROVE k + 1 \in T
  <2> SUFFICES ASSUME k + 1 \in 0 .. n PROVE D[k + 1] = Prefix(k + 1)
    OBVIOUS
  <2>1. k \in 0 .. n /\ D[k] = Prefix(k) /\ (k + 1) - 1 = k /\ k + 1 # 0 /\ k + 1 \in 1 .. n
    OBVIOUS
  <2> HIDE DEF Prefix
  <2>2. D[k + 1] = More(D[k], k + 1)
    BY <1>6, <2>1
  <2>3. More(Prefix(k), k + 1) = Prefix(k + 1)
    BY <1>2, <2>1
  <2> QED
    BY <2>1, <2>2, <2>3
<1>9. Nat \subseteq T
  <2> HIDE DEF T
  <2> QED
    BY <1>7, <1>8, NatSets
<1>10. D[n] = Prefix(n)
  <2> HIDE DEF Prefix
  <2> QED
    BY <1>1, <1>9
<1>11. Prefix(n) = file
  BY <1>1
<1> QED
  BY <1>5, <1>10, <1>11

\* A line that is not skipped is the reverse of none before it.
LEMMA LineAdded ==
  ASSUME FileInv, LinesInv, NEW from, NEW to, NEW ospf, phase = "read", NextLine(from, to), phase' = phase,
         IF Duplicated(processedLinks, from, to) THEN UNCHANGED m_linksList
         ELSE AddLink(Link(from, to, ospf))
  PROVE  LinesInv'
<1>1. CASE Duplicated(processedLinks, from, to)
  <2>1. UNCHANGED <<m_linksList, processedLinks>>
    BY <1>1 DEF NextLine
  <2> QED
    BY <2>1 DEF LinesInv, NoReverse
<1>2. CASE ~Duplicated(processedLinks, from, to)
  <2> DEFINE link == Link(from, to, ospf)
             n == Len(m_linksList)
  <2>1. m_linksList \in Seq(LinkSet) /\ m_linksList' = Append(m_linksList, link)
    BY <1>2 DEF FileInv, AddLink
  <2>2. link.from = from /\ link.to = to
    BY DEF Link
  <2>3. processedLinks' = processedLinks \cup {<<from, to>>} /\ <<to, from>> \notin processedLinks
    BY <1>2 DEF NextLine, Duplicated
  <2> HIDE DEF link
  <2>4. /\ n \in Nat /\ DOMAIN m_linksList = 1 .. n /\ DOMAIN m_linksList' = 1 .. n + 1
        /\ m_linksList'[n + 1] = link
        /\ \A i \in 1 .. n : m_linksList'[i] = m_linksList[i]
    BY <2>1
  <2>5. \A i \in 1 .. n : <<m_linksList[i].from, m_linksList[i].to>> \in processedLinks
    BY <2>4 DEF LinesInv
  <2>6. ASSUME NEW i \in 1 .. n + 1, NEW j \in 1 .. n + 1, i < j
        PROVE  ~(m_linksList'[j].from = m_linksList'[i].to /\ m_linksList'[j].to = m_linksList'[i].from)
    <3>1. i \in 1 .. n
      BY <2>4, <2>6
    <3>2. CASE j = n + 1
      BY <2>2, <2>3, <2>4, <2>5, <3>1, <3>2
    <3>3. CASE j # n + 1
      BY <2>4, <2>6, <3>1, <3>3 DEF LinesInv, NoReverse
    <3> QED
      BY <3>2, <3>3
  <2>7. \A i \in 1 .. n + 1 : <<m_linksList'[i].from, m_linksList'[i].to>> \in processedLinks'
    BY <2>2, <2>3, <2>4, <2>5
  <2> QED
    BY <2>4, <2>6, <2>7 DEF LinesInv, NoReverse
<1> QED
  BY <1>1, <1>2

\* Each edge makes one link, from the smaller of its ends to the greater.
LEMMA CreatedLines ==
  ASSUME FileInv, LinesInv, CreateLinks
  PROVE  LinesInv'
<1> DEFINE list == Listed(edges, {x \in edges \X edges : Before(x[1], x[2])})
<1>1. PICK n \in Nat : list \in [1 .. n -> edges] /\ \A i, j \in 1 .. n : list[i] = list[j] => i = j
  BY EdgesListed DEF FileInv, MapInv
<1>2. PICK drawn \in [edges -> DrawnBandwidths] :
        m_linksList' = [i \in DOMAIN list |-> Link(Min(list[i]), Max(list[i]), Ospf(drawn[list[i]]))]
  BY DEF CreateLinks, DrawnBandwidths
<1> HIDE DEF list
<1>3. /\ DOMAIN m_linksList' = 1 .. n
      /\ \A i \in 1 .. n : m_linksList'[i].from = Min(list[i]) /\ m_linksList'[i].to = Max(list[i])
  BY <1>1, <1>2 DEF Link
<1>4. \A e \in edges : /\ Min(e) \in Nat /\ Max(e) \in Nat /\ Min(e) <= Max(e)
                       /\ e = {Min(e), Max(e)}
  <2> SUFFICES ASSUME NEW e \in edges
               PROVE  Min(e) \in Nat /\ Max(e) \in Nat /\ Min(e) <= Max(e) /\ e = {Min(e), Max(e)}
    OBVIOUS
  <2>1. PICK u \in Routers, v \in Routers : e = {u, v}
    BY DEF FileInv, MapInv, EdgesOk
  <2>2. IsFiniteSet(e) /\ e \subseteq Nat /\ e # {}
    BY <2>1, RoutersAssumption, FS_Subset
  <2>3. Min(e) \in e /\ \A x \in e : Min(e) <= x
    BY <2>2, MinOf
  <2>4. Max(e) \in e
    BY <2>1, EdgeEnds
  <2> QED
    BY <2>1, <2>3, <2>4, EdgeEnds
<1>5. NoReverse'
  <2> SUFFICES ASSUME NEW i \in 1 .. n, NEW j \in 1 .. n, i < j,
                      Min(list[j]) = Max(list[i]), Max(list[j]) = Min(list[i])
               PROVE  FALSE
    BY <1>3 DEF NoReverse
  <2>1. list[i] \in edges /\ list[j] \in edges
    BY <1>1
  <2>2. Min(list[i]) = Min(list[j]) /\ Max(list[i]) = Max(list[j])
    BY <1>4, <2>1
  <2>3. list[i] = list[j]
    BY <1>4, <2>1, <2>2
  <2> QED
    BY <1>1, <2>3
<1>6. phase' = "links"
  BY DEF CreateLinks
<1> QED
  BY <1>5, <1>6 DEF LinesInv

\* The second file leaves the ends of the links alone.
LEMMA LatencyLines ==
  ASSUME FileInv, LinesInv, NEW from, NEW to, ReadLatency(from, to)
  PROVE  LinesInv'
<1>1. phase' = "latencies"
  BY DEF ReadLatency
<1>2. CASE UNCHANGED m_linksList
  BY <1>1, <1>2 DEF LinesInv, NoReverse
<1>3. CASE m_linksList' = [m_linksList EXCEPT ![linkIterator].for = {from, to}]
  <2>1. m_linksList \in Seq(LinkSet)
    BY DEF FileInv
  <2>2. DOMAIN m_linksList' = DOMAIN m_linksList
    BY <1>3
  <2>3. \A i \in DOMAIN m_linksList :
          m_linksList'[i].from = m_linksList[i].from /\ m_linksList'[i].to = m_linksList[i].to
    <3> SUFFICES ASSUME NEW i \in DOMAIN m_linksList
                 PROVE  m_linksList'[i].from = m_linksList[i].from /\ m_linksList'[i].to = m_linksList[i].to
      OBVIOUS
    <3>1. m_linksList[i] \in LinkSet
      BY <2>1
    <3>2. m_linksList'[i] \in {m_linksList[i], [m_linksList[i] EXCEPT !.for = {from, to}]}
      BY <1>3
    <3> QED
      BY <3>1, <3>2 DEF LinkSet
  <2> QED
    BY <1>1, <2>2, <2>3 DEF LinesInv, NoReverse
<1> QED
  BY <1>2, <1>3 DEF ReadLatency

\* LinesInv is inductive.
LEMMA LinesStep == FileInv /\ LinesInv /\ [Next]_vars => LinesInv'
<1> SUFFICES ASSUME FileInv, LinesInv, [Next]_vars
             PROVE  LinesInv'
  OBVIOUS
<1>1. ASSUME UNCHANGED m_linksList,
             \/ phase' = phase /\ processedLinks' = processedLinks
             \/ phase' \notin {"routers", "read"}
             \/ phase' = "read" /\ m_linksList = <<>>
      PROVE  LinesInv'
  BY <1>1 DEF LinesInv, NoReverse
<1>2. CASE UNCHANGED readerVars
  BY <1>1, <1>2 DEF readerVars
<1>3. CASE ReaderStep
  <2>1. CASE OpenLatencies \/ ApplySettings
    BY <1>1, <2>1 DEF OpenLatencies, ApplySettings
  <2>2. CASE LinkSection
    BY <1>1, <2>2 DEF LinkSection, LinesInv
  <2>3. ASSUME NEW name, NEW comment, ReadRouter(name, comment)
        PROVE  LinesInv'
    BY <1>1, <2>3 DEF ReadRouter
  <2>4. ASSUME NEW from, NEW to, NEW ospf, ReadAnnotated(from, to, ospf) \/ ReadWeight(from, to, ospf)
        PROVE  LinesInv'
    <3>1. phase = "read" /\ NextLine(from, to) /\ phase' = phase
      BY <2>4 DEF ReadAnnotated, ReadWeight, NextLine
    <3>2. IF Duplicated(processedLinks, from, to) THEN UNCHANGED m_linksList
          ELSE AddLink(Link(from, to, ospf))
      BY <2>4 DEF ReadAnnotated, ReadWeight
    <3> QED
      BY <3>1, <3>2, LineAdded
  <2>5. ASSUME NEW from, NEW to, ReadLatency(from, to)
        PROVE  LinesInv'
    BY <2>5, LatencyLines
  <2> QED
    BY <1>3, <2>1, <2>2, <2>3, <2>4, <2>5 DEF ReaderStep
<1>4. CASE MapStep
  <2>1. CASE CreateLinks
    BY <2>1, CreatedLines
  <2>2. ASSUME NEW u, NEW radius, NEW neighbours, ReadMapLine(u, neighbours, radius)
        PROVE  LinesInv'
    BY <1>1, <2>2 DEF ReadMapLine, readerVars
  <2>3. CASE EndOfMap \/ RankVertices \/ ConnectBackboneRouters \/ RemoveWrongLinks \/ KeepAgain \/ CreateNodes
    BY <1>1, <2>3 DEF EndOfMap, RankVertices, ConnectBackboneRouters, RemoveWrongLinks, KeepAgain, CreateNodes
  <2> QED
    BY <1>4, <2>1, <2>2, <2>3 DEF MapStep
<1> QED
  BY <1>2, <1>3, <1>4 DEF Next, vars

\* ClassInv is inductive.
LEMMA ClassStep == FileInv /\ ClassInv /\ [Next]_vars => ClassInv'
<1> SUFFICES ASSUME MapInv, ClassInv, [Next]_vars
             PROVE  ClassInv'
  BY DEF FileInv
<1>1. ASSUME UNCHANGED <<rank, params, vertices>>, reader' = reader,
             phase' = phase \/ phase' \notin Ranked \/ phase = "links"
               \/ reader # "map",
             UNCHANGED <<m_nodes, node_comment>> \/ phase' \notin Created \/ reader # "map"
      PROVE  ClassInv'
  BY <1>1 DEF ClassInv, Ranked, Created
<1>2. ASSUME ReaderStep, UNCHANGED mapVars
      PROVE  ClassInv'
  <2>1. UNCHANGED <<rank, params, vertices>>
    BY <1>2 DEF mapVars
  <2>2. CASE LinkSection \/ OpenLatencies \/ ApplySettings
    BY <1>1, <2>1, <2>2 DEF LinkSection, OpenLatencies, ApplySettings, Committed, Ranked
  <2>3. ASSUME NEW name, NEW comment, ReadRouter(name, comment)
        PROVE  ClassInv'
    BY <1>1, <2>1, <2>3 DEF ReadRouter, Created
  <2>4. ASSUME NEW from, NEW to, NEW ospf, ReadAnnotated(from, to, ospf) \/ ReadWeight(from, to, ospf)
        PROVE  ClassInv'
    BY <1>1, <2>1, <2>4 DEF ReadAnnotated, ReadWeight, NextLine, Created
  <2>5. ASSUME NEW from, NEW to, ReadLatency(from, to)
        PROVE  ClassInv'
    BY <1>1, <2>1, <2>5 DEF ReadLatency
  <2> QED
    BY <1>2, <2>2, <2>3, <2>4, <2>5 DEF ReaderStep
<1>3. CASE UNCHANGED <<readerVars, mapVars>>
  BY <1>1, <1>3 DEF readerVars, mapVars
<1>4. CASE MapStep
  <2>1. ASSUME NEW u, NEW radius, NEW neighbours, ReadMapLine(u, neighbours, radius)
        PROVE  ClassInv'
    <3>1. phase' = "read" /\ UNCHANGED <<rank, params, reader>>
      BY <2>1 DEF ReadMapLine, readerVars
    <3> QED
      BY <3>1 DEF ClassInv, Ranked, Created
  <2>2. CASE EndOfMap
    <3>1. phase' = "rank" /\ rank' = rank /\ params'.clientNodeDegrees \in Nat
      BY <2>2 DEF EndOfMap
    <3> QED
      BY <3>1 DEF ClassInv, Ranked, Created
  <2>3. CASE RankVertices
    <3>1. rank' \in Ranks /\ \A v \in vertices : rank'[v] # UNKNOWN
      BY <2>3, RankVerticesType DEF MapInv, ClassInv
    <3>2. phase' = "connect" /\ UNCHANGED <<params, vertices>>
      BY <2>3 DEF RankVertices
    <3> QED
      BY <3>1, <3>2 DEF ClassInv, Created
  <2>4. CASE ConnectBackboneRouters \/ RemoveWrongLinks
    BY <2>4 DEF ConnectBackboneRouters, RemoveWrongLinks, ClassInv, Ranked, Created
  <2>5. CASE KeepAgain
    <3>1. vertices' \subseteq vertices
      <4>1. CASE vertices # {} /\ vertices' = Biggest
        <5>1. PICK v \in vertices : Biggest = ComponentIn(edges, v, vertices)
          BY <4>1, BiggestIs DEF MapInv
        <5> QED
          BY <4>1, <5>1, ComponentInside DEF MapInv
      <4> QED
        BY <2>5, <4>1 DEF KeepAgain, KeepOnlyBiggestConnectedComponent
    <3>2. phase = "keep" /\ phase' = "create" /\ UNCHANGED <<params, rank, reader>>
      BY <2>5 DEF KeepAgain
    <3> QED
      BY <3>1, <3>2 DEF ClassInv, Ranked, Created
  <2>6. CASE CreateNodes
    <3>1. /\ phase = "create" /\ phase' = "nodes" /\ UNCHANGED <<params, rank, reader, vertices>>
          /\ m_nodes' = vertices
      BY <2>6 DEF CreateNodes, mapVars
    <3>2. node_comment' = [v \in vertices |-> node_comment'[v]]
      BY <2>6 DEF CreateNodes
    <3> QED
      BY <3>1, <3>2 DEF ClassInv, Ranked, Created
  <2>7. CASE CreateLinks
    <3>1. /\ phase = "nodes" /\ phase' = "links"
          /\ UNCHANGED <<params, rank, reader, vertices, m_nodes, node_comment>>
      BY <2>7 DEF CreateLinks, mapVars
    <3> QED
      BY <3>1 DEF ClassInv, Ranked, Created
  <2> QED
    BY <1>4, <2>1, <2>2, <2>3, <2>4, <2>5, <2>6, <2>7 DEF MapStep
<1> QED
  BY <1>2, <1>3, <1>4 DEF Next, vars

\* What the two invariants say of a file that is saved.
LEMMA SavedIsRead == FileInv /\ SavedInv => RoundTrip
<1> SUFFICES ASSUME FileInv, SavedInv, phase = "done",
                    NEW file, file = (IF reader = "map" THEN MapSaveTopology ELSE SaveTopology)
             PROVE  /\ DOMAIN file.routers = m_nodes
                    /\ reader = "map" => file.routers = node_comment
                    /\ ReadBack(file.links) = [i \in DOMAIN m_linksList |->
                         <<m_linksList[i].from, m_linksList[i].to, m_linksList[i].ospf>>]
  BY DEF RoundTrip, SavedAsRead
<1> DEFINE saved == [i \in DOMAIN m_linksList |->
                       <<m_linksList[i].from, m_linksList[i].to, m_linksList[i].ospf>>]
<1>1. m_linksList \in Seq(LinkSet)
  BY DEF FileInv
<1>2. file.links = saved
  BY DEF MapSaveTopology, SaveTopology, SavedLine
<1>3. DOMAIN file.routers = m_nodes /\ (reader = "map" => file.routers = node_comment)
  <2> SUFFICES ASSUME reader = "map"
               PROVE  DOMAIN file.routers = m_nodes /\ file.routers = node_comment
    BY DEF SaveTopology
  <2> DEFINE V == Of(BACKBONE) \cup Of(GATEWAY) \cup Of(CLIENT)
  <2>1. /\ m_nodes = vertices /\ node_comment = [v \in vertices |-> node_comment[v]]
        /\ \A v \in vertices : rank[v] \in {CLIENT, GATEWAY, BACKBONE}
    <3>1. \A v \in vertices : rank[v] # UNKNOWN /\ rank[v] \in UNKNOWN .. BACKBONE
      BY DEF SavedInv, ClassInv, Ranked, Ranks, FileInv, MapInv
    <3> QED
      BY <3>1 DEF SavedInv, ClassInv, Created, UNKNOWN, CLIENT, GATEWAY, BACKBONE
  <2>2. V = vertices
    BY <2>1 DEF Of
  <2> HIDE DEF V
  <2>3. file.routers = [v \in V |-> node_comment[v]]
    BY DEF MapSaveTopology, SaveTopology, NodeWriter, V
  <2> QED
    BY <2>1, <2>2, <2>3
<1>4. ReadBack(saved) = saved
  <2> DEFINE S == Routers \X Routers \X (OspfMetrics \cup {Ospf(b) : b \in DrawnBandwidths})
  <2>1. saved \in Seq(S)
    <3>1. PICK n \in Nat : DOMAIN m_linksList = 1 .. n /\ m_linksList \in [1 .. n -> LinkSet]
      BY <1>1
    <3>2. saved \in [1 .. n -> S]
      BY <3>1 DEF LinkSet
    <3> HIDE DEF saved, S
    <3> QED
      BY <3>2
  <2>2. DOMAIN saved = DOMAIN m_linksList
        /\ \A i \in DOMAIN saved : saved[i][1] = m_linksList[i].from /\ saved[i][2] = m_linksList[i].to
    OBVIOUS
  <2> HIDE DEF saved, S
  <2>3. \A i, j \in DOMAIN saved : i < j => ~(saved[j][1] = saved[i][2] /\ saved[j][2] = saved[i][1])
    BY <2>2 DEF SavedInv, LinesInv, NoReverse
  <2> QED
    BY <2>1, <2>3, ReadsBackAll
<1> QED
  BY <1>2, <1>3, <1>4

\* Whatever was read, of a map with any ranks, and written by SaveTopology: Read makes the
\* same links of it in the same order, and the map reader loses no router and none of its
\* resources.
THEOREM SavedTopologyIsRead == Spec => []RoundTrip
<1>1. Init => SavedInv
  <2> SUFFICES ASSUME Init PROVE SavedInv
    OBVIOUS
  <2>1. m_linksList = <<>> /\ phase \in {"routers", "read"}
    BY DEF Init, ReaderInit
  <2>2. rank = [u \in Routers |-> UNKNOWN] /\ params = DefaultParams
    BY DEF Init, MapInit
  <2> QED
    BY <2>1, <2>2 DEF SavedInv, LinesInv, NoReverse, ClassInv, Ranks, Ranked, Created, DefaultParams,
                     UNKNOWN, BACKBONE
<1>2. FileInv /\ SavedInv /\ [Next]_vars => SavedInv'
  BY LinesStep, ClassStep DEF SavedInv
<1> QED
  BY FileInit, FileStep, SavedIsRead, <1>1, <1>2, PTL DEF Spec

-----------------------------------------------------------------------------
(* Networks, whoever makes them. *)

\* A network is built: channels between numbered nodes.
Built == channels' \in Seq(Seq(Nat)) /\ \E net : Build(net)

\* What a step of a scenario is for the routing.
Routing == RoutingStep \/ Built \/ UNCHANGED <<graphVars, metric, configured, calcVars>>

\* FlattenSeq joins sequences of what it is given.
LEMMA FlattenedType ==
  ASSUME NEW R, NEW seqs \in Seq(Seq(R))
  PROVE  FlattenSeq(seqs) \in Seq(R)
<1> DEFINE n == Len(seqs)
<1>1. n \in Nat /\ DOMAIN seqs = 1 .. n /\ \A i \in 1 .. n : seqs[i] \in Seq(R)
  OBVIOUS
<1> HIDE DEF n
<1>2. CASE n = 0
  <2>1. seqs = <<>>
    BY <1>2 DEF n
  <2> QED
    BY <1>2, <2>1 DEF FlattenSeq, n
<1>3. CASE n # 0
  <2> DEFINE S == Seq(R)
             F == [j \in Nat |-> [x \in S |-> IF j + 2 \in 1 .. n THEN x \o seqs[j + 2] ELSE x]]
             Is(d) == d = [i \in 1 .. Len(seqs) |-> IF i = 1 THEN seqs[i] ELSE d[i - 1] \o seqs[i]]
             D == CHOOSE d : Is(d)
  <2>1. F \in IndexedSteps(S)
    <3> SUFFICES ASSUME NEW j \in Nat, NEW x \in S, j + 2 \in 1 .. n
                 PROVE  x \o seqs[j + 2] \in S
      BY DEF IndexedSteps
    <3>1. seqs[j + 2] \in Seq(R)
      BY <1>1
    <3> QED
      BY <3>1, ConcatProperties
  <2>2. seqs[1] \in S
    BY <1>1, <1>3
  <2>3. PICK g \in [Nat -> S] : g[0] = seqs[1] /\ \A k \in Nat : g[k + 1] = F[k][g[k]]
    <3>1. PICK T, x : T = S /\ x = seqs[1]
      OBVIOUS
    <3>2. x \in T
      BY <2>2, <3>1
    <3> HIDE DEF F, S
    <3>3. \E g : Values(g, T, F, x)
      BY <2>1, <3>1, <3>2, Recursion
    <3> QED
      BY <3>1, <3>3 DEF Values
  <2>4. \A k \in Nat : k + 2 \in 1 .. n => g[k + 1] = g[k] \o seqs[k + 2]
    BY <2>3
  <2> HIDE DEF F, S
  <2>5. Is([i \in 1 .. n |-> g[i - 1]])
    <3> DEFINE d == [i \in 1 .. n |-> g[i - 1]]
               Val(i) == IF i = 1 THEN seqs[i] ELSE d[i - 1] \o seqs[i]
    <3>1. ASSUME NEW i \in 1 .. n
          PROVE  g[i - 1] = Val(i)
      <4>1. CASE i = 1
        BY <2>3, <4>1
      <4>2. CASE i # 1
        <5>1. PICK k \in Nat : k = i - 2 /\ k + 1 = i - 1 /\ k + 2 = i /\ i - 1 \in 1 .. n
          <6>1. i - 2 \in Nat /\ (i - 2) + 1 = i - 1 /\ (i - 2) + 2 = i /\ i - 1 \in 1 .. n
            BY <1>1, <4>2
          <6> QED
            BY <6>1
        <5>2. d[i - 1] = g[k]
          <6>1. (i - 1) - 1 = k
            BY <5>1
          <6> QED
            BY <5>1, <6>1
        <5>3. g[i - 1] = g[k] \o seqs[i]
          BY <2>4, <5>1
        <5> HIDE DEF d
        <5> QED
          BY <4>2, <5>2, <5>3
      <4> QED
        BY <4>1, <4>2
    <3> HIDE DEF Val
    <3>2. d = [i \in 1 .. n |-> Val(i)]
      BY <3>1
    <3> QED
      BY <3>2 DEF Val, n
  <2>6. Is(D)
    <3> HIDE DEF Is
    <3> QED
      BY <2>5
  <2>7. FlattenSeq(seqs) = D[n]
    BY <1>3 DEF FlattenSeq, n
  <2> HIDE DEF D
  <2>8. \A i \in 1 .. n : D[i] = IF i = 1 THEN seqs[i] ELSE D[i - 1] \o seqs[i]
    BY <2>6 DEF n
  <2> HIDE DEF Is
  <2> DEFINE T == {i \in Nat : i + 1 \in 1 .. n => D[i + 1] \in Seq(R)}
  <2>9. 0 \in T
    BY <1>1, <2>8
  <2>10. ASSUME NEW m \in 1 .. n, m + 1 \in 1 .. n, D[m] \in Seq(R)
         PROVE  D[m + 1] \in Seq(R)
    <3>1. m + 1 # 1 /\ (m + 1) - 1 = m
      BY <1>1
    <3>2. D[m + 1] = D[m] \o seqs[m + 1] /\ seqs[m + 1] \in Seq(R)
      BY <1>1, <2>8, <2>10, <3>1
    <3> QED
      BY <2>10, <3>2, ConcatProperties
  <2>11. ASSUME NEW i \in T \cap Nat PROVE i + 1 \in T
    <3> SUFFICES ASSUME (i + 1) + 1 \in 1 .. n
                 PROVE  D[(i + 1) + 1] \in Seq(R)
      OBVIOUS
    <3>1. i + 1 \in 1 .. n /\ D[i + 1] \in Seq(R)
      BY <1>1
    <3> QED
      BY <2>10, <3>1
  <2>12. Nat \subseteq T
    <3> HIDE DEF T
    <3> QED
      BY <2>9, <2>11, NatSets
  <2>13. n - 1 \in Nat /\ (n - 1) + 1 = n /\ n \in 1 .. n
    BY <1>1, <1>3
  <2>14. n - 1 \in T
    BY <2>12, <2>13
  <2> QED
    BY <2>7, <2>13, <2>14
<1> QED
  BY <1>2, <1>3

\* The devices of a link are on two nodes.
TwoEnded == {s \in Seq(Nat) : Len(s) = 2}

\* A pair of nodes has two ends.
LEMMA PairIsTwoEnded ==
  ASSUME NEW a \in Nat, NEW b \in Nat
  PROVE  <<a, b>> \in TwoEnded
<1>1. <<a, b>> \in Seq(Nat) /\ Len(<<a, b>>) = 2
  OBVIOUS
<1> QED
  BY <1>1 DEF TwoEnded

\* The links of a clique have two ends each.
LEMMA PairsType ==
  ASSUME NEW clique \in Seq(Nat)
  PROVE  Pairs(clique) \in Seq(TwoEnded)
<1> DEFINE rows == [i \in DOMAIN clique |->
                     [k \in 1 .. Len(clique) - i |-> <<clique[i], clique[i + k]>>]]
<1>1. DOMAIN clique = 1 .. Len(clique) /\ Len(clique) \in Nat
  OBVIOUS
<1>2. ASSUME NEW i \in DOMAIN clique
      PROVE  [k \in 1 .. Len(clique) - i |-> <<clique[i], clique[i + k]>>] \in Seq(TwoEnded)
  <2>1. ASSUME NEW k \in 1 .. Len(clique) - i
        PROVE  <<clique[i], clique[i + k]>> \in TwoEnded
    <3>1. i \in 1 .. Len(clique) /\ i + k \in 1 .. Len(clique)
      BY <1>1
    <3> QED
      BY <1>1, <3>1, PairIsTwoEnded
  <2>2. PICK m \in Nat : m = Len(clique) - i
    BY <1>1
  <2>3. PICK row : row = [k \in 1 .. Len(clique) - i |-> <<clique[i], clique[i + k]>>]
    OBVIOUS
  <2>4. row \in [1 .. m -> TwoEnded]
    BY <2>1, <2>2, <2>3
  <2>5. row \in Seq(TwoEnded)
    BY <2>4
  <2> QED
    BY <2>3, <2>5
<1>3. rows \in [1 .. Len(clique) -> Seq(TwoEnded)]
  BY <1>1, <1>2
<1>4. rows \in Seq(Seq(TwoEnded))
  <2> HIDE DEF rows
  <2> QED
    BY <1>1, <1>3
<1>5. Pairs(clique) = FlattenSeq(rows)
  BY DEF Pairs
<1> QED
  BY <1>4, <1>5, FlattenedType

\* So have all the links that are made for the cliques.
LEMMA MadeType ==
  ASSUME NEW cliques \in Cliques
  PROVE  FlattenSeq([i \in DOMAIN cliques |-> Pairs(cliques[i])]) \in Seq(TwoEnded)
<1> DEFINE rows == [i \in DOMAIN cliques |-> Pairs(cliques[i])]
<1>1. cliques \in Seq(Seq(Nat))
  BY CliquesAssumption
<1>2. DOMAIN cliques = 1 .. Len(cliques) /\ Len(cliques) \in Nat
  BY <1>1
<1>3. \A i \in DOMAIN cliques : Pairs(cliques[i]) \in Seq(TwoEnded)
  BY <1>1, <1>2, PairsType
<1>4. rows \in [1 .. Len(cliques) -> Seq(TwoEnded)]
  BY <1>2, <1>3
<1>5. rows \in Seq(Seq(TwoEnded))
  <2> HIDE DEF rows
  <2> QED
    BY <1>2, <1>4
<1> QED
  BY <1>5, FlattenedType

\* Networks of such channels are networks.
LEMMA TwoEndedNet == \A net \in Seq(TwoEnded) : net \in Seq(Seq(Nat))
<1>1. TwoEnded \subseteq Seq(Nat)
  BY DEF TwoEnded
<1> QED
  BY <1>1

\* A scenario starts without routing.
LEMMA RoutingOfInit == Init => RoutingInit
  BY DEF Init

\* Every step of a scenario is a step of the routing, or none for it.
LEMMA RoutingOfNext == FileInv /\ [Next]_vars => Routing
<1> SUFFICES ASSUME FileInv, [Next]_vars
             PROVE  Routing
  OBVIOUS
<1>1. CASE UNCHANGED routingVars
  BY <1>1 DEF Routing, routingVars
<1>2. CASE Build(NetworkOf(m_linksList))
  <2>1. channels' = [i \in DOMAIN m_linksList |-> <<m_linksList[i].from, m_linksList[i].to>>]
    BY <1>2 DEF Build, NetworkOf
  <2>2. m_linksList \in Seq(LinkSet)
    BY DEF FileInv
  <2>3. ASSUME NEW i \in DOMAIN m_linksList
        PROVE  <<m_linksList[i].from, m_linksList[i].to>> \in Seq(Nat)
    <3>1. m_linksList[i] \in LinkSet
      BY <2>2
    <3>2. m_linksList[i].from \in Nat /\ m_linksList[i].to \in Nat
      BY <3>1, RoutersAssumption DEF LinkSet
    <3> QED
      BY <3>2
  <2>4. channels' \in [1 .. Len(m_linksList) -> Seq(Nat)] /\ Len(m_linksList) \in Nat
    BY <2>1, <2>2, <2>3
  <2>5. channels' \in Seq(Seq(Nat))
    BY <2>4
  <2> QED
    BY <1>2, <2>5 DEF Routing, Built
<1>3. ASSUME NEW net \in Networks, Build(net)
      PROVE  Routing
  BY <1>3, NetworksAssumption DEF Routing, Built, Build
<1>4. ASSUME HelperStep
      PROVE  Routing
  <2>1. ASSUME NEW cliques \in Cliques, CreateTopology(cliques)
        PROVE  Routing
    <3>1. PICK made, m : /\ made \in Seq(TwoEnded)
                         /\ Build([channels |-> made, metric |-> m])
      BY <2>1, MadeType DEF CreateTopology
    <3>2. channels' = made
      BY <3>1 DEF Build
    <3> QED
      BY <3>1, <3>2, TwoEndedNet DEF Routing, Built
  <2>2. ASSUME Command
        PROVE  Routing
    BY <2>2 DEF Command, Routing
  <2> QED
    BY <1>4, <2>1, <2>2 DEF HelperStep, AddRouteByName, AddRouteToNode, RemoveRouteToNode,
                            FailLink, UpLink, SetErrorRate
<1>5. CASE RoutingStep
  BY <1>5 DEF Routing
<1> QED
  BY <1>1, <1>2, <1>3, <1>4, <1>5 DEF Next, vars

-----------------------------------------------------------------------------
(* Borrowed metrics. *)

\* Converting a metric.
LEMMA Uint16Type ==
  /\ \A m \in Nat : Uint16(m) \in Nat /\ Uint16(m) <= WeightInf /\ Uint16(Uint16(m)) = Uint16(m)
  /\ \A m \in Nat : m <= WeightInf => Uint16(m) = m
  /\ Uint16(Disabled) = Disabled
BY DEF Uint16, WeightInf, Disabled

\* What is kept is a number.
LEMMA Uint16Nat == \A m \in Nat : Uint16(m) \in Nat
BY Uint16Type

\* What a face that is not disabled may hold of the metric it was given.
Left(f) == {configured[f], Uint16(configured[f])}

\* Where a metric is: on its face, or remembered while the face is disabled.
MetricsKept ==
  \A f \in Faces : IF f \in DOMAIN originalMetrics THEN metric[f] = Disabled ELSE metric[f] \in Left(f)

Remembered == \A f \in DOMAIN originalMetrics : f \in Faces /\ originalMetrics[f] = Uint16(configured[f])

\* Metrics are numbers.
MetricsOk == metric \in [Faces -> Nat] /\ configured \in [Faces -> Nat]

\* Metrics are remembered for one node, which the calculation has not finished.
Borrowing ==
  originalMetrics # <<>> => calc = "all" /\ \E n \in sources : DOMAIN originalMetrics = FacesOf(n)

\* No calculation runs before the network is built.
Unbuilt == channels = <<>> => calc = "idle"

BorrowInv == MetricsKept /\ Remembered /\ Borrowing /\ Unbuilt

\* Nothing is remembered at first.
LEMMA EmptyDomain == DOMAIN <<>> = {}
  OBVIOUS

\* While no calculation runs no metric is remembered.
LEMMA IdleBorrowsNothing ==
  ASSUME BorrowInv, calc # "all"
  PROVE  /\ originalMetrics = <<>>
         /\ \A f \in Faces : metric[f] \in Left(f)
  BY EmptyDomain DEF BorrowInv, MetricsKept, Borrowing

\* BorrowInv holds at first.
LEMMA BorrowInit == RoutingInit => BorrowInv
  BY EmptyDomain DEF RoutingInit, BorrowInv, MetricsKept, Left, Remembered, Borrowing, Unbuilt, Faces

\* Steps that change neither faces nor metrics nor the calculation.
LEMMA BorrowUndisturbed ==
  ASSUME BorrowInv,
         UNCHANGED <<channels, metric, configured, calc, sources, originalMetrics>>
  PROVE  BorrowInv'
<1>1. Faces' = Faces /\ \A n : FacesOf(n)' = FacesOf(n)
  BY DEF Faces, FacesOf, NodeOf
<1>2. MetricsKept' /\ Remembered'
  BY <1>1 DEF BorrowInv, MetricsKept, Left, Remembered
<1>3. Borrowing'
  BY <1>1 DEF BorrowInv, Borrowing
<1>4. Unbuilt'
  BY DEF BorrowInv, Unbuilt
<1> QED
  BY <1>2, <1>3, <1>4 DEF BorrowInv

\* BorrowInv is inductive.
LEMMA BorrowStep == BorrowInv /\ MetricsOk /\ Routing => BorrowInv'
<1> SUFFICES ASSUME BorrowInv, MetricsOk, Routing
             PROVE  BorrowInv'
  OBVIOUS
<1> USE DEF graphVars
<1>1. CASE UNCHANGED <<graphVars, metric, configured, calcVars>>
  BY <1>1, BorrowUndisturbed DEF calcVars
<1>2. CASE Built
  <2>1. originalMetrics = <<>> /\ originalMetrics' = <<>> /\ calc' = calc /\ calc = "idle"
    BY <1>2, IdleBorrowsNothing DEF Built, Build, BorrowInv, Unbuilt, calcVars
  <2>2. metric' = configured'
    BY <1>2 DEF Built, Build
  <2> QED
    BY <2>1, <2>2, EmptyDomain DEF BorrowInv, MetricsKept, Left, Remembered, Borrowing, Unbuilt
<1>3. CASE \/ \E n \in Nodes : Install(n)
           \/ InstallOther \/ AddIncidency \/ Return
           \/ \E p \in Names, n \in Nodes : AddOrigin(p, n)
  <2> SUFFICES UNCHANGED <<channels, metric, configured, calcVars>>
    BY BorrowUndisturbed DEF calcVars
  <2> QED
    BY <1>3 DEF Install, InstallOther, AddIncidency, Return, AddOrigin
<1>4. CASE CalculateRoutes \/ CalculateAllPossibleRoutes
  <2>1. /\ Idle
        /\ UNCHANGED <<channels, metric, configured, originalMetrics>>
    BY <1>4 DEF CalculateRoutes, CalculateAllPossibleRoutes, Start
  <2>2. originalMetrics = <<>> /\ channels # <<>>
    BY <2>1, IdleBorrowsNothing DEF Idle
  <2> QED
    BY <2>1, <2>2 DEF BorrowInv, MetricsKept, Left, Remembered, Borrowing, Unbuilt, Faces
<1>5. ASSUME NEW n \in sources, RoutesOf(n)
      PROVE  BorrowInv'
  <2>1. /\ calc = "plain"
        /\ UNCHANGED <<channels, metric, configured, calc, originalMetrics>>
    BY <1>5 DEF RoutesOf
  <2>2. originalMetrics = <<>>
    BY <2>1, IdleBorrowsNothing
  <2> QED
    BY <2>1, <2>2 DEF BorrowInv, MetricsKept, Left, Remembered, Borrowing, Unbuilt, Faces
<1>6. ASSUME NEW n \in sources, DisableFaces(n)
      PROVE  BorrowInv'
  <2>1. /\ calc = "all" /\ originalMetrics = <<>>
        /\ UNCHANGED <<channels, configured, calc, sources>>
        /\ originalMetrics' = [f \in FacesOf(n) |-> Uint16(metric[f])]
        /\ metric' = [f \in Faces |-> IF f \in FacesOf(n) THEN Disabled ELSE metric[f]]
    BY <1>6 DEF DisableFaces
  <2>2. Faces' = Faces /\ FacesOf(n) \subseteq Faces /\ FacesOf(n)' = FacesOf(n)
    BY <2>1 DEF Faces, FacesOf, NodeOf
  <2>3. \A f \in Faces : metric[f] \in Left(f) /\ Uint16(metric[f]) = Uint16(configured[f])
    BY <2>1, EmptyDomain, Uint16Type DEF BorrowInv, MetricsKept, MetricsOk, Left
  <2>4. MetricsKept' /\ Remembered'
    BY <2>1, <2>2, <2>3 DEF MetricsKept, Left, Remembered
  <2>5. Borrowing'
    <3>1. DOMAIN originalMetrics' = FacesOf(n)'
      BY <2>1, <2>2
    <3>2. \E x \in sources' : DOMAIN originalMetrics' = FacesOf(x)'
      BY <3>1, <2>1
    <3> QED
      BY <2>1, <3>2 DEF Borrowing
  <2> QED
    BY <2>1, <2>4, <2>5 DEF BorrowInv, Unbuilt
<1>7. ASSUME NEW f \in todo, RoutesVia(f)
      PROVE  BorrowInv'
  <2>1. UNCHANGED <<channels, metric, configured, calc, sources, originalMetrics>>
    BY <1>7 DEF RoutesVia, DisableAgain
  <2> QED
    BY <2>1, BorrowUndisturbed
<1>8. CASE RecoverMetrics
  <2>1. /\ UNCHANGED <<channels, configured, calc>>
        /\ originalMetrics' = <<>>
        /\ metric' = [f \in Faces |-> Recovered(f)]
    BY <1>8 DEF RecoverMetrics
  <2>2. Faces' = Faces
    BY <2>1 DEF Faces
  <2>3. \A f \in Faces : Recovered(f) \in Left(f)
    BY DEF BorrowInv, MetricsKept, Left, Remembered, Recovered
  <2> QED
    BY <2>1, <2>2, <2>3, EmptyDomain DEF BorrowInv, MetricsKept, Left, Remembered, Borrowing, Unbuilt
<1>9. CASE Finish
  <2>1. /\ UNCHANGED <<channels, metric, configured, originalMetrics>>
        /\ sources = {} /\ calc' = "idle"
    BY <1>9 DEF Finish
  <2>2. originalMetrics = <<>>
    BY <2>1 DEF BorrowInv, Borrowing
  <2> QED
    BY <2>1, <2>2 DEF BorrowInv, MetricsKept, Left, Remembered, Borrowing, Unbuilt, Faces
<1>10. ASSUME NEW new, NEW conf, ChangeMetrics(new, conf), \A f \in Faces : new[f] \in {conf[f], Uint16(conf[f])}
       PROVE  BorrowInv'
  <2>1. /\ Idle /\ metric' = new /\ configured' = conf
        /\ UNCHANGED <<channels, calcVars>>
    BY <1>10 DEF ChangeMetrics
  <2>2. originalMetrics = <<>>
    BY <2>1, IdleBorrowsNothing DEF Idle
  <2> QED
    BY <1>10, <2>1, <2>2, EmptyDomain
       DEF BorrowInv, MetricsKept, Left, Remembered, Borrowing, Unbuilt, calcVars, Faces
<1> HIDE DEF graphVars
<1>11. ASSUME RoutingStep
       PROVE  BorrowInv'
  <2>1. CASE sources # {} /\ (RoutesOf(Min(sources)) \/ DisableFaces(Min(sources)))
    <3>1. PICK n : n = Min(sources) /\ (RoutesOf(n) \/ DisableFaces(n))
      BY <2>1
    <3>2. n \in sources
      BY <3>1 DEF RoutesOf, DisableFaces
    <3> QED
      BY <3>1, <3>2, <1>5, <1>6
  <2>2. CASE todo # {} /\ RoutesVia(First(todo))
    <3>1. PICK f : f = First(todo) /\ RoutesVia(f)
      BY <2>2
    <3>2. f \in todo
      BY <3>1 DEF RoutesVia
    <3> QED
      BY <3>1, <3>2, <1>7
  <2>3. ASSUME NEW f \in Faces, NEW m \in Metrics, SetMetric(f, m)
        PROVE  BorrowInv'
    <3>1. PICK new, conf : new = [metric EXCEPT ![f] = m] /\ conf = [configured EXCEPT ![f] = m]
      OBVIOUS
    <3>2. ChangeMetrics(new, conf)
      BY <2>3, <3>1 DEF SetMetric
    <3>3. \A g \in Faces : metric[g] \in {configured[g], Uint16(configured[g])}
      BY <3>2, IdleBorrowsNothing DEF ChangeMetrics, Idle, Left
    <3>4. ASSUME NEW g \in Faces PROVE new[g] \in {conf[g], Uint16(conf[g])}
      BY <3>1, <3>3 DEF MetricsOk
    <3> QED
      BY <1>10, <3>2, <3>4
  <2>4. ASSUME NEW delay \in [DOMAIN channels -> LinkDelays], SetLinkDelayAsFaceMetric(delay)
        PROVE  BorrowInv'
    <3>1. PICK new : new = [f \in Faces |-> delay[f[1]] \div 1000]
      OBVIOUS
    <3>2. ChangeMetrics(new, new)
      BY <2>4, <3>1 DEF SetLinkDelayAsFaceMetric
    <3> QED
      BY <1>10, <3>2
  <2> QED
    BY <1>11, <2>1, <2>2, <2>3, <2>4, <1>3, <1>4, <1>8, <1>9 DEF RoutingStep
<1> QED
  BY <1>1, <1>2, <1>11 DEF Routing

-----------------------------------------------------------------------------
(* The recursion of Install. *)

AllRouters == {Node(n) : n \in Nodes} \cup {Channel(c) : c \in DOMAIN channels}
Frames == [at : AllRouters, todo : SUBSET Faces]

\* The edge that AddIncidency makes for device f of router r.
Edge(r, f) == <<IF r[1] = "node" THEN f ELSE NoFace, Target(r, f)>>
Edges(r, fs) == {Edge(r, f) : f \in fs}

NetworkOk == channels \in Seq(Seq(Nat))
GraphType ==
  /\ routers \subseteq AllRouters
  /\ frames \in Seq(Frames)
  /\ DOMAIN incidencies = AllRouters

\* Each router is scanned by one call, which began when it was aggregated.
OneCallEach ==
  /\ \A i, j \in DOMAIN frames : frames[i].at = frames[j].at => i = j
  /\ \A i \in DOMAIN frames : frames[i].at \in routers /\ frames[i].todo \subseteq DevicesAt(frames[i].at)
Fresh == \A r \in AllRouters \ routers : incidencies[r] = {}

\* What has been scanned so far has its edges.
Scanning ==
  \A i \in DOMAIN frames : \A r \in AllRouters, fs \in SUBSET Faces :
    frames[i].at = r /\ frames[i].todo = fs => incidencies[r] = Edges(r, DevicesAt(r) \ fs)
Scanned ==
  \A r \in routers : (\A i \in DOMAIN frames : frames[i].at # r) =>
    incidencies[r] = Edges(r, DevicesAt(r))
EdgesLead == \A r \in AllRouters : \A e \in incidencies[r] : e[2] \in routers

GraphInv ==
  /\ NetworkOk
  /\ IF channels = <<>> THEN routers = {} /\ frames = <<>>
     ELSE GraphType /\ OneCallEach /\ Fresh /\ Scanning /\ Scanned /\ EdgesLead

\* A face is a device of a channel, on a node.
LEMMA FaceType ==
  ASSUME NetworkOk, NEW f \in Faces
  PROVE  /\ f[1] \in DOMAIN channels /\ f[1] \in Nat
         /\ f[2] \in DOMAIN channels[f[1]] /\ f[2] \in Nat
         /\ f = <<f[1], f[2]>>
         /\ NodeOf(f) \in Nodes
<1>1. PICK c \in DOMAIN channels : \E i \in DOMAIN channels[c] : f = <<c, i>>
  BY DEF Faces
<1>0. PICK i \in DOMAIN channels[c] : f = <<c, i>>
  BY <1>1
<1>2. c \in Nat /\ channels[c] \in Seq(Nat)
  BY DEF NetworkOk
<1>3. i \in Nat
  BY <1>2
<1>4. NodeOf(f) \in Nodes
  BY DEF Nodes
<1> QED
  BY <1>0, <1>2, <1>3, <1>4

\* First is one of the faces it is given.
LEMMA FirstIsMember ==
  ASSUME NetworkOk, NEW fs \in SUBSET Faces, fs # {}
  PROVE  First(fs) \in fs
<1> DEFINE T == {f[1] : f \in fs}
<1>1. T \subseteq Nat /\ T # {}
  BY FaceType
<1>2. \E x \in T : \A y \in T : ~(<<y, x>> \in OpToRel(<, Nat))
  <2> HIDE DEF T
  <2> QED
    BY <1>1, WFMin, NatLessThanWellFounded
<1>3. PICK x \in T : \A y \in T : ~(y < x)
  BY <1>1, <1>2 DEF OpToRel
<1>4. PICK f \in fs : f[1] = x
  OBVIOUS
<1>5. \A y \in T : x <= y
  <2> HIDE DEF T
  <2> QED
    BY <1>1, <1>3
<1>6. \A g \in fs : f[1] <= g[1]
  BY <1>4, <1>5
<1> QED
  BY <1>6 DEF First

\* The device at the other end of a point to point channel.
LEMMA OtherEnd ==
  ASSUME NetworkOk, NEW f \in Faces, IsP2p(f[1])
  PROVE  \E g \in Faces : OtherSides(f) = {g}
<1> DEFINE g == <<f[1], 3 - f[2]>>
<1>1. f[1] \in DOMAIN channels /\ f = <<f[1], f[2]>> /\ f[2] \in 1 .. 2
      /\ DOMAIN channels[f[1]] = 1 .. 2
  BY FaceType DEF IsP2p, NetworkOk
<1>2. g \in Faces /\ g # f
  BY <1>1 DEF Faces
<1>3. ASSUME NEW h \in Faces, h[1] = f[1], h # f
      PROVE  h = g
  <2>1. h = <<h[1], h[2]>> /\ h[2] \in 1 .. 2
    BY <1>1, <1>3, FaceType
  <2> QED
    BY <1>1, <1>3, <2>1
<1> QED
  BY <1>2, <1>3 DEF OtherSides

\* What a device leads to is a router of the graph.
LEMMA TargetType ==
  ASSUME NetworkOk, NEW r \in AllRouters, NEW f \in DevicesAt(r)
  PROVE  f \in Faces /\ Target(r, f) \in AllRouters
<1>1. f \in Faces
  BY DEF DevicesAt, FacesOf
<1>2. f[1] \in DOMAIN channels /\ NodeOf(f) \in Nodes
  BY <1>1, FaceType
<1>3. CASE r[1] = "node" /\ IsP2p(f[1])
  <2>1. (CHOOSE g \in OtherSides(f) : TRUE) \in Faces
    BY <1>1, <1>3, OtherEnd
  <2>2. NodeOf(CHOOSE g \in OtherSides(f) : TRUE) \in Nodes
    BY <2>1, FaceType
  <2> QED
    BY <1>1, <1>3, <2>2 DEF Target, OtherSide, AllRouters
<1>4. CASE r[1] = "node" /\ ~IsP2p(f[1])
  BY <1>1, <1>2, <1>4 DEF Target, OtherSide, AllRouters
<1>5. CASE r[1] # "node"
  BY <1>1, <1>2, <1>5 DEF Target, AllRouters
<1> QED
  BY <1>3, <1>4, <1>5

\* Steps that leave the network leave what depends on it.
LEMMA SameNetwork ==
  ASSUME channels' = channels
  PROVE  /\ Faces' = Faces /\ AllRouters' = AllRouters /\ Frames' = Frames
         /\ \A r : DevicesAt(r)' = DevicesAt(r)
         /\ \A r, fs : Edges(r, fs)' = Edges(r, fs)
<1>1. Faces' = Faces
  BY DEF Faces
<1>2. \A f : NodeOf(f)' = NodeOf(f)
  BY DEF NodeOf
<1>3. Nodes' = Nodes /\ \A n : FacesOf(n)' = FacesOf(n)
  BY <1>1, <1>2 DEF Nodes, FacesOf
<1>4. AllRouters' = AllRouters
  BY <1>3 DEF AllRouters
<1>5. \A r : DevicesAt(r)' = DevicesAt(r)
  BY <1>1, <1>3 DEF DevicesAt
<1>6. \A f : OtherSides(f)' = OtherSides(f)
  BY <1>1 DEF OtherSides
<1>7. ASSUME NEW f
      PROVE  OtherSide(f)' = OtherSide(f)
  <2>1. (CHOOSE g \in OtherSides(f) : TRUE)' = (CHOOSE g \in OtherSides(f) : TRUE)
    BY <1>6
  <2>2. NodeOf(CHOOSE g \in OtherSides(f) : TRUE)' = NodeOf(CHOOSE g \in OtherSides(f) : TRUE)
    BY <1>2, <2>1
  <2>3. IsP2p(f[1])' = IsP2p(f[1])
    BY DEF IsP2p
  <2> QED
    BY <2>2, <2>3 DEF OtherSide, Node, Channel
<1>8. \A r, f : Edge(r, f)' = Edge(r, f)
  BY <1>2, <1>7 DEF Edge, Target
<1> QED
  BY <1>1, <1>4, <1>5, <1>8 DEF Edges, Frames

\* What Call puts in front of the frames.
LEMMA Pushed ==
  ASSUME NEW S, NEW x \in S, NEW s \in Seq(S)
  PROVE  /\ <<x>> \o s \in Seq(S)
         /\ DOMAIN (<<x>> \o s) = 1 .. Len(s) + 1
         /\ (<<x>> \o s)[1] = x
         /\ \A i \in 2 .. Len(s) + 1 : i - 1 \in DOMAIN s /\ (<<x>> \o s)[i] = s[i - 1]
  OBVIOUS

\* GraphInv holds at first.
LEMMA GraphInit == RoutingInit => GraphInv
  BY DEF RoutingInit, GraphInv, NetworkOk

\* Steps that are not those of Build and Install.
LEMMA GraphUndisturbed ==
  ASSUME GraphInv, UNCHANGED graphVars
  PROVE  GraphInv'
<1>1. CASE channels = <<>>
  BY <1>1 DEF GraphInv, graphVars, NetworkOk
<1>2. CASE channels # <<>>
  <2>1. /\ channels' = channels /\ routers' = routers
        /\ incidencies' = incidencies /\ frames' = frames
    BY DEF graphVars
  <2>2. GraphType' /\ OneCallEach' /\ Fresh' /\ EdgesLead'
    BY <1>2, <2>1, SameNetwork DEF GraphInv, GraphType, OneCallEach, Fresh, EdgesLead
  <2>3. Scanning'
    BY <1>2, <2>1, SameNetwork DEF GraphInv, Scanning
  <2>4. Scanned'
    BY <1>2, <2>1, SameNetwork DEF GraphInv, Scanned
  <2> QED
    BY <1>2, <2>1, <2>2, <2>3, <2>4 DEF GraphInv, NetworkOk
<1> QED
  BY <1>1, <1>2

\* A call of Install for a router keeps GraphInv.
LEMMA CallKeepsGraph ==
  ASSUME GraphInv, channels # <<>>, UNCHANGED <<channels, incidencies>>,
         NEW r \in AllRouters \ routers, Call(r)
  PROVE  GraphInv'
<1> DEFINE new == [at |-> r, todo |-> DevicesAt(r)]
<1>1. /\ NetworkOk /\ GraphType /\ OneCallEach /\ Fresh /\ Scanning /\ Scanned /\ EdgesLead
      /\ routers' = routers \cup {r}
      /\ frames' = <<new>> \o frames
  BY DEF GraphInv, Call
<1>2. new \in Frames
  BY DEF Frames, DevicesAt, FacesOf
<1>3. /\ frames' \in Seq(Frames)
      /\ DOMAIN frames' = 1 .. Len(frames) + 1
      /\ frames'[1] = new
      /\ \A i \in 2 .. Len(frames) + 1 : i - 1 \in DOMAIN frames /\ frames'[i] = frames[i - 1]
  BY <1>1, <1>2, Pushed DEF GraphType
<1>4. /\ \A i \in DOMAIN frames : /\ i \in 1 .. Len(frames)
                                  /\ i + 1 \in DOMAIN frames' /\ frames'[i + 1] = frames[i]
      /\ 1 \in DOMAIN frames'
  BY <1>1, <1>3 DEF GraphType
<1>5. \A i \in DOMAIN frames' : i # 1 => i \in 2 .. Len(frames) + 1
  BY <1>1, <1>3 DEF GraphType
<1>6. frames'[1].at = r /\ frames'[1].todo = DevicesAt(r)
  BY <1>3
<1> HIDE DEF new
<1>7. GraphType'
  BY <1>1, <1>3, SameNetwork DEF GraphType
<1>8. OneCallEach'
  <2>1. ASSUME NEW i \in DOMAIN frames', NEW j \in DOMAIN frames', frames'[i].at = frames'[j].at
        PROVE  i = j
    <3>1. CASE i = 1 /\ j # 1
      BY <1>1, <1>3, <1>5, <1>6, <2>1, <3>1 DEF OneCallEach
    <3>2. CASE i # 1 /\ j = 1
      BY <1>1, <1>3, <1>5, <1>6, <2>1, <3>2 DEF OneCallEach
    <3>3. CASE i # 1 /\ j # 1
      <4>1. i - 1 = j - 1
        BY <1>1, <1>3, <1>5, <2>1, <3>3 DEF OneCallEach
      <4> QED
        BY <4>1, <1>5, <3>3
    <3> QED
      BY <3>1, <3>2, <3>3
  <2>2. ASSUME NEW i \in DOMAIN frames'
        PROVE  frames'[i].at \in routers' /\ frames'[i].todo \subseteq DevicesAt(frames'[i].at)
    BY <1>1, <1>3, <1>5, <1>6 DEF OneCallEach
  <2> QED
    BY <2>1, <2>2, SameNetwork DEF OneCallEach
<1>9. Fresh' /\ EdgesLead'
  BY <1>1, SameNetwork DEF Fresh, EdgesLead
<1>10. Scanning'
  <2>1. ASSUME NEW i \in DOMAIN frames', NEW q \in AllRouters, NEW fs \in SUBSET Faces,
               frames'[i].at = q, frames'[i].todo = fs
        PROVE  incidencies[q] = Edges(q, DevicesAt(q) \ fs)
    <3>1. CASE i = 1
      <4>1. incidencies[r] = {}
        BY <1>1 DEF Fresh
      <4>2. Edges(r, DevicesAt(r) \ DevicesAt(r)) = {}
        BY DEF Edges
      <4> QED
        BY <1>6, <2>1, <3>1, <4>1, <4>2
    <3>2. CASE i # 1
      BY <1>1, <1>3, <1>5, <2>1, <3>2 DEF Scanning
    <3> QED
      BY <3>1, <3>2
  <2> QED
    BY <2>1, SameNetwork DEF Scanning
<1>11. Scanned'
  <2>1. ASSUME NEW q \in routers', \A i \in DOMAIN frames' : frames'[i].at # q
        PROVE  incidencies[q] = Edges(q, DevicesAt(q))
    <3>1. q \in routers
      BY <1>1, <1>4, <1>6, <2>1
    <3>2. \A i \in DOMAIN frames : frames[i].at # q
      BY <1>4, <2>1
    <3> QED
      BY <1>1, <3>1, <3>2 DEF Scanned
  <2> QED
    BY <2>1, SameNetwork DEF Scanned
<1> QED
  BY <1>1, <1>7, <1>8, <1>9, <1>10, <1>11 DEF GraphInv, NetworkOk

\* The device that a running call looks at.
LEMMA NextDeviceType ==
  ASSUME GraphInv, frames # <<>>, frames[1].todo # {}
  PROVE  /\ channels # <<>> /\ NetworkOk
         /\ 1 \in DOMAIN frames /\ Caller = frames[1].at
         /\ Caller \in routers /\ Caller \in AllRouters
         /\ NextDevice \in frames[1].todo /\ NextDevice \in DevicesAt(Caller)
         /\ Callee = Target(Caller, NextDevice) /\ Callee \in AllRouters
<1>1. channels # <<>> /\ NetworkOk /\ GraphType /\ OneCallEach
  BY DEF GraphInv
<1>2. 1 \in DOMAIN frames
  BY <1>1 DEF GraphType
<1>3. Caller = frames[1].at /\ Caller \in routers /\ Caller \in AllRouters
  BY <1>1, <1>2 DEF Caller, OneCallEach, GraphType
<1>4. frames[1].todo \subseteq DevicesAt(Caller)
  BY <1>1, <1>2, <1>3 DEF OneCallEach
<1>5. frames[1].todo \in SUBSET Faces
  BY <1>4 DEF DevicesAt, FacesOf
<1>6. NextDevice \in frames[1].todo
  BY <1>1, <1>5, FirstIsMember DEF NextDevice
<1> QED
  BY <1>1, <1>2, <1>3, <1>4, <1>6, TargetType DEF Callee

\* So does an incidency that is added.
LEMMA AddIncidencyKeepsGraph ==
  ASSUME GraphInv, AddIncidency
  PROVE  GraphInv'
<1>1. /\ frames # <<>> /\ frames[1].todo # {} /\ Callee \in routers
      /\ channels' = channels /\ routers' = routers
  BY DEF AddIncidency
<1> DEFINE c == Caller
           d == NextDevice
<1>2. /\ channels # <<>> /\ NetworkOk
      /\ 1 \in DOMAIN frames /\ c = frames[1].at
      /\ c \in routers /\ c \in AllRouters
      /\ d \in frames[1].todo /\ d \in DevicesAt(c)
      /\ Callee = Target(c, d)
  BY <1>1, NextDeviceType
<1>3. GraphType /\ OneCallEach /\ Fresh /\ Scanning /\ Scanned /\ EdgesLead
  BY <1>2 DEF GraphInv
<1>4. incidencies' = [incidencies EXCEPT ![c] = @ \cup {Edge(c, d)}]
  BY <1>2 DEF AddIncidency, Edge
<1>5. frames' = [frames EXCEPT ![1].todo = @ \ {d}]
  BY DEF AddIncidency
<1> HIDE DEF c, d
<1>6. /\ DOMAIN frames' = DOMAIN frames
      /\ \A i \in DOMAIN frames : frames'[i].at = frames[i].at
      /\ \A i \in DOMAIN frames : i # 1 => frames'[i] = frames[i]
      /\ frames'[1].todo = frames[1].todo \ {d}
      /\ frames' \in Seq(Frames)
  <2>1. frames[1] \in Frames /\ frames \in Seq(Frames)
    BY <1>2, <1>3 DEF GraphType
  <2>2. [frames[1] EXCEPT !.todo = @ \ {d}] \in Frames
    BY <2>1 DEF Frames
  <2>3. frames' = [frames EXCEPT ![1] = [frames[1] EXCEPT !.todo = @ \ {d}]]
    BY <1>5
  <2>4. frames' \in Seq(Frames) /\ DOMAIN frames' = DOMAIN frames
    BY <1>2, <2>1, <2>2, <2>3
  <2>5. frames'[1].at = frames[1].at /\ frames'[1].todo = frames[1].todo \ {d}
    BY <1>2, <2>1, <2>3 DEF Frames
  <2> QED
    BY <2>1, <2>3, <2>4, <2>5
<1>7. /\ DOMAIN incidencies' = AllRouters
      /\ incidencies'[c] = incidencies[c] \cup {Edge(c, d)}
      /\ \A r \in AllRouters : r # c => incidencies'[r] = incidencies[r]
  BY <1>2, <1>3, <1>4 DEF GraphType
<1>8. GraphType' /\ Fresh'
  BY <1>1, <1>2, <1>3, <1>6, <1>7, SameNetwork DEF GraphType, Fresh
<1>9. OneCallEach'
  <2>1. \A i \in DOMAIN frames : frames'[i].todo \subseteq frames[i].todo
    BY <1>6
  <2> QED
    BY <1>1, <1>3, <1>6, <2>1, SameNetwork DEF OneCallEach
<1>10. EdgesLead'
  <2>1. Edge(c, d)[2] \in routers
    BY <1>1, <1>2 DEF Edge
  <2> QED
    BY <1>1, <1>2, <1>3, <1>7, <2>1, SameNetwork DEF EdgesLead
<1>11. Scanning'
  <2>1. ASSUME NEW i \in DOMAIN frames, NEW q \in AllRouters, NEW fs \in SUBSET Faces,
               frames'[i].at = q, frames'[i].todo = fs
        PROVE  incidencies'[q] = Edges(q, DevicesAt(q) \ fs)
    <3>1. CASE i = 1
      <4>1. incidencies[c] = Edges(c, DevicesAt(c) \ frames[1].todo)
        <5>1. frames[1] \in Frames
          BY <1>2, <1>3 DEF GraphType
        <5>2. frames[1].todo \in SUBSET Faces
          BY <5>1 DEF Frames
        <5> QED
          BY <1>2, <1>3, <5>2 DEF Scanning
      <4>2. DevicesAt(c) \ frames'[1].todo = (DevicesAt(c) \ frames[1].todo) \cup {d}
        BY <1>2, <1>6
      <4>3. \A ds : Edges(c, ds \cup {d}) = Edges(c, ds) \cup {Edge(c, d)}
        BY DEF Edges
      <4>4. q = c /\ fs = frames'[1].todo
        BY <1>2, <1>6, <2>1, <3>1
      <4> QED
        BY <1>7, <4>1, <4>2, <4>3, <4>4
    <3>2. CASE i # 1
      <4>1. frames[i].at = q /\ frames[i].todo = fs /\ q # c
        BY <1>2, <1>3, <1>6, <2>1, <3>2 DEF OneCallEach
      <4> QED
        BY <1>3, <1>7, <4>1 DEF Scanning
    <3> QED
      BY <3>1, <3>2
  <2> QED
    BY <1>1, <1>6, <2>1, SameNetwork DEF Scanning
<1>12. Scanned'
  <2>1. ASSUME NEW q \in routers, \A i \in DOMAIN frames : frames'[i].at # q
        PROVE  incidencies'[q] = Edges(q, DevicesAt(q))
    <3>1. q # c /\ q \in AllRouters
      BY <1>2, <1>3, <1>6, <2>1 DEF GraphType
    <3> QED
      BY <1>3, <1>6, <1>7, <2>1, <3>1 DEF Scanned
  <2> QED
    BY <1>1, <1>6, <2>1, SameNetwork DEF Scanned
<1> QED
  BY <1>1, <1>2, <1>8, <1>9, <1>10, <1>11, <1>12 DEF GraphInv, NetworkOk

\* So does the return from a call.
LEMMA ReturnKeepsGraph ==
  ASSUME GraphInv, Return
  PROVE  GraphInv'
<1>1. /\ frames # <<>> /\ frames[1].todo = {} /\ frames' = Tail(frames)
      /\ channels' = channels /\ routers' = routers /\ incidencies' = incidencies
  BY DEF Return
<1>2. /\ channels # <<>> /\ NetworkOk
      /\ GraphType /\ OneCallEach /\ Fresh /\ Scanning /\ Scanned /\ EdgesLead
  BY <1>1 DEF GraphInv
<1>3. /\ frames' \in Seq(Frames)
      /\ 1 \in DOMAIN frames
      /\ \A i \in DOMAIN frames' : i + 1 \in DOMAIN frames /\ frames'[i] = frames[i + 1]
      /\ \A i \in DOMAIN frames : i # 1 => i - 1 \in DOMAIN frames' /\ frames[i] = frames'[i - 1]
  BY <1>1, <1>2 DEF GraphType
<1>4. GraphType' /\ Fresh' /\ EdgesLead'
  BY <1>1, <1>2, <1>3, SameNetwork DEF GraphType, Fresh, EdgesLead
<1>5. OneCallEach'
  <2>1. ASSUME NEW i \in DOMAIN frames', NEW j \in DOMAIN frames', frames'[i].at = frames'[j].at
        PROVE  i = j
    <3>1. i + 1 = j + 1
      BY <1>2, <1>3, <2>1 DEF OneCallEach
    <3> QED
      BY <1>3, <3>1
  <2> QED
    BY <1>1, <1>2, <1>3, <2>1, SameNetwork DEF OneCallEach
<1>6. Scanning'
  BY <1>1, <1>2, <1>3, SameNetwork DEF Scanning
<1>7. Scanned'
  <2>1. ASSUME NEW q \in routers, \A i \in DOMAIN frames' : frames'[i].at # q
        PROVE  incidencies[q] = Edges(q, DevicesAt(q))
    <3>1. CASE q = frames[1].at
      <4>1. q \in AllRouters
        BY <1>2 DEF GraphType
      <4>2. incidencies[q] = Edges(q, DevicesAt(q) \ {})
        BY <1>1, <1>2, <1>3, <3>1, <4>1 DEF Scanning
      <4>3. DevicesAt(q) \ {} = DevicesAt(q)
        OBVIOUS
      <4> QED
        BY <4>2, <4>3
    <3>2. CASE q # frames[1].at
      BY <1>2, <1>3, <2>1, <3>2 DEF Scanned
    <3> QED
      BY <3>1, <3>2
  <2> QED
    BY <1>1, <2>1, SameNetwork DEF Scanned
<1> QED
  BY <1>1, <1>2, <1>4, <1>5, <1>6, <1>7 DEF GraphInv, NetworkOk

\* A network that is built has no graph yet.
LEMMA BuildKeepsGraph ==
  ASSUME GraphInv, Built
  PROVE  GraphInv'
<1>1. NetworkOk'
  BY DEF Built, NetworkOk
<1>2. routers' = {} /\ frames' = <<>>
  BY DEF GraphInv, Built, Build, graphVars
<1>3. incidencies' = [r \in AllRouters' |-> {}]
  BY DEF Built, Build, AllRouters
<1>4. GraphType'
  BY <1>2, <1>3 DEF GraphType
<1>5. OneCallEach' /\ Fresh' /\ Scanning' /\ Scanned' /\ EdgesLead'
  BY <1>2, <1>3 DEF OneCallEach, Fresh, Scanning, Scanned, EdgesLead
<1> QED
  BY <1>1, <1>2, <1>4, <1>5 DEF GraphInv

\* GraphInv is inductive.
LEMMA GraphStep == GraphInv /\ Routing => GraphInv'
<1> SUFFICES ASSUME GraphInv, Routing
             PROVE  GraphInv'
  OBVIOUS
<1>1. CASE UNCHANGED <<graphVars, metric, configured, calcVars>>
  BY <1>1, GraphUndisturbed
<1>2. CASE Built
  BY <1>2, BuildKeepsGraph
<1>3. ASSUME NEW n \in Nodes, Install(n)
      PROVE  GraphInv'
  <2>1. Node(n) \in AllRouters \ routers /\ channels # <<>>
    BY <1>3 DEF Install, Idle, AllRouters
  <2>2. Call(Node(n)) /\ UNCHANGED <<channels, incidencies>>
    BY <1>3 DEF Install
  <2> QED
    BY <2>1, <2>2, CallKeepsGraph
<1>4. CASE InstallOther
  <2>1. /\ frames # <<>> /\ frames[1].todo # {} /\ Callee \notin routers
        /\ Call(Callee) /\ UNCHANGED <<channels, incidencies>>
    BY <1>4 DEF InstallOther
  <2> QED
    BY <2>1, NextDeviceType, CallKeepsGraph
<1>5. CASE AddIncidency \/ Return
  BY <1>5, AddIncidencyKeepsGraph, ReturnKeepsGraph
<1>6. ASSUME \/ \E p \in Names, n \in Nodes : AddOrigin(p, n)
             \/ CalculateRoutes \/ CalculateAllPossibleRoutes
             \/ \E n \in sources : RoutesOf(n) \/ DisableFaces(n)
             \/ \E f \in todo : RoutesVia(f)
             \/ RecoverMetrics \/ Finish
             \/ \E f \in Faces, m \in Metrics : SetMetric(f, m)
             \/ \E delay \in [DOMAIN channels -> LinkDelays] : SetLinkDelayAsFaceMetric(delay)
      PROVE  GraphInv'
  <2> SUFFICES UNCHANGED graphVars
    BY GraphUndisturbed
  <2> QED
    BY <1>6 DEF AddOrigin, CalculateRoutes, CalculateAllPossibleRoutes, Start, RoutesOf, DisableFaces,
                RoutesVia, RecoverMetrics, Finish, SetMetric, SetLinkDelayAsFaceMetric, ChangeMetrics
<1>7. ASSUME sources # {}, RoutesOf(Min(sources)) \/ DisableFaces(Min(sources))
      PROVE  \E n \in sources : RoutesOf(n) \/ DisableFaces(n)
  <2>1. PICK n : n = Min(sources) /\ (RoutesOf(n) \/ DisableFaces(n))
    BY <1>7
  <2> QED
    BY <2>1 DEF RoutesOf, DisableFaces
<1>8. ASSUME todo # {}, RoutesVia(First(todo))
      PROVE  \E f \in todo : RoutesVia(f)
  <2>1. PICK f : f = First(todo) /\ RoutesVia(f)
    BY <1>8
  <2> QED
    BY <2>1 DEF RoutesVia
<1>9. ASSUME RoutingStep
      PROVE  GraphInv'
  BY <1>9, <1>3, <1>4, <1>5, <1>6, <1>7, <1>8 DEF RoutingStep
<1> QED
  BY <1>1, <1>2, <1>9 DEF Routing

\* When Install has returned, its recursion through nodes and channels, in whatever
\* network, has left the graph of that network: an edge per face, and no neighbour of a
\* router without one.
THEOREM InstallMirrorsNetwork == Spec => []GraphMirrorsNetwork
<1>1. GraphInv => GraphMirrorsNetwork
  <2> SUFFICES ASSUME GraphInv, frames = <<>>
               PROVE  /\ \A n \in Sources :
                           incidencies[Node(n)] = {<<f, OtherSide(f)>> : f \in FacesOf(n)}
                      /\ \A c \in {x \in DOMAIN channels : Channel(x) \in routers} :
                           incidencies[Channel(c)]
                             = {<<NoFace, Node(channels[c][i])>> : i \in DOMAIN channels[c]}
                      /\ \A n \in Sources : \A f \in FacesOf(n) : \A g \in OtherSides(f) :
                           NodeOf(g) \in Sources
    BY DEF GraphMirrorsNetwork
  <2>1. CASE channels = <<>>
    BY <2>1 DEF GraphInv, Sources
  <2>2. CASE channels # <<>>
    <3>1. NetworkOk /\ GraphType /\ Scanned /\ EdgesLead
      BY <2>2 DEF GraphInv
    <3>2. \A r \in routers : incidencies[r] = Edges(r, DevicesAt(r))
      BY <3>1 DEF Scanned
    <3>3. ASSUME NEW n \in Sources
          PROVE  incidencies[Node(n)] = {<<f, OtherSide(f)>> : f \in FacesOf(n)}
      <4>1. Node(n) \in routers /\ DevicesAt(Node(n)) = FacesOf(n)
        BY DEF Sources, Node, DevicesAt
      <4>2. \A f : Edge(Node(n), f) = <<f, OtherSide(f)>>
        BY DEF Edge, Target, Node
      <4> QED
        BY <3>2, <4>1, <4>2 DEF Edges
    <3>4. ASSUME NEW c \in DOMAIN channels, Channel(c) \in routers
          PROVE  incidencies[Channel(c)]
                   = {<<NoFace, Node(channels[c][i])>> : i \in DOMAIN channels[c]}
      <4>1. DevicesAt(Channel(c)) = {f \in Faces : f[1] = c}
        BY DEF DevicesAt, Channel
      <4>2. \A f : Edge(Channel(c), f) = <<NoFace, Node(channels[f[1]][f[2]])>>
        BY DEF Edge, Target, Channel, NodeOf
      <4>3. {f \in Faces : f[1] = c} = {<<c, i>> : i \in DOMAIN channels[c]}
        BY DEF Faces
      <4>4. incidencies[Channel(c)] = {Edge(Channel(c), f) : f \in {x \in Faces : x[1] = c}}
        BY <3>2, <3>4, <4>1 DEF Edges
      <4>5. \A i \in DOMAIN channels[c] : Edge(Channel(c), <<c, i>>) = <<NoFace, Node(channels[c][i])>>
        BY <4>2
      <4> HIDE DEF Edge
      <4>6. {Edge(Channel(c), f) : f \in {x \in Faces : x[1] = c}}
              = {Edge(Channel(c), <<c, i>>) : i \in DOMAIN channels[c]}
        BY <4>3
      <4> QED
        BY <4>4, <4>5, <4>6
    <3>5. ASSUME NEW n \in Sources, NEW f \in FacesOf(n), NEW g \in OtherSides(f)
          PROVE  NodeOf(g) \in Sources
      <4>1. f \in Faces /\ g \in Faces /\ g[1] = f[1] /\ g # f /\ f[1] \in DOMAIN channels
        BY <3>1, FaceType DEF FacesOf, OtherSides
      <4>2. <<f, OtherSide(f)>> \in incidencies[Node(n)] /\ Node(n) \in AllRouters
        BY <3>1, <3>3 DEF Sources, GraphType
      <4>3. OtherSide(f) \in routers
        BY <3>1, <4>2 DEF EdgesLead
      <4>4. CASE IsP2p(f[1])
        BY <3>1, <4>1, <4>3, <4>4, OtherEnd, FaceType DEF OtherSide, Sources
      <4>5. CASE ~IsP2p(f[1])
        <5>1. Channel(f[1]) \in routers
          BY <4>3, <4>5 DEF OtherSide
        <5>2. g = <<f[1], g[2]>> /\ g[2] \in DOMAIN channels[f[1]] /\ NodeOf(g) = channels[f[1]][g[2]]
          BY <3>1, <4>1, FaceType DEF NodeOf
        <5>3. <<NoFace, Node(NodeOf(g))>> \in incidencies[Channel(f[1])]
          BY <3>4, <4>1, <5>1, <5>2
        <5>4. Node(NodeOf(g)) \in routers
          BY <3>1, <5>1, <5>3 DEF EdgesLead, GraphType
        <5> QED
          BY <3>1, <4>1, <5>4, FaceType DEF Sources
      <4> QED
        BY <4>4, <4>5
    <3> QED
      BY <3>3, <3>4, <3>5
  <2> QED
    BY <2>1, <2>2
<1> QED
  BY FileInit, FileStep, GraphInit, GraphStep, RoutingOfNext, RoutingOfInit, <1>1, PTL DEF Spec

-----------------------------------------------------------------------------
(* ScenarioHelper, FibHelper and LinkControlHelper. *)

\* The device of a link is on its node and leads to the other one.
LeadsTo(f, m) == \E g \in OtherSides(f) : NodeOf(g) = m
LinksLead == \A x \in DOMAIN links : links[x] \in FacesOf(x[1]) /\ LeadsTo(links[x], x[2])

FibType == fib \in [Faces -> [Names -> Nat]]

\* Nothing was made or set by the helpers.
Unhelped == asked = {} /\ DOMAIN failed = {} /\ DOMAIN ReceiveErrorModel = {} /\ DOMAIN links = {}

Helped ==
  /\ channels \in Seq(TwoEnded)
  /\ FibType
  /\ DOMAIN ReceiveErrorModel = Faces
  /\ LinkControlled
  /\ LinksLead
  /\ asked \subseteq Names \X Nodes \X Nodes
  /\ RoutesLeadThere

HelperInv ==
  /\ reader = "helper" => phase = "read"
  /\ IF reader = "helper" /\ channels # <<>> THEN Helped ELSE Unhelped

\* Commands that change nothing of the network leave its nodes.
LEMMA SameNodes ==
  ASSUME channels' = channels
  PROVE  /\ Faces' = Faces /\ Nodes' = Nodes
         /\ \A f : NodeOf(f)' = NodeOf(f)
         /\ \A n : FacesOf(n)' = FacesOf(n)
         /\ \A f : OtherSides(f)' = OtherSides(f)
         /\ \A f, m : LeadsTo(f, m)' = LeadsTo(f, m)
<1>1. Faces' = Faces
  BY DEF Faces
<1>2. \A f : NodeOf(f)' = NodeOf(f)
  BY DEF NodeOf
<1>3. Nodes' = Nodes /\ \A n : FacesOf(n)' = FacesOf(n)
  BY <1>1, <1>2 DEF Nodes, FacesOf
<1>4. \A f : OtherSides(f)' = OtherSides(f)
  BY <1>1 DEF OtherSides
<1>5. \A f, m : LeadsTo(f, m)' = LeadsTo(f, m)
  BY <1>2, <1>4 DEF LeadsTo
<1> QED
  BY <1>1, <1>2, <1>3, <1>4, <1>5

\* A face of a network of links and the one at the other end.
LEMMA TwoFaces ==
  ASSUME channels \in Seq(TwoEnded), NEW f \in Faces
  PROVE  /\ f[1] \in DOMAIN channels /\ f[1] \in Nat
         /\ \/ f = <<f[1], 1>> /\ OtherSides(f) = {<<f[1], 2>>}
            \/ f = <<f[1], 2>> /\ OtherSides(f) = {<<f[1], 1>>}
         /\ NodeOf(f) = channels[f[1]][f[2]]
         /\ Range(channels[f[1]]) = {channels[f[1]][1], channels[f[1]][2]}
         /\ <<f[1], 1>> \in Faces /\ <<f[1], 2>> \in Faces
<1>1. PICK c \in DOMAIN channels : \E i \in DOMAIN channels[c] : f = <<c, i>>
  BY DEF Faces
<1>2. channels[c] \in Seq(Nat) /\ Len(channels[c]) = 2 /\ c \in Nat
  BY DEF TwoEnded
<1>3. DOMAIN channels[c] = 1 .. 2
  BY <1>2
<1>4. PICK i \in 1 .. 2 : f = <<c, i>>
  BY <1>1, <1>3
<1>5. f[1] = c /\ f[2] = i
  BY <1>4
<1>6. <<c, 1>> \in Faces /\ <<c, 2>> \in Faces
  BY <1>3 DEF Faces
<1>7. \A g \in Faces : g[1] = c => g = <<c, 1>> \/ g = <<c, 2>>
  <2> SUFFICES ASSUME NEW g \in Faces, g[1] = c
               PROVE  g = <<c, 1>> \/ g = <<c, 2>>
    OBVIOUS
  <2>1. PICK d \in DOMAIN channels : \E j \in DOMAIN channels[d] : g = <<d, j>>
    BY DEF Faces
  <2>2. PICK j \in DOMAIN channels[d] : g = <<d, j>>
    BY <2>1
  <2>3. d = c /\ j \in 1 .. 2
    BY <1>3, <2>2
  <2> QED
    BY <2>2, <2>3
<1>8. OtherSides(f) = {g \in Faces : g[1] = c /\ g # f}
  BY <1>5 DEF OtherSides
<1>9. <<c, 1>> # <<c, 2>> /\ <<c, 1>>[1] = c /\ <<c, 2>>[1] = c
  OBVIOUS
<1>10. \/ f = <<c, 1>> /\ OtherSides(f) = {<<c, 2>>}
       \/ f = <<c, 2>> /\ OtherSides(f) = {<<c, 1>>}
  <2>1. CASE f = <<c, 1>>
    BY <1>6, <1>7, <1>8, <1>9, <2>1
  <2>2. CASE f = <<c, 2>>
    BY <1>6, <1>7, <1>8, <1>9, <2>2
  <2> QED
    BY <1>4, <2>1, <2>2
<1>11. Range(channels[c]) = {channels[c][1], channels[c][2]}
  BY <1>3 DEF Range
<1> QED
  BY <1>1, <1>2, <1>5, <1>6, <1>10, <1>11 DEF NodeOf

\* The faces of a node that lead to another, and the first of them.
LEMMA LeadingIs ==
  ASSUME channels \in Seq(TwoEnded), NEW n, NEW m
  PROVE  /\ Leading(n, m) = {f \in FacesOf(n) : LeadsTo(f, m)}
         /\ Leading(n, m) # {} =>
              /\ First(Leading(n, m)) \in Leading(n, m)
              /\ \A g \in Leading(n, m) : First(Leading(n, m))[1] <= g[1]
<1>1. ASSUME NEW f \in Faces
      PROVE  IsP2p(f[1]) /\ f[1] \in Nat
  <2>1. f[1] \in DOMAIN channels /\ f[1] \in Nat
    BY TwoFaces
  <2>2. channels[f[1]] \in TwoEnded
    BY <2>1
  <2> QED
    BY <2>1, <2>2 DEF IsP2p, TwoEnded
<1>2. Leading(n, m) = {f \in FacesOf(n) : LeadsTo(f, m)}
  BY <1>1 DEF Leading, LeadsTo, FacesOf
<1>3. ASSUME Leading(n, m) # {}
      PROVE  \E f \in Leading(n, m) : \A g \in Leading(n, m) : f[1] <= g[1]
  <2> DEFINE T == {f[1] : f \in Leading(n, m)}
  <2>1. T \subseteq Nat /\ T # {}
    BY <1>1, <1>2, <1>3 DEF FacesOf
  <2>2. PICK c \in T : \A d \in T : c <= d
    <3> HIDE DEF T
    <3> QED
      BY <2>1, LeastOf
  <2> QED
    BY <2>2
<1> QED
  BY <1>2, <1>3 DEF First

\* Both ends of a link lead to each other, and to nobody else.
LEMMA LeadingEnds ==
  ASSUME channels \in Seq(TwoEnded), NEW f \in Faces, NEW m
  PROVE  LeadsTo(f, m) => Range(channels[f[1]]) = {NodeOf(f), m}
<1> DEFINE c == f[1]
<1>0. /\ NodeOf(<<c, 1>>) = channels[c][1] /\ NodeOf(<<c, 2>>) = channels[c][2]
      /\ Range(channels[c]) = {channels[c][1], channels[c][2]}
  BY TwoFaces DEF NodeOf
<1>1. CASE f = <<c, 1>> /\ OtherSides(f) = {<<c, 2>>}
  <2>1. NodeOf(f) = channels[c][1] /\ (LeadsTo(f, m) => channels[c][2] = m)
    BY <1>0, <1>1 DEF LeadsTo
  <2> QED
    BY <1>0, <2>1
<1>2. CASE f = <<c, 2>> /\ OtherSides(f) = {<<c, 1>>}
  <2>1. NodeOf(f) = channels[c][2] /\ (LeadsTo(f, m) => channels[c][1] = m)
    BY <1>0, <1>2 DEF LeadsTo
  <2> QED
    BY <1>0, <2>1
<1> QED
  BY <1>1, <1>2, TwoFaces

\* A channel between n and m.
Joining(ch, n, m) == Range(ch) = {n, m}

\* The two ends of a channel.
LEMMA EndsAre ==
  ASSUME NEW ch \in TwoEnded, NEW n, NEW m, Joining(ch, n, m)
  PROVE  /\ DOMAIN ch = 1 .. 2
         /\ IF ch[1] = n THEN ch[2] = m ELSE ch[1] = m /\ ch[2] = n
<1>1. ch \in Seq(Nat) /\ Len(ch) = 2
  BY DEF TwoEnded
<1>2. DOMAIN ch = 1 .. 2
  BY <1>1
<1>3. {ch[1], ch[2]} = {n, m}
  BY <1>2 DEF Range, Joining
<1> QED
  BY <1>2, <1>3

\* A channel between two nodes has a face on each that leads to the other.
LEMMA EndsLead ==
  ASSUME channels \in Seq(TwoEnded), NEW c \in DOMAIN channels, NEW n, NEW m,
         Range(channels[c]) = {n, m}
  PROVE  LET i == IF channels[c][1] = n THEN 1 ELSE 2
         IN  <<c, i>> \in FacesOf(n) /\ LeadsTo(<<c, i>>, m)
<1>1. /\ DOMAIN channels[c] = 1 .. 2
      /\ IF channels[c][1] = n THEN channels[c][2] = m
         ELSE channels[c][1] = m /\ channels[c][2] = n
  <2>1. channels[c] \in TwoEnded /\ Joining(channels[c], n, m)
    BY DEF Joining
  <2> QED
    BY <2>1, EndsAre
<1>2. <<c, 1>> \in Faces /\ <<c, 2>> \in Faces
  BY <1>1 DEF Faces
<1>3. NodeOf(<<c, 1>>) = channels[c][1] /\ NodeOf(<<c, 2>>) = channels[c][2]
  BY DEF NodeOf
<1>4. <<c, 2>> \in OtherSides(<<c, 1>>) /\ <<c, 1>> \in OtherSides(<<c, 2>>)
  BY <1>2 DEF OtherSides
<1> QED
  BY <1>1, <1>2, <1>3, <1>4 DEF LeadsTo, FacesOf

\* ScenarioHelper::createTopology.
LEMMA TopologyKeepsHelp ==
  ASSUME HelperInv, reader = "helper", NEW cliques \in Cliques, CreateTopology(cliques),
         UNCHANGED readerVars
  PROVE  HelperInv'
<1> DEFINE made == FlattenSeq([i \in DOMAIN cliques |-> Pairs(cliques[i])])
           LastLink(x) == Max({c \in DOMAIN made : Range(made[c]) = {x[1], x[2]}})
           joined == {x \in Nodes' \X Nodes' : \E c \in DOMAIN made : Range(made[c]) = {x[1], x[2]}}
<1>1. /\ channels = <<>> /\ channels' = made
      /\ fib' = [f \in Faces' |-> [p \in Names |-> NoRoute]]
      /\ links' = [x \in joined |-> DeviceOn(LastLink(x), x[1])]
      /\ ReceiveErrorModel' = [f \in Faces' |-> None]
      /\ UNCHANGED <<failed, asked>>
  BY DEF CreateTopology, Build
<1>2. made \in Seq(TwoEnded)
  BY MadeType
<1> HIDE DEF made
<1>3. channels' \in Seq(TwoEnded) /\ asked' = {} /\ DOMAIN failed' = {}
  BY <1>1, <1>2 DEF HelperInv, Unhelped
<1>4. reader' = reader /\ phase' = phase /\ phase = "read"
  BY DEF readerVars, HelperInv
<1>5. LinksLead'
  <2> SUFFICES ASSUME NEW x, x \in joined
               PROVE  (links[x] \in FacesOf(x[1]) /\ LeadsTo(links[x], x[2]))'
    BY <1>1 DEF LinksLead
  <2> DEFINE cs == {c \in DOMAIN made : Range(made[c]) = {x[1], x[2]}}
  <2>1. cs # {} /\ cs \subseteq 1 .. Len(made) /\ Len(made) \in Nat
    BY <1>2
  <2>2. cs \subseteq Nat /\ IsFiniteSet(cs)
    <3>1. IsFiniteSet(1 .. Len(made)) /\ 1 .. Len(made) \subseteq Nat
      BY <2>1, FS_Interval
    <3> HIDE DEF cs
    <3>2. cs \subseteq Nat
      BY <2>1, <3>1
    <3>3. IsFiniteSet(cs)
      BY <2>1, <3>1, FS_Subset
    <3> QED
      BY <3>2, <3>3
  <2>3. LastLink(x) \in cs
    <3> HIDE DEF cs
    <3>1. Max(cs) \in cs
      BY <2>1, <2>2, MaxOf
    <3> QED
      BY <3>1 DEF cs
  <2>4. PICK c : c \in DOMAIN channels' /\ c = LastLink(x) /\ Range(channels'[c]) = {x[1], x[2]}
    BY <1>1, <2>3
  <2>5. links'[x] = <<c, IF channels'[c][1] = x[1] THEN 1 ELSE 2>>
    BY <1>1, <2>4 DEF DeviceOn
  <2>6. /\ DOMAIN channels'[c] = 1 .. 2
        /\ IF channels'[c][1] = x[1] THEN channels'[c][2] = x[2]
           ELSE channels'[c][1] = x[2] /\ channels'[c][2] = x[1]
    <3>1. channels'[c] \in TwoEnded /\ Joining(channels'[c], x[1], x[2])
      BY <1>3, <2>4 DEF Joining
    <3> QED
      BY <3>1, EndsAre
  <2>7. <<c, 1>> \in Faces' /\ <<c, 2>> \in Faces'
    <3>1. c \in DOMAIN channels' /\ 1 \in DOMAIN channels'[c] /\ 2 \in DOMAIN channels'[c]
      BY <2>4, <2>6
    <3> HIDE DEF joined, LastLink, cs
    <3>2. Faces' = UNION {{<<d, i>> : i \in DOMAIN channels'[d]} : d \in DOMAIN channels'}
      BY DEF Faces
    <3> QED
      BY <3>1, <3>2
  <2>8. NodeOf(<<c, 1>>)' = channels'[c][1] /\ NodeOf(<<c, 2>>)' = channels'[c][2]
    BY DEF NodeOf
  <2>9. <<c, 2>> \in OtherSides(<<c, 1>>)' /\ <<c, 1>> \in OtherSides(<<c, 2>>)'
    BY <2>7 DEF OtherSides
  <2>10. CASE channels'[c][1] = x[1]
    BY <2>5, <2>6, <2>7, <2>8, <2>9, <2>10 DEF LeadsTo, FacesOf
  <2>11. CASE channels'[c][1] # x[1]
    BY <2>5, <2>6, <2>7, <2>8, <2>9, <2>11 DEF LeadsTo, FacesOf
  <2> QED
    BY <2>10, <2>11
<1>6. LinkControlled'
  BY <1>1, <1>3 DEF LinkControlled
<1>7. FibType'
  BY <1>1 DEF FibType, NoRoute, WeightInf
<1>8. RoutesLeadThere' /\ asked' \subseteq Names \X Nodes' \X Nodes' /\ DOMAIN ReceiveErrorModel' = Faces'
  BY <1>1, <1>3 DEF RoutesLeadThere
<1>9. Helped'
  BY <1>3, <1>5, <1>6, <1>7, <1>8 DEF Helped
<1>10. channels' = <<>> => Unhelped'
  <2> SUFFICES ASSUME channels' = <<>> PROVE Unhelped'
    OBVIOUS
  <2>1. Faces' = {} /\ Nodes' = {}
    BY EmptyDomain DEF Faces, Nodes
  <2> QED
    BY <1>1, <1>3, <2>1 DEF Unhelped
<1> QED
  BY <1>4, <1>9, <1>10 DEF HelperInv

\* A next hop for a prefix is set or taken away.
LEMMA RouteSet ==
  ASSUME HelperInv, reader = "helper", Command, UNCHANGED readerVars,
         NEW f \in Faces, NEW p \in Names, NEW cost \in Nat, SetRoute(f, p, cost),
         asked' \subseteq Names \X Nodes \X Nodes,
         RoutesLeadThere'
  PROVE  HelperInv'
<1>1. Helped /\ channels # <<>> /\ UNCHANGED <<channels, links, ReceiveErrorModel, failed>>
  BY DEF HelperInv, Command, graphVars, SetRoute
<1>2. fib' = [fib EXCEPT ![f] = [fib[f] EXCEPT ![p] = cost]]
  BY DEF SetRoute
<1>3. fib[f] \in [Names -> Nat] /\ fib \in [Faces -> [Names -> Nat]]
  BY <1>1 DEF Helped, FibType
<1>4. fib' \in [Faces -> [Names -> Nat]]
  BY <1>2, <1>3
<1>5. LinkControlled' /\ LinksLead'
  BY <1>1, SameNodes DEF Helped, LinkControlled, LinksLead
<1>6. Helped'
  BY <1>1, <1>4, <1>5, SameNodes DEF Helped, FibType
<1> QED
  BY <1>1, <1>6 DEF HelperInv, readerVars

\* ScenarioHelper::addRoutes and FibHelper::AddRoute.
LEMMA RouteAdded ==
  ASSUME HelperInv, reader = "helper", Command, UNCHANGED readerVars,
         NEW p \in Names, NEW n \in Nodes, NEW m \in Nodes, NEW cost \in 1 .. 2,
         NEW f \in FacesOf(n), LeadsTo(f, m), SetRoute(f, p, cost),
         asked' = asked \cup {<<p, n, m>>}
  PROVE  HelperInv'
<1>1. Helped /\ UNCHANGED channels /\ f \in Faces
  BY DEF HelperInv, Command, graphVars, FacesOf
<1>2. fib' = [fib EXCEPT ![f] = [fib[f] EXCEPT ![p] = cost]]
  BY DEF SetRoute
<1>3. fib[f] \in [Names -> Nat] /\ fib \in [Faces -> [Names -> Nat]]
  BY <1>1 DEF Helped, FibType
<1>4. asked' \subseteq Names \X Nodes \X Nodes
  BY <1>1 DEF Helped
<1>5. ASSUME NEW x \in asked'
      PROVE  \E g \in FacesOf(x[2]) : fib'[g][x[1]] # NoRoute /\ LeadsTo(g, x[3])
  <2>1. CASE x = <<p, n, m>>
    <3>1. fib'[f][p] = cost /\ cost # NoRoute
      BY <1>1, <1>2, <1>3 DEF NoRoute, WeightInf
    <3> QED
      BY <2>1, <3>1
  <2>2. CASE x \in asked
    <3>1. PICK g \in FacesOf(x[2]) : fib[g][x[1]] # NoRoute /\ LeadsTo(g, x[3])
      BY <1>1, <2>2 DEF Helped, RoutesLeadThere, LeadsTo
    <3>2. g \in Faces /\ x[1] \in Names
      BY <1>1, <2>2 DEF FacesOf, Helped
    <3>3. fib'[g][x[1]] = fib[g][x[1]] \/ fib'[g][x[1]] = cost
      BY <1>1, <1>2, <1>3, <3>2
    <3>4. cost # NoRoute
      BY DEF NoRoute, WeightInf
    <3> QED
      BY <3>1, <3>3, <3>4
  <2> QED
    BY <2>1, <2>2
<1>6. RoutesLeadThere'
  <2>1. \A x : FacesOf(x)' = FacesOf(x)
    BY <1>1, SameNodes
  <2>2. \A g, x : LeadsTo(g, x)' = LeadsTo(g, x)
    BY <1>1, SameNodes
  <2>3. \A x \in asked' : \E g \in FacesOf(x[2])' : fib'[g][x[1]] # NoRoute /\ LeadsTo(g, x[3])'
    BY <1>5, <2>1, <2>2
  <2> QED
    BY <2>3 DEF RoutesLeadThere, LeadsTo
<1> QED
  BY <1>1, <1>4, <1>6, RouteSet

\* FibHelper::RemoveRoute.
LEMMA RouteRemoved ==
  ASSUME HelperInv, reader = "helper", UNCHANGED readerVars,
         NEW p \in Names, NEW n \in Nodes, NEW m \in Nodes, RemoveRouteToNode(p, n, m)
  PROVE  HelperInv'
<1> DEFINE f == First(Leading(n, m))
<1>1. /\ Command /\ SetRoute(f, p, NoRoute)
      /\ Leading(n, m) # {}
      /\ asked' = IF \E g \in Leading(n, m) : fib'[g][p] # NoRoute THEN asked
                  ELSE asked \ {<<p, n, m>>}
  BY DEF RemoveRouteToNode
<1>2. Helped /\ UNCHANGED channels
  BY <1>1 DEF HelperInv, Command, graphVars
<1>3. f \in Leading(n, m) /\ Leading(n, m) = {g \in FacesOf(n) : LeadsTo(g, m)}
  BY <1>1, <1>2, LeadingIs DEF Helped
<1> HIDE DEF f
<1>4. f \in Faces /\ NodeOf(f) = n /\ LeadsTo(f, m)
  BY <1>3 DEF FacesOf
<1>5. fib' = [fib EXCEPT ![f] = [fib[f] EXCEPT ![p] = NoRoute]]
  BY <1>1 DEF SetRoute
<1>6. fib[f] \in [Names -> Nat] /\ fib \in [Faces -> [Names -> Nat]]
  BY <1>2, <1>4 DEF Helped, FibType
<1>7. asked' \subseteq asked
  BY <1>1
<1>8. ASSUME NEW x \in asked'
      PROVE  \E g \in FacesOf(x[2]) : fib'[g][x[1]] # NoRoute /\ LeadsTo(g, x[3])
  <2>1. x \in asked /\ x \in Names \X Nodes \X Nodes
    BY <1>2, <1>7, <1>8 DEF Helped
  <2>2. PICK g \in FacesOf(x[2]) : fib[g][x[1]] # NoRoute /\ LeadsTo(g, x[3])
    BY <1>2, <2>1 DEF Helped, RoutesLeadThere, LeadsTo
  <2>3. g \in Faces /\ NodeOf(g) = x[2]
    BY <2>2 DEF FacesOf
  <2>4. CASE g # f \/ x[1] # p
    <3>1. fib'[g][x[1]] = fib[g][x[1]]
      BY <1>4, <1>5, <1>6, <2>1, <2>3, <2>4
    <3> QED
      BY <2>2, <3>1
  <2>5. CASE g = f /\ x[1] = p
    <3>1. x[2] = n
      BY <1>4, <2>3, <2>5
    <3>2. x[3] = m
      <4>1. \E h : OtherSides(f) = {h}
        BY <1>2, <1>4, TwoFaces DEF Helped
      <4> QED
        BY <1>4, <2>2, <2>5, <4>1 DEF LeadsTo
    <3>3. x = <<p, n, m>>
      BY <2>1, <2>5, <3>1, <3>2
    <3>4. PICK h \in Leading(n, m) : fib'[h][p] # NoRoute
      BY <1>1, <1>8, <3>3
    <3> QED
      BY <1>3, <2>5, <3>1, <3>2, <3>4
  <2> QED
    BY <2>4, <2>5
<1>9. RoutesLeadThere'
  <2>1. \A x : FacesOf(x)' = FacesOf(x)
    BY <1>2, SameNodes
  <2>2. \A g, x : LeadsTo(g, x)' = LeadsTo(g, x)
    BY <1>2, SameNodes
  <2>3. \A x \in asked' : \E g \in FacesOf(x[2])' : fib'[g][x[1]] # NoRoute /\ LeadsTo(g, x[3])'
    BY <1>8, <2>1, <2>2
  <2> QED
    BY <2>3 DEF RoutesLeadThere, LeadsTo
<1>10. asked' \subseteq Names \X Nodes \X Nodes /\ NoRoute \in Nat
  BY <1>2, <1>7 DEF Helped, NoRoute, WeightInf
<1> QED
  BY <1>1, <1>4, <1>9, <1>10, RouteSet

\* LinkControlHelper::setErrorRate.
LEMMA ErrorRateSet ==
  ASSUME HelperInv, reader = "helper", UNCHANGED readerVars,
         NEW n \in Nodes, NEW m \in Nodes, n # m, NEW model, SetErrorRate(n, m, model)
  PROVE  HelperInv'
<1> DEFINE f == First(Leading(n, m))
           c == f[1]
           Ends(g) == Range(channels[g[1]])
           IsFirst(g) == \A b \in 1 .. g[1] - 1 : Range(channels[b]) # Ends(g)
<1>1. /\ Command /\ Leading(n, m) # {}
      /\ ReceiveErrorModel' = [g \in Faces |-> IF g \in {f, Opposite(f)} THEN model
                                               ELSE ReceiveErrorModel[g]]
      /\ failed' = [x \in DOMAIN failed \cup {{n, m}} |-> IF x = {n, m} THEN model ELSE failed[x]]
      /\ UNCHANGED <<fib, asked>>
  BY DEF SetErrorRate
<1>2. Helped /\ channels # <<>> /\ UNCHANGED <<channels, links>> /\ channels \in Seq(TwoEnded)
  BY <1>1 DEF HelperInv, Command, graphVars, Helped
<1>3. /\ f \in Leading(n, m) /\ \A g \in Leading(n, m) : f[1] <= g[1]
      /\ Leading(n, m) = {g \in FacesOf(n) : LeadsTo(g, m)}
  BY <1>1, <1>2, LeadingIs
<1> HIDE DEF f
<1>4. f \in Faces /\ NodeOf(f) = n /\ LeadsTo(f, m) /\ c \in Nat
  BY <1>2, <1>3, TwoFaces DEF FacesOf
<1>5. Range(channels[c]) = {n, m}
  BY <1>2, <1>4, LeadingEnds
<1>6. {f, Opposite(f)} = {<<c, 1>>, <<c, 2>>}
  <2>1. /\ NodeOf(<<c, 1>>) = channels[c][1] /\ NodeOf(<<c, 2>>) = channels[c][2]
        /\ {channels[c][1], channels[c][2]} = {n, m}
        /\ f = <<c, 1>> \/ f = <<c, 2>>
    BY <1>2, <1>4, <1>5, TwoFaces DEF NodeOf
  <2>2. CASE f = <<c, 1>>
    BY <2>2 DEF Opposite
  <2>3. CASE f = <<c, 2>>
    <3>1. NodeOf(<<c, 1>>) # NodeOf(f)
      BY <1>4, <2>1, <2>3
    <3> QED
      BY <2>3, <3>1 DEF Opposite
  <2> QED
    BY <2>1, <2>2, <2>3
<1>7. ASSUME NEW b \in DOMAIN channels, Range(channels[b]) = {n, m}
      PROVE  c <= b
  <2>1. PICK i : <<b, i>> \in FacesOf(n) /\ LeadsTo(<<b, i>>, m)
    BY <1>2, <1>7, EndsLead
  <2> QED
    BY <1>3, <2>1
<1>8. ASSUME NEW g \in Faces
      PROVE  ReceiveErrorModel'[g]
               = IF IsFirst(g) /\ Ends(g) \in DOMAIN failed' THEN failed'[Ends(g)] ELSE None
  <2>1. g[1] \in DOMAIN channels /\ g[1] \in Nat /\ (g = <<g[1], 1>> \/ g = <<g[1], 2>>)
    BY <1>2, TwoFaces
  <2>2. ReceiveErrorModel[g] = IF IsFirst(g) /\ Ends(g) \in DOMAIN failed THEN failed[Ends(g)] ELSE None
    BY <1>2 DEF Helped, LinkControlled
  <2>3. \A b \in 1 .. g[1] - 1 : b \in DOMAIN channels
    BY <1>2, <2>1
  <2>4. CASE g[1] = c
    <3>1. g \in {f, Opposite(f)} /\ Ends(g) = {n, m}
      BY <1>5, <1>6, <2>1, <2>4
    <3>2. IsFirst(g)
      BY <1>4, <1>7, <2>3, <2>4, <3>1
    <3> QED
      BY <1>1, <3>1, <3>2
  <2>5. CASE g[1] # c
    <3>1. g \notin {f, Opposite(f)}
      BY <1>6, <2>1, <2>5
    <3>2. ReceiveErrorModel'[g] = ReceiveErrorModel[g]
      BY <1>1, <3>1
    <3>3. CASE Ends(g) = {n, m}
      <4>1. c <= g[1] /\ c \in 1 .. g[1] - 1
        <5>1. c <= g[1]
          BY <1>7, <2>1, <3>3
        <5>2. c \in DOMAIN channels
          BY <1>2, <1>4, TwoFaces
        <5>3. c >= 1
          BY <1>2, <5>2
        <5> QED
          BY <1>4, <2>1, <2>5, <5>1, <5>3
      <4>2. ~IsFirst(g)
        BY <1>5, <3>3, <4>1
      <4> QED
        BY <2>2, <3>2, <4>2
    <3>4. CASE Ends(g) # {n, m}
      <4>1. /\ Ends(g) \in DOMAIN failed' <=> Ends(g) \in DOMAIN failed
            /\ Ends(g) \in DOMAIN failed => failed'[Ends(g)] = failed[Ends(g)]
        BY <1>1, <3>4
      <4> QED
        BY <2>2, <3>2, <4>1
    <3> QED
      BY <3>3, <3>4
  <2> QED
    BY <2>4, <2>5
<1>9. LinkControlled'
  BY <1>1, <1>2, <1>8 DEF LinkControlled
<1>10. LinksLead' /\ RoutesLeadThere'
  BY <1>1, <1>2, SameNodes DEF Helped, LinksLead, RoutesLeadThere
<1>11. Helped'
  BY <1>1, <1>2, <1>9, <1>10, SameNodes DEF Helped, FibType
<1> QED
  BY <1>2, <1>11 DEF HelperInv, readerVars

\* HelperInv holds before the first command.
LEMMA HelpInit == Init => HelperInv
  BY EmptyDomain DEF Init, ReaderInit, HelperInit, RoutingInit, HelperInv, Unhelped

\* Every command keeps HelperInv.
LEMMA HelpKeepsHelp ==
  ASSUME HelperInv, reader = "helper", UNCHANGED readerVars, HelperStep
  PROVE  HelperInv'
<1>1. CASE \E cliques \in Cliques : CreateTopology(cliques)
  BY <1>1, TopologyKeepsHelp
<1>2. ASSUME NEW n \in Nodes, NEW m \in Nodes, NEW p \in Names, NEW cost \in 1 .. 2,
             AddRouteByName(p, n, m, cost)
      PROVE  HelperInv'
  <2>1. Helped
    BY <1>2 DEF AddRouteByName, Command, HelperInv
  <2>2. links[<<n, m>>] \in FacesOf(n) /\ LeadsTo(links[<<n, m>>], m)
    BY <1>2, <2>1 DEF AddRouteByName, Helped, LinksLead
  <2> QED
    BY <1>2, <2>2, RouteAdded DEF AddRouteByName
<1>3. ASSUME NEW n \in Nodes, NEW m \in Nodes, NEW p \in Names, NEW cost \in 1 .. 2,
             AddRouteToNode(p, n, m, cost)
      PROVE  HelperInv'
  <2>1. Helped /\ Leading(n, m) # {}
    BY <1>3 DEF AddRouteToNode, Command, HelperInv
  <2>2. First(Leading(n, m)) \in FacesOf(n) /\ LeadsTo(First(Leading(n, m)), m)
    BY <2>1, LeadingIs DEF Helped
  <2> QED
    BY <1>3, <2>2, RouteAdded DEF AddRouteToNode
<1>4. ASSUME NEW n \in Nodes, NEW m \in Nodes, NEW p \in Names, RemoveRouteToNode(p, n, m)
      PROVE  HelperInv'
  BY <1>4, RouteRemoved
<1>5. ASSUME NEW n \in Nodes, NEW m \in Nodes, n # m, FailLink(n, m) \/ UpLink(n, m)
      PROVE  HelperInv'
  BY <1>5, ErrorRateSet DEF FailLink, UpLink
<1> QED
  BY <1>1, <1>2, <1>3, <1>4, <1>5 DEF HelperStep

\* HelperInv is inductive.
LEMMA HelpStep == HelperInv /\ [Next]_vars => HelperInv'
<1> SUFFICES ASSUME HelperInv, [Next]_vars
             PROVE  HelperInv'
  OBVIOUS
<1>1. ASSUME UNCHANGED helperVars, reader' = reader, reader = "helper" => UNCHANGED <<phase, routingVars>>
      PROVE  HelperInv'
  <2>1. CASE reader # "helper"
    BY <1>1, <2>1 DEF HelperInv, Unhelped, helperVars
  <2>2. CASE reader = "helper"
    <3>1. UNCHANGED <<phase, channels, fib>>
      BY <1>1, <2>2 DEF routingVars, graphVars
    <3>2. CASE channels = <<>>
      BY <1>1, <2>2, <3>1, <3>2 DEF HelperInv, Unhelped, helperVars
    <3>3. CASE channels # <<>>
      <4>1. Helped /\ UNCHANGED helperVars
        BY <1>1, <2>2, <3>3 DEF HelperInv
      <4>2. Helped'
        BY <3>1, <4>1, SameNodes
           DEF Helped, FibType, LinkControlled, LinksLead, RoutesLeadThere, helperVars
      <4> QED
        BY <1>1, <2>2, <3>1, <3>3, <4>2 DEF HelperInv
    <3> QED
      BY <3>2, <3>3
  <2> QED
    BY <2>1, <2>2
<1>2. ASSUME ReaderStep, UNCHANGED <<mapVars, routingVars, helperVars>>
      PROVE  HelperInv'
  <2>1. reader' = reader
    BY <1>2 DEF ReaderStep, ReadRouter, LinkSection, ReadAnnotated, ReadWeight, OpenLatencies,
                ReadLatency, ApplySettings
  <2>2. reader = "helper" => phase # "read" /\ phase # "read"
    BY <1>2 DEF ReaderStep, ReadRouter, LinkSection, ReadAnnotated, ReadWeight, OpenLatencies,
                ReadLatency, ApplySettings, Committed
  <2> QED
    BY <1>1, <1>2, <2>1, <2>2 DEF HelperInv
<1>3. ASSUME MapStep, UNCHANGED <<routingVars, helperVars>>
      PROVE  HelperInv'
  <2>1. reader' = reader
    BY <1>3 DEF MapStep, ReadMapLine, EndOfMap, RankVertices, ConnectBackboneRouters, RemoveWrongLinks,
                KeepAgain, CreateNodes, CreateLinks, readerVars
  <2>2. reader = "helper" => phase # "read"
    BY <1>3 DEF MapStep, ReadMapLine, EndOfMap, RankVertices, ConnectBackboneRouters, RemoveWrongLinks,
                KeepAgain, CreateNodes, CreateLinks
  <2> QED
    BY <1>1, <1>3, <2>1, <2>2 DEF HelperInv
<1>4. ASSUME GoesOn \/ reader = "none" \/ Short', UNCHANGED <<readerVars, helperVars>>
      PROVE  HelperInv'
  <2>1. reader # "helper" /\ reader' = reader
    BY <1>4 DEF GoesOn, Short, HelperInv, readerVars
  <2> QED
    BY <1>1, <1>4, <2>1
<1>5. CASE UNCHANGED vars
  BY <1>1, <1>5 DEF vars, readerVars
<1>6. ASSUME reader = "helper", HelperStep, UNCHANGED readerVars
      PROVE  HelperInv'
  BY <1>6, HelpKeepsHelp
<1> QED
  BY <1>2, <1>3, <1>4, <1>5, <1>6 DEF Next

\* LinkControlHelper, whatever links two nodes share and however often it is called:
\* FailLink and UpLink act on both ends of the first link of two nodes, on whichever of
\* them is named first, and never on another link.
THEOREM CommandsReachTheirLink == Spec => []LinkControlled
<1>1. HelperInv => LinkControlled
  BY DEF HelperInv, Helped, Unhelped, LinkControlled
<1> QED
  BY HelpInit, HelpStep, <1>1, PTL DEF Spec

\* FibHelper and ScenarioHelper, which mean different ones of parallel links: a route that
\* was asked for by two nodes stays in the FIB, over some link between them, until it is
\* removed by the same two nodes; removing it there takes no other route away.
THEOREM RoutesStay == Spec => []RoutesLeadThere
<1>1. HelperInv => RoutesLeadThere
  BY DEF HelperInv, Helped, Unhelped, RoutesLeadThere
<1> QED
  BY HelpInit, HelpStep, <1>1, PTL DEF Spec

-----------------------------------------------------------------------------
(* The costs that CostTo computes. *)

\* A function is iterated from a start.
IteratesFrom(h, T, F, x) == h \in [Nat -> T] /\ h[0] = x /\ \A k \in Nat : h[k + 1] = F[h[k]]

\* Every function of a set into itself can be iterated from every member.
LEMMA IteratesFromExist ==
  ASSUME NEW T, NEW F, F \in [T -> T], NEW x, x \in T
  PROVE  \E h : IteratesFrom(h, T, F, x)
<1>1. PICK h \in [Nat -> T] : h = [i \in Nat |-> IF i = 0 THEN x ELSE F[h[i - 1]]]
  BY Iteration
<1>2. h[0] = x
  BY <1>1
<1>3. ASSUME NEW k \in Nat
      PROVE  h[k + 1] = F[h[k]]
  <2>1. k + 1 \in Nat /\ k + 1 # 0 /\ (k + 1) - 1 = k
    OBVIOUS
  <2> QED
    BY <1>1, <2>1
<1> QED
  BY <1>2, <1>3 DEF IteratesFrom

\* What is made of finitely many things is finite.
LEMMA FiniteImage ==
  ASSUME NEW S, IsFiniteSet(S), NEW f, DOMAIN f = S
  PROVE  IsFiniteSet({f[x] : x \in S})
<1> DEFINE T == {f[x] : x \in S}
           g == [x \in S |-> f[x]]
<1>1. g \in Surjection(S, T)
  BY DEF Surjection
<1> QED
  BY <1>1, FS_Surjection

\* A network is finite.
LEMMA FiniteNetwork ==
  ASSUME NetworkOk
  PROVE  IsFiniteSet(Faces) /\ IsFiniteSet(Nodes) /\ IsFiniteSet(AllRouters)
<1>1. DOMAIN channels = 1 .. Len(channels) /\ Len(channels) \in Nat
  BY DEF NetworkOk
<1>2. IsFiniteSet(DOMAIN channels)
  BY <1>1, FS_Interval
<1>3. ASSUME NEW c \in DOMAIN channels
      PROVE  IsFiniteSet({<<c, i>> : i \in DOMAIN channels[c]})
  <2>1. channels[c] \in Seq(Nat)
    BY DEF NetworkOk
  <2>2. DOMAIN channels[c] = 1 .. Len(channels[c]) /\ Len(channels[c]) \in Nat
    BY <2>1
  <2>3. IsFiniteSet(DOMAIN channels[c])
    BY <2>2, FS_Interval
  <2>4. PICK f : f = [i \in DOMAIN channels[c] |-> <<c, i>>]
    OBVIOUS
  <2>5. DOMAIN f = DOMAIN channels[c]
    BY <2>4
  <2>6. IsFiniteSet({f[i] : i \in DOMAIN channels[c]})
    BY <2>3, <2>5, FiniteImage
  <2>7. {f[i] : i \in DOMAIN channels[c]} = {<<c, i>> : i \in DOMAIN channels[c]}
    BY <2>4
  <2> QED
    BY <2>6, <2>7
<1>4. IsFiniteSet(Faces)
  <2>1. PICK F : F = [c \in DOMAIN channels |-> {<<c, i>> : i \in DOMAIN channels[c]}]
    OBVIOUS
  <2>2. DOMAIN F = DOMAIN channels
    BY <2>1
  <2>3. IsFiniteSet({F[c] : c \in DOMAIN channels})
    BY <1>2, <2>2, FiniteImage
  <2>4. \A T \in {F[c] : c \in DOMAIN channels} : IsFiniteSet(T)
    BY <1>3, <2>1
  <2>5. IsFiniteSet(UNION {F[c] : c \in DOMAIN channels})
    BY <2>3, <2>4, FS_UNION
  <2>6. {F[c] : c \in DOMAIN channels} = {{<<c, i>> : i \in DOMAIN channels[c]} : c \in DOMAIN channels}
    BY <2>1
  <2> QED
    BY <2>5, <2>6 DEF Faces
<1>5. IsFiniteSet(Nodes)
  <2>1. PICK f : f = [x \in Faces |-> NodeOf(x)]
    OBVIOUS
  <2>2. IsFiniteSet({f[x] : x \in Faces})
    BY <1>4, <2>1, FiniteImage
  <2>3. {f[x] : x \in Faces} = Nodes
    BY <2>1 DEF Nodes
  <2> QED
    BY <2>2, <2>3
<1>6. IsFiniteSet(AllRouters)
  <2>1. PICK f, g : f = [n \in Nodes |-> Node(n)] /\ g = [c \in DOMAIN channels |-> Channel(c)]
    OBVIOUS
  <2>2. IsFiniteSet({f[n] : n \in Nodes}) /\ IsFiniteSet({g[c] : c \in DOMAIN channels})
    BY <1>2, <1>5, <2>1, FiniteImage
  <2>3. {f[n] : n \in Nodes} \cup {g[c] : c \in DOMAIN channels} = AllRouters
    BY <2>1 DEF AllRouters
  <2> QED
    BY <2>2, <2>3, FS_Union
<1> QED
  BY <1>4, <1>5, <1>6

\* One round of relaxing.
OverFaces(c, n) == UNION {{Uint16(configured[f]) + c[NodeOf(g)] : g \in OtherSides(f)} : f \in FacesOf(n)}
Relaxed(c, n, avoid) == IF n \in avoid THEN WeightInf ELSE Min({c[n]} \cup OverFaces(c, n))

\* C[k] is the cost of the cheapest way to o over at most k links.
Shorter(C, o, avoid) ==
  \A k \in Nat : \A n \in Nodes :
    /\ C[k + 1][n] <= C[k][n]
    /\ n \notin avoid => \A f \in FacesOf(n) : \A g \in OtherSides(f) :
                           C[k + 1][n] <= Uint16(configured[f]) + C[k][NodeOf(g)]
    /\ C[k + 1][n] = C[k][n] \/ \E f \in FacesOf(n) : \E g \in OtherSides(f) :
                                  C[k + 1][n] = Uint16(configured[f]) + C[k][NodeOf(g)]
CostsTo(C, o, avoid) ==
  /\ C \in [Nat -> [Nodes -> Nat]]
  /\ \A n \in Nodes : C[0][n] = IF n = o THEN 0 ELSE WeightInf
  /\ \A k \in Nat : \A n \in avoid \cap Nodes : C[k][n] = WeightInf
  /\ Shorter(C, o, avoid)

\* The ends of a link.
LEMMA LinkEnds ==
  ASSUME NetworkOk, NEW n \in Nodes, NEW f \in FacesOf(n), NEW g \in OtherSides(f)
  PROVE  f \in Faces /\ NodeOf(f) = n /\ g \in Faces /\ NodeOf(g) \in Nodes
  BY FaceType DEF FacesOf, OtherSides

\* What one round of the search leaves a node: no more than it had, no more than
\* any of its faces and the node behind it give, and exactly one of these.
LEMMA RelaxedIs ==
  ASSUME NetworkOk, MetricsOk, NEW c \in [Nodes -> Nat], NEW n \in Nodes, NEW avoid
  PROVE  /\ Relaxed(c, n, avoid) \in Nat
         /\ n \notin avoid => Relaxed(c, n, avoid) <= c[n]
         /\ n \notin avoid => \A f \in FacesOf(n) : \A g \in OtherSides(f) :
                           Relaxed(c, n, avoid) <= Uint16(configured[f]) + c[NodeOf(g)]
         /\ n \notin avoid => \/ Relaxed(c, n, avoid) = c[n]
                              \/ \E f \in FacesOf(n) : \E g \in OtherSides(f) :
                                  Relaxed(c, n, avoid) = Uint16(configured[f]) + c[NodeOf(g)]
<1>1. CASE n \in avoid
  BY <1>1 DEF Relaxed, WeightInf
<1>2. CASE n \notin avoid
  <2>1. PICK S : S = {c[n]} \cup OverFaces(c, n)
    OBVIOUS
  <2>2. \A x \in S : x = c[n] \/ \E f \in FacesOf(n) : \E g \in OtherSides(f) :
                                  x = Uint16(configured[f]) + c[NodeOf(g)]
    BY <2>1 DEF OverFaces
  <2>3. \A f \in FacesOf(n) : \A g \in OtherSides(f) : Uint16(configured[f]) + c[NodeOf(g)] \in S
    BY <2>1 DEF OverFaces
  <2>4. S \subseteq Nat
    <3> SUFFICES ASSUME NEW x \in S
                 PROVE  x \in Nat
      OBVIOUS
    <3>1. ASSUME NEW f \in FacesOf(n), NEW g \in OtherSides(f)
          PROVE  Uint16(configured[f]) + c[NodeOf(g)] \in Nat
      <4>1. f \in Faces /\ NodeOf(g) \in Nodes
        BY LinkEnds
      <4> QED
        BY <4>1, Uint16Nat DEF MetricsOk
    <3> QED
      BY <2>2, <3>1
  <2>5. c[n] \in S /\ S # {}
    BY <2>1
  <2>6. Min(S) \in S /\ \A x \in S : Min(S) <= x
    BY <2>4, <2>5, MinOf
  <2>7. Relaxed(c, n, avoid) = Min(S)
    BY <1>2, <2>1 DEF Relaxed
  <2> QED
    BY <1>2, <2>2, <2>3, <2>4, <2>5, <2>6, <2>7
<1> QED
  BY <1>1, <1>2

\* There are such costs, and CostTo is what they are after as many rounds as there are
\* nodes.
LEMMA CostToIs ==
  ASSUME NetworkOk, MetricsOk, NEW o, NEW avoid, o \notin avoid
  PROVE  \E C : CostsTo(C, o, avoid) /\ CostTo(o, avoid) = C[Cardinality(Nodes)]
<1> DEFINE S == [Nodes -> Nat]
           first == [n \in Nodes |-> IF n = o THEN 0 ELSE WeightInf]
           F == [c \in S |-> [n \in Nodes |-> Relaxed(c, n, avoid)]]
           N == Cardinality(Nodes)
<1>1. N \in Nat
  BY FiniteNetwork, FS_CardinalityType
<1>2. first \in S /\ F \in [S -> S]
  <2>1. \A c \in S : \A n \in Nodes : Relaxed(c, n, avoid) \in Nat
    BY RelaxedIs
  <2> QED
    BY <2>1 DEF WeightInf
<1>3. PICK C \in [Nat -> S] : C[0] = first /\ \A k \in Nat : C[k + 1] = F[C[k]]
  <2>1. PICK T, x, G : T = S /\ x = first /\ G = F
    OBVIOUS
  <2> HIDE DEF S, F, first
  <2>2. x \in T /\ G \in [T -> T]
    BY <1>2, <2>1
  <2>3. PICK h : IteratesFrom(h, T, G, x)
    BY <2>2, IteratesFromExist
  <2> QED
    BY <2>1, <2>3 DEF IteratesFrom
<1>4. ASSUME NEW k \in Nat, NEW n \in Nodes
      PROVE  C[k + 1][n] = Relaxed(C[k], n, avoid) /\ C[k] \in [Nodes -> Nat]
  <2>1. PICK c \in S : c = C[k]
    BY <1>3
  <2>2. C[k + 1] = F[c]
    BY <1>3, <2>1
  <2>3. F[c] = [m \in Nodes |-> Relaxed(c, m, avoid)]
    OBVIOUS
  <2> QED
    BY <2>1, <2>2, <2>3
<1>5. \A n \in Nodes : C[0][n] = IF n = o THEN 0 ELSE WeightInf
  BY <1>3
<1>6. \A k \in Nat : \A n \in avoid \cap Nodes : C[k][n] = WeightInf
  <2> SUFFICES ASSUME NEW k \in Nat, NEW n \in avoid \cap Nodes
               PROVE  C[k][n] = WeightInf
    OBVIOUS
  <2>1. CASE k = 0
    BY <1>5, <2>1
  <2>2. CASE k # 0
    <3>1. PICK j \in Nat : k = j + 1
      <4>1. k - 1 \in Nat /\ k = (k - 1) + 1
        BY <2>2
      <4> QED
        BY <4>1
    <3>2. C[j + 1][n] = Relaxed(C[j], n, avoid)
      BY <1>4
    <3> QED
      BY <3>1, <3>2 DEF Relaxed
  <2> QED
    BY <2>1, <2>2
<1>7. Shorter(C, o, avoid)
  <2> SUFFICES ASSUME NEW k \in Nat, NEW n \in Nodes
               PROVE  /\ C[k + 1][n] <= C[k][n]
                      /\ n \notin avoid => \A f \in FacesOf(n) : \A g \in OtherSides(f) :
                                             C[k + 1][n] <= Uint16(configured[f]) + C[k][NodeOf(g)]
                      /\ C[k + 1][n] = C[k][n] \/ \E f \in FacesOf(n) : \E g \in OtherSides(f) :
                                                    C[k + 1][n] = Uint16(configured[f]) + C[k][NodeOf(g)]
    BY DEF Shorter
  <2>1. CASE n \in avoid
    <3>1. C[k + 1][n] = WeightInf /\ C[k][n] = WeightInf
      BY <1>6, <2>1
    <3> QED
      BY <2>1, <3>1 DEF WeightInf
  <2>2. CASE n \notin avoid
    <3>1. PICK c \in [Nodes -> Nat] : c = C[k]
      BY <1>4
    <3>2. C[k + 1][n] = Relaxed(c, n, avoid)
      BY <1>4, <3>1
    <3> HIDE DEF F, S, first
    <3> QED
      BY <2>2, <3>1, <3>2, RelaxedIs
  <2> QED
    BY <2>1, <2>2
<1>8. CostTo(o, avoid) = C[N]
  <2> DEFINE Val(d, k) ==
               IF k = 0 THEN [n \in Nodes |-> IF n = o THEN 0 ELSE WeightInf]
               ELSE LET prev == d[k - 1]
                    IN  [n \in Nodes |-> IF n \in avoid THEN WeightInf ELSE Min({prev[n]} \cup
                           UNION {{Uint16(configured[f]) + prev[NodeOf(g)] : g \in OtherSides(f)} :
                                    f \in FacesOf(n)})]
             Is(d) == d = [k \in 0 .. Cardinality(Nodes) |->
               IF k = 0 THEN [n \in Nodes |-> IF n = o THEN 0 ELSE WeightInf]
               ELSE LET prev == d[k - 1]
                    IN  [n \in Nodes |-> IF n \in avoid THEN WeightInf ELSE Min({prev[n]} \cup
                           UNION {{Uint16(configured[f]) + prev[NodeOf(g)] : g \in OtherSides(f)} :
                                    f \in FacesOf(n)})]]
             D == CHOOSE d : Is(d)
  <2>1. ASSUME NEW k \in 0 .. N, k # 0
        PROVE  C[k] = [n \in Nodes |-> Relaxed(C[k - 1], n, avoid)]
    <3>1. k - 1 \in Nat /\ (k - 1) + 1 = k
      BY <1>1, <2>1
    <3>2. C[k] = F[C[k - 1]] /\ C[k - 1] \in S
      BY <1>3, <3>1
    <3> QED
      BY <3>2
  <2>2. \E d : Is(d)
    <3> DEFINE E == [k \in 0 .. N |-> C[k]]
    <3>1. ASSUME NEW k \in 0 .. N
          PROVE  E[k] = Val(E, k)
      <4>1. CASE k = 0
        BY <1>3, <4>1
      <4>2. CASE k # 0
        <5>1. E[k - 1] = C[k - 1]
          BY <1>1, <4>2
        <5>2. PICK c : c = C[k - 1]
          OBVIOUS
        <5>3. E[k] = [n \in Nodes |-> Relaxed(c, n, avoid)]
          BY <2>1, <4>2, <5>2
        <5>4. Val(E, k) = [n \in Nodes |-> Relaxed(c, n, avoid)]
          <6> HIDE DEF E
          <6> QED
            BY <4>2, <5>1, <5>2 DEF Relaxed, OverFaces
        <5> QED
          BY <5>3, <5>4
      <4> QED
        BY <4>1, <4>2
    <3>2. E = [k \in 0 .. N |-> E[k]]
      OBVIOUS
    <3> HIDE DEF E
    <3>3. E = [k \in 0 .. N |-> Val(E, k)]
      BY <3>1, <3>2
    <3>4. Is(E)
      BY <3>3
    <3> HIDE DEF Is
    <3> QED
      BY <3>4
  <2>3. Is(D)
    <3> HIDE DEF Is
    <3> QED
      BY <2>2
  <2>4. CostTo(o, avoid) = D[N]
    BY DEF CostTo
  <2>5. \A k \in 0 .. N : D[k] = Val(D, k)
    <3> HIDE DEF D
    <3> QED
      BY <2>3
  <2> HIDE DEF D, Is
  <2> DEFINE T == {k \in Nat : k \in 0 .. N => D[k] = C[k]}
  <2>6. 0 \in T
    <3>1. 0 \in 0 .. N
      BY <1>1
    <3>2. D[0] = Val(D, 0)
      <4> HIDE DEF Val, N
      <4> QED
        BY <2>5, <3>1
    <3>3. D[0] = C[0]
      BY <1>3, <3>2
    <3> QED
      BY <3>3
  <2>7. ASSUME NEW k \in T \cap Nat PROVE k + 1 \in T
    <3> SUFFICES ASSUME k + 1 \in 0 .. N
                 PROVE  D[k + 1] = C[k + 1]
      OBVIOUS
    <3>1. k \in 0 .. N /\ k + 1 # 0 /\ (k + 1) - 1 = k
      <4>1. k \in Nat
        OBVIOUS
      <4> HIDE DEF T, Val, N
      <4> QED
        BY <1>1, <4>1
    <3>2. D[k] = C[k]
      BY <3>1
    <3>3. D[k + 1] = Val(D, k + 1)
      BY <2>5
    <3>4. PICK c : c = C[k]
      OBVIOUS
    <3>5. Val(D, k + 1) = [n \in Nodes |-> Relaxed(c, n, avoid)]
      <4>1. D[(k + 1) - 1] = c /\ k + 1 # 0
        BY <3>1, <3>2, <3>4
      <4> HIDE DEF T, F, S, first, N
      <4> QED
        BY <4>1 DEF Relaxed, OverFaces
    <3>6. C[k + 1] = [n \in Nodes |-> Relaxed(c, n, avoid)]
      BY <2>1, <3>1, <3>4
    <3> QED
      BY <3>3, <3>5, <3>6
  <2>8. Nat \subseteq T
    <3> HIDE DEF T
    <3> QED
      BY <2>6, <2>7, NatSets
  <2>9. N \in T /\ N \in 0 .. N
    BY <1>1, <2>8
  <2> QED
    BY <2>4, <2>9
<1>9. C \in [Nat -> [Nodes -> Nat]]
  BY <1>3
<1> QED
  BY <1>5, <1>6, <1>7, <1>8, <1>9 DEF CostsTo

\* More links make nothing dearer.
LEMMA CostsFall ==
  ASSUME NEW C, NEW o, NEW avoid, CostsTo(C, o, avoid), NEW n \in Nodes
  PROVE  /\ \A j, k \in Nat : j <= k => C[k][n] <= C[j][n]
         /\ \A k \in Nat : C[k][n] \in Nat /\ C[k][n] <= WeightInf
<1>1. \A k \in Nat : C[k][n] \in Nat /\ C[k + 1][n] <= C[k][n]
  BY DEF CostsTo, Shorter
<1>2. ASSUME NEW j \in Nat
      PROVE  \A k \in Nat : j <= k => C[k][n] <= C[j][n]
  <2> DEFINE T == {i \in Nat : C[j + i][n] <= C[j][n]}
  <2>1. 0 \in T
    BY <1>1
  <2>2. ASSUME NEW i \in T \cap Nat PROVE i + 1 \in T
    <3>1. PICK h \in Nat : h = j + i /\ h + 1 = j + (i + 1)
      OBVIOUS
    <3>2. C[h + 1][n] <= C[h][n] /\ C[h][n] <= C[j][n]
      BY <1>1, <3>1
    <3>3. C[h + 1][n] \in Nat /\ C[h][n] \in Nat /\ C[j][n] \in Nat
      BY <1>1
    <3>4. C[h + 1][n] <= C[j][n]
      BY <3>2, <3>3
    <3> QED
      BY <3>1, <3>4
  <2>3. Nat \subseteq T
    <3> HIDE DEF T
    <3> QED
      BY <2>1, <2>2, NatSets
  <2> SUFFICES ASSUME NEW k \in Nat, j <= k
               PROVE  C[k][n] <= C[j][n]
    OBVIOUS
  <2>4. k - j \in Nat /\ j + (k - j) = k
    OBVIOUS
  <2>5. k - j \in T
    BY <2>3, <2>4
  <2> QED
    BY <2>4, <2>5
<1>3. C[0][n] <= WeightInf
  <2>1. C[0][n] = IF n = o THEN 0 ELSE WeightInf
    BY DEF CostsTo
  <2> QED
    BY <2>1 DEF WeightInf
<1>4. ASSUME NEW k \in Nat
      PROVE  C[k][n] \in Nat /\ C[k][n] <= WeightInf
  <2>1. C[k][n] <= C[0][n] /\ C[k][n] \in Nat /\ C[0][n] \in Nat
    BY <1>1, <1>2
  <2> QED
    BY <1>3, <2>1 DEF WeightInf
<1> QED
  BY <1>2, <1>4

-----------------------------------------------------------------------------
(* The paths that Dijkstra chooses from. *)

\* The graph when no call of Install runs.
Drawn ==
  /\ NetworkOk
  /\ routers \subseteq AllRouters
  /\ GraphMirrorsNetwork /\ frames = <<>>
  /\ \A r \in routers : \A e \in incidencies[r] : e[2] \in routers

\* It is drawn.
LEMMA GraphIsDrawn ==
  ASSUME GraphInv, GraphMirrorsNetwork, frames = <<>>
  PROVE  Drawn
<1>1. CASE channels = <<>>
  BY <1>1 DEF GraphInv, Drawn
<1>2. CASE channels # <<>>
  BY <1>2 DEF GraphInv, GraphType, EdgesLead, Drawn
<1> QED
  BY <1>1, <1>2

\* An edge of the graph leaves a node by one of its faces to the side across,
\* or a channel to one of the nodes attached to it.
LEMMA EdgesAre ==
  ASSUME Drawn, NEW r \in routers, NEW e \in incidencies[r]
  PROVE  /\ e = <<e[1], e[2]>> /\ e[2] \in routers /\ e[1] \in Faces \cup {NoFace}
         /\ \/ /\ e[1] \in Faces /\ r = Node(NodeOf(e[1])) /\ e[2] = OtherSide(e[1])
            \/ \E c \in DOMAIN channels : \E i \in DOMAIN channels[c] :
                 r = Channel(c) /\ e[1] = NoFace /\ e[2] = Node(channels[c][i])
<1>1. e[2] \in routers
  BY DEF Drawn
<1>2. CASE r \in {Node(n) : n \in Nodes}
  <2>1. PICK n \in Nodes : r = Node(n)
    BY <1>2
  <2>2. n \in Sources
    BY <2>1 DEF Sources
  <2>3. PICK f \in FacesOf(n) : e = <<f, OtherSide(f)>>
    BY <2>1, <2>2 DEF Drawn, GraphMirrorsNetwork
  <2>4. f \in Faces /\ NodeOf(f) = n
    BY DEF FacesOf
  <2> QED
    BY <1>1, <2>1, <2>3, <2>4
<1>3. CASE r \in {Channel(c) : c \in DOMAIN channels}
  <2>1. PICK c \in DOMAIN channels : r = Channel(c)
    BY <1>3
  <2>2. PICK i \in DOMAIN channels[c] : e = <<NoFace, Node(channels[c][i])>>
    BY <2>1 DEF Drawn, GraphMirrorsNetwork
  <2> QED
    BY <1>1, <2>1, <2>2
<1> QED
  BY <1>2, <1>3 DEF Drawn, AllRouters

\* NoFace is no face.
LEMMA NoFaceIsNone == NetworkOk => NoFace \notin Faces
<1> SUFFICES ASSUME NetworkOk, NoFace \in Faces
             PROVE  FALSE
  OBVIOUS
<1>1. NoFace[1] \in DOMAIN channels
  BY FaceType
<1> QED
  BY <1>1 DEF NoFace, NetworkOk

Paths == [at : routers, seen : SUBSET routers, weight : (Faces \cup {NoFace}) \X Nat]

\* The path x and then edge e, and all such paths.
Along(m, x, e) ==
  [at |-> e[2], seen |-> x.seen \cup {e[2]}, weight |-> WeightCombine(x.weight, EdgeWeight(m, e))]
Longer(m, xs) == UNION {{Along(m, x, e) : e \in {i \in incidencies[x.at] : i[2] \notin x.seen}} : x \in xs}

Empty(s) == [at |-> s, seen |-> {s}, weight |-> WeightZero]

\* P[k] is the paths of k edges.
PathsOf(P, m, s) ==
  /\ P \in [Nat -> SUBSET Paths]
  /\ P[0] = {Empty(s)}
  /\ \A k \in Nat : P[k + 1] = Longer(m, P[k])

\* A path made longer by an edge of the graph is a path again.
LEMMA AlongType ==
  ASSUME Drawn, NEW m \in [Faces -> Nat], NEW x \in Paths, NEW e \in incidencies[x.at]
  PROVE  Along(m, x, e) \in Paths
<1>1. x.at \in routers /\ x.seen \subseteq routers /\ x.weight \in (Faces \cup {NoFace}) \X Nat
  BY DEF Paths
<1>2. e[2] \in routers /\ e[1] \in Faces \cup {NoFace}
  BY <1>1, EdgesAre
<1>3. EdgeWeight(m, e) \in (Faces \cup {NoFace}) \X Nat
  <2>1. CASE e[1] = NoFace
    BY <2>1 DEF EdgeWeight
  <2>2. CASE e[1] # NoFace
    BY <1>2, <2>2, Uint16Nat DEF EdgeWeight
  <2> QED
    BY <2>1, <2>2
<1>4. WeightCombine(x.weight, EdgeWeight(m, e)) \in (Faces \cup {NoFace}) \X Nat
  <2>1. PICK a, b \in (Faces \cup {NoFace}) \X Nat : a = x.weight /\ b = EdgeWeight(m, e)
    BY <1>1, <1>3
  <2>2. WeightCombine(a, b) \in (Faces \cup {NoFace}) \X Nat
    BY DEF WeightCombine
  <2> QED
    BY <2>1, <2>2
<1> QED
  BY <1>1, <1>2, <1>4 DEF Along, Paths

\* There are these paths, and PathsFrom is those with at least one edge.
LEMMA PathsAre ==
  ASSUME Drawn, NEW m \in [Faces -> Nat], NEW s \in routers
  PROVE  \E P : /\ PathsOf(P, m, s)
                /\ PathsFrom(m, s) \subseteq UNION {P[k] : k \in Nat \ {0}}
                /\ \A k \in Nat \ {0} : P[k] \subseteq PathsFrom(m, s)
<1> DEFINE S == SUBSET Paths
           F == [xs \in S |-> Longer(m, xs)]
           N == Cardinality(routers)
<1>0. IsFiniteSet(routers) /\ N \in Nat
  BY FiniteNetwork, FS_Subset, FS_CardinalityType DEF Drawn
<1>1. Empty(s) \in Paths
  BY DEF Empty, Paths, WeightZero
<1>2. F \in [S -> S]
  <2> SUFFICES ASSUME NEW xs \in S
               PROVE  Longer(m, xs) \in S
    OBVIOUS
  <2> QED
    BY AlongType DEF Longer
<1>3. PICK P \in [Nat -> S] : P[0] = {Empty(s)} /\ \A k \in Nat : P[k + 1] = F[P[k]]
  <2>1. PICK T, x, G : T = S /\ x = {Empty(s)} /\ G = F
    OBVIOUS
  <2>2. x \in T /\ G \in [T -> T]
    BY <1>1, <1>2, <2>1
  <2> HIDE DEF S, F
  <2>3. PICK h : IteratesFrom(h, T, G, x)
    BY <2>2, IteratesFromExist
  <2> QED
    BY <2>1, <2>3 DEF IteratesFrom
<1>4. ASSUME NEW k \in Nat
      PROVE  P[k] \in S /\ P[k + 1] = Longer(m, P[k])
  <2>1. PICK xs \in S : xs = P[k]
    BY <1>3
  <2>2. P[k + 1] = F[xs]
    BY <1>3, <2>1
  <2>3. F[xs] = Longer(m, xs)
    OBVIOUS
  <2> QED
    BY <2>1, <2>2, <2>3
<1>5. PathsOf(P, m, s)
  BY <1>3, <1>4 DEF PathsOf
<1> HIDE DEF F
\* A path of k edges has seen k + 1 routers.
<1>6. \A k \in Nat : \A x \in P[k] : IsFiniteSet(x.seen) /\ Cardinality(x.seen) = k + 1
  <2> DEFINE T == {k \in Nat : \A x \in P[k] : IsFiniteSet(x.seen) /\ Cardinality(x.seen) = k + 1}
  <2>1. 0 \in T
    <3>1. \A x \in P[0] : x.seen = {s}
      BY <1>3 DEF Empty
    <3>2. IsFiniteSet({s}) /\ Cardinality({s}) = 1
      BY FS_Singleton
    <3>3. \A x \in P[0] : IsFiniteSet(x.seen) /\ Cardinality(x.seen) = 1
      <4> HIDE DEF S, T
      <4> QED
        BY <3>1, <3>2, Zenon
    <3>4. 0 \in Nat /\ 0 + 1 = 1
      OBVIOUS
    <3> HIDE DEF S
    <3> QED
      BY <3>3, <3>4
  <2>2. ASSUME NEW k \in T \cap Nat PROVE k + 1 \in T
    <3> SUFFICES ASSUME NEW y \in P[k + 1]
                 PROVE  IsFiniteSet(y.seen) /\ Cardinality(y.seen) = (k + 1) + 1
      OBVIOUS
    <3>1. PICK x \in P[k] : \E e \in incidencies[x.at] : e[2] \notin x.seen /\ y = Along(m, x, e)
      BY <1>4 DEF Longer
    <3>2. PICK e : e[2] \notin x.seen /\ y = Along(m, x, e)
      BY <3>1
    <3>3. y.seen = x.seen \cup {e[2]}
      BY <3>2 DEF Along
    <3>4. IsFiniteSet(x.seen) /\ Cardinality(x.seen) = k + 1
      OBVIOUS
    <3>5. Cardinality(x.seen \cup {e[2]}) = Cardinality(x.seen) + 1 /\ IsFiniteSet(x.seen \cup {e[2]})
      BY <3>2, <3>4, FS_AddElement
    <3> QED
      BY <3>3, <3>4, <3>5
  <2>3. Nat \subseteq T
    <3> HIDE DEF T
    <3> QED
      BY <2>1, <2>2, NatSets
  <2> QED
    BY <2>3
<1>7. \A k \in Nat : \A x \in P[k] : k + 1 <= N
  <2> SUFFICES ASSUME NEW k \in Nat, NEW x \in P[k]
               PROVE  k + 1 <= N
    OBVIOUS
  <2>1. x.seen \subseteq routers
    <3>1. x \in Paths
      BY <1>4
    <3> QED
      BY <3>1 DEF Paths
  <2>2. Cardinality(x.seen) <= N
    BY <1>0, <2>1, FS_Subset
  <2> QED
    BY <1>0, <1>6, <2>2
\* PathsFrom has them up to as many edges as there are routers.
<1>8. PathsFrom(m, s) = UNION {P[k] : k \in 1 .. N}
  <2> DEFINE Val(d, k) ==
               IF k = 0 THEN {[at |-> s, seen |-> {s}, weight |-> WeightZero]}
               ELSE UNION {{[at |-> e[2], seen |-> x.seen \cup {e[2]},
                             weight |-> WeightCombine(x.weight, EdgeWeight(m, e))] :
                            e \in {i \in incidencies[x.at] : i[2] \notin x.seen}} : x \in d[k - 1]}
             Is(d) == d = [k \in 0 .. Cardinality(routers) |->
               IF k = 0 THEN {[at |-> s, seen |-> {s}, weight |-> WeightZero]}
               ELSE UNION {{[at |-> e[2], seen |-> x.seen \cup {e[2]},
                             weight |-> WeightCombine(x.weight, EdgeWeight(m, e))] :
                            e \in {i \in incidencies[x.at] : i[2] \notin x.seen}} : x \in d[k - 1]}]
             D == CHOOSE d : Is(d)
  <2>1. ASSUME NEW k \in 0 .. N, k # 0
        PROVE  P[k] = Longer(m, P[k - 1])
    <3>1. k - 1 \in Nat /\ (k - 1) + 1 = k
      BY <1>0, <2>1
    <3> QED
      BY <1>4, <3>1
  <2>2. \E d : Is(d)
    <3> DEFINE E == [k \in 0 .. N |-> P[k]]
    <3>1. ASSUME NEW k \in 0 .. N
          PROVE  E[k] = Val(E, k)
      <4>1. CASE k = 0
        BY <1>3, <4>1 DEF Empty
      <4>2. CASE k # 0
        <5>1. E[k - 1] = P[k - 1]
          BY <1>0, <4>2
        <5>2. PICK xs : xs = P[k - 1]
          OBVIOUS
        <5>3. E[k] = Longer(m, xs)
          BY <2>1, <4>2, <5>2
        <5>4. Val(E, k) = Longer(m, xs)
          <6> HIDE DEF E
          <6> QED
            BY <4>2, <5>1, <5>2 DEF Longer, Along
        <5> QED
          BY <5>3, <5>4
      <4> QED
        BY <4>1, <4>2
    <3>2. E = [k \in 0 .. N |-> E[k]]
      OBVIOUS
    <3> HIDE DEF E
    <3>3. E = [k \in 0 .. N |-> Val(E, k)]
      BY <3>1, <3>2
    <3>4. Is(E)
      BY <3>3
    <3> HIDE DEF Is
    <3> QED
      BY <3>4
  <2>3. Is(D)
    <3> HIDE DEF Is
    <3> QED
      BY <2>2
  <2>4. PathsFrom(m, s) = UNION {D[k] : k \in 1 .. N}
    BY DEF PathsFrom
  <2>5. \A k \in 0 .. N : D[k] = Val(D, k)
    <3> HIDE DEF D
    <3> QED
      BY <2>3
  <2> HIDE DEF D, Is
  <2> DEFINE T == {k \in Nat : k \in 0 .. N => D[k] = P[k]}
  <2>6. 0 \in T
    <3>1. 0 \in 0 .. N
      BY <1>0
    <3>2. D[0] = Val(D, 0)
      <4> HIDE DEF Val, N
      <4> QED
        BY <2>5, <3>1
    <3>3. D[0] = P[0]
      BY <1>3, <3>2 DEF Empty
    <3> QED
      BY <3>3
  <2>7. ASSUME NEW k \in T \cap Nat PROVE k + 1 \in T
    <3> SUFFICES ASSUME k + 1 \in 0 .. N
                 PROVE  D[k + 1] = P[k + 1]
      OBVIOUS
    <3>1. k \in 0 .. N /\ k + 1 # 0 /\ (k + 1) - 1 = k
      BY <1>0
    <3>2. D[k] = P[k]
      BY <3>1
    <3>3. D[k + 1] = Val(D, k + 1)
      BY <2>5
    <3>4. PICK xs : xs = P[k]
      OBVIOUS
    <3>5. Val(D, k + 1) = Longer(m, xs)
      <4>1. D[(k + 1) - 1] = xs /\ k + 1 # 0
        BY <3>1, <3>2, <3>4
      <4> HIDE DEF T, S, N
      <4> QED
        BY <4>1 DEF Longer, Along
    <3>6. P[k + 1] = Longer(m, xs)
      BY <1>4, <3>4
    <3> QED
      BY <3>3, <3>5, <3>6
  <2>8. Nat \subseteq T
    <3> HIDE DEF T
    <3> QED
      BY <2>6, <2>7, NatSets
  <2>9. \A k \in 1 .. N : D[k] = P[k]
    BY <1>0, <2>8
  <2> HIDE DEF T, N
  <2> QED
    BY <2>4, <2>9
<1>9. PathsFrom(m, s) \subseteq UNION {P[k] : k \in Nat \ {0}}
  BY <1>0, <1>8
<1>10. ASSUME NEW k \in Nat \ {0}, NEW x \in P[k]
       PROVE  x \in PathsFrom(m, s)
  <2>1. k \in 1 .. N
    BY <1>0, <1>7
  <2> QED
    BY <1>8, <2>1
<1> QED
  BY <1>5, <1>9, <1>10

\* Routers are nodes or channels.
LEMMA RouterNames ==
  /\ \A n, c : Node(n) # Channel(c)
  /\ \A n1, n2 : Node(n1) = Node(n2) => n1 = n2
  /\ \A c1, c2 : Channel(c1) = Channel(c2) => c1 = c2
  BY DEF Node, Channel

\* Where a face leads, and which nodes come next.
LEMMA SideIs ==
  ASSUME NetworkOk, NEW f \in Faces
  PROVE  /\ IsP2p(f[1]) => \E g \in OtherSides(f) : OtherSides(f) = {g} /\ OtherSide(f) = Node(NodeOf(g))
         /\ ~IsP2p(f[1]) => OtherSide(f) = Channel(f[1])
         /\ \A i \in DOMAIN channels[f[1]] :
              /\ <<f[1], i>> \in Faces /\ NodeOf(<<f[1], i>>) = channels[f[1]][i]
              /\ <<f[1], i>> # f => <<f[1], i>> \in OtherSides(f)
<1>1. ASSUME NEW i \in DOMAIN channels[f[1]]
      PROVE  /\ <<f[1], i>> \in Faces /\ NodeOf(<<f[1], i>>) = channels[f[1]][i]
             /\ <<f[1], i>> # f => <<f[1], i>> \in OtherSides(f)
  <2>1. f[1] \in DOMAIN channels
    BY FaceType
  <2>2. <<f[1], i>> \in Faces
    BY <2>1 DEF Faces
  <2> QED
    BY <2>2 DEF NodeOf, OtherSides
<1>2. CASE IsP2p(f[1])
  <2>1. PICK g \in Faces : OtherSides(f) = {g}
    BY <1>2, OtherEnd
  <2>2. (CHOOSE h \in OtherSides(f) : TRUE) = g
    BY <2>1
  <2>3. OtherSide(f) = Node(NodeOf(g))
    BY <1>2, <2>2 DEF OtherSide
  <2> QED
    BY <1>2, <2>1, <2>3, <1>1
<1>3. CASE ~IsP2p(f[1])
  BY <1>1, <1>3 DEF OtherSide
<1> QED
  BY <1>1, <1>2, <1>3

\* How a path goes on.
LEMMA GoesAlong ==
  ASSUME Drawn, NEW m \in [Faces -> Nat], NEW x \in Paths, NEW e \in incidencies[x.at], e[2] \notin x.seen
  PROVE  /\ Along(m, x, e).at = e[2]
         /\ Along(m, x, e).seen = x.seen \cup {e[2]}
         /\ Along(m, x, e).weight[1] = IF x.weight[1] = NoFace THEN e[1] ELSE x.weight[1]
         /\ Along(m, x, e).weight[2] = x.weight[2] + IF e[1] = NoFace THEN 0 ELSE Uint16(m[e[1]])
         /\ x.weight[2] \in Nat /\ x.weight[1] \in Faces \cup {NoFace} /\ x.weight = <<x.weight[1], x.weight[2]>>
<1>1. x.weight \in (Faces \cup {NoFace}) \X Nat
  BY DEF Paths
<1>2. x.weight[2] \in Nat /\ x.weight[1] \in Faces \cup {NoFace} /\ x.weight = <<x.weight[1], x.weight[2]>>
  BY <1>1
<1>3. EdgeWeight(m, e)[1] = e[1] /\ EdgeWeight(m, e)[2] = IF e[1] = NoFace THEN 0 ELSE Uint16(m[e[1]])
  BY DEF EdgeWeight
<1>4. PICK y : y = Along(m, x, e)
  OBVIOUS
<1>5. y.at = e[2] /\ y.seen = x.seen \cup {e[2]} /\ y.weight = WeightCombine(x.weight, EdgeWeight(m, e))
  BY <1>4 DEF Along
<1>6. y.weight[1] = (IF x.weight[1] = NoFace THEN e[1] ELSE x.weight[1])
      /\ y.weight[2] = x.weight[2] + (IF e[1] = NoFace THEN 0 ELSE Uint16(m[e[1]]))
  BY <1>3, <1>5 DEF WeightCombine
<1> QED
  BY <1>2, <1>4, <1>5, <1>6

\* A path that has an edge has left its start over one of its faces.
LEMMA PathShape ==
  ASSUME Drawn, NEW m \in [Faces -> Nat], NEW s \in Nodes, NEW P, PathsOf(P, m, Node(s))
  PROVE  \A k \in Nat : \A x \in P[k] :
           /\ x \in Paths /\ x.at \in x.seen /\ Node(s) \in x.seen
           /\ k = 0 => x = Empty(Node(s))
           /\ k # 0 => x.at # Node(s) /\ x.weight[1] \in FacesOf(s)
<1> DEFINE Ok(k, x) == /\ x \in Paths /\ x.at \in x.seen /\ Node(s) \in x.seen
                       /\ k = 0 => x = Empty(Node(s))
                       /\ k # 0 => x.at # Node(s) /\ x.weight[1] \in FacesOf(s)
           T == {k \in Nat : \A x \in P[k] : Ok(k, x)}
<1>1. P[0] = {Empty(Node(s))} /\ \A k \in Nat : P[k] \subseteq Paths /\ P[k + 1] = Longer(m, P[k])
  BY DEF PathsOf
<1>2. 0 \in T
  <2>1. Empty(Node(s)) \in Paths
    BY <1>1
  <2>2. Ok(0, Empty(Node(s)))
    BY <2>1 DEF Empty
  <2> HIDE DEF Ok
  <2> QED
    BY <1>1, <2>2
<1>3. ASSUME NEW k \in T \cap Nat PROVE k + 1 \in T
  <2> SUFFICES ASSUME NEW y \in P[k + 1]
               PROVE  Ok(k + 1, y)
    <3> HIDE DEF Ok
    <3> QED
      OBVIOUS
  <2>1. PICK x \in P[k] : \E e \in incidencies[x.at] : e[2] \notin x.seen /\ y = Along(m, x, e)
    BY <1>1 DEF Longer
  <2>2. PICK e \in incidencies[x.at] : e[2] \notin x.seen /\ y = Along(m, x, e)
    BY <2>1
  <2>3. Ok(k, x)
    <3> HIDE DEF Ok
    <3> QED
      OBVIOUS
  <2>4. x \in Paths /\ x.at \in routers
    BY <2>3 DEF Paths
  <2>5. /\ y.at = e[2] /\ y.seen = x.seen \cup {e[2]}
        /\ y.weight[1] = IF x.weight[1] = NoFace THEN e[1] ELSE x.weight[1]
    BY <2>2, <2>4, GoesAlong
  <2>6. y \in Paths
    BY <2>2, <2>4, AlongType
  <2>7. y.weight[1] \in FacesOf(s)
    <3>1. CASE k = 0
      <4>1. x.at = Node(s) /\ x.weight[1] = NoFace
        BY <2>3, <3>1 DEF Empty, WeightZero
      <4>2. e[1] \in Faces /\ Node(s) = Node(NodeOf(e[1]))
        BY <2>4, <4>1, EdgesAre, RouterNames
      <4> QED
        BY <2>5, <4>1, <4>2, RouterNames DEF FacesOf
    <3>2. CASE k # 0
      <4>1. x.weight[1] \in FacesOf(s)
        BY <2>3, <3>2
      <4>2. x.weight[1] # NoFace
        BY <4>1, NoFaceIsNone DEF FacesOf, Drawn
      <4> QED
        BY <2>5, <4>1, <4>2
    <3> QED
      BY <3>1, <3>2
  <2>8. e[2] # Node(s)
    BY <2>2, <2>3
  <2> HIDE DEF T
  <2> QED
    BY <2>3, <2>5, <2>6, <2>7, <2>8
<1>4. Nat \subseteq T
  <2> HIDE DEF T
  <2> QED
    BY <1>2, <1>3, NatSets
<1> QED
  BY <1>4

\* Nodes that a path has visited or whose channel it has used.
Barring(x) ==
  {u \in Nodes : \/ Node(u) \in x.seen
                 \/ \E c \in DOMAIN channels : \E i \in DOMAIN channels[c] :
                      Channel(c) \in x.seen /\ channels[c][i] = u}

\* What a path y that goes on from x over link f, g has.
OneLinkMore(m, x, f, g, y) ==
  /\ y.at = Node(NodeOf(g))
  /\ y.weight[1] = IF x.weight[1] = NoFace THEN f ELSE x.weight[1]
  /\ y.weight[2] = x.weight[2] + Uint16(m[f])
  /\ Barring(y) \subseteq Barring(x) \cup {NodeOf(f)} \cup {NodeOf(h) : h \in OtherSides(f)}

\* A path goes on over any link to a node that it does not bar.
LEMMA OneLink ==
  ASSUME Drawn, NEW m \in [Faces -> Nat], NEW s \in Nodes, NEW P, PathsOf(P, m, Node(s)),
         NEW k \in Nat, NEW x \in P[k], NEW v \in Nodes, x.at = Node(v),
         NEW f \in FacesOf(v), NEW g \in OtherSides(f), NodeOf(g) \notin Barring(x)
  PROVE  \E j \in Nat \ {0} : \E y \in P[j] : OneLinkMore(m, x, f, g, y)
<1>0. NetworkOk
  BY DEF Drawn
<1>1. f \in Faces /\ NodeOf(f) = v /\ g \in Faces /\ NodeOf(g) \in Nodes /\ f[1] \in DOMAIN channels
  BY <1>0, LinkEnds, FaceType
<1>2. x \in Paths /\ x.at \in x.seen /\ x.at \in routers
  BY PathShape DEF Paths
<1>3. v \in Sources
  BY <1>2 DEF Sources
<1>4. <<f, OtherSide(f)>> \in incidencies[x.at]
  BY <1>3 DEF Drawn, GraphMirrorsNetwork
<1>5. g = <<g[1], g[2]>> /\ g[1] = f[1] /\ g[2] \in DOMAIN channels[f[1]] /\ NodeOf(g) = channels[f[1]][g[2]]
  BY <1>0, <1>1, FaceType DEF OtherSides, NodeOf
<1>6. f # NoFace
  BY <1>0, <1>1, NoFaceIsNone
<1>7. Node(NodeOf(g)) \notin x.seen /\ Channel(f[1]) \notin x.seen
  BY <1>1, <1>5 DEF Barring
\* Nodes on the channel of f.
<1>8. ASSUME NEW i \in DOMAIN channels[f[1]]
      PROVE  channels[f[1]][i] \in {NodeOf(f)} \cup {NodeOf(h) : h \in OtherSides(f)}
  <2>1. /\ <<f[1], i>> \in Faces /\ NodeOf(<<f[1], i>>) = channels[f[1]][i]
        /\ <<f[1], i>> # f => <<f[1], i>> \in OtherSides(f)
    BY <1>0, <1>1, SideIs
  <2> QED
    BY <2>1
<1>9. \A j \in Nat : P[j + 1] = Longer(m, P[j])
  BY DEF PathsOf
<1>10. \A j \in Nat : \A z \in P[j] : \A e \in incidencies[z.at] :
         e[2] \notin z.seen => Along(m, z, e) \in P[j + 1]
  BY <1>9 DEF Longer
<1>11. CASE IsP2p(f[1])
  <2>1. OtherSide(f) = Node(NodeOf(g))
    BY <1>0, <1>1, <1>11, SideIs
  <2>2. PICK e \in incidencies[x.at] : e = <<f, OtherSide(f)>>
    BY <1>4
  <2>3. e[1] = f /\ e[2] = Node(NodeOf(g)) /\ e[2] \notin x.seen
    BY <1>7, <2>1, <2>2
  <2>4. PICK y \in P[k + 1] : y = Along(m, x, e)
    BY <1>10, <2>3
  <2>5. /\ y.at = e[2] /\ y.seen = x.seen \cup {e[2]}
        /\ y.weight[1] = (IF x.weight[1] = NoFace THEN e[1] ELSE x.weight[1])
        /\ y.weight[2] = x.weight[2] + (IF e[1] = NoFace THEN 0 ELSE Uint16(m[e[1]]))
    BY <1>2, <2>3, <2>4, GoesAlong
  <2>6. Barring(y) \subseteq Barring(x) \cup {NodeOf(f)} \cup {NodeOf(h) : h \in OtherSides(f)}
    <3> SUFFICES ASSUME NEW u \in Barring(y), u \notin Barring(x)
                 PROVE  u \in {NodeOf(h) : h \in OtherSides(f)}
      OBVIOUS
    <3>1. u \in Nodes /\ (Node(u) \in y.seen \/ \E c \in DOMAIN channels : \E i \in DOMAIN channels[c] :
                                                  Channel(c) \in y.seen /\ channels[c][i] = u)
      BY DEF Barring
    <3>2. \A c : Channel(c) \in y.seen => Channel(c) \in x.seen
      BY <2>3, <2>5, RouterNames
    <3>3. Node(u) = Node(NodeOf(g))
      BY <2>3, <2>5, <3>1, <3>2 DEF Barring
    <3> QED
      BY <3>3, RouterNames
  <2>7. OneLinkMore(m, x, f, g, y)
    BY <1>6, <2>3, <2>5, <2>6 DEF OneLinkMore
  <2>8. k + 1 \in Nat \ {0}
    OBVIOUS
  <2> QED
    BY <2>7, <2>8
<1>12. CASE ~IsP2p(f[1])
  <2>1. OtherSide(f) = Channel(f[1])
    BY <1>0, <1>1, <1>12, SideIs
  <2>2. PICK e \in incidencies[x.at] : e = <<f, OtherSide(f)>>
    BY <1>4
  <2>3. e[1] = f /\ e[2] = Channel(f[1]) /\ e[2] \notin x.seen
    BY <1>7, <2>1, <2>2
  <2>4. PICK y \in P[k + 1] : y = Along(m, x, e)
    BY <1>10, <2>3
  <2>5. /\ y.at = e[2] /\ y.seen = x.seen \cup {e[2]}
        /\ y.weight[1] = (IF x.weight[1] = NoFace THEN e[1] ELSE x.weight[1])
        /\ y.weight[2] = x.weight[2] + (IF e[1] = NoFace THEN 0 ELSE Uint16(m[e[1]]))
        /\ x.weight[1] \in Faces \cup {NoFace}
    BY <1>2, <2>3, <2>4, GoesAlong
  <2>6. k + 1 \in Nat /\ y \in Paths
    BY PathShape
  <2>7. y.at \in routers
    BY <2>6 DEF Paths
  <2>8. PICK d \in incidencies[y.at] : d = <<NoFace, Node(NodeOf(g))>>
    <3>1. f[1] \in {c \in DOMAIN channels : Channel(c) \in routers}
      BY <1>1, <2>3, <2>5, <2>7
    <3>2. incidencies[Channel(f[1])] = {<<NoFace, Node(channels[f[1]][i])>> : i \in DOMAIN channels[f[1]]}
      BY <3>1 DEF Drawn, GraphMirrorsNetwork
    <3> QED
      BY <1>5, <2>3, <2>5, <3>2
  <2>9. d[1] = NoFace /\ d[2] = Node(NodeOf(g)) /\ d[2] \notin y.seen
    BY <1>7, <2>3, <2>5, <2>8, RouterNames
  <2>10. PICK z \in P[(k + 1) + 1] : z = Along(m, y, d)
    BY <1>10, <2>6, <2>9
  <2>11. /\ z.at = d[2] /\ z.seen = y.seen \cup {d[2]}
         /\ z.weight[1] = (IF y.weight[1] = NoFace THEN d[1] ELSE y.weight[1])
         /\ z.weight[2] = y.weight[2] + (IF d[1] = NoFace THEN 0 ELSE Uint16(m[d[1]]))
         /\ y.weight[2] \in Nat
    BY <2>6, <2>9, <2>10, GoesAlong
  <2>12. z.weight[2] = x.weight[2] + Uint16(m[f])
    BY <1>6, <2>3, <2>5, <2>9, <2>11
  <2>13. z.weight[1] = IF x.weight[1] = NoFace THEN f ELSE x.weight[1]
    BY <1>6, <2>3, <2>5, <2>9, <2>11
  <2>14. Barring(z) \subseteq Barring(x) \cup {NodeOf(f)} \cup {NodeOf(h) : h \in OtherSides(f)}
    <3> SUFFICES ASSUME NEW u \in Barring(z), u \notin Barring(x)
                 PROVE  u \in {NodeOf(f)} \cup {NodeOf(h) : h \in OtherSides(f)}
      OBVIOUS
    <3>1. u \in Nodes /\ (Node(u) \in z.seen \/ \E c \in DOMAIN channels : \E i \in DOMAIN channels[c] :
                                                  Channel(c) \in z.seen /\ channels[c][i] = u)
      BY DEF Barring
    <3>2. z.seen = x.seen \cup {Channel(f[1]), Node(NodeOf(g))}
      BY <2>3, <2>5, <2>9, <2>11
    <3>3. CASE Node(u) \in z.seen
      <4>1. Node(u) = Node(NodeOf(g))
        BY <3>1, <3>2, <3>3, RouterNames DEF Barring
      <4> QED
        BY <4>1, RouterNames
    <3>4. CASE \E c \in DOMAIN channels : \E i \in DOMAIN channels[c] :
                 Channel(c) \in z.seen /\ channels[c][i] = u
      <4>1. PICK c \in DOMAIN channels : \E i \in DOMAIN channels[c] :
                 Channel(c) \in z.seen /\ channels[c][i] = u
        BY <3>4
      <4>2. Channel(c) = Channel(f[1])
        BY <3>1, <3>2, <4>1, RouterNames DEF Barring
      <4>3. c = f[1]
        BY <4>2, RouterNames
      <4> QED
        BY <1>8, <4>1, <4>3
    <3> QED
      BY <3>1, <3>3, <3>4
  <2>15. OneLinkMore(m, x, f, g, z)
    BY <2>9, <2>11, <2>12, <2>13, <2>14 DEF OneLinkMore
  <2>16. (k + 1) + 1 \in Nat \ {0}
    OBVIOUS
  <2> QED
    BY <2>15, <2>16
<1> QED
  BY <1>11, <1>12

\* From v a way of i links is left, and no node that the path bars has one as short
\* with fewer links.
Open(C, x, i, v) == \A j \in Nat : i = j + 1 => \A u \in Barring(x) : C[i][v] < C[j][u]

\* Metrics are the configured ones but for nodes that are avoided.
Configured(m, avoid) == \A f \in Faces : NodeOf(f) \notin avoid => Uint16(m[f]) = Uint16(configured[f])

\* y has come to o from x at a further cost of c.
Arrives(x, y, o, c) ==
  /\ y.at = Node(o) /\ y.weight[2] = x.weight[2] + c
  /\ x.weight[1] # NoFace => y.weight[1] = x.weight[1]

\* Following the costs leads to o by a path that Dijkstra knows.
LEMMA CostIsReached ==
  ASSUME Drawn, MetricsOk, NEW m \in [Faces -> Nat], NEW s \in Nodes, NEW P, PathsOf(P, m, Node(s)),
         NEW o \in Nodes, NEW avoid, NEW C, CostsTo(C, o, avoid), Configured(m, avoid)
  PROVE  \A i \in Nat : \A k \in Nat : \A x \in P[k] : \A v \in Nodes :
           x.at = Node(v) /\ C[i][v] < WeightInf /\ Open(C, x, i, v) =>
             \E j \in Nat : \E y \in P[j] : Arrives(x, y, o, C[i][v])
<1> DEFINE Ok(i) == \A k \in Nat : \A x \in P[k] : \A v \in Nodes :
                      x.at = Node(v) /\ C[i][v] < WeightInf /\ Open(C, x, i, v) =>
                        \E j \in Nat : \E y \in P[j] : Arrives(x, y, o, C[i][v])
           T == {i \in Nat : Ok(i)}
<1>0. NetworkOk
  BY DEF Drawn
<1>1. /\ C \in [Nat -> [Nodes -> Nat]] /\ Shorter(C, o, avoid)
      /\ \A n \in Nodes : C[0][n] = IF n = o THEN 0 ELSE WeightInf
      /\ \A k \in Nat : \A n \in avoid \cap Nodes : C[k][n] = WeightInf
  BY DEF CostsTo
<1>2. \A i \in Nat : \A n \in Nodes : C[i][n] \in Nat
  BY <1>1
<1>3. 0 \in T
  <2> SUFFICES ASSUME NEW k \in Nat, NEW x \in P[k], NEW v \in Nodes, x.at = Node(v), C[0][v] < WeightInf
               PROVE  \E j \in Nat : \E y \in P[j] : Arrives(x, y, o, C[0][v])
    OBVIOUS
  <2>1. v = o /\ C[0][v] = 0
    BY <1>1 DEF WeightInf
  <2>2. x.weight[2] \in Nat
    <3>1. x \in Paths
      BY PathShape
    <3> QED
      BY <3>1 DEF Paths
  <2>3. Arrives(x, x, o, 0)
    BY <2>1, <2>2 DEF Arrives
  <2> QED
    BY <2>1, <2>3
<1>4. ASSUME NEW i \in T \cap Nat PROVE i + 1 \in T
  <2> SUFFICES ASSUME NEW k \in Nat, NEW x \in P[k], NEW v \in Nodes, x.at = Node(v),
                      C[i + 1][v] < WeightInf, Open(C, x, i + 1, v)
               PROVE  \E j \in Nat : \E y \in P[j] : Arrives(x, y, o, C[i + 1][v])
    <3> HIDE DEF T
    <3>1. Ok(i + 1)
      OBVIOUS
    <3> HIDE DEF Ok
    <3> QED
      BY <3>1 DEF T
  <2>0. Ok(i)
    OBVIOUS
  <2> HIDE DEF T
  <2>1. i + 1 \in Nat /\ \A u \in Barring(x) : C[i + 1][v] < C[i][u]
    BY DEF Open
  <2>2. v \in Barring(x)
    <3>1. x.at \in x.seen
      BY PathShape
    <3> QED
      BY <3>1 DEF Barring
  <2>3. C[i + 1][v] < C[i][v]
    BY <2>1, <2>2
  <2>20. PICK f \in FacesOf(v) : \E g \in OtherSides(f) : C[i + 1][v] = Uint16(configured[f]) + C[i][NodeOf(g)]
    <3>1. C[i + 1][v] # C[i][v]
      BY <1>2, <2>1, <2>3
    <3> QED
      BY <1>1, <3>1 DEF Shorter
  <2>4. PICK g \in OtherSides(f) : C[i + 1][v] = Uint16(configured[f]) + C[i][NodeOf(g)]
    BY <2>20
  <2>5. PICK w \in Nodes : w = NodeOf(g)
    BY <1>0, LinkEnds
  <2>6. f \in Faces /\ NodeOf(f) = v /\ Uint16(configured[f]) \in Nat
    BY <1>0, LinkEnds, Uint16Nat DEF MetricsOk
  <2>7. v \notin avoid
    BY <1>1, <2>1 DEF WeightInf
  <2>8. Uint16(m[f]) = Uint16(configured[f])
    BY <2>6, <2>7 DEF Configured
  <2>9. C[i][w] <= C[i + 1][v] /\ C[i + 1][v] = Uint16(m[f]) + C[i][w]
    BY <1>2, <2>1, <2>4, <2>5, <2>6, <2>8
  <2>10. w \notin Barring(x)
    <3> SUFFICES ASSUME w \in Barring(x)
                 PROVE  FALSE
      OBVIOUS
    <3>1. C[i + 1][v] < C[i][w]
      BY <2>1
    <3> QED
      BY <1>2, <2>1, <2>9, <3>1
  <2>21. PICK j \in Nat \ {0} : \E y \in P[j] : OneLinkMore(m, x, f, g, y)
    BY <2>5, <2>10, OneLink
  <2>11. PICK y \in P[j] : OneLinkMore(m, x, f, g, y)
    BY <2>21
  <2>12. /\ y.at = Node(w) /\ y.weight[2] = x.weight[2] + Uint16(m[f])
         /\ y.weight[1] = IF x.weight[1] = NoFace THEN f ELSE x.weight[1]
         /\ Barring(y) \subseteq Barring(x) \cup {v} \cup {NodeOf(h) : h \in OtherSides(f)}
    BY <2>5, <2>6, <2>11 DEF OneLinkMore
  <2>13. Open(C, y, i, w)
    <3> SUFFICES ASSUME NEW h \in Nat, i = h + 1, NEW u \in Barring(y)
                 PROVE  C[i][w] < C[h][u]
      BY DEF Open
    <3>0. u \in Nodes
      BY DEF Barring
    <3>1. CASE u \in Barring(x) \cup {v}
      <4>1. C[i + 1][v] < C[i][u]
        BY <2>1, <2>3, <3>1
      <4>2. C[h + 1][u] <= C[h][u]
        BY <1>1, <3>0 DEF Shorter
      <4> QED
        BY <1>2, <2>1, <2>9, <3>0, <4>1, <4>2
    <3>2. CASE u \in {NodeOf(d) : d \in OtherSides(f)}
      <4>1. PICK d \in OtherSides(f) : u = NodeOf(d)
        BY <3>2
      <4>2. C[h + 1][v] <= Uint16(configured[f]) + C[h][u]
        BY <1>1, <2>7, <4>1 DEF Shorter
      <4> QED
        BY <1>2, <2>1, <2>3, <2>6, <2>8, <2>9, <3>0, <4>2
    <3> QED
      BY <2>12, <3>1, <3>2
  <2>14. C[i][w] < WeightInf
    BY <1>2, <2>1, <2>9 DEF WeightInf
  <2>22. PICK j2 \in Nat : \E z \in P[j2] : Arrives(y, z, o, C[i][w])
    BY <2>0, <2>12, <2>13, <2>14
  <2>15. PICK z \in P[j2] : Arrives(y, z, o, C[i][w])
    BY <2>22
  <2>16. Arrives(x, z, o, C[i + 1][v])
    <3>1. x.weight[2] \in Nat
      <4>1. x \in Paths
        BY PathShape
      <4> QED
        BY <4>1 DEF Paths
    <3>2. Uint16(m[f]) \in Nat /\ C[i][w] \in Nat
      BY <1>2, <2>6, Uint16Nat
    <3>3. z.weight[2] = x.weight[2] + C[i + 1][v]
      BY <2>9, <2>12, <2>15, <3>1, <3>2 DEF Arrives
    <3> QED
      BY <2>12, <2>15, <3>3 DEF Arrives
  <2> QED
    BY <2>16
<1>5. Nat \subseteq T
  <2> HIDE DEF T
  <2> QED
    BY <1>3, <1>4, NatSets
<1> QED
  BY <1>5

-----------------------------------------------------------------------------
(* No path is cheaper than the costs. *)

NodesSeen(x) == {n \in Nodes : Node(n) \in x.seen}

\* B bounds the cost of paths from s by their first face and the number of links that
\* follow.
FirstLink(B, C, m, s) ==
  \A f \in FacesOf(s) : \A j \in Nat : \A g \in OtherSides(f) : B[f][j] <= Uint16(m[f]) + C[j][NodeOf(g)]

\* A path at node v over h links after the first; on a channel it comes to a node that
\* it has not seen.
FarOnNode(B, C, x, h, v) ==
  h + 2 <= Cardinality(NodesSeen(x)) /\ \A j \in Nat : B[x.weight[1]][j + h] <= x.weight[2] + C[j][v]
FarOnChannel(B, C, x, h, c) ==
  /\ h + 1 <= Cardinality(NodesSeen(x))
  /\ \A i \in DOMAIN channels[c] : Node(channels[c][i]) \notin x.seen =>
       \A j \in Nat : B[x.weight[1]][j + h] <= x.weight[2] + C[j][channels[c][i]]
Far(B, C, x, h) ==
  /\ \A v \in Nodes : x.at = Node(v) => FarOnNode(B, C, x, h, v)
  /\ \A c \in DOMAIN channels : x.at = Channel(c) => FarOnChannel(B, C, x, h, c)

\* How many nodes a path has seen when it goes on.
LEMMA SeenMore ==
  ASSUME NetworkOk, NEW x, NEW y, NEW r, y.seen = x.seen \cup {r}
  PROVE  /\ IsFiniteSet(NodesSeen(x)) /\ Cardinality(NodesSeen(x)) \in Nat /\ Cardinality(NodesSeen(y)) \in Nat
         /\ Cardinality(NodesSeen(x)) <= Cardinality(NodesSeen(y))
         /\ Cardinality(NodesSeen(y)) <= Cardinality(Nodes)
         /\ \A v \in Nodes : r = Node(v) /\ r \notin x.seen =>
              Cardinality(NodesSeen(y)) = Cardinality(NodesSeen(x)) + 1
<1>1. IsFiniteSet(Nodes) /\ NodesSeen(x) \subseteq Nodes /\ NodesSeen(y) \subseteq Nodes
  BY FiniteNetwork DEF NodesSeen
<1>2. IsFiniteSet(NodesSeen(x)) /\ IsFiniteSet(NodesSeen(y))
  BY <1>1, FS_Subset
<1>3. NodesSeen(x) \subseteq NodesSeen(y)
  BY DEF NodesSeen
<1>4. Cardinality(NodesSeen(x)) \in Nat /\ Cardinality(NodesSeen(y)) \in Nat
  BY <1>2, FS_CardinalityType
<1>5. Cardinality(NodesSeen(x)) <= Cardinality(NodesSeen(y))
  BY <1>2, <1>3, FS_Subset
<1>6. ASSUME NEW v \in Nodes, r = Node(v), r \notin x.seen
      PROVE  Cardinality(NodesSeen(y)) = Cardinality(NodesSeen(x)) + 1
  <2>1. v \notin NodesSeen(x)
    BY <1>6 DEF NodesSeen
  <2>2. NodesSeen(y) = NodesSeen(x) \cup {v}
    BY <1>6, RouterNames DEF NodesSeen
  <2> QED
    BY <1>2, <2>1, <2>2, FS_AddElement
<1>7. Cardinality(NodesSeen(y)) <= Cardinality(Nodes)
  BY <1>1, FS_Subset
<1> QED
  BY <1>2, <1>4, <1>5, <1>6, <1>7

\* The links that follow a face f, to nodes that were not seen.
LEMMA NextNodes ==
  ASSUME Drawn, NEW u \in Nodes, NEW f \in FacesOf(u), NEW seen, Node(u) \in seen
  PROVE  /\ \A v \in Nodes : OtherSide(f) = Node(v) => \E g \in OtherSides(f) : NodeOf(g) = v
         /\ \A c \in DOMAIN channels : OtherSide(f) = Channel(c) =>
              \A i \in DOMAIN channels[c] : Node(channels[c][i]) \notin seen =>
                \E g \in OtherSides(f) : NodeOf(g) = channels[c][i]
<1>1. NetworkOk /\ f \in Faces /\ NodeOf(f) = u
  BY DEF Drawn, FacesOf
<1>2. ASSUME NEW v \in Nodes, OtherSide(f) = Node(v)
      PROVE  \E g \in OtherSides(f) : NodeOf(g) = v
  <2>1. IsP2p(f[1])
    BY <1>1, <1>2, SideIs, RouterNames
  <2>2. PICK g \in OtherSides(f) : OtherSide(f) = Node(NodeOf(g))
    BY <1>1, <2>1, SideIs
  <2> QED
    BY <1>2, <2>2, RouterNames
<1>3. ASSUME NEW c \in DOMAIN channels, OtherSide(f) = Channel(c),
             NEW i \in DOMAIN channels[c], Node(channels[c][i]) \notin seen
      PROVE  \E g \in OtherSides(f) : NodeOf(g) = channels[c][i]
  <2>1. ~IsP2p(f[1])
    <3> SUFFICES ASSUME IsP2p(f[1])
                 PROVE  FALSE
      OBVIOUS
    <3>1. PICK g \in OtherSides(f) : OtherSide(f) = Node(NodeOf(g))
      BY <1>1, SideIs
    <3> QED
      BY <1>3, <3>1, RouterNames
  <2>2. c = f[1]
    BY <1>1, <1>3, <2>1, SideIs, RouterNames
  <2>3. /\ <<f[1], i>> \in Faces /\ NodeOf(<<f[1], i>>) = channels[f[1]][i]
        /\ <<f[1], i>> # f => <<f[1], i>> \in OtherSides(f)
    BY <1>1, <1>3, <2>2, SideIs
  <2>4. <<f[1], i>> # f
    BY <1>1, <1>3, <2>2, <2>3
  <2> QED
    BY <2>2, <2>3, <2>4
<1> QED
  BY <1>2, <1>3

\* What bounds the first link bounds every path.
LEMMA PathsCost ==
  ASSUME Drawn, MetricsOk, NEW m \in [Faces -> Nat], NEW s \in Nodes, NEW P, PathsOf(P, m, Node(s)),
         NEW o, NEW avoid \in SUBSET {s}, NEW C, CostsTo(C, o, avoid), Configured(m, avoid),
         NEW B \in [Faces -> [Nat -> Nat]], FirstLink(B, C, m, s)
  PROVE  \A k \in Nat \ {0} : \A x \in P[k] : \E h \in Nat : Far(B, C, x, h)
<1> DEFINE T == {k \in Nat : \A x \in P[k + 1] : \E h \in Nat : Far(B, C, x, h)}
<1>0. NetworkOk
  BY DEF Drawn
<1>1. C \in [Nat -> [Nodes -> Nat]] /\ Shorter(C, o, avoid)
  BY DEF CostsTo
<1>2. \A k \in Nat : P[k + 1] = Longer(m, P[k])
  BY DEF PathsOf
\* A link after a path with h links.
<1>3. ASSUME NEW x \in Paths, NEW e \in incidencies[x.at], e[2] \notin x.seen,
             NEW y, y = Along(m, x, e), NEW u \in Nodes, x.at = Node(u), Node(u) \in x.seen
      PROVE  /\ e[1] \in FacesOf(u) /\ e[2] = OtherSide(e[1]) /\ e[1] # NoFace
             /\ y.weight[2] = x.weight[2] + Uint16(m[e[1]]) /\ x.weight[2] \in Nat
             /\ y.at = e[2] /\ y.seen = x.seen \cup {e[2]}
             /\ y.weight[1] = IF x.weight[1] = NoFace THEN e[1] ELSE x.weight[1]
             /\ \A v \in Nodes : y.at = Node(v) => \E g \in OtherSides(e[1]) : NodeOf(g) = v
             /\ \A c \in DOMAIN channels : y.at = Channel(c) =>
                  \A i \in DOMAIN channels[c] : Node(channels[c][i]) \notin y.seen =>
                    \E g \in OtherSides(e[1]) : NodeOf(g) = channels[c][i]
  <2>1. x.at \in routers
    BY DEF Paths
  <2>2. e[1] \in Faces /\ x.at = Node(NodeOf(e[1])) /\ e[2] = OtherSide(e[1])
    BY <1>3, <2>1, EdgesAre, RouterNames
  <2>3. e[1] \in FacesOf(u) /\ e[1] # NoFace
    BY <1>0, <1>3, <2>2, NoFaceIsNone, RouterNames DEF FacesOf
  <2>4. /\ y.at = e[2] /\ y.seen = x.seen \cup {e[2]}
        /\ y.weight[1] = (IF x.weight[1] = NoFace THEN e[1] ELSE x.weight[1])
        /\ y.weight[2] = x.weight[2] + (IF e[1] = NoFace THEN 0 ELSE Uint16(m[e[1]]))
        /\ x.weight[2] \in Nat
    BY <1>3, GoesAlong
  <2>5. Node(u) \in y.seen
    BY <1>3, <2>4
  <2>6. PICK f \in FacesOf(u) : f = e[1]
    BY <2>3
  <2>7. /\ \A v \in Nodes : OtherSide(f) = Node(v) => \E g \in OtherSides(f) : NodeOf(g) = v
        /\ \A c \in DOMAIN channels : OtherSide(f) = Channel(c) =>
             \A i \in DOMAIN channels[c] : Node(channels[c][i]) \notin y.seen =>
               \E g \in OtherSides(f) : NodeOf(g) = channels[c][i]
    BY <2>5, NextNodes
  <2> QED
    BY <2>2, <2>3, <2>4, <2>6, <2>7
<1>4. 0 \in T
  <2> SUFFICES ASSUME NEW y \in P[1]
               PROVE  Far(B, C, y, 0)
    OBVIOUS
  <2>1. PICK x \in P[0] : \E e \in incidencies[x.at] : e[2] \notin x.seen /\ y = Along(m, x, e)
    <3>1. P[0 + 1] = Longer(m, P[0]) /\ 0 + 1 = 1
      BY <1>2
    <3> QED
      BY <3>1 DEF Longer
  <2>2. PICK e \in incidencies[x.at] : e[2] \notin x.seen /\ y = Along(m, x, e)
    BY <2>1
  <2>3. x = Empty(Node(s)) /\ x \in Paths
    BY PathShape
  <2>4. x.at = Node(s) /\ x.seen = {Node(s)} /\ x.weight[1] = NoFace /\ x.weight[2] = 0
    BY <2>3 DEF Empty, WeightZero
  <2>5. /\ e[1] \in FacesOf(s)
        /\ y.weight[2] = x.weight[2] + Uint16(m[e[1]])
        /\ y.at = e[2] /\ y.seen = x.seen \cup {e[2]}
        /\ y.weight[1] = (IF x.weight[1] = NoFace THEN e[1] ELSE x.weight[1])
        /\ \A v \in Nodes : y.at = Node(v) => \E g \in OtherSides(e[1]) : NodeOf(g) = v
        /\ \A c \in DOMAIN channels : y.at = Channel(c) =>
             \A i \in DOMAIN channels[c] : Node(channels[c][i]) \notin y.seen =>
               \E g \in OtherSides(e[1]) : NodeOf(g) = channels[c][i]
    <3>1. x \in Paths /\ x.at = Node(s) /\ Node(s) \in x.seen /\ s \in Nodes
      BY <2>3, <2>4
    <3>2. e \in incidencies[x.at] /\ e[2] \notin x.seen /\ y = Along(m, x, e)
      BY <2>2
    <3> QED
      BY <1>3, <3>1, <3>2
  <2>6. Uint16(m[e[1]]) \in Nat
    BY <2>5, Uint16Nat DEF FacesOf
  <2>7. y.weight[2] = Uint16(m[e[1]]) /\ y.weight[1] = e[1]
    BY <2>4, <2>5, <2>6
  <2>8. \A j \in Nat : \A g \in OtherSides(e[1]) : B[y.weight[1]][j + 0] <= y.weight[2] + C[j][NodeOf(g)]
    <3>1. ASSUME NEW j \in Nat, NEW g \in OtherSides(e[1])
          PROVE  B[y.weight[1]][j + 0] <= y.weight[2] + C[j][NodeOf(g)]
      <4>1. j + 0 = j
        OBVIOUS
      <4>2. B[e[1]][j] <= Uint16(m[e[1]]) + C[j][NodeOf(g)]
        BY <2>5 DEF FirstLink
      <4> QED
        BY <2>7, <4>1, <4>2
    <3> QED
      BY <3>1
  <2>9. NodesSeen(x) = {s}
    BY <2>4, RouterNames DEF NodesSeen
  <2>10. Cardinality(NodesSeen(x)) = 1
    BY <2>9, FS_Singleton
  <2>11. /\ Cardinality(NodesSeen(y)) \in Nat
         /\ Cardinality(NodesSeen(x)) <= Cardinality(NodesSeen(y))
         /\ \A v \in Nodes : e[2] = Node(v) /\ e[2] \notin x.seen =>
              Cardinality(NodesSeen(y)) = Cardinality(NodesSeen(x)) + 1
    BY <1>0, <2>5, SeenMore
  <2>12. ASSUME NEW v \in Nodes, y.at = Node(v)
         PROVE  FarOnNode(B, C, y, 0, v)
    <3>1. 0 + 2 <= Cardinality(NodesSeen(y))
      BY <2>2, <2>5, <2>10, <2>11, <2>12
    <3> QED
      BY <2>5, <2>8, <2>12, <3>1 DEF FarOnNode
  <2>13. ASSUME NEW c \in DOMAIN channels, y.at = Channel(c)
         PROVE  FarOnChannel(B, C, y, 0, c)
    <3>1. 0 + 1 <= Cardinality(NodesSeen(y))
      BY <2>10, <2>11
    <3> QED
      BY <2>5, <2>8, <2>13, <3>1 DEF FarOnChannel
  <2> QED
    BY <2>12, <2>13 DEF Far
<1>5. ASSUME NEW k \in T \cap Nat PROVE k + 1 \in T
  <2> SUFFICES ASSUME NEW y \in P[(k + 1) + 1]
               PROVE  \E h \in Nat : Far(B, C, y, h)
    OBVIOUS
  <2>0. k + 1 \in Nat /\ k + 1 # 0
    OBVIOUS
  <2>1. PICK x \in P[k + 1] : \E e \in incidencies[x.at] : e[2] \notin x.seen /\ y = Along(m, x, e)
    BY <1>2, <2>0 DEF Longer
  <2>2. PICK e \in incidencies[x.at] : e[2] \notin x.seen /\ y = Along(m, x, e)
    BY <2>1
  <2>3. PICK h \in Nat : Far(B, C, x, h)
    OBVIOUS
  <2> HIDE DEF T
  <2>4. /\ x \in Paths /\ x.at \in x.seen /\ x.at \in routers /\ x.at # Node(s)
        /\ x.weight[1] \in FacesOf(s) /\ x.weight[1] # NoFace /\ x.weight[1] \in Faces
    BY <1>0, <2>0, PathShape, NoFaceIsNone DEF Paths, FacesOf
  <2>5. /\ y.at = e[2] /\ y.seen = x.seen \cup {e[2]} /\ y.weight[1] = x.weight[1]
        /\ y.weight[2] = x.weight[2] + (IF e[1] = NoFace THEN 0 ELSE Uint16(m[e[1]]))
        /\ x.weight[2] \in Nat
    BY <2>2, <2>4, GoesAlong
  <2>6. /\ Cardinality(NodesSeen(y)) \in Nat /\ Cardinality(NodesSeen(x)) \in Nat
        /\ Cardinality(NodesSeen(x)) <= Cardinality(NodesSeen(y))
        /\ \A v \in Nodes : e[2] = Node(v) /\ e[2] \notin x.seen =>
             Cardinality(NodesSeen(y)) = Cardinality(NodesSeen(x)) + 1
    BY <1>0, <2>5, SeenMore
  <2>7. PICK b \in [Nat -> Nat] : b = B[x.weight[1]]
    BY <2>4
  <2>8. CASE \E u \in Nodes : x.at = Node(u)
    <3>1. PICK u \in Nodes : x.at = Node(u)
      BY <2>8
    <3>2. /\ e[1] \in FacesOf(u) /\ e[1] # NoFace
          /\ \A v \in Nodes : y.at = Node(v) => \E g \in OtherSides(e[1]) : NodeOf(g) = v
          /\ \A c \in DOMAIN channels : y.at = Channel(c) =>
               \A i \in DOMAIN channels[c] : Node(channels[c][i]) \notin y.seen =>
                 \E g \in OtherSides(e[1]) : NodeOf(g) = channels[c][i]
      BY <1>3, <2>2, <2>4, <3>1
    <3>3. e[1] \in Faces /\ NodeOf(e[1]) = u /\ u \notin avoid /\ Uint16(configured[e[1]]) \in Nat
      BY <2>4, <3>1, <3>2, Uint16Nat DEF FacesOf, MetricsOk
    <3>4. y.weight[2] = x.weight[2] + Uint16(configured[e[1]])
      BY <2>5, <3>2, <3>3 DEF Configured
    <3>5. FarOnNode(B, C, x, h, u)
      BY <2>3, <3>1 DEF Far
    <3>6. ASSUME NEW g \in OtherSides(e[1]), NEW j \in Nat
          PROVE  b[j + (h + 1)] <= y.weight[2] + C[j][NodeOf(g)]
      <4>1. PICK j1 \in Nat : j1 = j + 1 /\ j + (h + 1) = j1 + h
        <5>1. j + 1 \in Nat /\ j + (h + 1) = (j + 1) + h
          OBVIOUS
        <5> QED
          BY <5>1
      <4>2. b[j1 + h] <= x.weight[2] + C[j1][u]
        BY <2>7, <3>5 DEF FarOnNode
      <4>3. C[j1][u] <= Uint16(configured[e[1]]) + C[j][NodeOf(g)]
        BY <1>1, <3>2, <3>3, <4>1 DEF Shorter
      <4>4. C[j1][u] \in Nat /\ C[j][NodeOf(g)] \in Nat /\ b[j1 + h] \in Nat
        <5>1. NodeOf(g) \in Nodes
          BY <1>0, <3>2, LinkEnds
        <5>2. j1 + h \in Nat
          OBVIOUS
        <5>3. C[j1] \in [Nodes -> Nat] /\ C[j] \in [Nodes -> Nat] /\ u \in Nodes
          BY <1>1
        <5>4. C[j1][u] \in Nat /\ C[j][NodeOf(g)] \in Nat
          BY <5>1, <5>3
        <5> QED
          BY <2>7, <5>2, <5>4
      <4>5. b[j1 + h] <= (x.weight[2] + Uint16(configured[e[1]])) + C[j][NodeOf(g)]
        BY <2>5, <3>3, <4>2, <4>3, <4>4
      <4> QED
        BY <3>4, <4>1, <4>5
    <3>7. h + 2 <= Cardinality(NodesSeen(x))
      BY <3>5 DEF FarOnNode
    <3>8. ASSUME NEW v \in Nodes, y.at = Node(v)
          PROVE  FarOnNode(B, C, y, h + 1, v)
      <4>1. (h + 1) + 2 <= Cardinality(NodesSeen(y))
        BY <2>2, <2>5, <2>6, <3>7, <3>8
      <4>2. \A j \in Nat : b[j + (h + 1)] <= y.weight[2] + C[j][v]
        BY <3>2, <3>6, <3>8
      <4> QED
        BY <2>5, <2>7, <4>1, <4>2 DEF FarOnNode
    <3>9. ASSUME NEW c \in DOMAIN channels, y.at = Channel(c)
          PROVE  FarOnChannel(B, C, y, h + 1, c)
      <4>1. (h + 1) + 1 <= Cardinality(NodesSeen(y))
        BY <2>6, <3>7
      <4>2. \A i \in DOMAIN channels[c] : Node(channels[c][i]) \notin y.seen =>
              \A j \in Nat : b[j + (h + 1)] <= y.weight[2] + C[j][channels[c][i]]
        BY <3>2, <3>6, <3>9
      <4> QED
        BY <2>5, <2>7, <4>1, <4>2 DEF FarOnChannel
    <3>10. h + 1 \in Nat /\ Far(B, C, y, h + 1)
      BY <3>8, <3>9 DEF Far
    <3> QED
      BY <3>10
  <2>9. CASE ~\E u \in Nodes : x.at = Node(u)
    <3>1. e[1] \in Faces => NodeOf(e[1]) \in Nodes
      BY <1>0, FaceType
    <3>2. PICK c \in DOMAIN channels : \E i \in DOMAIN channels[c] :
                 x.at = Channel(c) /\ e[1] = NoFace /\ e[2] = Node(channels[c][i])
      BY <2>4, <2>9, <3>1, EdgesAre
    <3>3. PICK i \in DOMAIN channels[c] : x.at = Channel(c) /\ e[1] = NoFace /\ e[2] = Node(channels[c][i])
      BY <3>2
    <3>4. FarOnChannel(B, C, x, h, c)
      BY <2>3, <3>3 DEF Far
    <3>5. y.weight[2] = x.weight[2]
      BY <2>5, <3>3
    <3>6. \A j \in Nat : b[j + h] <= y.weight[2] + C[j][channels[c][i]]
      BY <2>2, <2>7, <3>3, <3>4, <3>5 DEF FarOnChannel
    <3>7. h + 1 <= Cardinality(NodesSeen(x))
      BY <3>4 DEF FarOnChannel
    <3>8. ASSUME NEW v \in Nodes, y.at = Node(v)
          PROVE  FarOnNode(B, C, y, h, v)
      <4>1. v = channels[c][i]
        BY <2>5, <3>3, <3>8, RouterNames
      <4>2. h + 2 <= Cardinality(NodesSeen(y))
        BY <2>2, <2>5, <2>6, <3>7, <3>8
      <4> QED
        BY <2>5, <2>7, <3>6, <4>1, <4>2 DEF FarOnNode
    <3>9. \A d \in DOMAIN channels : y.at # Channel(d)
      BY <2>5, <3>3, RouterNames
    <3> QED
      BY <3>8, <3>9 DEF Far
  <2> QED
    BY <2>8, <2>9
<1>6. Nat \subseteq T
  <2> HIDE DEF T
  <2> QED
    BY <1>4, <1>5, NatSets
<1>7. ASSUME NEW k \in Nat \ {0}, NEW x \in P[k]
      PROVE  \E h \in Nat : Far(B, C, x, h)
  <2>1. k - 1 \in Nat /\ (k - 1) + 1 = k
    OBVIOUS
  <2>2. k - 1 \in T
    BY <1>6, <2>1
  <2> QED
    BY <2>1, <2>2
<1> QED
  BY <1>7

-----------------------------------------------------------------------------
(* Dijkstra finds the costs. *)

\* The cheapest way on from face f when j links may follow, and what CostVia adds to the
\* metric of the face.
Through(C, j, f) == Min({WeightInf} \cup {C[j][NodeOf(g)] : g \in OtherSides(f)})
Rest(f, o) == LET without == CostTo(o, {NodeOf(f)})
              IN  Min({WeightInf} \cup {without[NodeOf(g)] : g \in OtherSides(f)})

\* It is the least of what the other sides need.
LEMMA ThroughIs ==
  ASSUME NetworkOk, NEW f \in Faces, NEW C, NEW o, NEW avoid, CostsTo(C, o, avoid), NEW j \in Nat
  PROVE  /\ Through(C, j, f) \in Nat /\ Through(C, j, f) <= WeightInf
         /\ \A g \in OtherSides(f) : Through(C, j, f) <= C[j][NodeOf(g)]
         /\ Through(C, j, f) = WeightInf \/ \E g \in OtherSides(f) : Through(C, j, f) = C[j][NodeOf(g)]
<1>1. PICK S : S = {WeightInf} \cup {C[j][NodeOf(g)] : g \in OtherSides(f)}
  OBVIOUS
<1>2. C[j] \in [Nodes -> Nat]
  BY DEF CostsTo
<1>3. \A g \in OtherSides(f) : NodeOf(g) \in Nodes
  BY FaceType DEF OtherSides
<1>4. S \subseteq Nat /\ S # {} /\ WeightInf \in S
  BY <1>1, <1>2, <1>3 DEF WeightInf
<1>5. Min(S) \in S /\ \A x \in S : Min(S) <= x
  BY <1>4, MinOf
<1>6. Through(C, j, f) = Min(S)
  BY <1>1 DEF Through
<1> QED
  BY <1>1, <1>4, <1>5, <1>6

\* More links make it no dearer.
LEMMA ThroughFalls ==
  ASSUME NetworkOk, NEW f \in Faces, NEW C, NEW o, NEW avoid, CostsTo(C, o, avoid),
         NEW j \in Nat, NEW k \in Nat, j <= k
  PROVE  Through(C, k, f) <= Through(C, j, f)
<1>1. \A i \in Nat : /\ Through(C, i, f) \in Nat /\ Through(C, i, f) <= WeightInf
                     /\ \A g \in OtherSides(f) : Through(C, i, f) <= C[i][NodeOf(g)]
                     /\ \/ Through(C, i, f) = WeightInf
                        \/ \E g \in OtherSides(f) : Through(C, i, f) = C[i][NodeOf(g)]
  BY ThroughIs
<1>2. CASE Through(C, j, f) = WeightInf
  BY <1>1, <1>2
<1>3. ASSUME NEW g \in OtherSides(f), Through(C, j, f) = C[j][NodeOf(g)]
      PROVE  Through(C, k, f) <= Through(C, j, f)
  <2>1. NodeOf(g) \in Nodes
    BY FaceType DEF OtherSides
  <2>2. C[k][NodeOf(g)] <= C[j][NodeOf(g)] /\ C[k][NodeOf(g)] \in Nat /\ C[j][NodeOf(g)] \in Nat
    BY <2>1, CostsFall
  <2>3. Through(C, k, f) <= C[k][NodeOf(g)] /\ Through(C, k, f) \in Nat
    BY <1>1
  <2> QED
    BY <1>3, <2>2, <2>3
<1> QED
  BY <1>1, <1>2, <1>3

\* CostVia in these terms.
LEMMA RestIs ==
  ASSUME NetworkOk, MetricsOk, NEW s \in Nodes, NEW o, o # s
  PROVE  \E C : /\ CostsTo(C, o, {s})
                /\ \A f \in FacesOf(s) : /\ Rest(f, o) = Through(C, Cardinality(Nodes), f)
                                         /\ CostVia(f, o) = Uint16(configured[f]) + Rest(f, o)
<1>1. PICK C : CostsTo(C, o, {s}) /\ CostTo(o, {s}) = C[Cardinality(Nodes)]
  BY CostToIs
<1>2. ASSUME NEW f \in FacesOf(s)
      PROVE  /\ Rest(f, o) = Through(C, Cardinality(Nodes), f)
             /\ CostVia(f, o) = Uint16(configured[f]) + Rest(f, o)
  <2>1. NodeOf(f) = s
    BY DEF FacesOf
  <2>2. Rest(f, o) = Through(C, Cardinality(Nodes), f)
    BY <1>1, <2>1 DEF Rest, Through
  <2>3. CostVia(f, o) = Uint16(configured[f]) + Rest(f, o)
    BY DEF CostVia, Rest
  <2> QED
    BY <2>2, <2>3
<1> QED
  BY <1>1, <1>2

\* It is a cost.
LEMMA RestType ==
  ASSUME NetworkOk, MetricsOk, NEW s \in Nodes, NEW f \in FacesOf(s), NEW o, o # s
  PROVE  Rest(f, o) \in Nat /\ CostVia(f, o) = Uint16(configured[f]) + Rest(f, o)
<1>1. f \in Faces /\ Cardinality(Nodes) \in Nat
  BY FiniteNetwork, FS_CardinalityType DEF FacesOf
<1>2. PICK C : /\ CostsTo(C, o, {s})
               /\ \A g \in FacesOf(s) : /\ Rest(g, o) = Through(C, Cardinality(Nodes), g)
                                        /\ CostVia(g, o) = Uint16(configured[g]) + Rest(g, o)
  BY RestIs
<1>3. Through(C, Cardinality(Nodes), f) \in Nat
  BY <1>1, <1>2, ThroughIs
<1> QED
  BY <1>2, <1>3

\* How many nodes there are to see.
LEMMA SeenAtMost ==
  ASSUME NetworkOk, NEW x, x.at \in x.seen
  PROVE  /\ Cardinality(NodesSeen(x)) \in Nat /\ Cardinality(Nodes) \in Nat
         /\ Cardinality(NodesSeen(x)) <= Cardinality(Nodes)
<1>1. x.seen = x.seen \cup {x.at}
  OBVIOUS
<1>2. Cardinality(NodesSeen(x)) \in Nat /\ Cardinality(NodesSeen(x)) <= Cardinality(Nodes)
  BY <1>1, SeenMore
<1>3. Cardinality(Nodes) \in Nat
  BY FiniteNetwork, FS_CardinalityType
<1> QED
  BY <1>2, <1>3

\* No path from s is cheaper than what its first face costs.
LEMMA NoneCheaper ==
  ASSUME Drawn, MetricsOk, NEW m \in [Faces -> Nat], NEW s \in Nodes, Node(s) \in routers,
         NEW o \in Nodes, o # s, Configured(m, {s}),
         NEW x \in PathsFrom(m, Node(s)), x.at = Node(o)
  PROVE  /\ x.weight[1] \in FacesOf(s) /\ x.weight[2] \in Nat /\ x.weight = <<x.weight[1], x.weight[2]>>
         /\ Rest(x.weight[1], o) \in Nat
         /\ Uint16(m[x.weight[1]]) + Rest(x.weight[1], o) <= x.weight[2]
<1> DEFINE N == Cardinality(Nodes)
           f == x.weight[1]
<1>0. NetworkOk
  BY DEF Drawn
<1>1. PICK P : /\ PathsOf(P, m, Node(s))
               /\ PathsFrom(m, Node(s)) \subseteq UNION {P[k] : k \in Nat \ {0}}
  BY PathsAre
<1>2. PICK k \in Nat \ {0} : x \in P[k]
  BY <1>1
<1>3. x \in Paths /\ x.at \in x.seen /\ f \in FacesOf(s)
  BY <1>1, <1>2, PathShape
<1>4. x.weight[2] \in Nat /\ x.weight = <<x.weight[1], x.weight[2]>> /\ f \in Faces
  <2>1. x.weight \in (Faces \cup {NoFace}) \X Nat
    BY <1>3 DEF Paths
  <2> QED
    BY <1>3, <2>1 DEF FacesOf
<1>5. PICK C : /\ CostsTo(C, o, {s})
               /\ \A g \in FacesOf(s) : Rest(g, o) = Through(C, N, g)
  <2>1. \E C : /\ CostsTo(C, o, {s})
               /\ \A g \in FacesOf(s) : /\ Rest(g, o) = Through(C, Cardinality(Nodes), g)
                                        /\ CostVia(g, o) = Uint16(configured[g]) + Rest(g, o)
    BY <1>0, RestIs
  <2> QED
    BY <2>1
<1>6. PICK B : B = [g \in Faces |-> [j \in Nat |-> Uint16(m[g]) + Through(C, j, g)]]
  OBVIOUS
<1>7. B \in [Faces -> [Nat -> Nat]]
  <2>1. \A g \in Faces : \A j \in Nat : Uint16(m[g]) + Through(C, j, g) \in Nat
    BY <1>0, <1>5, ThroughIs, Uint16Nat
  <2> QED
    BY <1>6, <2>1
<1>8. FirstLink(B, C, m, s)
  <2> SUFFICES ASSUME NEW d \in FacesOf(s), NEW j \in Nat, NEW g \in OtherSides(d)
               PROVE  B[d][j] <= Uint16(m[d]) + C[j][NodeOf(g)]
    BY DEF FirstLink
  <2>1. d \in Faces
    BY DEF FacesOf
  <2>2. Through(C, j, d) <= C[j][NodeOf(g)] /\ Through(C, j, d) \in Nat
    BY <1>0, <1>5, <2>1, ThroughIs
  <2>3. C[j][NodeOf(g)] \in Nat
    <3>1. NodeOf(g) \in Nodes
      BY <1>0, FaceType DEF OtherSides
    <3> QED
      BY <1>5, <3>1, CostsFall
  <2>4. B[d][j] = Uint16(m[d]) + Through(C, j, d) /\ Uint16(m[d]) \in Nat
    BY <1>6, <2>1, Uint16Nat
  <2> QED
    BY <2>2, <2>3, <2>4
<1>9. PICK h \in Nat : Far(B, C, x, h)
  <2>1. {s} \in SUBSET {s}
    OBVIOUS
  <2> QED
    BY <1>1, <1>2, <1>5, <1>7, <1>8, <2>1, PathsCost
<1>10. h + 2 <= Cardinality(NodesSeen(x)) /\ \A j \in Nat : B[f][j + h] <= x.weight[2] + C[j][o]
  BY <1>9 DEF Far, FarOnNode
<1>11. B[f][h] <= x.weight[2]
  <2>1. C[0][o] = 0
    BY <1>5 DEF CostsTo
  <2>2. B[f][0 + h] <= x.weight[2] + C[0][o]
    BY <1>10
  <2>3. 0 + h = h
    OBVIOUS
  <2> QED
    BY <1>4, <2>1, <2>2, <2>3
<1>12. N \in Nat /\ h <= N
  BY <1>0, <1>3, <1>10, SeenAtMost
<1>13. Through(C, N, f) <= Through(C, h, f) /\ Through(C, N, f) \in Nat /\ Through(C, h, f) \in Nat
  BY <1>0, <1>4, <1>5, <1>12, ThroughIs, ThroughFalls
<1>14. B[f][h] = Uint16(m[f]) + Through(C, h, f) /\ Uint16(m[f]) \in Nat
  BY <1>4, <1>6, Uint16Nat
<1>15. Uint16(m[f]) + Through(C, N, f) <= x.weight[2]
  BY <1>4, <1>11, <1>13, <1>14
<1> QED
  BY <1>3, <1>4, <1>5, <1>13, <1>15

\* Before it leaves, a path bars its start only.
LEMMA StartBars ==
  ASSUME NEW s \in Nodes
  PROVE  Barring(Empty(Node(s))) = {s}
  BY RouterNames DEF Barring, Empty

\* The least number with a property.
LEMMA LeastWith ==
  ASSUME NEW T, T \subseteq Nat, NEW k \in T
  PROVE  \E i \in T : i <= k /\ \A j \in Nat : i = j + 1 => j \notin T /\ j <= k
<1>1. PICK i \in T : \A j \in T : i <= j
  BY LeastOf
<1> QED
  BY <1>1

\* Over a face that leads to o, a path from s comes there at what the face costs.
LEMMA ViaIsReached ==
  ASSUME Drawn, MetricsOk, NEW m \in [Faces -> Nat], NEW s \in Nodes, Node(s) \in routers,
         NEW o \in Nodes, o # s, Configured(m, {s}), NEW f \in FacesOf(s), Rest(f, o) < WeightInf
  PROVE  \E x \in PathsFrom(m, Node(s)) :
           x.at = Node(o) /\ x.weight[1] = f /\ x.weight[2] = Uint16(m[f]) + Rest(f, o)
<1> DEFINE N == Cardinality(Nodes)
<1>0. NetworkOk /\ f \in Faces /\ NodeOf(f) = s /\ f # NoFace /\ Uint16(m[f]) \in Nat
  BY NoFaceIsNone, Uint16Nat DEF Drawn, FacesOf
<1>1. PICK P : /\ PathsOf(P, m, Node(s))
               /\ \A k \in Nat \ {0} : P[k] \subseteq PathsFrom(m, Node(s))
  BY PathsAre
<1>2. PICK C : CostsTo(C, o, {s}) /\ Rest(f, o) = Through(C, N, f)
  <2> HIDE DEF N
  <2>1. PICK C : /\ CostsTo(C, o, {s})
                 /\ \A g \in FacesOf(s) :
                      /\ Rest(g, o) = Through(C, Cardinality(Nodes), g)
                      /\ CostVia(g, o) = Uint16(configured[g]) + Rest(g, o)
    BY <1>0, RestIs
  <2> QED
    BY <2>1 DEF N
<1>3. PICK V : V = Through(C, N, f)
  OBVIOUS
<1>4. N \in Nat
  BY <1>0, FiniteNetwork, FS_CardinalityType
<1>5. /\ V \in Nat /\ V < WeightInf
      /\ \A g \in OtherSides(f) : V <= C[N][NodeOf(g)]
      /\ \E g \in OtherSides(f) : V = C[N][NodeOf(g)]
  <2>1. V < WeightInf /\ V # WeightInf
    BY <1>2, <1>3 DEF WeightInf
  <2> QED
    BY <1>0, <1>2, <1>3, <1>4, <2>1, ThroughIs
<1>6. \A n \in Nodes : /\ \A j \in Nat : C[j][n] \in Nat
                       /\ \A j, k \in Nat : j <= k => C[k][n] <= C[j][n]
  BY <1>2, CostsFall
<1>7. \A j \in Nat : C[j][s] = WeightInf
  BY <1>2 DEF CostsTo
<1>8. PICK T : T = {j \in Nat : \E g \in OtherSides(f) : C[j][NodeOf(g)] = V}
  OBVIOUS
<1>9. PICK i \in T : \A j \in Nat : i = j + 1 => j \notin T /\ j <= N
  <2>1. T \subseteq Nat /\ N \in T
    BY <1>4, <1>5, <1>8
  <2>2. PICK k \in T : k = N
    BY <2>1
  <2>3. \E i \in T : i <= k /\ \A j \in Nat : i = j + 1 => j \notin T /\ j <= k
    BY <2>1, LeastWith
  <2> QED
    BY <2>2, <2>3
<1>10. i \in Nat
  BY <1>8
<1>11. PICK g \in OtherSides(f) : C[i][NodeOf(g)] = V
  BY <1>8
<1>12. PICK w \in Nodes : w = NodeOf(g)
  BY <1>0, FaceType DEF OtherSides
<1>13. w # s
  BY <1>5, <1>7, <1>10, <1>11, <1>12 DEF WeightInf
\* The first link.
<1>14. PICK x \in P[0] : x = Empty(Node(s))
  BY <1>1 DEF PathsOf
<1>15. x.at = Node(s) /\ x.weight[1] = NoFace /\ x.weight[2] = 0 /\ Barring(x) = {s}
  BY <1>14, StartBars DEF Empty, WeightZero
<1>16. PICK k \in Nat \ {0} : \E y \in P[k] : OneLinkMore(m, x, f, g, y)
  <2>1. NodeOf(g) \notin Barring(x) /\ 0 \in Nat
    BY <1>12, <1>13, <1>15
  <2> QED
    BY <1>1, <1>15, <2>1, OneLink
<1>17. PICK y \in P[k] : OneLinkMore(m, x, f, g, y)
  BY <1>16
<1>18. /\ y.at = Node(w) /\ y.weight[1] = f /\ y.weight[2] = Uint16(m[f])
       /\ Barring(y) \subseteq {s} \cup {NodeOf(h) : h \in OtherSides(f)}
  BY <1>0, <1>12, <1>15, <1>17 DEF OneLinkMore
\* The rest.
<1>19. Open(C, y, i, w)
  <2> SUFFICES ASSUME NEW j \in Nat, i = j + 1, NEW u \in Barring(y)
               PROVE  C[i][w] < C[j][u]
    BY DEF Open
  <2>1. j \notin T /\ j <= N /\ C[i][w] = V
    BY <1>9, <1>11, <1>12
  <2>2. CASE u = s
    BY <1>5, <1>7, <2>1, <2>2
  <2>3. CASE u \in {NodeOf(h) : h \in OtherSides(f)}
    <3>1. PICK h \in OtherSides(f) : u = NodeOf(h)
      BY <2>3
    <3>2. u \in Nodes
      BY DEF Barring
    <3>3. C[j][u] # V
      BY <1>8, <2>1, <3>1
    <3>4. C[N][u] <= C[j][u] /\ V <= C[N][u]
      BY <1>4, <1>5, <1>6, <2>1, <3>1, <3>2
    <3>5. C[j][u] \in Nat /\ C[N][u] \in Nat
      BY <1>4, <1>6, <3>2
    <3> QED
      BY <1>5, <2>1, <3>3, <3>4, <3>5
  <2> QED
    BY <1>18, <2>2, <2>3
<1>20. PICK l \in Nat : \E z \in P[l] : Arrives(y, z, o, V)
  <2>1. y.at = Node(w) /\ C[i][w] = V /\ C[i][w] < WeightInf /\ k \in Nat
    BY <1>5, <1>11, <1>12, <1>18
  <2>2. \E l \in Nat : \E z \in P[l] : Arrives(y, z, o, C[i][w])
    BY <1>1, <1>2, <1>10, <1>19, <2>1, CostIsReached
  <2> QED
    BY <2>1, <2>2
<1>21. PICK z \in P[l] : Arrives(y, z, o, V)
  BY <1>20
<1>22. z.at = Node(o) /\ z.weight[1] = f /\ z.weight[2] = Uint16(m[f]) + V
  BY <1>0, <1>18, <1>21 DEF Arrives
<1>23. l # 0
  <2> SUFFICES ASSUME l = 0
               PROVE  FALSE
    OBVIOUS
  <2>1. z.at = Node(s)
    BY <1>1, <1>21 DEF PathsOf, Empty
  <2> QED
    BY <1>22, <2>1, RouterNames
<1> QED
  BY <1>1, <1>2, <1>3, <1>21, <1>22, <1>23

\* Where no node is avoided CostTo is what the cheapest path costs.
LEMMA CheapestPath ==
  ASSUME Drawn, MetricsOk, NEW m \in [Faces -> Nat], NEW s \in Nodes, Node(s) \in routers,
         NEW o \in Nodes, o # s, Configured(m, {})
  PROVE  /\ CostTo(o, {})[s] \in Nat
         /\ \A x \in PathsFrom(m, Node(s)) : x.at = Node(o) => CostTo(o, {})[s] <= x.weight[2]
         /\ CostTo(o, {})[s] < WeightInf =>
              \E x \in PathsFrom(m, Node(s)) : x.at = Node(o) /\ x.weight[2] = CostTo(o, {})[s]
<1> DEFINE N == Cardinality(Nodes)
<1>0. NetworkOk
  BY DEF Drawn
<1>1. PICK P : /\ PathsOf(P, m, Node(s))
               /\ PathsFrom(m, Node(s)) \subseteq UNION {P[k] : k \in Nat \ {0}}
               /\ \A k \in Nat \ {0} : P[k] \subseteq PathsFrom(m, Node(s))
  BY PathsAre
<1>2. PICK C : CostsTo(C, o, {}) /\ CostTo(o, {}) = C[N]
  BY <1>0, CostToIs
<1>3. PICK V : V = C[N][s]
  OBVIOUS
<1>4. N \in Nat
  BY <1>0, FiniteNetwork, FS_CardinalityType
<1>5. /\ \A j \in Nat : C[j][s] \in Nat
      /\ \A j, k \in Nat : j <= k => C[k][s] <= C[j][s]
  BY <1>2, CostsFall
<1>6. ASSUME NEW x \in PathsFrom(m, Node(s)), x.at = Node(o)
      PROVE  V <= x.weight[2]
  <2>1. PICK k \in Nat \ {0} : x \in P[k]
    BY <1>1
  <2>2. x \in Paths /\ x.at \in x.seen /\ x.weight[1] \in FacesOf(s)
    BY <1>1, <2>1, PathShape
  <2>3. x.weight[2] \in Nat /\ x.weight[1] \in Faces
    BY <2>2 DEF Paths, FacesOf
  <2>4. PICK B : B = [g \in Faces |-> [j \in Nat |-> C[j + 1][s]]]
    OBVIOUS
  <2>5. B \in [Faces -> [Nat -> Nat]]
    <3>1. \A j \in Nat : C[j + 1][s] \in Nat
      BY <1>5
    <3> QED
      BY <2>4, <3>1
  <2>6. FirstLink(B, C, m, s)
    <3> SUFFICES ASSUME NEW d \in FacesOf(s), NEW j \in Nat, NEW g \in OtherSides(d)
                 PROVE  B[d][j] <= Uint16(m[d]) + C[j][NodeOf(g)]
      BY DEF FirstLink
    <3>1. d \in Faces /\ Uint16(m[d]) = Uint16(configured[d])
      BY DEF FacesOf, Configured
    <3>2. B[d][j] = C[j + 1][s]
      BY <2>4, <3>1
    <3>3. C[j + 1][s] <= Uint16(configured[d]) + C[j][NodeOf(g)]
      BY <1>2 DEF CostsTo, Shorter
    <3> QED
      BY <3>1, <3>2, <3>3
  <2>7. PICK h \in Nat : Far(B, C, x, h)
    <3>1. {} \in SUBSET {s}
      OBVIOUS
    <3> QED
      BY <1>1, <1>2, <2>1, <2>5, <2>6, <3>1, PathsCost
  <2>8. h + 2 <= Cardinality(NodesSeen(x)) /\ \A j \in Nat : B[x.weight[1]][j + h] <= x.weight[2] + C[j][o]
    BY <1>6, <2>7 DEF Far, FarOnNode
  <2>9. B[x.weight[1]][h] <= x.weight[2]
    <3>1. C[0][o] = 0
      BY <1>2 DEF CostsTo
    <3>2. B[x.weight[1]][0 + h] <= x.weight[2] + C[0][o]
      BY <2>8
    <3>3. 0 + h = h
      OBVIOUS
    <3> QED
      BY <2>3, <3>1, <3>2, <3>3
  <2>10. h + 1 \in Nat /\ h + 1 <= N
    BY <1>0, <2>2, <2>8, SeenAtMost
  <2>11. C[N][s] <= C[h + 1][s] /\ C[N][s] \in Nat /\ C[h + 1][s] \in Nat
    BY <1>4, <1>5, <2>10
  <2>12. B[x.weight[1]][h] = C[h + 1][s]
    BY <2>3, <2>4
  <2> QED
    BY <1>3, <2>3, <2>9, <2>11, <2>12
<1>7. ASSUME V < WeightInf
      PROVE  \E x \in PathsFrom(m, Node(s)) : x.at = Node(o) /\ x.weight[2] = V
  <2>1. PICK T : T = {j \in Nat : C[j][s] = V}
    OBVIOUS
  <2>2. PICK i \in T : \A j \in Nat : i = j + 1 => j \notin T /\ j <= N
    <3>1. T \subseteq Nat /\ N \in T
      BY <1>3, <1>4, <2>1
    <3>2. PICK k \in T : k = N
      BY <3>1
    <3>3. \E i \in T : i <= k /\ \A j \in Nat : i = j + 1 => j \notin T /\ j <= k
      BY <3>1, LeastWith
    <3> QED
      BY <3>2, <3>3
  <2>3. i \in Nat /\ C[i][s] = V
    BY <2>1
  <2>4. PICK x \in P[0] : x = Empty(Node(s))
    BY <1>1 DEF PathsOf
  <2>5. x.at = Node(s) /\ x.weight[2] = 0 /\ Barring(x) = {s}
    BY <2>4, StartBars DEF Empty, WeightZero
  <2>6. Open(C, x, i, s)
    <3> SUFFICES ASSUME NEW j \in Nat, i = j + 1
                 PROVE  C[i][s] < C[j][s]
      BY <2>5 DEF Open
    <3>1. j \notin T /\ j <= N
      BY <2>2
    <3>2. C[j][s] # V /\ C[N][s] <= C[j][s] /\ C[j][s] \in Nat /\ C[N][s] \in Nat
      BY <1>4, <1>5, <2>1, <3>1
    <3> QED
      BY <1>3, <2>3, <3>2
  <2>7. PICK l \in Nat : \E z \in P[l] : Arrives(x, z, o, V)
    <3>1. C[i][s] < WeightInf /\ 0 \in Nat
      BY <1>7, <2>3
    <3>2. \E l \in Nat : \E z \in P[l] : Arrives(x, z, o, C[i][s])
      BY <1>1, <1>2, <2>3, <2>5, <2>6, <3>1, CostIsReached
    <3> QED
      BY <2>3, <3>2
  <2>8. PICK z \in P[l] : Arrives(x, z, o, V)
    BY <2>7
  <2>9. V \in Nat
    BY <1>3, <1>4, <1>5
  <2>10. z.at = Node(o) /\ z.weight[2] = V
    BY <2>5, <2>8, <2>9 DEF Arrives
  <2>11. l # 0
    <3> SUFFICES ASSUME l = 0
                 PROVE  FALSE
      OBVIOUS
    <3>1. z.at = Node(s)
      BY <1>1, <2>8 DEF PathsOf, Empty
    <3> QED
      BY <2>10, <3>1, RouterNames
  <2> QED
    BY <1>1, <2>8, <2>10, <2>11
<1>8. V = CostTo(o, {})[s] /\ V \in Nat
  BY <1>2, <1>3, <1>4, <1>5
<1> QED
  BY <1>6, <1>7, <1>8

-----------------------------------------------------------------------------
(* What Dijkstra returns, and the routes made of it. *)

\* For each origin d has a face of n and what it costs, which no other face undercuts; an
\* origin that a face leads to is there.
BestOf(d, m, n) ==
  /\ DOMAIN d \subseteq Nodes \ {n}
  /\ \A o \in DOMAIN d :
       /\ d[o][1] \in FacesOf(n) /\ d[o][2] \in Nat /\ d[o][2] < WeightInf
       /\ d[o][2] = Uint16(m[d[o][1]]) + Rest(d[o][1], o)
       /\ \A f \in FacesOf(n) : Uint16(m[f]) + Rest(f, o) < WeightInf => d[o][2] <= Uint16(m[f]) + Rest(f, o)
  /\ \A o \in Nodes \ {n} : \A f \in FacesOf(n) :
       localPrefixes[o] # {} /\ Uint16(m[f]) + Rest(f, o) < WeightInf => o \in DOMAIN d

\* For each origin d has the weight of a path that no other path undercuts.
LEMMA DistancesAre ==
  ASSUME NEW m, NEW n, NEW d \in Distances(m, n)
  PROVE  /\ \A o \in DOMAIN d :
              /\ o \in Nodes \ {n}
              /\ \E x \in PathsFrom(m, Node(n)) : x.at = Node(o) /\ x.weight = d[o] /\ x.weight[2] < WeightInf
              /\ \A x \in PathsFrom(m, Node(n)) :
                   x.at = Node(o) /\ x.weight[2] < WeightInf => d[o][2] <= x.weight[2]
         /\ \A o \in Nodes \ {n} : \A x \in PathsFrom(m, Node(n)) :
              localPrefixes[o] # {} /\ x.at = Node(o) /\ x.weight[2] < WeightInf => o \in DOMAIN d
<1> DEFINE paths == Finite(m, Node(n))
           reached == {o \in Nodes \ {n} : localPrefixes[o] # {} /\ \E x \in paths : x.at = Node(o)}
           Best(o) == LET ws == {x.weight : x \in {y \in paths : y.at = Node(o)}}
                      IN  {w \in ws : \A v \in ws : w[2] <= v[2]}
<1>1. Distances(m, n)
        = {e \in [reached -> UNION {Best(o) : o \in reached}] : \A o \in reached : e[o] \in Best(o)}
  BY DEF Distances
<1>2. DOMAIN d = reached /\ \A o \in reached : d[o] \in Best(o)
  <2> HIDE DEF reached, Best
  <2> QED
    BY <1>1
<1>3. \A x : x \in paths <=> x \in PathsFrom(m, Node(n)) /\ x.weight[2] < WeightInf
  BY DEF Finite
<1>4. ASSUME NEW o \in reached
      PROVE  /\ \E x \in paths : x.at = Node(o) /\ x.weight = d[o]
             /\ \A x \in paths : x.at = Node(o) => d[o][2] <= x.weight[2]
  <2>1. PICK ws : ws = {x.weight : x \in {y \in paths : y.at = Node(o)}}
    OBVIOUS
  <2>2. d[o] \in ws /\ \A v \in ws : d[o][2] <= v[2]
    BY <1>2, <2>1
  <2> HIDE DEF paths, reached, Best
  <2> QED
    BY <2>1, <2>2
<1>5. \A o \in reached : o \in Nodes \ {n}
  OBVIOUS
<1>6. \A o \in Nodes \ {n} : \A x \in paths : localPrefixes[o] # {} /\ x.at = Node(o) => o \in reached
  OBVIOUS
<1> HIDE DEF paths, reached, Best
<1> QED
  BY <1>2, <1>3, <1>4, <1>5, <1>6

\* Where the metrics of other nodes are the configured ones, these are the best faces.
LEMMA DistancesBest ==
  ASSUME Drawn, MetricsOk, NEW m \in [Faces -> Nat], NEW n \in Nodes, Node(n) \in routers,
         Configured(m, {n}), NEW d \in Distances(m, n)
  PROVE  BestOf(d, m, n)
<1>1. ASSUME NEW o \in Nodes \ {n}, NEW x \in PathsFrom(m, Node(n)), x.at = Node(o)
      PROVE  /\ x.weight[1] \in FacesOf(n) /\ x.weight[2] \in Nat
             /\ Rest(x.weight[1], o) \in Nat
             /\ Uint16(m[x.weight[1]]) + Rest(x.weight[1], o) <= x.weight[2]
  BY <1>1, NoneCheaper
<1>2. ASSUME NEW o \in Nodes \ {n}, NEW f \in FacesOf(n), Uint16(m[f]) + Rest(f, o) < WeightInf
      PROVE  \E x \in PathsFrom(m, Node(n)) :
               x.at = Node(o) /\ x.weight[2] = Uint16(m[f]) + Rest(f, o)
  <2>1. Uint16(m[f]) \in Nat
    BY Uint16Nat DEF FacesOf
  <2>2. Rest(f, o) \in Nat
    <3>1. NetworkOk
      BY DEF Drawn
    <3> QED
      BY <3>1, RestType
  <2>3. Rest(f, o) < WeightInf
    BY <1>2, <2>1, <2>2 DEF WeightInf
  <2> QED
    BY <2>3, ViaIsReached
<1>3. ASSUME NEW o \in DOMAIN d
      PROVE  /\ o \in Nodes \ {n}
             /\ d[o][1] \in FacesOf(n) /\ d[o][2] \in Nat /\ d[o][2] < WeightInf
             /\ d[o][2] = Uint16(m[d[o][1]]) + Rest(d[o][1], o)
             /\ \A f \in FacesOf(n) : Uint16(m[f]) + Rest(f, o) < WeightInf => d[o][2] <= Uint16(m[f]) + Rest(f, o)
  <2>1. o \in Nodes \ {n}
    BY DistancesAre
  <2>2. PICK x \in PathsFrom(m, Node(n)) : x.at = Node(o) /\ x.weight = d[o] /\ x.weight[2] < WeightInf
    BY DistancesAre
  <2>3. /\ d[o][1] \in FacesOf(n) /\ d[o][2] \in Nat
        /\ Rest(d[o][1], o) \in Nat
        /\ Uint16(m[d[o][1]]) + Rest(d[o][1], o) <= d[o][2]
    BY <1>1, <2>1, <2>2
  <2>4. ASSUME NEW f \in FacesOf(n), Uint16(m[f]) + Rest(f, o) < WeightInf
        PROVE  d[o][2] <= Uint16(m[f]) + Rest(f, o)
    <3>1. PICK y \in PathsFrom(m, Node(n)) : y.at = Node(o) /\ y.weight[2] = Uint16(m[f]) + Rest(f, o)
      BY <1>2, <2>1, <2>4
    <3> QED
      BY <2>4, <3>1, DistancesAre
  <2>5. PICK f \in FacesOf(n) : f = d[o][1]
    BY <2>3
  <2>6. Uint16(m[f]) \in Nat /\ Rest(f, o) \in Nat /\ Uint16(m[f]) + Rest(f, o) <= d[o][2] /\ d[o][2] < WeightInf
    BY <2>2, <2>3, <2>5, Uint16Nat DEF FacesOf
  <2>7. Uint16(m[f]) + Rest(f, o) < WeightInf
    BY <2>3, <2>6 DEF WeightInf
  <2>8. d[o][2] = Uint16(m[f]) + Rest(f, o)
    BY <2>3, <2>4, <2>6, <2>7
  <2> QED
    BY <2>1, <2>3, <2>4, <2>5, <2>6, <2>8
<1>4. ASSUME NEW o \in Nodes \ {n}, NEW f \in FacesOf(n), localPrefixes[o] # {}, Uint16(m[f]) + Rest(f, o) < WeightInf
      PROVE  o \in DOMAIN d
  <2>1. PICK x \in PathsFrom(m, Node(n)) : x.at = Node(o) /\ x.weight[2] = Uint16(m[f]) + Rest(f, o)
    BY <1>2, <1>4
  <2> QED
    BY <1>4, <2>1, DistancesAre
<1> QED
  BY <1>3, <1>4 DEF BestOf

\* Where all metrics are, they are also the cheapest ways.
LEMMA DistancesCheapest ==
  ASSUME Drawn, MetricsOk, NEW m \in [Faces -> Nat], NEW n \in Nodes, Node(n) \in routers,
         Configured(m, {}), NEW d \in Distances(m, n), NEW o \in Nodes, o # n,
         localPrefixes[o] # {}, CostTo(o, {})[n] < WeightInf
  PROVE  /\ o \in DOMAIN d /\ d[o][2] = CostTo(o, {})[n]
         /\ CostTo(o, {})[n] \in Nat
<1>1. PICK cost \in Nat : cost = CostTo(o, {})[n]
  BY CheapestPath
<1>2. PICK x \in PathsFrom(m, Node(n)) : x.at = Node(o) /\ x.weight[2] = cost
  BY <1>1, CheapestPath
<1>3. o \in DOMAIN d /\ d[o][2] <= cost
  BY <1>1, <1>2, DistancesAre
<1>4. PICK y \in PathsFrom(m, Node(n)) : y.at = Node(o) /\ y.weight = d[o]
  BY <1>3, DistancesAre
<1>5. cost <= d[o][2] /\ d[o][2] \in Nat
  <2>1. Configured(m, {n})
    BY DEF Configured
  <2> QED
    BY <1>1, <1>4, <2>1, CheapestPath, NoneCheaper
<1> QED
  BY <1>1, <1>3, <1>5

\* AddRoutes keeps a next hop or gives it the cost of some origin over its face.
LEMMA RoutesAdded ==
  ASSUME NEW m, NEW d, NEW skip \in BOOLEAN, AddRoutes(m, d, skip), IsFiniteSet(DOMAIN d),
         NEW f \in Faces, NEW p \in Names, NEW via,
         via = {o \in DOMAIN d : d[o][1] = f /\ p \in localPrefixes[o] /\ ~(skip /\ m[f] = Disabled)}
  PROVE  /\ via = {} => fib'[f][p] = fib[f][p]
         /\ via # {} => \E o \in via : fib'[f][p] = d[o][2]
<1>1. PICK order \in {o \in [DOMAIN d -> 1 .. Cardinality(DOMAIN d)] : IsInjective(o)} :
        fib' = [g \in Faces |-> [q \in Names |->
          LET through == {o \in DOMAIN d : /\ d[o][1] = g /\ q \in localPrefixes[o]
                                          /\ ~(skip /\ m[g] = Disabled)}
              last == CHOOSE o \in through : \A x \in through : order[x] <= order[o]
          IN  IF through = {} THEN fib[g][q] ELSE d[last][2]]]
  BY DEF AddRoutes
<1>2. fib'[f][p] = IF via = {} THEN fib[f][p]
                   ELSE d[CHOOSE o \in via : \A x \in via : order[x] <= order[o]][2]
  BY <1>1
<1>3. ASSUME via # {}
      PROVE  \E o \in via : \A x \in via : order[x] <= order[o]
  <2>1. PICK S : S = {order[x] : x \in via}
    OBVIOUS
  <2>2. IsFiniteSet(via) /\ via \subseteq DOMAIN d
    BY FS_Subset
  <2>3. PICK g : g = [x \in via |-> order[x]]
    OBVIOUS
  <2>4. IsFiniteSet({g[x] : x \in via})
    BY <2>2, <2>3, FiniteImage
  <2>5. {g[x] : x \in via} = S
    BY <2>1, <2>3
  <2>6. \A x \in via : order[x] \in 1 .. Cardinality(DOMAIN d)
    BY <1>1, <2>2
  <2>7. S \subseteq Nat /\ S # {}
    BY <1>3, <2>1, <2>6
  <2>8. Max(S) \in S /\ \A y \in S : y <= Max(S)
    BY <2>4, <2>5, <2>7, MaxOf
  <2> QED
    BY <2>1, <2>8
<1>4. ASSUME via # {}
      PROVE  \E o \in via : fib'[f][p] = d[o][2]
  <2>1. PICK last : last = CHOOSE o \in via : \A x \in via : order[x] <= order[o]
    OBVIOUS
  <2>2. last \in via
    BY <1>3, <1>4, <2>1
  <2> QED
    BY <1>2, <1>4, <2>1, <2>2
<1> QED
  BY <1>2, <1>4

-----------------------------------------------------------------------------
(* What the calculations start from. *)

\* Faces have metrics, and nodes prefixes.
RouteTypes ==
  /\ metric \in [Faces -> Nat] /\ configured \in [Faces -> Nat]
  /\ DOMAIN localPrefixes = Nodes

\* A network is built whose faces have metrics.
Metered(net) == Build(net) /\ metric' \in [Faces' -> Nat]

\* The faces of links.
LEMMA PairFaces ==
  ASSUME NEW made \in Seq(TwoEnded)
  PROVE  UNION {{<<c, i>> : i \in DOMAIN made[c]} : c \in DOMAIN made} = (DOMAIN made) \X (1 .. 2)
<1>1. ASSUME NEW c \in DOMAIN made
      PROVE  DOMAIN made[c] = 1 .. 2
  <2>1. made[c] \in TwoEnded
    OBVIOUS
  <2> QED
    BY <2>1 DEF TwoEnded
<1> QED
  BY <1>1

\* ApplyOspfMetric gives them metrics.
LEMMA OspfType ==
  ASSUME NEW link \in LinkSet
  PROVE  link.ospf \in Nat
<1>1. ASSUME NEW b \in DrawnBandwidths
      PROVE  Ospf(b) \in Nat
  <2>1. b \in Nat /\ b # 0
    BY RatesAssumption DEF DrawnBandwidths
  <2>2. ReferenceOspfRate \div b \in Nat
    BY <2>1, RatesAssumption
  <2>3. PICK r \in Nat : r = ReferenceOspfRate \div b
    BY <2>2
  <2>4. {1, r} \subseteq Nat /\ {1, r} # {} /\ IsFiniteSet({1, r})
    <3>1. {1, r} = {1} \cup {r}
      OBVIOUS
    <3>2. IsFiniteSet({1}) /\ IsFiniteSet({r})
      BY FS_Singleton
    <3>3. IsFiniteSet({1} \cup {r})
      BY <3>2, FS_Union
    <3> QED
      BY <3>1, <3>3
  <2>5. Max({1, r}) \in {1, r}
    BY <2>4, MaxOf
  <2> QED
    BY <2>3, <2>5 DEF Ospf
<1> QED
  BY <1>1, OspfAssumption DEF LinkSet

\* The network of a file.
LEMMA FileNetwork ==
  ASSUME FileInv, Build(NetworkOf(m_linksList))
  PROVE  Metered(NetworkOf(m_linksList))
<1> DEFINE made == [i \in DOMAIN m_linksList |-> <<m_linksList[i].from, m_linksList[i].to>>]
<1>1. m_linksList \in Seq(LinkSet)
  BY DEF FileInv
<1>2. ASSUME NEW i \in DOMAIN m_linksList
      PROVE  /\ <<m_linksList[i].from, m_linksList[i].to>> \in TwoEnded
             /\ m_linksList[i].ospf \in Nat
  <2>1. m_linksList[i] \in LinkSet
    BY <1>1
  <2>2. m_linksList[i].from \in Nat /\ m_linksList[i].to \in Nat
    BY <2>1, RoutersAssumption DEF LinkSet
  <2> QED
    BY <2>1, <2>2, PairIsTwoEnded, OspfType
<1>3. DOMAIN m_linksList = 1 .. Len(m_linksList) /\ Len(m_linksList) \in Nat
  BY <1>1
<1>4. made \in [1 .. Len(m_linksList) -> TwoEnded]
  BY <1>2, <1>3
<1>5. made \in Seq(TwoEnded)
  <2> HIDE DEF made
  <2> QED
    BY <1>3, <1>4
<1>6. channels' = made /\ metric' = [f \in (DOMAIN m_linksList) \X (1 .. 2) |-> m_linksList[f[1]].ospf]
  BY DEF Build, NetworkOf
<1>7. DOMAIN made = DOMAIN m_linksList
  OBVIOUS
<1>8. Faces' = (DOMAIN m_linksList) \X (1 .. 2)
  <2>1. Faces' = UNION {{<<c, i>> : i \in DOMAIN channels'[c]} : c \in DOMAIN channels'}
    BY DEF Faces
  <2> HIDE DEF made
  <2> QED
    BY <1>5, <1>6, <1>7, <2>1, PairFaces
<1>9. metric' \in [Faces' -> Nat]
  <2>1. \A f \in (DOMAIN m_linksList) \X (1 .. 2) : m_linksList[f[1]].ospf \in Nat
    BY <1>2
  <2> QED
    BY <1>6, <1>8, <2>1
<1> QED
  BY <1>9 DEF Metered

\* A network that was made by hand.
LEMMA HandMadeNetwork ==
  ASSUME NEW net \in Networks, Build(net)
  PROVE  Metered(net)
<1>1. /\ net.metric \in [UNION {{<<c, i>> : i \in DOMAIN net.channels[c]} :
                                c \in DOMAIN net.channels} -> Nat]
  BY NetworksAssumption
<1>2. channels' = net.channels /\ metric' = net.metric
  BY DEF Build
<1>3. Faces' = UNION {{<<c, i>> : i \in DOMAIN channels'[c]} : c \in DOMAIN channels'}
  BY DEF Faces
<1> QED
  BY <1>1, <1>2, <1>3 DEF Metered

\* The network that ScenarioHelper makes.
LEMMA CliqueNetwork ==
  ASSUME NEW cliques \in Cliques, CreateTopology(cliques)
  PROVE  \E net : Metered(net)
<1>1. PICK made : /\ made = FlattenSeq([i \in DOMAIN cliques |-> Pairs(cliques[i])])
                  /\ Build([channels |-> made, metric |-> [f \in (DOMAIN made) \X (1 .. 2) |-> 1]])
  BY DEF CreateTopology
<1>2. made \in Seq(TwoEnded)
  BY <1>1, MadeType
<1>3. channels' = made /\ metric' = [f \in (DOMAIN made) \X (1 .. 2) |-> 1]
  BY <1>1 DEF Build
<1>4. Faces' = UNION {{<<c, i>> : i \in DOMAIN channels'[c]} : c \in DOMAIN channels'}
  BY DEF Faces
<1>5. Faces' = (DOMAIN made) \X (1 .. 2)
  BY <1>2, <1>3, <1>4, PairFaces
<1>6. metric' \in [Faces' -> Nat]
  BY <1>3, <1>5
<1> QED
  BY <1>1, <1>6 DEF Metered

\* The reader of a scenario is the same throughout.
LEMMA SameReader == [Next]_vars => reader' = reader
<1>1. ReaderStep => reader' = reader
  BY DEF ReaderStep, ReadRouter, LinkSection, ReadAnnotated, ReadWeight, OpenLatencies,
         ReadLatency, ApplySettings
<1>2. MapStep => reader' = reader
  BY DEF MapStep, ReadMapLine, EndOfMap, RankVertices, ConnectBackboneRouters, RemoveWrongLinks,
         KeepAgain, CreateNodes, CreateLinks, readerVars
<1> QED
  BY <1>1, <1>2 DEF Next, vars, readerVars

\* What the routes depend on but for what a command of the helpers changes.
routeVars == <<channels, routers, incidencies, frames, metric, configured, localPrefixes, calcVars, count>>

\* The steps of a scenario: the helpers set next hops where no other step does.
LEMMA RouteSteps ==
  ASSUME FileInv, [Next]_vars
  PROVE  \/ UNCHANGED routingVars
         \/ \E net : Metered(net)
         \/ RoutingStep /\ reader # "helper"
         \/ UNCHANGED routeVars /\ reader = "helper"
<1>1. ASSUME HelperStep, reader = "helper"
      PROVE  (\E net : Metered(net)) \/ UNCHANGED routeVars
  <2>1. Command => UNCHANGED routeVars
    BY DEF Command, graphVars, routeVars
  <2>2. ASSUME NEW n, NEW m, NEW p, NEW cost,
               AddRouteByName(p, n, m, cost) \/ AddRouteToNode(p, n, m, cost)
        PROVE  Command
    BY <2>2 DEF AddRouteByName, AddRouteToNode
  <2>3. ASSUME NEW n, NEW m, NEW p, RemoveRouteToNode(p, n, m)
        PROVE  Command
    BY <2>3 DEF RemoveRouteToNode
  <2>4. ASSUME NEW n, NEW m, FailLink(n, m) \/ UpLink(n, m)
        PROVE  Command
    BY <2>4 DEF FailLink, UpLink, SetErrorRate
  <2>5. (\E cliques \in Cliques : CreateTopology(cliques)) \/ Command
    BY <1>1, <2>2, <2>3, <2>4 DEF HelperStep
  <2> QED
    BY <2>1, <2>5, CliqueNetwork
<1>2. RoutingStep /\ UNCHANGED readerVars /\ Short' => reader # "helper"
  BY DEF Short, readerVars
<1>3. UNCHANGED vars => UNCHANGED routingVars
  BY DEF vars
<1> QED
  BY <1>1, <1>2, <1>3, FileNetwork, HandMadeNetwork DEF Next

\* The types are an invariant.
LEMMA TypesInit == RoutingInit => RouteTypes
<1> SUFFICES ASSUME RoutingInit PROVE RouteTypes
  OBVIOUS
<1>1. channels = <<>> /\ metric = <<>> /\ configured = <<>> /\ localPrefixes = <<>>
  BY DEF RoutingInit
<1>2. Faces = {} /\ Nodes = {}
  BY <1>1, EmptyDomain DEF Faces, Nodes
<1>3. <<>> \in [{} -> Nat]
  OBVIOUS
<1> QED
  BY <1>1, <1>2, <1>3, EmptyDomain DEF RouteTypes

\* Building a network gives the tables of routes their types.
LEMMA TypesBuilt ==
  ASSUME NEW net, Metered(net)
  PROVE  RouteTypes'
<1>1. configured' = metric' /\ metric' \in [Faces' -> Nat]
  BY DEF Metered, Build
<1>2. DOMAIN localPrefixes' = Nodes'
  BY DEF Metered, Build
<1> QED
  BY <1>1, <1>2 DEF RouteTypes

\* No step of the calculation takes the types of the tables away.
LEMMA TypesKept ==
  ASSUME RouteTypes, BorrowInv, RoutingStep
  PROVE  RouteTypes'
<1>1. ASSUME channels' = channels
      PROVE  Faces' = Faces /\ Nodes' = Nodes
  BY <1>1, SameNodes
<1>2. ASSUME UNCHANGED <<channels, metric, configured, localPrefixes>>
      PROVE  RouteTypes'
  BY <1>1, <1>2 DEF RouteTypes
<1>3. ASSUME NEW new, NEW conf, ChangeMetrics(new, conf), new \in [Faces -> Nat], conf \in [Faces -> Nat]
      PROVE  RouteTypes'
  <2>1. channels' = channels /\ metric' = new /\ configured' = conf /\ localPrefixes' = localPrefixes
    BY <1>3 DEF ChangeMetrics, graphVars
  <2> QED
    BY <1>1, <1>3, <2>1 DEF RouteTypes
<1>4. CASE \/ \E n \in Nodes : Install(n)
           \/ InstallOther \/ AddIncidency \/ Return
           \/ CalculateRoutes \/ CalculateAllPossibleRoutes
           \/ RoutesOf(Min(sources)) \/ Finish
  <2> SUFFICES UNCHANGED <<channels, metric, configured, localPrefixes>>
    BY <1>2
  <2> QED
    BY <1>4 DEF Install, InstallOther, AddIncidency, Return, CalculateRoutes, CalculateAllPossibleRoutes,
                Start, RoutesOf, Finish, graphVars
<1>5. ASSUME NEW p \in Names, NEW n \in Nodes, AddOrigin(p, n)
      PROVE  RouteTypes'
  <2>1. UNCHANGED <<channels, metric, configured>> /\ localPrefixes' = [localPrefixes EXCEPT ![n] = @ \cup {p}]
    BY <1>5 DEF AddOrigin, graphVars
  <2>2. DOMAIN localPrefixes' = DOMAIN localPrefixes
    BY <2>1
  <2> QED
    BY <1>1, <2>1, <2>2 DEF RouteTypes
<1>6. ASSUME NEW n, DisableFaces(n)
      PROVE  RouteTypes'
  <2>1. /\ UNCHANGED <<channels, configured, localPrefixes>>
        /\ metric' = [f \in Faces |-> IF f \in FacesOf(n) THEN Disabled ELSE metric[f]]
    BY <1>6 DEF DisableFaces, graphVars
  <2>2. metric' \in [Faces -> Nat]
    BY <2>1 DEF RouteTypes, Disabled, WeightInf
  <2> QED
    BY <1>1, <2>1, <2>2 DEF RouteTypes
<1>7. ASSUME NEW f, RoutesVia(f)
      PROVE  RouteTypes'
  BY <1>2, <1>7 DEF RoutesVia, DisableAgain, graphVars
<1>8. CASE RecoverMetrics
  <2>1. /\ UNCHANGED <<channels, configured, localPrefixes>>
        /\ metric' = [f \in Faces |-> Recovered(f)]
    BY <1>8 DEF RecoverMetrics, graphVars
  <2>2. \A f \in Faces : Recovered(f) \in Nat
    BY Uint16Type DEF RouteTypes, Recovered, BorrowInv, Remembered
  <2>3. metric' \in [Faces -> Nat]
    BY <2>1, <2>2
  <2> QED
    BY <1>1, <2>1, <2>3 DEF RouteTypes
<1>9. ASSUME NEW f \in Faces, NEW m \in Metrics, SetMetric(f, m)
      PROVE  RouteTypes'
  <2>1. ChangeMetrics([metric EXCEPT ![f] = m], [configured EXCEPT ![f] = m])
    BY <1>9 DEF SetMetric
  <2>2. m \in Nat
    BY MetricsAssumption
  <2>3. [metric EXCEPT ![f] = m] \in [Faces -> Nat] /\ [configured EXCEPT ![f] = m] \in [Faces -> Nat]
    BY <2>2 DEF RouteTypes
  <2> QED
    BY <1>3, <2>1, <2>3
<1>10. ASSUME NEW delay \in [DOMAIN channels -> LinkDelays], SetLinkDelayAsFaceMetric(delay)
       PROVE  RouteTypes'
  <2>1. ChangeMetrics([f \in Faces |-> delay[f[1]] \div 1000], [f \in Faces |-> delay[f[1]] \div 1000])
    BY <1>10 DEF SetLinkDelayAsFaceMetric
  <2>2. ASSUME NEW f \in Faces
        PROVE  delay[f[1]] \div 1000 \in Nat
    <3>1. f[1] \in DOMAIN channels
      BY DEF Faces
    <3>2. delay[f[1]] \in Nat
      BY <3>1, MetricsAssumption
    <3> QED
      BY <3>2
  <2>3. [f \in Faces |-> delay[f[1]] \div 1000] \in [Faces -> Nat]
    BY <2>2
  <2> QED
    BY <1>3, <2>1, <2>3
<1>11. RoutesVia(First(todo)) => RouteTypes'
  <2>1. \A f : RoutesVia(f) => RouteTypes'
    BY <1>7
  <2> QED
    BY <2>1
<1>12. DisableFaces(Min(sources)) => RouteTypes'
  <2>1. \A n : DisableFaces(n) => RouteTypes'
    BY <1>6
  <2> QED
    BY <2>1
<1> QED
  BY <1>4, <1>5, <1>8, <1>9, <1>10, <1>11, <1>12 DEF RoutingStep

\* When calculations run, and what they know.
CalcOk ==
  /\ calc \in {"idle", "plain", "all"} /\ count.changes \in Nat
  /\ count = [calcs |-> count.calcs, changes |-> count.changes, last |-> count.last]
  /\ frames # <<>> => calc = "idle" /\ count.last = "none"
  /\ reader = "helper" => calc = "idle" /\ count.last = "none" /\ frames = <<>>
  /\ channels = <<>> => calc = "idle" /\ count.last = "none"
  /\ calc = "idle" => sources = {}
  /\ sources \subseteq Sources
  /\ todo \subseteq DOMAIN originalMetrics

\* A next hop of a face leads to an origin at what the way costs, unless metrics changed.
FibSound ==
  reader # "helper" /\ count.changes = 0 =>
    \A f \in Faces : \A p \in Names :
      \/ fib[f][p] = NoRoute
      \/ \E o \in Origins(p) \ {NodeOf(f)} : fib[f][p] = CostVia(f, o) /\ fib[f][p] < WeightInf

\* Faces whose routes the running calculation has set.
Processed(f) ==
  /\ NodeOf(f) \in Sources
  /\ \/ NodeOf(f) \notin sources
     \/ f \in DOMAIN originalMetrics /\ f \notin todo

\* A face that leads to an origin has a next hop at what a way over it costs.
ViaKept(f) == \A p \in Names : CostsVia(f, p) \ {Disabled} # {} => fib[f][p] \in CostsVia(f, p)

\* CalculateAllPossibleRoutes sets it and nothing takes it away.
AllDone ==
  /\ calc = "all" => \A f \in Faces : Processed(f) => ViaKept(f)
  /\ calc = "idle" /\ count.last = "all" => \A f \in Faces : NodeOf(f) \in Sources => ViaKept(f)

\* Origins of p that n reaches, and those that it reaches no cheaper than over f.
Near(n, p) == {o \in Origins(p) \ {n} : CostTo(o, {})[n] < WeightInf}
Cheapest(f, n, o) == CostVia(f, o) = CostTo(o, {})[n]

\* A node has a next hop for every origin it reaches: over a face of a cheapest way, at
\* the cost of the cheapest way to that origin or to another one over the same face.
Routed(n) ==
  \A p \in Names : \A o \in Near(n, p) : \E f \in FacesOf(n), x \in Near(n, p) :
    Cheapest(f, n, o) /\ Cheapest(f, n, x) /\ fib[f][p] = CostTo(x, {})[n]

\* CalculateRoutes sets it and nothing takes it away.
ShortestDone ==
  /\ calc = "plain" => \A n \in Sources \ sources : Routed(n)
  /\ calc = "idle" /\ count.last = "plain" => \A n \in Sources : Routed(n)

RouteInv == RouteTypes /\ CalcOk /\ FibSound /\ AllDone /\ ShortestDone

\* Before the network is built there is no face.
LEMMA NothingBuilt ==
  ASSUME channels = <<>>
  PROVE  Faces = {} /\ Nodes = {} /\ Sources = {}
<1>1. Faces = {}
  BY EmptyDomain DEF Faces
<1> QED
  BY <1>1 DEF Nodes, Sources

\* RouteInv holds at first.
LEMMA RouteInit == Init => RouteInv
<1> SUFFICES ASSUME Init PROVE RouteInv
  OBVIOUS
<1>1. RoutingInit
  BY DEF Init
<1>2. RouteTypes
  BY <1>1, TypesInit
<1>3. Faces = {} /\ Sources = {}
  BY <1>1, NothingBuilt DEF RoutingInit
<1>4. CalcOk
  BY <1>1, EmptyDomain DEF RoutingInit, CalcOk
<1>5. FibSound /\ AllDone /\ ShortestDone
  BY <1>1, <1>3 DEF RoutingInit, FibSound, AllDone, ShortestDone
<1> QED
  BY <1>2, <1>4, <1>5 DEF RouteInv

\* Costs depend on the network and what its metrics were set to.
LEMMA SameCosts ==
  ASSUME channels' = channels, configured' = configured
  PROVE  /\ \A o, avoid : CostTo(o, avoid)' = CostTo(o, avoid)
         /\ \A f, o : CostVia(f, o)' = CostVia(f, o)
<1>1. ASSUME NEW o, NEW avoid
      PROVE  CostTo(o, avoid)' = CostTo(o, avoid)
  BY DEF CostTo, Faces, Nodes, NodeOf, OtherSides, FacesOf
<1>2. ASSUME NEW f, NEW o
      PROVE  CostVia(f, o)' = CostVia(f, o)
  BY DEF CostVia, CostTo, Faces, Nodes, NodeOf, OtherSides, FacesOf
<1> QED
  BY <1>1, <1>2

\* What is said of the routes stays true with the network, its metrics and the origins.
LEMMA SameRoutes ==
  ASSUME channels' = channels, configured' = configured, localPrefixes' = localPrefixes
  PROVE  /\ \A p : Origins(p)' = Origins(p)
         /\ \A f, p : CostsVia(f, p)' = CostsVia(f, p)
         /\ \A f : (\A p \in Names : fib'[f][p] = fib[f][p]) => (ViaKept(f)' <=> ViaKept(f))
         /\ \A n : (\A f \in FacesOf(n) : \A p \in Names : fib'[f][p] = fib[f][p]) => (Routed(n)' <=> Routed(n))
<1>1. \A p : Origins(p)' = Origins(p)
  BY SameNodes DEF Origins
<1>2. ASSUME NEW f, NEW p
      PROVE  CostsVia(f, p)' = CostsVia(f, p)
  <2>1. \A o : CostVia(f, o)' = CostVia(f, o)
    BY SameCosts
  <2>2. Origins(p)' = Origins(p) /\ NodeOf(f)' = NodeOf(f)
    BY <1>1, SameNodes
  <2> QED
    BY <2>1, <2>2 DEF CostsVia
<1>3. ASSUME NEW f, \A p \in Names : fib'[f][p] = fib[f][p]
      PROVE  ViaKept(f)' <=> ViaKept(f)
  BY <1>2, <1>3 DEF ViaKept
<1>4. ASSUME NEW n, \A f \in FacesOf(n) : \A p \in Names : fib'[f][p] = fib[f][p]
      PROVE  Routed(n)' <=> Routed(n)
  <2>1. \A o, avoid : CostTo(o, avoid)' = CostTo(o, avoid)
    BY SameCosts
  <2>2. \A f, o : CostVia(f, o)' = CostVia(f, o)
    BY SameCosts
  <2>3. FacesOf(n)' = FacesOf(n)
    BY SameNodes
  <2>4. \A p : Near(n, p)' = Near(n, p)
    BY <1>1, <2>1 DEF Near
  <2>5. \A f, o : Cheapest(f, n, o)' <=> Cheapest(f, n, o)
    BY <2>1, <2>2 DEF Cheapest
  <2> QED
    BY <1>4, <2>1, <2>3, <2>4, <2>5 DEF Routed
<1> QED
  BY <1>1, <1>2, <1>3, <1>4

\* A step that changes neither leaves FibSound if it changes no next hop.
LEMMA SoundSame ==
  ASSUME FibSound, UNCHANGED <<channels, configured, fib, reader>>, count'.changes = count.changes,
         \A p : Origins(p) \subseteq Origins(p)'
  PROVE  FibSound'
<1>1. Faces' = Faces /\ \A f : NodeOf(f)' = NodeOf(f)
  BY SameNodes
<1>2. \A f, o : CostVia(f, o)' = CostVia(f, o)
  BY SameCosts
<1> SUFFICES ASSUME reader # "helper", count.changes = 0, NEW f \in Faces, NEW p \in Names
             PROVE  \/ fib[f][p] = NoRoute
                    \/ \E o \in Origins(p)' \ {NodeOf(f)} : fib[f][p] = CostVia(f, o) /\ fib[f][p] < WeightInf
  BY <1>1, <1>2 DEF FibSound
<1>3. CASE fib[f][p] = NoRoute
  BY <1>3
<1>4. ASSUME NEW o \in Origins(p) \ {NodeOf(f)}, fib[f][p] = CostVia(f, o), fib[f][p] < WeightInf
      PROVE  \E x \in Origins(p)' \ {NodeOf(f)} : fib[f][p] = CostVia(f, x) /\ fib[f][p] < WeightInf
  <2>1. o \in Origins(p)'
    OBVIOUS
  <2> QED
    BY <1>4, <2>1
<1> QED
  BY <1>3, <1>4 DEF FibSound

-----------------------------------------------------------------------------
(* What the calculations add. *)

\* A cost over face f that a next hop for p may have.
CostOf(f, p, cost) == \E o \in Origins(p) \ {NodeOf(f)} : cost = CostVia(f, o) /\ cost < WeightInf

\* Costs of next hops.
LEMMA CostBounds ==
  /\ \A cost \in Nat : cost < WeightInf <=> cost \in 0 .. Disabled
  /\ \A cost \in 0 .. Disabled : cost \in Nat /\ cost <= Disabled
<1>1. ASSUME NEW D \in Int, NEW cost \in Nat
      PROVE  cost < D + 1 <=> cost \in 0 .. D
  OBVIOUS
<1>2. Disabled \in Int /\ WeightInf = Disabled + 1
  BY DEF Disabled, WeightInf
<1> HIDE DEF Disabled, WeightInf
<1>3. \A cost \in 0 .. Disabled : cost \in Nat /\ cost <= Disabled
  BY <1>2
<1>4. \A cost \in Nat : cost < WeightInf <=> cost \in 0 .. Disabled
  BY <1>1, <1>2
<1> QED
  BY <1>3, <1>4

\* A run of Dijkstra on node n with metrics m gives next hops to faces of n that are not
\* skipped, at what m and the rest of the way cost.
LEMMA RoutesMade ==
  ASSUME Drawn, MetricsOk, NEW m \in [Faces -> Nat], NEW n \in Nodes, NEW d, BestOf(d, m, n),
         NEW skip \in BOOLEAN, AddRoutes(m, d, skip), NEW f \in Faces, NEW p \in Names
  PROVE  /\ fib'[f][p] = fib[f][p] \/
              (/\ f \in FacesOf(n) /\ ~(skip /\ m[f] = Disabled)
               /\ \E o \in Origins(p) \ {n} : /\ o \in DOMAIN d /\ d[o][1] = f /\ fib'[f][p] = d[o][2]
                                             /\ d[o][2] = Uint16(m[f]) + Rest(f, o) /\ d[o][2] < WeightInf)
         /\ (\E o \in DOMAIN d : d[o][1] = f /\ p \in localPrefixes[o]) /\ ~(skip /\ m[f] = Disabled) =>
              \E o \in Origins(p) \ {n} : o \in DOMAIN d /\ d[o][1] = f /\ fib'[f][p] = d[o][2]
<1>1. DOMAIN d \subseteq Nodes \ {n}
  BY DEF BestOf
<1>2. IsFiniteSet(DOMAIN d)
  <2>1. IsFiniteSet(Nodes)
    BY FiniteNetwork DEF Drawn
  <2> QED
    BY <1>1, <2>1, FS_Subset
<1>3. PICK via : via = {o \in DOMAIN d : d[o][1] = f /\ p \in localPrefixes[o] /\ ~(skip /\ m[f] = Disabled)}
  OBVIOUS
<1>4. /\ via = {} => fib'[f][p] = fib[f][p]
      /\ via # {} => \E o \in via : fib'[f][p] = d[o][2]
  BY <1>2, <1>3, RoutesAdded
<1>5. \A o \in via : o \in Origins(p) \ {n} /\ o \in DOMAIN d /\ d[o][1] = f
  BY <1>1, <1>3 DEF Origins
<1>6. CASE via = {}
  BY <1>3, <1>4, <1>6
<1>7. CASE via # {}
  <2>1. PICK o \in via : fib'[f][p] = d[o][2]
    BY <1>4, <1>7
  <2>2. d[o][1] \in FacesOf(n) /\ d[o][2] = Uint16(m[d[o][1]]) + Rest(d[o][1], o) /\ d[o][2] < WeightInf
    BY <1>5 DEF BestOf
  <2>3. ~(skip /\ m[f] = Disabled)
    BY <1>3, <1>7
  <2> QED
    BY <1>5, <2>1, <2>2, <2>3
<1> QED
  BY <1>6, <1>7

\* A run with one face enabled sets its next hops only, and one for every prefix of an
\* origin that it leads to.
LEMMA ViaAdded ==
  ASSUME Drawn, RouteTypes, CalcOk, BorrowInv, NEW f \in todo, RoutesVia(f)
  PROVE  /\ f \in Faces
         /\ \A g \in Faces : \A p \in Names :
              /\ g # f => fib'[g][p] = fib[g][p]
              /\ fib'[g][p] = fib[g][p] \/ CostOf(g, p, fib'[g][p])
         /\ \A p \in Names : CostsVia(f, p) \ {Disabled} # {} => fib'[f][p] \in CostsVia(f, p)
<1>1. f \in DOMAIN originalMetrics
  BY DEF CalcOk
<1>2. f \in Faces /\ originalMetrics[f] = Uint16(configured[f]) /\ Uint16(configured[f]) \in Nat
  BY <1>1, Uint16Type DEF BorrowInv, Remembered, RouteTypes
<1>3. PICK n \in sources : DOMAIN originalMetrics = FacesOf(n)
  <2>1. originalMetrics # <<>>
    BY <1>1, EmptyDomain
  <2> QED
    BY <2>1 DEF BorrowInv, Borrowing
<1>4. NodeOf(f) = n /\ n \in Nodes /\ Node(n) \in routers /\ f \in FacesOf(n)
  BY <1>1, <1>3 DEF FacesOf, CalcOk, Sources
<1>5. MetricsOk
  BY DEF RouteTypes, MetricsOk
<1>6. PICK m : m = [metric EXCEPT ![f] = originalMetrics[f]]
  OBVIOUS
<1>15. PICK skip \in BOOLEAN : skip = TRUE
  OBVIOUS
<1>7. PICK d \in Distances(m, n) : AddRoutes(m, d, skip)
  BY <1>4, <1>6, <1>15 DEF RoutesVia
<1>8. /\ m \in [Faces -> Nat] /\ m[f] = Uint16(configured[f]) /\ Uint16(m[f]) = m[f]
      /\ \A g \in Faces : g # f => m[g] = metric[g]
  BY <1>2, <1>6, Uint16Type DEF RouteTypes
<1>9. Configured(m, {n})
  <2> SUFFICES ASSUME NEW g \in Faces, NodeOf(g) # n
               PROVE  Uint16(m[g]) = Uint16(configured[g])
    BY DEF Configured
  <2>1. g \notin DOMAIN originalMetrics /\ g # f
    BY <1>3, <1>4 DEF FacesOf
  <2>2. m[g] \in Left(g)
    BY <1>8, <2>1 DEF BorrowInv, MetricsKept
  <2>3. configured[g] \in Nat
    BY DEF RouteTypes
  <2> QED
    BY <2>2, <2>3, Uint16Type DEF Left
<1>10. \A g \in FacesOf(n) : g # f => m[g] = Disabled /\ Uint16(m[g]) = Disabled
  BY <1>3, <1>8, Uint16Type DEF BorrowInv, MetricsKept, FacesOf
<1>11. BestOf(d, m, n)
  BY <1>4, <1>5, <1>7, <1>8, <1>9, DistancesBest
<1>12. \A o \in Nodes \ {n} : CostVia(f, o) = Uint16(m[f]) + Rest(f, o) /\ Rest(f, o) \in Nat
  <2>1. NetworkOk
    BY DEF Drawn
  <2> QED
    BY <1>4, <1>5, <1>8, <2>1, RestType
<1>13. ASSUME NEW g \in Faces, NEW p \in Names
       PROVE  /\ g # f => fib'[g][p] = fib[g][p]
              /\ fib'[g][p] = fib[g][p] \/ CostOf(g, p, fib'[g][p])
  <2>1. fib'[g][p] = fib[g][p] \/
              (/\ g \in FacesOf(n) /\ ~(skip /\ m[g] = Disabled)
               /\ \E o \in Origins(p) \ {n} : /\ o \in DOMAIN d /\ d[o][1] = g /\ fib'[g][p] = d[o][2]
                                             /\ d[o][2] = Uint16(m[g]) + Rest(g, o) /\ d[o][2] < WeightInf)
    BY <1>4, <1>5, <1>7, <1>8, <1>11, RoutesMade
  <2>2. CASE fib'[g][p] = fib[g][p]
    BY <2>2
  <2>3. CASE fib'[g][p] # fib[g][p]
    <3>1. g = f
      BY <1>10, <1>15, <2>1, <2>3
    <3>2. PICK o \in Origins(p) \ {n} : fib'[g][p] = Uint16(m[g]) + Rest(g, o) /\ fib'[g][p] < WeightInf
      BY <2>1, <2>3
    <3>3. o \in Nodes \ {n}
      BY DEF Origins
    <3>4. CostOf(f, p, fib'[f][p])
      BY <1>4, <1>12, <3>1, <3>2, <3>3 DEF CostOf
    <3> QED
      BY <3>1, <3>4
  <2> QED
    BY <2>2, <2>3
<1>14. ASSUME NEW p \in Names, CostsVia(f, p) \ {Disabled} # {}
       PROVE  fib'[f][p] \in CostsVia(f, p)
  <2>1. PICK o \in Origins(p) \ {n} : CostVia(f, o) \in 0 .. Disabled /\ CostVia(f, o) # Disabled
    BY <1>4, <1>14 DEF CostsVia
  <2>2. o \in Nodes \ {n} /\ p \in localPrefixes[o] /\ localPrefixes[o] # {}
    BY DEF Origins
  <2>3. Uint16(m[f]) + Rest(f, o) < Disabled /\ Uint16(m[f]) + Rest(f, o) < WeightInf
    <3>1. PICK cost : cost = CostVia(f, o)
      OBVIOUS
    <3>2. cost = Uint16(m[f]) + Rest(f, o) /\ Uint16(m[f]) \in Nat /\ Rest(f, o) \in Nat
      BY <1>2, <1>8, <1>12, <2>2, <3>1
    <3>3. cost \in Nat /\ cost <= Disabled /\ cost # Disabled
      <4>1. cost \in 0 .. Disabled /\ cost # Disabled
        BY <2>1, <3>1
      <4> QED
        BY <4>1, CostBounds
    <3> QED
      BY <3>2, <3>3 DEF Disabled, WeightInf
  <2>4. o \in DOMAIN d
    BY <1>4, <1>11, <2>2, <2>3 DEF BestOf
  <2>5. /\ d[o][1] \in FacesOf(n) /\ d[o][2] = Uint16(m[d[o][1]]) + Rest(d[o][1], o)
        /\ d[o][2] <= Uint16(m[f]) + Rest(f, o) /\ d[o][2] \in Nat
    BY <1>4, <1>11, <2>3, <2>4 DEF BestOf
  <2>6. d[o][1] = f
    <3> SUFFICES ASSUME d[o][1] # f
                 PROVE  FALSE
      OBVIOUS
    <3>1. PICK g \in FacesOf(n) : g = d[o][1]
      BY <2>5
    <3>2. Uint16(m[g]) = Disabled
      BY <1>10, <3>1
    <3>3. Rest(g, o) \in Nat
      <4>1. NetworkOk
        BY DEF Drawn
      <4> QED
        BY <1>4, <1>5, <2>2, <4>1, RestType
    <3>4. d[o][2] >= Disabled
      BY <2>5, <3>1, <3>2, <3>3 DEF Disabled, WeightInf
    <3>5. Uint16(m[f]) + Rest(f, o) \in Nat
      BY <1>2, <1>8, <1>12, <2>2
    <3> QED
      BY <2>3, <2>5, <3>4, <3>5 DEF Disabled, WeightInf
  <2>7. m[f] # Disabled
    BY <1>2, <1>8, <1>12, <2>2, <2>3 DEF Disabled, WeightInf
  <2>8. PICK x \in Origins(p) \ {n} : x \in DOMAIN d /\ d[x][1] = f /\ fib'[f][p] = d[x][2]
    <3>1. (\E y \in DOMAIN d : d[y][1] = f /\ p \in localPrefixes[y]) /\ ~(skip /\ m[f] = Disabled)
      BY <2>2, <2>4, <2>6, <2>7
    <3> QED
      BY <1>2, <1>4, <1>5, <1>7, <1>8, <1>11, <3>1, RoutesMade
  <2>9. d[x][2] = Uint16(m[f]) + Rest(f, x) /\ d[x][2] < WeightInf /\ d[x][2] \in Nat
    BY <1>11, <2>8 DEF BestOf
  <2>10. x \in Nodes \ {n}
    BY DEF Origins
  <2>11. fib'[f][p] = CostVia(f, x) /\ fib'[f][p] \in 0 .. Disabled
    <3>1. PICK cost : cost = d[x][2]
      OBVIOUS
    <3>2. cost \in 0 .. Disabled
      <4>1. cost \in Nat /\ cost < WeightInf
        BY <2>9, <3>1
      <4> QED
        BY <4>1, CostBounds
    <3>3. CostVia(f, x) = cost
      BY <1>12, <2>9, <2>10, <3>1
    <3> QED
      BY <2>8, <3>1, <3>2, <3>3
  <2>12. x \in Origins(p) \ {NodeOf(f)}
    BY <1>4
  <2> QED
    BY <2>11, <2>12 DEF CostsVia
<1> QED
  BY <1>2, <1>13, <1>14

\* A run for a node with all metrics as they were set sets next hops of its faces only, and
\* the cheapest ones for the origins of a prefix.
LEMMA PlainAdded ==
  ASSUME Drawn, RouteTypes, CalcOk, BorrowInv, NEW n \in sources, RoutesOf(n)
  PROVE  /\ \A g \in Faces : \A p \in Names :
              /\ g \notin FacesOf(n) => fib'[g][p] = fib[g][p]
              /\ fib'[g][p] = fib[g][p] \/ CostOf(g, p, fib'[g][p])
         /\ \A p \in Names : \A o \in Near(n, p) : \E f \in FacesOf(n), x \in Near(n, p) :
              Cheapest(f, n, o) /\ Cheapest(f, n, x) /\ fib'[f][p] = CostTo(x, {})[n]
<1>1. n \in Nodes /\ Node(n) \in routers /\ NetworkOk /\ MetricsOk
  BY DEF CalcOk, Sources, Drawn, RouteTypes, MetricsOk
<1>2. metric \in [Faces -> Nat] /\ \A f \in Faces : Uint16(metric[f]) = Uint16(configured[f])
  BY IdleBorrowsNothing, Uint16Type DEF RoutesOf, RouteTypes, Left
<1>3. Configured(metric, {n}) /\ Configured(metric, {})
  BY <1>2 DEF Configured
<1>10. PICK skip \in BOOLEAN : skip = FALSE
  OBVIOUS
<1>4. PICK d \in Distances(metric, n) : AddRoutes(metric, d, skip)
  BY <1>10 DEF RoutesOf
<1>5. BestOf(d, metric, n)
  BY <1>1, <1>2, <1>3, DistancesBest
<1>6. \A f \in FacesOf(n) : \A o \in Nodes \ {n} : CostVia(f, o) = Uint16(metric[f]) + Rest(f, o)
  BY <1>1, <1>2, RestType DEF FacesOf
<1>7. ASSUME NEW g \in Faces, NEW p \in Names
      PROVE  /\ fib'[g][p] = fib[g][p] \/
                  (/\ g \in FacesOf(n)
                   /\ \E o \in Origins(p) \ {n} : /\ o \in DOMAIN d /\ d[o][1] = g /\ fib'[g][p] = d[o][2]
                                                 /\ d[o][2] = Uint16(metric[g]) + Rest(g, o) /\ d[o][2] < WeightInf)
             /\ (\E o \in DOMAIN d : d[o][1] = g /\ p \in localPrefixes[o]) =>
                  \E o \in Origins(p) \ {n} : o \in DOMAIN d /\ d[o][1] = g /\ fib'[g][p] = d[o][2]
  <2>1. PICK m \in [Faces -> Nat] : m = metric
    BY <1>2
  <2>2. AddRoutes(m, d, skip) /\ BestOf(d, m, n) /\ skip = FALSE
    BY <1>4, <1>5, <1>10, <2>1
  <2>3. /\ fib'[g][p] = fib[g][p] \/
             (/\ g \in FacesOf(n) /\ ~(skip /\ m[g] = Disabled)
              /\ \E o \in Origins(p) \ {n} : /\ o \in DOMAIN d /\ d[o][1] = g /\ fib'[g][p] = d[o][2]
                                            /\ d[o][2] = Uint16(m[g]) + Rest(g, o) /\ d[o][2] < WeightInf)
        /\ (\E o \in DOMAIN d : d[o][1] = g /\ p \in localPrefixes[o]) /\ ~(skip /\ m[g] = Disabled) =>
             \E o \in Origins(p) \ {n} : o \in DOMAIN d /\ d[o][1] = g /\ fib'[g][p] = d[o][2]
    BY <1>1, <2>2, RoutesMade
  <2> QED
    BY <2>1, <2>2, <2>3
<1>8. ASSUME NEW g \in Faces, NEW p \in Names
      PROVE  /\ g \notin FacesOf(n) => fib'[g][p] = fib[g][p]
             /\ fib'[g][p] = fib[g][p] \/ CostOf(g, p, fib'[g][p])
  <2>1. CASE fib'[g][p] = fib[g][p]
    BY <2>1
  <2>2. CASE fib'[g][p] # fib[g][p]
    <3>1. g \in FacesOf(n)
      BY <1>7, <2>2
    <3>2. PICK o \in Origins(p) \ {n} : fib'[g][p] = Uint16(metric[g]) + Rest(g, o) /\ fib'[g][p] < WeightInf
      BY <1>7, <2>2
    <3>3. o \in Nodes \ {n} /\ NodeOf(g) = n
      BY <3>1 DEF Origins, FacesOf
    <3> QED
      BY <1>6, <3>1, <3>2, <3>3 DEF CostOf
  <2> QED
    BY <2>1, <2>2
\* What is in d is the cheapest way.
<1>11. ASSUME NEW x \in DOMAIN d, x \in Nodes \ {n}, localPrefixes[x] # {}
       PROVE  /\ CostTo(x, {})[n] < WeightInf /\ d[x][2] = CostTo(x, {})[n]
              /\ d[x][1] \in FacesOf(n) /\ Cheapest(d[x][1], n, x)
  <2>1. PICK g \in FacesOf(n) : g = d[x][1]
    BY <1>5 DEF BestOf
  <2>2. PICK w \in Nat : w = d[x][2] /\ w < WeightInf /\ w = Uint16(metric[g]) + Rest(g, x)
    BY <1>5, <2>1 DEF BestOf
  <2>3. /\ CostVia(g, x) = Uint16(configured[g]) + Rest(g, x) /\ Rest(g, x) \in Nat
        /\ Uint16(metric[g]) = Uint16(configured[g]) /\ Uint16(configured[g]) \in Nat
    BY <1>1, <1>2, <1>11, RestType, Uint16Type DEF FacesOf, MetricsOk
  <2>4. Rest(g, x) < WeightInf /\ CostVia(g, x) = w
    BY <2>2, <2>3 DEF WeightInf
  <2>5. PICK y \in PathsFrom(metric, Node(n)) : y.at = Node(x) /\ y.weight[2] = Uint16(metric[g]) + Rest(g, x)
    BY <1>1, <1>2, <1>3, <1>11, <2>1, <2>4, ViaIsReached
  <2>6. PICK cost \in Nat : cost = CostTo(x, {})[n] /\ cost <= y.weight[2]
    BY <1>1, <1>2, <1>3, <1>11, <2>5, CheapestPath
  <2>7. CostTo(x, {})[n] < WeightInf
    BY <2>2, <2>5, <2>6 DEF WeightInf
  <2>8. d[x][2] = CostTo(x, {})[n]
    BY <1>1, <1>2, <1>3, <1>4, <1>11, <2>7, DistancesCheapest
  <2> QED
    BY <2>1, <2>2, <2>4, <2>7, <2>8 DEF Cheapest
<1>9. ASSUME NEW p \in Names, NEW o \in Near(n, p)
      PROVE  \E f \in FacesOf(n), x \in Near(n, p) :
               Cheapest(f, n, o) /\ Cheapest(f, n, x) /\ fib'[f][p] = CostTo(x, {})[n]
  <2>1. o \in Nodes \ {n} /\ p \in localPrefixes[o] /\ localPrefixes[o] # {} /\ CostTo(o, {})[n] < WeightInf
    BY DEF Near, Origins
  <2>2. o \in DOMAIN d
    BY <1>1, <1>2, <1>3, <1>4, <2>1, DistancesCheapest
  <2>3. PICK f \in FacesOf(n) : f = d[o][1] /\ Cheapest(f, n, o)
    BY <1>11, <2>1, <2>2
  <2>4. PICK x \in Origins(p) \ {n} : x \in DOMAIN d /\ d[x][1] = f /\ fib'[f][p] = d[x][2]
    BY <1>7, <2>1, <2>2, <2>3 DEF FacesOf
  <2>5. x \in Nodes \ {n} /\ localPrefixes[x] # {}
    BY DEF Origins
  <2>6. CostTo(x, {})[n] < WeightInf /\ fib'[f][p] = CostTo(x, {})[n] /\ Cheapest(f, n, x)
    BY <1>11, <2>4, <2>5
  <2>7. x \in Near(n, p)
    BY <2>6 DEF Near
  <2> QED
    BY <2>3, <2>6, <2>7
<1> QED
  BY <1>8, <1>9

-----------------------------------------------------------------------------
(* The steps keep it. *)

\* The steps of the routing, without the helpers of the specification that name one.
LEMMA RoutingSteps ==
  ASSUME RoutingStep
  PROVE  \/ \E n \in Nodes : Install(n)
         \/ InstallOther \/ AddIncidency \/ Return
         \/ \E p \in Names, n \in Nodes : AddOrigin(p, n)
         \/ Start("plain") \/ Start("all")
         \/ \E n \in sources : RoutesOf(n) \/ DisableFaces(n)
         \/ \E f \in todo : RoutesVia(f)
         \/ RecoverMetrics \/ Finish
         \/ \E new, conf : ChangeMetrics(new, conf)
<1>1. ASSUME sources # {}, RoutesOf(Min(sources)) \/ DisableFaces(Min(sources))
      PROVE  \E n \in sources : RoutesOf(n) \/ DisableFaces(n)
  <2>1. PICK n : n = Min(sources) /\ (RoutesOf(n) \/ DisableFaces(n))
    BY <1>1
  <2> QED
    BY <2>1 DEF RoutesOf, DisableFaces
<1>2. ASSUME todo # {}, RoutesVia(First(todo))
      PROVE  \E f \in todo : RoutesVia(f)
  <2>1. PICK f : f = First(todo) /\ RoutesVia(f)
    BY <1>2
  <2> QED
    BY <2>1 DEF RoutesVia
<1>3. ASSUME \/ \E f \in Faces, m \in Metrics : SetMetric(f, m)
             \/ \E delay \in [DOMAIN channels -> LinkDelays] : SetLinkDelayAsFaceMetric(delay)
      PROVE  \E new, conf : ChangeMetrics(new, conf)
  BY <1>3 DEF SetMetric, SetLinkDelayAsFaceMetric
<1> QED
  BY <1>1, <1>2, <1>3 DEF RoutingStep, CalculateRoutes, CalculateAllPossibleRoutes

\* An update of count changes what it names.
LEMMA CountChanges ==
  ASSUME CalcOk
  PROVE  /\ [count EXCEPT !.last = "none"] = [calcs |-> count.calcs, changes |-> count.changes, last |-> "none"]
         /\ [count EXCEPT !.last = calc] = [calcs |-> count.calcs, changes |-> count.changes, last |-> calc]
         /\ [count EXCEPT !.calcs = @ + 1] = [calcs |-> count.calcs + 1, changes |-> count.changes, last |-> count.last]
         /\ [count EXCEPT !.changes = @ + 1, !.last = "none"]
              = [calcs |-> count.calcs, changes |-> count.changes + 1, last |-> "none"]
<1>1. PICK a, b, l : a = count.calcs /\ b = count.changes /\ l = count.last
  OBVIOUS
<1>2. count = [calcs |-> a, changes |-> b, last |-> l]
  BY <1>1 DEF CalcOk
<1>3. PICK c, v1, v2 : c = count /\ v1 = a + 1 /\ v2 = b + 1
  OBVIOUS
<1>4. ASSUME NEW v, NEW w
      PROVE  /\ [c EXCEPT !.calcs = v] = [calcs |-> v, changes |-> b, last |-> l]
             /\ [c EXCEPT !.last = w] = [calcs |-> a, changes |-> b, last |-> w]
             /\ [c EXCEPT !.changes = v, !.last = w] = [calcs |-> a, changes |-> v, last |-> w]
  <2>1. c = [calcs |-> a, changes |-> b, last |-> l]
    BY <1>2, <1>3
  <2>2. [c EXCEPT !.calcs = v] = [calcs |-> v, changes |-> b, last |-> l]
    BY <2>1
  <2>3. [c EXCEPT !.last = w] = [calcs |-> a, changes |-> b, last |-> w]
    BY <2>1
  <2>4. PICK x : x = [c EXCEPT !.changes = v]
    OBVIOUS
  <2>5. x = [calcs |-> a, changes |-> v, last |-> l]
    BY <2>1, <2>4
  <2>6. [x EXCEPT !.last = w] = [calcs |-> a, changes |-> v, last |-> w]
    BY <2>5
  <2>7. [c EXCEPT !.changes = v, !.last = w] = [[c EXCEPT !.changes = v] EXCEPT !.last = w]
    OBVIOUS
  <2> QED
    BY <2>2, <2>3, <2>4, <2>6, <2>7
<1>5. [count EXCEPT !.last = "none"] = [calcs |-> a, changes |-> b, last |-> "none"]
  BY <1>3, <1>4
<1>6. [count EXCEPT !.last = calc] = [calcs |-> a, changes |-> b, last |-> calc]
  BY <1>3, <1>4
<1>7. [count EXCEPT !.calcs = @ + 1] = [calcs |-> a + 1, changes |-> b, last |-> l]
  <2>1. [c EXCEPT !.calcs = v1] = [calcs |-> v1, changes |-> b, last |-> l]
    BY <1>4
  <2> QED
    BY <1>1, <1>3, <2>1
<1>8. [count EXCEPT !.changes = @ + 1, !.last = "none"] = [calcs |-> a, changes |-> b + 1, last |-> "none"]
  <2>1. [c EXCEPT !.changes = v2, !.last = "none"] = [calcs |-> a, changes |-> v2, last |-> "none"]
    BY <1>4
  <2> QED
    BY <1>1, <1>3, <2>1
<1> QED
  BY <1>1, <1>5, <1>6, <1>7, <1>8

\* CalcOk is inductive: where the network and the routers stay, where routers are added,
\* and where a network is built.
LEMMA CalcKept ==
  ASSUME CalcOk, BorrowInv, RoutingStep, reader' = reader, reader # "helper"
  PROVE  CalcOk'
<1>1. /\ [count EXCEPT !.last = "none"] = [calcs |-> count.calcs, changes |-> count.changes, last |-> "none"]
      /\ [count EXCEPT !.last = calc] = [calcs |-> count.calcs, changes |-> count.changes, last |-> calc]
      /\ [count EXCEPT !.calcs = @ + 1] = [calcs |-> count.calcs + 1, changes |-> count.changes, last |-> count.last]
      /\ [count EXCEPT !.changes = @ + 1, !.last = "none"]
           = [calcs |-> count.calcs, changes |-> count.changes + 1, last |-> "none"]
  BY CountChanges
<1>2. ASSUME channels' = channels, routers \subseteq routers'
      PROVE  Sources \subseteq Sources'
  BY <1>2, SameNodes DEF Sources
<1>3. ASSUME NEW n \in Nodes, Install(n)
      PROVE  CalcOk'
  <2>1. /\ UNCHANGED <<channels, calcVars>> /\ routers \subseteq routers' /\ Idle
        /\ count' = [calcs |-> count.calcs, changes |-> count.changes, last |-> "none"]
    BY <1>1, <1>3 DEF Install, Call
  <2>2. Sources \subseteq Sources'
    BY <1>2, <2>1
  <2> QED
    BY <2>1, <2>2 DEF CalcOk, Idle, calcVars
<1>4. CASE InstallOther \/ AddIncidency \/ Return
  <2>1. /\ UNCHANGED <<channels, calcVars, count>> /\ routers \subseteq routers' /\ frames # <<>>
    BY <1>4 DEF InstallOther, AddIncidency, Return, Call
  <2>2. Sources \subseteq Sources'
    BY <1>2, <2>1
  <2> QED
    BY <2>1, <2>2 DEF CalcOk, calcVars
<1>5. ASSUME NEW p \in Names, NEW n \in Nodes, AddOrigin(p, n)
      PROVE  CalcOk'
  <2>1. /\ UNCHANGED <<graphVars, calcVars>> /\ Idle
        /\ count' = [calcs |-> count.calcs, changes |-> count.changes, last |-> "none"]
    BY <1>1, <1>5 DEF AddOrigin
  <2>2. Sources \subseteq Sources'
    BY <1>2, <2>1 DEF graphVars
  <2> QED
    BY <2>1, <2>2 DEF CalcOk, calcVars, graphVars, Idle
<1>6. ASSUME NEW kind \in {"plain", "all"}, Start(kind)
      PROVE  CalcOk'
  <2>1. /\ UNCHANGED <<graphVars, todo, originalMetrics>> /\ Idle
        /\ calc' = kind /\ sources' = Sources
        /\ count' = [calcs |-> count.calcs + 1, changes |-> count.changes, last |-> count.last]
    BY <1>1, <1>6 DEF Start
  <2>2. Sources \subseteq Sources'
    BY <1>2, <2>1 DEF graphVars
  <2> QED
    BY <2>1, <2>2 DEF CalcOk, graphVars, Idle
<1>7. ASSUME NEW n \in sources, RoutesOf(n)
      PROVE  CalcOk'
  <2>1. /\ UNCHANGED <<graphVars, calc, todo, originalMetrics, count>>
        /\ sources' \subseteq sources /\ calc = "plain"
    BY <1>7 DEF RoutesOf
  <2>2. Sources \subseteq Sources'
    BY <1>2, <2>1 DEF graphVars
  <2> QED
    BY <2>1, <2>2 DEF CalcOk, graphVars
<1>8. ASSUME NEW n \in sources, DisableFaces(n)
      PROVE  CalcOk'
  <2>1. /\ UNCHANGED <<graphVars, calc, sources, count>>
        /\ originalMetrics' = [f \in FacesOf(n) |-> Uint16(metric[f])] /\ todo' = FacesOf(n)
    BY <1>8 DEF DisableFaces
  <2>2. Sources \subseteq Sources'
    BY <1>2, <2>1 DEF graphVars
  <2>3. todo' \subseteq DOMAIN originalMetrics'
    BY <2>1
  <2> QED
    BY <2>1, <2>2, <2>3 DEF CalcOk, graphVars
<1>9. ASSUME NEW f \in todo, RoutesVia(f)
      PROVE  CalcOk'
  <2>1. /\ UNCHANGED <<graphVars, calc, sources, originalMetrics, count>>
        /\ todo' \subseteq todo
    BY <1>9 DEF RoutesVia
  <2>2. Sources \subseteq Sources'
    BY <1>2, <2>1 DEF graphVars
  <2> QED
    BY <2>1, <2>2 DEF CalcOk, graphVars
<1>10. CASE RecoverMetrics
  <2>1. /\ UNCHANGED <<graphVars, calc, todo, count>>
        /\ todo = {} /\ sources' \subseteq sources
    BY <1>10 DEF RecoverMetrics
  <2>2. Sources \subseteq Sources'
    BY <1>2, <2>1 DEF graphVars
  <2> QED
    BY <2>1, <2>2 DEF CalcOk, graphVars
<1>11. CASE Finish
  <2>1. /\ UNCHANGED <<graphVars, sources, todo, originalMetrics>>
        /\ calc # "idle" /\ sources = {} /\ calc' = "idle"
        /\ count' = [calcs |-> count.calcs, changes |-> count.changes, last |-> calc]
    BY <1>1, <1>11 DEF Finish
  <2> QED
    BY <2>1 DEF CalcOk, graphVars
<1>12. ASSUME NEW new, NEW conf, ChangeMetrics(new, conf)
       PROVE  CalcOk'
  <2>1. /\ UNCHANGED <<graphVars, calcVars>> /\ Idle
        /\ count' = [calcs |-> count.calcs, changes |-> count.changes + 1, last |-> "none"]
    BY <1>1, <1>12 DEF ChangeMetrics
  <2>2. Sources \subseteq Sources'
    BY <1>2, <2>1 DEF graphVars
  <2> QED
    BY <2>1, <2>2 DEF CalcOk, calcVars, graphVars, Idle
<1>13. Start("plain") \/ Start("all") => CalcOk'
  <2>1. \A kind \in {"plain", "all"} : Start(kind) => CalcOk'
    BY <1>6
  <2> QED
    BY <2>1
<1> QED
  BY <1>3, <1>4, <1>5, <1>7, <1>8, <1>9, <1>10, <1>11, <1>12, <1>13, RoutingSteps

\* A face is still to do only while all possible routes are calculated.
LEMMA TodoRuns ==
  ASSUME CalcOk, BorrowInv, NEW f \in todo
  PROVE  calc = "all" /\ originalMetrics # <<>>
<1>1. originalMetrics # <<>>
  BY EmptyDomain DEF CalcOk
<1> QED
  BY <1>1 DEF BorrowInv, Borrowing

\* FibSound is inductive.
LEMMA SoundKept ==
  ASSUME CalcOk, RouteTypes, FibSound, BorrowInv, GraphInv, GraphMirrorsNetwork,
         RoutingStep, reader' = reader
  PROVE  FibSound'
<1>1. /\ [count EXCEPT !.last = "none"] = [calcs |-> count.calcs, changes |-> count.changes, last |-> "none"]
      /\ [count EXCEPT !.last = calc] = [calcs |-> count.calcs, changes |-> count.changes, last |-> calc]
      /\ [count EXCEPT !.calcs = @ + 1] = [calcs |-> count.calcs + 1, changes |-> count.changes, last |-> count.last]
      /\ [count EXCEPT !.changes = @ + 1, !.last = "none"]
           = [calcs |-> count.calcs, changes |-> count.changes + 1, last |-> "none"]
  BY CountChanges
\* Where the origins stay and no next hop changes.
<1>2. ASSUME UNCHANGED <<channels, configured, localPrefixes, fib>>, count'.changes = count.changes
      PROVE  FibSound'
  <2>1. \A p : Origins(p) \subseteq Origins(p)'
    BY <1>2, SameRoutes
  <2> QED
    BY <1>2, <2>1, SoundSame
<1>3. CASE \/ \E n \in Nodes : Install(n)
           \/ InstallOther \/ AddIncidency \/ Return
           \/ Start("plain") \/ Start("all")
           \/ \E n \in sources : DisableFaces(n)
           \/ RecoverMetrics \/ Finish
  <2> SUFFICES UNCHANGED <<channels, configured, localPrefixes, fib>> /\ count'.changes = count.changes
    BY <1>2
  <2> QED
    BY <1>1, <1>3 DEF Install, InstallOther, AddIncidency, Return, Start, DisableFaces, RecoverMetrics, Finish,
                      graphVars
<1>4. ASSUME NEW p \in Names, NEW n \in Nodes, AddOrigin(p, n)
      PROVE  FibSound'
  <2>1. /\ UNCHANGED <<channels, configured, fib>> /\ count'.changes = count.changes
        /\ localPrefixes' = [localPrefixes EXCEPT ![n] = @ \cup {p}]
    BY <1>1, <1>4 DEF AddOrigin, graphVars
  <2>2. \A x \in Nodes : localPrefixes[x] \subseteq localPrefixes'[x]
    BY <2>1 DEF RouteTypes
  <2>3. \A q : Origins(q) \subseteq Origins(q)'
    BY <2>1, <2>2, SameNodes DEF Origins
  <2> QED
    BY <2>1, <2>3, SoundSame
<1>5. ASSUME NEW new, NEW conf, ChangeMetrics(new, conf)
      PROVE  FibSound'
  <2>1. count'.changes # 0
    BY <1>1, <1>5 DEF ChangeMetrics, CalcOk
  <2> QED
    BY <2>1 DEF FibSound
\* A calculation.
<1>6. ASSUME UNCHANGED <<channels, configured, localPrefixes, count>>,
             \A g \in Faces : \A p \in Names : fib'[g][p] = fib[g][p] \/ CostOf(g, p, fib'[g][p])
      PROVE  FibSound'
  <2>1. Faces' = Faces /\ \A f : NodeOf(f)' = NodeOf(f)
    BY <1>6, SameNodes
  <2>2. (\A p : Origins(p)' = Origins(p)) /\ \A f, o : CostVia(f, o)' = CostVia(f, o)
    BY <1>6, SameRoutes, SameCosts
  <2> SUFFICES ASSUME reader # "helper", count.changes = 0, NEW f \in Faces, NEW p \in Names
               PROVE  fib'[f][p] = NoRoute \/ CostOf(f, p, fib'[f][p])
    BY <1>6, <2>1, <2>2 DEF FibSound, CostOf
  <2>3. fib[f][p] = NoRoute \/ CostOf(f, p, fib[f][p])
    BY DEF FibSound, CostOf
  <2>4. fib'[f][p] = fib[f][p] \/ CostOf(f, p, fib'[f][p])
    BY <1>6
  <2>5. CASE fib'[f][p] = fib[f][p]
    BY <2>3, <2>5
  <2> QED
    BY <2>4, <2>5
<1>7. calc # "idle" => Drawn
  <2>1. calc # "idle" => frames = <<>>
    BY DEF CalcOk
  <2> QED
    BY <2>1, GraphIsDrawn
<1>8. ASSUME NEW n \in sources, RoutesOf(n)
      PROVE  FibSound'
  <2>1. UNCHANGED <<channels, configured, localPrefixes, count>> /\ Drawn
    BY <1>7, <1>8 DEF RoutesOf, graphVars
  <2>2. \A g \in Faces : \A p \in Names : fib'[g][p] = fib[g][p] \/ CostOf(g, p, fib'[g][p])
    BY <1>8, <2>1, PlainAdded
  <2> QED
    BY <1>6, <2>1, <2>2
<1>9. ASSUME NEW f \in todo, RoutesVia(f)
      PROVE  FibSound'
  <2>1. UNCHANGED <<channels, configured, localPrefixes, count>>
    BY <1>9 DEF RoutesVia, graphVars
  <2>2. Drawn
    BY <1>7, TodoRuns
  <2>3. \A g \in Faces : \A p \in Names : fib'[g][p] = fib[g][p] \/ CostOf(g, p, fib'[g][p])
    BY <1>9, <2>2, ViaAdded
  <2> QED
    BY <1>6, <2>1, <2>3
<1> QED
  BY <1>3, <1>4, <1>5, <1>8, <1>9, RoutingSteps

\* AllDone is inductive.
LEMMA AllKept ==
  ASSUME CalcOk, RouteTypes, AllDone, BorrowInv, GraphInv, GraphMirrorsNetwork, RoutingStep
  PROVE  AllDone'
<1>1. /\ [count EXCEPT !.last = "none"] = [calcs |-> count.calcs, changes |-> count.changes, last |-> "none"]
      /\ [count EXCEPT !.last = calc] = [calcs |-> count.calcs, changes |-> count.changes, last |-> calc]
      /\ [count EXCEPT !.calcs = @ + 1] = [calcs |-> count.calcs + 1, changes |-> count.changes, last |-> count.last]
      /\ [count EXCEPT !.changes = @ + 1, !.last = "none"]
           = [calcs |-> count.calcs, changes |-> count.changes + 1, last |-> "none"]
  BY CountChanges
\* Between the calculations, and while the other one runs.
<1>2. ASSUME calc' # "all", count'.last # "all" \/ calc' # "idle"
      PROVE  AllDone'
  BY <1>2 DEF AllDone
<1>3. CASE \/ \E n \in Nodes : Install(n)
           \/ InstallOther \/ AddIncidency \/ Return
           \/ \E p \in Names, n \in Nodes : AddOrigin(p, n)
           \/ \E new, conf : ChangeMetrics(new, conf)
  <2>1. calc = "idle" /\ calc' = calc
    BY <1>3 DEF Install, InstallOther, AddIncidency, Return, AddOrigin, ChangeMetrics, Idle, calcVars, CalcOk
  <2>2. count'.last = "none"
    BY <1>1, <1>3 DEF Install, InstallOther, AddIncidency, Return, AddOrigin, ChangeMetrics, CalcOk
  <2> QED
    BY <1>2, <2>1, <2>2
<1>4. CASE Start("plain")
  BY <1>2, <1>4 DEF Start
<1>5. ASSUME NEW n \in sources, RoutesOf(n)
      PROVE  AllDone'
  BY <1>2, <1>5 DEF RoutesOf
\* Where the network stays.
<1>6. ASSUME UNCHANGED <<graphVars, configured, localPrefixes>>
      PROVE  /\ Faces' = Faces /\ Sources' = Sources
             /\ \A f : NodeOf(f)' = NodeOf(f) /\ \A n : FacesOf(n)' = FacesOf(n)
             /\ \A f, p : CostsVia(f, p)' = CostsVia(f, p)
             /\ \A f : (\A p \in Names : fib'[f][p] = fib[f][p]) => (ViaKept(f)' <=> ViaKept(f))
  BY <1>6, SameNodes, SameRoutes DEF graphVars, Sources
<1>7. CASE Start("all")
  <2>1. /\ UNCHANGED <<graphVars, configured, localPrefixes, originalMetrics>>
        /\ calc' = "all" /\ sources' = Sources /\ calc = "idle"
    BY <1>7 DEF Start, Idle
  <2>2. originalMetrics' = <<>> /\ DOMAIN originalMetrics' = {}
    BY <2>1, IdleBorrowsNothing, EmptyDomain
  <2>3. \A f \in Faces : NodeOf(f) \notin Sources' \/ NodeOf(f) \in sources'
    BY <1>6, <2>1
  <2>4. \A f \in Faces' : ~Processed(f)'
    BY <1>6, <2>1, <2>2, <2>3 DEF Processed
  <2> QED
    BY <2>1, <2>4 DEF AllDone
\* What a step of the calculation has processed was processed, or is face g.
<1>8. ASSUME NEW done, UNCHANGED <<graphVars, configured, localPrefixes, calc>>, calc = "all",
             \A f \in Faces \ done : \A p \in Names : fib'[f][p] = fib[f][p],
             \A f \in Faces \ done : Processed(f)' => Processed(f),
             \A f \in Faces \cap done : ViaKept(f)'
      PROVE  AllDone'
  <2> SUFFICES ASSUME NEW f \in Faces, Processed(f)'
               PROVE  ViaKept(f)'
    BY <1>6, <1>8 DEF AllDone
  <2>1. CASE f \in done
    BY <1>8, <2>1
  <2>2. CASE f \notin done
    <3>1. ViaKept(f)
      BY <1>8, <2>2 DEF AllDone
    <3>2. \A p \in Names : fib'[f][p] = fib[f][p]
      BY <1>8, <2>2
    <3> QED
      BY <1>6, <1>8, <3>1, <3>2
  <2> QED
    BY <2>1, <2>2
<1>9. ASSUME NEW n \in sources, DisableFaces(n)
      PROVE  AllDone'
  <2>1. /\ UNCHANGED <<graphVars, configured, localPrefixes, calc, sources, fib>> /\ calc = "all"
        /\ originalMetrics' = [f \in FacesOf(n) |-> Uint16(metric[f])] /\ todo' = FacesOf(n)
    BY <1>9 DEF DisableFaces
  <2>2. DOMAIN originalMetrics' = todo'
    BY <2>1
  <2>3. \A f \in Faces : Processed(f)' => Processed(f)
    BY <1>6, <2>1, <2>2 DEF Processed
  <2>4. \A f \in Faces : \A p \in Names : fib'[f][p] = fib[f][p]
    BY <2>1
  <2>5. PICK done : done = {}
    OBVIOUS
  <2> QED
    BY <1>8, <2>1, <2>3, <2>4, <2>5
<1>10. ASSUME NEW f \in todo, RoutesVia(f)
       PROVE  AllDone'
  <2>1. /\ UNCHANGED <<graphVars, configured, localPrefixes, calc, sources, originalMetrics>>
        /\ todo' = todo \ {f}
    BY <1>10 DEF RoutesVia
  <2>2. calc = "all" /\ frames = <<>>
    BY TodoRuns DEF CalcOk
  <2>3. Drawn
    BY <2>2, GraphIsDrawn
  <2>4. /\ f \in Faces
        /\ \A g \in Faces : \A p \in Names : g # f => fib'[g][p] = fib[g][p]
        /\ \A p \in Names : CostsVia(f, p) \ {Disabled} # {} => fib'[f][p] \in CostsVia(f, p)
    BY <1>10, <2>3, ViaAdded
  <2>5. ViaKept(f)'
    BY <1>6, <2>1, <2>4 DEF ViaKept
  <2>6. \A g \in Faces \ {f} : Processed(g)' => Processed(g)
    BY <1>6, <2>1 DEF Processed
  <2>7. PICK done : done = {f}
    OBVIOUS
  <2> QED
    BY <1>8, <2>1, <2>2, <2>4, <2>5, <2>6, <2>7
<1>11. CASE RecoverMetrics
  <2>1. /\ UNCHANGED <<graphVars, configured, localPrefixes, calc, fib, todo>>
        /\ originalMetrics # <<>> /\ todo = {} /\ originalMetrics' = <<>>
        /\ sources' = {n \in sources : FacesOf(n) # DOMAIN originalMetrics}
    BY <1>11 DEF RecoverMetrics
  <2>2. calc = "all"
    BY <2>1 DEF BorrowInv, Borrowing
  <2>3. DOMAIN originalMetrics' = {}
    BY <2>1, EmptyDomain
  <2>4. ASSUME NEW f \in Faces, Processed(f)'
        PROVE  Processed(f)
    <3>1. NodeOf(f) \in Sources /\ NodeOf(f) \notin sources'
      BY <1>6, <2>1, <2>3, <2>4 DEF Processed
    <3>2. CASE NodeOf(f) \notin sources
      BY <3>1, <3>2 DEF Processed
    <3>3. CASE NodeOf(f) \in sources
      <4>1. FacesOf(NodeOf(f)) = DOMAIN originalMetrics
        BY <2>1, <3>1, <3>3
      <4>2. f \in DOMAIN originalMetrics /\ f \notin todo
        BY <2>1, <4>1 DEF FacesOf
      <4> QED
        BY <3>1, <4>2 DEF Processed
    <3> QED
      BY <3>2, <3>3
  <2>5. \A f \in Faces : \A p \in Names : fib'[f][p] = fib[f][p]
    BY <2>1
  <2>6. PICK done : done = {}
    OBVIOUS
  <2> QED
    BY <1>8, <2>1, <2>2, <2>4, <2>5, <2>6
<1>12. CASE Finish
  <2>1. /\ UNCHANGED <<graphVars, configured, localPrefixes, fib>>
        /\ calc # "idle" /\ sources = {} /\ calc' = "idle"
        /\ count' = [calcs |-> count.calcs, changes |-> count.changes, last |-> calc]
    BY <1>1, <1>12 DEF Finish
  <2>2. CASE calc = "all"
    <3>1. ASSUME NEW f \in Faces, NodeOf(f) \in Sources
          PROVE  ViaKept(f)'
      <4>1. ViaKept(f)
        BY <2>1, <2>2, <3>1 DEF AllDone, Processed
      <4> QED
        BY <1>6, <2>1, <4>1
    <3> QED
      BY <1>6, <2>1, <3>1 DEF AllDone
  <2>3. CASE calc # "all"
    BY <1>2, <2>1, <2>3
  <2> QED
    BY <2>2, <2>3
<1> QED
  BY <1>3, <1>4, <1>5, <1>7, <1>9, <1>10, <1>11, <1>12, RoutingSteps

\* ShortestDone is inductive.
LEMMA ShortestKept ==
  ASSUME CalcOk, RouteTypes, ShortestDone, BorrowInv, GraphInv, GraphMirrorsNetwork, RoutingStep
  PROVE  ShortestDone'
<1>1. /\ [count EXCEPT !.last = "none"] = [calcs |-> count.calcs, changes |-> count.changes, last |-> "none"]
      /\ [count EXCEPT !.last = calc] = [calcs |-> count.calcs, changes |-> count.changes, last |-> calc]
      /\ [count EXCEPT !.calcs = @ + 1] = [calcs |-> count.calcs + 1, changes |-> count.changes, last |-> count.last]
      /\ [count EXCEPT !.changes = @ + 1, !.last = "none"]
           = [calcs |-> count.calcs, changes |-> count.changes + 1, last |-> "none"]
  BY CountChanges
<1>2. ASSUME calc' # "plain", count'.last # "plain" \/ calc' # "idle"
      PROVE  ShortestDone'
  BY <1>2 DEF ShortestDone
<1>3. CASE \/ \E n \in Nodes : Install(n)
           \/ InstallOther \/ AddIncidency \/ Return
           \/ \E p \in Names, n \in Nodes : AddOrigin(p, n)
           \/ \E new, conf : ChangeMetrics(new, conf)
  <2>1. calc = "idle" /\ calc' = calc
    BY <1>3 DEF Install, InstallOther, AddIncidency, Return, AddOrigin, ChangeMetrics, Idle, calcVars, CalcOk
  <2>2. count'.last = "none"
    BY <1>1, <1>3 DEF Install, InstallOther, AddIncidency, Return, AddOrigin, ChangeMetrics, CalcOk
  <2> QED
    BY <1>2, <2>1, <2>2
<1>4. ASSUME \/ Start("all") \/ RecoverMetrics
             \/ \E n \in sources : DisableFaces(n)
             \/ \E f \in todo : RoutesVia(f)
      PROVE  ShortestDone'
  <2>1. RecoverMetrics => calc' = "all"
    BY DEF RecoverMetrics, BorrowInv, Borrowing
  <2>2. calc' = "all"
    BY <1>4, <2>1, TodoRuns DEF Start, DisableFaces, RoutesVia
  <2> QED
    BY <1>2, <2>2
<1>5. ASSUME UNCHANGED <<graphVars, configured, localPrefixes>>
      PROVE  /\ Sources' = Sources /\ \A n : FacesOf(n)' = FacesOf(n)
             /\ \A p : Origins(p)' = Origins(p)
             /\ \A o, avoid : CostTo(o, avoid)' = CostTo(o, avoid)
             /\ \A n, p : Near(n, p)' = Near(n, p)
             /\ \A f, n, o : Cheapest(f, n, o)' <=> Cheapest(f, n, o)
             /\ \A n : (\A f \in FacesOf(n) : \A p \in Names : fib'[f][p] = fib[f][p]) => (Routed(n)' <=> Routed(n))
  <2>1. /\ Sources' = Sources /\ \A n : FacesOf(n)' = FacesOf(n)
        /\ \A p : Origins(p)' = Origins(p)
        /\ \A n : (\A f \in FacesOf(n) : \A p \in Names : fib'[f][p] = fib[f][p]) => (Routed(n)' <=> Routed(n))
    BY <1>5, SameNodes, SameRoutes DEF graphVars, Sources
  <2>2. \A o, avoid : CostTo(o, avoid)' = CostTo(o, avoid)
    BY <1>5, SameCosts DEF graphVars
  <2>3. \A f, o : CostVia(f, o)' = CostVia(f, o)
    BY <1>5, SameCosts DEF graphVars
  <2>4. \A n, p : Near(n, p)' = Near(n, p)
    BY <2>1, <2>2 DEF Near
  <2>5. \A f, n, o : Cheapest(f, n, o)' <=> Cheapest(f, n, o)
    BY <2>2, <2>3 DEF Cheapest
  <2> QED
    BY <2>1, <2>2, <2>4, <2>5
<1>6. CASE Start("plain")
  <2>1. /\ UNCHANGED <<graphVars, configured, localPrefixes>> /\ calc' = "plain" /\ sources' = Sources
    BY <1>6 DEF Start
  <2>2. Sources' = Sources
    BY <1>5, <2>1
  <2> QED
    BY <2>1, <2>2 DEF ShortestDone
<1>7. ASSUME NEW n \in sources, RoutesOf(n)
      PROVE  ShortestDone'
  <2>1. /\ UNCHANGED <<graphVars, configured, localPrefixes, calc>> /\ calc = "plain" /\ frames = <<>>
        /\ sources' = sources \ {n}
    BY <1>7 DEF RoutesOf, CalcOk
  <2>2. Drawn
    BY <2>1, GraphIsDrawn
  <2>3. /\ \A g \in Faces : \A p \in Names : g \notin FacesOf(n) => fib'[g][p] = fib[g][p]
        /\ \A p \in Names : \A o \in Near(n, p) : \E f \in FacesOf(n), x \in Near(n, p) :
             Cheapest(f, n, o) /\ Cheapest(f, n, x) /\ fib'[f][p] = CostTo(x, {})[n]
    BY <1>7, <2>2, PlainAdded
  <2>4. Routed(n)'
    BY <1>5, <2>1, <2>3 DEF Routed
  <2>5. ASSUME NEW x \in Sources \ sources, x # n
        PROVE  Routed(x)'
    <3>1. Routed(x)
      BY <2>1 DEF ShortestDone
    <3>2. \A f \in FacesOf(x) : f \in Faces /\ f \notin FacesOf(n)
      BY <2>5 DEF FacesOf
    <3>3. \A f \in FacesOf(x) : \A p \in Names : fib'[f][p] = fib[f][p]
      BY <2>3, <3>2
    <3> QED
      BY <1>5, <2>1, <3>1, <3>3
  <2> QED
    BY <1>5, <2>1, <2>4, <2>5 DEF ShortestDone
<1>8. CASE Finish
  <2>1. /\ UNCHANGED <<graphVars, configured, localPrefixes, fib>>
        /\ calc # "idle" /\ sources = {} /\ calc' = "idle"
        /\ count' = [calcs |-> count.calcs, changes |-> count.changes, last |-> calc]
    BY <1>1, <1>8 DEF Finish
  <2>2. CASE calc = "plain"
    <3>1. ASSUME NEW n \in Sources
          PROVE  Routed(n)'
      <4>1. Routed(n)
        BY <2>1, <2>2 DEF ShortestDone
      <4> QED
        BY <1>5, <2>1, <4>1
    <3> QED
      BY <1>5, <2>1, <3>1 DEF ShortestDone
  <2>3. CASE calc # "plain"
    BY <1>2, <2>1, <2>3
  <2> QED
    BY <2>2, <2>3
<1> QED
  BY <1>3, <1>4, <1>6, <1>7, <1>8, RoutingSteps

\* A new network has no routes.
LEMMA RoutesBuilt ==
  ASSUME RouteInv, BorrowInv, NEW net, Metered(net), reader' = reader
  PROVE  RouteInv'
<1>1. /\ channels = <<>> /\ UNCHANGED <<routers, frames, calcVars, count>>
      /\ fib' = [f \in Faces' |-> [p \in Names |-> NoRoute]]
  BY DEF Metered, Build
<1>2. calc = "idle" /\ count.last = "none" /\ sources = {}
  BY <1>1 DEF RouteInv, CalcOk
<1>3. CalcOk'
  BY <1>1, <1>2 DEF RouteInv, CalcOk, calcVars
<1>4. AllDone' /\ ShortestDone'
  BY <1>1, <1>2 DEF AllDone, ShortestDone, calcVars
<1>5. FibSound'
  BY <1>1 DEF FibSound
<1> QED
  BY <1>3, <1>4, <1>5, TypesBuilt DEF RouteInv

\* Commands of the helpers, which calculate no routes.
LEMMA RoutesHelped ==
  ASSUME RouteInv, UNCHANGED routeVars, reader = "helper", reader' = reader
  PROVE  RouteInv'
<1>1. UNCHANGED <<channels, routers, frames, metric, configured, localPrefixes, calc, sources, todo,
                  originalMetrics, count>>
  BY DEF routeVars, calcVars
<1>2. Faces' = Faces /\ Nodes' = Nodes
  BY <1>1, SameNodes
<1>3. Sources' = Sources
  BY <1>1, <1>2 DEF Sources
<1>4. RouteTypes' /\ CalcOk'
  BY <1>1, <1>2, <1>3 DEF RouteInv, RouteTypes, CalcOk
<1>5. calc' = "idle" /\ count'.last = "none"
  BY <1>1 DEF RouteInv, CalcOk
<1>6. FibSound' /\ AllDone' /\ ShortestDone'
  BY <1>5 DEF FibSound, AllDone, ShortestDone
<1> QED
  BY <1>4, <1>6 DEF RouteInv

\* Steps of the readers.
LEMMA RoutesLeftAlone ==
  ASSUME RouteInv, UNCHANGED routingVars, reader' = reader
  PROVE  RouteInv'
<1>1. UNCHANGED <<graphVars, channels, routers, frames, metric, configured, localPrefixes, fib, calc, sources, todo,
                  originalMetrics, count>>
  BY DEF routingVars, calcVars, graphVars
<1>2. /\ Faces' = Faces /\ Nodes' = Nodes /\ \A f : NodeOf(f)' = NodeOf(f)
      /\ \A p : Origins(p)' = Origins(p)
      /\ \A f : ViaKept(f)' <=> ViaKept(f)
      /\ \A n : Routed(n)' <=> Routed(n)
  BY <1>1, SameNodes, SameRoutes
<1>3. Sources' = Sources
  BY <1>1, <1>2 DEF Sources
<1>4. RouteTypes' /\ CalcOk'
  BY <1>1, <1>2, <1>3 DEF RouteInv, RouteTypes, CalcOk
<1>5. FibSound'
  BY <1>1, <1>2, SoundSame DEF RouteInv
<1>6. \A f : Processed(f)' <=> Processed(f)
  BY <1>1, <1>2, <1>3 DEF Processed
<1>7. AllDone'
  BY <1>1, <1>2, <1>3, <1>6 DEF RouteInv, AllDone
<1>8. ShortestDone'
  BY <1>1, <1>2, <1>3 DEF RouteInv, ShortestDone
<1> QED
  BY <1>4, <1>5, <1>7, <1>8 DEF RouteInv

\* RouteInv is inductive, with what is known of the graph and of the metrics.
LEMMA RouteStep ==
  FileInv /\ BorrowInv /\ GraphInv /\ GraphMirrorsNetwork /\ RouteInv /\ [Next]_vars => RouteInv'
<1> SUFFICES ASSUME FileInv, BorrowInv, GraphInv, GraphMirrorsNetwork, RouteInv, [Next]_vars
             PROVE  RouteInv'
  OBVIOUS
<1>1. reader' = reader
  BY SameReader
<1>2. ASSUME RoutingStep, reader # "helper"
      PROVE  RouteInv'
  BY <1>1, <1>2, TypesKept, CalcKept, SoundKept, AllKept, ShortestKept DEF RouteInv
<1> QED
  BY <1>1, <1>2, RouteSteps, RoutesBuilt, RoutesHelped, RoutesLeftAlone

\* Unless metrics changed every next hop leads to an origin at its cost.
LEMMA RoutesSound ==
  ASSUME GraphInv, RouteInv, Idle, count.last \in {"plain", "all"}, count.changes = 0,
         NEW p \in Names, NEW f \in Faces
  PROVE  fib[f][p] \in CostsVia(f, p) \cup {NoRoute}
<1>1. reader # "helper"
  BY DEF RouteInv, CalcOk
<1>2. CASE fib[f][p] = NoRoute
  BY <1>2
<1>3. ASSUME NEW o \in Origins(p) \ {NodeOf(f)}, fib[f][p] = CostVia(f, o), fib[f][p] < WeightInf
      PROVE  fib[f][p] \in CostsVia(f, p)
  <2>1. PICK s \in Nodes : s = NodeOf(f) /\ f \in FacesOf(s) /\ o # s
    BY DEF Nodes, FacesOf
  <2>2. NetworkOk
    BY DEF GraphInv
  <2>3. CostVia(f, o) = Uint16(configured[f]) + Rest(f, o) /\ Rest(f, o) \in Nat /\ Uint16(configured[f]) \in Nat
    BY <2>1, <2>2, RestType, Uint16Type DEF RouteInv, RouteTypes, MetricsOk
  <2>4. CostVia(f, o) \in 0 .. Disabled
    BY <1>3, <2>3, CostBounds
  <2> QED
    BY <1>3, <2>4 DEF CostsVia
<1> QED
  BY <1>1, <1>2, <1>3 DEF RouteInv, FibSound

\* What the invariants say between two calculations.
LEMMA RoutesExact ==
  ASSUME GraphInv, RouteInv
  PROVE  AllRoutesExact
<1> SUFFICES ASSUME Idle, count.last = "all", NEW p \in Names, NEW f \in Faces, NodeOf(f) \in Sources
             PROVE  IF CostsVia(f, p) \ {Disabled} # {} THEN fib[f][p] \in CostsVia(f, p)
                    ELSE count.changes > 0 \/ fib[f][p] \in CostsVia(f, p) \cup {NoRoute}
  BY DEF AllRoutesExact
<1>1. CASE CostsVia(f, p) \ {Disabled} # {}
  BY <1>1 DEF RouteInv, AllDone, ViaKept, Idle
<1>2. ASSUME count.changes = 0
      PROVE  fib[f][p] \in CostsVia(f, p) \cup {NoRoute}
  BY <1>2, RoutesSound
<1>3. count.changes \in Nat
  BY DEF RouteInv, CalcOk
<1> QED
  BY <1>1, <1>2, <1>3

\* What they say after shortest paths were calculated.
LEMMA RoutesShortest ==
  ASSUME GraphInv, RouteInv
  PROVE  ShortestRouted
<1> SUFFICES ASSUME Idle, count.last = "plain", NEW p \in Names, NEW n \in Sources
             PROVE  /\ \A o \in Near(n, p) : \E f \in FacesOf(n), x \in Near(n, p) :
                         StartsWith(f, o) /\ StartsWith(f, x) /\ fib[f][p] = CostTo(x, {})[n]
                    /\ count.changes = 0 => \A f \in FacesOf(n) : fib[f][p] \in CostsVia(f, p) \cup {NoRoute}
  BY DEF ShortestRouted, Near
<1>1. ASSUME NEW o \in Near(n, p)
      PROVE  \E f \in FacesOf(n), x \in Near(n, p) :
               StartsWith(f, o) /\ StartsWith(f, x) /\ fib[f][p] = CostTo(x, {})[n]
  <2>1. PICK f \in FacesOf(n), x \in Near(n, p) :
          Cheapest(f, n, o) /\ Cheapest(f, n, x) /\ fib[f][p] = CostTo(x, {})[n]
    BY DEF RouteInv, ShortestDone, Routed, Idle
  <2>2. NodeOf(f) = n
    BY DEF FacesOf
  <2> QED
    BY <2>1, <2>2 DEF Cheapest, StartsWith
<1>2. ASSUME count.changes = 0, NEW f \in FacesOf(n)
      PROVE  fib[f][p] \in CostsVia(f, p) \cup {NoRoute}
  BY <1>2, RoutesSound DEF FacesOf
<1> QED
  BY <1>1, <1>2

\* CalculateAllPossibleRoutes, whatever the network, the origins and the metrics: when it
\* is done a node has a next hop over exactly those faces that lead to an origin without
\* coming back, at what the cheapest such way costs.
THEOREM AllPossibleRoutesAreExact == Spec => []AllRoutesExact
<1>1. GraphInv /\ RouteInv => AllRoutesExact
  BY RoutesExact
<1>2. RouteInv => MetricsOk
  BY DEF RouteInv, RouteTypes, MetricsOk
<1> QED
  BY FileInit, FileStep, BorrowInit, BorrowStep, GraphInit, GraphStep, InstallMirrorsNetwork, RouteInit, RouteStep,
     RoutingOfNext, RoutingOfInit, <1>1, <1>2, PTL DEF Spec

\* CalculateRoutes, whatever the network, its metrics and the origins of a prefix: when it
\* is done a node has a next hop to each origin it reaches, over a face with which a shortest
\* path starts, and every next hop leads to an origin at its cost.
THEOREM ShortestPathsAreRouted == Spec => []ShortestRouted
<1>1. GraphInv /\ RouteInv => ShortestRouted
  BY RoutesShortest
<1>2. RouteInv => MetricsOk
  BY DEF RouteInv, RouteTypes, MetricsOk
<1> QED
  BY FileInit, FileStep, BorrowInit, BorrowStep, GraphInit, GraphStep, InstallMirrorsNetwork, RouteInit, RouteStep,
     RoutingOfNext, RoutingOfInit, <1>1, <1>2, PTL DEF Spec

\* Whatever the network and the order of installations, calculations and changes of
\* metrics: CalculateAllPossibleRoutes disables the faces of the node it works on only,
\* and every metric that fits 16 bits is back when it has finished a node; of a larger
\* one the low 16 bits are.
THEOREM MetricsAreGivenBack == Spec => []MetricsBorrowed
<1>1. BorrowInv /\ RouteInv => MetricsBorrowed
  <2> SUFFICES ASSUME BorrowInv, RouteInv, NEW f \in Faces, metric[f] # configured[f]
               PROVE  \/ calc = "all" /\ f \in DOMAIN originalMetrics /\ metric[f] = Disabled
                      \/ configured[f] > WeightInf /\ metric[f] = Uint16(configured[f])
    BY DEF MetricsBorrowed
  <2>1. CASE f \in DOMAIN originalMetrics
    <3>1. originalMetrics # <<>> /\ metric[f] = Disabled
      BY <2>1, EmptyDomain DEF BorrowInv, MetricsKept
    <3> QED
      BY <2>1, <3>1 DEF BorrowInv, Borrowing
  <2>2. CASE f \notin DOMAIN originalMetrics
    <3>1. metric[f] = Uint16(configured[f]) /\ configured[f] \in Nat
      BY <2>2 DEF BorrowInv, MetricsKept, Left, RouteInv, RouteTypes
    <3>2. ~(configured[f] <= WeightInf)
      BY <3>1, Uint16Type
    <3> QED
      BY <3>1, <3>2 DEF WeightInf
  <2> QED
    BY <2>1, <2>2
<1>2. RouteInv => MetricsOk
  BY DEF RouteInv, RouteTypes, MetricsOk
<1> QED
  BY FileInit, FileStep, BorrowInit, BorrowStep, GraphInit, GraphStep, InstallMirrorsNetwork, RouteInit, RouteStep,
     RoutingOfNext, RoutingOfInit, <1>1, <1>2, PTL DEF Spec
=============================================================================
