----------------------------- MODULE Iterations -----------------------------
(***************************************************************************)
(* Induction and recursion over the natural numbers, in the form of sets   *)
(* and functions: what the proofs about recursive functions rest on.       *)
(***************************************************************************)
EXTENDS Integers, WellFoundedInduction, TLAPS

\* Induction: a set of numbers with 0 and the successor of each has them all.
LEMMA NatSets ==
  ASSUME NEW T, 0 \in T, \A i \in T \cap Nat : i + 1 \in T
  PROVE  Nat \subseteq T
  <1> SUFFICES ASSUME Nat \ T # {} PROVE FALSE
    OBVIOUS
  <1>1. PICK x \in Nat \ T : \A y \in Nat \ T : <<y, x>> \notin OpToRel(<, Nat)
    BY WFMin, NatLessThanWellFounded, Nat \ T \subseteq Nat
  <1>2. x # 0 /\ x - 1 \in Nat /\ x - 1 < x /\ (x - 1) + 1 = x
    OBVIOUS
  <1>3. <<x - 1, x>> \in OpToRel(<, Nat)
    BY <1>2 DEF OpToRel
  <1>4. x - 1 \in T
    BY <1>1, <1>2, <1>3, Zenon
  <1> QED
    BY <1>2, <1>4

\* A function that is iterated has a value after any number of times.
LEMMA Iteration ==
  ASSUME NEW S, NEW F \in [S -> S], NEW x \in S
  PROVE  \E g \in [Nat -> S] : g = [i \in Nat |-> IF i = 0 THEN x ELSE F[g[i - 1]]]
  <1> DEFINE Upto(n) == {g \in [0 .. n -> S] : /\ g[0] = x
                                               /\ \A i \in 1 .. n : g[i] = F[g[i - 1]]}
             T == {n \in Nat : Upto(n) # {}}
  <1>1. Nat \subseteq T
    <2>1. 0 \in T
      <3>1. [i \in 0 .. 0 |-> x] \in Upto(0)
        OBVIOUS
      <3> QED
        BY <3>1
    <2>2. ASSUME NEW n \in T PROVE n + 1 \in T
      <3>1. n \in Nat
        OBVIOUS
      <3>2. PICK g \in [0 .. n -> S] : g[0] = x /\ \A i \in 1 .. n : g[i] = F[g[i - 1]]
        OBVIOUS
      <3> DEFINE h == [i \in 0 .. n + 1 |-> IF i <= n THEN g[i] ELSE F[g[n]]]
      <3>3. h \in [0 .. n + 1 -> S]
        BY <3>1, <3>2
      <3>4. h[0] = x
        BY <3>1, <3>2
      <3>5. ASSUME NEW i \in 1 .. n + 1 PROVE h[i] = F[h[i - 1]]
        <4>1. i - 1 \in 0 .. n /\ h[i - 1] = g[i - 1]
          BY <3>1
        <4>2. CASE i <= n
          BY <3>1, <3>2, <4>1, <4>2
        <4>3. CASE ~(i <= n)
          <5>1. i = n + 1 /\ i - 1 = n
            BY <3>1, <4>3
          <5> QED
            BY <3>1, <4>1, <5>1
        <4> QED
          BY <4>2, <4>3
      <3> HIDE DEF h
      <3>6. h \in Upto(n + 1)
        BY <3>3, <3>4, <3>5
      <3> QED
        BY <3>1, <3>6
    <2> HIDE DEF T
    <2> QED
      BY <2>1, <2>2, NatSets
  <1>2. \A n \in Nat : \E g : g \in Upto(n)
    BY <1>1
  <1>3. ASSUME NEW n \in Nat, NEW m \in Nat, n <= m,
               NEW g \in Upto(n), NEW h \in Upto(m)
        PROVE  \A i \in 0 .. n : g[i] = h[i]
    <2> DEFINE E == {i \in Nat : i <= n => g[i] = h[i]}
    <2>1. 0 \in E
      OBVIOUS
    <2>2. ASSUME NEW i \in E \cap Nat PROVE i + 1 \in E
      <3>1. i + 1 \in Nat /\ (i + 1) - 1 = i
        OBVIOUS
      <3>2. ASSUME i + 1 <= n PROVE g[i + 1] = h[i + 1]
        <4>1. i + 1 \in 1 .. n /\ i + 1 \in 1 .. m /\ g[i] = h[i]
          BY <1>3, <3>1, <3>2
        <4>2. g[i + 1] = F[g[i]] /\ h[i + 1] = F[h[i]]
          BY <3>1, <4>1
        <4> QED
          BY <4>1, <4>2
      <3> QED
        BY <3>1, <3>2
    <2>3. Nat \subseteq E
      <3> HIDE DEF E
      <3> QED
        BY <2>1, <2>2, NatSets
    <2> QED
      BY <2>3
  <1> DEFINE g == [i \in Nat |-> (CHOOSE h : h \in Upto(i))[i]]
  <1>4. \A i \in Nat : (CHOOSE h : h \in Upto(i)) \in Upto(i)
    <2> HIDE DEF Upto
    <2> QED
      BY <1>2
  <1>5. g \in [Nat -> S]
    <2>1. ASSUME NEW i \in Nat PROVE g[i] \in S
      <3>1. PICK h : h = (CHOOSE hh : hh \in Upto(i)) /\ h \in Upto(i)
        BY <1>4
      <3>2. h \in [0 .. i -> S] /\ i \in 0 .. i
        <4>1. h \in [0 .. i -> S]
          BY <3>1
        <4>2. i \in 0 .. i
          OBVIOUS
        <4> QED
          BY <4>1, <4>2
      <3>3. g[i] = h[i]
        BY <3>1
      <3> QED
        BY <3>2, <3>3
    <2> QED
      BY <2>1
  <1>6. g[0] = x
    BY <1>4
  <1>7. ASSUME NEW i \in Nat, i # 0 PROVE g[i] = F[g[i - 1]]
    <2>1. i - 1 \in Nat /\ i - 1 <= i /\ i - 1 \in 0 .. i - 1 /\ i \in 1 .. i
      BY <1>7
    <2>2. PICK h : h = (CHOOSE hh : hh \in Upto(i)) /\ h \in Upto(i)
      BY <1>4
    <2>3. PICK e : e = (CHOOSE hh : hh \in Upto(i - 1)) /\ e \in Upto(i - 1)
      BY <1>4, <2>1
    <2>4. e[i - 1] = h[i - 1]
      <3> HIDE DEF Upto
      <3> QED
        BY <1>3, <2>1, <2>2, <2>3
    <2>5. h[i] = F[h[i - 1]]
      BY <2>1, <2>2
    <2>6. g[i] = h[i] /\ g[i - 1] = e[i - 1]
      BY <2>1, <2>2, <2>3
    <2> QED
      BY <2>4, <2>5, <2>6
  <1>8. g = [i \in Nat |-> IF i = 0 THEN x ELSE F[g[i - 1]]]
    <2> DEFINE k == [i \in Nat |-> IF i = 0 THEN x ELSE F[g[i - 1]]]
    <2>1. \A i \in Nat : g[i] = k[i]
      <3> HIDE DEF g
      <3> QED
        BY <1>6, <1>7
    <2>2. DOMAIN g = Nat /\ DOMAIN k = Nat /\ g = [i \in Nat |-> g[i]] /\ k = [i \in Nat |-> k[i]]
      OBVIOUS
    <2> HIDE DEF g, k
    <2>3. g = k
      BY <2>1, <2>2
    <2> QED
      BY <2>3 DEF k
  <1> HIDE DEF g
  <1> QED
    BY <1>5, <1>8

\* Recursion: each value depends on the one before and on its number.
IndexedSteps(S) == [Nat -> [S -> S]]
Values(g, S, F, x) == g \in [Nat -> S] /\ g[0] = x /\ \A k \in Nat : g[k + 1] = F[k][g[k]]

\* Every such recursion has a solution.
LEMMA Recursion ==
  ASSUME NEW S, NEW F, F \in IndexedSteps(S), NEW x, x \in S
  PROVE  \E g : Values(g, S, F, x)
<1> DEFINE P == Nat \X S
           N == [z \in P |-> <<z[1] + 1, F[z[1]][z[2]]>>]
<1>1. N \in [P -> P] /\ <<0, x>> \in P
  BY DEF IndexedSteps
<1>2. PICK h \in [Nat -> P] : h = [i \in Nat |-> IF i = 0 THEN <<0, x>> ELSE N[h[i - 1]]]
  <2>1. PICK Q, M, z : Q = P /\ M = N /\ z = <<0, x>>
    OBVIOUS
  <2>2. M \in [Q -> Q] /\ z \in Q
    <3> HIDE DEF N, P
    <3> QED
      BY <1>1, <2>1
  <2>3. \E h \in [Nat -> Q] : h = [i \in Nat |-> IF i = 0 THEN z ELSE M[h[i - 1]]]
    <3> HIDE DEF N, P
    <3> QED
      BY <2>2, Iteration
  <2> HIDE DEF N, P
  <2> QED
    BY <2>1, <2>3
<1>3. h[0] = <<0, x>> /\ \A k \in Nat : h[k + 1] = N[h[k]]
  <2>1. \A k \in Nat : k + 1 \in Nat /\ k + 1 # 0 /\ (k + 1) - 1 = k
    OBVIOUS
  <2> HIDE DEF N
  <2> QED
    BY <1>2, <2>1
<1>4. \A k \in Nat : h[k] \in P /\ h[k] = <<h[k][1], h[k][2]>> /\ h[k][2] \in S
  OBVIOUS
<1>5. \A k \in Nat : h[k + 1] = <<h[k][1] + 1, F[h[k][1]][h[k][2]]>>
  BY <1>3, <1>4
<1>6. \A k \in Nat : h[k][1] = k
  <2> DEFINE T == {k \in Nat : h[k][1] = k}
  <2>1. 0 \in T
    BY <1>3
  <2>2. ASSUME NEW k \in T \cap Nat PROVE k + 1 \in T
    BY <1>5
  <2>3. Nat \subseteq T
    <3> HIDE DEF T
    <3> QED
      BY <2>1, <2>2, NatSets
  <2> QED
    BY <2>3
<1> DEFINE g == [k \in Nat |-> h[k][2]]
<1>7. g \in [Nat -> S] /\ g[0] = x
  BY <1>3, <1>4
<1>8. ASSUME NEW k \in Nat PROVE g[k + 1] = F[k][g[k]]
  <2>1. h[k][1] = k /\ h[k][2] = g[k] /\ k + 1 \in Nat
    BY <1>4, <1>6
  <2>2. h[k + 1] = <<h[k][1] + 1, F[h[k][1]][h[k][2]]>> /\ g[k + 1] = h[k + 1][2]
    BY <1>5, <2>1
  <2> HIDE DEF g
  <2>3. h[k + 1][2] = F[h[k][1]][h[k][2]]
    BY <2>2
  <2> QED
    BY <2>1, <2>2, <2>3
<1> HIDE DEF g
<1> QED
  BY <1>7, <1>8 DEF Values

\* A set of numbers has a least one.
LEMMA LeastOf ==
  ASSUME NEW S, S # {}, S \subseteq Nat
  PROVE  \E x \in S : \A y \in S : x <= y
<1>1. PICK x \in S : \A y \in S : <<y, x>> \notin OpToRel(<, Nat)
  BY WFMin, NatLessThanWellFounded
<1>2. \A y \in S : ~(y < x)
  BY <1>1 DEF OpToRel
<1> QED
  BY <1>2

\* A bounded one has a greatest.
LEMMA GreatestOf ==
  ASSUME NEW S, S # {}, S \subseteq Nat, NEW b \in Nat, \A x \in S : x <= b
  PROVE  \E x \in S : \A y \in S : y <= x
<1> DEFINE T == {b - x : x \in S}
<1>1. T # {} /\ T \subseteq Nat
  <2>1. \A x \in S : b - x \in Nat
    OBVIOUS
  <2>2. PICK x : x \in S
    OBVIOUS
  <2>3. b - x \in T
    BY <2>2
  <2> QED
    BY <2>1, <2>3
<1>2. PICK t \in T : \A u \in T : t <= u
  <2> HIDE DEF T
  <2> QED
    BY <1>1, LeastOf
<1>3. PICK x \in S : t = b - x
  OBVIOUS
<1>4. \A y \in S : b - x <= b - y
  BY <1>2, <1>3
<1> QED
  BY <1>4

\* The same, with the values of the iteration as facts.
Iterates(f, T, F) == f \in [Nat -> T] /\ \A k \in Nat : f[k + 1] = F[f[k]]

\* Any function on T can be iterated.
LEMMA IteratesExist ==
  ASSUME NEW T, NEW F \in [T -> T], NEW x \in T
  PROVE  \E f : Iterates(f, T, F)
<1>1. PICK f \in [Nat -> T] : f = [i \in Nat |-> IF i = 0 THEN x ELSE F[f[i - 1]]]
  BY Iteration
<1>2. ASSUME NEW k \in Nat PROVE f[k + 1] = F[f[k]]
  <2>1. k + 1 \in Nat /\ k + 1 # 0 /\ (k + 1) - 1 = k
    OBVIOUS
  <2> QED
    BY <1>1, <2>1
<1> QED
  BY <1>2 DEF Iterates

\* Recursion on a measure: a function whose value at d depends on its values where the
\* measure is smaller, also when they are nested, as long as these values have the
\* property Q.
OnSmaller(d, D, m, Q, g, h) ==
  \A e \in D : m[e] < m[d] => g[e] = h[e] /\ <<e, g[e]>> \in Q

Descends(D, S, m, Q, B) ==
  \A g, h \in [D -> S] : \A d \in D :
    OnSmaller(d, D, m, Q, g, h) => B[g][d] = B[h][d] /\ <<d, B[g][d]>> \in Q

Recursive(D, S, m, B) == m \in [D -> Nat] /\ B \in [[D -> S] -> [D -> S]]

\* h is a value of the recursion.
Solves(h, D, S, Q, B) == h \in [D -> S] /\ h = B[h] /\ \A d \in D : <<d, h[d]>> \in Q

\* Every such recursion on a measure has a solution, with the property Q.
LEMMA MeasuredRecursion ==
  ASSUME NEW D, NEW S, NEW m, NEW Q, NEW B, Recursive(D, S, m, B),
         NEW start \in S, Descends(D, S, m, Q, B)
  PROVE  \E h : Solves(h, D, S, Q, B)
<1> USE DEF Recursive
<1>1. [d \in D |-> start] \in [D -> S]
  OBVIOUS
<1>2. PICK f \in [Nat -> [D -> S]] : \A k \in Nat : f[k + 1] = B[f[k]]
  <2>1. PICK T : T = [D -> S]
    OBVIOUS
  <2>2. B \in [T -> T] /\ [d \in D |-> start] \in T
    BY <1>1, <2>1
  <2>3. \E f : Iterates(f, T, B)
    BY <2>2, IteratesExist
  <2> QED
    BY <2>1, <2>3 DEF Iterates
<1>3. \A k \in Nat : f[k] \in [D -> S] /\ f[k + 1] \in [D -> S]
  OBVIOUS
<1> DEFINE Same(k) == \A d \in D : m[d] < k => f[k][d] = f[k + 1][d] /\ <<d, f[k][d]>> \in Q
           T == {k \in Nat : Same(k)}
<1>4. 0 \in T
  OBVIOUS
<1>5. ASSUME NEW k \in T \cap Nat PROVE k + 1 \in T
  <2> SUFFICES ASSUME NEW d \in D, m[d] < k + 1
               PROVE  f[k + 1][d] = f[(k + 1) + 1][d] /\ <<d, f[k + 1][d]>> \in Q
    OBVIOUS
  <2>1. OnSmaller(d, D, m, Q, f[k], f[k + 1])
    <3> SUFFICES ASSUME NEW e \in D, m[e] < m[d]
                 PROVE  f[k][e] = f[k + 1][e] /\ <<e, f[k][e]>> \in Q
      BY DEF OnSmaller
    <3>1. m[e] < k
      OBVIOUS
    <3> QED
      BY <3>1
  <2>2. B[f[k]][d] = B[f[k + 1]][d] /\ <<d, B[f[k]][d]>> \in Q
    BY <1>3, <2>1 DEF Descends
  <2>3. f[k + 1] = B[f[k]] /\ f[(k + 1) + 1] = B[f[k + 1]]
    BY <1>2
  <2> QED
    BY <2>2, <2>3
<1>6. \A k \in Nat : Same(k)
  <2>1. Nat \subseteq T
    <3> HIDE DEF T
    <3> QED
      BY <1>4, <1>5, NatSets
  <2> QED
    BY <2>1
<1> DEFINE h == [d \in D |-> f[m[d] + 1][d]]
<1>7. h \in [D -> S]
  BY <1>3
\* It is what the iterations come to.
<1>8. ASSUME NEW e \in D
      PROVE  \A k \in Nat : m[e] < k => f[k][e] = h[e]
  <2> DEFINE U == {k \in Nat : f[k + 1 + m[e]][e] = h[e]}
  <2>1. 0 \in U
    OBVIOUS
  <2>2. ASSUME NEW j \in U \cap Nat PROVE j + 1 \in U
    <3>1. PICK i \in Nat : i = j + 1 + m[e] /\ i + 1 = (j + 1) + 1 + m[e] /\ m[e] < i
      OBVIOUS
    <3>2. f[i][e] = f[i + 1][e]
      BY <1>6, <3>1
    <3>3. f[i][e] = h[e]
      BY <3>1
    <3> HIDE DEF h
    <3>4. f[(j + 1) + 1 + m[e]][e] = h[e]
      BY <3>1, <3>2, <3>3
    <3> QED
      BY <3>4
  <2>3. Nat \subseteq U
    <3> HIDE DEF U
    <3> QED
      BY <2>1, <2>2, NatSets
  <2> HIDE DEF h
  <2> SUFFICES ASSUME NEW k \in Nat, m[e] < k
               PROVE  f[k][e] = h[e]
    OBVIOUS
  <2>4. PICK j \in Nat : k = j + 1 + m[e]
    <3>1. k - 1 - m[e] \in Nat /\ k = (k - 1 - m[e]) + 1 + m[e]
      OBVIOUS
    <3> QED
      BY <3>1
  <2>5. j \in U
    BY <2>3
  <2> QED
    BY <2>4, <2>5
<1>9. ASSUME NEW d \in D
      PROVE  h[d] = B[h][d] /\ <<d, h[d]>> \in Q
  <2>1. m[d] \in Nat /\ h[d] = f[m[d] + 1][d]
    OBVIOUS
  <2> HIDE DEF h
  <2>2. OnSmaller(d, D, m, Q, f[m[d]], h)
    <3> SUFFICES ASSUME NEW e \in D, m[e] < m[d]
                 PROVE  f[m[d]][e] = h[e] /\ <<e, f[m[d]][e]>> \in Q
      BY DEF OnSmaller
    <3> QED
      BY <1>6, <1>8, <2>1
  <2>3. B[f[m[d]]][d] = B[h][d] /\ <<d, B[f[m[d]]][d]>> \in Q
    BY <1>3, <1>7, <2>1, <2>2 DEF Descends
  <2>4. f[m[d] + 1] = B[f[m[d]]]
    BY <1>2, <2>1
  <2> QED
    BY <2>1, <2>3, <2>4
<1>10. h = B[h]
  <2> HIDE DEF h
  <2>1. PICK g : g = B[h]
    OBVIOUS
  <2>2. g \in [D -> S]
    BY <1>7, <2>1
  <2>3. \A d \in D : h[d] = g[d]
    BY <1>9, <2>1
  <2>4. h = g
    BY <1>7, <2>2, <2>3
  <2> QED
    BY <2>1, <2>4
<1> HIDE DEF h
<1> QED
  BY <1>7, <1>9, <1>10 DEF Solves
=============================================================================
