---------------------------- MODULE TraceBoltProofs ----------------------------
(***************************************************************************)
(* Proofs about TraceBolt for any requests and any length of the traced    *)
(* name, where the forwarder has at most one face that leads on: requests  *)
(* in mode M then have one reply to wait for, like those in mode S.  (With *)
(* two faces both properties fail, see the run trace_bolt_multi.)  That no *)
(* request is forgotten is proved for any number of faces, and what a      *)
(* trace reports for any path and any times.                               *)
(***************************************************************************)
EXTENDS TraceBolt, FiniteSetTheorems, Iterations

OneFace == \A f, g \in Faces : f = g

BoltType ==
  /\ mode \in [Nonces -> {"M", "S"}] /\ fib \in [1 .. NameLen -> SUBSET Faces]
  /\ loop \subseteq Nonces /\ fetching \subseteq Nonces
  /\ reqs \in [Nonces -> Quest \cup {Absent}]
  /\ pending \in [Nonces -> [Hops -> Nat]]
  /\ accepted \in [Nonces -> Nat] /\ answered \in [Nonces -> Nat]

\* A request waits for the FIB, or for the answer of one Interest, or for nothing.
OneWait ==
  \A n \in Nonces :
    /\ n \in fetching => n \in loop /\ mode[n] = "M" /\ \A h \in Hops : pending[n][h] = 0
    /\ \A h \in Hops : pending[n][h] # 0 =>
         /\ pending[n][h] = 1 /\ n \in loop
         /\ \A g \in Hops : g # h => pending[n][g] = 0

\* The Quest of a request that waits, before its first reply.
Waits(n) ==
  /\ reqs[n] # Absent /\ reqs[n].p1 = mode[n] /\ reqs[n].reply = {}
  /\ mode[n] = "M" => \A h \in Hops : pending[n][h] # 0 => reqs[n].mhops = {h}
QuestWaits ==
  \A n \in Nonces : (n \in fetching \/ \E h \in Hops : pending[n][h] # 0) => Waits(n)

BoltInv == BoltType /\ OneWait /\ QuestWaits /\ Accounted

LEMMA QuestFields ==
  ASSUME NEW q \in Quest \cup {Absent}, q # Absent
  PROVE  q \in Quest /\ q.p1 \in {"M", "S", ""} /\ q.mhops \in SUBSET Faces /\ q.reply \in SUBSET Hops
         /\ q = [p1 |-> q.p1, mhops |-> q.mhops, reply |-> q.reply]
  BY DEF Quest, Absent

LEMMA EmptyQuest == Empty \in Quest /\ Empty # Absent
  BY DEF Empty, Quest, Absent

LEMMA BoltInit == Init => BoltInv
<1> SUFFICES ASSUME Init
             PROVE  BoltInv
  OBVIOUS
<1>1. BoltType
  BY DEF Init, BoltType
<1>2. OneWait /\ QuestWaits
  BY DEF Init, OneWait, QuestWaits
<1>3. Accounted
  BY DEF Init, Accounted
<1> QED
  BY <1>1, <1>2, <1>3 DEF BoltInv

LEMMA NextHopsType ==
  ASSUME BoltType
  PROVE  NextHops \in SUBSET Faces
<1>1. Matching \subseteq Nat /\ Matching \subseteq 1 .. NameLen
  BY TraceBoltAssumption DEF Matching
<1>2. CASE Matching = {}
  BY <1>2 DEF NextHops
<1>3. CASE Matching # {}
  <2>1. PICK x \in Matching : \A y \in Matching : x <= y
    BY <1>1, <1>3, LeastOf
  <2>2. Min(Matching) \in Matching
    BY <2>1 DEF Min
  <2> QED
    BY <1>1, <1>3, <2>2 DEF NextHops, BoltType
<1> QED
  BY <1>2, <1>3

\* A request whose nonce is not blocked waits for nothing.
LEMMA NotWaiting ==
  ASSUME BoltInv, NEW n \in Nonces, n \notin loop
  PROVE  n \notin fetching /\ \A h \in Hops : pending[n][h] = 0
  BY DEF BoltInv, OneWait

\* The one Interest that an answer can come for.
LEMMA Awaited ==
  ASSUME BoltInv, NEW n \in Nonces, NEW h \in Hops, pending[n][h] > 0
  PROVE  /\ pending[n][h] = 1 /\ \A g \in Hops : g # h => pending[n][g] = 0
         /\ n \in loop /\ n \notin fetching /\ Waits(n) /\ QuestOf(n) = reqs[n]
<1>1. pending[n][h] # 0
  BY DEF BoltInv, BoltType
<1>2. pending[n][h] = 1 /\ n \in loop /\ \A g \in Hops : g # h => pending[n][g] = 0
  BY <1>1 DEF BoltInv, OneWait
<1>3. n \notin fetching
  BY <1>1 DEF BoltInv, OneWait
<1>4. Waits(n)
  BY <1>1 DEF BoltInv, QuestWaits
<1> QED
  BY <1>2, <1>3, <1>4 DEF Waits, QuestOf

\* After the answer, or without one, nobody is asked under the nonce.
LEMMA AnswerTaken ==
  ASSUME BoltInv, NEW n \in Nonces, NEW h \in Hops, pending[n][h] > 0,
         pending' = [pending EXCEPT ![n][h] = @ - 1]
  PROVE  /\ pending' \in [Nonces -> [Hops -> Nat]]
         /\ \A g \in Hops : pending'[n][g] = 0
         /\ \A m \in Nonces : m # n => pending'[m] = pending[m]
<1>1. pending \in [Nonces -> [Hops -> Nat]]
  BY DEF BoltInv, BoltType
<1>2. pending[n][h] = 1 /\ \A g \in Hops : g # h => pending[n][g] = 0
  BY Awaited
<1>3. pending' = [pending EXCEPT ![n] = [pending[n] EXCEPT ![h] = 0]]
  BY <1>1, <1>2
<1> QED
  BY <1>1, <1>2, <1>3

LEMMA OnInterestKeeps ==
  ASSUME BoltInv, NEW n \in Nonces, OnInterest(n)
  PROVE  BoltInv'
<1> DEFINE q == [Empty EXCEPT !.p1 = mode[n]]
<1>1. /\ n \notin loop /\ loop' = loop \cup {n}
      /\ reqs' = [reqs EXCEPT ![n] = q]
      /\ accepted' = [accepted EXCEPT ![n] = @ + 1]
      /\ UNCHANGED <<mode, fib, answered>>
  BY DEF OnInterest, Islooped
<1>2. n \notin fetching /\ \A h \in Hops : pending[n][h] = 0
  BY <1>1, NotWaiting
<1>3. mode[n] \in {"M", "S"} /\ Single \in Hops
  BY DEF BoltInv, BoltType, Hops
<1>4. q \in Quest /\ q # Absent /\ q.p1 = mode[n] /\ q.reply = {}
  BY <1>3 DEF Empty, Quest, Absent
<1> HIDE DEF q
<1>5. \/ mode[n] = "M" /\ fetching' = fetching \cup {n} /\ pending' = pending
      \/ mode[n] = "S" /\ fetching' = fetching /\ pending' = [pending EXCEPT ![n][Single] = @ + 1]
  BY <1>3 DEF OnInterest
<1>6. /\ \A m \in Nonces : m # n => pending'[m] = pending[m]
      /\ pending' \in [Nonces -> [Hops -> Nat]]
      /\ mode[n] = "M" => \A h \in Hops : pending'[n][h] = 0
      /\ mode[n] = "S" => \A h \in Hops : pending'[n][h] = IF h = Single THEN 1 ELSE 0
  <2>1. pending \in [Nonces -> [Hops -> Nat]]
    BY DEF BoltInv, BoltType
  <2>2. CASE mode[n] = "M" /\ pending' = pending
    BY <1>2, <2>1, <2>2
  <2>3. CASE mode[n] = "S" /\ pending' = [pending EXCEPT ![n][Single] = @ + 1]
    <3>1. pending[n][Single] + 1 = 1
      BY <1>2, <1>3
    <3>2. pending' = [pending EXCEPT ![n] = [pending[n] EXCEPT ![Single] = pending[n][Single] + 1]]
      BY <2>3
    <3>3. pending' = [pending EXCEPT ![n] = [pending[n] EXCEPT ![Single] = 1]]
      BY <3>1, <3>2
    <3> QED
      BY <1>2, <1>3, <2>1, <2>3, <3>3
  <2> QED
    BY <1>5, <2>2, <2>3
<1>7. BoltType'
  <2>1. BoltType
    BY DEF BoltInv
  <2>2. reqs' \in [Nonces -> Quest \cup {Absent}] /\ accepted' \in [Nonces -> Nat]
    BY <1>1, <1>4, <2>1 DEF BoltType
  <2>3. loop' \subseteq Nonces /\ fetching' \subseteq Nonces
    BY <1>1, <1>5, <2>1 DEF BoltType
  <2> QED
    BY <1>1, <1>6, <2>1, <2>2, <2>3 DEF BoltType
<1>8. OneWait'
  BY <1>1, <1>2, <1>3, <1>5, <1>6 DEF BoltInv, OneWait
<1>9. QuestWaits'
  <2> SUFFICES ASSUME NEW m \in Nonces, m \in fetching' \/ \E h \in Hops : pending'[m][h] # 0
               PROVE  Waits(m)'
    BY DEF QuestWaits
  <2>1. CASE m = n
    BY <1>1, <1>4, <1>6, <2>1 DEF Waits, BoltInv, BoltType
  <2>2. CASE m # n
    <3>1. m \in fetching \/ \E h \in Hops : pending[m][h] # 0
      BY <1>5, <1>6, <2>2
    <3>2. Waits(m)
      BY <3>1 DEF BoltInv, QuestWaits
    <3> QED
      BY <1>1, <1>6, <2>2, <3>2 DEF Waits, BoltInv, BoltType
  <2> QED
    BY <2>1, <2>2
<1>10. Accounted'
  BY <1>1 DEF BoltInv, BoltType, Accounted
<1> QED
  BY <1>7, <1>8, <1>9, <1>10 DEF BoltInv

LEMMA OnFibKeeps ==
  ASSUME BoltInv, OneFace, NEW n \in Nonces, OnFib(n)
  PROVE  BoltInv'
<1>1. /\ n \in fetching /\ fetching' = fetching \ {n}
      /\ reqs' = [reqs EXCEPT ![n] = [QuestOf(n) EXCEPT !.mhops = NextHops]]
      /\ pending' = [pending EXCEPT ![n] =
                       [h \in Hops |-> IF h \in NextHops THEN @[h] + 1 ELSE @[h]]]
      /\ UNCHANGED <<mode, fib, loop, accepted, answered>>
  BY DEF OnFib
<1>2. n \in loop /\ \A h \in Hops : pending[n][h] = 0
  BY <1>1 DEF BoltInv, OneWait
<1>3. Waits(n) /\ QuestOf(n) = reqs[n] /\ reqs[n] \in Quest
  BY <1>1, QuestFields DEF BoltInv, BoltType, QuestWaits, Waits, QuestOf
<1>4. NextHops \in SUBSET Faces /\ \A f, g \in NextHops : f = g
  BY NextHopsType DEF BoltInv, OneFace
<1> DEFINE q == [QuestOf(n) EXCEPT !.mhops = NextHops]
           p == [h \in Hops |-> IF h \in NextHops THEN 1 ELSE 0]
<1>5. q \in Quest /\ q # Absent /\ q.p1 = mode[n] /\ q.reply = {} /\ q.mhops = NextHops
  BY <1>3, <1>4 DEF Quest, Absent, Waits
<1>6. pending \in [Nonces -> [Hops -> Nat]] /\ reqs \in [Nonces -> Quest \cup {Absent}]
  BY DEF BoltInv, BoltType
<1>7. pending' = [pending EXCEPT ![n] = p]
  <2>1. p = [h \in Hops |-> IF h \in NextHops THEN pending[n][h] + 1 ELSE pending[n][h]]
    BY <1>2
  <2> HIDE DEF p
  <2> QED
    BY <1>1, <2>1
<1>8. p \in [Hops -> Nat]
  OBVIOUS
<1> HIDE DEF q, p
<1>9. /\ pending'[n] = p /\ \A m \in Nonces : m # n => pending'[m] = pending[m]
      /\ reqs'[n] = q /\ \A m \in Nonces : m # n => reqs'[m] = reqs[m]
  BY <1>1, <1>6, <1>7 DEF q
<1>10. \A h \in Hops : p[h] # 0 => p[h] = 1 /\ h \in NextHops
  BY DEF p
<1>11. BoltType'
  BY <1>1, <1>5, <1>7, <1>8 DEF BoltInv, BoltType, q
<1>12. OneWait'
  <2> SUFFICES ASSUME NEW m \in Nonces
               PROVE  /\ m \in fetching' => m \in loop' /\ mode'[m] = "M" /\ \A h \in Hops : pending'[m][h] = 0
                      /\ \A h \in Hops : pending'[m][h] # 0 =>
                           /\ pending'[m][h] = 1 /\ m \in loop'
                           /\ \A g \in Hops : g # h => pending'[m][g] = 0
    BY DEF OneWait
  <2>1. CASE m = n
    BY <1>1, <1>2, <1>4, <1>9, <1>10, <2>1
  <2>2. CASE m # n
    BY <1>1, <1>9, <2>2 DEF BoltInv, OneWait
  <2> QED
    BY <2>1, <2>2
<1>13. QuestWaits'
  <2> SUFFICES ASSUME NEW m \in Nonces, m \in fetching' \/ \E h \in Hops : pending'[m][h] # 0
               PROVE  Waits(m)'
    BY DEF QuestWaits
  <2>1. CASE m = n
    <3>1. \A h \in Hops : p[h] # 0 => NextHops = {h}
      BY <1>4, <1>10
    <3>2. reqs'[n] # Absent /\ reqs'[n].p1 = mode'[n] /\ reqs'[n].reply = {}
      BY <1>1, <1>5, <1>9
    <3>3. \A h \in Hops : pending'[n][h] # 0 => reqs'[n].mhops = {h}
      BY <1>5, <1>9, <3>1
    <3> QED
      BY <2>1, <3>2, <3>3 DEF Waits
  <2>2. CASE m # n
    <3>1. m \in fetching \/ \E h \in Hops : pending[m][h] # 0
      BY <1>1, <1>9, <2>2
    <3>2. Waits(m)
      BY <3>1 DEF BoltInv, QuestWaits
    <3> QED
      BY <1>1, <1>9, <2>2, <3>2 DEF Waits
  <2> QED
    BY <2>1, <2>2
<1>14. Accounted'
  BY <1>1 DEF BoltInv, Accounted
<1> QED
  BY <1>11, <1>12, <1>13, <1>14 DEF BoltInv

LEMMA FibFailedKeeps ==
  ASSUME BoltInv, NEW n \in Nonces, FibFailed(n)
  PROVE  BoltInv'
<1>1. fetching' = fetching \ {n} /\ UNCHANGED <<mode, fib, loop, reqs, pending, accepted, answered>>
  BY DEF FibFailed
<1>2. BoltType' /\ OneWait' /\ Accounted'
  BY <1>1 DEF BoltInv, BoltType, OneWait, Accounted
<1>3. QuestWaits'
  BY <1>1 DEF BoltInv, QuestWaits, Waits
<1> QED
  BY <1>2, <1>3 DEF BoltInv

\* The reply completes the Quest, which has one next hop at most.
LEMMA AnswerKeeps ==
  ASSUME BoltInv, NEW n \in Nonces, NEW h \in Hops, pending[n][h] > 0,
         pending' = [pending EXCEPT ![n][h] = @ - 1], Answer(n, h),
         UNCHANGED <<mode, fib, fetching, accepted>>
  PROVE  BoltInv'
<1>1. n \in loop /\ n \notin fetching /\ Waits(n) /\ QuestOf(n) = reqs[n] /\ pending[n][h] # 0
  BY Awaited
<1>2. /\ pending' \in [Nonces -> [Hops -> Nat]]
      /\ \A g \in Hops : pending'[n][g] = 0
      /\ \A m \in Nonces : m # n => pending'[m] = pending[m]
  BY AnswerTaken
<1>3. reqs' = [reqs EXCEPT ![n] = Absent] /\ loop' = loop \ {n}
  BY DEF Answer, Clean
<1>4. answered' = [answered EXCEPT ![n] = @ + 1]
  <2> DEFINE q == reqs[n]
             r == [q EXCEPT !.reply = @ \cup {h}]
  <2>1. mode[n] \in {"M", "S"} /\ q \in Quest /\ q.p1 = mode[n] /\ q.reply = {}
    BY <1>1, QuestFields DEF BoltInv, BoltType, Waits
  <2>2. mode[n] = "M" => Complete(r)
    <3>1. r.reply = {h} /\ r.mhops = q.mhops
      BY <2>1 DEF Quest
    <3>2. mode[n] = "M" => q.mhops = {h}
      BY <1>1 DEF Waits
    <3> HIDE DEF r
    <3> QED
      BY <3>1, <3>2 DEF Complete
  <2>3. answered' = [answered EXCEPT ![n] =
                       IF (IF q.p1 = "M" THEN Complete(r) ELSE q.p1 = "S") THEN @ + 1 ELSE @]
    BY <1>1 DEF Answer
  <2>4. IF q.p1 = "M" THEN Complete(r) ELSE q.p1 = "S"
    BY <2>1, <2>2
  <2> QED
    BY <2>3, <2>4
<1>5. BoltType'
  BY <1>2, <1>3, <1>4 DEF BoltInv, BoltType
<1>6. OneWait'
  BY <1>1, <1>2, <1>3 DEF BoltInv, OneWait
<1>7. QuestWaits'
  <2> SUFFICES ASSUME NEW m \in Nonces, m \in fetching' \/ \E g \in Hops : pending'[m][g] # 0
               PROVE  Waits(m)'
    BY DEF QuestWaits
  <2>1. m # n
    BY <1>1, <1>2
  <2>2. Waits(m)
    BY <1>2, <2>1 DEF BoltInv, QuestWaits
  <2> QED
    BY <1>2, <1>3, <2>1, <2>2 DEF Waits, BoltInv, BoltType
<1>8. Accounted'
  BY <1>1, <1>3, <1>4 DEF BoltInv, BoltType, Accounted
<1> QED
  BY <1>5, <1>6, <1>7, <1>8 DEF BoltInv

\* Without an answer the Quest and the nonce stay, and nothing is awaited.
LEMMA SilenceKeeps ==
  ASSUME BoltInv, NEW n \in Nonces, NEW h \in Hops, pending[n][h] > 0,
         pending' = [pending EXCEPT ![n][h] = @ - 1],
         UNCHANGED <<mode, fib, loop, reqs, fetching, accepted, answered>>
  PROVE  BoltInv'
<1>1. n \notin fetching
  BY Awaited
<1>2. /\ pending' \in [Nonces -> [Hops -> Nat]]
      /\ \A g \in Hops : pending'[n][g] = 0
      /\ \A m \in Nonces : m # n => pending'[m] = pending[m]
  BY AnswerTaken
<1>3. BoltType' /\ Accounted'
  BY <1>2 DEF BoltInv, BoltType, Accounted
<1>4. OneWait'
  BY <1>1, <1>2 DEF BoltInv, OneWait
<1>5. QuestWaits'
  <2> SUFFICES ASSUME NEW m \in Nonces, m \in fetching' \/ \E g \in Hops : pending'[m][g] # 0
               PROVE  Waits(m)'
    BY DEF QuestWaits
  <2>1. m # n
    BY <1>1, <1>2
  <2>2. Waits(m)
    BY <1>2, <2>1 DEF BoltInv, QuestWaits
  <2> QED
    BY <1>2, <2>1, <2>2 DEF Waits
<1> QED
  BY <1>3, <1>4, <1>5 DEF BoltInv

LEMMA NetworkKeeps ==
  ASSUME BoltInv, NEW n \in Nonces, NEW h \in Hops, Network(n, h)
  PROVE  BoltInv'
<1>1. CASE OnData(n, h)
  BY <1>1, AnswerKeeps DEF OnData
<1>2. CASE OnTimeout(n, h)
  BY <1>2, SilenceKeeps DEF OnTimeout
<1>3. ASSUME NEW r \in Reasons, OnNack(n, h, r)
      PROVE  BoltInv'
  <2>1. CASE IsLocal(r)
    BY <1>3, <2>1, AnswerKeeps DEF OnNack
  <2>2. CASE ~IsLocal(r)
    <3>1. /\ pending[n][h] > 0 /\ pending' = [pending EXCEPT ![n][h] = @ - 1]
          /\ reqs' = [reqs EXCEPT ![n] = QuestOf(n)]
          /\ UNCHANGED <<mode, fib, loop, fetching, accepted, answered>>
      BY <1>3, <2>2 DEF OnNack
    <3>2. reqs' = reqs
      BY <3>1, Awaited DEF BoltInv, BoltType
    <3> QED
      BY <3>1, <3>2, SilenceKeeps
  <2> QED
    BY <2>1, <2>2
<1> QED
  BY <1>1, <1>2, <1>3 DEF Network

LEMMA BoltStep == OneFace => (BoltInv /\ [Next]_vars => BoltInv')
<1> SUFFICES ASSUME OneFace, BoltInv, [Next]_vars
             PROVE  BoltInv'
  OBVIOUS
<1>1. CASE UNCHANGED vars
  <2>1. UNCHANGED <<mode, fib, loop, reqs, fetching, pending, accepted, answered>>
    BY <1>1 DEF vars
  <2> QED
    BY <2>1 DEF BoltInv, BoltType, OneWait, QuestWaits, Waits, Accounted
<1>2. CASE Next
  BY <1>2, OnInterestKeeps, OnFibKeeps, FibFailedKeeps, NetworkKeeps DEF Next, Fib
<1> QED
  BY <1>1, <1>2

\* Where at most one face leads on, an answer always finds the Quest of its own
\* request, so that clean has a nonce and a Quest to erase.
THEOREM QuestIsKept == OneFace => (Spec => []QuestKept)
<1> SUFFICES ASSUME OneFace
             PROVE  Spec => []QuestKept
  OBVIOUS
<1>1. BoltInv => QuestKept
  BY Awaited DEF QuestKept, Waits
<1>2. BoltInv /\ [Next]_vars => BoltInv'
  BY BoltStep
<1> QED
  BY BoltInit, <1>1, <1>2, PTL DEF Spec

\* Then each accepted request is also answered exactly once, or still blocks its nonce.
THEOREM EachAnsweredOnce == OneFace => (Spec => []Accounted)
<1> SUFFICES ASSUME OneFace
             PROVE  Spec => []Accounted
  OBVIOUS
<1>1. BoltInv => Accounted
  BY DEF BoltInv
<1>2. BoltInv /\ [Next]_vars => BoltInv'
  BY BoltStep
<1> QED
  BY BoltInit, <1>1, <1>2, PTL DEF Spec

-----------------------------------------------------------------------------
(* What Served needs besides fairness, for any number of faces: a request that   *)
(* blocks its nonce and lost nothing still has an event to come.  An answer that *)
(* comes for an earlier request of the same nonce does not break this, because   *)
(* it unblocks the nonce.                                                        *)

\* The FIB manager or some face still has to answer.
StillComes(n) == n \in fetching \/ \E h \in Hops : pending[n][h] > 0

Owed ==
  \A n \in Nonces : n \in loop /\ n \notin lost /\ Matching # {} => StillComes(n)

OwedInv ==
  /\ mode \in [Nonces -> {"M", "S"}] /\ fib \in [1 .. NameLen -> SUBSET Faces]
  /\ pending \in [Nonces -> [Hops -> Nat]]
  /\ Owed

\* The query takes the next hops of some prefix that has any.
LEMMA SomeNextHop ==
  ASSUME fib \in [1 .. NameLen -> SUBSET Faces], Matching # {}
  PROVE  \E h \in NextHops : h \in Hops
<1>1. Matching \subseteq Nat /\ Matching \subseteq 1 .. NameLen
  BY TraceBoltAssumption DEF Matching
<1>2. PICK x \in Matching : \A y \in Matching : x <= y
  BY <1>1, LeastOf
<1>3. Min(Matching) \in Matching
  BY <1>2 DEF Min
<1> QED
  BY <1>1, <1>3 DEF NextHops, Matching, Hops

\* A step about n that leaves the other requests alone.
LEMMA OwedByOne ==
  ASSUME OwedInv, NEW n \in Nonces, UNCHANGED <<mode, fib>>,
         pending' \in [Nonces -> [Hops -> Nat]],
         \A m \in Nonces \ {n} : /\ m \in loop' <=> m \in loop
                                 /\ m \in lost' <=> m \in lost
                                 /\ m \in fetching' <=> m \in fetching
                                 /\ pending'[m] = pending[m],
         n \in loop' /\ n \notin lost' /\ Matching # {} => StillComes(n)'
  PROVE  OwedInv'
<1>1. Matching' = Matching
  BY DEF Matching
<1>2. ASSUME NEW m \in Nonces, (m \in loop /\ m \notin lost)', Matching # {}
      PROVE  StillComes(m)'
  <2>1. CASE m = n
    BY <1>2, <2>1
  <2>2. CASE m # n
    <3>1. StillComes(m)
      BY <1>2, <2>2 DEF OwedInv, Owed
    <3> QED
      BY <2>2, <3>1 DEF StillComes
  <2> QED
    BY <2>1, <2>2
<1> QED
  BY <1>1, <1>2 DEF OwedInv, Owed

LEMMA OwedStep == OwedInv /\ [Next]_vars => OwedInv'
<1> SUFFICES ASSUME OwedInv, [Next]_vars
             PROVE  OwedInv'
  OBVIOUS
<1>0. pending \in [Nonces -> [Hops -> Nat]] /\ mode \in [Nonces -> {"M", "S"}]
  BY DEF OwedInv
<1>1. ASSUME NEW n \in Nonces, OnInterest(n) PROVE OwedInv'
  <2>1. Single \in Hops /\ mode[n] \in {"M", "S"}
    BY <1>0 DEF Hops
  <2>2. /\ loop' = loop \cup {n} /\ UNCHANGED <<mode, fib, lost>>
        /\ \/ fetching' = fetching \cup {n} /\ pending' = pending
           \/ fetching' = fetching /\ pending' = [pending EXCEPT ![n][Single] = @ + 1]
    BY <1>1 DEF OnInterest
  <2>3. CASE fetching' = fetching \cup {n} /\ pending' = pending
    BY <1>0, <2>2, <2>3, OwedByOne DEF StillComes
  <2>4. CASE fetching' = fetching /\ pending' = [pending EXCEPT ![n][Single] = @ + 1]
    <3>1. /\ pending' \in [Nonces -> [Hops -> Nat]] /\ pending'[n][Single] > 0
          /\ \A m \in Nonces \ {n} : pending'[m] = pending[m]
      BY <1>0, <2>1, <2>4
    <3>2. StillComes(n)'
      BY <2>1, <3>1 DEF StillComes
    <3> QED
      BY <2>2, <2>4, <3>1, <3>2, OwedByOne
  <2> QED
    BY <2>2, <2>3, <2>4
<1>2. ASSUME NEW n \in Nonces, OnFib(n) PROVE OwedInv'
  <2>1. /\ fetching' = fetching \ {n} /\ UNCHANGED <<mode, fib, loop, lost>>
        /\ pending' = [pending EXCEPT ![n] =
                         [h \in Hops |-> IF h \in NextHops THEN @[h] + 1 ELSE @[h]]]
    BY <1>2 DEF OnFib
  <2>2. /\ pending' \in [Nonces -> [Hops -> Nat]]
        /\ \A m \in Nonces \ {n} : pending'[m] = pending[m]
        /\ \A h \in Hops : h \in NextHops => pending'[n][h] > 0
    BY <1>0, <2>1
  <2>3. Matching # {} => StillComes(n)'
    BY <2>2, SomeNextHop DEF StillComes, OwedInv
  <2> QED
    BY <2>1, <2>2, <2>3, OwedByOne
<1>3. ASSUME NEW n \in Nonces, FibFailed(n) PROVE OwedInv'
  BY <1>0, <1>3, OwedByOne DEF FibFailed
<1>4. ASSUME NEW n \in Nonces, NEW h \in Hops, Network(n, h) PROVE OwedInv'
  <2>1. /\ pending[n][h] > 0 /\ pending' = [pending EXCEPT ![n][h] = @ - 1]
        /\ UNCHANGED <<mode, fib, fetching>>
    BY <1>4 DEF Network, OnData, OnTimeout, OnNack
  <2>2. /\ pending' \in [Nonces -> [Hops -> Nat]]
        /\ \A m \in Nonces \ {n} : pending'[m] = pending[m]
    BY <1>0, <2>1
  <2>3. \/ loop' = loop \ {n} /\ (lost' = lost \/ lost' = lost \cup {n})
        \/ loop' = loop /\ lost' = lost \cup {n}
    BY <1>4 DEF Network, OnData, OnTimeout, OnNack, Answer, Clean, IsLocal, Reasons
  <2>4. n \notin loop' \/ n \in lost'
    BY <2>3
  <2> QED
    BY <2>1, <2>2, <2>3, <2>4, OwedByOne
<1>5. CASE UNCHANGED vars
  BY <1>5 DEF vars, OwedInv, Owed, Matching, StillComes
<1> QED
  BY <1>1, <1>2, <1>3, <1>4, <1>5 DEF Next, Fib

\* TraceBolt never forgets a request: as long as its nonce is blocked and nothing
\* failed (FIB query, answer), the FIB manager or a face still has to answer.
THEOREM NoRequestForgotten == Spec => []Owed
<1>1. Init => OwedInv
  BY DEF Init, OwedInv, Owed
<1>2. OwedInv => Owed
  BY DEF OwedInv
<1> QED
  BY <1>1, <1>2, OwedStep, PTL DEF Spec

-----------------------------------------------------------------------------
LEMMA PathType ==
  ASSUME NEW n \in Nat \ {0}, NEW p \in Paths(n)
  PROVE  /\ p.hops = n
         /\ \A i \in 1 .. n : p.link[i] \in Nat /\ p.before[i] \in Nat /\ p.after[i] \in Nat
<1>1. Times \subseteq Nat
  BY TracePathAssumption
<1>2. /\ p.hops = n /\ p.link \in [1 .. n -> Times]
      /\ p.before \in [1 .. n -> Times] /\ p.after \in [1 .. n -> Times]
  BY DEF Paths
<1> QED
  BY <1>1, <1>2

\* A bolt waits for its link, and for all the next one does.
LEMMA DelayValue ==
  ASSUME NEW n \in Nat \ {0}, NEW p \in Paths(n)
  PROVE  \A i \in 1 .. n :
           /\ Delay(p)[i] \in Int
           /\ i = n => Delay(p)[i] = p.link[i]
           /\ i < n => Delay(p)[i] = p.link[i] + (p.before[i + 1] + Delay(p)[i + 1] + p.after[i + 1])
<1>1. p.hops = n /\ \A i \in 1 .. n : p.link[i] \in Nat /\ p.before[i] \in Nat /\ p.after[i] \in Nat
  BY PathType
<1> DEFINE K == 0 .. n - 1
           F == [j \in Nat |-> [v \in Int |->
                   IF j + 1 \in K
                     THEN p.link[n - (j + 1)] + (p.before[n - (j + 1) + 1] + v + p.after[n - (j + 1) + 1])
                     ELSE 0]]
<1>2. F \in IndexedSteps(Int)
  <2> SUFFICES ASSUME NEW j \in Nat, NEW v \in Int, j + 1 \in K
               PROVE  p.link[n - (j + 1)] + (p.before[n - (j + 1) + 1] + v + p.after[n - (j + 1) + 1]) \in Int
    BY DEF IndexedSteps
  <2>1. n - (j + 1) \in 1 .. n /\ n - (j + 1) + 1 \in 1 .. n
    OBVIOUS
  <2> QED
    BY <1>1, <2>1
<1>3. p.link[n] \in Int
  BY <1>1
<1>4. PICK g \in [Nat -> Int] : g[0] = p.link[n] /\ \A k \in Nat : g[k + 1] = F[k][g[k]]
  <2>1. \E g : Values(g, Int, F, p.link[n])
    <3> HIDE DEF F
    <3> QED
      BY <1>2, <1>3, Recursion
  <2> HIDE DEF F
  <2> QED
    BY <2>1 DEF Values
<1>5. \A k \in K \ {0} : g[k] = p.link[n - k] + (p.before[n - k + 1] + g[k - 1] + p.after[n - k + 1])
  <2> SUFFICES ASSUME NEW k \in K \ {0}
               PROVE  g[k] = p.link[n - k] + (p.before[n - k + 1] + g[k - 1] + p.after[n - k + 1])
    OBVIOUS
  <2>1. k - 1 \in Nat /\ (k - 1) + 1 = k
    OBVIOUS
  <2>2. g[k] = F[k - 1][g[k - 1]] /\ g[k - 1] \in Int
    BY <1>4, <2>1
  <2> QED
    BY <2>1, <2>2
<1> DEFINE Is(d) == d = [k \in 0 .. p.hops - 1 |->
                           LET i == p.hops - k
                           IN  p.link[i] + IF k = 0 THEN 0 ELSE p.before[i + 1] + d[k - 1] + p.after[i + 1]]
           D == CHOOSE d : Is(d)
<1>6. Is([k \in K |-> g[k]])
  <2> DEFINE d == [k \in K |-> g[k]]
  <2>1. ASSUME NEW k \in K
        PROVE  g[k] = p.link[n - k] + IF k = 0 THEN 0 ELSE p.before[n - k + 1] + d[k - 1] + p.after[n - k + 1]
    <3>1. CASE k = 0
      BY <1>1, <1>4, <3>1
    <3>2. CASE k # 0
      <4>1. d[k - 1] = g[k - 1]
        BY <3>2
      <4> QED
        BY <1>5, <3>2, <4>1
    <3> QED
      BY <3>1, <3>2
  <2> QED
    BY <1>1, <2>1
<1>7. Is(D)
  <2> HIDE DEF Is
  <2> QED
    BY <1>6
<1>8. Delay(p) = [i \in 1 .. n |-> D[n - i]]
  BY <1>1 DEF Delay
<1> HIDE DEF D
<1>9. \A k \in K : D[k] = p.link[n - k] + IF k = 0 THEN 0 ELSE p.before[n - k + 1] + D[k - 1] + p.after[n - k + 1]
  BY <1>1, <1>7
<1>10. \A k \in K : D[k] = g[k]
  <2> DEFINE T == {k \in Nat : k \in K => D[k] = g[k]}
  <2>1. 0 \in T
    <3>1. 0 \in K /\ n - 0 = n
      OBVIOUS
    <3>2. D[0] = p.link[n] + 0
      BY <1>9, <3>1
    <3> QED
      BY <1>3, <1>4, <3>2
  <2>2. ASSUME NEW k \in T \cap Nat PROVE k + 1 \in T
    <3>1. ASSUME k + 1 \in K PROVE D[k + 1] = g[k + 1]
      <4>1. k \in K /\ k + 1 # 0 /\ (k + 1) - 1 = k /\ D[k] = g[k]
        BY <3>1
      <4>2. D[k + 1] = p.link[n - (k + 1)] + (p.before[n - (k + 1) + 1] + D[k] + p.after[n - (k + 1) + 1])
        BY <1>9, <3>1, <4>1
      <4>3. g[k + 1] = p.link[n - (k + 1)] + (p.before[n - (k + 1) + 1] + g[k] + p.after[n - (k + 1) + 1])
        BY <1>5, <3>1, <4>1
      <4> QED
        BY <4>1, <4>2, <4>3
    <3> QED
      BY <3>1
  <2>3. Nat \subseteq T
    <3> HIDE DEF T
    <3> QED
      BY <2>1, <2>2, NatSets
  <2> QED
    BY <2>3
<1>11. ASSUME NEW i \in 1 .. n
       PROVE  /\ Delay(p)[i] \in Int
              /\ i = n => Delay(p)[i] = p.link[i]
              /\ i < n => Delay(p)[i] = p.link[i] + (p.before[i + 1] + Delay(p)[i + 1] + p.after[i + 1])
  <2>1. n - i \in K /\ Delay(p)[i] = g[n - i] /\ g[n - i] \in Int
    BY <1>8, <1>10
  <2>2. i = n => Delay(p)[i] = p.link[i]
    BY <1>4, <2>1
  <2>3. ASSUME i < n
        PROVE  Delay(p)[i] = p.link[i] + (p.before[i + 1] + Delay(p)[i + 1] + p.after[i + 1])
    <3>1. i + 1 \in 1 .. n /\ n - (i + 1) \in K /\ Delay(p)[i + 1] = g[n - (i + 1)]
      BY <1>8, <1>10, <2>3
    <3>2. n - i \in K \ {0} /\ n - (n - i) = i /\ (n - i) - 1 = n - (i + 1)
      BY <2>3
    <3> QED
      BY <1>5, <2>1, <3>1, <3>2
  <2> QED
    BY <2>1, <2>2, <2>3
<1> QED
  BY <1>11

\* What is put in front of a sequence is its first element.
LEMMA Prepended ==
  ASSUME NEW k \in Nat, NEW t, t = [j \in 1 .. k |-> t[j]], NEW x
  PROVE  <<x>> \o t = [j \in 1 .. k + 1 |-> IF j = 1 THEN x ELSE t[j - 1]]
<1> DEFINE S == {t[j] : j \in 1 .. k} \cup {x}
<1>1. t \in [1 .. k -> S]
  <2>1. \A j \in 1 .. k : t[j] \in S
    OBVIOUS
  <2> HIDE DEF S
  <2> QED
    BY <2>1
<1>2. x \in S
  OBVIOUS
<1> HIDE DEF S
<1>3. t \in Seq(S) /\ Len(t) = k
  BY <1>1
<1>4. <<x>> \in Seq(S) /\ Len(<<x>>) = 1 /\ <<x>>[1] = x
  BY <1>2
<1>5. PICK u : u = <<x>> \o t
  OBVIOUS
<1>6. u \in Seq(S) /\ Len(u) = k + 1
  BY <1>3, <1>4, <1>5
<1>7. \A j \in 1 .. k + 1 : u[j] = IF j = 1 THEN x ELSE t[j - 1]
  BY <1>3, <1>4, <1>5
<1>8. u = [j \in 1 .. k + 1 |-> u[j]]
  BY <1>6
<1> QED
  BY <1>5, <1>7, <1>8

\* The member of the reply that is of bolt i.
MemberOf(p, i) == Member(i, Delay(p)[i], Mean + p.before[i] + p.after[i])

\* The reply of the first bolt nests the members of all, in the order of the path.
LEMMA ReplyValue ==
  ASSUME NEW n \in Nat \ {0}, NEW p \in Paths(n)
  PROVE  ReplyOf(p) = Object([j \in 1 .. n |-> MemberOf(p, j)])
<1>1. p.hops = n
  BY PathType
<1> DEFINE K == 0 .. n - 1
           From(k) == [j \in 1 .. k + 1 |-> MemberOf(p, n - k + j - 1)]
           delay == Delay(p)
           Step(r, k) == LET i == p.hops - k
                         IN  IF k = 0 /\ p.nacked
                               THEN CreateNack(i, delay[i], Mean + p.before[i], p.after[i])
                               ELSE CreateData(i, delay[i], Mean + p.before[i], p.after[i],
                                               IF k = 0 THEN Text ELSE r[k - 1])
           Is(r) == r = [k \in 0 .. p.hops - 1 |-> Step(r, k)]
           R == CHOOSE r : Is(r)
<1>2. ASSUME NEW k \in K \ {0}, NEW r, r[k - 1] = Object(From(k - 1))
      PROVE  Step(r, k) = Object(From(k))
  <2>1. k - 1 \in Nat /\ (k - 1) + 1 = k /\ n - (k - 1) = n - k + 1 /\ n - k \in Nat
    OBVIOUS
  <2>2. Step(r, k) = Object(<<MemberOf(p, n - k)>> \o From(k - 1))
    <3>1. r[k - 1].kind = "object" /\ r[k - 1].nodes = From(k - 1)
      BY <1>2 DEF Object
    <3>2. Step(r, k) = CreateData(n - k, delay[n - k], Mean + p.before[n - k], p.after[n - k], r[k - 1])
      BY <1>1
    <3> HIDE DEF Step, From
    <3> QED
      BY <3>1, <3>2 DEF CreateData, MemberOf
  <2>3. <<MemberOf(p, n - k)>> \o From(k - 1) = From(k)
    <3>1. From(k - 1) = [j \in 1 .. k |-> MemberOf(p, n - k + 1 + j - 1)]
      BY <2>1
    <3> PICK s : s = From(k - 1)
      OBVIOUS
    <3>2. s = [j \in 1 .. k |-> MemberOf(p, n - k + j)]
      <4>1. \A j \in 1 .. k : n - k + 1 + j - 1 = n - k + j
        OBVIOUS
      <4> QED
        BY <3>1, <4>1
    <3>3. From(k) = [j \in 1 .. k + 1 |-> IF j = 1 THEN MemberOf(p, n - k) ELSE s[j - 1]]
      <4>1. ASSUME NEW j \in 1 .. k + 1
            PROVE  MemberOf(p, n - k + j - 1) = IF j = 1 THEN MemberOf(p, n - k) ELSE s[j - 1]
        <5>1. CASE j = 1
          <6>1. n - k + j - 1 = n - k
            BY <5>1
          <6> QED
            BY <5>1, <6>1
        <5>2. CASE j # 1
          <6>1. j - 1 \in 1 .. k /\ n - k + j - 1 = n - k + (j - 1)
            BY <5>2
          <6> QED
            BY <3>2, <5>2, <6>1
        <5> QED
          BY <5>1, <5>2
      <4> QED
        BY <4>1
    <3>4. \A x : <<x>> \o s = [j \in 1 .. k + 1 |-> IF j = 1 THEN x ELSE s[j - 1]]
      BY <3>2, Prepended
    <3> QED
      BY <3>2, <3>3, <3>4
  <2> QED
    BY <2>2, <2>3
<1>3. \A r : Step(r, 0) = Object(From(0))
  <2> SUFFICES ASSUME NEW r PROVE Step(r, 0) = Object(From(0))
    OBVIOUS
  <2>1. From(0) = <<MemberOf(p, n)>>
    <3>1. From(0) = [j \in 1 .. 1 |-> MemberOf(p, n)]
      <4>1. \A j \in 1 .. 0 + 1 : n - 0 + j - 1 = n
        OBVIOUS
      <4> QED
        BY <4>1
    <3> QED
      BY <3>1
  <2>2. n - 0 = n
    OBVIOUS
  <2>3. Step(r, 0) = Object(<<MemberOf(p, n)>>)
    <3>1. CASE p.nacked
      BY <1>1, <2>2, <3>1 DEF CreateNack, MemberOf
    <3>2. CASE ~p.nacked
      <4>1. Step(r, 0) = CreateData(n, delay[n], Mean + p.before[n], p.after[n], Text)
        BY <1>1, <2>2, <3>2
      <4>2. Text.kind = "text"
        BY DEF Text
      <4>3. Step(r, 0) = Object(<<MemberOf(p, n)>> \o <<>>)
        BY <4>1, <4>2 DEF CreateData, MemberOf
      <4> QED
        BY <4>3
    <3> QED
      BY <3>1, <3>2
  <2> QED
    BY <2>1, <2>3
<1> HIDE DEF Step, From
<1>4. Is([k \in K |-> Object(From(k))])
  <2> DEFINE r == [k \in K |-> Object(From(k))]
  <2>1. ASSUME NEW k \in K PROVE Object(From(k)) = Step(r, k)
    <3>1. CASE k = 0
      BY <1>3, <3>1
    <3>2. CASE k # 0
      <4>1. r[k - 1] = Object(From(k - 1))
        BY <3>2
      <4> HIDE DEF r
      <4> QED
        BY <1>2, <3>2, <4>1
    <3> QED
      BY <3>1, <3>2
  <2> QED
    BY <1>1, <2>1
<1>5. Is(R)
  <2> HIDE DEF Is
  <2> QED
    BY <1>4
<1>6. ReplyOf(p) = R[n - 1]
  BY <1>1 DEF ReplyOf, Step
<1> HIDE DEF R
<1>7. \A k \in K : R[k] = Step(R, k)
  BY <1>1, <1>5
<1>8. \A k \in K : R[k] = Object(From(k))
  <2> DEFINE T == {k \in Nat : k \in K => R[k] = Object(From(k))}
  <2>1. 0 \in T
    BY <1>3, <1>7
  <2>2. ASSUME NEW k \in T \cap Nat PROVE k + 1 \in T
    <3>1. ASSUME k + 1 \in K PROVE R[k + 1] = Object(From(k + 1))
      <4>1. k \in K /\ k + 1 \in K \ {0} /\ (k + 1) - 1 = k /\ R[k] = Object(From(k))
        BY <3>1
      <4>2. R[(k + 1) - 1] = Object(From((k + 1) - 1))
        BY <4>1
      <4> QED
        BY <1>2, <1>7, <4>1, <4>2
    <3> QED
      BY <3>1
  <2>3. Nat \subseteq T
    <3> HIDE DEF T
    <3> QED
      BY <2>1, <2>2, NatSets
  <2> QED
    BY <2>3
<1>9. R[n - 1] = Object(From(n - 1))
  BY <1>8
<1>10. From(n - 1) = [j \in 1 .. n |-> MemberOf(p, j)]
  <2>1. (n - 1) + 1 = n /\ \A j \in 1 .. n : n - (n - 1) + j - 1 = j
    OBVIOUS
  <2> QED
    BY <2>1 DEF From
<1> QED
  BY <1>6, <1>9, <1>10

\* The sum up to x is the one before it and the overhead of one bolt more.
LEMMA SumValue ==
  ASSUME NEW K \in Nat, NEW c, \A i \in 1 .. K : c[i + 1].overhead \in Int
  PROVE  /\ \A x \in 0 .. K : SumOf(x, c) \in Int
         /\ SumOf(0, c) = 0
         /\ \A x \in 1 .. K : SumOf(x, c) = SumOf(x - 1, c) + c[x + 1].overhead
<1> DEFINE F == [j \in Nat |-> [v \in Int |->
                   IF j + 1 \in 1 .. K THEN v + c[(j + 1) + 1].overhead ELSE 0]]
<1>1. F \in IndexedSteps(Int)
  <2> SUFFICES ASSUME NEW j \in Nat, NEW v \in Int, j + 1 \in 1 .. K
               PROVE  v + c[(j + 1) + 1].overhead \in Int
    BY DEF IndexedSteps
  <2> QED
    OBVIOUS
<1>2. PICK g \in [Nat -> Int] : g[0] = 0 /\ \A k \in Nat : g[k + 1] = F[k][g[k]]
  <2>1. \E g : Values(g, Int, F, 0)
    <3> HIDE DEF F
    <3> QED
      BY <1>1, Recursion
  <2> HIDE DEF F
  <2> QED
    BY <2>1 DEF Values
<1>3. \A k \in 1 .. K : g[k] = g[k - 1] + c[k + 1].overhead
  <2> SUFFICES ASSUME NEW k \in 1 .. K PROVE g[k] = g[k - 1] + c[k + 1].overhead
    OBVIOUS
  <2>1. k - 1 \in Nat /\ (k - 1) + 1 = k
    OBVIOUS
  <2>2. g[k] = F[k - 1][g[k - 1]] /\ g[k - 1] \in Int
    BY <1>2, <2>1
  <2> QED
    BY <2>1, <2>2
<1>4. ASSUME NEW x \in 0 .. K PROVE SumOf(x, c) = g[x]
  <2> DEFINE Is(d) == d = [i \in 0 .. x |-> IF i = 0 THEN 0 ELSE d[i - 1] + c[i + 1].overhead]
             D == CHOOSE d : Is(d)
  <2>1. Is([i \in 0 .. x |-> g[i]])
    <3> DEFINE d == [i \in 0 .. x |-> g[i]]
    <3>1. ASSUME NEW i \in 0 .. x
          PROVE  g[i] = IF i = 0 THEN 0 ELSE d[i - 1] + c[i + 1].overhead
      <4>1. CASE i = 0
        BY <1>2, <4>1
      <4>2. CASE i # 0
        <5>1. d[i - 1] = g[i - 1] /\ i \in 1 .. K
          BY <4>2
        <5> QED
          BY <1>3, <4>2, <5>1
      <4> QED
        BY <4>1, <4>2
    <3> QED
      BY <3>1
  <2>2. Is(D)
    <3> HIDE DEF Is
    <3> QED
      BY <2>1
  <2>3. SumOf(x, c) = D[x]
    BY DEF SumOf
  <2> HIDE DEF D
  <2>4. \A i \in 0 .. x : D[i] = IF i = 0 THEN 0 ELSE D[i - 1] + c[i + 1].overhead
    BY <2>2
  <2> DEFINE T == {i \in Nat : i \in 0 .. x => D[i] = g[i]}
  <2>5. 0 \in T
    BY <1>2, <2>4
  <2>6. ASSUME NEW i \in T \cap Nat PROVE i + 1 \in T
    <3>1. ASSUME i + 1 \in 0 .. x PROVE D[i + 1] = g[i + 1]
      <4>1. i \in 0 .. x /\ i + 1 \in 1 .. K /\ i + 1 # 0 /\ (i + 1) - 1 = i /\ D[i] = g[i]
        BY <3>1
      <4>2. D[i + 1] = D[i] + c[(i + 1) + 1].overhead
        BY <2>4, <3>1, <4>1
      <4>3. g[i + 1] = g[i] + c[(i + 1) + 1].overhead
        BY <1>3, <4>1
      <4> QED
        BY <4>1, <4>2, <4>3
    <3> QED
      BY <3>1
  <2>7. Nat \subseteq T
    <3> HIDE DEF T
    <3> QED
      BY <2>5, <2>6, NatSets
  <2>8. D[x] = g[x]
    BY <2>7
  <2> QED
    BY <2>3, <2>8
<1>5. \A x \in 1 .. K : x - 1 \in 0 .. K /\ x \in 0 .. K
  OBVIOUS
<1> QED
  BY <1>2, <1>3, <1>4, <1>5

\* However long the path and the times: what is printed is the time of the links.
LEMMA LinksArePrinted == LinksPrinted
<1> SUFFICES ASSUME NEW n \in 1 .. MaxHops, NEW p \in Paths(n)
             PROVE  LET printed == GetPathDetails(ReplyOf(p))
                    IN  /\ DOMAIN printed = 1 .. n - 1
                        /\ \A k \in 1 .. n - 1 :
                             printed[k] = p.link[k] + IF k = 1 THEN 0 ELSE printed[k - 1]
  BY DEF LinksPrinted
<1>1. n \in Nat \ {0}
  BY TracePathAssumption
<1>2. \A i \in 1 .. n : p.link[i] \in Nat /\ p.before[i] \in Nat /\ p.after[i] \in Nat
  BY <1>1, PathType
<1>3. \A i \in 1 .. n :
        /\ Delay(p)[i] \in Int
        /\ i < n => Delay(p)[i] = p.link[i] + (p.before[i + 1] + Delay(p)[i + 1] + p.after[i + 1])
  BY <1>1, DelayValue
<1> DEFINE c == [j \in 1 .. n |-> MemberOf(p, j)]
           d == Delay(p)
           printed == GetPathDetails(ReplyOf(p))
<1>4. ReplyOf(p) = Object(c)
  BY <1>1, ReplyValue
<1>5. \A j \in 1 .. n : c[j].delay = d[j] /\ c[j].overhead = p.before[j] + p.after[j]
  BY <1>2 DEF MemberOf, Member, Mean
<1>6. Len(c) = n
  <2>1. c \in Seq({MemberOf(p, j) : j \in 1 .. n})
    BY <1>1
  <2> QED
    BY <1>1, <2>1
<1> HIDE DEF c, d
<1>7. printed = [k \in 1 .. n - 1 |-> c[1].delay - c[k + 1].delay - SumOf(k, c)]
  BY <1>4, <1>6 DEF GetPathDetails, Object
<1>8. /\ \A x \in 0 .. n - 1 : SumOf(x, c) \in Int
      /\ SumOf(0, c) = 0
      /\ \A x \in 1 .. n - 1 : SumOf(x, c) = SumOf(x - 1, c) + c[x + 1].overhead
  <2>1. n - 1 \in Nat /\ \A i \in 1 .. n - 1 : c[i + 1].overhead \in Int
    BY <1>1, <1>2, <1>5
  <2> QED
    BY <2>1, SumValue
<1> HIDE DEF printed
<1>9. ASSUME NEW k \in 1 .. n - 1
      PROVE  printed[k] = p.link[k] + IF k = 1 THEN 0 ELSE printed[k - 1]
  <2>1. k \in 1 .. n /\ k + 1 \in 1 .. n /\ 1 \in 1 .. n /\ k - 1 \in 0 .. n - 1 /\ k < n
    BY <1>1
  <2>2. /\ c[1].delay = d[1] /\ c[k].delay = d[k] /\ c[k + 1].delay = d[k + 1]
        /\ c[k + 1].overhead = p.before[k + 1] + p.after[k + 1]
        /\ d[1] \in Int /\ d[k] \in Int /\ d[k + 1] \in Int
        /\ d[k] = p.link[k] + (p.before[k + 1] + d[k + 1] + p.after[k + 1])
    BY <1>3, <1>5, <2>1 DEF d
  <2>3. /\ p.link[k] \in Nat /\ p.before[k + 1] \in Nat /\ p.after[k + 1] \in Nat
        /\ SumOf(k - 1, c) \in Int
        /\ SumOf(k, c) = SumOf(k - 1, c) + c[k + 1].overhead
    BY <1>2, <1>8, <2>1
  <2>4. printed[k] = d[1] - d[k + 1] - SumOf(k, c)
    BY <1>7, <2>2
  <2>5. CASE k = 1
    <3>1. SumOf(k - 1, c) = 0 /\ d[1] = d[k]
      BY <1>8, <2>5
    <3> QED
      BY <2>2, <2>3, <2>4, <2>5, <3>1
  <2>6. CASE k # 1
    <3>1. k - 1 \in 1 .. n - 1 /\ (k - 1) + 1 = k
      BY <2>6
    <3>2. printed[k - 1] = d[1] - d[k] - SumOf(k - 1, c)
      BY <1>7, <2>2, <3>1
    <3> QED
      BY <2>2, <2>3, <2>4, <2>6, <3>2
  <2> QED
    BY <2>5, <2>6
<1> QED
  BY <1>7, <1>9 DEF printed

\* Whatever a path's length, its times and how it ends: of an answered request in mode S
\* the consumer prints the times of the links alone, for what each bolt adds to its
\* delay is what the bolts before it take off.
THEOREM TracesAreExact == Spec => []PathTraced
<1>1. PathTraced
  BY LinksArePrinted DEF PathTraced
<1> QED
  BY <1>1, PTL
=============================================================================
