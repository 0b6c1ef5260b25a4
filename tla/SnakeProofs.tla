---------------------------- MODULE SnakeProofs ----------------------------
(***************************************************************************)
(* Proofs about Snake, for every number of bolts and requests.  Whatever   *)
(* the network loses or duplicates, the bolt's clean() is always given     *)
(* entries that exist, and a bolt expresses a request once at a time.  As  *)
(* long as it does neither, the function is executed on the cheapest bolt, *)
(* the producer forgets every request, and each delivery brings a request  *)
(* nearer to its answer.                                                   *)
(*                                                                         *)
(* CleanDefined is not inductive by itself.  A duplicate Interest would    *)
(* make it fail if loop and Reqs held different nonces (the check is on    *)
(* loop, clean erases from both), and an answer if the same nonce were     *)
(* pending twice (the first answer cleans).  BoltInv is the conjunction of *)
(* the three properties, which is inductive given the types.               *)
(***************************************************************************)
EXTENDS Snake, TLAPS

BoltInv == CleanDefined /\ LoopMatchesReqs /\ ExpressedOnce

-----------------------------------------------------------------------------
(* Types. *)

LEMMA InitType == Init => TypeOK
  <1> SUFFICES ASSUME Init PROVE TypeOK
    OBVIOUS
  <1>1. /\ waiting \subseteq Seqs /\ answer \in [Seqs -> {NoAnswer} \cup 0 .. N]
        /\ nonces \in 0 .. MaxNonce
        /\ loop \in [Bolts -> SUBSET Nonces] /\ reqs \in [Bolts -> SUBSET Nonces]
        /\ seen \in [Seqs -> SUBSET Bolts]
    BY SnakeAssumption DEF Init, NoAnswer
  <1>2. pending \in [Bolts -> [Nonces -> Nat]]
    BY DEF Init
  <1>3. retx \in 0 .. MaxRetx /\ dups \in 0 .. MaxDups /\ losses \in 0 .. MaxLoss
    BY SnakeAssumption DEF Init
  <1> QED
    BY <1>1, <1>2, <1>3 DEF Init, TypeOK

\* What a bolt makes of Data is Data.
LEMMA ProcessType ==
  ASSUME TypeOK, NEW i \in Bolts, NEW d \in Data
  PROVE  Process(i, d) \in Data
  <1>1. cost[i] \in Costs /\ i \in 0 .. N
    BY SnakeAssumption DEF TypeOK, Bolts
  <1>2. MarkMinCost(i, d) \in Data
    BY <1>1 DEF MarkMinCost, Data
  <1>3. \A e \in Data : MarkMaxCost(i, e) \in Data
    BY <1>1 DEF MarkMaxCost, MaxCostAt, Data
  <1>4. Execute(i, d) \in Data
    BY <1>1 DEF Execute, Data
  <1> QED
    BY <1>2, <1>3, <1>4 DEF Process

\* Express keeps the types of the consumer's nonces and of the network.
LEMMA ExpressType ==
  ASSUME TypeOK, NEW s \in Seqs, NEW marker \in 0 .. N, Express(s, marker, interests)
  PROVE  nonces' \in 0 .. MaxNonce /\ interests' \subseteq Interest
  <1>1. nonces + 1 \in 0 .. MaxNonce /\ nonces + 1 \in Nonces
    BY SnakeAssumption DEF TypeOK, Express, Nonces
  <1>2. 1 \in 1 .. Producer
    BY SnakeAssumption DEF Producer
  <1>3. [to |-> 1, nonce |-> nonces + 1, seq |-> s, marker |-> marker] \in Interest
    BY <1>1, <1>2 DEF Interest
  <1> QED
    BY <1>1, <1>3 DEF Express, TypeOK

LEMMA CleanType ==
  ASSUME TypeOK, NEW i \in Bolts, NEW n \in Nonces, Clean(i, n)
  PROVE  loop' \in [Bolts -> SUBSET Nonces] /\ reqs' \in [Bolts -> SUBSET Nonces]
  BY DEF TypeOK, Clean

LEMMA ConsumerType ==
  ASSUME TypeOK,
         \/ \E s \in Seqs : SendPacket(s) \/ Retransmit(s)
         \/ \E d \in datas : OnMetadata(d) \/ OnResult(d)
  PROVE  TypeOK'
  <1>1. ASSUME NEW s \in Seqs, SendPacket(s) PROVE TypeOK'
    <2>1. nonces' \in 0 .. MaxNonce /\ interests' \subseteq Interest
      BY <1>1, ExpressType, SnakeAssumption DEF SendPacket, NoMarker
    <2> QED
      BY <1>1, <2>1 DEF SendPacket, TypeOK, costVars, boltVars, bounds
  <1>2. ASSUME NEW s \in Seqs, Retransmit(s) PROVE TypeOK'
    <2>1. nonces' \in 0 .. MaxNonce /\ interests' \subseteq Interest
      BY <1>2, ExpressType, SnakeAssumption DEF Retransmit, NoMarker
    <2>2. retx' \in 0 .. MaxRetx
      BY <1>2, SnakeAssumption DEF Retransmit, TimedOut, TypeOK
    <2> QED
      BY <1>2, <2>1, <2>2 DEF Retransmit, TypeOK, costVars, boltVars
  <1>3. ASSUME NEW d \in datas, OnMetadata(d) PROVE TypeOK'
    <2>1. d.seq \in Seqs /\ d.marker \in 0 .. N
      BY DEF TypeOK, Data
    <2>2. nonces' \in 0 .. MaxNonce /\ interests' \subseteq Interest
      BY <1>3, <2>1, ExpressType DEF OnMetadata
    <2> QED
      BY <1>3, <2>2 DEF OnMetadata, TypeOK, costVars, boltVars, bounds
  <1>4. ASSUME NEW d \in datas, OnResult(d) PROVE TypeOK'
    <2>1. d.executed \in 0 .. N
      BY DEF TypeOK, Data
    <2>2. answer' \in [Seqs -> {NoAnswer} \cup 0 .. N]
      BY <1>4, <2>1 DEF OnResult, TypeOK
    <2> QED
      BY <1>4, <2>2 DEF OnResult, TypeOK, costVars, boltVars, bounds
  <1> QED
    BY <1>1, <1>2, <1>3, <1>4

LEMMA BoltType ==
  ASSUME TypeOK,
         \/ \E m \in interests, i \in Bolts : BoltOnInterest(i, m)
         \/ \E d \in datas, i \in Bolts : BoltForwardData(i, d) \/ BoltTurnBack(i, d)
  PROVE  TypeOK'
  <1> USE SnakeAssumption
  <1>1. ASSUME NEW m \in interests, NEW i \in Bolts, BoltOnInterest(i, m) PROVE TypeOK'
    <2>1. m.nonce \in Nonces /\ m \in Interest
      BY DEF TypeOK, Interest
    <2>2. i + 1 \in 1 .. Producer
      BY DEF Bolts, Producer
    <2>3. [ProcessingInterest(i, m) EXCEPT !.to = i + 1] \in Interest
      <3>1. [m EXCEPT !.marker = i] \in Interest
        BY <2>1 DEF Interest, Bolts
      <3>2. ProcessingInterest(i, m) \in Interest
        BY <2>1, <3>1 DEF ProcessingInterest
      <3> QED
        BY <2>2, <3>2 DEF Interest
    <2>4. CASE Islooped(i, m.nonce)
      BY <1>1, <2>4
      DEF BoltOnInterest, TypeOK, boltVars, costVars, consumerVars, bounds
    <2>5. CASE ~Islooped(i, m.nonce)
      <3>1. interests' \subseteq Interest
        <4>1. PICK e : e = [ProcessingInterest(i, m) EXCEPT !.to = i + 1]
          OBVIOUS
        <4>2. interests' = (interests \ {m}) \cup {e}
          BY <1>1, <2>5, <4>1 DEF BoltOnInterest
        <4>3. interests \subseteq Interest
          BY DEF TypeOK
        <4> QED
          BY <2>3, <4>1, <4>2, <4>3
      <3>2. pending' \in [Bolts -> [Nonces -> Nat]]
        <4>1. pending' = [pending EXCEPT ![i][m.nonce] = @ + 1]
          BY <1>1, <2>5 DEF BoltOnInterest
        <4> QED
          BY <2>1, <4>1 DEF TypeOK
      <3>3. loop' \in [Bolts -> SUBSET Nonces] /\ reqs' \in [Bolts -> SUBSET Nonces]
        <4>1. /\ loop' = [loop EXCEPT ![i] = @ \cup {m.nonce}]
              /\ reqs' = [reqs EXCEPT ![i] = @ \cup {m.nonce}]
          BY <1>1, <2>5 DEF BoltOnInterest
        <4> QED
          BY <2>1, <4>1 DEF TypeOK
      <3> QED
        BY <1>1, <3>1, <3>2, <3>3
        DEF BoltOnInterest, TypeOK, costVars, consumerVars, bounds
    <2> QED
      BY <2>4, <2>5
  <1>2. ASSUME NEW d \in datas, NEW i \in Bolts, BoltForwardData(i, d) PROVE TypeOK'
    <2>1. d \in Data /\ d.nonce \in Nonces /\ d.seq \in Seqs
      BY DEF TypeOK, Data
    <2>2. Process(i, d) \in Data /\ i - 1 \in 0 .. N
      BY <2>1, ProcessType DEF Bolts
    <2>3. [Process(i, d) EXCEPT !.to = i - 1] \in Data
      BY <2>2 DEF Data
    <2>4. datas' \subseteq Data
      BY <1>2, <2>3 DEF BoltForwardData, TypeOK
    <2>5. pending' \in [Bolts -> [Nonces -> Nat]]
      BY <1>2, <2>1 DEF BoltForwardData, TypeOK
    <2>6. loop' \in [Bolts -> SUBSET Nonces] /\ reqs' \in [Bolts -> SUBSET Nonces]
      BY <1>2, <2>1, CleanType DEF BoltForwardData
    <2>7. seen' \in [Seqs -> SUBSET Bolts]
      BY <1>2, <2>1 DEF BoltForwardData, TypeOK
    <2> QED
      BY <1>2, <2>4, <2>5, <2>6, <2>7
      DEF BoltForwardData, TypeOK, costVars, consumerVars, bounds
  <1>3. ASSUME NEW d \in datas, NEW i \in Bolts, BoltTurnBack(i, d) PROVE TypeOK'
    <2>1. d \in Data /\ d.nonce \in Nonces /\ d.seq \in Seqs
      BY DEF TypeOK, Data
    <2>2. MarkMinCost(i, d).marker \in 0 .. N
      BY <2>1 DEF MarkMinCost, Data, Bolts
    <2>3. i + 1 \in 1 .. Producer
      BY DEF Bolts, Producer
    <2>4. [to |-> i + 1, nonce |-> d.nonce, seq |-> d.seq,
           marker |-> MarkMinCost(i, d).marker] \in Interest
      BY <2>1, <2>2, <2>3 DEF Interest
    <2>5. interests' \subseteq Interest
      BY <1>3, <2>4 DEF BoltTurnBack, TypeOK
    <2>6. loop' \in [Bolts -> SUBSET Nonces] /\ reqs' \in [Bolts -> SUBSET Nonces]
      BY <1>3, <2>1 DEF BoltTurnBack, TurnBackKeeping, TypeOK
    <2>7. seen' \in [Seqs -> SUBSET Bolts]
      BY <1>3, <2>1 DEF BoltTurnBack, TypeOK
    <2> QED
      BY <1>3, <2>5, <2>6, <2>7 DEF BoltTurnBack, TypeOK, costVars, consumerVars, bounds
  <1> QED
    BY <1>1, <1>2, <1>3

LEMMA BoltFailureType ==
  ASSUME TypeOK,
         \/ \E i \in Bolts, n \in Nonces : BoltOnTimeout(i, n)
         \/ \E m \in interests, i \in Bolts, b \in BOOLEAN : BoltOnNack(i, m, b)
  PROVE  TypeOK'
  <1> USE SnakeAssumption
  <1>1. ASSUME NEW i \in Bolts, NEW n \in Nonces, BoltOnTimeout(i, n) PROVE TypeOK'
    <2>1. pending' \in [Bolts -> [Nonces -> Nat]] /\ losses' \in 0 .. MaxLoss
      BY <1>1 DEF BoltOnTimeout, TypeOK
    <2> QED
      BY <1>1, <2>1 DEF BoltOnTimeout, TypeOK, costVars, consumerVars
  <1>2. ASSUME NEW m \in interests, NEW i \in Bolts, NEW b \in BOOLEAN, BoltOnNack(i, m, b)
        PROVE  TypeOK'
    <2>1. m.nonce \in Nonces /\ m.seq \in Seqs
      BY DEF TypeOK, Interest
    <2>2. pending' \in [Bolts -> [Nonces -> Nat]] /\ losses' \in 0 .. MaxLoss
      BY <1>2, <2>1 DEF BoltOnNack, TypeOK
    <2>3. loop' \in [Bolts -> SUBSET Nonces] /\ reqs' \in [Bolts -> SUBSET Nonces]
      <3>1. CASE b
        BY <1>2, <2>1, <3>1, CleanType DEF BoltOnNack
      <3>2. CASE ~b
        BY <1>2, <3>2 DEF BoltOnNack, TypeOK
      <3> QED
        BY <3>1, <3>2
    <2>4. datas' \subseteq Data
      <3>1. CASE b
        <4>1. i - 1 \in 0 .. N /\ 0 \in 0 .. N
          BY DEF Bolts
        <4> DEFINE own == [to |-> i - 1, nonce |-> m.nonce, seq |-> m.seq, meta |-> FALSE,
                           marker |-> NoMarker, minCost |-> NoCost, maxCost |-> NoCost,
                           executed |-> Unexecuted]
        <4>2. own \in Data
          BY <2>1, <4>1 DEF Data, NoMarker, Unexecuted
        <4>3. datas' = datas \cup {own}
          BY <1>2, <3>1 DEF BoltOnNack
        <4> QED
          BY <4>2, <4>3 DEF TypeOK
      <3>2. CASE ~b
        BY <1>2, <3>2 DEF BoltOnNack, TypeOK
      <3> QED
        BY <3>1, <3>2
    <2> QED
      BY <1>2, <2>2, <2>3, <2>4 DEF BoltOnNack, TypeOK, costVars, consumerVars
  <1> QED
    BY <1>1, <1>2

LEMMA NetworkType ==
  ASSUME TypeOK,
         \/ \E m \in interests : \/ ProducerOnInterest(m) \/ LoseInterest(m)
                                \/ \E i \in Bolts : Duplicate(i, m)
         \/ \E d \in datas : LoseData(d)
  PROVE  TypeOK'
  <1> USE SnakeAssumption
  <1>1. ASSUME NEW m \in interests, ProducerOnInterest(m) PROVE TypeOK'
    <2>1. m.nonce \in Nonces /\ m.seq \in Seqs /\ m.marker \in 0 .. N
      BY DEF TypeOK, Interest
    <2> DEFINE asked == IsRequestForMetadata(m)
    <2>2. asked \in BOOLEAN
      BY DEF IsRequestForMetadata
    <2>3. [to |-> N, nonce |-> m.nonce, seq |-> m.seq, meta |-> asked,
           marker |-> m.marker, minCost |-> NoCost, maxCost |-> NoCost,
           executed |-> Unexecuted] \in Data
      BY <2>1, <2>2 DEF Data, Unexecuted
    <2>4. datas' \subseteq Data
      BY <1>1, <2>3 DEF ProducerOnInterest, TypeOK
    <2>5. replied' \subseteq Seqs
      BY <1>1, <2>1 DEF ProducerOnInterest, Remember, TypeOK
    <2> QED
      BY <1>1, <2>4, <2>5
      DEF ProducerOnInterest, TypeOK, costVars, consumerVars, boltVars, bounds
  <1>2. ASSUME NEW m \in interests, LoseInterest(m) PROVE TypeOK'
    BY <1>2 DEF LoseInterest, TypeOK, costVars, consumerVars, boltVars
  <1>3. ASSUME NEW m \in interests, NEW i \in Bolts, Duplicate(i, m) PROVE TypeOK'
    <2>1. i \in 1 .. Producer
      BY DEF Bolts, Producer
    <2>2. [m EXCEPT !.to = i] \in Interest
      BY <2>1 DEF TypeOK, Interest
    <2>3. dups' \in 0 .. MaxDups
      BY <1>3 DEF Duplicate, TypeOK
    <2> QED
      BY <1>3, <2>2, <2>3 DEF Duplicate, TypeOK, costVars, consumerVars, boltVars
  <1>4. ASSUME NEW d \in datas, LoseData(d) PROVE TypeOK'
    <2>1. losses' \in 0 .. MaxLoss
      BY <1>4 DEF LoseData, TypeOK
    <2> QED
      BY <1>4, <2>1 DEF LoseData, TypeOK, costVars, consumerVars, boltVars
  <1> QED
    BY <1>1, <1>2, <1>3, <1>4
LEMMA StepType == TypeOK /\ [Next]_vars => TypeOK'
  <1> SUFFICES ASSUME TypeOK, [Next]_vars PROVE TypeOK'
    OBVIOUS
  <1>1. CASE \E s \in Seqs : SendPacket(s)
    BY <1>1, ConsumerType
  <1>2. CASE Deliver
    BY <1>2, ConsumerType, BoltType, NetworkType DEF Deliver, BoltOnData
  <1>3. CASE Disturb
    BY <1>3, ConsumerType, BoltFailureType, NetworkType DEF Disturb
  <1>4. CASE UNCHANGED vars
    BY <1>4 DEF TypeOK, vars, costVars, consumerVars, boltVars, bounds
  <1> QED
    BY <1>1, <1>2, <1>3, <1>4 DEF Next

(* Every variable keeps its type: no bolt adds a nonce, a cost or a marker that *)
(* is not one, and no count of expressed Interests goes below zero.             *)
THEOREM TypeCorrect == Spec => []TypeOK
  <1>1. Init => TypeOK
    BY InitType
  <1> QED
    BY <1>1, StepType, PTL DEF Spec

-----------------------------------------------------------------------------
(* The three invariants of a bolt are inductive only together: an Interest is   *)
(* expressed when its nonce is not in loop, which CleanDefined turns into       *)
(* pending = 0, and Clean may take the nonce away because ExpressedOnce left no *)
(* other Interest waiting for it.                                               *)

LEMMA OneBolt ==
  ASSUME TypeOK, BoltInv, NEW i \in Bolts, NEW n \in Nonces, NEW k \in {0, 1}, NEW S,
         loop' = [loop EXCEPT ![i] = S], reqs' = [reqs EXCEPT ![i] = S],
         pending' = [pending EXCEPT ![i][n] = k],
         S \ {n} = loop[i] \ {n}, k > 0 => n \in S
  PROVE  BoltInv'
  <1>1. LoopMatchesReqs'
    BY DEF TypeOK, BoltInv, LoopMatchesReqs
  <1>2. ExpressedOnce'
    BY DEF TypeOK, BoltInv, ExpressedOnce
  <1>3. CleanDefined'
    BY DEF TypeOK, BoltInv, CleanDefined, LoopMatchesReqs
  <1> QED
    BY <1>1, <1>2, <1>3 DEF BoltInv

LEMMA BoltStep ==
  ASSUME TypeOK, BoltInv,
         \/ \E m \in interests, i \in Bolts : BoltOnInterest(i, m)
         \/ \E d \in datas, i \in Bolts : BoltForwardData(i, d) \/ BoltTurnBack(i, d)
  PROVE  BoltInv'
  <1>1. ASSUME NEW m \in interests, NEW i \in Bolts, BoltOnInterest(i, m) PROVE BoltInv'
    <2>1. m.nonce \in Nonces
      BY DEF TypeOK, Interest
    <2>2. CASE Islooped(i, m.nonce)
      BY <1>1, <2>2
      DEF BoltOnInterest, BoltInv, boltVars, CleanDefined, LoopMatchesReqs, ExpressedOnce
    <2>3. CASE ~Islooped(i, m.nonce)
      <3>1. pending[i][m.nonce] = 0
        BY <2>1, <2>3 DEF TypeOK, BoltInv, CleanDefined, Islooped
      <3>2. pending' = [pending EXCEPT ![i][m.nonce] = 1]
        BY <1>1, <2>3, <3>1 DEF BoltOnInterest
      <3>3. /\ loop' = [loop EXCEPT ![i] = loop[i] \cup {m.nonce}]
            /\ reqs' = [reqs EXCEPT ![i] = loop[i] \cup {m.nonce}]
        BY <1>1, <2>3 DEF BoltOnInterest, BoltInv, LoopMatchesReqs
      <3> DEFINE S == loop[i] \cup {m.nonce}
      <3>4. S \ {m.nonce} = loop[i] \ {m.nonce} /\ (1 > 0 => m.nonce \in S)
        OBVIOUS
      <3>5. loop' = [loop EXCEPT ![i] = S] /\ reqs' = [reqs EXCEPT ![i] = S]
        BY <3>3
      <3> HIDE DEF S
      <3> QED
        BY <2>1, <3>2, <3>4, <3>5, OneBolt
    <2> QED
      BY <2>2, <2>3
  <1>2. ASSUME NEW d \in datas, NEW i \in Bolts, BoltForwardData(i, d) PROVE BoltInv'
    <2>1. d.nonce \in Nonces
      BY DEF TypeOK, Data
    <2>2. pending[i][d.nonce] = 1
      BY <1>2, <2>1 DEF BoltForwardData, TypeOK, BoltInv, ExpressedOnce
    <2>3. pending' = [pending EXCEPT ![i][d.nonce] = 0]
      BY <1>2, <2>2 DEF BoltForwardData
    <2>4. /\ loop' = [loop EXCEPT ![i] = loop[i] \ {d.nonce}]
          /\ reqs' = [reqs EXCEPT ![i] = loop[i] \ {d.nonce}]
      BY <1>2 DEF BoltForwardData, Clean, BoltInv, LoopMatchesReqs
    <2> DEFINE S == loop[i] \ {d.nonce}
    <2>5. S \ {d.nonce} = loop[i] \ {d.nonce} /\ ~(0 > 0)
      OBVIOUS
    <2>6. loop' = [loop EXCEPT ![i] = S] /\ reqs' = [reqs EXCEPT ![i] = S]
      BY <2>4
    <2> HIDE DEF S
    <2> QED
      BY <2>1, <2>3, <2>5, <2>6, OneBolt
  <1>3. ASSUME NEW d \in datas, NEW i \in Bolts, BoltTurnBack(i, d) PROVE BoltInv'
    <2>1. d.nonce \in Nonces
      BY DEF TypeOK, Data
    <2>2. d.nonce \in reqs[i]
      BY <1>3, <2>1 DEF BoltTurnBack, BoltInv, CleanDefined
    <2>3. reqs' = reqs
      BY <1>3, <2>2 DEF BoltTurnBack, TurnBackKeeping, TypeOK
    <2> QED
      BY <1>3, <2>3
      DEF BoltTurnBack, TurnBackKeeping, BoltInv, CleanDefined, LoopMatchesReqs, ExpressedOnce
  <1> QED
    BY <1>1, <1>2, <1>3

LEMMA BoltFailureStep ==
  ASSUME TypeOK, BoltInv,
         \/ \E i \in Bolts, n \in Nonces : BoltOnTimeout(i, n)
         \/ \E m \in interests, i \in Bolts, b \in BOOLEAN : BoltOnNack(i, m, b)
  PROVE  BoltInv'
  <1>1. ASSUME NEW i \in Bolts, NEW n \in Nonces, pending[i][n] > 0,
               pending' = [pending EXCEPT ![i][n] = @ - 1]
        PROVE  pending' = [pending EXCEPT ![i][n] = 0]
    <2>1. pending[i][n] = 1
      BY <1>1 DEF TypeOK, BoltInv, ExpressedOnce
    <2> QED
      BY <1>1, <2>1
  <1>2. ASSUME NEW i \in Bolts, NEW n \in Nonces, BoltOnTimeout(i, n) PROVE BoltInv'
    <2>1. pending' = [pending EXCEPT ![i][n] = 0]
      BY <1>1, <1>2 DEF BoltOnTimeout
    <2>2. /\ loop' = [loop EXCEPT ![i] = loop[i]]
          /\ reqs' = [reqs EXCEPT ![i] = loop[i]]
      BY <1>2 DEF BoltOnTimeout, TypeOK, BoltInv, LoopMatchesReqs
    <2> DEFINE S == loop[i]
    <2>3. S \ {n} = loop[i] \ {n} /\ ~(0 > 0)
      OBVIOUS
    <2>4. loop' = [loop EXCEPT ![i] = S] /\ reqs' = [reqs EXCEPT ![i] = S]
      BY <2>2
    <2> HIDE DEF S
    <2> QED
      BY <2>1, <2>3, <2>4, OneBolt
  <1>3. ASSUME NEW m \in interests, NEW i \in Bolts, NEW b \in BOOLEAN, BoltOnNack(i, m, b)
        PROVE  BoltInv'
    <2>1. m.nonce \in Nonces
      BY DEF TypeOK, Interest
    <2>2. pending' = [pending EXCEPT ![i][m.nonce] = 0]
      BY <1>1, <1>3, <2>1 DEF BoltOnNack
    <2>3. CASE b
      <3>1. /\ loop' = [loop EXCEPT ![i] = loop[i] \ {m.nonce}]
            /\ reqs' = [reqs EXCEPT ![i] = loop[i] \ {m.nonce}]
        BY <1>3, <2>3 DEF BoltOnNack, Clean, BoltInv, LoopMatchesReqs
      <3> DEFINE S == loop[i] \ {m.nonce}
      <3>2. S \ {m.nonce} = loop[i] \ {m.nonce} /\ ~(0 > 0)
        OBVIOUS
      <3>3. loop' = [loop EXCEPT ![i] = S] /\ reqs' = [reqs EXCEPT ![i] = S]
        BY <3>1
      <3> HIDE DEF S
      <3> QED
        BY <2>1, <2>2, <3>2, <3>3, OneBolt
    <2>4. CASE ~b
      <3>1. /\ loop' = [loop EXCEPT ![i] = loop[i]]
            /\ reqs' = [reqs EXCEPT ![i] = loop[i]]
        BY <1>3, <2>4 DEF BoltOnNack, TypeOK, BoltInv, LoopMatchesReqs
      <3> DEFINE S == loop[i]
      <3>2. S \ {m.nonce} = loop[i] \ {m.nonce} /\ ~(0 > 0)
        OBVIOUS
      <3>3. loop' = [loop EXCEPT ![i] = S] /\ reqs' = [reqs EXCEPT ![i] = S]
        BY <3>1
      <3> HIDE DEF S
      <3> QED
        BY <2>1, <2>2, <3>2, <3>3, OneBolt
    <2> QED
      BY <2>3, <2>4
  <1> QED
    BY <1>2, <1>3

LEMMA OthersStep ==
  ASSUME BoltInv, UNCHANGED boltVars
  PROVE  BoltInv'
  BY DEF BoltInv, boltVars, CleanDefined, LoopMatchesReqs, ExpressedOnce

LEMMA BoltInductive == TypeOK /\ BoltInv /\ [Next]_vars => BoltInv'
  <1> SUFFICES ASSUME TypeOK, BoltInv, [Next]_vars PROVE BoltInv'
    OBVIOUS
  <1>1. CASE \E s \in Seqs : SendPacket(s)
    BY <1>1, OthersStep DEF SendPacket
  <1>2. CASE Deliver
    <2>1. ASSUME NEW m \in interests, ProducerOnInterest(m) PROVE BoltInv'
      BY <2>1, OthersStep DEF ProducerOnInterest
    <2>2. ASSUME NEW d \in datas, OnMetadata(d) \/ OnResult(d) PROVE BoltInv'
      BY <2>2, OthersStep DEF OnMetadata, OnResult
    <2> QED
      BY <1>2, <2>1, <2>2, BoltStep DEF Deliver, BoltOnData
  <1>3. CASE Disturb
    <2>1. ASSUME NEW s \in Seqs, Retransmit(s) PROVE BoltInv'
      BY <2>1, OthersStep DEF Retransmit
    <2>2. ASSUME NEW m \in interests, LoseInterest(m) \/ \E i \in Bolts : Duplicate(i, m)
          PROVE  BoltInv'
      BY <2>2, OthersStep DEF LoseInterest, Duplicate
    <2>3. ASSUME NEW d \in datas, LoseData(d) PROVE BoltInv'
      BY <2>3, OthersStep DEF LoseData
    <2> QED
      BY <1>3, <2>1, <2>2, <2>3, BoltFailureStep DEF Disturb
  <1>4. CASE UNCHANGED vars
    BY <1>4, OthersStep DEF vars
  <1> QED
    BY <1>1, <1>2, <1>3, <1>4 DEF Next

LEMMA BoltAlways == Spec => []BoltInv
  <1>1. Init => TypeOK /\ BoltInv
    <2>1. Init => BoltInv
      BY DEF Init, BoltInv, CleanDefined, LoopMatchesReqs, ExpressedOnce
    <2> QED
      BY <2>1, InitType
  <1>2. (TypeOK /\ BoltInv) /\ [Next]_vars => (TypeOK /\ BoltInv)'
    BY StepType, BoltInductive
  <1> QED
    BY <1>1, <1>2, PTL DEF Spec

(* A bolt that waits for an answer has the loop entry and the Quest which        *)
(* Bolt::clean erases by iterator: it never erases end().                        *)
THEOREM CleanIsDefined == Spec => []CleanDefined
  <1>1. BoltInv => CleanDefined
    BY DEF BoltInv
  <1> QED
    BY <1>1, BoltAlways, PTL

(* Bolt::loop and Bolt::Reqs never part, in spite of timeouts, Nacks, duplicates *)
(* and requests turned back.                                                     *)
THEOREM LoopAndReqsAgree == Spec => []LoopMatchesReqs
  <1>1. BoltInv => LoopMatchesReqs
    BY DEF BoltInv
  <1> QED
    BY <1>1, BoltAlways, PTL

(* Bolt::Islooped lets a bolt have one Interest per nonce outstanding.           *)
THEOREM OneInterestPerNonce == Spec => []ExpressedOnce
  <1>1. BoltInv => ExpressedOnce
    BY DEF BoltInv
  <1> QED
    BY <1>1, BoltAlways, PTL

-----------------------------------------------------------------------------
(* The two rounds of a request, on a network that repeats, duplicates and loses  *)
(* nothing.  ExecutedAtCheapest speaks of what the consumer accepted, long after *)
(* the bolts compared their costs; RoundInv says what every message on the way   *)
(* carries: a sequence number has at most one message in the network (AloneInv), *)
(* whose nonce is remembered by exactly the bolts between it and its requester   *)
(* (Trail), so no bolt takes it for a loop and no answer comes back unwanted.    *)

\* Nothing was repeated, duplicated, lost or answered too late.
Undisturbed == retx = 0 /\ dups = 0 /\ losses = 0

\* Bolt b is the one to execute the function for s.
Chosen(s, b) ==
  /\ b \in Bolts /\ \A i \in seen[s] : cost[b] <= cost[i]
  /\ rttOpt = "off" => seen[s] = Bolts
  /\ rttOpt = "local" => b = 1
  /\ rttOpt = "producer" => b = N

\* A metadata request on its way to the producer.
Asking(m) ==
  /\ m.marker = NoMarker /\ m.seq \notin replied /\ seen[m.seq] = {}
  /\ rttOpt = "local" => m.to = 1
  /\ rttOpt = "producer" => m.to # Producer

\* Metadata on its way back: the bolts it passed have seen it, and it names the
\* cheapest of them.
Collecting(d) ==
  /\ rttOpt \in {"on", "off"}
  /\ seen[d.seq] = (d.to + 1) .. N
  /\ d.to = N => d.minCost = NoCost
  /\ d.to # N => /\ d.marker \in Bolts /\ d.minCost = cost[d.marker]
                 /\ \A i \in seen[d.seq] : cost[d.marker] <= cost[i]

\* The Data of the result round: executed once it has passed the chosen bolt.
Returning(d) ==
  /\ Chosen(d.seq, d.marker) /\ d.seq \notin replied
  /\ d.executed = IF d.to < d.marker THEN d.marker ELSE Unexecuted

\* The bolts an Interest passed, or Data has still to pass, remember its nonce.
Trail(n, k) == \A i \in Bolts : n \in loop[i] <=> i < k

Served(s, n) == s \in waiting /\ answer[s] = NoAnswer /\ n <= nonces

InterestOk(m) ==
  (Asking(m) \/ Chosen(m.seq, m.marker)) /\ Served(m.seq, m.nonce) /\ Trail(m.nonce, m.to)

DataOk(d) ==
  /\ d.meta => Collecting(d)
  /\ ~d.meta => Returning(d)
  /\ Served(d.seq, d.nonce) /\ Trail(d.nonce, d.to + 1)

\* One message in the network for a sequence number, none with the nonce of another.
AloneInv ==
  /\ \A m, e \in interests : m.seq = e.seq \/ m.nonce = e.nonce => m = e
  /\ \A d, e \in datas : d.seq = e.seq \/ d.nonce = e.nonce => d = e
  /\ \A m \in interests, d \in datas : m.seq # d.seq /\ m.nonce # d.nonce

\* A sequence number is waited for until it is answered; what holds of the others.
RestInv ==
  /\ \A s \in waiting : answer[s] = NoAnswer
  /\ \A s \in Seqs \ waiting :
       /\ s \notin replied
       /\ answer[s] = NoAnswer => seen[s] = {}
       /\ answer[s] # NoAnswer => Chosen(s, answer[s])

\* A bolt waits for what it remembers, and remembers no nonce to come.
LoopInv == \A i \in Bolts : \A n \in loop[i] : pending[i][n] > 0 /\ n <= nonces

MessagesInv == (\A m \in interests : InterestOk(m)) /\ (\A d \in datas : DataOk(d))

RoundInv == MessagesInv /\ AloneInv /\ RestInv /\ LoopInv

\* A step that leaves alone all that is said of a message for s with nonce n.
SameFor(s, n) ==
  /\ UNCHANGED costVars
  /\ seen'[s] = seen[s] /\ answer'[s] = answer[s]
  /\ s \in replied' <=> s \in replied
  /\ s \in waiting => s \in waiting'
  /\ nonces <= nonces'
  /\ \A i \in Bolts : n \in loop'[i] <=> n \in loop[i]

LEMMA ChosenKept ==
  ASSUME NEW s, NEW b, Chosen(s, b), UNCHANGED costVars, seen'[s] = seen[s]
  PROVE  Chosen(s, b)'
  BY DEF Chosen, costVars

LEMMA ServedKept ==
  ASSUME TypeOK, TypeOK', NEW s, NEW n \in Nonces, NEW k, Served(s, n) /\ Trail(n, k), SameFor(s, n)
  PROVE  (Served(s, n) /\ Trail(n, k))'
  BY DEF Served, Trail, SameFor, TypeOK, Nonces

LEMMA InterestKept ==
  ASSUME TypeOK, TypeOK', NEW m \in Interest, InterestOk(m), SameFor(m.seq, m.nonce)
  PROVE  InterestOk(m)'
  <1>1. (Served(m.seq, m.nonce) /\ Trail(m.nonce, m.to))'
    BY ServedKept DEF InterestOk, Interest
  <1>2. CASE Asking(m)
    BY <1>1, <1>2 DEF InterestOk, SameFor, Asking, costVars
  <1>3. CASE Chosen(m.seq, m.marker)
    BY <1>1, <1>3, ChosenKept DEF InterestOk, SameFor
  <1> QED
    BY <1>2, <1>3 DEF InterestOk

LEMMA DataKept ==
  ASSUME TypeOK, TypeOK', NEW d \in Data, DataOk(d), SameFor(d.seq, d.nonce)
  PROVE  DataOk(d)'
  <1>1. (Served(d.seq, d.nonce) /\ Trail(d.nonce, d.to + 1))'
    BY ServedKept DEF DataOk, Data
  <1>2. d.meta => Collecting(d)'
    BY DEF DataOk, SameFor, Collecting, costVars
  <1>3. ~d.meta => Returning(d)'
    BY ChosenKept DEF DataOk, SameFor, Returning
  <1> QED
    BY <1>1, <1>2, <1>3 DEF DataOk

\* A step moves the message of one sequence number: the others, which differ from
\* it in number and nonce, stay as they are.
LEMMA Handover ==
  ASSUME TypeOK, TypeOK', RoundInv, NEW s, NEW n,
         \A m \in interests' :
           \/ m \in interests /\ m.seq # s /\ m.nonce # n /\ SameFor(m.seq, m.nonce)
           \/ m.seq = s /\ m.nonce = n /\ InterestOk(m)',
         \A d \in datas' :
           \/ d \in datas /\ d.seq # s /\ d.nonce # n /\ SameFor(d.seq, d.nonce)
           \/ d.seq = s /\ d.nonce = n /\ DataOk(d)',
         \A m, e \in interests' : m.seq = s /\ e.seq = s => m = e,
         \A d, e \in datas' : d.seq = s /\ e.seq = s => d = e,
         \A m \in interests', d \in datas' : ~(m.seq = s /\ d.seq = s)
  PROVE  MessagesInv' /\ AloneInv'
  <1>1. ASSUME NEW m \in interests' PROVE InterestOk(m)'
    <2>1. m \in interests => m \in Interest /\ InterestOk(m)
      BY DEF TypeOK, RoundInv, MessagesInv
    <2> QED
      BY <2>1, InterestKept
  <1>2. ASSUME NEW d \in datas' PROVE DataOk(d)'
    <2>1. d \in datas => d \in Data /\ DataOk(d)
      BY DEF TypeOK, RoundInv, MessagesInv
    <2> QED
      BY <2>1, DataKept
  <1>3. \A m \in interests' : \/ m \in interests /\ m.seq # s /\ m.nonce # n
                              \/ m.seq = s /\ m.nonce = n
    OBVIOUS
  <1>4. \A d \in datas' : \/ d \in datas /\ d.seq # s /\ d.nonce # n
                          \/ d.seq = s /\ d.nonce = n
    OBVIOUS
  <1>5. AloneInv
    BY DEF RoundInv
  <1>6. AloneInv'
    BY <1>3, <1>4, <1>5 DEF AloneInv
  <1> QED
    BY <1>1, <1>2, <1>6 DEF MessagesInv

-----------------------------------------------------------------------------
(* The consumer. *)

\* A number that is not waited for has no message in the network.
LEMMA Silent ==
  ASSUME RoundInv, NEW s \in Seqs, s \notin waiting
  PROVE  (\A m \in interests : m.seq # s) /\ (\A d \in datas : d.seq # s)
  BY DEF RoundInv, MessagesInv, InterestOk, DataOk, Served

\* The next nonce is new to the network and to the bolts.
LEMMA FreshNonce ==
  ASSUME TypeOK, RoundInv
  PROVE  /\ \A m \in interests : m.nonce # nonces + 1
         /\ \A d \in datas : d.nonce # nonces + 1
         /\ \A i \in Bolts : nonces + 1 \notin loop[i]
  <1>1. nonces \in Nat
    BY SnakeAssumption DEF TypeOK
  <1>2. \A m \in interests : m.nonce \in Nat /\ m.nonce <= nonces
    BY DEF TypeOK, Interest, Nonces, RoundInv, MessagesInv, InterestOk, Served
  <1>3. \A d \in datas : d.nonce \in Nat /\ d.nonce <= nonces
    BY DEF TypeOK, Data, Nonces, RoundInv, MessagesInv, DataOk, Served
  <1>4. \A i \in Bolts : \A n \in loop[i] : n \in Nat /\ n <= nonces
    BY DEF TypeOK, Nonces, RoundInv, LoopInv
  <1> QED
    BY <1>1, <1>2, <1>3, <1>4

LEMMA RoundSend ==
  ASSUME TypeOK, TypeOK', RoundInv, NEW s \in Seqs, SendPacket(s)
  PROVE  RoundInv'
  <1>0. PICK n : n = nonces + 1
    OBVIOUS
  <1> DEFINE m0 == [to |-> 1, nonce |-> n, seq |-> s, marker |-> NoMarker]
  <1>1. s \notin waiting /\ answer[s] = NoAnswer /\ seen[s] = {} /\ s \notin replied
    BY DEF SendPacket, Scheduled, RoundInv, RestInv
  <1>2. interests' = interests \cup {m0} /\ datas' = datas /\ nonces' = n
    BY <1>0 DEF SendPacket, Express
  <1>3. /\ UNCHANGED <<costVars, loop, pending, replied, answer, seen>>
        /\ waiting' = waiting \cup {s} /\ nonces \in Nat /\ n \in Nat /\ nonces <= n
    BY <1>0, SnakeAssumption DEF SendPacket, boltVars, TypeOK
  <1>4. InterestOk(m0)'
    <2>1. Asking(m0)'
      BY <1>1, <1>3, SnakeAssumption DEF Asking, costVars, Producer
    <2>2. Trail(n, 1)'
      BY <1>0, <1>3, FreshNonce DEF Trail, Bolts
    <2>3. Served(s, n)'
      BY <1>1, <1>2, <1>3 DEF Served
    <2> QED
      BY <1>2, <2>1, <2>2, <2>3 DEF InterestOk
  <1>5. ASSUME NEW t, NEW k PROVE SameFor(t, k)
    BY <1>2, <1>3 DEF SameFor, costVars
  <1>6. MessagesInv' /\ AloneInv'
    <2>1. m0.seq = s /\ m0.nonce = n
      OBVIOUS
    <2>2. \A m \in interests : m.seq # s /\ m.nonce # n /\ SameFor(m.seq, m.nonce)
      BY <1>0, <1>1, <1>5, Silent, FreshNonce
    <2>3. \A d \in datas' : d \in datas /\ d.seq # s /\ d.nonce # n /\ SameFor(d.seq, d.nonce)
      BY <1>0, <1>1, <1>2, <1>5, Silent, FreshNonce
    <2>4. \A m \in interests' :
            \/ m \in interests /\ m.seq # s /\ m.nonce # n /\ SameFor(m.seq, m.nonce)
            \/ m.seq = s /\ m.nonce = n /\ InterestOk(m)'
      BY <1>2, <1>4, <2>1, <2>2
    <2>5. \A m, e \in interests' : m.seq = s /\ e.seq = s => m = e
      BY <1>2, <2>2
    <2> HIDE DEF m0
    <2> QED
      BY <2>3, <2>4, <2>5, Handover
  <1>7. RestInv'
    BY <1>1, <1>3, ChosenKept DEF RoundInv, RestInv
  <1>8. LoopInv'
    BY <1>2, <1>3 DEF RoundInv, LoopInv, TypeOK, Nonces
  <1> QED
    BY <1>6, <1>7, <1>8 DEF RoundInv

LEMMA RoundMetadata ==
  ASSUME TypeOK, TypeOK', RoundInv, NEW d0 \in datas, OnMetadata(d0)
  PROVE  RoundInv'
  <1>0. PICK n : n = nonces + 1
    OBVIOUS
  <1> DEFINE s == d0.seq
             m0 == [to |-> 1, nonce |-> n, seq |-> s, marker |-> d0.marker]
  <1>1. /\ d0 \in Data /\ s \in Seqs
        /\ Collecting(d0) /\ d0.to = 0 /\ s \in waiting /\ answer[s] = NoAnswer
    BY DEF OnMetadata, TypeOK, Data, Consumer, RoundInv, MessagesInv, DataOk, Served
  <1>2. interests' = interests \cup {m0} /\ datas' = datas \ {d0} /\ nonces' = n
    BY <1>0 DEF OnMetadata, Express
  <1>3. /\ UNCHANGED <<costVars, loop, pending, replied, waiting, answer, seen>>
        /\ nonces \in Nat /\ n \in Nat /\ nonces <= n
    BY <1>0, SnakeAssumption DEF OnMetadata, boltVars, TypeOK
  <1>4. InterestOk(m0)'
    <2>1. Chosen(s, d0.marker)
      BY <1>1, SnakeAssumption DEF Collecting, Chosen, Bolts
    <2>2. Chosen(s, d0.marker)'
      BY <1>3, <2>1, ChosenKept
    <2>3. Trail(n, 1)'
      BY <1>0, <1>3, FreshNonce DEF Trail, Bolts
    <2>4. Served(s, n)'
      BY <1>1, <1>2, <1>3 DEF Served
    <2> QED
      BY <1>2, <2>2, <2>3, <2>4 DEF InterestOk
  <1>5. ASSUME NEW t, NEW k PROVE SameFor(t, k)
    BY <1>2, <1>3 DEF SameFor, costVars
  <1>6. MessagesInv' /\ AloneInv'
    <2>1. m0.seq = s /\ m0.nonce = n
      OBVIOUS
    <2>2. \A m \in interests : m.seq # s /\ m.nonce # n /\ SameFor(m.seq, m.nonce)
      BY <1>0, <1>5, FreshNonce DEF RoundInv, AloneInv
    <2>3. \A d \in datas' : d \in datas /\ d.seq # s /\ d.nonce # n /\ SameFor(d.seq, d.nonce)
      BY <1>0, <1>2, <1>5, FreshNonce DEF RoundInv, AloneInv
    <2>4. \A m \in interests' :
            \/ m \in interests /\ m.seq # s /\ m.nonce # n /\ SameFor(m.seq, m.nonce)
            \/ m.seq = s /\ m.nonce = n /\ InterestOk(m)'
      BY <1>2, <1>4, <2>1, <2>2
    <2>5. \A m, e \in interests' : m.seq = s /\ e.seq = s => m = e
      BY <1>2, <2>2
    <2> HIDE DEF m0, s
    <2> QED
      BY <2>3, <2>4, <2>5, Handover
  <1>7. RestInv'
    BY <1>3, ChosenKept DEF RoundInv, RestInv
  <1>8. LoopInv'
    BY <1>2, <1>3 DEF RoundInv, LoopInv, TypeOK, Nonces
  <1> QED
    BY <1>6, <1>7, <1>8 DEF RoundInv

LEMMA RoundResult ==
  ASSUME TypeOK, TypeOK', RoundInv, NEW d0 \in datas, OnResult(d0)
  PROVE  RoundInv'
  <1> DEFINE s == d0.seq
             n == d0.nonce
  <1>1. /\ d0 \in Data /\ s \in Seqs
        /\ Returning(d0) /\ d0.to = 0 /\ s \in waiting
    BY DEF OnResult, TypeOK, Data, Consumer, RoundInv, MessagesInv, DataOk, Served
  <1>2. /\ interests' = interests /\ datas' = datas \ {d0} /\ waiting' = waiting \ {s}
        /\ answer' = [answer EXCEPT ![s] = d0.executed]
        /\ UNCHANGED <<costVars, loop, pending, replied, nonces, seen>>
    BY <1>1 DEF OnResult, boltVars
  <1>3. ASSUME NEW t, NEW k, t # s PROVE SameFor(t, k)
    <2>1. answer'[t] = answer[t]
      BY <1>2, <1>3 DEF TypeOK
    <2>2. nonces <= nonces'
      BY <1>2, SnakeAssumption DEF TypeOK
    <2> QED
      BY <1>2, <1>3, <2>1, <2>2 DEF SameFor, costVars
  <1>4. MessagesInv' /\ AloneInv'
    <2>1. \A m \in interests' : m \in interests /\ m.seq # s /\ m.nonce # n
      BY <1>2 DEF RoundInv, AloneInv
    <2>2. \A d \in datas' : d \in datas /\ d.seq # s /\ d.nonce # n
      BY <1>2 DEF RoundInv, AloneInv
    <2>3. \A m \in interests' : SameFor(m.seq, m.nonce)
      BY <1>3, <2>1
    <2>4. \A d \in datas' : SameFor(d.seq, d.nonce)
      BY <1>3, <2>2
    <2> HIDE DEF s, n
    <2> QED
      BY <2>1, <2>2, <2>3, <2>4, Handover
  <1>5. d0.executed = d0.marker /\ d0.marker # NoAnswer
    BY <1>1 DEF Returning, Chosen, Bolts, NoAnswer
  <1>6. ASSUME NEW t \in Seqs \ waiting'
        PROVE  /\ t \notin replied'
               /\ answer'[t] = NoAnswer => seen'[t] = {}
               /\ answer'[t] # NoAnswer => Chosen(t, answer[t])'
    <2>1. CASE t = s
      <3>1. answer'[t] = d0.marker /\ Chosen(t, d0.marker)'
        BY <1>1, <1>2, <1>5, <2>1, ChosenKept DEF Returning, TypeOK
      <3> QED
        BY <1>1, <1>2, <1>5, <2>1, <3>1 DEF Returning
    <2>2. CASE t # s
      <3>1. t \in Seqs \ waiting /\ answer'[t] = answer[t]
        BY <1>2, <2>2 DEF TypeOK
      <3>2. answer[t] # NoAnswer => Chosen(t, answer[t])
        BY <3>1 DEF RoundInv, RestInv
      <3>3. PICK b : b = answer[t]
        OBVIOUS
      <3>4. Chosen(t, b) => Chosen(t, b)'
        BY <1>2, ChosenKept
      <3> QED
        BY <1>2, <3>1, <3>2, <3>3, <3>4 DEF RoundInv, RestInv
    <2> QED
      BY <2>1, <2>2
  <1>7. RestInv'
    <2>1. \A t \in waiting' : answer'[t] = NoAnswer
      BY <1>2 DEF TypeOK, RoundInv, RestInv
    <2> QED
      BY <1>6, <2>1 DEF RestInv
  <1>8. LoopInv'
    BY <1>2 DEF RoundInv, LoopInv
  <1> QED
    BY <1>4, <1>7, <1>8 DEF RoundInv

-----------------------------------------------------------------------------
(* The bolts and the producer. *)

\* What a bolt passes an Interest on with: the next one may be asked, or is told
\* who executes the function.
LEMMA Passed ==
  ASSUME TypeOK, RoundInv, NEW i \in Bolts, NEW m \in interests, m.to = i
  PROVE  LET e == [ProcessingInterest(i, m) EXCEPT !.to = i + 1]
         IN  /\ e.seq = m.seq /\ e.nonce = m.nonce /\ e.to = i + 1
             /\ Asking(e) \/ Chosen(e.seq, e.marker)
  <1> DEFINE e == [ProcessingInterest(i, m) EXCEPT !.to = i + 1]
  <1>1. m \in Interest /\ (Asking(m) \/ Chosen(m.seq, m.marker))
    BY DEF TypeOK, RoundInv, MessagesInv, InterestOk
  <1>2. N \in Nat \ {0} /\ i \in 1 .. N
    BY SnakeAssumption DEF Bolts
  <1>3. CASE <<rttOpt, i>> \in {<<"local", 1>>, <<"producer", N>>}
    <2>1. e.to = i + 1 /\ e.nonce = m.nonce /\ e.seq = m.seq /\ e.marker = i
      <3>1. ProcessingInterest(i, m) = [m EXCEPT !.marker = i]
        BY <1>3 DEF ProcessingInterest
      <3> QED
        BY <1>1, <3>1 DEF Interest
    <2>2. Chosen(m.seq, i)
      <3>1. CASE Asking(m)
        BY <1>2, <1>3, <3>1 DEF Asking, Chosen, Bolts
      <3>2. CASE Chosen(m.seq, m.marker)
        BY <1>3, <3>2 DEF Chosen
      <3> QED
        BY <1>1, <3>1, <3>2
    <2> QED
      BY <2>1, <2>2
  <1>4. CASE <<rttOpt, i>> \notin {<<"local", 1>>, <<"producer", N>>}
    <2>1. e = [to |-> i + 1, nonce |-> m.nonce, seq |-> m.seq, marker |-> m.marker]
      BY <1>1, <1>4 DEF ProcessingInterest, Interest
    <2>2. Asking(m) => Asking(e)
      BY <1>2, <1>4, <2>1 DEF Asking, Producer
    <2> QED
      BY <1>1, <2>1, <2>2
  <1> QED
    BY <1>3, <1>4

LEMMA RoundInterest ==
  ASSUME TypeOK, TypeOK', BoltInv, RoundInv, NEW i \in Bolts, NEW m0 \in interests,
         BoltOnInterest(i, m0)
  PROVE  RoundInv'
  <1> DEFINE s == m0.seq
             n == m0.nonce
  <1>0. PICK e0 : e0 = [ProcessingInterest(i, m0) EXCEPT !.to = i + 1]
    OBVIOUS
  <1>1. /\ m0 \in Interest /\ s \in Seqs /\ n \in Nonces /\ m0.to = i
        /\ InterestOk(m0) /\ n \notin loop[i] /\ i \in Nat
    <2>1. m0 \in Interest /\ m0.to = i
      BY DEF BoltOnInterest, TypeOK
    <2>2. s \in Seqs /\ n \in Nonces
      BY <2>1 DEF Interest
    <2>3. InterestOk(m0) /\ i \in Nat
      BY DEF RoundInv, MessagesInv, Bolts
    <2>4. n \in loop[i] <=> i < i
      BY <2>1, <2>3 DEF InterestOk, Trail
    <2>5. ~(i < i)
      BY <2>3
    <2> HIDE DEF s, n
    <2> QED
      BY <2>1, <2>2, <2>3, <2>4, <2>5
  <1>2. /\ interests' = (interests \ {m0}) \cup {e0} /\ datas' = datas
        /\ loop' = [loop EXCEPT ![i] = @ \cup {n}]
        /\ pending' = [pending EXCEPT ![i][n] = @ + 1]
        /\ UNCHANGED <<costVars, waiting, answer, nonces, replied, seen>>
    BY <1>0, <1>1 DEF BoltOnInterest, Islooped, consumerVars
  <1>3. e0.seq = s /\ e0.nonce = n /\ e0.to = i + 1 /\ (Asking(e0) \/ Chosen(e0.seq, e0.marker))
    BY <1>0, <1>1, Passed
  <1>4. InterestOk(e0)'
    <2>1. Asking(e0) => Asking(e0)'
      BY <1>2 DEF Asking, costVars
    <2>2. Chosen(e0.seq, e0.marker) => Chosen(e0.seq, e0.marker)'
      BY <1>2, ChosenKept
    <2>3. Trail(n, i + 1)'
      <3>1. ASSUME NEW j \in Bolts PROVE n \in loop'[j] <=> j < i + 1
        BY <1>1, <1>2, <3>1 DEF TypeOK, InterestOk, Trail, Bolts
      <3> QED
        BY <3>1 DEF Trail
    <2>4. Served(s, n)'
      BY <1>1, <1>2 DEF InterestOk, Served
    <2> HIDE DEF s, n
    <2> QED
      BY <1>3, <2>1, <2>2, <2>3, <2>4 DEF InterestOk
  <1>5. ASSUME NEW t, NEW k, k # n PROVE SameFor(t, k)
    <2>1. \A j \in Bolts : k \in loop'[j] <=> k \in loop[j]
      BY <1>2, <1>5 DEF TypeOK
    <2>2. nonces <= nonces'
      BY <1>2, SnakeAssumption DEF TypeOK
    <2> QED
      BY <1>2, <2>1, <2>2 DEF SameFor, costVars
  <1>6. MessagesInv' /\ AloneInv'
    <2>1. \A m \in interests \ {m0} : m.seq # s /\ m.nonce # n
      BY DEF RoundInv, AloneInv
    <2>2. \A d \in datas' : d \in datas /\ d.seq # s /\ d.nonce # n
      BY <1>2 DEF RoundInv, AloneInv
    <2> HIDE DEF s, n
    <2>3. \A m \in interests' :
            \/ m \in interests /\ m.seq # s /\ m.nonce # n /\ SameFor(m.seq, m.nonce)
            \/ m.seq = s /\ m.nonce = n /\ InterestOk(m)'
      BY <1>2, <1>3, <1>4, <1>5, <2>1
    <2>4. \A d \in datas' : d \in datas /\ d.seq # s /\ d.nonce # n /\ SameFor(d.seq, d.nonce)
      BY <1>5, <2>2
    <2>5. \A m, e \in interests' : m.seq = s /\ e.seq = s => m = e
      BY <1>2, <2>1
    <2> QED
      BY <2>3, <2>4, <2>5, Handover
  <1>7. RestInv'
    BY <1>2, ChosenKept DEF RoundInv, RestInv
  <1>8. LoopInv'
    <2>1. n <= nonces /\ pending[i][n] + 1 > 0
      BY <1>1 DEF InterestOk, Served, TypeOK
    <2>2. ASSUME NEW j \in Bolts, NEW k \in loop'[j] PROVE pending'[j][k] > 0 /\ k <= nonces'
      <3>1. k \in Nonces
        BY <2>2 DEF TypeOK
      <3>2. CASE j = i /\ k = n
        BY <1>1, <1>2, <2>1, <3>1, <3>2 DEF TypeOK
      <3>3. CASE ~(j = i /\ k = n)
        <4>1. k \in loop[j] /\ pending'[j][k] = pending[j][k]
          BY <1>1, <1>2, <2>2, <3>1, <3>3 DEF TypeOK
        <4> QED
          BY <1>2, <4>1 DEF RoundInv, LoopInv
      <3> QED
        BY <3>2, <3>3
    <2> QED
      BY <2>2 DEF LoopInv
  <1> QED
    BY <1>6, <1>7, <1>8 DEF RoundInv

\* What a bolt passes Data on as: metadata names the cheapest bolt it has passed,
\* a result is executed by the chosen one.
LEMMA Processed ==
  ASSUME TypeOK, NEW i \in Bolts, NEW d \in Data, d.to = i
  PROVE  LET e == [Process(i, d) EXCEPT !.to = i - 1]
         IN  /\ e \in Data
             /\ e.to = i - 1 /\ e.seq = d.seq /\ e.nonce = d.nonce /\ e.meta = d.meta
             /\ d.meta => /\ e.marker = MarkMinCost(i, d).marker
                          /\ e.minCost = MarkMinCost(i, d).minCost
             /\ ~d.meta => /\ e.marker = d.marker
                           /\ e.executed = IF d.executed = Unexecuted /\ d.marker = i
                                             THEN i ELSE d.executed
  <1> DEFINE e == [Process(i, d) EXCEPT !.to = i - 1]
  <1>1. Process(i, d) \in Data /\ i - 1 \in 0 .. N /\ cost[i] \in Costs /\ i \in 0 .. N
    BY ProcessType, SnakeAssumption DEF Bolts, TypeOK
  <1>2. /\ e \in Data /\ e.to = i - 1
        /\ e.seq = Process(i, d).seq /\ e.nonce = Process(i, d).nonce
        /\ e.meta = Process(i, d).meta /\ e.marker = Process(i, d).marker
        /\ e.minCost = Process(i, d).minCost /\ e.executed = Process(i, d).executed
    BY <1>1 DEF Data
  <1>3. CASE d.meta
    <2>1. /\ MarkMinCost(i, d) \in Data
          /\ MarkMinCost(i, d).seq = d.seq /\ MarkMinCost(i, d).nonce = d.nonce
          /\ MarkMinCost(i, d).meta = d.meta
      BY <1>1 DEF MarkMinCost, Data
    <2>2. \A f \in Data : /\ MarkMaxCost(i, f).seq = f.seq /\ MarkMaxCost(i, f).nonce = f.nonce
                          /\ MarkMaxCost(i, f).meta = f.meta
                          /\ MarkMaxCost(i, f).marker = f.marker
                          /\ MarkMaxCost(i, f).minCost = f.minCost
      BY DEF MarkMaxCost, Data
    <2>3. Process(i, d) = MarkMaxCost(i, MarkMinCost(i, d))
      BY <1>3 DEF Process
    <2>4. PICK f : f = MarkMinCost(i, d)
      OBVIOUS
    <2>5. /\ MarkMaxCost(i, f).seq = d.seq /\ MarkMaxCost(i, f).nonce = d.nonce
          /\ MarkMaxCost(i, f).meta = d.meta
          /\ MarkMaxCost(i, f).marker = f.marker /\ MarkMaxCost(i, f).minCost = f.minCost
      BY <2>1, <2>2, <2>4
    <2>6. Process(i, d) = MarkMaxCost(i, f)
      BY <2>3, <2>4
    <2> HIDE DEF e
    <2>7. /\ e \in Data /\ e.to = i - 1 /\ e.seq = d.seq /\ e.nonce = d.nonce
          /\ e.meta = d.meta
          /\ e.marker = MarkMinCost(i, d).marker /\ e.minCost = MarkMinCost(i, d).minCost
      BY <1>2, <2>4, <2>5, <2>6
    <2> QED
      BY <1>3, <2>7 DEF e
  <1>4. CASE ~d.meta
    <2>1. Process(i, d) = Execute(i, d)
      BY <1>4 DEF Process
    <2>2. /\ Execute(i, d).seq = d.seq /\ Execute(i, d).nonce = d.nonce
          /\ Execute(i, d).meta = d.meta /\ Execute(i, d).marker = d.marker
          /\ Execute(i, d).executed = IF d.executed = Unexecuted /\ d.marker = i
                                        THEN i ELSE d.executed
      BY DEF Execute, Data
    <2> QED
      BY <1>2, <1>4, <2>1, <2>2
  <1> QED
    BY <1>3, <1>4

\* The comparison of one bolt leaves the cheapest of those that compared so far.
LEMMA CheapestSoFar ==
  ASSUME TypeOK, NEW i \in Bolts, NEW d \in Data, d.to = i, Collecting(d)
  PROVE  /\ MarkMinCost(i, d).marker \in Bolts
         /\ MarkMinCost(i, d).minCost = cost[MarkMinCost(i, d).marker]
         /\ \A j \in seen[d.seq] \cup {i} : cost[MarkMinCost(i, d).marker] <= cost[j]
         /\ seen[d.seq] \cup {i} = i .. N
  <1>1. i \in 1 .. N /\ N \in Nat /\ cost[i] \in Nat
    BY SnakeAssumption DEF Bolts, TypeOK
  <1>2. seen[d.seq] = (i + 1) .. N
    BY DEF Collecting
  <1>3. seen[d.seq] \cup {i} = i .. N
    BY <1>1, <1>2
  <1>4. CASE Cheaper(i, d)
    <2>1. MarkMinCost(i, d).marker = i /\ MarkMinCost(i, d).minCost = cost[i]
      BY <1>4 DEF MarkMinCost, Data
    <2>2. \A j \in seen[d.seq] : cost[i] <= cost[j]
      <3>1. CASE i = N
        BY <1>1, <1>2, <3>1
      <3>2. CASE i # N
        <4>1. /\ d.marker \in Bolts /\ d.minCost = cost[d.marker]
              /\ \A j \in seen[d.seq] : cost[d.marker] <= cost[j]
          BY <3>2 DEF Collecting
        <4>2. \A j \in Bolts : cost[j] \in Nat
          BY SnakeAssumption DEF TypeOK
        <4>3. cost[i] < cost[d.marker]
          BY <1>4, <4>1, <4>2 DEF Cheaper, NoCost
        <4>4. seen[d.seq] \subseteq Bolts
          BY <1>1, <1>2 DEF Bolts
        <4>5. ASSUME NEW j \in seen[d.seq] PROVE cost[i] <= cost[j]
          <5>1. cost[j] \in Nat /\ cost[d.marker] \in Nat /\ cost[d.marker] <= cost[j]
            BY <4>1, <4>2, <4>4
          <5> QED
            BY <1>1, <4>3, <5>1
        <4> QED
          BY <4>5
      <3> QED
        BY <3>1, <3>2
    <2> QED
      BY <1>1, <1>3, <2>1, <2>2
  <1>5. CASE ~Cheaper(i, d)
    <2>1. MarkMinCost(i, d) = d /\ d.minCost # NoCost /\ ~(cost[i] < d.minCost)
      BY <1>5 DEF MarkMinCost, Cheaper
    <2>2. i # N
      BY <2>1 DEF Collecting
    <2>3. /\ d.marker \in Bolts /\ d.minCost = cost[d.marker]
          /\ \A j \in seen[d.seq] : cost[d.marker] <= cost[j]
      BY <2>2 DEF Collecting
    <2>4. cost[d.marker] <= cost[i]
      <3>1. cost[d.marker] \in Nat
        BY <2>3, SnakeAssumption DEF TypeOK
      <3> QED
        BY <1>1, <2>1, <2>3, <3>1
    <2> QED
      BY <1>3, <2>1, <2>3, <2>4
  <1> QED
    BY <1>4, <1>5

LEMMA RoundForward ==
  ASSUME TypeOK, TypeOK', BoltInv, BoltInv', RoundInv, NEW i \in Bolts, NEW d0 \in datas,
         BoltForwardData(i, d0)
  PROVE  RoundInv'
  <1> DEFINE s == d0.seq
             n == d0.nonce
  <1>0. PICK e0 : e0 = [Process(i, d0) EXCEPT !.to = i - 1]
    OBVIOUS
  <1>1. /\ d0 \in Data /\ s \in Seqs /\ n \in Nonces /\ d0.to = i
        /\ DataOk(d0) /\ i \in 1 .. N /\ N \in Nat /\ d0.meta \in BOOLEAN
    BY SnakeAssumption
    DEF BoltForwardData, TypeOK, Data, RoundInv, MessagesInv, Bolts
  <1>2. /\ interests' = interests /\ datas' = (datas \ {d0}) \cup {e0}
        /\ loop' = [loop EXCEPT ![i] = @ \ {n}]
        /\ pending' = [pending EXCEPT ![i][n] = @ - 1]
        /\ seen' = [seen EXCEPT ![s] = IF d0.meta THEN @ \cup {i} ELSE @]
        /\ UNCHANGED <<costVars, waiting, answer, nonces, replied>>
    BY <1>0 DEF BoltForwardData, Clean, consumerVars
  <1>3. /\ e0.to = i - 1 /\ e0.seq = s /\ e0.nonce = n /\ e0.meta = d0.meta
        /\ d0.meta => /\ e0.marker = MarkMinCost(i, d0).marker
                      /\ e0.minCost = MarkMinCost(i, d0).minCost
        /\ ~d0.meta => /\ e0.marker = d0.marker
                       /\ e0.executed = IF d0.executed = Unexecuted /\ d0.marker = i
                                          THEN i ELSE d0.executed
    BY <1>0, <1>1, Processed
  <1>4. DataOk(e0)'
    <2>1. ASSUME d0.meta PROVE Collecting(e0)'
      <3>1. Collecting(d0)
        BY <1>1, <2>1 DEF DataOk
      <3>2. /\ e0.marker \in Bolts /\ e0.minCost = cost[e0.marker]
            /\ \A j \in seen[s] \cup {i} : cost[e0.marker] <= cost[j]
            /\ seen[s] \cup {i} = i .. N
        BY <1>1, <1>3, <2>1, <3>1, CheapestSoFar
      <3>3. seen'[s] = seen[s] \cup {i} /\ UNCHANGED <<cost, rttOpt>>
        BY <1>1, <1>2, <2>1 DEF TypeOK, costVars
      <3>4. (i - 1) + 1 = i /\ i - 1 # N
        BY <1>1
      <3> QED
        BY <1>3, <3>1, <3>2, <3>3, <3>4 DEF Collecting
    <2>2. ASSUME ~d0.meta PROVE Returning(e0)'
      <3>1. Returning(d0)
        BY <1>1, <2>2 DEF DataOk
      <3>2. Chosen(s, d0.marker)'
        BY <1>1, <1>2, <2>2, <3>1, ChosenKept DEF Returning, TypeOK
      <3>3. d0.marker \in Bolts
        BY <3>1 DEF Returning, Chosen
      <3>4. e0.executed = IF i - 1 < d0.marker THEN d0.marker ELSE Unexecuted
        BY <1>1, <1>3, <2>2, <3>1, <3>3 DEF Returning, Bolts, Unexecuted
      <3> QED
        BY <1>2, <1>3, <2>2, <3>1, <3>2, <3>4 DEF Returning
    <2>3. Trail(n, i)'
      <3>1. ASSUME NEW j \in Bolts PROVE n \in loop'[j] <=> j < i
        <4>1. n \in loop[j] <=> j < d0.to + 1
          BY <1>1 DEF DataOk, Trail
        <4> HIDE DEF s, n
        <4>2. loop'[j] = IF j = i THEN loop[i] \ {n} ELSE loop[j]
          BY <1>2 DEF TypeOK
        <4>3. n \in loop'[j] <=> j < i + 1 /\ j # i
          BY <1>1, <4>1, <4>2
        <4>4. j \in Nat
          BY <1>1 DEF Bolts
        <4> QED
          BY <1>1, <4>3, <4>4
      <3> QED
        BY <3>1 DEF Trail
    <2>4. Served(s, n)'
      BY <1>1, <1>2 DEF DataOk, Served
    <2>5. e0.to + 1 = i
      BY <1>1, <1>3
    <2>6. Served(e0.seq, e0.nonce)' /\ Trail(e0.nonce, e0.to + 1)'
      <3> HIDE DEF s, n
      <3> QED
        BY <1>3, <2>3, <2>4, <2>5
    <2>7. (e0.meta => Collecting(e0)') /\ (~e0.meta => Returning(e0)')
      <3>1. e0.meta = d0.meta
        BY <1>3
      <3> QED
        BY <2>1, <2>2, <3>1
    <2> HIDE DEF s, n
    <2> QED
      BY <2>6, <2>7 DEF DataOk
  <1>5. ASSUME NEW t, NEW k, t # s, k # n PROVE SameFor(t, k)
    <2>1. \A j \in Bolts : k \in loop'[j] <=> k \in loop[j]
      BY <1>2, <1>5 DEF TypeOK
    <2>2. nonces <= nonces'
      BY <1>2, SnakeAssumption DEF TypeOK
    <2>3. seen'[t] = seen[t]
      BY <1>2, <1>5 DEF TypeOK
    <2> QED
      BY <1>2, <2>1, <2>2, <2>3 DEF SameFor, costVars
  <1>6. MessagesInv' /\ AloneInv'
    <2>1. \A m \in interests' : m \in interests /\ m.seq # s /\ m.nonce # n
      BY <1>2 DEF RoundInv, AloneInv
    <2>2. \A d \in datas \ {d0} : d.seq # s /\ d.nonce # n
      BY DEF RoundInv, AloneInv
    <2> HIDE DEF s, n
    <2>3. \A d \in datas' :
            \/ d \in datas /\ d.seq # s /\ d.nonce # n /\ SameFor(d.seq, d.nonce)
            \/ d.seq = s /\ d.nonce = n /\ DataOk(d)'
      BY <1>2, <1>3, <1>4, <1>5, <2>2
    <2>4. \A m \in interests' :
            m \in interests /\ m.seq # s /\ m.nonce # n /\ SameFor(m.seq, m.nonce)
      BY <1>5, <2>1
    <2>5. \A d, e \in datas' : d.seq = s /\ e.seq = s => d = e
      BY <1>2, <2>2
    <2> QED
      BY <2>3, <2>4, <2>5, Handover
  <1>7. RestInv'
    <2>1. s \in waiting
      BY <1>1 DEF DataOk, Served
    <2>2. \A t \in Seqs \ waiting' : t \in Seqs \ waiting /\ seen'[t] = seen[t]
      BY <1>2, <2>1 DEF TypeOK
    <2> HIDE DEF s, n
    <2> QED
      BY <1>2, <2>2, ChosenKept DEF RoundInv, RestInv
  <1>8. LoopInv'
    <2>2. ASSUME NEW j \in Bolts, NEW k \in loop'[j] PROVE pending'[j][k] > 0 /\ k <= nonces'
      <3>1. k \in Nonces
        BY <2>2 DEF TypeOK
      <3>2. ~(j = i /\ k = n) /\ k \in loop[j]
        BY <1>1, <1>2, <2>2 DEF TypeOK
      <3>3. pending'[j][k] = pending[j][k]
        BY <1>1, <1>2, <3>1, <3>2 DEF TypeOK
      <3> QED
        BY <1>2, <3>2, <3>3 DEF RoundInv, LoopInv
    <2> QED
      BY <2>2 DEF LoopInv
  <1> QED
    BY <1>6, <1>7, <1>8 DEF RoundInv

LEMMA RoundTurnBack ==
  ASSUME TypeOK, TypeOK', BoltInv, RoundInv, NEW i \in Bolts, NEW d0 \in datas,
         BoltTurnBack(i, d0)
  PROVE  RoundInv'
  <1> DEFINE s == d0.seq
             n == d0.nonce
  <1>0. PICK b : b = MarkMinCost(i, d0).marker
    OBVIOUS
  <1> DEFINE m0 == [to |-> i + 1, nonce |-> n, seq |-> s, marker |-> b]
  <1>1. /\ d0 \in Data /\ s \in Seqs /\ n \in Nonces /\ d0.to = i
        /\ DataOk(d0) /\ Collecting(d0) /\ i \in 1 .. N /\ N \in Nat /\ rttOpt = "on"
    BY SnakeAssumption
    DEF BoltTurnBack, TurnsBack, TypeOK, Data, RoundInv, MessagesInv, DataOk, Bolts
  <1>2. /\ interests' = interests \cup {m0} /\ datas' = datas \ {d0}
        /\ seen' = [seen EXCEPT ![s] = @ \cup {i}]
        /\ UNCHANGED <<costVars, waiting, answer, nonces, loop, pending, replied>>
    BY <1>0 DEF BoltTurnBack, TurnBackKeeping, consumerVars
  <1>3. InterestOk(m0)'
    <2>1. Chosen(s, b)'
      <3>1. b \in Bolts /\ \A j \in seen[s] \cup {i} : cost[b] <= cost[j]
        BY <1>0, <1>1, CheapestSoFar
      <3>2. seen'[s] = seen[s] \cup {i} /\ UNCHANGED <<cost, rttOpt>>
        BY <1>1, <1>2 DEF TypeOK, costVars
      <3> QED
        BY <1>1, <3>1, <3>2 DEF Chosen
    <2>2. Trail(n, i + 1)'
      BY <1>1, <1>2 DEF DataOk, Trail
    <2>3. Served(s, n)'
      BY <1>1, <1>2 DEF DataOk, Served
    <2> QED
      BY <2>1, <2>2, <2>3 DEF InterestOk
  <1>4. ASSUME NEW t, NEW k, t # s PROVE SameFor(t, k)
    <2>1. nonces <= nonces'
      BY <1>2, SnakeAssumption DEF TypeOK
    <2>2. seen'[t] = seen[t]
      BY <1>2, <1>4 DEF TypeOK
    <2> QED
      BY <1>2, <2>1, <2>2 DEF SameFor, costVars
  <1>5. MessagesInv' /\ AloneInv'
    <2>1. \A m \in interests : m.seq # s /\ m.nonce # n
      BY DEF RoundInv, AloneInv
    <2>2. \A d \in datas' : d \in datas /\ d.seq # s /\ d.nonce # n
      BY <1>2 DEF RoundInv, AloneInv
    <2>3. m0.seq = s /\ m0.nonce = n
      OBVIOUS
    <2> HIDE DEF m0, s, n
    <2>4. \A m \in interests' :
            \/ m \in interests /\ m.seq # s /\ m.nonce # n /\ SameFor(m.seq, m.nonce)
            \/ m.seq = s /\ m.nonce = n /\ InterestOk(m)'
      BY <1>2, <1>3, <1>4, <2>1, <2>3
    <2>5. \A d \in datas' : d \in datas /\ d.seq # s /\ d.nonce # n /\ SameFor(d.seq, d.nonce)
      BY <1>4, <2>2
    <2>6. \A m, e \in interests' : m.seq = s /\ e.seq = s => m = e
      BY <1>2, <2>1
    <2> QED
      BY <2>4, <2>5, <2>6, Handover
  <1>6. RestInv'
    <2>1. s \in waiting
      BY <1>1 DEF DataOk, Served
    <2>2. \A t \in Seqs \ waiting' : t \in Seqs \ waiting /\ seen'[t] = seen[t]
      BY <1>2, <2>1 DEF TypeOK
    <2> HIDE DEF s, n
    <2> QED
      BY <1>2, <2>2, ChosenKept DEF RoundInv, RestInv
  <1>7. LoopInv'
    BY <1>2 DEF RoundInv, LoopInv
  <1> QED
    BY <1>5, <1>6, <1>7 DEF RoundInv

\* The producer remembers a request from its metadata to its result.
LEMMA RoundProducer ==
  ASSUME TypeOK, TypeOK', RoundInv, NEW m0 \in interests, ProducerOnInterest(m0)
  PROVE  RoundInv'
  <1> DEFINE s == m0.seq
             n == m0.nonce
  <1>0. PICK asked \in BOOLEAN : asked = IsRequestForMetadata(m0)
    BY DEF IsRequestForMetadata
  <1> DEFINE d0 == [to |-> N, nonce |-> n, seq |-> s, meta |-> asked,
                    marker |-> m0.marker, minCost |-> NoCost, maxCost |-> NoCost,
                    executed |-> Unexecuted]
  <1>1. /\ m0 \in Interest /\ s \in Seqs /\ n \in Nonces /\ m0.to = Producer
        /\ InterestOk(m0) /\ N \in Nat
    BY SnakeAssumption
    DEF ProducerOnInterest, TypeOK, Interest, RoundInv, MessagesInv
  <1>2. /\ interests' = interests \ {m0} /\ datas' = datas \cup {d0}
        /\ replied' = IF asked THEN replied \cup {s} ELSE replied \ {s}
        /\ UNCHANGED <<costVars, waiting, answer, nonces, loop, pending, seen>>
    BY <1>0 DEF ProducerOnInterest, Remember, consumerVars, boltVars
  <1>3. DataOk(d0)'
    <2>1. ASSUME asked PROVE Collecting(d0)'
      <3>1. Asking(m0)
        <4>0. IsRequestForMetadata(m0)
          BY <1>0, <2>1
        <4>1. m0.marker \notin Bolts
          BY <4>0, SnakeAssumption DEF IsRequestForMetadata, NoMarker, Bolts
        <4> QED
          BY <1>1, <4>1 DEF InterestOk, Chosen
      <3>2. rttOpt \in {"on", "off"}
        BY <1>1, <3>1, SnakeAssumption DEF Asking, TypeOK, Producer
      <3>3. seen[s] = (N + 1) .. N
        BY <1>1, <3>1 DEF Asking
      <3> QED
        BY <1>2, <3>2, <3>3 DEF Collecting, costVars
    <2>2. ASSUME ~asked PROVE Returning(d0)'
      <3>1. Chosen(s, m0.marker)
        BY <1>0, <1>1, <2>2 DEF InterestOk, Asking, IsRequestForMetadata
      <3>2. Chosen(s, m0.marker)'
        BY <1>2, <3>1, ChosenKept
      <3>3. ~(N < m0.marker)
        BY <1>1, <3>1 DEF Chosen, Bolts
      <3> QED
        BY <1>2, <2>2, <3>2, <3>3 DEF Returning
    <2>3. Trail(n, N + 1)'
      BY <1>1, <1>2 DEF InterestOk, Trail, Producer
    <2>4. Served(s, n)'
      BY <1>1, <1>2 DEF InterestOk, Served
    <2>5. d0.meta = asked /\ d0.seq = s /\ d0.nonce = n /\ d0.to = N
      OBVIOUS
    <2> HIDE DEF d0, s, n
    <2> QED
      BY <2>1, <2>2, <2>3, <2>4, <2>5 DEF DataOk
  <1>4. ASSUME NEW t, NEW k, t # s PROVE SameFor(t, k)
    <2>1. nonces <= nonces'
      BY <1>2, SnakeAssumption DEF TypeOK
    <2>2. t \in replied' <=> t \in replied
      BY <1>2, <1>4
    <2> QED
      BY <1>2, <2>1, <2>2 DEF SameFor, costVars
  <1>5. MessagesInv' /\ AloneInv'
    <2>1. \A m \in interests' : m \in interests /\ m.seq # s /\ m.nonce # n
      BY <1>2 DEF RoundInv, AloneInv
    <2>2. \A d \in datas : d.seq # s /\ d.nonce # n
      BY DEF RoundInv, AloneInv
    <2>3. d0.seq = s /\ d0.nonce = n
      OBVIOUS
    <2> HIDE DEF d0, s, n
    <2>4. \A d \in datas' :
            \/ d \in datas /\ d.seq # s /\ d.nonce # n /\ SameFor(d.seq, d.nonce)
            \/ d.seq = s /\ d.nonce = n /\ DataOk(d)'
      BY <1>2, <1>3, <1>4, <2>2, <2>3
    <2>5. \A m \in interests' :
            m \in interests /\ m.seq # s /\ m.nonce # n /\ SameFor(m.seq, m.nonce)
      BY <1>4, <2>1
    <2>6. \A d, e \in datas' : d.seq = s /\ e.seq = s => d = e
      BY <1>2, <2>2
    <2> QED
      BY <2>4, <2>5, <2>6, Handover
  <1>6. RestInv'
    <2>1. s \in waiting
      BY <1>1 DEF InterestOk, Served
    <2>2. \A t \in Seqs \ waiting' : t \in Seqs \ waiting /\ (t \in replied' => t \in replied)
      BY <1>2, <2>1
    <2> HIDE DEF s, n
    <2> QED
      BY <1>2, <2>2, ChosenKept DEF RoundInv, RestInv
  <1>7. LoopInv'
    BY <1>2 DEF RoundInv, LoopInv
  <1> QED
    BY <1>5, <1>6, <1>7 DEF RoundInv

-----------------------------------------------------------------------------
(* All steps. *)

LEMMA RoundSame ==
  ASSUME TypeOK, TypeOK', RoundInv, UNCHANGED vars
  PROVE  RoundInv'
  BY DEF RoundInv, MessagesInv, InterestOk, DataOk, Asking, Collecting, Returning, Chosen,
         Served, Trail, AloneInv, RestInv, LoopInv, vars, costVars, consumerVars, boltVars

\* The answer to an Interest that still waits for it is not dropped.
LEMMA AnswersWanted ==
  ASSUME TypeOK, RoundInv, NEW d \in datas, d.to \in Bolts
  PROVE  pending[d.to][d.nonce] # 0
  <1>1. d.nonce \in loop[d.to]
    BY SnakeAssumption DEF RoundInv, MessagesInv, DataOk, Trail, Bolts
  <1>2. pending[d.to][d.nonce] > 0
    BY <1>1 DEF RoundInv, LoopInv
  <1> QED
    BY <1>2

\* A step of the network or a timeout that disturbs leaves a trace in the counters.
LEMMA NotDisturbed ==
  ASSUME TypeOK, Undisturbed => RoundInv, Disturb, Undisturbed'
  PROVE  FALSE
  <1>1. retx \in Nat /\ dups \in Nat /\ losses \in Nat
    BY SnakeAssumption DEF TypeOK
  <1>2. ~(\E s \in Seqs : Retransmit(s))
    BY <1>1 DEF Retransmit, Undisturbed
  <1>3. ~(\E i \in Bolts, n \in Nonces : BoltOnTimeout(i, n))
    BY <1>1 DEF BoltOnTimeout, Undisturbed
  <1>4. ~(\E m \in interests : LoseInterest(m))
    BY <1>1 DEF LoseInterest, Undisturbed
  <1>5. ~(\E m \in interests, i \in Bolts : Duplicate(i, m))
    BY <1>1 DEF Duplicate, Undisturbed
  <1>6. ~(\E m \in interests, i \in Bolts, b \in BOOLEAN : BoltOnNack(i, m, b))
    BY <1>1 DEF BoltOnNack, Undisturbed
  <1>7. ASSUME NEW d \in datas, LoseData(d) PROVE FALSE
    <2>1. /\ losses' = IF losses < MaxLoss THEN losses + 1 ELSE losses
          /\ losses < MaxLoss \/ (d.to \in Bolts /\ pending[d.to][d.nonce] = 0)
          /\ retx' = retx /\ dups' = dups
      BY <1>7 DEF LoseData
    <2>2. ~(losses < MaxLoss) /\ losses = 0
      BY <1>1, <2>1 DEF Undisturbed
    <2>3. Undisturbed
      BY <2>1, <2>2 DEF Undisturbed
    <2> QED
      BY <2>1, <2>2, <2>3, AnswersWanted
  <1> QED
    BY <1>2, <1>3, <1>4, <1>5, <1>6, <1>7 DEF Disturb

LEMMA RoundStep ==
  TypeOK /\ TypeOK' /\ BoltInv /\ BoltInv' /\ (Undisturbed => RoundInv) /\ [Next]_vars
    => (Undisturbed => RoundInv)'
  <1> SUFFICES ASSUME TypeOK, TypeOK', BoltInv, BoltInv', Undisturbed => RoundInv,
                      [Next]_vars, Undisturbed'
               PROVE  RoundInv'
    BY DEF Undisturbed
  <1>1. CASE \E s \in Seqs : SendPacket(s)
    <2>1. Undisturbed
      BY <1>1 DEF SendPacket, bounds, Undisturbed
    <2> QED
      BY <1>1, <2>1, RoundSend
  <1>2. CASE Deliver
    <2>1. Undisturbed
      BY <1>2
      DEF Deliver, ProducerOnInterest, BoltOnInterest, OnMetadata, OnResult, BoltOnData,
          BoltForwardData, BoltTurnBack, bounds, Undisturbed
    <2> QED
      BY <1>2, <2>1, RoundMetadata, RoundResult, RoundInterest, RoundForward, RoundTurnBack,
         RoundProducer
      DEF Deliver, BoltOnData
  <1>3. CASE Disturb
    BY <1>3, NotDisturbed
  <1>4. CASE UNCHANGED vars
    <2>1. Undisturbed
      BY <1>4 DEF vars, bounds, Undisturbed
    <2> QED
      BY <1>4, <2>1, RoundSame
  <1> QED
    BY <1>1, <1>2, <1>3, <1>4 DEF Next

LEMMA RoundAlways == Spec => [](TypeOK /\ (Undisturbed => RoundInv))
  <1>1. Init => (Undisturbed => RoundInv)
    BY DEF Init, RoundInv, MessagesInv, AloneInv, RestInv, LoopInv
  <1> QED
    BY <1>1, RoundStep, TypeCorrect, BoltAlways, PTL DEF Spec

(* On a network that repeats, duplicates and loses nothing, the result accepted  *)
(* by SnakeConsumer::OnData is a bolt's, and no bolt that saw the metadata       *)
(* (SnakeBolt::processingData) was cheaper; with RttOpt off all bolts saw it,    *)
(* with local and producer the bolt next to the consumer, or to the producer,    *)
(* executed.                                                                     *)
THEOREM CheapestExecutes == Spec => [](Undisturbed => ExecutedAtCheapest)
  <1>1. TypeOK /\ RoundInv => ExecutedAtCheapest
    <2> SUFFICES ASSUME TypeOK, RoundInv, NEW s \in Seqs, answer[s] # NoAnswer
                 PROVE  Chosen(s, answer[s])
      BY DEF ExecutedAtCheapest, Chosen
    <2>1. s \notin waiting
      BY DEF RoundInv, RestInv
    <2> QED
      BY <2>1 DEF RoundInv, RestInv
  <1> QED
    BY <1>1, RoundAlways, PTL

(* On such a network SnakeProducer::repliedMetadataContiner is empty whenever    *)
(* every request was answered and nothing is under way.                          *)
THEOREM ProducerForgetsAll == Spec => [](Undisturbed => ProducerForgets)
  <1>1. TypeOK /\ RoundInv => ProducerForgets
    BY DEF TypeOK, RoundInv, RestInv, ProducerForgets
  <1> QED
    BY <1>1, RoundAlways, PTL

-----------------------------------------------------------------------------
(* How far a request is from its answer, on such a network: what Answered needs   *)
(* besides the fairness of the network.  A request that is waited for is in the   *)
(* network (InTransit), its message finds a receiver that takes it (Awaited), and *)
(* a delivery brings one request nearer to its answer and moves no other one      *)
(* (Advance).  Interests climb to the producer and Data comes down, twice; a bolt *)
(* that turns the metadata back only shortens the way.                            *)

\* The hops left to one message: two rounds without a marker, one with it.
LeftOfInterest(m) ==
  IF m.marker = NoMarker THEN 4 * Producer - m.to ELSE 2 * Producer - m.to
LeftOfData(d) == IF d.meta THEN 2 * Producer + d.to ELSE d.to

\* The hops left to the messages for s.
Left(s) ==
  {LeftOfInterest(m) : m \in {m \in interests : m.seq = s}}
    \cup {LeftOfData(d) : d \in {d \in datas : d.seq = s}}

\* A request that is waited for is carried by some message.
InTransit ==
  \A s \in waiting : (\E m \in interests : m.seq = s) \/ (\E d \in datas : d.seq = s)

\* Whoever a message is for takes it: no loop is suspected, no answer is too late.
Awaited ==
  /\ \A m \in interests : m.to = Producer \/ (m.to \in Bolts /\ ~Islooped(m.to, m.nonce))
  /\ \A d \in datas : d.to = Consumer \/ (d.to \in Bolts /\ pending[d.to][d.nonce] > 0)

\* A step brings s nearer to its answer.
Nearer(s) == Left(s) # {} /\ \A l \in Left(s) : \A k \in Left(s)' : k < l

\* A step sets no request back, and if it delivers a message, advances one.
Advance ==
  /\ \A t \in waiting : Left(t)' = Left(t) \/ Nearer(t)
  /\ Deliver => \E s \in waiting : Nearer(s)

\* A step that brings s from l hops to k and leaves the messages of the others.
LEMMA Hop ==
  ASSUME NEW s \in waiting, NEW l, Left(s) = {l},
         Left(s)' = {} \/ \E k : Left(s)' = {k} /\ k < l,
         \A t \in waiting \ {s} : Left(t)' = Left(t)
  PROVE  Advance
  <1>1. Nearer(s)
    BY DEF Nearer
  <1> QED
    BY <1>1 DEF Advance

LEMMA Others ==
  ASSUME NEW s,
         \A m : m.seq # s => (m \in interests' <=> m \in interests),
         \A d : d.seq # s => (d \in datas' <=> d \in datas),
         NEW t, t # s
  PROVE  Left(t)' = Left(t)
  <1>1. /\ {m \in interests' : m.seq = t} = {m \in interests : m.seq = t}
        /\ {d \in datas' : d.seq = t} = {d \in datas : d.seq = t}
    OBVIOUS
  <1> QED
    BY <1>1 DEF Left

\* The four ways a message is handed over: m0 or d0 taken, m1 or d1 sent.
LEMMA HopUp ==
  ASSUME AloneInv, AloneInv', NEW s \in waiting, NEW m0 \in interests, m0.seq = s,
         NEW m1, m1.seq = s, interests' = (interests \ {m0}) \cup {m1}, datas' = datas,
         LeftOfInterest(m1) < LeftOfInterest(m0)
  PROVE  Advance
  <1>1. Left(s) = {LeftOfInterest(m0)}
    <2>1. {m \in interests : m.seq = s} = {m0} /\ {d \in datas : d.seq = s} = {}
      BY DEF AloneInv
    <2> QED
      BY <2>1 DEF Left
  <1>2. Left(s)' = {LeftOfInterest(m1)}
    <2>1. m1 \in interests'
      OBVIOUS
    <2>2. {m \in interests' : m.seq = s} = {m1} /\ {d \in datas' : d.seq = s} = {}
      BY <2>1 DEF AloneInv
    <2> QED
      BY <2>2 DEF Left
  <1>3. \A t \in waiting \ {s} : Left(t)' = Left(t)
    BY Others
  <1> QED
    BY <1>1, <1>2, <1>3, Hop

LEMMA HopAtProducer ==
  ASSUME AloneInv, AloneInv', NEW s \in waiting, NEW m0 \in interests, m0.seq = s,
         NEW d1, d1.seq = s, interests' = interests \ {m0}, datas' = datas \cup {d1},
         LeftOfData(d1) < LeftOfInterest(m0)
  PROVE  Advance
  <1>1. Left(s) = {LeftOfInterest(m0)}
    <2>1. {m \in interests : m.seq = s} = {m0} /\ {d \in datas : d.seq = s} = {}
      BY DEF AloneInv
    <2> QED
      BY <2>1 DEF Left
  <1>2. Left(s)' = {LeftOfData(d1)}
    <2>1. d1 \in datas'
      OBVIOUS
    <2>2. {d \in datas' : d.seq = s} = {d1} /\ {m \in interests' : m.seq = s} = {}
      BY <2>1 DEF AloneInv
    <2> QED
      BY <2>2 DEF Left
  <1>3. \A t \in waiting \ {s} : Left(t)' = Left(t)
    BY Others
  <1> QED
    BY <1>1, <1>2, <1>3, Hop

LEMMA HopDown ==
  ASSUME AloneInv, AloneInv', NEW s \in waiting, NEW d0 \in datas, d0.seq = s,
         NEW d1, d1.seq = s, datas' = (datas \ {d0}) \cup {d1}, interests' = interests,
         LeftOfData(d1) < LeftOfData(d0)
  PROVE  Advance
  <1>1. Left(s) = {LeftOfData(d0)}
    <2>1. {d \in datas : d.seq = s} = {d0} /\ {m \in interests : m.seq = s} = {}
      BY DEF AloneInv
    <2> QED
      BY <2>1 DEF Left
  <1>2. Left(s)' = {LeftOfData(d1)}
    <2>1. d1 \in datas'
      OBVIOUS
    <2>2. {d \in datas' : d.seq = s} = {d1} /\ {m \in interests' : m.seq = s} = {}
      BY <2>1 DEF AloneInv
    <2> QED
      BY <2>2 DEF Left
  <1>3. \A t \in waiting \ {s} : Left(t)' = Left(t)
    BY Others
  <1> QED
    BY <1>1, <1>2, <1>3, Hop

LEMMA HopBack ==
  ASSUME AloneInv, AloneInv', NEW s \in waiting, NEW d0 \in datas, d0.seq = s,
         NEW m1, m1.seq = s, datas' = datas \ {d0}, interests' = interests \cup {m1},
         LeftOfInterest(m1) < LeftOfData(d0)
  PROVE  Advance
  <1>1. Left(s) = {LeftOfData(d0)}
    <2>1. {d \in datas : d.seq = s} = {d0} /\ {m \in interests : m.seq = s} = {}
      BY DEF AloneInv
    <2> QED
      BY <2>1 DEF Left
  <1>2. Left(s)' = {LeftOfInterest(m1)}
    <2>1. m1 \in interests'
      OBVIOUS
    <2>2. {m \in interests' : m.seq = s} = {m1} /\ {d \in datas' : d.seq = s} = {}
      BY <2>1 DEF AloneInv
    <2> QED
      BY <2>2 DEF Left
  <1>3. \A t \in waiting \ {s} : Left(t)' = Left(t)
    BY Others
  <1> QED
    BY <1>1, <1>2, <1>3, Hop

\* A request marked for a bolt has fewer hops left than one for metadata, wherever.
LEMMA MarkedIsNearer ==
  ASSUME NEW m \in Interest, NEW e, e.to = m.to + 1, m.to <= N,
         e.marker = m.marker \/ e.marker \in Bolts
  PROVE  LeftOfInterest(e) < LeftOfInterest(m)
  <1>1. m.to \in Nat /\ e.to \in Nat /\ N \in Nat
    BY SnakeAssumption DEF Interest, Producer
  <1>2. \A b \in Bolts : b # NoMarker
    BY DEF Bolts, NoMarker
  <1> QED
    BY <1>1, <1>2 DEF LeftOfInterest, Producer

\* A number that is asked for the first time moves no other one.
LEMMA SendAdvances ==
  ASSUME RoundInv, NEW s \in Seqs, SendPacket(s)
  PROVE  \A t \in waiting : Left(t)' = Left(t)
  <1>1. s \notin waiting
    BY DEF SendPacket, Scheduled
  <1>2. PICK m0 : m0.seq = s /\ interests' = interests \cup {m0} /\ datas' = datas
    <2> DEFINE m0 == [to |-> 1, nonce |-> nonces + 1, seq |-> s, marker |-> NoMarker]
    <2>1. m0.seq = s /\ interests' = interests \cup {m0} /\ datas' = datas
      BY DEF SendPacket, Express
    <2> QED
      BY <2>1
  <1> QED
    BY <1>1, <1>2, Others

\* An Interest taken by a bolt, or answered by the producer.
LEMMA InterestAdvances ==
  ASSUME TypeOK, RoundInv, AloneInv', NEW m0 \in interests,
         ProducerOnInterest(m0) \/ \E i \in Bolts : BoltOnInterest(i, m0)
  PROVE  Advance
  <1>1. /\ m0 \in Interest /\ InterestOk(m0) /\ m0.seq \in waiting /\ AloneInv
        /\ N \in Nat \ {0}
    BY SnakeAssumption
    DEF TypeOK, RoundInv, MessagesInv, InterestOk, Served
  <1>2. CASE ProducerOnInterest(m0)
    <2>0. PICK asked \in BOOLEAN : asked = IsRequestForMetadata(m0)
      BY DEF IsRequestForMetadata
    <2> DEFINE d == [to |-> N, nonce |-> m0.nonce, seq |-> m0.seq, meta |-> asked,
                     marker |-> m0.marker, minCost |-> NoCost, maxCost |-> NoCost,
                     executed |-> Unexecuted]
    <2>1. PICK d1 : d1 = d
      OBVIOUS
    <2>2. d1.seq = m0.seq /\ d1.meta = asked /\ d1.to = N
      BY <2>1
    <2>3. /\ interests' = interests \ {m0} /\ datas' = datas \cup {d1}
          /\ m0.to = Producer
      BY <1>2, <2>0, <2>1 DEF ProducerOnInterest
    <2>4. LeftOfData(d1) < LeftOfInterest(m0)
      <3>1. asked => m0.marker = NoMarker
        BY <2>0 DEF IsRequestForMetadata
      <3> QED
        BY <1>1, <2>2, <2>3, <3>1 DEF LeftOfData, LeftOfInterest, Producer
    <2> QED
      BY <1>1, <2>2, <2>3, <2>4, HopAtProducer
  <1>3. ASSUME NEW i \in Bolts, BoltOnInterest(i, m0) PROVE Advance
    <2>0. PICK m1 : m1 = [ProcessingInterest(i, m0) EXCEPT !.to = i + 1]
      OBVIOUS
    <2>1. m0.to = i /\ i \in Nat /\ i <= N /\ m0.nonce \notin loop[i]
      BY <1>1, <1>3 DEF BoltOnInterest, InterestOk, Trail, Bolts
    <2>2. interests' = (interests \ {m0}) \cup {m1} /\ datas' = datas
      BY <1>3, <2>0, <2>1 DEF BoltOnInterest, Islooped
    <2>3. m1.to = i + 1 /\ m1.seq = m0.seq /\ (m1.marker = m0.marker \/ m1.marker \in Bolts)
      <3>1. /\ ProcessingInterest(i, m0) \in Interest
            /\ ProcessingInterest(i, m0).seq = m0.seq
            /\ \/ ProcessingInterest(i, m0).marker = m0.marker
               \/ ProcessingInterest(i, m0).marker \in Bolts
        BY <1>1 DEF ProcessingInterest, Interest, Bolts
      <3> QED
        BY <2>0, <3>1 DEF Interest
    <2>4. LeftOfInterest(m1) < LeftOfInterest(m0)
      BY <1>1, <2>1, <2>3, MarkedIsNearer
    <2> QED
      BY <1>1, <2>2, <2>3, <2>4, HopUp
  <1> QED
    BY <1>2, <1>3

\* Data taken by the consumer, passed on by a bolt, or turned back by it.
LEMMA DataAdvances ==
  ASSUME TypeOK, RoundInv, AloneInv', NEW d0 \in datas,
         OnMetadata(d0) \/ OnResult(d0) \/ \E i \in Bolts : BoltOnData(i, d0)
  PROVE  Advance
  <1>1. /\ d0 \in Data /\ DataOk(d0) /\ d0.seq \in waiting /\ AloneInv
        /\ N \in Nat \ {0} /\ d0.seq \in Seqs
    BY SnakeAssumption DEF TypeOK, Data, RoundInv, MessagesInv, DataOk, Served
  <1>2. CASE OnMetadata(d0)
    <2>1. PICK m1 : m1 = [to |-> 1, nonce |-> nonces + 1, seq |-> d0.seq, marker |-> d0.marker]
      OBVIOUS
    <2>2. m1.seq = d0.seq /\ m1.to = 1 /\ m1.marker = d0.marker
      BY <2>1
    <2>3. /\ interests' = interests \cup {m1} /\ datas' = datas \ {d0}
          /\ d0.to = 0 /\ d0.meta
      BY <1>2, <2>1 DEF OnMetadata, Express, Consumer
    <2>4. d0.marker # NoMarker
      BY <1>1, <2>3 DEF DataOk, Collecting, Bolts, NoMarker
    <2>5. LeftOfInterest(m1) < LeftOfData(d0)
      BY <1>1, <2>2, <2>3, <2>4 DEF LeftOfData, LeftOfInterest, Producer
    <2> QED
      BY <1>1, <2>2, <2>3, <2>5, HopBack
  <1>3. CASE OnResult(d0)
    <2>1. interests' = interests /\ datas' = datas \ {d0}
      BY <1>3 DEF OnResult
    <2>2. Left(d0.seq) = {LeftOfData(d0)}
      <3>1. /\ {d \in datas : d.seq = d0.seq} = {d0}
            /\ {m \in interests : m.seq = d0.seq} = {}
        BY <1>1 DEF AloneInv
      <3> QED
        BY <3>1 DEF Left
    <2>3. Left(d0.seq)' = {}
      <3>1. /\ {d \in datas' : d.seq = d0.seq} = {}
            /\ {m \in interests' : m.seq = d0.seq} = {}
        BY <1>1, <2>1 DEF AloneInv
      <3> QED
        BY <3>1 DEF Left
    <2>4. \A t \in waiting \ {d0.seq} : Left(t)' = Left(t)
      BY <2>1, Others
    <2> QED
      BY <1>1, <2>2, <2>3, <2>4, Hop
  <1>4. ASSUME NEW i \in Bolts, BoltForwardData(i, d0) PROVE Advance
    <2>1. PICK d1 : d1 = [Process(i, d0) EXCEPT !.to = i - 1]
      OBVIOUS
    <2>2. d0.to = i /\ i \in Nat /\ interests' = interests /\ datas' = (datas \ {d0}) \cup {d1}
      BY <1>4, <2>1 DEF BoltForwardData, Bolts
    <2>3. d1.to = i - 1 /\ d1.seq = d0.seq /\ d1.meta = d0.meta
      BY <1>1, <2>1, <2>2, Processed
    <2>4. LeftOfData(d1) < LeftOfData(d0)
      BY <1>1, <2>2, <2>3 DEF LeftOfData, Producer
    <2> QED
      BY <1>1, <2>2, <2>3, <2>4, HopDown
  <1>5. ASSUME NEW i \in Bolts, BoltTurnBack(i, d0) PROVE Advance
    <2>1. PICK b : b = MarkMinCost(i, d0).marker
      OBVIOUS
    <2>2. PICK m1 : m1 = [to |-> i + 1, nonce |-> d0.nonce, seq |-> d0.seq, marker |-> b]
      OBVIOUS
    <2>3. m1.seq = d0.seq /\ m1.to = i + 1 /\ m1.marker = b
      BY <2>2
    <2>4. /\ d0.to = i /\ d0.meta /\ i \in Nat
          /\ interests' = interests \cup {m1} /\ datas' = datas \ {d0}
      BY <1>5, <2>1, <2>2 DEF BoltTurnBack, TurnsBack, Bolts
    <2>5. b # NoMarker
      BY <1>1, <2>1, <2>4, CheapestSoFar DEF DataOk, Bolts, NoMarker
    <2>6. LeftOfInterest(m1) < LeftOfData(d0)
      BY <1>1, <2>3, <2>4, <2>5 DEF LeftOfData, LeftOfInterest, Producer
    <2> QED
      BY <1>1, <2>3, <2>4, <2>6, HopBack
  <1> QED
    BY <1>2, <1>3, <1>4, <1>5 DEF BoltOnData

\* A step that leaves the network undisturbed.
LEMMA StepAdvances ==
  ASSUME TypeOK, Undisturbed => RoundInv, Undisturbed' => RoundInv', [Next]_vars, Undisturbed'
  PROVE  Advance
  <1>1. RoundInv' /\ ~Disturb
    BY NotDisturbed
  <1>2. Undisturbed
    BY <1>1
    DEF Next, SendPacket, Deliver, ProducerOnInterest, BoltOnInterest, OnMetadata, OnResult,
        BoltOnData, BoltForwardData, BoltTurnBack, vars, bounds, Undisturbed
  <1>3. CASE Deliver
    BY <1>1, <1>2, <1>3, InterestAdvances, DataAdvances DEF Deliver, RoundInv
  <1>4. CASE ~Deliver
    <2>1. \A t \in waiting : Left(t)' = Left(t)
      <3>1. CASE \E s \in Seqs : SendPacket(s)
        BY <1>2, <3>1, SendAdvances
      <3>2. CASE UNCHANGED vars
        BY <3>2 DEF vars, Left
      <3> QED
        BY <1>1, <1>4, <3>1, <3>2 DEF Next
    <2> QED
      BY <1>4, <2>1 DEF Advance
  <1> QED
    BY <1>3, <1>4

(* On a network that repeats, duplicates and loses nothing, every delivery brings *)
(* one awaited request nearer to its answer, and no step sets another one back:   *)
(* a bolt that turns metadata back (BoltTurnBack) starts no round that was over.  *)
THEOREM EveryDeliveryAdvances == Spec => [][Undisturbed' => Advance]_vars
  <1>1. TypeOK /\ (Undisturbed => RoundInv) /\ (Undisturbed => RoundInv)' /\ [Next]_vars
          => [Undisturbed' => Advance]_vars
    BY StepAdvances
  <1> QED
    BY <1>1, RoundAlways, PTL DEF Spec

\* A step that replaces the message of s, or ends the wait for it.
LEMMA Replaced ==
  ASSUME InTransit, NEW s,
         \A m \in interests : m.seq # s => m \in interests',
         \A d \in datas : d.seq # s => d \in datas',
         waiting' \subseteq waiting \cup {s},
         \/ s \notin waiting'
         \/ \E m \in interests' : m.seq = s
         \/ \E d \in datas' : d.seq = s
  PROVE  InTransit'
  <1> SUFFICES ASSUME NEW t \in waiting', t # s
               PROVE  (\E m \in interests' : m.seq = t) \/ (\E d \in datas' : d.seq = t)
    BY DEF InTransit
  <1> QED
    BY DEF InTransit

LEMMA InterestReplaced ==
  ASSUME TypeOK, RoundInv, InTransit, NEW m0 \in interests,
         ProducerOnInterest(m0) \/ \E i \in Bolts : BoltOnInterest(i, m0)
  PROVE  InTransit'
  <1>1. m0 \in Interest /\ InterestOk(m0)
    BY DEF TypeOK, RoundInv, MessagesInv
  <1>2. waiting' = waiting /\ interests \ {m0} \subseteq interests' /\ datas \subseteq datas'
    BY DEF ProducerOnInterest, BoltOnInterest, consumerVars
  <1>3. CASE ProducerOnInterest(m0)
    <2>1. PICK d1 \in datas' : d1.seq = m0.seq
      <3>1. PICK asked \in BOOLEAN : asked = IsRequestForMetadata(m0)
        BY DEF IsRequestForMetadata
      <3> DEFINE d == [to |-> N, nonce |-> m0.nonce, seq |-> m0.seq, meta |-> asked,
                       marker |-> m0.marker, minCost |-> NoCost, maxCost |-> NoCost,
                       executed |-> Unexecuted]
      <3>2. d.seq = m0.seq /\ d \in datas'
        BY <1>3, <3>1 DEF ProducerOnInterest
      <3> QED
        BY <3>2
    <2> QED
      BY <1>2, <2>1, Replaced
  <1>4. ASSUME NEW i \in Bolts, BoltOnInterest(i, m0) PROVE InTransit'
    <2>1. PICK m1 : m1 = [ProcessingInterest(i, m0) EXCEPT !.to = i + 1]
      OBVIOUS
    <2>2. ~Islooped(i, m0.nonce)
      BY <1>1, <1>4 DEF BoltOnInterest, Islooped, InterestOk, Trail, Bolts
    <2>3. m1 \in interests'
      BY <1>4, <2>1, <2>2 DEF BoltOnInterest
    <2>4. m1.seq = m0.seq
      BY <1>1, <2>1 DEF ProcessingInterest, Interest
    <2> QED
      BY <1>2, <2>3, <2>4, Replaced
  <1> QED
    BY <1>3, <1>4

LEMMA DataReplaced ==
  ASSUME TypeOK, RoundInv, InTransit, NEW d0 \in datas,
         OnMetadata(d0) \/ OnResult(d0) \/ \E i \in Bolts : BoltOnData(i, d0)
  PROVE  InTransit'
  <1>1. d0 \in Data
    BY DEF TypeOK
  <1>2. /\ waiting' \subseteq waiting
        /\ interests \subseteq interests' /\ datas \ {d0} \subseteq datas'
    BY DEF OnMetadata, OnResult, Express, BoltOnData, BoltForwardData, BoltTurnBack, consumerVars
  <1>3. CASE OnMetadata(d0)
    <2>1. \E m \in interests' : m.seq = d0.seq
      <3> DEFINE m1 == [to |-> 1, nonce |-> nonces + 1, seq |-> d0.seq, marker |-> d0.marker]
      <3>1. m1.seq = d0.seq /\ m1 \in interests'
        BY <1>3 DEF OnMetadata, Express
      <3> QED
        BY <3>1
    <2> QED
      BY <1>2, <2>1, Replaced
  <1>4. CASE OnResult(d0)
    <2>1. d0.seq \notin waiting'
      BY <1>4 DEF OnResult
    <2> QED
      BY <1>2, <2>1, Replaced
  <1>5. ASSUME NEW i \in Bolts, BoltForwardData(i, d0) PROVE InTransit'
    <2>1. PICK d1 : d1 = [Process(i, d0) EXCEPT !.to = i - 1]
      OBVIOUS
    <2>2. d1 \in datas' /\ d0.to = i
      BY <1>5, <2>1 DEF BoltForwardData
    <2>3. d1.seq = d0.seq
      BY <1>1, <2>1, <2>2, Processed
    <2> QED
      BY <1>2, <2>2, <2>3, Replaced
  <1>6. ASSUME NEW i \in Bolts, BoltTurnBack(i, d0) PROVE InTransit'
    <2>1. \E m \in interests' : m.seq = d0.seq
      <3> DEFINE m1 == [to |-> i + 1, nonce |-> d0.nonce, seq |-> d0.seq,
                        marker |-> MarkMinCost(i, d0).marker]
      <3>1. m1.seq = d0.seq /\ m1 \in interests'
        BY <1>6 DEF BoltTurnBack
      <3> QED
        BY <3>1
    <2> QED
      BY <1>2, <2>1, Replaced
  <1> QED
    BY <1>3, <1>4, <1>5, <1>6 DEF BoltOnData

LEMMA InTransitStep ==
  ASSUME TypeOK, Undisturbed => RoundInv /\ InTransit, [Next]_vars, Undisturbed'
  PROVE  InTransit'
  <1>1. ~Disturb
    BY NotDisturbed
  <1>2. Undisturbed
    BY <1>1
    DEF Next, SendPacket, Deliver, ProducerOnInterest, BoltOnInterest, OnMetadata, OnResult,
        BoltOnData, BoltForwardData, BoltTurnBack, vars, bounds, Undisturbed
  <1>3. ASSUME NEW s \in Seqs, SendPacket(s) PROVE InTransit'
    <2> DEFINE m0 == [to |-> 1, nonce |-> nonces + 1, seq |-> s, marker |-> NoMarker]
    <2>1. m0.seq = s /\ m0 \in interests'
      BY <1>3 DEF SendPacket, Express
    <2>2. waiting' = waiting \cup {s} /\ interests \subseteq interests' /\ datas' = datas
      BY <1>3 DEF SendPacket, Express
    <2> HIDE DEF m0
    <2> QED
      BY <1>2, <2>1, <2>2, Replaced
  <1>4. CASE Deliver
    BY <1>2, <1>4, InterestReplaced, DataReplaced DEF Deliver
  <1>5. CASE UNCHANGED vars
    BY <1>2, <1>5 DEF InTransit, vars, consumerVars
  <1> QED
    BY <1>1, <1>3, <1>4, <1>5 DEF Next

(* On such a network a request that SnakeConsumer waits for is always under way,  *)
(* in a message that its receiver takes: no bolt drops the Interest as a loop     *)
(* (Islooped, although a turned back request is expressed twice under one nonce), *)
(* and the Data finds the Interest it answers still pending.                      *)
THEOREM AlwaysUnderWay == Spec => [](Undisturbed => InTransit /\ Awaited)
  <1>1. Init => (Undisturbed => InTransit)
    BY DEF Init, InTransit
  <1>2. TypeOK /\ (Undisturbed => RoundInv) /\ (Undisturbed => InTransit) /\ [Next]_vars
          => (Undisturbed => InTransit)'
    BY InTransitStep
  <1>3. TypeOK /\ RoundInv => Awaited
    <2> SUFFICES ASSUME TypeOK, RoundInv PROVE Awaited
      OBVIOUS
    <2>1. N \in Nat \ {0}
      BY SnakeAssumption
    <2>2. ASSUME NEW m \in interests
          PROVE  m.to = Producer \/ (m.to \in Bolts /\ ~Islooped(m.to, m.nonce))
      <3>1. m.to \in 1 .. Producer /\ Trail(m.nonce, m.to)
        BY DEF TypeOK, Interest, RoundInv, MessagesInv, InterestOk
      <3>2. CASE m.to = Producer
        BY <3>2
      <3>3. CASE m.to # Producer
        <4>1. m.to \in Bolts
          BY <2>1, <3>1, <3>3 DEF Bolts, Producer
        <4> QED
          BY <3>1, <4>1 DEF Trail, Islooped, Bolts
      <3> QED
        BY <3>2, <3>3
    <2>3. ASSUME NEW d \in datas
          PROVE  d.to = Consumer \/ (d.to \in Bolts /\ pending[d.to][d.nonce] > 0)
      <3>1. d.to \in 0 .. N /\ d.nonce \in Nonces
        BY DEF TypeOK, Data
      <3>2. d.to = Consumer \/ d.to \in Bolts
        BY <2>1, <3>1 DEF Consumer, Bolts
      <3>3. d.to \in Bolts => pending[d.to][d.nonce] \in Nat /\ pending[d.to][d.nonce] # 0
        BY <3>1, AnswersWanted DEF TypeOK
      <3> QED
        BY <3>2, <3>3
    <2> QED
      BY <2>2, <2>3 DEF Awaited
  <1> QED
    BY <1>1, <1>2, <1>3, RoundAlways, PTL DEF Spec
=============================================================================
