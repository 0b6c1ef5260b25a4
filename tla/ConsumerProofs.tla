--------------------------- MODULE ConsumerProofs ---------------------------
(***************************************************************************)
(* Proofs about module Consumer, for every value of its constants: any     *)
(* range of sequence numbers, any timers, any number of answers in flight. *)
(***************************************************************************)
EXTENDS Consumer, FiniteSetTheorems, TLAPS

\* A sequence number that was not sent has no trace of having been sent, and a
\* history entry that may still be measured belongs to a sequence number that
\* was sent once and has not timed out.
Unsent == \A s \in Seqs : s >= seq => traced[s] = 0
FreshIsFirst ==
  \A s \in Seqs : history[s] = "fresh" => s \in timeouts /\ retxCounts[s] = 1

\* The inductive invariant behind the safety theorems.
IInv == TypeOK /\ NothingLost /\ TracedOnce /\ Unsent /\ FreshIsFirst

\* MinOf returns one of its arguments and is below both.
LEMMA MinOfBounds ==
  ASSUME NEW a \in Int, NEW b \in Int
  PROVE  MinOf(a, b) \in {a, b} /\ MinOf(a, b) <= a /\ MinOf(a, b) <= b
BY DEF MinOf

\* IncreaseMultiplier keeps the multiplier between 1 and its maximum.
LEMMA IncreaseMultiplierType ==
  ASSUME NEW n \in Nat, ConsumerAssumption, backoff \in 0 .. MaxBackoff
  PROVE  IncreaseMultiplier(n) \in 0 .. MaxBackoff
BY DEF IncreaseMultiplier, MinOf, ConsumerAssumption

\* SentSeq returns a history.
LEMMA SentSeqType ==
  ASSUME NEW h \in [Seqs -> {"none", "fresh", "retx"}], NEW S
  PROVE  SentSeq(h, S) \in [Seqs -> {"none", "fresh", "retx"}]
BY DEF SentSeq

\* Any set of sequence numbers is finite.
LEMMA SeqsFinite ==
  ASSUME ConsumerAssumption, NEW E, E \subseteq Seqs
  PROVE  IsFiniteSet(E) /\ Cardinality(E) \in Nat
<1>1. StartSeq \in Int /\ MaxSeq - 1 \in Int
  BY DEF ConsumerAssumption
<1>2. IsFiniteSet(Seqs)
  BY <1>1, FS_Interval DEF Seqs
<1> QED
  BY <1>2, FS_Subset, FS_CardinalityType

\* One OnData reports the delay of a sequence number exactly once if it is
\* waited for, and not at all otherwise, however often its body is repeated.
LEMMA DelayTracesValue ==
  ASSUME ConsumerAssumption, NEW s
  PROVE  DelayTraces(s) = IF s \in fullDelay THEN 1 ELSE 0
<1> DEFINE P == {p \in 1 .. Passes : s \in FullDelayAt(s, p)}
<1>1. CASE s \in fullDelay
  <2>1. P = {1}
    BY <1>1 DEF FullDelayAt, ConsumerAssumption
  <2> QED
    BY <2>1, <1>1, FS_Singleton DEF DelayTraces
<1>2. CASE s \notin fullDelay
  <2>1. P = {}
    BY <1>2 DEF FullDelayAt
  <2> QED
    BY <2>1, <1>2, FS_EmptySet DEF DelayTraces
<1> QED
  BY <1>1, <1>2

\* ScheduleNextPacket leaves a send event behind.
LEMMA ScheduleNextPacketEffect ==
  ASSUME ConsumerAssumption, TypeOK, NEW pending \in BOOLEAN,
         pending => sendDue # Idle, ScheduleNextPacket(pending)
  PROVE  /\ firstTime' \in BOOLEAN
         /\ sendDue' \in Nat \cup {Idle}
         /\ sendDue' # Idle
<1>1. firstTime' \in BOOLEAN
  <2>1. firstTime' = FALSE \/ firstTime' = firstTime
    BY DEF ScheduleNextPacket
  <2>2. firstTime \in BOOLEAN
    BY DEF TypeOK
  <2> QED
    BY <2>1, <2>2
<1>2. \/ sendDue' = 0
      \/ sendDue' = sendDue /\ sendDue # Idle
      \/ sendDue' \in Gaps
  BY Zenon DEF ScheduleNextPacket
<1>3. sendDue \in Nat \cup {Idle} /\ Gaps \subseteq Nat
  BY DEF TypeOK, ConsumerAssumption
<1>4. sendDue' \in Nat \cup {Idle} /\ sendDue' # Idle
  <2>1. -1 \notin Nat
    OBVIOUS
  <2>2. CASE sendDue' = 0
    BY <2>2 DEF Idle
  <2>3. CASE sendDue' = sendDue /\ sendDue # Idle
    BY <1>3, <2>3
  <2>4. CASE sendDue' \in Gaps
    <3>1. sendDue' \in Nat
      BY <1>3, <2>4
    <3> QED
      BY <2>1, <3>1 DEF Idle
  <2> QED
    BY <1>2, <2>2, <2>3, <2>4
<1> QED
  BY <1>1, <1>4

-----------------------------------------------------------------------------
(* Type correctness. *)

LEMMA TypeInit == ConsumerAssumption /\ Init => TypeOK
BY DEF ConsumerAssumption, Init, TypeOK, Seqs, Idle

LEMMA TypeStep == ConsumerAssumption /\ TypeOK /\ [Next]_vars => TypeOK'
<1> SUFFICES ASSUME ConsumerAssumption, TypeOK, [Next]_vars PROVE TypeOK'
  OBVIOUS
<1> USE DEF TypeOK, ackVars, rttVars
<1>1. CASE StartApplication
  <2>1. sendDue' \in Nat \cup {Idle} /\ firstTime' \in BOOLEAN
    BY <1>1, ScheduleNextPacketEffect DEF StartApplication
  <2> QED
    BY <1>1, <2>1 DEF StartApplication
<1>2. CASE StopApplication
  BY <1>2 DEF StopApplication
<1>3. CASE SendPacket
  <2>1. ASSUME NEW s \in Seqs, SendInterest(s) PROVE TypeOK'
    <3>1. sendDue' \in Nat \cup {Idle} /\ firstTime' \in BOOLEAN
      BY <2>1, ScheduleNextPacketEffect DEF SendInterest
    <3>2. history' \in [Seqs -> {"none", "fresh", "retx"}]
      BY <2>1, SentSeqType DEF SendInterest, WillSendOutInterest
    <3>3. /\ MinOf(2, retxCounts[s] + 1) \in 0 .. 2
          /\ MinOf(MaxCopies, wire[s] + 1) \in 0 .. MaxCopies
      BY DEF MinOf, ConsumerAssumption
    <3>4. retxCounts' \in [Seqs -> 0 .. 2] /\ wire' \in [Seqs -> 0 .. MaxCopies]
      BY <2>1, <3>3 DEF SendInterest, WillSendOutInterest
    <3>5. /\ timeouts' \subseteq Seqs /\ retxSeqs' \subseteq Seqs
          /\ fullDelay' \subseteq Seqs /\ lastDelay' \subseteq Seqs
          /\ seq' \in Nat /\ age' \in [Seqs -> Nat]
      BY <2>1 DEF SendInterest, WillSendOutInterest
    <3>6. UNCHANGED <<phase, retxDue, traced, backoff, nSamples>>
      BY <2>1 DEF SendInterest, WillSendOutInterest
    <3> QED
      BY <3>1, <3>2, <3>4, <3>5, <3>6
  <2>2. CASE sendDue' = Idle /\ UNCHANGED <<phase, firstTime, seq, retxDue, ackVars,
                                            rttVars, wire, traced>>
    BY <2>2
  <2> QED
    BY <1>3, <2>1, <2>2 DEF SendPacket
<1>4. CASE CheckRetxTimeout
  <2> PICK rto \in RetransmitTimeout :
        LET expired == {s \in timeouts : age[s] >= rto}
        IN  /\ timeouts' = timeouts \ expired
            /\ age' = [s \in Seqs |-> IF s \in expired THEN 0 ELSE age[s]]
            /\ OnTimeout(expired)
    BY <1>4 DEF CheckRetxTimeout
  <2> DEFINE expired == {s \in timeouts : age[s] >= rto}
  <2>1. expired \subseteq Seqs /\ Cardinality(expired) \in Nat
    BY SeqsFinite
  <2>2. OnTimeout(expired)
    OBVIOUS
  <2>3. backoff' \in 0 .. MaxBackoff
    BY <2>1, <2>2, IncreaseMultiplierType DEF OnTimeout
  <2>4. history' \in [Seqs -> {"none", "fresh", "retx"}]
    BY <2>2, SentSeqType DEF OnTimeout
  <2>5. sendDue' \in Nat \cup {Idle} /\ firstTime' \in BOOLEAN
    BY <2>2, ScheduleNextPacketEffect DEF OnTimeout
  <2>6. age' \in [Seqs -> Nat] /\ timeouts' \subseteq Seqs /\ retxDue' \in 0 .. RetxTimer
    BY <1>4 DEF CheckRetxTimeout, ConsumerAssumption
  <2>7. retxSeqs' \subseteq Seqs
    BY <2>1, <2>2 DEF OnTimeout, QueueForRetx
  <2>8. nSamples' \in Nat
    BY <2>2 DEF OnTimeout
  <2> QED
    BY <1>4, <2>3, <2>4, <2>5, <2>6, <2>7, <2>8 DEF CheckRetxTimeout
<1>5. ASSUME NEW s \in Seqs, OnData(s) PROVE TypeOK'
  <2>1. DelayTraces(s) \in Nat
    BY DelayTracesValue
  <2>2. CASE Acknowledge(s) /\ UNCHANGED phase
    BY <1>5, <2>1, <2>2 DEF OnData, Acknowledge, AckSeq, ConsumerAssumption
  <2>3. CASE UNCHANGED <<ackVars, rttVars, traced>>
    BY <1>5, <2>3 DEF OnData
  <2> QED
    BY <1>5, <2>2, <2>3 DEF OnData
<1>6. ASSUME NEW s \in Seqs, LoseOrNack(s) PROVE TypeOK'
  BY <1>6 DEF LoseOrNack
<1>7. CASE Tick
  BY <1>7 DEF Tick, Idle
<1>8. CASE UNCHANGED vars
  BY <1>8 DEF vars
<1> QED
  BY <1>1, <1>2, <1>3, <1>4, <1>5, <1>6, <1>7, <1>8 DEF Next, Network

\* Every variable keeps its type, for every value of the constants.
THEOREM TypeCorrect == Spec => []TypeOK
<1>1. ConsumerAssumption
  BY ConsumerAssumption
<1> QED
  BY <1>1, TypeInit, TypeStep, PTL DEF Spec

-----------------------------------------------------------------------------
(* No sequence number is lost, and each delay is reported once. *)

LEMMA SafetyInit == ConsumerAssumption /\ Init => IInv
<1> SUFFICES ASSUME ConsumerAssumption, Init PROVE IInv
  OBVIOUS
<1>1. TypeOK
  BY TypeInit
<1>2. \A s \in Seqs : s \in Int /\ ~(s < seq)
  BY DEF Seqs, Init, ConsumerAssumption
<1>3. Unanswered = {}
  BY <1>2 DEF Unanswered
<1>4. NothingLost
  BY <1>3 DEF NothingLost, Init
<1>5. TracedOnce /\ Unsent /\ FreshIsFirst
  BY DEF TracedOnce, Unsent, FreshIsFirst, Init
<1> QED
  BY <1>1, <1>4, <1>5 DEF IInv

\* One transmission: of the smallest number to send again, or of a fresh one.
LEMMA SendInterestStep ==
  ASSUME ConsumerAssumption, IInv, NEW s \in Seqs, SendInterest(s)
  PROVE  NothingLost' /\ TracedOnce' /\ Unsent' /\ FreshIsFirst'
<1> USE DEF IInv, TypeOK
<1>1. Seqs \subseteq Int /\ seq \in Int
  BY DEF Seqs, ConsumerAssumption
<1>2. /\ timeouts' = timeouts \cup {s} /\ retxSeqs' = retxSeqs \ {s}
      /\ fullDelay' = fullDelay \cup {s} /\ lastDelay' = lastDelay \cup {s}
      /\ retxCounts' = [retxCounts EXCEPT ![s] = MinOf(2, @ + 1)]
      /\ history' = SentSeq(history, {s})
      /\ traced' = traced
  BY DEF SendInterest, WillSendOutInterest
<1>3. /\ retxCounts'[s] > 0
      /\ retxCounts[s] = 0 => retxCounts'[s] = 1
      /\ \A t \in Seqs \ {s} : retxCounts'[t] = retxCounts[t]
  BY <1>2 DEF MinOf
<1>4. /\ history'[s] = IF history[s] = "none" THEN "fresh" ELSE "retx"
      /\ \A t \in Seqs \ {s} : history'[t] = history[t]
  BY <1>2 DEF SentSeq
<1>5. Unanswered' = Unanswered \cup {s} /\ Unsent'
  <2>1. CASE retxSeqs # {}
    <3>1. s \in retxSeqs /\ seq' = seq
      BY <2>1 DEF SendInterest, NextSeq
    <3>2. s \in Unanswered
      BY <3>1 DEF NothingLost
    <3> QED
      BY <1>2, <3>1, <3>2 DEF Unanswered, Unsent
  <2>2. CASE retxSeqs = {}
    <3>1. s = seq /\ seq' = seq + 1
      BY <2>2 DEF SendInterest, NextSeq
    <3>2. traced[s] = 0
      BY <1>1, <3>1 DEF Unsent
    <3>3. \A t \in Seqs : t < seq' <=> (t < seq \/ t = s)
      BY <1>1, <3>1
    <3>4. Unsent'
      BY <1>1, <1>2, <3>1 DEF Unsent
    <3> QED
      BY <1>2, <3>2, <3>3, <3>4 DEF Unanswered
  <2> QED
    BY <2>1, <2>2
<1>6. s \in Unanswered <=> s \in timeouts \cup retxSeqs
  BY DEF NothingLost
<1>7. s \notin timeouts
  <2>1. CASE retxSeqs # {}
    BY <2>1 DEF SendInterest, NextSeq, NothingLost
  <2>2. CASE retxSeqs = {}
    BY <2>2, <1>1, <1>6 DEF SendInterest, NextSeq, Unanswered
  <2> QED
    BY <2>1, <2>2
<1>8. NothingLost'
  <2>1. timeouts' \cap retxSeqs' = {} /\ timeouts' \cup retxSeqs' = Unanswered'
    BY <1>2, <1>5 DEF NothingLost
  <2>2. fullDelay' = Unanswered' /\ lastDelay' = Unanswered'
    BY <1>2, <1>5 DEF NothingLost
  <2>3. \A t \in Seqs : t \in Unanswered' <=> retxCounts'[t] > 0
    BY <1>3, <1>5 DEF NothingLost
  <2>4. \A t \in Seqs : t \in Unanswered' <=> history'[t] # "none"
    BY <1>4, <1>5 DEF NothingLost
  <2> QED
    BY <2>1, <2>2, <2>3, <2>4 DEF NothingLost
<1>9. TracedOnce'
  BY <1>2 DEF TracedOnce
<1>10. FreshIsFirst'
  <2>1. ASSUME NEW t \in Seqs \ {s}, history'[t] = "fresh"
        PROVE  t \in timeouts' /\ retxCounts'[t] = 1
    BY <1>2, <1>3, <1>4, <2>1 DEF FreshIsFirst
  <2>2. ASSUME history'[s] = "fresh"
        PROVE  s \in timeouts' /\ retxCounts'[s] = 1
    <3>1. history[s] = "none"
      BY <1>4, <2>2
    <3>2. ~(retxCounts[s] > 0)
      BY <3>1 DEF NothingLost
    <3> QED
      BY <1>2, <1>3, <3>2
  <2> QED
    BY <2>1, <2>2 DEF FreshIsFirst
<1> QED
  BY <1>5, <1>8, <1>9, <1>10

\* Timeouts move sequence numbers from m_seqTimeouts to m_retxSeqs.
LEMMA CheckRetxTimeoutStep ==
  ASSUME ConsumerAssumption, IInv, CheckRetxTimeout
  PROVE  NothingLost' /\ TracedOnce' /\ Unsent' /\ FreshIsFirst'
<1> USE DEF IInv, TypeOK
<1> PICK rto \in RetransmitTimeout :
      LET expired == {s \in timeouts : age[s] >= rto}
      IN  /\ timeouts' = timeouts \ expired
          /\ age' = [s \in Seqs |-> IF s \in expired THEN 0 ELSE age[s]]
          /\ OnTimeout(expired)
  BY DEF CheckRetxTimeout
<1> DEFINE E == {s \in timeouts : age[s] >= rto}
<1>1. E \subseteq timeouts /\ timeouts' = timeouts \ E
  OBVIOUS
<1>2. retxSeqs' = retxSeqs \cup E /\ history' = SentSeq(history, E)
  BY DEF OnTimeout, QueueForRetx
<1>3. UNCHANGED <<seq, fullDelay, lastDelay, retxCounts, traced>>
  BY DEF CheckRetxTimeout
<1> HIDE DEF E
<1>4. Unanswered' = Unanswered
  BY <1>3 DEF Unanswered
<1>5. \A s \in Seqs : history'[s] = IF s \notin E THEN history[s]
                                    ELSE IF history[s] = "none" THEN "fresh" ELSE "retx"
  BY <1>2 DEF SentSeq
<1>6. \A s \in E : history[s] # "none"
  BY <1>1 DEF NothingLost
<1>7. NothingLost'
  BY <1>1, <1>2, <1>3, <1>4, <1>5, <1>6 DEF NothingLost
<1>8. FreshIsFirst'
  <2>1. ASSUME NEW s \in Seqs, history'[s] = "fresh"
        PROVE  s \notin E /\ history[s] = "fresh"
    BY <1>5, <1>6, <2>1
  <2> QED
    BY <1>1, <1>3, <2>1 DEF FreshIsFirst
<1> QED
  BY <1>3, <1>7, <1>8 DEF TracedOnce, Unsent

\* An accepted Data removes its sequence number from every container at once.
LEMMA AcknowledgeStep ==
  ASSUME ConsumerAssumption, IInv, NEW s \in Seqs, Acknowledge(s), UNCHANGED seq
  PROVE  NothingLost' /\ TracedOnce' /\ Unsent' /\ FreshIsFirst'
<1> USE DEF IInv, TypeOK
<1>1. /\ timeouts' = timeouts \ {s} /\ retxSeqs' = retxSeqs \ {s}
      /\ fullDelay' = fullDelay \ {s} /\ lastDelay' = lastDelay \ {s}
      /\ retxCounts' = [retxCounts EXCEPT ![s] = 0]
      /\ history' = [history EXCEPT ![s] = "none"]
  BY DEF Acknowledge, AckSeq
<1>2. traced' = [traced EXCEPT ![s] = IF s \in fullDelay THEN @ + 1 ELSE @]
  <2>1. traced' = [traced EXCEPT ![s] = @ + DelayTraces(s)]
    BY DEF Acknowledge
  <2>2. CASE s \in fullDelay
    <3>1. DelayTraces(s) = 1
      BY <2>2, DelayTracesValue
    <3> QED
      BY <2>1, <2>2, <3>1
  <2>3. CASE s \notin fullDelay
    <3>1. DelayTraces(s) = 0
      BY <2>3, DelayTracesValue
    <3>2. traced[s] \in Nat /\ traced[s] + 0 = traced[s]
      OBVIOUS
    <3> QED
      BY <2>1, <2>3, <3>1, <3>2
  <2> QED
    BY <2>2, <2>3
<1>3. s \in fullDelay <=> (s < seq /\ traced[s] = 0)
  BY DEF NothingLost, Unanswered
<1>4. Unanswered' = Unanswered \ {s}
  BY <1>2, <1>3 DEF Unanswered
<1>5. NothingLost'
  BY <1>1, <1>4 DEF NothingLost
<1>6. TracedOnce'
  BY <1>2, <1>3 DEF TracedOnce
<1>7. Unsent'
  <2>1. s >= seq => s \notin fullDelay
    BY <1>3 DEF Seqs, ConsumerAssumption
  <2> QED
    BY <1>2, <2>1 DEF Unsent
<1>8. FreshIsFirst'
  BY <1>1 DEF FreshIsFirst
<1> QED
  BY <1>5, <1>6, <1>7, <1>8

LEMMA SafetyStep == ConsumerAssumption /\ IInv /\ [Next]_vars => IInv'
<1> SUFFICES ASSUME ConsumerAssumption, IInv, [Next]_vars PROVE IInv'
  OBVIOUS
<1>1. TypeOK'
  BY TypeStep DEF IInv
<1> DEFINE Others == NothingLost' /\ TracedOnce' /\ Unsent' /\ FreshIsFirst'
           Same == /\ seq' = seq /\ retxSeqs' = retxSeqs /\ timeouts' = timeouts
                   /\ fullDelay' = fullDelay /\ lastDelay' = lastDelay
                   /\ retxCounts' = retxCounts /\ history' = history
                   /\ traced' = traced
<1>2. ASSUME Same PROVE Others
  BY <1>2 DEF IInv, NothingLost, TracedOnce, Unsent, FreshIsFirst, Unanswered
<1>3. StartApplication => Same
  BY DEF StartApplication, ackVars, rttVars
<1>4. StopApplication => Same
  BY DEF StopApplication, ackVars, rttVars
<1>5. SendPacket => Same \/ \E s \in Seqs : SendInterest(s)
  BY DEF SendPacket, ackVars, rttVars
<1>6. CheckRetxTimeout => Others
  BY CheckRetxTimeoutStep
<1>7. ASSUME NEW s \in Seqs, OnData(s)
      PROVE  Same \/ (Acknowledge(s) /\ UNCHANGED seq)
  BY <1>7 DEF OnData, ackVars, rttVars
<1>8. \A s \in Seqs : LoseOrNack(s) => Same
  BY DEF LoseOrNack, ackVars, rttVars
<1>9. Tick => Same
  BY DEF Tick, rttVars
<1>10. UNCHANGED vars => Same
  BY DEF vars, ackVars, rttVars
<1> HIDE DEF Same, Others
<1>11. ASSUME NEW s \in Seqs, SendInterest(s) PROVE Others
  BY <1>11, SendInterestStep DEF Others
<1>12. ASSUME NEW s \in Seqs, OnData(s) PROVE Others
  BY <1>2, <1>7, <1>12, AcknowledgeStep DEF Others
<1>13. Others
  BY <1>2, <1>3, <1>4, <1>5, <1>6, <1>8, <1>9, <1>10, <1>11, <1>12 DEF Next, Network
<1> QED
  BY <1>1, <1>13 DEF IInv, Others

LEMMA IInvCorrect == Spec => []IInv
<1>1. ConsumerAssumption
  BY ConsumerAssumption
<1> QED
  BY <1>1, SafetyInit, SafetyStep, PTL DEF Spec

\* The containers of Consumer always agree on which sequence numbers are
\* unanswered, and each of those waits for a timeout or for retransmission.
THEOREM NothingIsLost == Spec => []NothingLost
<1>1. IInv => NothingLost
  BY DEF IInv
<1> QED
  BY <1>1, IInvCorrect, PTL

\* The delay of a sequence number is reported at most once, also where a
\* subclass repeats OnData's body and where Data is delivered twice.
THEOREM DelayTracedOnce == Spec => []TracedOnce
<1>1. IInv => TracedOnce
  BY DEF IInv
<1> QED
  BY <1>1, IInvCorrect, PTL

-----------------------------------------------------------------------------
(* The chain of send events, timeouts on time, Karn's rule. *)

LEMMA NoStallStep ==
  ConsumerAssumption /\ TypeOK /\ NoStall /\ [Next]_vars => NoStall'
<1> SUFFICES ASSUME ConsumerAssumption, TypeOK, NoStall, [Next]_vars PROVE NoStall'
  OBVIOUS
<1>1. StartApplication => NoStall'
  BY ScheduleNextPacketEffect DEF StartApplication, NoStall
<1>2. StopApplication => NoStall'
  BY DEF StopApplication, NoStall, Active
<1>3. SendPacket => NoStall'
  <2>1. ASSUME NEW s \in Seqs, SendInterest(s) PROVE sendDue' # Idle
    BY <2>1, ScheduleNextPacketEffect DEF SendInterest
  <2>2. ASSUME UNCHANGED <<phase, seq, retxSeqs>>,
               ~Active \/ (retxSeqs = {} /\ seq >= MaxSeq)
        PROVE  ~(Active' /\ (retxSeqs' # {} \/ seq' < MaxSeq))
    BY <2>2 DEF Active, TypeOK, ConsumerAssumption
  <2> QED
    BY <2>1, <2>2 DEF SendPacket, NoStall, ackVars
<1>4. CheckRetxTimeout => NoStall'
  <2> SUFFICES ASSUME CheckRetxTimeout PROVE NoStall'
    OBVIOUS
  <2> PICK rto \in RetransmitTimeout : OnTimeout({s \in timeouts : age[s] >= rto})
    BY DEF CheckRetxTimeout
  <2> DEFINE E == {s \in timeouts : age[s] >= rto}
  <2>1. UNCHANGED <<phase, seq>>
    BY DEF CheckRetxTimeout
  <2>2. CASE E = {}
    <3>1. retxSeqs' = retxSeqs /\ sendDue' = sendDue
      BY <2>2 DEF OnTimeout, QueueForRetx
    <3> QED
      BY <2>1, <3>1 DEF NoStall, Active
  <2>3. CASE E # {}
    <3>1. ScheduleNextPacket(sendDue # Idle)
      BY <2>3 DEF OnTimeout
    <3> QED
      BY <3>1, ScheduleNextPacketEffect DEF NoStall
  <2> QED
    BY <2>2, <2>3
<1>5. ASSUME NEW s \in Seqs, OnData(s) PROVE NoStall'
  <2>1. /\ phase' = phase \/ phase' = "aborted"
        /\ retxSeqs' \subseteq retxSeqs
        /\ seq' = seq /\ sendDue' = sendDue
    BY <1>5 DEF OnData, Acknowledge, ackVars
  <2> QED
    BY <2>1 DEF NoStall, Active
<1>6. ASSUME NEW s \in Seqs, LoseOrNack(s) PROVE NoStall'
  BY <1>6 DEF LoseOrNack, NoStall, Active, ackVars
<1>7. Tick => NoStall'
  BY DEF Tick, NoStall, Active, Idle, TypeOK
<1>8. UNCHANGED vars => NoStall'
  BY DEF vars, NoStall, Active, ackVars
<1> QED
  BY <1>1, <1>2, <1>3, <1>4, <1>5, <1>6, <1>7, <1>8 DEF Next, Network

\* An active consumer with something to send always has a send event.
THEOREM NeverStalls == Spec => []NoStall
<1>1. ConsumerAssumption
  BY ConsumerAssumption
<1>2. Init => NoStall
  BY DEF Init, NoStall, Active
<1> QED
  BY <1>1, <1>2, TypeCorrect, NoStallStep, PTL DEF Spec

LEMMA TimelyStep ==
  ConsumerAssumption /\ TypeOK /\ TimelyTimeout /\ [Next]_vars => TimelyTimeout'
<1> SUFFICES ASSUME ConsumerAssumption, TypeOK, TimelyTimeout, [Next]_vars
             PROVE  TimelyTimeout'
  OBVIOUS
<1> USE DEF TypeOK, ConsumerAssumption
<1>1. ASSUME UNCHANGED retxDue, timeouts' \subseteq timeouts,
             \A s \in timeouts' : age'[s] = age[s]
      PROVE  TimelyTimeout'
  BY <1>1 DEF TimelyTimeout
<1>2. ASSUME NEW s \in Seqs, SendInterest(s) PROVE TimelyTimeout'
  <2>1. retxDue' = retxDue /\ timeouts' = timeouts \cup {s}
    BY <1>2 DEF SendInterest, WillSendOutInterest
  <2>2. \A t \in timeouts : age'[t] = age[t]
    BY <1>2 DEF SendInterest, WillSendOutInterest
  <2>3. s \notin timeouts => age'[s] = 0
    BY <1>2 DEF SendInterest, WillSendOutInterest
  <2> QED
    BY <2>1, <2>2, <2>3 DEF TimelyTimeout
<1>3. CheckRetxTimeout => TimelyTimeout'
  <2> SUFFICES ASSUME CheckRetxTimeout PROVE TimelyTimeout'
    OBVIOUS
  <2> PICK rto \in RetransmitTimeout :
        LET expired == {s \in timeouts : age[s] >= rto}
        IN  /\ timeouts' = timeouts \ expired
            /\ age' = [s \in Seqs |-> IF s \in expired THEN 0 ELSE age[s]]
            /\ OnTimeout(expired)
    BY DEF CheckRetxTimeout
  <2>1. \A s \in timeouts' : s \in timeouts /\ ~(age[s] >= rto) /\ age'[s] = age[s]
    OBVIOUS
  <2>2. rto \in Int /\ rto <= MaxRto
    <3>1. RetransmitTimeout \subseteq {r \in Int : r <= MaxRto}
      BY DEF RetransmitTimeout
    <3> QED
      BY <3>1
  <2>3. retxDue' = RetxTimer
    BY DEF CheckRetxTimeout
  <2> QED
    BY <2>1, <2>2, <2>3 DEF TimelyTimeout
<1>4. Tick => TimelyTimeout'
  BY DEF Tick, TimelyTimeout
<1>5. ASSUME NEW s \in Seqs, OnData(s)
      PROVE  /\ retxDue' = retxDue /\ timeouts' \subseteq timeouts
             /\ \A t \in timeouts' : age'[t] = age[t]
  BY <1>5 DEF OnData, Acknowledge, ackVars
<1>6. \/ StartApplication \/ StopApplication \/ (\E s \in Seqs : LoseOrNack(s))
      \/ UNCHANGED vars \/ (SendPacket /\ ~\E s \in Seqs : SendInterest(s))
      => retxDue' = retxDue /\ timeouts' = timeouts /\ age' = age
  BY DEF StartApplication, StopApplication, LoseOrNack, SendPacket, vars, ackVars
<1> QED
  BY <1>1, <1>2, <1>3, <1>4, <1>5, <1>6 DEF Next, Network, SendPacket

\* No Interest waits longer than MaxRTO and one retransmission period.
THEOREM TimeoutsAreTimely == Spec => []TimelyTimeout
<1>1. ConsumerAssumption
  BY ConsumerAssumption
<1>2. Init => TimelyTimeout
  BY DEF Init, TimelyTimeout
<1> QED
  BY <1>1, <1>2, TypeCorrect, TimelyStep, PTL DEF Spec

LEMMA KarnStep ==
  ASSUME IInv, [Next]_vars, nSamples' # nSamples
  PROVE  \E s \in timeouts : /\ retxCounts[s] = 1 /\ s \notin fullDelay'
                             /\ nSamples' = nSamples + 1
<1>1. PICK s \in Seqs : Acknowledge(s)
  BY DEF Next, Network, StartApplication, StopApplication, SendPacket, SendInterest,
         WillSendOutInterest, CheckRetxTimeout, OnTimeout, OnData, LoseOrNack, Tick,
         vars, ackVars, rttVars
<1>2. history[s] = "fresh" /\ nSamples' = nSamples + 1 /\ s \notin fullDelay'
  BY <1>1 DEF Acknowledge, AckSeq
<1>3. s \in timeouts /\ retxCounts[s] = 1
  BY <1>2 DEF IInv, FreshIsFirst
<1> QED
  BY <1>2, <1>3

\* The estimator never measures a sequence number that timed out or was sent
\* more than once.
THEOREM KarnsRule == Spec => Karn
<1>1. IInv /\ [Next]_vars =>
        [nSamples' # nSamples =>
           \E s \in timeouts : /\ retxCounts[s] = 1 /\ s \notin fullDelay'
                               /\ nSamples' = nSamples + 1]_vars
  BY KarnStep
<1> QED
  BY <1>1, IInvCorrect, PTL DEF Spec, Karn

LEMMA SilentStep ==
  ASSUME ConsumerAssumption, TypeOK, [Next]_vars, phase = "stopped", NEW s \in Seqs
  PROVE  wire'[s] <= wire[s]
<1>1. wire[s] \in Int /\ wire \in [Seqs -> Int] /\ ~Active
  BY DEF TypeOK, Active
<1>2. CASE \E t \in Seqs : OnData(t) \/ LoseOrNack(t)
  <2>1. PICK t \in Seqs : wire' = [wire EXCEPT ![t] = @ - 1]
    BY <1>2 DEF OnData, LoseOrNack
  <2>2. wire'[s] = IF s = t THEN wire[s] - 1 ELSE wire[s]
    BY <1>1, <2>1
  <2> QED
    BY <1>1, <2>2
<1>3. CASE UNCHANGED wire
  BY <1>1, <1>3
<1>4. UNCHANGED wire \/ \E t \in Seqs : OnData(t) \/ LoseOrNack(t)
  BY <1>1 DEF Next, Network, StartApplication, StopApplication, SendPacket,
         CheckRetxTimeout, Tick, vars
<1> QED
  BY <1>2, <1>3, <1>4

\* What SendPacket does in a stopped application sends nothing, though OnTimeout goes on
\* scheduling it.
THEOREM StoppedIsSilent == Spec => SilentAfterStop
<1>1. ConsumerAssumption
  BY ConsumerAssumption
<1>2. TypeOK /\ [Next]_vars => [phase = "stopped" => \A s \in Seqs : wire'[s] <= wire[s]]_vars
  BY <1>1, SilentStep
<1> QED
  BY <1>2, TypeCorrect, PTL DEF Spec, SilentAfterStop

\* What has to be shown of a step: it is a step of Fetch or leaves its variables.
FetchStep == [Abstract!Next]_(Abstract!vars)

LEMMA FetchSendStep ==
  ASSUME TypeOK, NothingLost, Unsent, phase = "active",
         NEW s \in Seqs, SendInterest(s)
  PROVE  FetchStep
<1>1. /\ phase' = phase /\ NextSeq(s)
      /\ retxSeqs' = retxSeqs \ {s} /\ timeouts' = timeouts \cup {s}
      /\ seq' = IF retxSeqs = {} THEN seq + 1 ELSE seq
  BY DEF SendInterest, WillSendOutInterest
<1>2. CASE retxSeqs = {}
  <2>1. s = seq /\ seq < MaxSeq
    BY <1>1, <1>2 DEF NextSeq
  <2> QED
    BY <1>1, <1>2, <2>1 DEF FetchStep, Abstract!Next, Abstract!Request
<1>3. CASE retxSeqs # {}
  <2>1. s \in retxSeqs /\ (\A t \in retxSeqs : s <= t) /\ seq' = seq
    BY <1>1, <1>3 DEF NextSeq
  <2>2. timeouts' \cup retxSeqs' = timeouts \cup retxSeqs
    BY <1>1, <2>1
  <2> QED
    BY <1>1, <2>1, <2>2 DEF FetchStep, Abstract!Next, Abstract!Retry
<1> QED
  BY <1>2, <1>3

LEMMA FetchCheckStep ==
  ASSUME TypeOK, NothingLost, CheckRetxTimeout
  PROVE  FetchStep
<1>1. PICK rto \in RetransmitTimeout :
        LET expired == {s \in timeouts : age[s] >= rto}
        IN  timeouts' = timeouts \ expired /\ OnTimeout(expired)
  BY DEF CheckRetxTimeout
<1> DEFINE E == {s \in timeouts : age[s] >= rto}
<1>2. retxSeqs' = retxSeqs \cup E /\ timeouts' = timeouts \ E
  BY <1>1 DEF OnTimeout, QueueForRetx
<1>3. phase' = phase /\ seq' = seq /\ phase # "aborted"
  BY DEF CheckRetxTimeout, Running
<1> HIDE DEF E
<1>4. E \subseteq timeouts
  BY DEF E
<1>5. E \in SUBSET ((timeouts \cup retxSeqs) \ retxSeqs)
  BY <1>4 DEF NothingLost
<1>6. timeouts' \cup retxSeqs' = timeouts \cup retxSeqs
  BY <1>2, <1>4
<1> QED
  BY <1>2, <1>3, <1>5, <1>6 DEF FetchStep, Abstract!Next, Abstract!Lapse

LEMMA FetchDataStep ==
  ASSUME TypeOK, NothingLost, NEW s \in Seqs, OnData(s)
  PROVE  FetchStep
<1>1. seq' = seq
  BY DEF OnData
<1>2. CASE phase # "active"
  BY <1>1, <1>2 DEF OnData, Active, ackVars, FetchStep, Abstract!vars
<1>3. CASE phase = "active" /\ Trailer # 1
  BY <1>1, <1>3 DEF OnData, Active, ackVars, FetchStep, Abstract!Next, Abstract!Live
<1>4. CASE phase = "active" /\ Trailer = 1
  <2>1. /\ phase' = phase
        /\ retxSeqs' = retxSeqs \ {s} /\ timeouts' = timeouts \ {s}
    BY <1>4 DEF OnData, Active, Acknowledge
  <2>2. timeouts' \cup retxSeqs' = (timeouts \cup retxSeqs) \ {s}
    BY <2>1
  <2>3. CASE s \in timeouts \cup retxSeqs
    BY <1>1, <1>4, <2>1, <2>2, <2>3 DEF FetchStep, Abstract!Next, Abstract!Report
  <2>4. CASE s \notin timeouts \cup retxSeqs
    <3>1. retxSeqs' = retxSeqs /\ timeouts' = timeouts
      BY <2>1, <2>4
    <3> QED
      BY <1>1, <2>1, <3>1 DEF FetchStep, Abstract!vars
  <2> QED
    BY <2>3, <2>4
<1> QED
  BY <1>2, <1>3, <1>4

LEMMA FetchNextStep == IInv /\ [Next]_vars => FetchStep
<1> SUFFICES ASSUME IInv, [Next]_vars PROVE FetchStep
  OBVIOUS
<1> USE DEF IInv
<1>1. StartApplication \/ StopApplication => FetchStep
  BY DEF StartApplication, StopApplication, Active, ackVars, FetchStep,
         Abstract!Next, Abstract!Live
<1>2. SendPacket => FetchStep
  <2>1. CASE Active /\ \E s \in Seqs : SendInterest(s)
    BY <2>1, FetchSendStep DEF Active
  <2>2. CASE UNCHANGED <<phase, seq, ackVars>>
    BY <2>2 DEF ackVars, FetchStep, Abstract!vars
  <2> QED
    BY <2>1, <2>2 DEF SendPacket
<1>3. CheckRetxTimeout => FetchStep
  BY FetchCheckStep
<1>4. ASSUME NEW s \in Seqs, OnData(s) PROVE FetchStep
  BY <1>4, FetchDataStep
<1>5. (\E s \in Seqs : LoseOrNack(s)) \/ Tick \/ UNCHANGED vars
        => UNCHANGED <<phase, seq, retxSeqs, timeouts>>
  BY DEF LoseOrNack, Tick, vars, ackVars
<1>6. UNCHANGED <<phase, seq, retxSeqs, timeouts>> => FetchStep
  BY DEF FetchStep, Abstract!vars
<1> QED
  BY <1>1, <1>2, <1>3, <1>4, <1>5, <1>6 DEF Next, Network

\* The consumer implements Fetch: whatever the network, the timers and the
\* estimator do, numbers are requested in order, lapsed ones first, and each is
\* reported once.
THEOREM ConsumerFetches == Spec => FetchSpec
<1>1. Init => Abstract!Init
  BY DEF Init, Abstract!Init
<1>2. IInv /\ [Next]_vars => [Abstract!Next]_(Abstract!vars)
  BY FetchNextStep DEF FetchStep
<1> QED
  BY <1>1, <1>2, IInvCorrect, PTL DEF Spec, FetchSpec, Abstract!Spec
=============================================================================
