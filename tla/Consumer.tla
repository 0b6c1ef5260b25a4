------------------------------ MODULE Consumer ------------------------------
(***************************************************************************)
(* The requesting application of ndnSIM: ndn::Consumer with the constant   *)
(* rate scheduler of its Cbr subclasses (ConsumerCbr, BoltConsumerCbr,     *)
(* TraceConsumerCbr) and the part of RttMeanDeviation it drives.           *)
(*                                                                         *)
(* One consumer, its two simulator events (the next send and the periodic  *)
(* retransmission check) and a network that may answer late, twice or      *)
(* never.  Time is the simulator's: Tick may pass only while no event is   *)
(* due, and events due at the same instant run in any order.               *)
(*                                                                         *)
(* Data that is abstracted: the smoothed RTT estimate (RetransmitTimeout   *)
(* returns any value its min/max formula allows), time stamps (kept as the *)
(* age of an entry), and the numbers in the delay traces.                  *)
(***************************************************************************)
EXTENDS Integers, FiniteSets

CONSTANTS
  StartSeq,    \* attribute StartSeq
  MaxSeq,      \* attribute MaxSeq: sequence numbers stop before it
  Gaps,        \* the delays ScheduleNextPacket may draw (one if not Randomize)
  RetxTimer,   \* attribute RetxTimer
  MinRto,      \* attribute MinRTO of the estimator
  MaxRto,      \* attribute MaxRTO of the estimator
  MaxBackoff,  \* log2 of attribute MaxMultiplier (64 = 2^6)
  MaxCopies,   \* bound: answers in flight per sequence number
  Trailer,     \* name components a class puts after the sequence number
  Passes       \* times OnData's body runs: 2 where a subclass repeats it

ASSUME ConsumerAssumption ==
  /\ StartSeq \in Nat /\ MaxSeq \in Nat
  /\ Gaps \subseteq Nat /\ Gaps # {}
  /\ RetxTimer \in Nat \ {0}
  /\ MinRto \in Nat \ {0} /\ MaxRto \in Nat /\ MinRto <= MaxRto
  /\ MaxBackoff \in Nat /\ MaxCopies \in Nat \ {0}
  /\ Trailer \in Nat /\ Passes \in {1, 2}

VARIABLES
  phase,       \* "idle", "active", "stopped", or "aborted" by an uncaught exception
  firstTime,   \* m_firstTime of the Cbr scheduler
  seq,         \* m_seq, the next fresh sequence number
  sendDue,     \* time until m_sendEvent fires, Idle when it is not running
  retxDue,     \* time until m_retxEvent fires
  retxSeqs,    \* m_retxSeqs, timed out and waiting to be sent again
  timeouts,    \* m_seqTimeouts, sent and waiting for Data or a timeout
  age,         \* how long ago the entry of m_seqTimeouts was made
  fullDelay,   \* m_seqFullDelay: first transmission remembered
  lastDelay,   \* m_seqLastDelay: last transmission remembered
  retxCounts,  \* m_seqRetxCounts: 0 absent, 1 once, 2 more than once
  history,     \* m_rtt's m_history: "none", "fresh" (retx false) or "retx"
  backoff,     \* log2 of m_rtt's m_multiplier
  nSamples,    \* m_rtt's m_nSamples
  wire,        \* answers the network may still deliver
  traced       \* how often FirstInterestDataDelay fired, per sequence number

rttVars == <<history, backoff, nSamples>>
ackVars == <<retxSeqs, timeouts, age, fullDelay, lastDelay, retxCounts>>
vars == <<phase, firstTime, seq, sendDue, retxDue, ackVars, rttVars, wire, traced>>

Idle == -1
Seqs == StartSeq .. MaxSeq - 1
Active == phase = "active"
Running == phase # "aborted"

MinOf(a, b) == IF a <= b THEN a ELSE b

TypeOK ==
  /\ phase \in {"idle", "active", "stopped", "aborted"}
  /\ firstTime \in BOOLEAN
  /\ seq \in Nat
  /\ sendDue \in Nat \cup {Idle}
  /\ retxDue \in 0 .. RetxTimer
  /\ retxSeqs \subseteq Seqs /\ timeouts \subseteq Seqs
  /\ fullDelay \subseteq Seqs /\ lastDelay \subseteq Seqs
  /\ age \in [Seqs -> Nat]
  /\ retxCounts \in [Seqs -> 0 .. 2]
  /\ history \in [Seqs -> {"none", "fresh", "retx"}]
  /\ backoff \in 0 .. MaxBackoff
  /\ nSamples \in Nat
  /\ wire \in [Seqs -> 0 .. MaxCopies]
  /\ traced \in [Seqs -> Nat]

Init ==
  /\ phase = "idle"
  /\ firstTime = TRUE
  /\ seq = StartSeq
  /\ sendDue = Idle
  /\ retxDue = RetxTimer      \* SetRetxTimer, run when attributes are set
  /\ retxSeqs = {} /\ timeouts = {} /\ fullDelay = {} /\ lastDelay = {}
  /\ age = [s \in Seqs |-> 0]
  /\ retxCounts = [s \in Seqs |-> 0]
  /\ history = [s \in Seqs |-> "none"]
  /\ backoff = 0
  /\ nSamples = 0
  /\ wire = [s \in Seqs |-> 0]
  /\ traced = [s \in Seqs |-> 0]

-----------------------------------------------------------------------------
(* The estimator's operations. *)

\* Slip: a repeated sequence number is not marked.
SentSeqUnmarked(h, S) ==
  [s \in Seqs |-> IF s \in S /\ h[s] = "none" THEN "fresh" ELSE h[s]]

\* RttMeanDeviation::SentSeq for every sequence number of S.
SentSeq(h, S) ==
  [s \in Seqs |-> IF s \notin S THEN h[s]
                  ELSE IF h[s] = "none" THEN "fresh" ELSE "retx"]

\* RttMeanDeviation::AckSeq: a sample is taken, and the multiplier reset, only
\* for a sequence number that was never marked as retransmitted.
AckSeq(s) ==
  /\ history' = [history EXCEPT ![s] = "none"]
  /\ IF history[s] = "fresh"
       THEN nSamples' = nSamples + 1 /\ backoff' = 0
       ELSE UNCHANGED <<nSamples, backoff>>

\* Slip: no back-off at all.
NoIncrease(n) == backoff

\* RttEstimator::IncreaseMultiplier, n times.
IncreaseMultiplier(n) == MinOf(MaxBackoff, backoff + n)

\* Slip: the minimum with m_maxRto is left out.
RtoUncapped == MinRto * 2 ^ backoff .. MaxRto + 2

\* The values RetransmitTimeout may return, whatever the estimate is.
RetransmitTimeout == MinOf(MaxRto, MinRto * 2 ^ backoff) .. MaxRto

-----------------------------------------------------------------------------
(* Scheduling. *)

\* ScheduleNextPacket of the Cbr classes; pending is m_sendEvent.IsRunning(),
\* which is false for the event that is being executed.
ScheduleNextPacket(pending) ==
  \/ firstTime /\ firstTime' = FALSE /\ sendDue' = 0
  \/ ~firstTime /\ pending /\ UNCHANGED <<firstTime, sendDue>>
  \/ ~firstTime /\ ~pending /\ sendDue' \in Gaps /\ UNCHANGED firstTime

StartApplication ==
  /\ phase = "idle"
  /\ phase' = "active"
  /\ ScheduleNextPacket(sendDue # Idle)
  /\ UNCHANGED <<seq, retxDue, ackVars, rttVars, wire, traced>>

\* The send event is cancelled; the retransmission check goes on.
StopApplication ==
  /\ Active
  /\ phase' = "stopped"
  /\ sendDue' = Idle
  /\ UNCHANGED <<firstTime, seq, retxDue, ackVars, rttVars, wire, traced>>

-----------------------------------------------------------------------------
(* Sending. *)

\* Slip: any of the numbers waiting to be sent again, as in an unordered set.
AnyLapsed(s) == IF retxSeqs # {} THEN s \in retxSeqs ELSE s = seq /\ seq < MaxSeq

\* The sequence number SendPacket picks: the smallest one waiting to be sent
\* again, or else the next fresh one.
NextSeq(s) ==
  IF retxSeqs # {} THEN s \in retxSeqs /\ \A t \in retxSeqs : s <= t
                   ELSE s = seq /\ seq < MaxSeq

\* WillSendOutInterest.  An insert into a unique index does not replace an
\* entry, except m_seqLastDelay's, which is erased first.
WillSendOutInterest(s) ==
  /\ timeouts' = timeouts \cup {s}
  /\ age' = IF s \in timeouts THEN age ELSE [age EXCEPT ![s] = 0]
  /\ fullDelay' = fullDelay \cup {s}
  /\ lastDelay' = lastDelay \cup {s}
  /\ retxCounts' = [retxCounts EXCEPT ![s] = MinOf(2, @ + 1)]
  /\ history' = SentSeq(history, {s})
  /\ UNCHANGED <<backoff, nSamples>>

SendInterest(s) ==
  /\ NextSeq(s)
  /\ retxSeqs' = retxSeqs \ {s}
  /\ seq' = IF retxSeqs = {} THEN seq + 1 ELSE seq
  /\ WillSendOutInterest(s)
  /\ wire' = [wire EXCEPT ![s] = MinOf(MaxCopies, @ + 1)]
  /\ ScheduleNextPacket(FALSE)
  /\ UNCHANGED <<phase, retxDue, traced>>

\* Slip: m_active is not tested.
SendPacketUnguarded == sendDue = 0 /\ Running /\ \E s \in Seqs : SendInterest(s)

\* The send event fires: nothing in an inactive application, nothing when all
\* is sent, one Interest otherwise.
SendPacket ==
  /\ sendDue = 0 /\ Running
  /\ \/ /\ Active
        /\ \E s \in Seqs : SendInterest(s)
     \/ /\ ~Active \/ (retxSeqs = {} /\ seq >= MaxSeq)
        /\ sendDue' = Idle
        /\ UNCHANGED <<phase, firstTime, seq, retxDue, ackVars, rttVars, wire, traced>>

-----------------------------------------------------------------------------
(* The periodic check. *)

\* Slip: the sequence number leaves m_seqTimeouts and goes nowhere.
ForgetTimedOut(E) == UNCHANGED retxSeqs

\* What OnTimeout does to the set of sequence numbers to send again.
QueueForRetx(E) == retxSeqs' = retxSeqs \cup E

\* Slip: the send event is not scheduled.
OnTimeoutUnscheduled(E) ==
  /\ backoff' = IncreaseMultiplier(Cardinality(E))
  /\ history' = SentSeq(history, E)
  /\ QueueForRetx(E)
  /\ UNCHANGED <<firstTime, sendDue, nSamples>>

\* OnTimeout, for every sequence number of E; they run one after the other in
\* one event and commute.
OnTimeout(E) ==
  /\ backoff' = IncreaseMultiplier(Cardinality(E))
  /\ history' = SentSeq(history, E)
  /\ QueueForRetx(E)
  /\ IF E = {} THEN UNCHANGED <<firstTime, sendDue>>
               ELSE ScheduleNextPacket(sendDue # Idle)
  /\ UNCHANGED nSamples

\* CheckRetxTimeout: the RTO is read once, every entry that is at least that
\* old times out, and the check is scheduled again, also after Stop.
CheckRetxTimeout ==
  /\ retxDue = 0 /\ Running
  /\ \E rto \in RetransmitTimeout :
       LET expired == {s \in timeouts : age[s] >= rto}
       IN  /\ timeouts' = timeouts \ expired
           /\ age' = [s \in Seqs |-> IF s \in expired THEN 0 ELSE age[s]]
           /\ OnTimeout(expired)
  /\ retxDue' = RetxTimer
  /\ UNCHANGED <<phase, seq, fullDelay, lastDelay, retxCounts, wire, traced>>

-----------------------------------------------------------------------------
(* Receiving. *)

\* m_seqFullDelay as pass p of OnData finds it: the first pass erases s.
FullDelayAt(s, p) == IF p = 1 THEN fullDelay ELSE fullDelay \ {s}

\* The traces the passes of one OnData fire.
DelayTraces(s) == Cardinality({p \in 1 .. Passes : s \in FullDelayAt(s, p)})

\* The body of OnData: trace, then forget the sequence number everywhere.  A
\* second pass finds nothing left to trace, erase or measure.
Acknowledge(s) ==
  /\ traced' = [traced EXCEPT ![s] = @ + DelayTraces(s)]
  /\ retxSeqs' = retxSeqs \ {s} /\ timeouts' = timeouts \ {s}
  /\ age' = [age EXCEPT ![s] = 0]
  /\ fullDelay' = fullDelay \ {s} /\ lastDelay' = lastDelay \ {s}
  /\ retxCounts' = [retxCounts EXCEPT ![s] = 0]
  /\ AckSeq(s)

\* Data for s arrives.  The sequence number is read at component -2, which is
\* another component, and throws, unless exactly one component follows it.
OnData(s) ==
  /\ Running /\ wire[s] > 0
  /\ wire' = [wire EXCEPT ![s] = @ - 1]
  /\ \/ /\ ~Active
        /\ UNCHANGED <<phase, ackVars, rttVars, traced>>
     \/ /\ Active /\ Trailer = 1
        /\ Acknowledge(s)
        /\ UNCHANGED phase
     \/ /\ Active /\ Trailer # 1
        /\ phase' = "aborted"
        /\ UNCHANGED <<ackVars, rttVars, traced>>
  /\ UNCHANGED <<firstTime, seq, sendDue, retxDue>>

\* The Interest or its answer is lost, or a Nack comes back: OnNack only logs.
LoseOrNack(s) ==
  /\ Running /\ wire[s] > 0
  /\ wire' = [wire EXCEPT ![s] = @ - 1]
  /\ UNCHANGED <<phase, firstTime, seq, sendDue, retxDue, ackVars, rttVars, traced>>

Tick ==
  /\ Running /\ sendDue # 0 /\ retxDue > 0
  /\ retxDue' = retxDue - 1
  /\ sendDue' = IF sendDue = Idle THEN Idle ELSE sendDue - 1
  /\ age' = [s \in Seqs |-> IF s \in timeouts THEN age[s] + 1 ELSE age[s]]
  /\ UNCHANGED <<phase, firstTime, seq, retxSeqs, timeouts, fullDelay, lastDelay,
                 retxCounts, rttVars, wire, traced>>

Network == \E s \in Seqs : OnData(s) \/ LoseOrNack(s)

Next ==
  \/ StartApplication \/ StopApplication
  \/ SendPacket \/ CheckRetxTimeout
  \/ Network
  \/ Tick

Spec == Init /\ [][Next]_vars

\* The simulator runs every event it has scheduled and advances its clock.
FairSpec == Spec /\ WF_vars(SendPacket) /\ WF_vars(CheckRetxTimeout) /\ WF_vars(Tick)

-----------------------------------------------------------------------------
(* Properties. *)

\* The consumer does what Fetch promises: its containers, its events and the
\* estimator never make it skip, forget, reorder or report a number twice.
Abstract == INSTANCE Fetch WITH
  First <- StartSeq, Last <- MaxSeq, life <- phase, next <- seq,
  due <- timeouts \cup retxSeqs, lapsed <- retxSeqs
FetchSpec == Abstract!Spec

\* No sequence number is ever lost or duplicated: one that was sent and whose
\* delay was not reported is waiting for a timeout or for retransmission, not
\* both, and every container of Consumer agrees on which ones these are.
Unanswered == {s \in Seqs : s < seq /\ traced[s] = 0}
NothingLost ==
  /\ timeouts \cap retxSeqs = {}
  /\ timeouts \cup retxSeqs = Unanswered
  /\ fullDelay = Unanswered /\ lastDelay = Unanswered
  /\ \A s \in Seqs : /\ s \in Unanswered <=> retxCounts[s] > 0
                     /\ s \in Unanswered <=> history[s] # "none"

\* FirstInterestDataDelay is reported at most once for a sequence number, though
\* BoltConsumer and TraceConsumer run the body of OnData twice and Data may be
\* delivered again for a retransmitted Interest.
TracedOnce == \A s \in Seqs : traced[s] <= 1

\* Karn's rule: the estimator measures only a sequence number that was sent
\* once and has not timed out (OnTimeout marks the history entry early).
Karn ==
  [][nSamples' # nSamples =>
       \E s \in timeouts : /\ retxCounts[s] = 1 /\ s \notin fullDelay'
                           /\ nSamples' = nSamples + 1]_vars

\* While there is something to send, an active consumer has a send event: the
\* chain of events, which ends when everything was sent, is restarted by a
\* timeout and never broken.
NoStall ==
  Active /\ (retxSeqs # {} \/ seq < MaxSeq) => sendDue # Idle

\* An Interest waits for its timeout at most one MaxRTO and one period of the
\* retransmission timer.
TimelyTimeout == \A s \in timeouts : age[s] + retxDue < MaxRto + RetxTimer

\* A stopped application sends nothing, although timeouts after Stop still
\* schedule the send event.
SilentAfterStop ==
  [][phase = "stopped" => \A s \in Seqs : wire'[s] <= wire[s]]_vars

\* Data for a sequence number that is waited for reports its delay (what the
\* tests of AppDelayTracer expect of ConsumerCbr).
DataTraced ==
  [][\A s \in Seqs : OnData(s) /\ Active /\ s \in fullDelay
                       => traced'[s] = traced[s] + 1]_vars

\* The RTO of a number that keeps timing out, and the longest send gap.
RtoCap == MinOf(MaxRto, MinRto * 2 ^ MaxBackoff)
MaxGap == CHOOSE g \in Gaps : \A h \in Gaps : h <= g

\* Before the first of the numbers below s can time out again under that RTO,
\* each of them and then s itself can be sent.
Within(s) == (s - StartSeq) * MaxGap < RtoCap

\* SendPacket prefers the smallest timed-out number.  The first of them is sent
\* or answered in the end, unless the application stops: a number that waits for
\* ever does so only behind smaller ones that keep timing out.  That cannot
\* happen to a number so near to StartSeq that the back-off leaves room for all
\* below it; a number further on may wait for ever while nothing is answered.
NoStarvation ==
  \A s \in Seqs :
    /\ Within(s) => (s \in retxSeqs ~> s \notin retxSeqs \/ ~Active)
    /\ []<>(s \notin retxSeqs \/ ~Active \/ \E t \in retxSeqs : t < s)
=============================================================================
