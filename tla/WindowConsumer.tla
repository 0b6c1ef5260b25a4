--------------------------- MODULE WindowConsumer ---------------------------
(***************************************************************************)
(* The other schedulers built on ndn::Consumer: ConsumerWindow,            *)
(* ConsumerPcon (congestion control), ConsumerBatches and                  *)
(* ConsumerZipfMandelbrot.  The class and its attributes are chosen in     *)
(* Init.                                                                   *)
(*                                                                         *)
(* Time is left out: the retransmission check may find any number of       *)
(* entries old enough, oldest first, a scheduled send may run before or    *)
(* after any other event, and batches may come in any order.  Windows are  *)
(* fixed point numbers with Unit steps to a packet, those that are not     *)
(* zero being rounded up to a step, and the congestion avoidance           *)
(* increments of AIMD, BIC and CUBIC are any amount they may be.           *)
(*                                                                         *)
(* Consumer::OnData reads the sequence number one component too early for  *)
(* all of these classes.  It throws unless the last component of Prefix is *)
(* itself a sequence number, and then takes all Data for that one.         *)
(***************************************************************************)
EXTENDS Integers, Sequences, FiniteSets

CONSTANTS
  Attributes,   \* the attribute values to choose from, see AttributeType
  MaxFresh,     \* bound: sequence numbers and contents are 0 .. MaxFresh
  MaxAnswers,   \* bound: Data delivered
  LowWindow,    \* BIC_LOW_WINDOW, 14 in the code; BIC's first step beyond it takes
                \* a packet off the window and must not empty it
  Leaps,        \* bound: increments of the window by more than a packet, in steps
  Garbage       \* bound: values an uninitialised batch amount may have

Unit == 2         \* steps of the window to a packet
NotANumber == -1  \* a name component that is no sequence number
NoLimit == -1     \* m_ssthresh at numeric_limits<double>::max(), or m_window divided
                  \* by zero: infinite, then NaN with BIC, and never full
Numbers == 0 .. MaxFresh

AttributeType ==
  [kind : {"window", "pcon", "batches", "zipf"},
   prefix : Numbers \cup {NotANumber},  \* last component of attribute Prefix
   startSeq : Numbers, maxSeq : Numbers, size : Int, payload : Nat \ {0},
   initial : Nat, reset : BOOLEAN,      \* Window, InitialWindowOnTimeout
   cwa : BOOLEAN, marks : BOOLEAN,      \* UseCwa, ReactToCongestionMarks
   algorithm : {"AIMD", "BIC", "CUBIC"},
   batches : Seq(Nat), blank : BOOLEAN, \* Batches, and whether a blank follows
   contents : Nat]                      \* NumberOfContents

ASSUME WindowAssumption ==
  /\ Attributes \subseteq AttributeType
  /\ MaxFresh \in Nat /\ MaxAnswers \in Nat /\ LowWindow \in Nat /\ LowWindow >= 2
  /\ Leaps \subseteq Nat /\ Garbage \subseteq Nat /\ Garbage # {}

VARIABLES
  a,          \* the attributes
  phase,      \* "idle", "active", "stopped"; "aborted" by an exception or assertion
  seq,        \* m_seq
  seqMax,     \* m_seqMax
  retxSeqs,   \* m_retxSeqs
  timeouts,   \* m_seqTimeouts in the order of their time stamps
  counts,     \* m_seqRetxCounts, 2 for more than once
  history,    \* m_rtt's m_history: "none", "fresh" or "retx"
  samples,    \* m_rtt's m_nSamples
  sending,    \* m_sendEvent is running
  cc,         \* m_window, m_inFlight, m_ssthresh, m_highData, 2 * m_recPoint,
              \* and whether m_cubicWmax is positive
  coming,     \* batches that are scheduled, in the order of the text
  wire,       \* Interests that may be answered
  answers     \* Data delivered so far

vars == <<a, phase, seq, seqMax, retxSeqs, timeouts, counts, history, samples,
          sending, cc, coming, wire, answers>>

Windowed == a.kind \in {"window", "pcon"}
Waiting == {timeouts[i] : i \in DOMAIN timeouts}
Active == phase = "active"
Running == phase # "aborted"
AtMost(n, m) == IF n <= m THEN n ELSE m
AtLeast(n, m) == IF n >= m THEN n ELSE m

\* ConsumerWindow's Size, PayloadSize and MaxSeq, set in this order when the
\* object is made: Size replaces MaxSeq, which is then ignored.
SeqLimit(r) ==
  IF r.kind = "batches" THEN 0
  ELSE IF r.kind = "zipf" \/ r.size < 0 THEN r.maxSeq
  ELSE 1 + r.size \div r.payload

\* Reading the Batches attribute: the loop tests for the end of the text only
\* before it reads, so after a blank the last amount is added again, and for an
\* empty text one that was never assigned.
ReadBatches(r, amount) ==
  IF r.kind # "batches" THEN <<>>
  ELSE IF r.batches = <<>> THEN <<amount>>
  ELSE IF r.blank THEN Append(r.batches, r.batches[Len(r.batches)])
  ELSE r.batches

\* RttEstimator::ClearSent, and how its history starts.
ClearSent == [n \in Numbers |-> "none"]

\* RttEstimator::RttEstimator.
EstimatorInit == history = ClearSent /\ samples = 0

\* SetWindow: m_initialWindow, which m_window starts with.
InitialWindow == Unit * a.initial

Init ==
  /\ a \in Attributes
  /\ \E amount \in Garbage : coming = ReadBatches(a, amount)
  /\ phase = "idle"
  /\ seq = a.startSeq /\ seqMax = SeqLimit(a)
  /\ retxSeqs = {} /\ timeouts = <<>>
  /\ counts = [n \in Numbers |-> 0]
  /\ EstimatorInit /\ sending = FALSE
  /\ cc = [window |-> InitialWindow, inFlight |-> 0, ssthresh |-> NoLimit,
           highData |-> 0, recPoint |-> 0, wmax |-> FALSE]
  /\ wire = {} /\ answers = 0

-----------------------------------------------------------------------------
(* Scheduling. *)

\* ScheduleNextPacket of the other classes: there is always a send event after it.
ScheduledByRate == TRUE

Full(c) == c.window \notin {0, NoLimit} /\ c.inFlight * Unit >= c.window

\* Whether a send event runs after ScheduleNextPacket.  Windowed classes start
\* none while the window is full, and one later when the window is zero.
Scheduled(c, pending) ==
  IF ~Windowed THEN ScheduledByRate
  ELSE IF Full(c) THEN pending
  ELSE TRUE

StartApplication ==
  /\ phase = "idle"
  /\ phase' = "active"
  /\ sending' = Scheduled(cc, sending)
  /\ UNCHANGED <<a, seq, seqMax, retxSeqs, timeouts, counts, history, samples,
                 cc, coming, wire, answers>>

StopApplication ==
  /\ Active
  /\ phase' = "stopped"
  /\ sending' = FALSE
  /\ UNCHANGED <<a, seq, seqMax, retxSeqs, timeouts, counts, history, samples,
                 cc, coming, wire, answers>>

\* ConsumerBatches::AddBatch, also after Stop: more to request, and the
\* estimator forgets what was sent.
AddBatch ==
  /\ a.kind = "batches" /\ phase \in {"active", "stopped"}
  /\ \E i \in DOMAIN coming :
       /\ seqMax' = seqMax + coming[i]
       /\ coming' = SubSeq(coming, 1, i - 1) \o SubSeq(coming, i + 1, Len(coming))
  /\ history' = ClearSent
  /\ sending' = TRUE
  /\ UNCHANGED <<a, phase, seq, retxSeqs, timeouts, counts, samples, cc, wire, answers>>

-----------------------------------------------------------------------------
(* Sending. *)

\* SetNumberOfContents, which SetQ and SetS call again: the ranks with a cumulative
\* probability.  They grow, and the last one is 1.
Ranks == 1 .. a.contents

\* GetNextSeq of the Zipf class: the draw always meets one of the ranks.
ZipfContents == IF Ranks = {} THEN {1} ELSE Ranks

\* Slip: m_seq is used and not advanced.
ChoicesReused ==
  IF retxSeqs # {} THEN {[n |-> n, seq |-> seq] : n \in retxSeqs}
  ELSE IF seq >= seqMax THEN {} ELSE {[n |-> seq, seq |-> seq]}

\* Slip: fresh numbers go before those that timed out.
ChoicesFreshFirst ==
  IF seq < seqMax THEN {[n |-> n, seq |-> seq + 1] : n \in IF a.kind = "zipf" THEN ZipfContents ELSE {seq}}
  ELSE {[n |-> n, seq |-> seq] : n \in {m \in retxSeqs : \A k \in retxSeqs : m <= k}}

\* The numbers SendPacket may pick and m_seq after it.
Choices ==
  IF retxSeqs # {}
    THEN {[n |-> n, seq |-> seq] : n \in {m \in retxSeqs : \A k \in retxSeqs : m <= k}}
  ELSE IF seq >= seqMax THEN {}
  ELSE {[n |-> n, seq |-> seq + 1] :
          n \in IF a.kind = "zipf" THEN ZipfContents ELSE {seq}}

\* Slip: a repeated number is not marked.
SentSeqUnmarked(h, n) == [h EXCEPT ![n] = "fresh"]

\* RttMeanDeviation::SentSeq.
SentSeq(h, n) == [h EXCEPT ![n] = IF @ = "none" THEN "fresh" ELSE "retx"]

\* ConsumerWindow::WillSendOutInterest.
CountUp(c) == IF Windowed THEN [c EXCEPT !.inFlight = @ + 1] ELSE c

\* Consumer::WillSendOutInterest, which the Zipf class repeats in SendPacket.
SendInterest(c) ==
  /\ seq' = c.seq
  /\ retxSeqs' = retxSeqs \ {c.n}
  /\ timeouts' = IF c.n \in Waiting THEN timeouts ELSE Append(timeouts, c.n)
  /\ counts' = [counts EXCEPT ![c.n] = AtMost(@ + 1, 2)]
  /\ history' = SentSeq(history, c.n)
  /\ cc' = CountUp(cc)
  /\ sending' = Scheduled(cc', FALSE)
  /\ wire' = wire \cup {c.n}
  /\ UNCHANGED <<a, phase, seqMax, samples, coming, answers>>

SendPacket ==
  /\ Running /\ sending
  /\ \/ Active /\ \E c \in Choices : c.n \in Numbers /\ SendInterest(c)  \* bound
     \/ /\ ~Active \/ Choices = {}
        /\ sending' = FALSE
        /\ UNCHANGED <<a, phase, seq, seqMax, retxSeqs, timeouts, counts, history,
                       samples, cc, coming, wire, answers>>

-----------------------------------------------------------------------------
(* The congestion window. *)

\* Slip: every loss decreases the window.
DecreaseAlways(c) == TRUE

\* Conservative window adaptation: a decrease only when Data was seen for an
\* Interest sent after the last one.
MayDecrease(c) == ~a.cwa \/ 2 * c.highData > c.recPoint

\* m_recPoint after a decrease, doubled: m_seq and half the packets outstanding.
RecPoint(c) == 2 * seq + (seq - c.highData)

\* m_beta or m_cubicBeta times the window, a step at least if there is a window.
Reduced(w) ==
  IF w \in {0, NoLimit} THEN w
  ELSE AtLeast(1, IF a.algorithm = "AIMD" THEN w \div 2 ELSE (4 * w) \div 5)

\* A window of n at least.
NotUnder(w, n) == IF w = NoLimit THEN w ELSE AtLeast(w, n)

Low(c) == c.window # NoLimit /\ c.window < Unit * LowWindow

AimdDecrease(c) == [c EXCEPT !.ssthresh = Reduced(c.window), !.window = Reduced(c.window)]

BicDecrease(c) ==
  IF Low(c) THEN AimdDecrease(c) ELSE [c EXCEPT !.window = Reduced(c.window)]

CubicDecrease(c) ==
  LET w == NotUnder(Reduced(c.window), InitialWindow)
  IN  [c EXCEPT !.wmax = c.window # 0, !.ssthresh = w, !.window = w]

\* WindowDecrease: never below the initial window.
WindowDecrease(c) ==
  LET d == CASE a.algorithm = "AIMD" -> AimdDecrease(c)
             [] a.algorithm = "BIC" -> BicDecrease(c)
             [] a.algorithm = "CUBIC" -> CubicDecrease(c)
  IN  IF MayDecrease(c)
        THEN [d EXCEPT !.recPoint = RecPoint(c), !.window = NotUnder(@, InitialWindow)]
        ELSE c

\* BOOST_ASSERT(diff > 0).
DecreaseAsserted(c) == MayDecrease(c) => seq # c.highData

\* A packet in slow start, below ssthresh; 1 / m_window above.
SlowStart(c) == c.window # NoLimit /\ (c.ssthresh = NoLimit \/ c.window < c.ssthresh)
AimdIncrease(c) ==
  IF SlowStart(c) THEN {Unit}
  ELSE IF c.window < Unit THEN {Unit} \cup Leaps
  ELSE 0 .. Unit

\* Beyond the low window BIC goes up by BIC_MAX_INCREMENT / m_window at most; the
\* first time its target is still zero, which takes a packet off the window.
BicIncrease(c) == IF Low(c) THEN AimdIncrease(c) ELSE -Unit .. Unit + 1

\* CUBIC asserts that it has seen a decrease of a window when it leaves slow start;
\* it then goes up with the third power of the time since.
CubicIncrease(c) == IF SlowStart(c) THEN {Unit} ELSE 0 .. Unit \cup Leaps
IncreaseAsserted(c) == a.algorithm = "CUBIC" /\ ~SlowStart(c) => c.wmax

\* A window of zero outside slow start is divided by, with no way back.
WindowIncrease(c) ==
  IF c.window = NoLimit \/ (c.window = 0 /\ ~SlowStart(c))
  THEN {[c EXCEPT !.window = NoLimit]}
  ELSE {[c EXCEPT !.window = @ + d] :
          d \in CASE a.algorithm = "AIMD" -> AimdIncrease(c)
                 [] a.algorithm = "BIC" -> BicIncrease(c)
                 [] a.algorithm = "CUBIC" -> CubicIncrease(c)}

\* Slip: nothing is counted down.
Uncounted(c) == c

\* m_inFlight-- where it is positive.
CountDown(c) == [c EXCEPT !.inFlight = AtLeast(@ - 1, 0)]

-----------------------------------------------------------------------------
(* Timeouts. *)

\* What one OnTimeout of the class does to its window.
WindowOnTimeout(c) ==
  CASE a.kind = "pcon" -> CountDown(WindowDecrease(c))
    [] a.kind = "window" ->
         IF a.reset THEN [CountDown(c) EXCEPT !.window = InitialWindow] ELSE CountDown(c)
    [] OTHER -> c

\* The windows and the send event after i timeouts of one check.
After[i \in Nat] ==
  IF i = 0 THEN [c |-> cc, sending |-> sending]
  ELSE LET before == After[i - 1]
           c == WindowOnTimeout(before.c)
       IN  [c |-> c, sending |-> Scheduled(c, before.sending)]

\* CheckRetxTimeout with the n oldest entries old enough, in one event.
CheckRetxTimeout ==
  /\ Running
  /\ \E n \in 1 .. Len(timeouts) :
       LET expired == {timeouts[i] : i \in 1 .. n}
           asserted == a.kind = "pcon" => \A i \in 0 .. n - 1 : DecreaseAsserted(After[i].c)
       IN  IF asserted
             THEN /\ timeouts' = SubSeq(timeouts, n + 1, Len(timeouts))
                  /\ retxSeqs' = retxSeqs \cup expired
                  /\ history' = [m \in Numbers |->
                                   IF m \in expired THEN SentSeq(history, m)[m] ELSE history[m]]
                  /\ cc' = After[n].c /\ sending' = After[n].sending
                  /\ UNCHANGED phase
             ELSE /\ phase' = "aborted"
                  /\ UNCHANGED <<timeouts, retxSeqs, history, cc, sending>>
  /\ UNCHANGED <<a, seq, seqMax, counts, samples, coming, wire, answers>>

-----------------------------------------------------------------------------
(* Answers. *)

\* m_seqTimeouts.erase(n), where a number has one entry at most.
Erased(n) ==
  LET at == CHOOSE i \in DOMAIN timeouts : timeouts[i] = n
  IN  IF n \in Waiting
        THEN SubSeq(timeouts, 1, at - 1) \o SubSeq(timeouts, at + 1, Len(timeouts))
        ELSE timeouts

\* Consumer::OnData forgets n everywhere and RttMeanDeviation::AckSeq measures
\* it if it is not marked.
Acknowledge(n) ==
  /\ retxSeqs' = retxSeqs \ {n}
  /\ timeouts' = Erased(n)
  /\ counts' = [counts EXCEPT ![n] = 0]
  /\ history' = [history EXCEPT ![n] = "none"]
  /\ samples' = IF history[n] = "fresh" THEN samples + 1 ELSE samples

\* What the class does after Consumer::OnData with Data for number n, which it
\* reads at the last component; marked is the congestion mark.
WindowOnData(n, marked) ==
  LET high == [cc EXCEPT !.highData = AtLeast(@, n)]
  IN  CASE a.kind = "window" -> {CountDown([cc EXCEPT !.window = @ + Unit])}
        [] a.kind = "pcon" ->
             {CountDown(c) : c \in IF ~marked THEN WindowIncrease(high)
                                   ELSE IF a.marks THEN {WindowDecrease(high)} ELSE {high}}
        [] OTHER -> {cc}

DataAsserted(n, marked) ==
  LET high == [cc EXCEPT !.highData = AtLeast(@, n)]
  IN  a.kind = "pcon" => IF ~marked THEN IncreaseAsserted(high)
                         ELSE a.marks => DecreaseAsserted(high)

\* Data for n arrives and may arrive again.  An inactive Consumer ignores it, its
\* windowed subclasses do not.
OnData(n) ==
  /\ phase \in {"active", "stopped"} /\ n \in wire /\ answers < MaxAnswers
  /\ answers' = answers + 1
  /\ wire' \in {wire, wire \ {n}}
  /\ \E marked \in BOOLEAN :
       IF (Active /\ a.prefix = NotANumber) \/ ~DataAsserted(n, marked)
         THEN /\ phase' = "aborted"
              /\ UNCHANGED <<retxSeqs, timeouts, counts, history, samples, cc, sending>>
         ELSE /\ IF Active THEN Acknowledge(a.prefix)
                           ELSE UNCHANGED <<retxSeqs, timeouts, counts, history, samples>>
              /\ cc' \in WindowOnData(n, marked)
              /\ sending' = IF Windowed THEN Scheduled(cc', sending) ELSE sending
              /\ UNCHANGED phase
  /\ UNCHANGED <<a, seq, seqMax, coming>>

Next ==
  \/ StartApplication \/ StopApplication \/ AddBatch
  \/ SendPacket \/ CheckRetxTimeout
  \/ \E n \in Numbers : OnData(n)

Spec == Init /\ [][Next]_vars

-----------------------------------------------------------------------------
(* Properties. *)

\* Windows, marks, batches and a cleared history change when something is requested
\* and never what: these consumers do what Fetch promises, counted from StartSeq and
\* whatever seqMax is at the time.  ConsumerZipfMandelbrot draws its numbers instead.
InOrder == a.kind # "zipf"
FromStart(S) == IF InOrder THEN {n - a.startSeq : n \in S} ELSE {}
Abstract == INSTANCE Fetch WITH
  First <- 0, Last <- MaxFresh + 1,
  life <- IF InOrder THEN phase ELSE "idle",
  next <- IF InOrder THEN seq - a.startSeq ELSE 0,
  due <- FromStart(Waiting \cup retxSeqs), lapsed <- FromStart(retxSeqs)
FetchSpec == Abstract!Spec

\* A consumer that has something to send has a send event, or waits for Interests
\* whose timeout will start one: the window never counts more in flight than
\* there are entries that can time out, although Data and timeouts both count down.
NoStall ==
  /\ Windowed /\ Running => cc.inFlight \in 0 .. Len(timeouts)
  /\ Active /\ (retxSeqs # {} \/ seq < seqMax)
       => sending \/ (Windowed /\ timeouts # <<>>)

\* The assertions of ConsumerPcon hold: Data is never seen for a number that was not
\* sent, and CUBIC leaves slow start only after a decrease.  The exception is CUBIC with
\* a window of zero, which still sends now and then: a decrease of that window takes it
\* out of slow start without a maximum, and the next Data ends the program.
CubicOfNothing ==
  /\ a.kind = "pcon" /\ a.algorithm = "CUBIC" /\ a.initial = 0
  /\ cc.window = 0 /\ cc.ssthresh = 0
AssertionsHold ==
  phase = "aborted" => answers > 0 /\ (a.prefix = NotANumber \/ CubicOfNothing)

\* Conservative window adaptation: however many Interests time out in one check or
\* are marked, the window is reduced once, and then, whatever comes, not again before
\* Data arrives for a number that was not yet sent at the reduction.  Only BIC takes a
\* packet off the window when it enters its search.
AtOrAbove(v, w) == v = NoLimit \/ (w # NoLimit /\ v >= w)
Unreduced(c) ==
  IF a.algorithm = "BIC" /\ ~Low(c) /\ c.window # NoLimit THEN c.window - Unit ELSE c.window
CwaSpacing ==
  [][a.kind = "pcon" /\ a.cwa =>
       IF cc'.recPoint = cc.recPoint
       THEN AtOrAbove(cc'.window, Unreduced(cc))
       ELSE /\ AtOrAbove(cc'.window, Reduced(cc.window))
            /\ cc.recPoint < 2 * cc'.highData
            /\ 2 * seq <= cc'.recPoint]_vars

\* Karn's rule also holds with these schedulers, and when one content is drawn
\* twice; ConsumerBatches, which clears the history, is excepted.
KarnUnlessCleared ==
  [][\A n \in Numbers :
       samples' # samples /\ history[n] # history'[n] /\ a.kind # "batches"
         => counts[n] = 1 /\ n \in Waiting]_vars
=============================================================================
