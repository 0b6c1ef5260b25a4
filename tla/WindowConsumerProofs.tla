------------------------ MODULE WindowConsumerProofs ------------------------
(***************************************************************************)
(* Proofs about WindowConsumer, for every choice of attributes, numbers    *)
(* and answers: the window never waits for what nobody will answer or time *)
(* out, ConsumerPcon's assertions hold, one recovery reduces the window    *)
(* once, Karn's rule holds unless the history is cleared, and all but the  *)
(* Zipf class implement Fetch.                                             *)
(*                                                                         *)
(* One retransmission check lets any number of Interests time out; After   *)
(* is a function defined by recursion over them.  That it exists, and what *)
(* is said of all its values, rests on Iteration and NatSets.              *)
(***************************************************************************)
EXTENDS WindowConsumer, Iterations, SequenceTheorems

-----------------------------------------------------------------------------
(* Types. *)

Windows ==
  [window : Nat \cup {NoLimit}, inFlight : Nat, ssthresh : Nat \cup {NoLimit},
   highData : Nat, recPoint : Int, wmax : BOOLEAN]

TypeOK ==
  /\ a \in Attributes
  /\ phase \in {"idle", "active", "stopped", "aborted"}
  /\ seq \in Nat /\ seqMax \in Int
  /\ retxSeqs \subseteq Numbers /\ timeouts \in Seq(Numbers)
  /\ counts \in [Numbers -> 0 .. 2] /\ history \in [Numbers -> {"none", "fresh", "retx"}]
  /\ samples \in Nat /\ sending \in BOOLEAN /\ cc \in Windows
  /\ coming \in Seq(Nat) /\ wire \subseteq Numbers /\ answers \in 0 .. MaxAnswers

LEMMA Attribute ==
  ASSUME TypeOK
  PROVE  /\ a \in AttributeType
         /\ a.kind \in {"window", "pcon", "batches", "zipf"}
         /\ a.algorithm \in {"AIMD", "BIC", "CUBIC"}
         /\ a.cwa \in BOOLEAN /\ a.reset \in BOOLEAN /\ a.marks \in BOOLEAN
         /\ a.prefix \in Numbers \cup {NotANumber}
         /\ a.contents \in Nat
         /\ InitialWindow \in Nat
         /\ a.initial = 0 <=> InitialWindow = 0
  <1>1. a \in AttributeType
    BY WindowAssumption DEF TypeOK
  <1>2. a.initial \in Nat
    BY <1>1 DEF AttributeType
  <1>3. InitialWindow \in Nat /\ (a.initial = 0 <=> InitialWindow = 0)
    BY <1>2 DEF InitialWindow, Unit
  <1> QED
    BY <1>1, <1>3 DEF AttributeType

LEMMA InitType == Init => TypeOK
  <1> SUFFICES ASSUME Init PROVE TypeOK
    OBVIOUS
  <1>1. /\ a \in AttributeType /\ a \in Attributes
    BY WindowAssumption DEF Init
  <1>2. /\ a.startSeq \in Numbers /\ a.maxSeq \in Numbers /\ a.size \in Int
        /\ a.payload \in Nat \ {0} /\ a.initial \in Nat /\ a.batches \in Seq(Nat)
    BY <1>1 DEF AttributeType
  <1>3. Numbers \subseteq Nat
    BY DEF Numbers
  <1>4. SeqLimit(a) \in Int
    <2>1. CASE a.kind = "batches" \/ a.kind = "zipf" \/ a.size < 0
      <3>1. a.maxSeq \in Int /\ 0 \in Int
        BY <1>2 DEF Numbers
      <3> QED
        BY <2>1, <3>1 DEF SeqLimit
    <2>2. CASE ~(a.kind = "batches" \/ a.kind = "zipf" \/ a.size < 0)
      <3>1. a.size \div a.payload \in Int
        BY <1>2, <2>2
      <3>2. SeqLimit(a) = 1 + a.size \div a.payload
        BY <2>2 DEF SeqLimit
      <3> QED
        BY <3>1, <3>2
    <2> QED
      BY <2>1, <2>2
  <1>5. coming \in Seq(Nat)
    <2>1. PICK amount \in Nat : coming = ReadBatches(a, amount)
      BY WindowAssumption DEF Init
    <2>2. CASE a.kind = "batches" /\ a.batches # <<>> /\ a.blank
      <3>1. a.batches[Len(a.batches)] \in Nat
        BY <1>2, <2>2
      <3>2. coming = Append(a.batches, a.batches[Len(a.batches)])
        BY <2>1, <2>2 DEF ReadBatches
      <3> QED
        BY <1>2, <3>1, <3>2
    <2>3. CASE ~(a.kind = "batches" /\ a.batches # <<>> /\ a.blank)
      <3>1. coming \in {<<>>, <<amount>>, a.batches}
        BY <2>1, <2>3 DEF ReadBatches
      <3>2. <<>> \in Seq(Nat) /\ <<amount>> \in Seq(Nat)
        OBVIOUS
      <3> QED
        BY <1>2, <3>1, <3>2
    <2> QED
      BY <2>2, <2>3
  <1>6. cc \in Windows
    <2>1. InitialWindow \in Nat
      BY <1>2 DEF InitialWindow, Unit
    <2> QED
      BY <2>1 DEF Init, Windows
  <1>7. timeouts \in Seq(Numbers) /\ history \in [Numbers -> {"none", "fresh", "retx"}]
    BY DEF Init, EstimatorInit, ClearSent
  <1>8. counts \in [Numbers -> 0 .. 2] /\ answers \in 0 .. MaxAnswers
    BY WindowAssumption DEF Init
  <1> QED
    BY <1>1, <1>2, <1>3, <1>4, <1>5, <1>6, <1>7, <1>8 DEF Init, TypeOK, EstimatorInit

LEMMA ScheduledType ==
  ASSUME NEW c, NEW p \in BOOLEAN
  PROVE  Scheduled(c, p) \in BOOLEAN
  BY DEF Scheduled, ScheduledByRate

-----------------------------------------------------------------------------
(* The congestion window. *)

LEMMA ReducedSmaller ==
  ASSUME TypeOK, NEW w \in Nat \cup {NoLimit}
  PROVE  /\ Reduced(w) \in Nat \cup {NoLimit} /\ (Reduced(w) = NoLimit <=> w = NoLimit)
         /\ w \in Nat => Reduced(w) \in Nat /\ Reduced(w) <= w /\ (Reduced(w) > 0 <=> w > 0)
         /\ AtOrAbove(w, Reduced(w)) /\ AtOrAbove(w, w)
  <1>1. CASE w \in {0, NoLimit}
    BY <1>1 DEF Reduced, AtOrAbove, NoLimit
  <1>2. CASE w \notin {0, NoLimit}
    <2>1. w \in Nat /\ w > 0 /\ w # NoLimit
      BY <1>2 DEF NoLimit
    <2>2. PICK h \in Nat : /\ h = IF a.algorithm = "AIMD" THEN w \div 2 ELSE (4 * w) \div 5
                          /\ h <= w
      <3>1. w \div 2 \in Nat /\ w \div 2 <= w
        BY <2>1
      <3>2. (4 * w) \div 5 \in Nat /\ (4 * w) \div 5 <= w
        BY <2>1
      <3> QED
        BY <3>1, <3>2
    <2>3. Reduced(w) = AtLeast(1, h)
      BY <1>2, <2>2 DEF Reduced
    <2>4. PICK r \in Nat : r = AtLeast(1, h) /\ r > 0 /\ r <= w
      BY <2>1, <2>2 DEF AtLeast
    <2> QED
      BY <2>1, <2>3, <2>4 DEF AtOrAbove, NoLimit
  <1> QED
    BY <1>1, <1>2

\* A window of n at least is no smaller than it was, and positive where it was.
LEMMA NotUnderFacts ==
  ASSUME NEW w \in Nat \cup {NoLimit}, NEW n \in Nat
  PROVE  /\ NotUnder(w, n) \in Nat \cup {NoLimit} /\ (NotUnder(w, n) = NoLimit <=> w = NoLimit)
         /\ AtOrAbove(NotUnder(w, n), w)
         /\ w \in Nat /\ w > 0 => NotUnder(w, n) > 0
         /\ w = 0 /\ n = 0 => NotUnder(w, n) = 0
  <1>1. CASE w = NoLimit
    BY <1>1 DEF NotUnder, AtOrAbove, NoLimit
  <1>2. CASE w \in Nat
    <2>1. w # NoLimit
      BY <1>2 DEF NoLimit
    <2>2. PICK v \in Nat : v = AtLeast(w, n) /\ v >= w /\ (w = 0 /\ n = 0 => v = 0)
      BY <1>2 DEF AtLeast
    <2>3. NotUnder(w, n) = v
      BY <2>1, <2>2 DEF NotUnder
    <2> QED
      BY <1>2, <2>1, <2>2, <2>3 DEF AtOrAbove, NoLimit
  <1> QED
    BY <1>1, <1>2

LEMMA AboveTransitive ==
  ASSUME NEW u \in Nat \cup {NoLimit}, NEW v \in Nat \cup {NoLimit},
         NEW w \in Nat \cup {NoLimit}, AtOrAbove(u, v), AtOrAbove(v, w)
  PROVE  AtOrAbove(u, w)
  BY DEF AtOrAbove, NoLimit

LEMMA CountDownType ==
  ASSUME NEW c \in Windows
  PROVE  /\ CountDown(c) \in Windows
         /\ CountDown(c) = [c EXCEPT !.inFlight = AtLeast(c.inFlight - 1, 0)]
  BY DEF CountDown, Windows, AtLeast

\* A decrease sets m_recPoint and takes m_beta or m_cubicBeta off the window at most.
\* CUBIC then has a threshold, and a maximum if there was a window.
LEMMA DecreaseFacts ==
  ASSUME TypeOK, NEW c \in Windows
  PROVE  /\ WindowDecrease(c) \in Windows
         /\ WindowDecrease(c).inFlight = c.inFlight /\ WindowDecrease(c).highData = c.highData
         /\ ~MayDecrease(c) => WindowDecrease(c) = c
         /\ MayDecrease(c) => WindowDecrease(c).recPoint = RecPoint(c)
         /\ AtOrAbove(WindowDecrease(c).window, Reduced(c.window))
         /\ WindowDecrease(c).window = NoLimit <=> c.window = NoLimit
         /\ c.window \in Nat /\ c.window > 0 => WindowDecrease(c).window > 0
         /\ a.algorithm = "CUBIC" /\ MayDecrease(c)
              => /\ c.window # 0 => WindowDecrease(c).wmax = TRUE
                 /\ c.window = 0 => WindowDecrease(c).wmax = FALSE
                 /\ c.window = 0 /\ a.initial = 0
                      => WindowDecrease(c).window = 0 /\ WindowDecrease(c).ssthresh = 0
  <1>1. /\ InitialWindow \in Nat /\ c.window \in Nat \cup {NoLimit} /\ seq \in Int
        /\ c.highData \in Nat
        /\ a.algorithm \in {"AIMD", "BIC", "CUBIC"}
        /\ a.initial = 0 <=> InitialWindow = 0
    <2>1. c.window \in Nat \cup {NoLimit} /\ c.highData \in Nat
      BY DEF Windows
    <2>2. seq \in Int
      BY DEF TypeOK
    <2> QED
      BY <2>1, <2>2, Attribute
  <1>2. PICK r \in Nat \cup {NoLimit} :
          /\ r = Reduced(c.window)
          /\ r = NoLimit <=> c.window = NoLimit
          /\ c.window \in Nat => r \in Nat /\ r <= c.window /\ (r > 0 <=> c.window > 0)
          /\ AtOrAbove(c.window, r) /\ AtOrAbove(r, r)
    <2>1. Reduced(c.window) \in Nat \cup {NoLimit}
      BY <1>1, ReducedSmaller
    <2> QED
      BY <1>1, <2>1, ReducedSmaller
  <1>3. PICK k \in Nat : k = InitialWindow
    BY <1>1
  <1>4. PICK v \in Nat \cup {NoLimit} :
          /\ v = NotUnder(r, k) /\ (v = NoLimit <=> r = NoLimit)
          /\ AtOrAbove(v, r)
          /\ r \in Nat /\ r > 0 => v > 0
          /\ r = 0 /\ k = 0 => v = 0
    BY NotUnderFacts
  <1>5. PICK d : d = CASE a.algorithm = "AIMD" -> AimdDecrease(c)
                       [] a.algorithm = "BIC" -> BicDecrease(c)
                       [] a.algorithm = "CUBIC" -> CubicDecrease(c)
    OBVIOUS
  <1>6. /\ d \in Windows /\ d.inFlight = c.inFlight /\ d.highData = c.highData
        /\ d.window \in {r, v}
        /\ a.algorithm = "CUBIC"
             => /\ c.window # 0 => d.wmax = TRUE
                /\ c.window = 0 => d.wmax = FALSE
                /\ d.window = v /\ d.ssthresh = v
    <2>1. CASE a.algorithm = "AIMD"
      <3>1. d = [c EXCEPT !.ssthresh = r, !.window = r]
        BY <1>2, <1>5, <2>1 DEF AimdDecrease
      <3> QED
        BY <2>1, <3>1 DEF Windows
    <2>2. CASE a.algorithm = "BIC"
      <3>1. d = BicDecrease(c)
        BY <1>5, <2>2
      <3>2. \/ d = [c EXCEPT !.ssthresh = r, !.window = r]
            \/ d = [c EXCEPT !.window = r]
        BY <1>2, <3>1 DEF BicDecrease, AimdDecrease
      <3> QED
        BY <2>2, <3>2 DEF Windows
    <2>3. CASE a.algorithm = "CUBIC"
      <3>1. (c.window # 0) \in BOOLEAN
        OBVIOUS
      <3>2. d = CubicDecrease(c)
        BY <1>5, <2>3
      <3>3. NotUnder(Reduced(c.window), InitialWindow) = v
        BY <1>2, <1>3, <1>4
      <3>4. CubicDecrease(c) = [c EXCEPT !.wmax = c.window # 0, !.ssthresh = v, !.window = v]
        BY <3>3, Zenon DEF CubicDecrease
      <3>5. d = [c EXCEPT !.wmax = c.window # 0, !.ssthresh = v, !.window = v]
        BY <3>2, <3>4, Zenon
      <3>6. /\ d \in Windows /\ d.inFlight = c.inFlight /\ d.highData = c.highData
            /\ d.window = v /\ d.ssthresh = v
        BY <3>1, <3>5 DEF Windows
      <3>7. d.wmax = (c.window # 0)
        BY <3>5 DEF Windows
      <3>8. (c.window # 0 => d.wmax = TRUE) /\ (c.window = 0 => d.wmax = FALSE)
        BY <3>6, <3>7 DEF Windows
      <3> QED
        BY <3>6, <3>8
    <2> QED
      BY <1>1, <2>1, <2>2, <2>3
  <1>7. WindowDecrease(c) =
          IF MayDecrease(c)
            THEN [d EXCEPT !.recPoint = RecPoint(c), !.window = NotUnder(@, InitialWindow)]
            ELSE c
    BY <1>5 DEF WindowDecrease
  <1>8. CASE MayDecrease(c)
    <2>1. PICK p \in Int : p = RecPoint(c)
      BY <1>1 DEF RecPoint
    <2>2. d.window \in Nat \cup {NoLimit} /\ (d.window = NoLimit <=> r = NoLimit)
          /\ AtOrAbove(d.window, r)
          /\ (r \in Nat /\ r > 0 => d.window > 0)
      BY <1>2, <1>4, <1>6
    <2>3. PICK u \in Nat \cup {NoLimit} :
            /\ u = NotUnder(d.window, k) /\ (u = NoLimit <=> d.window = NoLimit)
            /\ AtOrAbove(u, d.window)
            /\ d.window \in Nat /\ d.window > 0 => u > 0
            /\ d.window = 0 /\ k = 0 => u = 0
      BY <2>2, NotUnderFacts
    <2>4. WindowDecrease(c) = [d EXCEPT !.recPoint = p, !.window = u]
      BY <1>3, <1>7, <1>8, <2>1, <2>3
    <2>5. PICK e \in Windows :
            /\ e = WindowDecrease(c)
            /\ e.inFlight = d.inFlight /\ e.highData = d.highData
            /\ e.recPoint = p /\ e.window = u /\ e.wmax = d.wmax /\ e.ssthresh = d.ssthresh
      <3>1. [d EXCEPT !.recPoint = p, !.window = u] \in Windows
        BY <1>6 DEF Windows
      <3> QED
        BY <1>6, <2>4, <3>1 DEF Windows
    <2>6. AtOrAbove(e.window, r)
      BY <2>2, <2>3, <2>5, AboveTransitive
    <2>7. e.window = NoLimit <=> c.window = NoLimit
      BY <1>2, <2>2, <2>3, <2>5
    <2>8. ASSUME c.window \in Nat, c.window > 0 PROVE e.window > 0
      <3>1. r \in Nat /\ r > 0 /\ d.window > 0 /\ d.window # NoLimit
        BY <1>2, <2>2, <2>8 DEF NoLimit
      <3> QED
        BY <2>2, <2>3, <2>5, <3>1
    <2>9. ASSUME a.algorithm = "CUBIC", c.window = 0, a.initial = 0
          PROVE  e.window = 0 /\ e.ssthresh = 0
      <3>1. r = 0 /\ k = 0
        BY <1>1, <1>2, <1>3, <2>9
      <3> QED
        BY <1>4, <1>6, <2>3, <2>5, <2>9, <3>1
    <2> QED
      BY <1>2, <1>6, <1>8, <2>1, <2>5, <2>6, <2>7, <2>8, <2>9
  <1>9. CASE ~MayDecrease(c)
    BY <1>1, <1>2, <1>7, <1>9
  <1> QED
    BY <1>8, <1>9

\* Data never closes the window, but for BIC beyond its low window: by a packet.
\* It gives CUBIC no window to divide by.
LEMMA IncreaseFacts ==
  ASSUME TypeOK, NEW c \in Windows, NEW e \in WindowIncrease(c)
  PROVE  /\ e \in Windows
         /\ e.inFlight = c.inFlight /\ e.highData = c.highData /\ e.recPoint = c.recPoint
         /\ e.ssthresh = c.ssthresh /\ e.wmax = c.wmax
         /\ AtOrAbove(e.window, Unreduced(c))
         /\ c.window \in Nat /\ (c.window > 0 \/ SlowStart(c))
              => e.window \in Nat /\ (a.algorithm # "BIC" => e.window >= c.window)
         /\ c.window = 0 /\ SlowStart(c) => e.window > 0
  <1>1. c.window \in Nat \cup {NoLimit}
    BY DEF Windows
  <1>2. /\ a.algorithm \in {"AIMD", "BIC", "CUBIC"}
        /\ LowWindow \in Nat /\ LowWindow >= 2 /\ Leaps \subseteq Nat
    BY Attribute, WindowAssumption
  <1>3. CASE c.window = NoLimit \/ (c.window = 0 /\ ~SlowStart(c))
    <2>1. e = [c EXCEPT !.window = NoLimit]
      BY <1>3 DEF WindowIncrease
    <2>2. /\ e \in Windows /\ e.window = NoLimit
          /\ e.inFlight = c.inFlight /\ e.highData = c.highData /\ e.recPoint = c.recPoint
          /\ e.ssthresh = c.ssthresh /\ e.wmax = c.wmax
      BY <2>1 DEF Windows
    <2>3. ~(c.window \in Nat /\ (c.window > 0 \/ SlowStart(c)))
      BY <1>3 DEF NoLimit
    <2>4. ~(c.window = 0 /\ SlowStart(c))
      BY <1>3 DEF NoLimit
    <2> QED
      BY <2>2, <2>3, <2>4 DEF AtOrAbove
  <1>4. CASE ~(c.window = NoLimit \/ (c.window = 0 /\ ~SlowStart(c)))
    <2>1. PICK w \in Nat : w = c.window /\ w # NoLimit /\ (w = 0 => SlowStart(c))
      BY <1>1, <1>4
    <2>2. PICK d : /\ e = [c EXCEPT !.window = @ + d]
                   /\ d \in CASE a.algorithm = "AIMD" -> AimdIncrease(c)
                              [] a.algorithm = "BIC" -> BicIncrease(c)
                              [] a.algorithm = "CUBIC" -> CubicIncrease(c)
      BY <1>4 DEF WindowIncrease
    <2>3. AimdIncrease(c) \subseteq Nat /\ CubicIncrease(c) \subseteq Nat
      <3>1. Unit \in Nat /\ 0 .. Unit \subseteq Nat
        BY DEF Unit
      <3> QED
        BY <1>2, <3>1 DEF AimdIncrease, CubicIncrease
    <2>4. SlowStart(c) /\ (w = 0) => d = Unit
      <3>1. ASSUME SlowStart(c), w = 0 PROVE d = Unit
        <4>1. AimdIncrease(c) = {Unit} /\ CubicIncrease(c) = {Unit}
          BY <3>1 DEF AimdIncrease, CubicIncrease
        <4>2. Low(c)
          BY <1>2, <2>1, <3>1 DEF Low, Unit
        <4>3. BicIncrease(c) = AimdIncrease(c)
          BY <4>2 DEF BicIncrease
        <4> QED
          BY <1>2, <2>2, <4>1, <4>3
      <3> QED
        BY <3>1
    <2>5. d \in Nat \/ (a.algorithm = "BIC" /\ ~Low(c) /\ d \in Int /\ d >= -Unit)
      <3>1. CASE a.algorithm # "BIC"
        BY <1>2, <2>2, <2>3, <3>1
      <3>2. CASE a.algorithm = "BIC"
        <4>1. d \in BicIncrease(c)
          BY <2>2, <3>2
        <4>2. CASE Low(c)
          BY <2>3, <4>1, <4>2 DEF BicIncrease
        <4>3. CASE ~Low(c)
          <5>1. d \in -Unit .. Unit + 1
            BY <4>1, <4>3 DEF BicIncrease
          <5>2. d \in Int /\ d >= -Unit
            BY <5>1 DEF Unit
          <5> QED
            BY <3>2, <4>3, <5>2
        <4> QED
          BY <4>2, <4>3
      <3> QED
        BY <3>1, <3>2
    <2>6. PICK v \in Nat : /\ v = w + d
                           /\ AtOrAbove(v, Unreduced(c))
                           /\ a.algorithm # "BIC" => v >= w
                           /\ w = 0 => v > 0
      <3>1. CASE d \in Nat
        <4>1. w + d \in Nat /\ w + d >= w
          BY <2>1, <3>1
        <4>2. w = 0 => w + d > 0
          BY <2>1, <2>4 DEF Unit
        <4>3. Unreduced(c) = w \/ (Unreduced(c) = w - Unit /\ ~Low(c))
          BY <2>1 DEF Unreduced
        <4>5. ~Low(c) => w >= 4
          BY <1>2, <2>1 DEF Low, Unit
        <4>4. AtOrAbove(w + d, Unreduced(c))
          <5>1. CASE Unreduced(c) = w
            BY <2>1, <4>1, <5>1 DEF AtOrAbove
          <5>2. CASE Unreduced(c) = w - Unit /\ ~Low(c)
            BY <2>1, <4>1, <4>5, <5>2 DEF AtOrAbove, NoLimit, Unit
          <5> QED
            BY <4>3, <5>1, <5>2
        <4> QED
          BY <4>1, <4>2, <4>4
      <3>2. CASE a.algorithm = "BIC" /\ ~Low(c) /\ d \in Int /\ d >= -Unit
        <4>1. w >= 4
          BY <1>2, <2>1, <3>2 DEF Low, Unit
        <4>2. Unreduced(c) = w - Unit
          BY <2>1, <3>2 DEF Unreduced
        <4>3. w + d \in Nat /\ w + d >= w - Unit /\ w - Unit # NoLimit
          BY <2>1, <3>2, <4>1 DEF Unit, NoLimit
        <4> QED
          BY <3>2, <4>1, <4>2, <4>3 DEF AtOrAbove
      <3> QED
        BY <2>5, <3>1, <3>2
    <2>7. e = [c EXCEPT !.window = v]
      BY <2>1, <2>2, <2>6
    <2>8. /\ e \in Windows /\ e.window = v
          /\ e.inFlight = c.inFlight /\ e.highData = c.highData /\ e.recPoint = c.recPoint
          /\ e.ssthresh = c.ssthresh /\ e.wmax = c.wmax
      BY <2>7 DEF Windows
    <2> QED
      BY <2>1, <2>6, <2>8
  <1> QED
    BY <1>3, <1>4

LEMMA HighData ==
  ASSUME TypeOK, NEW n \in Numbers
  PROVE  LET high == [cc EXCEPT !.highData = AtLeast(@, n)]
         IN  /\ high \in Windows /\ high.inFlight = cc.inFlight /\ high.window = cc.window
             /\ high.recPoint = cc.recPoint /\ high.ssthresh = cc.ssthresh
             /\ high.wmax = cc.wmax
             /\ high.highData \in {cc.highData, n}
             /\ Low(high) = Low(cc) /\ SlowStart(high) = SlowStart(cc)
             /\ Unreduced(high) = Unreduced(cc)
  <1>1. cc \in Windows /\ n \in Nat
    BY DEF TypeOK, Numbers
  <1>2. PICK h \in Nat : h = AtLeast(cc.highData, n) /\ h \in {cc.highData, n}
    BY <1>1 DEF AtLeast, Windows
  <1>3. [cc EXCEPT !.highData = AtLeast(@, n)] = [cc EXCEPT !.highData = h]
    BY <1>2
  <1>4. PICK high : high = [cc EXCEPT !.highData = h]
    OBVIOUS
  <1>5. /\ high \in Windows /\ high.inFlight = cc.inFlight /\ high.window = cc.window
        /\ high.recPoint = cc.recPoint /\ high.ssthresh = cc.ssthresh
        /\ high.wmax = cc.wmax /\ high.highData = h
    BY <1>1, <1>4 DEF Windows
  <1>6. Low(high) = Low(cc) /\ SlowStart(high) = SlowStart(cc)
    BY <1>5 DEF Low, SlowStart
  <1>7. Unreduced(high) = Unreduced(cc)
    BY <1>5, <1>6 DEF Unreduced
  <1> QED
    BY <1>2, <1>3, <1>4, <1>5, <1>6, <1>7

LEMMA TimeoutType ==
  ASSUME TypeOK, NEW c \in Windows
  PROVE  /\ WindowOnTimeout(c) \in Windows
         /\ WindowOnTimeout(c).highData = c.highData
         /\ Windowed => WindowOnTimeout(c).inFlight = AtLeast(c.inFlight - 1, 0)
  <1>1. CASE a.kind = "pcon"
    <2>1. WindowOnTimeout(c) = CountDown(WindowDecrease(c))
      BY <1>1 DEF WindowOnTimeout
    <2>2. PICK d \in Windows : /\ d = WindowDecrease(c) /\ d.inFlight = c.inFlight
                              /\ d.highData = c.highData
      BY DecreaseFacts
    <2>3. CountDown(d) \in Windows /\ CountDown(d) = [d EXCEPT !.inFlight = AtLeast(d.inFlight - 1, 0)]
      BY CountDownType
    <2> QED
      BY <2>1, <2>2, <2>3 DEF Windows
  <1>2. CASE a.kind = "window"
    <2>1. WindowOnTimeout(c) = IF a.reset THEN [CountDown(c) EXCEPT !.window = InitialWindow]
                                          ELSE CountDown(c)
      BY <1>2 DEF WindowOnTimeout
    <2>2. CountDown(c) \in Windows /\ CountDown(c) = [c EXCEPT !.inFlight = AtLeast(c.inFlight - 1, 0)]
      BY CountDownType
    <2>3. CountDown(c).inFlight = AtLeast(c.inFlight - 1, 0)
      BY <2>2 DEF Windows
    <2>4. PICK w \in Nat : w = InitialWindow
      BY Attribute
    <2>5. \/ WindowOnTimeout(c) = [CountDown(c) EXCEPT !.window = w]
          \/ WindowOnTimeout(c) = CountDown(c)
      BY <2>1, <2>4
    <2> QED
      BY <2>2, <2>3, <2>5 DEF Windows
  <1>3. CASE a.kind # "pcon" /\ a.kind # "window"
    BY <1>3 DEF WindowOnTimeout, Windowed
  <1> QED
    BY <1>1, <1>2, <1>3

States == [c : Windows, sending : BOOLEAN]

\* After, unfolded: the state before the check, and one OnTimeout more.
LEMMA AfterSteps ==
  ASSUME TypeOK
  PROVE  /\ \A i \in Nat : After[i] \in States
         /\ After[0] = [c |-> cc, sending |-> sending]
         /\ \A i \in Nat :
              After[i + 1] = [c |-> WindowOnTimeout(After[i].c),
                              sending |-> Scheduled(WindowOnTimeout(After[i].c), After[i].sending)]
  <1> DEFINE F == [x \in States |-> [c |-> WindowOnTimeout(x.c),
                                     sending |-> Scheduled(WindowOnTimeout(x.c), x.sending)]]
             start == [c |-> cc, sending |-> sending]
  <1>1. F \in [States -> States]
    <2>1. ASSUME NEW x \in States
          PROVE  [c |-> WindowOnTimeout(x.c),
                  sending |-> Scheduled(WindowOnTimeout(x.c), x.sending)] \in States
      <3>1. x.c \in Windows /\ x.sending \in BOOLEAN
        BY DEF States
      <3>2. WindowOnTimeout(x.c) \in Windows
        BY <3>1, TimeoutType
      <3>3. Scheduled(WindowOnTimeout(x.c), x.sending) \in BOOLEAN
        BY <3>1, ScheduledType
      <3> QED
        BY <3>2, <3>3 DEF States
    <2> QED
      BY <2>1
  <1>2. start \in States
    BY DEF TypeOK, States
  <1>3. PICK g \in [Nat -> States] : g = [i \in Nat |-> IF i = 0 THEN start ELSE F[g[i - 1]]]
    <2> HIDE DEF F, start
    <2> QED
      BY <1>1, <1>2, Iteration
  <1>4. g = [i \in Nat |-> IF i = 0 THEN start
                           ELSE [c |-> WindowOnTimeout(g[i - 1].c),
                                 sending |-> Scheduled(WindowOnTimeout(g[i - 1].c),
                                                       g[i - 1].sending)]]
    <2>1. \A i \in Nat \ {0} : F[g[i - 1]] = [c |-> WindowOnTimeout(g[i - 1].c),
                                             sending |-> Scheduled(WindowOnTimeout(g[i - 1].c),
                                                                   g[i - 1].sending)]
      <3>1. \A i \in Nat \ {0} : i - 1 \in Nat
        OBVIOUS
      <3>2. \A i \in Nat \ {0} : g[i - 1] \in States
        BY <3>1
      <3> QED
        BY <3>2
    <2> HIDE DEF F, start
    <2> QED
      BY <1>3, <2>1
  <1>5. After = [i \in Nat |-> IF i = 0 THEN start
                               ELSE [c |-> WindowOnTimeout(After[i - 1].c),
                                     sending |-> Scheduled(WindowOnTimeout(After[i - 1].c),
                                                           After[i - 1].sending)]]
    BY <1>4 DEF After
  <1>6. After[0] = start
    BY <1>5
  <1>7. ASSUME NEW i \in Nat
        PROVE  After[i + 1] = [c |-> WindowOnTimeout(After[i].c),
                               sending |-> Scheduled(WindowOnTimeout(After[i].c),
                                                     After[i].sending)]
    <2>1. i + 1 \in Nat /\ i + 1 # 0 /\ (i + 1) - 1 = i
      OBVIOUS
    <2> QED
      BY <1>5, <2>1
  <1>8. \A i \in Nat : After[i] \in States
    <2> DEFINE T == {i \in Nat : After[i] \in States}
    <2>1. 0 \in T
      BY <1>2, <1>6
    <2>2. ASSUME NEW i \in T \cap Nat PROVE i + 1 \in T
      <3>1. After[i + 1] = F[After[i]]
        BY <1>7
      <3> HIDE DEF F
      <3> QED
        BY <1>1, <3>1
    <2>3. Nat \subseteq T
      <3> HIDE DEF T
      <3> QED
        BY <2>1, <2>2, NatSets
    <2> QED
      BY <2>3
  <1> QED
    BY <1>6, <1>7, <1>8

-----------------------------------------------------------------------------
(* The entries that may time out. *)

Distinct(s) == \A i, j \in DOMAIN s : s[i] = s[j] => i = j
Members(s) == {s[i] : i \in DOMAIN s}

LEMMA AppendFacts ==
  ASSUME NEW s \in Seq(Numbers), NEW n \in Numbers, n \notin Members(s), Distinct(s)
  PROVE  /\ Append(s, n) \in Seq(Numbers) /\ Len(Append(s, n)) = Len(s) + 1
         /\ Distinct(Append(s, n)) /\ Members(Append(s, n)) = Members(s) \cup {n}
  <1> DEFINE t == Append(s, n)
  <1>1. /\ t \in Seq(Numbers) /\ Len(t) = Len(s) + 1 /\ Len(s) \in Nat
        /\ DOMAIN t = 1 .. Len(s) + 1 /\ DOMAIN s = 1 .. Len(s)
        /\ \A i \in 1 .. Len(s) : t[i] = s[i]
        /\ t[Len(s) + 1] = n
    BY AppendProperties
  <1> HIDE DEF t
  <1>2. \A i \in 1 .. Len(s) : s[i] # n
    BY <1>1 DEF Members
  <1>3. Distinct(t)
    <2>1. \A i \in 1 .. Len(s) + 1 : i \in 1 .. Len(s) \/ i = Len(s) + 1
      BY <1>1
    <2>2. ASSUME NEW i \in DOMAIN t, NEW j \in DOMAIN t, t[i] = t[j] PROVE i = j
      <3>1. i \in 1 .. Len(s) \/ i = Len(s) + 1
        BY <1>1, <2>1
      <3>2. j \in 1 .. Len(s) \/ j = Len(s) + 1
        BY <1>1, <2>1
      <3> QED
        BY <1>1, <1>2, <2>2, <3>1, <3>2 DEF Distinct
    <2> QED
      BY <2>2 DEF Distinct
  <1>4. Members(t) = Members(s) \cup {n}
    <2>1. \A i \in 1 .. Len(s) + 1 : i \in 1 .. Len(s) \/ i = Len(s) + 1
      BY <1>1
    <2>2. \A i \in 1 .. Len(s) : i \in 1 .. Len(s) + 1
      BY <1>1
    <2>3. Len(s) + 1 \in 1 .. Len(s) + 1
      BY <1>1
    <2> QED
      BY <1>1, <2>1, <2>2, <2>3 DEF Members
  <1> QED
    BY <1>1, <1>3, <1>4 DEF t

\* What follows the first n elements.
LEMMA Later ==
  ASSUME NEW s \in Seq(Numbers), NEW n \in 0 .. Len(s)
  PROVE  LET t == SubSeq(s, n + 1, Len(s))
         IN  /\ t \in Seq(Numbers) /\ Len(t) = Len(s) - n /\ DOMAIN t = 1 .. Len(s) - n
             /\ \A i \in 1 .. Len(s) - n : t[i] = s[n + i]
  <1>1. Len(s) \in Nat /\ n \in Nat /\ n <= Len(s) /\ \A i \in 1 .. Len(s) : s[i] \in Numbers
    OBVIOUS
  <1>2. \A i \in n + 1 .. Len(s) : s[i] \in Numbers
    BY <1>1
  <1>3. PICK t : t = SubSeq(s, n + 1, Len(s))
    OBVIOUS
  <1>4. /\ t \in Seq(Numbers)
        /\ Len(t) = IF n + 1 <= Len(s) THEN Len(s) - (n + 1) + 1 ELSE 0
        /\ \A i \in 1 .. Len(s) - (n + 1) + 1 : t[i] = s[(n + 1) + i - 1]
    BY <1>1, <1>2, <1>3, SubSeqProperties
  <1>5. Len(t) = Len(s) - n
    BY <1>1, <1>4
  <1>6. \A i \in 1 .. Len(s) - n : t[i] = s[n + i]
    <2>1. ASSUME NEW i \in 1 .. Len(s) - n PROVE t[i] = s[n + i]
      <3>1. i \in 1 .. Len(s) - (n + 1) + 1
        BY <1>1
      <3>2. t[i] = s[(n + 1) + i - 1]
        BY <1>4, <3>1
      <3>3. (n + 1) + i - 1 = n + i
        BY <1>1
      <3> QED
        BY <3>2, <3>3
    <2> QED
      BY <2>1
  <1> QED
    BY <1>3, <1>4, <1>5, <1>6

LEMMA RestFacts ==
  ASSUME NEW s \in Seq(Numbers), NEW n \in 1 .. Len(s), Distinct(s)
  PROVE  LET t == SubSeq(s, n + 1, Len(s))
         IN  /\ t \in Seq(Numbers) /\ Len(t) = Len(s) - n
             /\ Distinct(t)
             /\ Members(t) = Members(s) \ {s[i] : i \in 1 .. n}
  <1> DEFINE t == SubSeq(s, n + 1, Len(s))
  <1>1. /\ Len(s) \in Nat /\ n \in Nat /\ n <= Len(s)
        /\ t \in Seq(Numbers) /\ Len(t) = Len(s) - n
        /\ \A i \in 1 .. Len(s) - n : t[i] = s[n + i]
        /\ DOMAIN t = 1 .. Len(s) - n /\ DOMAIN s = 1 .. Len(s)
    <2>1. Len(s) \in Nat /\ n \in Nat /\ n <= Len(s) /\ n \in 0 .. Len(s) /\ DOMAIN s = 1 .. Len(s)
      OBVIOUS
    <2>2. /\ t \in Seq(Numbers) /\ Len(t) = Len(s) - n /\ DOMAIN t = 1 .. Len(s) - n
          /\ \A i \in 1 .. Len(s) - n : t[i] = s[n + i]
      <3> HIDE DEF t
      <3>1. t = SubSeq(s, n + 1, Len(s))
        BY DEF t
      <3> QED
        BY <2>1, <3>1, Later
    <2> QED
      BY <2>1, <2>2
  <1> HIDE DEF t
  <1>2. Distinct(t)
    <2>1. ASSUME NEW i \in DOMAIN t, NEW j \in DOMAIN t, t[i] = t[j] PROVE i = j
      <3>1. n + i \in DOMAIN s /\ n + j \in DOMAIN s /\ s[n + i] = s[n + j]
        <4>1. i \in 1 .. Len(s) - n /\ j \in 1 .. Len(s) - n
          BY <1>1
        <4>2. t[i] = s[n + i] /\ t[j] = s[n + j]
          BY <1>1, <4>1
        <4>3. n + i \in DOMAIN s /\ n + j \in DOMAIN s
          BY <1>1, <4>1
        <4> QED
          BY <2>1, <4>2, <4>3
      <3>2. n + i = n + j
        BY <3>1 DEF Distinct
      <3> QED
        BY <1>1, <3>2
    <2> QED
      BY <2>1 DEF Distinct
  <1>3. Members(t) = Members(s) \ {s[i] : i \in 1 .. n}
    <2>1. ASSUME NEW x \in Members(t) PROVE x \in Members(s) \ {s[i] : i \in 1 .. n}
      <3>1. PICK i \in 1 .. Len(s) - n : x = s[n + i]
        BY <1>1 DEF Members
      <3>2. n + i \in DOMAIN s
        BY <1>1
      <3>3. ASSUME NEW j \in 1 .. n PROVE x # s[j]
        <4>1. j \in DOMAIN s /\ j # n + i
          BY <1>1
        <4> QED
          BY <3>1, <3>2, <4>1 DEF Distinct
      <3> QED
        BY <3>1, <3>2, <3>3 DEF Members
    <2>2. ASSUME NEW x \in Members(s), x \notin {s[i] : i \in 1 .. n} PROVE x \in Members(t)
      <3>1. PICK k \in 1 .. Len(s) : x = s[k]
        BY <1>1 DEF Members
      <3>2. k \notin 1 .. n
        BY <2>2, <3>1
      <3>3. k - n \in 1 .. Len(s) - n /\ n + (k - n) = k
        BY <1>1, <3>2
      <3>4. t[k - n] = x
        BY <1>1, <3>1, <3>3
      <3> QED
        BY <1>1, <3>3, <3>4 DEF Members
    <2> QED
      BY <2>1, <2>2
  <1> QED
    BY <1>1, <1>2, <1>3 DEF t

LEMMA ErasedFacts ==
  ASSUME TypeOK, Distinct(timeouts), NEW n
  PROVE  /\ Erased(n) \in Seq(Numbers)
         /\ Len(Erased(n)) >= Len(timeouts) - 1 /\ Len(Erased(n)) <= Len(timeouts)
         /\ Distinct(Erased(n)) /\ Members(Erased(n)) = Waiting \ {n}
  <1>1. timeouts \in Seq(Numbers) /\ Len(timeouts) \in Nat /\ DOMAIN timeouts = 1 .. Len(timeouts)
    BY DEF TypeOK
  <1>2. CASE n \notin Waiting
    BY <1>1, <1>2 DEF Erased, Members, Waiting
  <1>3. CASE n \in Waiting
    <2>1. PICK at \in 1 .. Len(timeouts) :
            at = (CHOOSE i \in DOMAIN timeouts : timeouts[i] = n) /\ timeouts[at] = n
      <3>1. \E i \in DOMAIN timeouts : timeouts[i] = n
        BY <1>3 DEF Waiting
      <3> QED
        BY <1>1, <3>1
    <2> DEFINE L == Len(timeouts)
               u == SubSeq(timeouts, 1, at - 1)
               v == SubSeq(timeouts, at + 1, L)
               t == u \o v
    <2>2. Erased(n) = t
      BY <1>3, <2>1 DEF Erased
    <2>3. at \in Nat /\ at >= 1 /\ at <= L /\ L \in Nat
      BY <1>1, <2>1
    <2>4. u \in Seq(Numbers) /\ Len(u) = at - 1 /\ \A i \in 1 .. at - 1 : u[i] = timeouts[i]
      <3>1. u \in Seq(Numbers) /\ Len(u) = at - 1
        BY <1>1, <2>3
      <3>2. ASSUME NEW i \in 1 .. at - 1 PROVE u[i] = timeouts[i]
        BY <1>1, <2>3, <3>1
      <3> QED
        BY <3>1, <3>2
    <2>5. v \in Seq(Numbers) /\ Len(v) = L - at /\ \A i \in 1 .. L - at : v[i] = timeouts[at + i]
      <3>1. at \in 0 .. L
        BY <2>3
      <3> QED
        BY <1>1, <3>1, Later
    <2> HIDE DEF u, v
    <2>6. t \in Seq(Numbers) /\ Len(t) = L - 1 /\ DOMAIN t = 1 .. L - 1
      <3>1. t \in Seq(Numbers) /\ Len(t) = Len(u) + Len(v)
        BY <2>4, <2>5, ConcatProperties
      <3>2. Len(t) = L - 1
        BY <2>3, <2>4, <2>5, <3>1
      <3> QED
        BY <3>1, <3>2
    <2>7. \A i \in 1 .. L - 1 : t[i] = IF i < at THEN timeouts[i] ELSE timeouts[i + 1]
      <3>1. ASSUME NEW i \in 1 .. L - 1, i < at PROVE t[i] = timeouts[i]
        <4>1. i \in 1 .. Len(u) /\ i \in 1 .. at - 1
          BY <2>3, <2>4, <3>1
        <4> QED
          BY <2>4, <2>5, <4>1, ConcatProperties
      <3>2. ASSUME NEW i \in 1 .. L - 1, ~(i < at) PROVE t[i] = timeouts[i + 1]
        <4>1. i \in Len(u) + 1 .. Len(u) + Len(v) /\ i - Len(u) \in 1 .. L - at
              /\ at + (i - Len(u)) = i + 1
          BY <2>3, <2>4, <2>5, <3>2
        <4>2. t[i] = v[i - Len(u)]
          <5>1. i \in 1 .. Len(u) + Len(v) /\ ~(i <= Len(u))
            BY <2>3, <2>4, <2>5, <4>1
          <5> QED
            BY <2>4, <2>5, <5>1, ConcatProperties
        <4> QED
          BY <2>5, <4>1, <4>2
      <3> QED
        BY <3>1, <3>2
    <2> HIDE DEF t
    <2>8. Distinct(t)
      <3>1. ASSUME NEW i \in DOMAIN t, NEW j \in DOMAIN t, t[i] = t[j] PROVE i = j
        <4> DEFINE p == IF i < at THEN i ELSE i + 1
                   q == IF j < at THEN j ELSE j + 1
        <4>1. p \in 1 .. L /\ q \in 1 .. L /\ timeouts[p] = timeouts[q]
          BY <2>3, <2>6, <2>7, <3>1
        <4>2. p = q
          BY <1>1, <4>1 DEF Distinct
        <4> QED
          BY <2>3, <2>6, <4>2
      <3> QED
        BY <3>1 DEF Distinct
    <2>9. Members(t) = Waiting \ {n}
      <3>1. ASSUME NEW x \in Members(t) PROVE x \in Waiting \ {n}
        <4>1. PICK i \in 1 .. L - 1 : x = t[i]
          BY <2>6 DEF Members
        <4>2. PICK p \in 1 .. L : x = timeouts[p] /\ p # at
          <5>1. CASE i < at
            BY <2>3, <2>7, <4>1, <5>1
          <5>2. CASE ~(i < at)
            BY <2>3, <2>7, <4>1, <5>2
          <5> QED
            BY <5>1, <5>2
        <4> QED
          BY <1>1, <2>1, <4>2 DEF Waiting, Distinct
      <3>2. ASSUME NEW x \in Waiting, x # n PROVE x \in Members(t)
        <4>1. PICK p \in 1 .. L : x = timeouts[p] /\ p # at
          BY <1>1, <2>1, <3>2 DEF Waiting
        <4>2. CASE p < at
          <5>1. p \in 1 .. L - 1 /\ t[p] = x
            BY <2>3, <2>7, <4>1, <4>2
          <5> QED
            BY <2>6, <5>1 DEF Members
        <4>3. CASE ~(p < at)
          <5>1. p - 1 \in 1 .. L - 1 /\ ~(p - 1 < at) /\ (p - 1) + 1 = p
            BY <2>3, <4>1, <4>3
          <5>2. t[p - 1] = x
            BY <2>7, <4>1, <5>1
          <5> QED
            BY <2>6, <5>1, <5>2 DEF Members
        <4> QED
          BY <4>2, <4>3
      <3> QED
        BY <3>1, <3>2
    <2> QED
      BY <2>2, <2>3, <2>6, <2>8, <2>9
  <1> QED
    BY <1>2, <1>3

-----------------------------------------------------------------------------
(* The invariants. *)

\* A number has one entry in m_seqTimeouts at most and is not also to be sent
\* again.  Except with Zipf, whose numbers are drawn, all are below m_seq.
QueueInv ==
  /\ Distinct(timeouts) /\ retxSeqs \cap Waiting = {}
  /\ a.kind # "zipf" => \A n \in retxSeqs \cup Waiting \cup wire : n < seq

\* Data was only seen for numbers that were sent.
HighInv == cc.highData = 0 \/ cc.highData < seq

\* CUBIC has a threshold only after a decrease from a window that was not zero, unless it
\* starts with a window of zero: then a decrease may keep it there, with a threshold of
\* zero, until the next Data.
Cubic(c) ==
  a.kind = "pcon" /\ a.algorithm = "CUBIC"
    => /\ c.window # NoLimit
       /\ c.window > 0 \/ (a.initial = 0 /\ ~c.wmax)
       /\ \/ c.wmax \/ c.ssthresh = NoLimit
          \/ a.initial = 0 /\ c.window = 0 /\ c.ssthresh = 0

CubicInv == Cubic(cc)

\* What the estimator's history says of a number agrees with how often it was
\* sent and whether it may time out.
KarnInv ==
  a.kind # "batches"
    => \A n \in Numbers :
         /\ history[n] = "none" => counts[n] = 0 /\ n \notin Waiting
         /\ history[n] = "fresh" => counts[n] = 1 /\ n \in Waiting

IInv ==
  TypeOK /\ QueueInv /\ HighInv /\ CubicInv /\ KarnInv /\ NoStall /\ AssertionsHold

-----------------------------------------------------------------------------
(* Timeouts and Data. *)

\* Between c and d the window is not reduced, or it is once, after newer Data than at the
\* last time.
Spaced(c, d) ==
  IF d.recPoint = c.recPoint
  THEN AtOrAbove(d.window, Unreduced(c))
  ELSE /\ AtOrAbove(d.window, Reduced(c.window))
       /\ c.recPoint < 2 * d.highData
       /\ 2 * seq <= d.recPoint

\* Nor is it reduced where it stays.
LEMMA SameSpaced ==
  ASSUME NEW c \in Windows, NEW d, d.window = c.window, d.recPoint = c.recPoint
  PROVE  Spaced(c, d)
  <1>1. c.window \in Nat \cup {NoLimit}
    BY DEF Windows
  <1>2. AtOrAbove(c.window, Unreduced(c))
    <2>1. CASE a.algorithm = "BIC" /\ ~Low(c) /\ c.window # NoLimit
      <3>1. c.window \in Nat /\ c.window >= 4
        BY <1>1, <2>1, WindowAssumption DEF Low, Unit
      <3>2. Unreduced(c) = c.window - Unit
        BY <2>1 DEF Unreduced
      <3> QED
        BY <3>1, <3>2 DEF AtOrAbove, Unit, NoLimit
    <2>2. CASE ~(a.algorithm = "BIC" /\ ~Low(c) /\ c.window # NoLimit)
      <3>1. Unreduced(c) = c.window
        BY <2>2 DEF Unreduced
      <3> QED
        BY <1>1, <3>1 DEF AtOrAbove
    <2> QED
      BY <2>1, <2>2
  <1> QED
    BY <1>2 DEF Spaced

LEMMA SeqPositive ==
  ASSUME IInv, a.kind # "zipf", NEW n \in retxSeqs \cup Waiting \cup wire
  PROVE  seq > 0 /\ cc.highData < seq /\ n < seq /\ n \in Nat
  <1>1. n \in Nat
    BY DEF IInv, TypeOK, Numbers, Waiting
  <1>2. n < seq /\ seq \in Nat /\ (cc.highData = 0 \/ cc.highData < seq)
    BY DEF IInv, TypeOK, QueueInv, HighInv
  <1> QED
    BY <1>1, <1>2

\* A decrease from what was only seen below m_seq.
LEMMA DecreaseSafe ==
  ASSUME TypeOK, NEW c \in Windows, c.highData < seq, Cubic(c),
         a.kind = "pcon"
  PROVE  /\ DecreaseAsserted(c) /\ Cubic(WindowDecrease(c))
         /\ a.cwa => Spaced(c, WindowDecrease(c))
         /\ a.cwa => \/ WindowDecrease(c) = c /\ ~MayDecrease(c)
                     \/ WindowDecrease(c).recPoint >= 2 * c.highData
  <1>1. PICK d \in Windows :
          /\ d = WindowDecrease(c) /\ d.highData = c.highData
          /\ ~MayDecrease(c) => d = c
          /\ MayDecrease(c) => d.recPoint = RecPoint(c)
          /\ AtOrAbove(d.window, Reduced(c.window))
          /\ d.window = NoLimit <=> c.window = NoLimit
          /\ c.window \in Nat /\ c.window > 0 => d.window > 0
          /\ a.algorithm = "CUBIC" /\ MayDecrease(c)
               => /\ c.window # 0 => d.wmax = TRUE
                  /\ c.window = 0 => d.wmax = FALSE
                  /\ c.window = 0 /\ a.initial = 0 => d.window = 0 /\ d.ssthresh = 0
    BY DecreaseFacts
  <1>2. /\ seq \in Nat /\ c.highData \in Nat /\ c.recPoint \in Int
        /\ c.window \in Nat \cup {NoLimit} /\ c.wmax \in BOOLEAN
    BY DEF TypeOK, Windows
  <1>3. RecPoint(c) >= 2 * seq /\ RecPoint(c) >= 2 * c.highData /\ RecPoint(c) \in Int
    BY <1>2 DEF RecPoint
  <1>4. DecreaseAsserted(c)
    BY <1>2 DEF DecreaseAsserted
  <1>5. ASSUME a.cwa PROVE Spaced(c, d)
    <2>1. CASE MayDecrease(c)
      <3>1. c.recPoint < 2 * c.highData
        BY <1>2, <1>5, <2>1 DEF MayDecrease
      <3>2. d.recPoint # c.recPoint
        BY <1>1, <1>2, <1>3, <2>1, <3>1
      <3> QED
        BY <1>1, <1>3, <2>1, <3>1, <3>2 DEF Spaced
    <2>2. CASE ~MayDecrease(c)
      BY <1>1, <2>2, SameSpaced
    <2> QED
      BY <2>1, <2>2
  <1>6. Cubic(d)
    <2>1. CASE a.algorithm = "CUBIC" /\ MayDecrease(c)
      <3>1. /\ c.window # NoLimit /\ c.window \in Nat
            /\ c.window > 0 \/ a.initial = 0
        BY <1>2, <2>1 DEF Cubic
      <3>2. CASE c.window > 0
        <4>1. d.window > 0
          BY <1>1, <3>1, <3>2
        <4>2. d.window # NoLimit /\ c.window # 0
          BY <1>1, <3>1, <3>2
        <4>3. d.wmax = TRUE
          BY <1>1, <2>1, <4>2
        <4> QED
          BY <4>1, <4>2, <4>3 DEF Cubic
      <3>3. CASE c.window = 0
        <4>1. a.initial = 0
          BY <3>1, <3>3
        <4>2. d.window = 0 /\ d.ssthresh = 0 /\ d.window # NoLimit
          BY <1>1, <2>1, <3>1, <3>3, <4>1
        <4>3. d.wmax = FALSE
          BY <1>1, <2>1, <3>3
        <4> QED
          BY <4>1, <4>2, <4>3 DEF Cubic
      <3> QED
        BY <3>1, <3>2, <3>3
    <2>2. CASE a.algorithm # "CUBIC"
      BY <2>2 DEF Cubic
    <2>3. CASE ~MayDecrease(c)
      BY <1>1, <2>3
    <2> QED
      BY <2>1, <2>2, <2>3
  <1>7. a.cwa => (d = c /\ ~MayDecrease(c)) \/ d.recPoint >= 2 * c.highData
    BY <1>1, <1>3
  <1> QED
    BY <1>1, <1>4, <1>5, <1>6, <1>7

LEMMA AfterNext ==
  ASSUME TypeOK, NEW i \in Nat
  PROVE  /\ After[0].c = cc /\ After[0].sending = sending
         /\ After[i].c \in Windows /\ After[i].sending \in BOOLEAN
         /\ After[i + 1].c = WindowOnTimeout(After[i].c)
         /\ After[i + 1].sending = Scheduled(After[i + 1].c, After[i].sending)
  <1>1. After[0].c = cc /\ After[0].sending = sending
    BY AfterSteps
  <1>2. After[i].c \in Windows /\ After[i].sending \in BOOLEAN
    BY AfterSteps DEF States
  <1>3. PICK w : w = WindowOnTimeout(After[i].c)
    OBVIOUS
  <1>4. PICK p : p = After[i].sending
    OBVIOUS
  <1>5. After[i + 1] = [c |-> w, sending |-> Scheduled(w, p)]
    BY <1>3, <1>4, AfterSteps
  <1> QED
    BY <1>1, <1>2, <1>3, <1>4, <1>5

\* Every timeout counts one Interest down and tells nothing of Data.
LEMMA AfterInFlight ==
  ASSUME TypeOK
  PROVE  \A i \in Nat : /\ After[i].c.highData = cc.highData
                        /\ Windowed => After[i].c.inFlight = AtLeast(cc.inFlight - i, 0)
  <1> DEFINE T == {i \in Nat :
                     /\ After[i].c.highData = cc.highData
                     /\ Windowed => After[i].c.inFlight = AtLeast(cc.inFlight - i, 0)}
  <1>1. cc.inFlight \in Nat
    BY DEF TypeOK, Windows
  <1>2. 0 \in T
    BY <1>1, AfterSteps DEF AtLeast
  <1>3. ASSUME NEW i \in T \cap Nat PROVE i + 1 \in T
    <2>0. i \in Nat
      OBVIOUS
    <2>1. After[i].c \in Windows
      BY <2>0, AfterNext
    <2>2. After[i + 1].c = WindowOnTimeout(After[i].c)
      <3> HIDE DEF T
      <3> QED
        BY <2>0, AfterNext
    <2>3. /\ After[i + 1].c.highData = After[i].c.highData
          /\ Windowed => After[i + 1].c.inFlight = AtLeast(After[i].c.inFlight - 1, 0)
      BY <2>1, <2>2, TimeoutType
    <2>4. /\ After[i].c.highData = cc.highData
          /\ Windowed => After[i].c.inFlight = AtLeast(cc.inFlight - i, 0)
      BY <1>3
    <2>5. AtLeast(AtLeast(cc.inFlight - i, 0) - 1, 0) = AtLeast(cc.inFlight - (i + 1), 0)
      BY <1>1 DEF AtLeast
    <2> QED
      BY <2>3, <2>4, <2>5
  <1>4. Nat \subseteq T
    <2> HIDE DEF T
    <2> QED
      BY <1>2, <1>3, NatSets
  <1> QED
    BY <1>4

LEMMA PconTimeout ==
  ASSUME a.kind = "pcon", NEW d \in Windows
  PROVE  /\ CountDown(d) \in Windows
         /\ CountDown(d).highData = d.highData /\ CountDown(d).recPoint = d.recPoint
         /\ CountDown(d).window = d.window
         /\ Cubic(d) => Cubic(CountDown(d))
  <1>1. PICK n : n = AtLeast(d.inFlight - 1, 0)
    OBVIOUS
  <1>2. CountDown(d) \in Windows /\ CountDown(d) = [d EXCEPT !.inFlight = n]
    BY <1>1, CountDownType
  <1> QED
    BY <1>2 DEF Windows, Cubic

\* However many Interests time out, ConsumerPcon keeps what it knows of Data,
\* its assertion and CUBIC's threshold.
LEMMA AfterPcon ==
  ASSUME TypeOK, a.kind = "pcon", cc.highData < seq, Cubic(cc)
  PROVE  \A i \in Nat : /\ After[i].c.highData = cc.highData
                        /\ Cubic(After[i].c) /\ DecreaseAsserted(After[i].c)
  <1> DEFINE T == {i \in Nat : After[i].c.highData = cc.highData /\ Cubic(After[i].c)}
  <1>1. 0 \in T
    BY AfterSteps
  <1>2. ASSUME NEW i \in T \cap Nat PROVE i + 1 \in T
    <2>1. PICK c \in Windows : c = After[i].c
      BY AfterSteps DEF States
    <2>2. c.highData = cc.highData /\ Cubic(c)
      BY <1>2, <2>1
    <2>3. PICK d \in Windows : d = WindowDecrease(c) /\ d.highData = c.highData /\ Cubic(d)
      BY <2>2, DecreaseFacts, DecreaseSafe
    <2>4. After[i + 1].c = CountDown(d)
      <3>1. i \in Nat
        OBVIOUS
      <3> HIDE DEF T
      <3>2. After[i + 1].c = WindowOnTimeout(c)
        BY <2>1, <3>1, AfterNext
      <3> QED
        BY <2>3, <3>2 DEF WindowOnTimeout
    <2>5. CountDown(d).highData = cc.highData /\ Cubic(CountDown(d))
      BY <2>2, <2>3, PconTimeout
    <2> QED
      BY <2>4, <2>5
  <1>3. Nat \subseteq T
    <2> HIDE DEF T
    <2> QED
      BY <1>1, <1>2, NatSets
  <1>4. ASSUME NEW i \in Nat PROVE DecreaseAsserted(After[i].c)
    <2>1. After[i].c.highData = cc.highData /\ cc.highData \in Nat /\ seq \in Nat
      BY <1>3 DEF TypeOK, Windows
    <2> QED
      BY <2>1 DEF DecreaseAsserted
  <1> QED
    BY <1>3, <1>4

\* With conservative window adaptation only the first of them reduces the window.
LEMMA AfterCwa ==
  ASSUME TypeOK, a.kind = "pcon", a.cwa, cc.highData < seq, Cubic(cc), NEW n \in Nat, n >= 1
  PROVE  /\ After[n].c.window = WindowDecrease(cc).window
         /\ After[n].c.recPoint = WindowDecrease(cc).recPoint
  <1>0. cc \in Windows /\ cc.highData \in Nat
    BY DEF TypeOK, Windows
  <1>1. PICK d \in Windows :
          d = WindowDecrease(cc) /\ d.highData = cc.highData
          /\ ((d = cc /\ ~MayDecrease(cc)) \/ d.recPoint >= 2 * cc.highData)
    BY <1>0, DecreaseFacts, DecreaseSafe
  <1> DEFINE Same(c) == /\ c.window = d.window /\ c.recPoint = d.recPoint
                        /\ c.highData = d.highData
             T == {i \in Nat : i >= 1 => Same(After[i].c)}
  <1>2. ASSUME NEW c, Same(c) PROVE ~MayDecrease(c)
    <2>1. d.recPoint \in Int
      BY DEF Windows
    <2>2. d.recPoint >= 2 * cc.highData
      BY <1>0, <1>1, <2>1 DEF MayDecrease
    <2> QED
      BY <1>0, <1>1, <1>2, <2>1, <2>2 DEF MayDecrease
  <1>3. 0 \in T
    OBVIOUS
  <1>4. ASSUME NEW i \in T \cap Nat PROVE i + 1 \in T
    <2>1. CASE i = 0
      <3>1. After[0].c = cc /\ After[0 + 1].c = WindowOnTimeout(After[0].c)
        <4> HIDE DEF T, Same
        <4>1. 0 \in Nat
          OBVIOUS
        <4> QED
          BY <4>1, AfterNext
      <3>2. After[1].c = CountDown(d)
        BY <1>1, <3>1 DEF WindowOnTimeout
      <3>3. Same(After[1].c)
        BY <3>2, PconTimeout
      <3> QED
        BY <2>1, <3>3
    <2>2. CASE i # 0
      <3>1. PICK c \in Windows : c = After[i].c
        BY AfterSteps DEF States
      <3>2. Same(c)
        BY <1>4, <2>2, <3>1
      <3>3. WindowDecrease(c) = c
        BY <1>2, <3>2, DecreaseFacts
      <3>4. After[i + 1].c = CountDown(c)
        <4>1. i \in Nat
          OBVIOUS
        <4> HIDE DEF T, Same
        <4>2. After[i + 1].c = WindowOnTimeout(c)
          BY <3>1, <4>1, AfterNext
        <4> QED
          BY <3>3, <4>2 DEF WindowOnTimeout
      <3>5. Same(After[i + 1].c)
        BY <3>2, <3>4, PconTimeout
      <3> QED
        BY <3>5
    <2> QED
      BY <2>1, <2>2
  <1>5. Nat \subseteq T
    <2> HIDE DEF T
    <2> QED
      BY <1>3, <1>4, NatSets
  <1> QED
    BY <1>1, <1>5

\* Only a window that is full leaves no send event behind.
LEMMA ScheduledFacts ==
  ASSUME NEW c \in Windows, NEW p \in BOOLEAN, ~Scheduled(c, p)
  PROVE  Windowed /\ c.inFlight > 0
  <1>1. Windowed /\ Full(c)
    BY DEF Scheduled, ScheduledByRate
  <1>2. c.window \in Nat /\ c.window > 0 /\ c.inFlight \in Nat /\ c.inFlight * Unit >= c.window
    BY <1>1 DEF Windows, Full
  <1> QED
    BY <1>1, <1>2 DEF Unit

\* What one retransmission check makes of the window.
LEMMA CheckFacts ==
  ASSUME IInv, NEW n \in 1 .. Len(timeouts)
  PROVE  /\ After[n].c \in Windows /\ After[n].sending \in BOOLEAN
         /\ a.kind = "pcon" => \A i \in 0 .. n - 1 : DecreaseAsserted(After[i].c)
         /\ After[n].c.highData = cc.highData /\ Cubic(After[n].c)
         /\ Windowed => After[n].c.inFlight = AtLeast(cc.inFlight - n, 0)
         /\ ~After[n].sending => Windowed /\ After[n].c.inFlight > 0
         /\ a.kind = "pcon" /\ a.cwa => Spaced(cc, After[n].c)
  <1>1. TypeOK /\ timeouts \in Seq(Numbers) /\ cc \in Windows
    BY DEF IInv, TypeOK
  <1>2. n \in Nat /\ n >= 1 /\ n - 1 \in Nat /\ (n - 1) + 1 = n
    BY <1>1
  <1>3. /\ After[n].c \in Windows /\ After[n].sending \in BOOLEAN
        /\ After[n - 1].sending \in BOOLEAN
        /\ After[n].sending = Scheduled(After[n].c, After[n - 1].sending)
    <2>1. After[n].c \in Windows /\ After[n].sending \in BOOLEAN
      BY <1>1, <1>2, AfterNext
    <2>2. After[n - 1].sending \in BOOLEAN
      BY <1>1, <1>2, AfterNext
    <2>3. After[(n - 1) + 1].sending = Scheduled(After[(n - 1) + 1].c, After[n - 1].sending)
      BY <1>1, <1>2, AfterNext
    <2> QED
      BY <1>2, <2>1, <2>2, <2>3
  <1>4. ~After[n].sending => Windowed /\ After[n].c.inFlight > 0
    BY <1>3, ScheduledFacts
  <1>5. After[n].c.highData = cc.highData
        /\ (Windowed => After[n].c.inFlight = AtLeast(cc.inFlight - n, 0))
    BY <1>1, <1>2, AfterInFlight
  <1>6. ASSUME a.kind = "pcon"
        PROVE  /\ \A i \in 0 .. n - 1 : DecreaseAsserted(After[i].c)
               /\ Cubic(After[n].c)
               /\ a.cwa => Spaced(cc, After[n].c)
    <2>1. cc.highData < seq /\ Cubic(cc)
      <3>1. timeouts[1] \in Waiting
        BY <1>1, <1>2 DEF Waiting
      <3> QED
        BY <1>6, <3>1, SeqPositive DEF IInv, CubicInv
    <2>2. \A i \in Nat : Cubic(After[i].c) /\ DecreaseAsserted(After[i].c)
      BY <1>1, <1>6, <2>1, AfterPcon
    <2>3. Cubic(After[n].c)
      BY <1>2, <2>2
    <2>4. \A i \in 0 .. n - 1 : DecreaseAsserted(After[i].c)
      <3>1. \A i \in 0 .. n - 1 : i \in Nat
        BY <1>2
      <3> QED
        BY <2>2, <3>1
    <2>5. ASSUME a.cwa PROVE Spaced(cc, After[n].c)
      <3>1. After[n].c.window = WindowDecrease(cc).window
            /\ After[n].c.recPoint = WindowDecrease(cc).recPoint
        BY <1>1, <1>2, <1>6, <2>1, <2>5, AfterCwa
      <3>2. Spaced(cc, WindowDecrease(cc)) /\ WindowDecrease(cc).highData = cc.highData
        BY <1>1, <1>6, <2>1, <2>5, DecreaseFacts, DecreaseSafe
      <3> QED
        BY <1>5, <3>1, <3>2 DEF Spaced
    <2> QED
      BY <2>3, <2>4, <2>5
  <1>7. Cubic(After[n].c)
    BY <1>6 DEF Cubic
  <1> QED
    BY <1>3, <1>4, <1>5, <1>6, <1>7

\* What Data for a number that was sent makes of the window, where no assertion fails.
LEMMA DataFacts ==
  ASSUME IInv, NEW n \in Numbers, n \in wire, NEW marked \in BOOLEAN
  PROVE  /\ DataAsserted(n, marked) \/ CubicOfNothing
         /\ DataAsserted(n, marked)
              => \A d \in WindowOnData(n, marked) :
                   /\ d \in Windows /\ Cubic(d)
                   /\ d.highData = 0 \/ d.highData < seq
                   /\ Windowed => d.inFlight = AtLeast(cc.inFlight - 1, 0)
                   /\ ~Windowed => d = cc
                   /\ a.kind = "pcon" /\ a.cwa => Spaced(cc, d)
  <1>1. TypeOK /\ cc \in Windows /\ (cc.highData = 0 \/ cc.highData < seq) /\ Cubic(cc)
    BY DEF IInv, TypeOK, HighInv, CubicInv
  <1>2. CASE a.kind = "pcon"
    <2>1. cc.highData < seq /\ n < seq
      BY <1>2, SeqPositive
    <2>2. PICK high \in Windows :
            /\ high = [cc EXCEPT !.highData = AtLeast(@, n)]
            /\ high.inFlight = cc.inFlight /\ high.window = cc.window
            /\ high.recPoint = cc.recPoint /\ high.ssthresh = cc.ssthresh
            /\ high.wmax = cc.wmax
            /\ high.highData \in {cc.highData, n}
            /\ SlowStart(high) = SlowStart(cc)
            /\ Unreduced(high) = Unreduced(cc)
      BY <1>1, HighData
    <2>3. high.highData < seq /\ Cubic(high)
      BY <1>1, <2>1, <2>2 DEF Cubic
    <2>4. DecreaseAsserted(high) /\ (IncreaseAsserted(high) \/ CubicOfNothing)
      <3>1. DecreaseAsserted(high)
        BY <1>1, <1>2, <2>3, DecreaseSafe
      <3>2. ASSUME ~IncreaseAsserted(high) PROVE CubicOfNothing
        <4>1. a.algorithm = "CUBIC" /\ ~SlowStart(cc) /\ ~cc.wmax
          BY <2>2, <3>2 DEF IncreaseAsserted
        <4>2. cc.window # NoLimit /\ cc.ssthresh # NoLimit
          BY <1>1, <1>2, <4>1 DEF Cubic, SlowStart
        <4>3. a.initial = 0 /\ cc.window = 0 /\ cc.ssthresh = 0
          BY <1>1, <1>2, <4>1, <4>2 DEF Cubic
        <4> QED
          BY <1>2, <4>1, <4>3 DEF CubicOfNothing
      <3> QED
        BY <3>1, <3>2
    <2>5. DataAsserted(n, marked) \/ CubicOfNothing
      BY <2>2, <2>4 DEF DataAsserted
    <2>6. ASSUME NEW d \in WindowOnData(n, marked), DataAsserted(n, marked)
          PROVE  /\ d \in Windows /\ Cubic(d) /\ d.highData < seq
                 /\ d.inFlight = AtLeast(cc.inFlight - 1, 0)
                 /\ a.cwa => Spaced(cc, d)
      <3>1. PICK e : /\ d = CountDown(e)
                     /\ \/ e \in WindowIncrease(high) /\ IncreaseAsserted(high)
                        \/ e = WindowDecrease(high) \/ e = high
        <4>1. WindowOnData(n, marked) =
                {CountDown(c) : c \in IF ~marked THEN WindowIncrease(high)
                                      ELSE IF a.marks THEN {WindowDecrease(high)} ELSE {high}}
          BY <1>2, <2>2 DEF WindowOnData
        <4>2. ~marked => IncreaseAsserted(high)
          BY <1>2, <2>2, <2>6 DEF DataAsserted
        <4> QED
          BY <4>1, <4>2
      <3>2. /\ e \in Windows /\ Cubic(e) /\ e.highData = high.highData
            /\ e.inFlight = high.inFlight
            /\ a.cwa => Spaced(high, e)
        <4>1. CASE e \in WindowIncrease(high) /\ IncreaseAsserted(high)
          <5>1. /\ e \in Windows /\ AtOrAbove(e.window, Unreduced(high))
                /\ e.inFlight = high.inFlight /\ e.highData = high.highData
                /\ e.recPoint = high.recPoint /\ e.ssthresh = high.ssthresh
                /\ e.wmax = high.wmax
                /\ high.window \in Nat /\ (high.window > 0 \/ SlowStart(high))
                     => e.window \in Nat /\ (a.algorithm # "BIC" => e.window >= high.window)
                /\ high.window = 0 /\ SlowStart(high) => e.window > 0
            BY <1>1, <4>1, IncreaseFacts
          <5>2. Cubic(e)
            <6>1. SUFFICES ASSUME a.algorithm = "CUBIC" PROVE Cubic(e)
              BY DEF Cubic
            <6>2. high.window \in Nat /\ high.wmax \in BOOLEAN
              BY <1>2, <2>3, <6>1 DEF Windows, Cubic
            <6>3. SlowStart(high) \/ high.wmax
              BY <4>1, <6>1 DEF IncreaseAsserted
            <6>4. high.window > 0 \/ SlowStart(high)
              BY <1>2, <2>3, <6>1, <6>3 DEF Cubic
            <6>5. e.window \in Nat /\ e.window >= high.window /\ e.window # NoLimit
              BY <5>1, <6>1, <6>2, <6>4 DEF NoLimit
            <6>6. e.window > 0
              <7>1. CASE high.window > 0
                BY <6>2, <6>5, <7>1
              <7>2. CASE high.window = 0
                BY <5>1, <6>4, <7>2
              <7> QED
                BY <6>2, <7>1, <7>2
            <6>7. high.wmax \/ high.ssthresh = NoLimit
              <7>1. SUFFICES ASSUME ~high.wmax, high.ssthresh # NoLimit PROVE FALSE
                OBVIOUS
              <7>2. SlowStart(high) /\ high.window = 0 /\ high.ssthresh = 0
                BY <1>2, <2>3, <6>1, <6>3, <7>1 DEF Cubic
              <7> QED
                BY <7>2 DEF SlowStart, NoLimit
            <6> QED
              BY <5>1, <6>5, <6>6, <6>7 DEF Cubic
          <5> QED
            BY <5>1, <5>2 DEF Spaced
        <4>2. CASE e = WindowDecrease(high)
          <5>1. Cubic(e) /\ (a.cwa => Spaced(high, e))
            BY <1>1, <1>2, <2>3, <4>2, DecreaseSafe
          <5>2. e \in Windows /\ e.highData = high.highData /\ e.inFlight = high.inFlight
            BY <1>1, <4>2, DecreaseFacts
          <5> QED
            BY <5>1, <5>2
        <4>3. CASE e = high
          BY <2>3, <4>3, SameSpaced
        <4> QED
          BY <3>1, <4>1, <4>2, <4>3
      <3>3. /\ d \in Windows /\ d.highData = e.highData /\ d.recPoint = e.recPoint
            /\ d.window = e.window /\ Cubic(d)
        BY <1>2, <3>1, <3>2, PconTimeout
      <3>4. d.inFlight = AtLeast(e.inFlight - 1, 0)
        BY <3>1, <3>2, CountDownType DEF Windows
      <3>5. a.cwa => Spaced(cc, d)
        BY <2>2, <3>2, <3>3 DEF Spaced
      <3> QED
        BY <2>2, <2>3, <3>2, <3>3, <3>4, <3>5
    <2> QED
      BY <1>2, <2>5, <2>6 DEF Windowed
  <1>3. CASE a.kind = "window"
    <2>1. PICK w \in Nat : w = cc.window + Unit
      BY <1>1 DEF Windows, Unit, NoLimit
    <2>2. PICK e \in Windows : e = [cc EXCEPT !.window = w]
      BY <1>1 DEF Windows
    <2>3. WindowOnData(n, marked) = {CountDown(e)}
      BY <1>3, <2>1, <2>2 DEF WindowOnData
    <2>4. e.inFlight = cc.inFlight /\ e.highData = cc.highData
      BY <1>1, <2>2 DEF Windows
    <2>5. CountDown(e) \in Windows /\ CountDown(e) = [e EXCEPT !.inFlight = AtLeast(e.inFlight - 1, 0)]
      BY CountDownType
    <2>6. CountDown(e).inFlight = AtLeast(cc.inFlight - 1, 0) /\ CountDown(e).highData = cc.highData
      BY <2>4, <2>5 DEF Windows
    <2> QED
      BY <1>1, <1>3, <2>3, <2>5, <2>6 DEF DataAsserted, Cubic, Windowed
  <1>4. CASE a.kind # "pcon" /\ a.kind # "window"
    BY <1>1, <1>4 DEF WindowOnData, DataAsserted, Cubic, Windowed
  <1> QED
    BY <1>2, <1>3, <1>4

-----------------------------------------------------------------------------
(* The invariants hold: sending. *)

LEMMA LeastNumber ==
  ASSUME NEW S, S \subseteq Nat, S # {}
  PROVE  \E m \in S : \A k \in S : m <= k
  <1>1. PICK m \in S : \A k \in S : <<k, m>> \notin OpToRel(<, Nat)
    BY WFMin, NatLessThanWellFounded
  <1>2. ASSUME NEW k \in S PROVE m <= k
    <2>1. m \in Nat /\ k \in Nat
      BY <1>1
    <2>2. ~(k < m)
      BY <1>1, <2>1 DEF OpToRel
    <2> QED
      BY <2>1, <2>2
  <1> QED
    BY <1>1, <1>2

\* SendPacket finds nothing to send only when there is nothing.
LEMMA NothingToSend ==
  ASSUME TypeOK, Choices = {}
  PROVE  retxSeqs = {} /\ seq >= seqMax
  <1>1. retxSeqs = {}
    <2>1. SUFFICES ASSUME retxSeqs # {} PROVE FALSE
      OBVIOUS
    <2>2. retxSeqs \subseteq Nat
      BY DEF TypeOK, Numbers
    <2>3. PICK m \in retxSeqs : \A k \in retxSeqs : m <= k
      BY <2>1, <2>2, LeastNumber
    <2>4. [n |-> m, seq |-> seq] \in Choices
      BY <2>1, <2>3 DEF Choices
    <2> QED
      BY <2>4
  <1>2. seq >= seqMax
    <2>1. SUFFICES ASSUME ~(seq >= seqMax) PROVE FALSE
      OBVIOUS
    <2>2. PICK n : n \in IF a.kind = "zipf" THEN ZipfContents ELSE {seq}
      BY DEF ZipfContents
    <2>3. [n |-> n, seq |-> seq + 1] \in Choices
      BY <1>1, <2>1, <2>2 DEF Choices
    <2> QED
      BY <2>3
  <1> QED
    BY <1>1, <1>2

\* What is sent: a number to send again, or m_seq, which is then advanced.
LEMMA ChoiceFacts ==
  ASSUME TypeOK, QueueInv, NEW c \in Choices
  PROVE  /\ c.seq \in Nat /\ c.seq >= seq
         /\ a.kind # "zipf" => c.n < c.seq /\ c.n \notin Waiting
  <1>1. seq \in Nat
    BY DEF TypeOK
  <1>2. CASE retxSeqs # {}
    <2>1. c.seq = seq /\ c.n \in retxSeqs
      BY <1>2 DEF Choices
    <2> QED
      BY <1>1, <2>1 DEF QueueInv
  <1>3. CASE retxSeqs = {}
    <2>1. c.seq = seq + 1 /\ (a.kind # "zipf" => c.n = seq)
      BY <1>3 DEF Choices
    <2>2. a.kind # "zipf" => seq \notin Waiting
      BY <1>1 DEF QueueInv
    <2> QED
      BY <1>1, <2>1, <2>2
  <1> QED
    BY <1>2, <1>3

LEMMA SendStep ==
  ASSUME IInv, Active, NEW c \in Choices, c.n \in Numbers, SendInterest(c)
  PROVE  IInv'
  <1>1. /\ a' = a /\ phase' = phase /\ seq' = c.seq /\ seqMax' = seqMax
        /\ retxSeqs' = retxSeqs \ {c.n}
        /\ timeouts' = IF c.n \in Waiting THEN timeouts ELSE Append(timeouts, c.n)
        /\ counts' = [counts EXCEPT ![c.n] = AtMost(@ + 1, 2)]
        /\ history' = SentSeq(history, c.n)
        /\ samples' = samples /\ cc' = CountUp(cc) /\ sending' = Scheduled(cc', FALSE)
        /\ coming' = coming /\ wire' = wire \cup {c.n} /\ answers' = answers
    BY DEF SendInterest
  <1>2. TypeOK /\ QueueInv /\ HighInv /\ Cubic(cc) /\ KarnInv /\ NoStall /\ AssertionsHold
    BY DEF IInv, CubicInv
  <1>3. /\ a \in Attributes /\ phase \in {"idle", "active", "stopped", "aborted"}
        /\ seq \in Nat /\ seqMax \in Int
        /\ retxSeqs \subseteq Numbers /\ timeouts \in Seq(Numbers)
        /\ counts \in [Numbers -> 0 .. 2]
        /\ history \in [Numbers -> {"none", "fresh", "retx"}]
        /\ cc \in Windows /\ wire \subseteq Numbers
    BY <1>2 DEF TypeOK
  <1>4. /\ c.seq \in Nat /\ c.seq >= seq
        /\ a.kind # "zipf" => c.n < c.seq /\ c.n \notin Waiting
    BY <1>2, ChoiceFacts
  <1>5. PICK n \in Numbers : n = c.n
    OBVIOUS
  <1>6. Waiting = Members(timeouts) /\ Waiting' = Members(timeouts')
    BY DEF Waiting, Members
  <1>7. /\ timeouts' \in Seq(Numbers) /\ Distinct(timeouts') /\ Waiting' = Waiting \cup {n}
        /\ a.kind # "zipf" => Len(timeouts') = Len(timeouts) + 1
    <2>1. CASE n \in Waiting
      BY <1>1, <1>2, <1>3, <1>4, <1>5, <1>6, <2>1 DEF QueueInv
    <2>2. CASE n \notin Waiting
      <3>1. timeouts' = Append(timeouts, n) /\ n \notin Members(timeouts) /\ Distinct(timeouts)
        BY <1>1, <1>2, <1>5, <1>6, <2>2 DEF QueueInv
      <3>2. /\ Append(timeouts, n) \in Seq(Numbers)
            /\ Len(Append(timeouts, n)) = Len(timeouts) + 1
            /\ Distinct(Append(timeouts, n))
            /\ Members(Append(timeouts, n)) = Members(timeouts) \cup {n}
        BY <1>3, <3>1, AppendFacts
      <3> QED
        BY <1>6, <3>1, <3>2
    <2> QED
      BY <2>1, <2>2
  <1>8. /\ cc' \in Windows /\ cc'.highData = cc.highData /\ Cubic(cc')
        /\ Windowed => cc'.inFlight = cc.inFlight + 1
    <2>1. CASE Windowed
      <3>1. PICK m \in Nat : m = cc.inFlight + 1
        BY <1>3 DEF Windows
      <3>2. cc' = [cc EXCEPT !.inFlight = m]
        BY <1>1, <2>1, <3>1 DEF CountUp
      <3> QED
        BY <1>2, <1>3, <3>1, <3>2 DEF Windows, Cubic
    <2>2. CASE ~Windowed
      BY <1>1, <1>2, <1>3, <2>2 DEF CountUp
    <2> QED
      BY <2>1, <2>2
  <1>9. history' \in [Numbers -> {"none", "fresh", "retx"}]
        /\ history' = [history EXCEPT ![n] = IF history[n] = "none" THEN "fresh" ELSE "retx"]
    BY <1>1, <1>3, <1>5 DEF SentSeq
  <1>10. counts' \in [Numbers -> 0 .. 2]
         /\ counts' = [counts EXCEPT ![n] = AtMost(counts[n] + 1, 2)]
    <2>1. counts[n] \in 0 .. 2
      BY <1>3
    <2>2. PICK m \in 0 .. 2 : m = AtMost(counts[n] + 1, 2)
      BY <2>1 DEF AtMost
    <2>3. counts' = [counts EXCEPT ![n] = m]
      BY <1>1, <1>5, <2>2
    <2> QED
      BY <1>3, <2>2, <2>3
  <1>11. TypeOK'
    <2>1. sending' \in BOOLEAN
      BY <1>1, ScheduledType
    <2>2. retxSeqs' \subseteq Numbers /\ wire' \subseteq Numbers
      BY <1>1, <1>3, <1>5
    <2>3. samples' \in Nat /\ coming' \in Seq(Nat) /\ answers' \in 0 .. MaxAnswers
      BY <1>1, <1>2 DEF TypeOK
    <2> QED
      BY <1>1, <1>3, <1>4, <1>7, <1>8, <1>9, <1>10, <2>1, <2>2, <2>3 DEF TypeOK
  <1>12. QueueInv'
    <2>1. retxSeqs' \cap Waiting' = {}
      BY <1>1, <1>2, <1>5, <1>7 DEF QueueInv
    <2>2. ASSUME a.kind # "zipf", NEW m \in retxSeqs' \cup Waiting' \cup wire'
          PROVE  m < seq'
      <3>1. m = n \/ m \in retxSeqs \cup Waiting \cup wire
        BY <1>1, <1>5, <1>7
      <3>2. CASE m = n
        BY <1>1, <1>4, <1>5, <2>2, <3>2
      <3>3. CASE m \in retxSeqs \cup Waiting \cup wire
        <4>1. m < seq
          BY <1>2, <2>2, <3>3 DEF QueueInv
        <4>2. m \in Numbers
          BY <1>3, <3>3 DEF Waiting
        <4>3. m \in Nat
          BY <4>2 DEF Numbers
        <4> QED
          BY <1>1, <1>3, <1>4, <4>1, <4>3
      <3> QED
        BY <3>1, <3>2, <3>3
    <2> QED
      BY <1>1, <1>7, <2>1, <2>2 DEF QueueInv
  <1>13. HighInv'
    <2>1. cc.highData \in Nat /\ (cc.highData = 0 \/ cc.highData < seq)
      BY <1>2, <1>3 DEF Windows, HighInv
    <2> QED
      BY <1>1, <1>3, <1>4, <1>8, <2>1 DEF HighInv
  <1>14. CubicInv'
    BY <1>1, <1>8 DEF CubicInv, Cubic
  <1>15. KarnInv'
    <2>1. ASSUME a.kind # "batches", NEW m \in Numbers
          PROVE  /\ history'[m] = "none" => counts'[m] = 0 /\ m \notin Waiting'
                 /\ history'[m] = "fresh" => counts'[m] = 1 /\ m \in Waiting'
      <3>1. /\ history[m] = "none" => counts[m] = 0 /\ m \notin Waiting
            /\ history[m] = "fresh" => counts[m] = 1 /\ m \in Waiting
        BY <1>2, <2>1 DEF KarnInv
      <3>2. CASE m = n
        <4>1. history'[m] \in {"fresh", "retx"} /\ m \in Waiting'
          BY <1>3, <1>7, <1>9, <3>2
        <4>2. ASSUME history'[m] = "fresh" PROVE counts'[m] = 1
          <5>1. history[m] = "none"
            BY <1>3, <1>9, <3>2, <4>2
          <5>2. counts[m] = 0
            BY <3>1, <5>1
          <5> QED
            BY <1>3, <1>10, <3>2, <5>2 DEF AtMost
        <4> QED
          BY <4>1, <4>2
      <3>3. CASE m # n
        <4>1. history'[m] = history[m] /\ counts'[m] = counts[m]
              /\ (m \in Waiting' <=> m \in Waiting)
          BY <1>3, <1>7, <1>9, <1>10, <3>3
        <4> QED
          BY <3>1, <4>1
      <3> QED
        BY <3>2, <3>3
    <2> QED
      BY <1>1, <2>1 DEF KarnInv
  <1>16. NoStall'
    <2>1. Windowed' = Windowed /\ Len(timeouts') \in Nat
      BY <1>1, <1>7 DEF Windowed
    <2>2. Windowed => cc'.inFlight \in 0 .. Len(timeouts')
      <3>1. SUFFICES ASSUME Windowed PROVE cc'.inFlight \in 0 .. Len(timeouts')
        OBVIOUS
      <3>2. cc.inFlight \in 0 .. Len(timeouts) /\ Len(timeouts) \in Nat
        BY <1>2, <1>3, <3>1 DEF NoStall, Running, Active
      <3>3. cc'.inFlight = cc.inFlight + 1 /\ Len(timeouts') = Len(timeouts) + 1
        BY <1>7, <1>8, <3>1 DEF Windowed
      <3> QED
        BY <3>2, <3>3
    <2>3. sending' \/ (Windowed /\ timeouts' # <<>>)
      <3>1. SUFFICES ASSUME ~sending' PROVE Windowed /\ timeouts' # <<>>
        OBVIOUS
      <3>2. Windowed /\ cc'.inFlight > 0
        BY <1>1, <1>8, <3>1, ScheduledFacts
      <3>3. Len(timeouts') > 0
        BY <2>1, <2>2, <3>2
      <3> QED
        BY <3>2, <3>3
    <2> QED
      BY <2>1, <2>2, <2>3 DEF NoStall
  <1>17. AssertionsHold'
    BY <1>1 DEF AssertionsHold, Active
  <1> QED
    BY <1>11, <1>12, <1>13, <1>14, <1>15, <1>16, <1>17 DEF IInv

-----------------------------------------------------------------------------
(* The invariants hold: timeouts, Data and the rest. *)

LEMMA CheckStep ==
  ASSUME IInv, CheckRetxTimeout
  PROVE  /\ IInv' /\ phase' = phase /\ samples' = samples
         /\ a.kind = "pcon" /\ a.cwa => Spaced(cc, cc')
  <1>1. PICK n \in 1 .. Len(timeouts) :
          LET expired == {timeouts[i] : i \in 1 .. n}
              asserted == a.kind = "pcon" => \A i \in 0 .. n - 1 : DecreaseAsserted(After[i].c)
          IN  IF asserted
                THEN /\ timeouts' = SubSeq(timeouts, n + 1, Len(timeouts))
                     /\ retxSeqs' = retxSeqs \cup expired
                     /\ history' = [m \in Numbers |->
                                      IF m \in expired THEN SentSeq(history, m)[m]
                                                       ELSE history[m]]
                     /\ cc' = After[n].c /\ sending' = After[n].sending
                     /\ UNCHANGED phase
                ELSE /\ phase' = "aborted"
                     /\ UNCHANGED <<timeouts, retxSeqs, history, cc, sending>>
    BY DEF CheckRetxTimeout
  <1>2. /\ a' = a /\ seq' = seq /\ seqMax' = seqMax /\ counts' = counts
        /\ samples' = samples /\ coming' = coming /\ wire' = wire /\ answers' = answers
        /\ Running
    BY DEF CheckRetxTimeout
  <1>3. PICK expired : expired = {timeouts[i] : i \in 1 .. n}
    OBVIOUS
  <1>4. /\ After[n].c \in Windows /\ After[n].sending \in BOOLEAN
        /\ a.kind = "pcon" => \A i \in 0 .. n - 1 : DecreaseAsserted(After[i].c)
        /\ After[n].c.highData = cc.highData /\ Cubic(After[n].c)
        /\ Windowed => After[n].c.inFlight = AtLeast(cc.inFlight - n, 0)
        /\ ~After[n].sending => Windowed /\ After[n].c.inFlight > 0
        /\ a.kind = "pcon" /\ a.cwa => Spaced(cc, After[n].c)
    BY CheckFacts
  <1>5. /\ timeouts' = SubSeq(timeouts, n + 1, Len(timeouts))
        /\ retxSeqs' = retxSeqs \cup expired
        /\ history' = [m \in Numbers |->
                         IF m \in expired THEN SentSeq(history, m)[m] ELSE history[m]]
        /\ cc' = After[n].c /\ sending' = After[n].sending /\ phase' = phase
    BY <1>1, <1>3, <1>4
  <1>6. TypeOK /\ QueueInv /\ HighInv /\ KarnInv /\ NoStall /\ AssertionsHold
    BY DEF IInv
  <1>7. /\ retxSeqs \subseteq Numbers /\ timeouts \in Seq(Numbers) /\ Len(timeouts) \in Nat
        /\ DOMAIN timeouts = 1 .. Len(timeouts)
        /\ history \in [Numbers -> {"none", "fresh", "retx"}]
        /\ cc \in Windows /\ cc.inFlight \in Nat
    BY <1>6 DEF TypeOK, Windows
  <1>8. Waiting = Members(timeouts) /\ Waiting' = Members(timeouts')
    BY DEF Waiting, Members
  <1>9. /\ timeouts' \in Seq(Numbers) /\ Len(timeouts') = Len(timeouts) - n
        /\ Distinct(timeouts') /\ Waiting' = Waiting \ expired
    <2>1. Distinct(timeouts)
      BY <1>6 DEF QueueInv
    <2>2. LET t == SubSeq(timeouts, n + 1, Len(timeouts))
          IN  /\ t \in Seq(Numbers) /\ Len(t) = Len(timeouts) - n
              /\ Distinct(t)
              /\ Members(t) = Members(timeouts) \ {timeouts[i] : i \in 1 .. n}
      BY <1>7, <2>1, RestFacts
    <2> QED
      BY <1>3, <1>5, <1>8, <2>2
  <1>10. expired \subseteq Waiting /\ expired \subseteq Numbers
    <2>1. expired \subseteq Waiting
      BY <1>3, <1>7 DEF Waiting
    <2>2. Waiting \subseteq Numbers
      BY <1>7 DEF Waiting
    <2> QED
      BY <2>1, <2>2
  <1>11. /\ history' \in [Numbers -> {"none", "fresh", "retx"}]
         /\ \A m \in Numbers : history'[m] = IF m \notin expired THEN history[m]
                                             ELSE IF history[m] = "none" THEN "fresh" ELSE "retx"
    <2>1. \A m \in Numbers :
            SentSeq(history, m)[m] = IF history[m] = "none" THEN "fresh" ELSE "retx"
      BY <1>7 DEF SentSeq
    <2>2. \A m \in Numbers : history'[m] = IF m \notin expired THEN history[m]
                                           ELSE IF history[m] = "none" THEN "fresh" ELSE "retx"
      BY <1>5, <2>1
    <2>3. \A m \in Numbers : history'[m] \in {"none", "fresh", "retx"}
      BY <1>7, <2>2
    <2>4. history' = [m \in Numbers |-> history'[m]]
      BY <1>5
    <2> QED
      BY <2>2, <2>3, <2>4
  <1>12. TypeOK'
    <2>1. retxSeqs' \subseteq Numbers
      BY <1>5, <1>7, <1>10
    <2> QED
      BY <1>2, <1>4, <1>5, <1>6, <1>9, <1>11, <2>1 DEF TypeOK
  <1>13. QueueInv'
    <2>1. retxSeqs' \cap Waiting' = {}
      BY <1>5, <1>6, <1>9 DEF QueueInv
    <2>2. retxSeqs' \cup Waiting' \cup wire' \subseteq retxSeqs \cup Waiting \cup wire
      BY <1>2, <1>5, <1>9, <1>10
    <2> QED
      BY <1>2, <1>6, <1>9, <2>1, <2>2 DEF QueueInv
  <1>14. HighInv' /\ CubicInv'
    BY <1>2, <1>4, <1>5, <1>6 DEF HighInv, CubicInv, Cubic
  <1>15. KarnInv'
    <2>1. ASSUME a.kind # "batches", NEW m \in Numbers
          PROVE  /\ history'[m] = "none" => counts'[m] = 0 /\ m \notin Waiting'
                 /\ history'[m] = "fresh" => counts'[m] = 1 /\ m \in Waiting'
      <3>1. /\ history[m] = "none" => counts[m] = 0 /\ m \notin Waiting
            /\ history[m] = "fresh" => counts[m] = 1 /\ m \in Waiting
        BY <1>6, <2>1 DEF KarnInv
      <3>2. m \in expired => history'[m] = "retx"
        BY <1>10, <1>11, <3>1
      <3>3. m \notin expired => history'[m] = history[m] /\ (m \in Waiting' <=> m \in Waiting)
        BY <1>9, <1>11
      <3> QED
        BY <1>2, <3>1, <3>2, <3>3
    <2> QED
      BY <1>2, <2>1 DEF KarnInv
  <1>16. NoStall'
    <2>1. Windowed' = Windowed /\ Len(timeouts') \in Nat /\ Len(timeouts') = Len(timeouts) - n
      BY <1>2, <1>7, <1>9 DEF Windowed
    <2>2. Windowed => cc'.inFlight \in 0 .. Len(timeouts')
      <3>1. SUFFICES ASSUME Windowed PROVE cc'.inFlight \in 0 .. Len(timeouts')
        OBVIOUS
      <3>2. cc.inFlight \in 0 .. Len(timeouts)
        BY <1>2, <1>6, <3>1 DEF NoStall
      <3>3. cc'.inFlight = AtLeast(cc.inFlight - n, 0)
        BY <1>4, <1>5, <3>1
      <3> QED
        BY <1>7, <2>1, <3>2, <3>3 DEF AtLeast
    <2>3. sending' \/ (Windowed /\ timeouts' # <<>>)
      <3>1. SUFFICES ASSUME ~sending' PROVE Windowed /\ timeouts' # <<>>
        OBVIOUS
      <3>2. Windowed /\ cc'.inFlight > 0
        BY <1>4, <1>5, <3>1
      <3>3. Len(timeouts') > 0
        BY <2>1, <2>2, <3>2
      <3> QED
        BY <3>2, <3>3
    <2> QED
      BY <2>1, <2>2, <2>3 DEF NoStall
  <1>17. AssertionsHold'
    BY <1>2, <1>5 DEF AssertionsHold, Running
  <1>18. a.kind = "pcon" /\ a.cwa => Spaced(cc, cc')
    BY <1>4, <1>5
  <1> QED
    BY <1>2, <1>5, <1>12, <1>13, <1>14, <1>15, <1>16, <1>17, <1>18 DEF IInv

\* Data stops the program only where Consumer::OnData throws, or CUBIC has no window.
LEMMA AbortStep ==
  ASSUME IInv, NEW n \in Numbers, OnData(n), phase' = "aborted"
  PROVE  /\ IInv' /\ samples' = samples /\ cc' = cc
         /\ UNCHANGED <<a, seq, retxSeqs, timeouts>>
  <1>1. /\ phase' = "aborted" /\ answers' = answers + 1 /\ answers < MaxAnswers
        /\ wire' \subseteq wire /\ a' = a /\ seq' = seq /\ seqMax' = seqMax
        /\ coming' = coming /\ n \in wire
    BY DEF OnData
  <1>9. /\ retxSeqs' = retxSeqs /\ timeouts' = timeouts
        /\ counts' = counts /\ history' = history /\ samples' = samples
        /\ cc' = cc /\ sending' = sending
        /\ a.prefix = NotANumber \/ \E marked \in BOOLEAN : ~DataAsserted(n, marked)
    BY DEF OnData
  <1>10. a.prefix = NotANumber \/ CubicOfNothing
    BY <1>1, <1>9, DataFacts
  <1>2. TypeOK /\ QueueInv /\ HighInv /\ CubicInv /\ KarnInv
    BY DEF IInv
  <1>3. answers' \in 0 .. MaxAnswers /\ answers' > 0
    BY <1>1, <1>2, WindowAssumption DEF TypeOK
  <1>4. TypeOK'
    BY <1>1, <1>2, <1>3, <1>9 DEF TypeOK
  <1>5. Waiting' = Waiting
    BY <1>9 DEF Waiting
  <1>6. QueueInv'
    BY <1>1, <1>2, <1>5, <1>9 DEF QueueInv
  <1>7. HighInv' /\ CubicInv' /\ KarnInv'
    BY <1>1, <1>2, <1>5, <1>9 DEF HighInv, CubicInv, Cubic, KarnInv
  <1>8. NoStall' /\ AssertionsHold'
    <2>1. CubicOfNothing' = CubicOfNothing
      BY <1>1, <1>9 DEF CubicOfNothing
    <2> QED
      BY <1>1, <1>3, <1>10, <2>1 DEF NoStall, AssertionsHold, Running, Active
  <1> QED
    BY <1>1, <1>4, <1>6, <1>7, <1>8, <1>9 DEF IInv

\* Otherwise the number of the prefix is forgotten everywhere, or nothing if the
\* application was stopped.
LEMMA DataStep ==
  ASSUME IInv, NEW n \in Numbers, OnData(n), phase' # "aborted"
  PROVE  /\ IInv' /\ phase' = phase
         /\ a.kind = "pcon" /\ a.cwa => Spaced(cc, cc')
         /\ \/ Active /\ Acknowledge(a.prefix) /\ a.prefix # NotANumber
            \/ ~Active /\ UNCHANGED <<retxSeqs, timeouts>>
         /\ samples' # samples
              => /\ history' = [history EXCEPT ![a.prefix] = "none"]
                 /\ history[a.prefix] = "fresh"
  <1>1. /\ phase \in {"active", "stopped"} /\ n \in wire /\ answers < MaxAnswers
        /\ answers' = answers + 1 /\ wire' \subseteq wire
        /\ a' = a /\ seq' = seq /\ seqMax' = seqMax /\ coming' = coming
    BY DEF OnData
  <1>2. PICK marked \in BOOLEAN :
          /\ DataAsserted(n, marked) /\ ~(Active /\ a.prefix = NotANumber)
          /\ IF Active THEN Acknowledge(a.prefix)
                       ELSE UNCHANGED <<retxSeqs, timeouts, counts, history, samples>>
          /\ cc' \in WindowOnData(n, marked)
          /\ sending' = IF Windowed THEN Scheduled(cc', sending) ELSE sending
          /\ UNCHANGED phase
    BY DEF OnData
  <1>3. \A d \in WindowOnData(n, marked) :
          /\ d \in Windows /\ Cubic(d)
          /\ d.highData = 0 \/ d.highData < seq
          /\ Windowed => d.inFlight = AtLeast(cc.inFlight - 1, 0)
          /\ ~Windowed => d = cc
          /\ a.kind = "pcon" /\ a.cwa => Spaced(cc, d)
    BY <1>1, <1>2, DataFacts
  <1>4. /\ IF Active THEN Acknowledge(a.prefix)
                     ELSE UNCHANGED <<retxSeqs, timeouts, counts, history, samples>>
        /\ sending' = IF Windowed THEN Scheduled(cc', sending) ELSE sending
        /\ phase' = phase
        /\ cc' \in Windows /\ Cubic(cc')
        /\ cc'.highData = 0 \/ cc'.highData < seq
        /\ Windowed => cc'.inFlight = AtLeast(cc.inFlight - 1, 0)
        /\ ~Windowed => cc' = cc
        /\ a.kind = "pcon" /\ a.cwa => Spaced(cc, cc')
        /\ Active => a.prefix # NotANumber
    BY <1>2, <1>3
  <1>5. TypeOK /\ QueueInv /\ HighInv /\ KarnInv /\ NoStall /\ AssertionsHold
    BY DEF IInv
  <1>6. /\ retxSeqs \subseteq Numbers /\ timeouts \in Seq(Numbers) /\ Len(timeouts) \in Nat
        /\ counts \in [Numbers -> 0 .. 2] /\ history \in [Numbers -> {"none", "fresh", "retx"}]
        /\ cc \in Windows /\ cc.inFlight \in Nat /\ samples \in Nat /\ sending \in BOOLEAN
    BY <1>5 DEF TypeOK, Windows
  <1>7. Waiting = Members(timeouts) /\ Waiting' = Members(timeouts')
    BY DEF Waiting, Members
  <1>8. /\ timeouts' \in Seq(Numbers) /\ Len(timeouts') \in Nat
        /\ Len(timeouts') >= Len(timeouts) - 1 /\ Len(timeouts') <= Len(timeouts)
        /\ Distinct(timeouts') /\ Waiting' \subseteq Waiting
        /\ retxSeqs' \subseteq retxSeqs
        /\ counts' \in [Numbers -> 0 .. 2] /\ history' \in [Numbers -> {"none", "fresh", "retx"}]
        /\ samples' \in Nat
        /\ a.kind # "batches"
             => \A m \in Numbers :
                  /\ history'[m] = "none" => counts'[m] = 0 /\ m \notin Waiting'
                  /\ history'[m] = "fresh" => counts'[m] = 1 /\ m \in Waiting'
        /\ samples' # samples
             => /\ history' = [history EXCEPT ![a.prefix] = "none"]
                /\ history[a.prefix] = "fresh"
    <2>1. Distinct(timeouts)
      BY <1>5 DEF QueueInv
    <2>2. CASE Active
      <3>1. PICK p \in Numbers : p = a.prefix
        BY <1>4, <1>5, <2>2, Attribute
      <3>2. /\ retxSeqs' = retxSeqs \ {p} /\ timeouts' = Erased(p)
            /\ counts' = [counts EXCEPT ![p] = 0]
            /\ history' = [history EXCEPT ![p] = "none"]
            /\ samples' = IF history[p] = "fresh" THEN samples + 1 ELSE samples
        BY <1>4, <2>2, <3>1 DEF Acknowledge
      <3>3. /\ timeouts' \in Seq(Numbers)
            /\ Len(timeouts') >= Len(timeouts) - 1 /\ Len(timeouts') <= Len(timeouts)
            /\ Distinct(timeouts') /\ Members(timeouts') = Waiting \ {p}
        BY <1>5, <2>1, <3>2, ErasedFacts
      <3>4. Waiting' = Waiting \ {p} /\ Len(timeouts') \in Nat
        BY <1>7, <3>3
      <3>5. counts' \in [Numbers -> 0 .. 2] /\ history' \in [Numbers -> {"none", "fresh", "retx"}]
        BY <1>6, <3>2
      <3>6. ASSUME a.kind # "batches", NEW m \in Numbers
            PROVE  /\ history'[m] = "none" => counts'[m] = 0 /\ m \notin Waiting'
                   /\ history'[m] = "fresh" => counts'[m] = 1 /\ m \in Waiting'
        <4>1. /\ history[m] = "none" => counts[m] = 0 /\ m \notin Waiting
              /\ history[m] = "fresh" => counts[m] = 1 /\ m \in Waiting
          BY <1>5, <3>6 DEF KarnInv
        <4>2. CASE m = p
          BY <1>6, <3>2, <3>4, <4>2
        <4>3. CASE m # p
          BY <1>6, <3>2, <3>4, <4>1, <4>3
        <4> QED
          BY <4>2, <4>3
      <3>7. samples' # samples => history[p] = "fresh"
        BY <3>2
      <3>8. samples' \in Nat
        BY <1>6, <3>2
      <3> QED
        BY <3>1, <3>2, <3>3, <3>4, <3>5, <3>6, <3>7, <3>8
    <2>3. CASE ~Active
      <3>1. /\ retxSeqs' = retxSeqs /\ timeouts' = timeouts /\ counts' = counts
            /\ history' = history /\ samples' = samples
        BY <1>4, <2>3
      <3>2. Waiting' = Waiting
        BY <3>1 DEF Waiting
      <3> QED
        BY <1>5, <1>6, <2>1, <3>1, <3>2 DEF KarnInv
    <2> QED
      BY <2>2, <2>3
  <1>9. TypeOK'
    <2>1. sending' \in BOOLEAN
      BY <1>4, <1>6, ScheduledType
    <2>2. answers' \in 0 .. MaxAnswers
      BY <1>1, <1>5, WindowAssumption DEF TypeOK
    <2> QED
      BY <1>1, <1>4, <1>5, <1>8, <2>1, <2>2 DEF TypeOK
  <1>10. QueueInv'
    <2>1. retxSeqs' \cap Waiting' = {}
      BY <1>5, <1>8 DEF QueueInv
    <2>2. retxSeqs' \cup Waiting' \cup wire' \subseteq retxSeqs \cup Waiting \cup wire
      BY <1>1, <1>8
    <2> QED
      BY <1>1, <1>5, <1>8, <2>1, <2>2 DEF QueueInv
  <1>11. HighInv' /\ CubicInv'
    BY <1>1, <1>4 DEF HighInv, CubicInv, Cubic
  <1>12. KarnInv'
    BY <1>1, <1>8 DEF KarnInv
  <1>13. NoStall'
    <2>1. Windowed' = Windowed /\ (Running /\ Running')
      BY <1>1, <1>4 DEF Windowed, Running
    <2>2. Windowed => cc'.inFlight \in 0 .. Len(timeouts')
      <3>1. SUFFICES ASSUME Windowed PROVE cc'.inFlight \in 0 .. Len(timeouts')
        OBVIOUS
      <3>2. cc.inFlight \in 0 .. Len(timeouts)
        BY <1>5, <2>1, <3>1 DEF NoStall
      <3>3. cc'.inFlight = AtLeast(cc.inFlight - 1, 0)
        BY <1>4, <3>1
      <3> QED
        BY <1>6, <1>8, <3>2, <3>3 DEF AtLeast
    <2>3. ASSUME Active', retxSeqs' # {} \/ seq' < seqMax'
          PROVE  sending' \/ (Windowed /\ timeouts' # <<>>)
      <3>1. CASE Windowed
        <4>1. SUFFICES ASSUME ~sending' PROVE timeouts' # <<>>
          BY <3>1
        <4>2. cc'.inFlight > 0
          BY <1>4, <1>6, <3>1, <4>1, ScheduledFacts
        <4>3. Len(timeouts') > 0
          BY <1>8, <2>2, <3>1, <4>2
        <4> QED
          BY <4>3
      <3>2. CASE ~Windowed
        <4>1. Active /\ (retxSeqs # {} \/ seq < seqMax)
          BY <1>1, <1>4, <1>8, <2>3 DEF Active
        <4>2. sending
          BY <1>5, <3>2, <4>1 DEF NoStall
        <4> QED
          BY <1>4, <3>2, <4>2
      <3> QED
        BY <3>1, <3>2
    <2> QED
      BY <2>1, <2>2, <2>3 DEF NoStall
  <1>14. AssertionsHold'
    BY <1>1, <1>4 DEF AssertionsHold
  <1>15. \/ Active /\ Acknowledge(a.prefix) /\ a.prefix # NotANumber
         \/ ~Active /\ UNCHANGED <<retxSeqs, timeouts>>
    BY <1>4
  <1> QED
    BY <1>4, <1>15, <1>8, <1>9, <1>10, <1>11, <1>12, <1>13, <1>14 DEF IInv

\* Starting, stopping, a batch, and a send event that finds nothing to send change
\* neither the queues nor the window; a batch clears the history of its class.
LEMMA QuietStep ==
  ASSUME IInv,
         \/ StartApplication \/ StopApplication \/ AddBatch
         \/ /\ Running /\ sending /\ (~Active \/ Choices = {}) /\ sending' = FALSE
            /\ UNCHANGED <<a, phase, seq, seqMax, retxSeqs, timeouts, counts, history,
                           samples, cc, coming, wire, answers>>
         \/ UNCHANGED vars
  PROVE  IInv' /\ samples' = samples /\ cc' = cc
  <1>1. /\ a' = a /\ seq' = seq /\ retxSeqs' = retxSeqs /\ timeouts' = timeouts
        /\ counts' = counts /\ samples' = samples /\ cc' = cc /\ wire' = wire
        /\ answers' = answers
        /\ history' = history \/ (a.kind = "batches" /\ history' = ClearSent)
        /\ phase' = phase \/ (phase' \in {"active", "stopped"} /\ Running)
    BY DEF StartApplication, StopApplication, AddBatch, vars, Active, Running
  <1>2. TypeOK /\ QueueInv /\ HighInv /\ CubicInv /\ KarnInv /\ NoStall /\ AssertionsHold
    BY DEF IInv
  <1>3. Waiting' = Waiting /\ Windowed' = Windowed
    BY <1>1 DEF Waiting, Windowed
  <1>4. TypeOK'
    <2>1. history' \in [Numbers -> {"none", "fresh", "retx"}]
      BY <1>1, <1>2 DEF TypeOK, ClearSent
    <2>2. sending' \in BOOLEAN
      BY <1>2, ScheduledType DEF StartApplication, StopApplication, AddBatch, vars, TypeOK
    <2>3. seqMax' \in Int /\ coming' \in Seq(Nat)
      <3>1. seqMax \in Int /\ coming \in Seq(Nat)
        BY <1>2 DEF TypeOK
      <3>2. CASE AddBatch
        <4>1. PICK i \in DOMAIN coming :
                /\ seqMax' = seqMax + coming[i]
                /\ coming' = SubSeq(coming, 1, i - 1) \o SubSeq(coming, i + 1, Len(coming))
          BY <3>2 DEF AddBatch
        <4>2. Len(coming) \in Nat /\ i \in 1 .. Len(coming) /\ coming[i] \in Nat
          BY <3>1
        <4>3. /\ SubSeq(coming, 1, i - 1) \in Seq(Nat)
              /\ SubSeq(coming, i + 1, Len(coming)) \in Seq(Nat)
          <5>1. \A j \in 1 .. Len(coming) : coming[j] \in Nat
            BY <3>1
          <5>2. /\ \A j \in 1 .. i - 1 : coming[j] \in Nat
                /\ \A j \in i + 1 .. Len(coming) : coming[j] \in Nat
            BY <4>2, <5>1
          <5>3. SubSeq(coming, 1, i - 1) \in Seq(Nat)
            BY <3>1, <4>2, <5>2, SubSeqProperties
          <5>4. SubSeq(coming, i + 1, Len(coming)) \in Seq(Nat)
            BY <3>1, <4>2, <5>2, SubSeqProperties
          <5> QED
            BY <5>3, <5>4
        <4>4. SubSeq(coming, 1, i - 1) \o SubSeq(coming, i + 1, Len(coming)) \in Seq(Nat)
          BY <4>3, ConcatProperties
        <4>5. coming' \in Seq(Nat)
          BY <4>1, <4>4, Zenon
        <4>6. seqMax' \in Int
          <5>1. PICK k \in Nat : k = coming[i]
            BY <4>2
          <5>2. seqMax' = seqMax + k
            BY <4>1, <5>1, Zenon
          <5> QED
            BY <3>1, <5>2
        <4> QED
          BY <4>5, <4>6
      <3>3. CASE ~AddBatch
        BY <3>1, <3>3 DEF StartApplication, StopApplication, vars
      <3> QED
        BY <3>2, <3>3
    <2> QED
      BY <1>1, <1>2, <2>1, <2>2, <2>3 DEF TypeOK
  <1>5. QueueInv'
    BY <1>1, <1>2, <1>3 DEF QueueInv
  <1>6. HighInv' /\ CubicInv' /\ KarnInv'
    BY <1>1, <1>2, <1>3 DEF HighInv, CubicInv, Cubic, KarnInv
  <1>7. AssertionsHold'
    BY <1>1, <1>2 DEF AssertionsHold, CubicOfNothing
  <1>8. NoStall'
    <2>1. Windowed /\ Running' => cc'.inFlight \in 0 .. Len(timeouts')
      BY <1>1, <1>2 DEF NoStall, Running
    <2>2. ASSUME Active', retxSeqs' # {} \/ seq' < seqMax'
          PROVE  sending' \/ (Windowed /\ timeouts' # <<>>)
      <3>1. CASE StartApplication
        <4>1. SUFFICES ASSUME ~sending' PROVE Windowed /\ timeouts' # <<>>
          OBVIOUS
        <4>2. cc \in Windows /\ sending \in BOOLEAN /\ sending' = Scheduled(cc, sending)
          BY <1>2, <3>1 DEF TypeOK, StartApplication
        <4>3. Windowed /\ cc.inFlight > 0
          BY <4>1, <4>2, ScheduledFacts
        <4>4. cc.inFlight \in 0 .. Len(timeouts) /\ Len(timeouts) \in Nat
          BY <1>2, <3>1, <4>3 DEF NoStall, TypeOK, StartApplication, Running
        <4>5. Len(timeouts) > 0
          BY <4>3, <4>4
        <4> QED
          BY <1>1, <4>3, <4>5
      <3>2. CASE StopApplication
        BY <2>2, <3>2 DEF StopApplication, Active
      <3>3. CASE AddBatch
        BY <3>3 DEF AddBatch
      <3>4. CASE /\ Running /\ sending /\ (~Active \/ Choices = {}) /\ sending' = FALSE
                 /\ UNCHANGED <<a, phase, seq, seqMax, retxSeqs, timeouts, counts, history,
                                samples, cc, coming, wire, answers>>
        <4>1. Active /\ retxSeqs' = retxSeqs /\ seq' = seq /\ seqMax' = seqMax
          BY <2>2, <3>4 DEF Active
        <4>2. retxSeqs = {} /\ seq >= seqMax
          BY <1>2, <3>4, <4>1, NothingToSend
        <4>3. seq \in Nat /\ seqMax \in Int
          BY <1>2 DEF TypeOK
        <4> QED
          BY <2>2, <4>1, <4>2, <4>3
      <3>5. CASE UNCHANGED vars
        BY <1>2, <2>2, <3>5 DEF NoStall, vars, Active, Windowed
      <3> QED
        BY <3>1, <3>2, <3>3, <3>4, <3>5
    <2> QED
      BY <1>3, <2>1, <2>2 DEF NoStall
  <1> QED
    BY <1>1, <1>4, <1>5, <1>6, <1>7, <1>8 DEF IInv

-----------------------------------------------------------------------------
(* The theorems. *)

LEMMA InitInv == Init => IInv
  <1> SUFFICES ASSUME Init PROVE IInv
    OBVIOUS
  <1>1. TypeOK
    BY InitType
  <1>2. /\ retxSeqs = {} /\ timeouts = <<>> /\ wire = {} /\ phase = "idle"
        /\ counts = [n \in Numbers |-> 0] /\ history = [n \in Numbers |-> "none"]
        /\ cc.inFlight = 0 /\ cc.highData = 0 /\ cc.window = InitialWindow
        /\ cc.ssthresh = NoLimit /\ ~cc.wmax
    BY DEF Init, EstimatorInit, ClearSent
  <1>3. Waiting = {} /\ Len(timeouts) = 0
    BY <1>2 DEF Waiting
  <1>4. QueueInv
    BY <1>2, <1>3 DEF QueueInv, Distinct
  <1>5. HighInv /\ CubicInv
    <2>1. InitialWindow \in Nat /\ (a.initial = 0 <=> InitialWindow = 0)
      BY <1>1, Attribute
    <2> QED
      BY <1>2, <2>1 DEF HighInv, CubicInv, Cubic, NoLimit
  <1>6. KarnInv
    BY <1>2, <1>3 DEF KarnInv
  <1>7. NoStall /\ AssertionsHold
    BY <1>2, <1>3 DEF NoStall, AssertionsHold, Active
  <1> QED
    BY <1>1, <1>4, <1>5, <1>6, <1>7 DEF IInv

\* A step as it is taken.
LEMMA Steps ==
  ASSUME IInv, [Next]_vars
  PROVE  \/ \E c \in Choices : Active /\ c.n \in Numbers /\ SendInterest(c)
         \/ CheckRetxTimeout
         \/ \E n \in Numbers : OnData(n) /\ phase' = "aborted"
         \/ \E n \in Numbers : OnData(n) /\ phase' # "aborted"
         \/ StartApplication \/ StopApplication \/ AddBatch
         \/ /\ Running /\ sending /\ (~Active \/ Choices = {}) /\ sending' = FALSE
            /\ UNCHANGED <<a, phase, seq, seqMax, retxSeqs, timeouts, counts, history,
                           samples, cc, coming, wire, answers>>
         \/ UNCHANGED vars
  BY DEF Next, SendPacket

LEMMA NextInv == IInv /\ [Next]_vars => IInv'
  <1> SUFFICES ASSUME IInv, [Next]_vars PROVE IInv'
    OBVIOUS
  <1>1. CASE \E c \in Choices : Active /\ c.n \in Numbers /\ SendInterest(c)
    BY <1>1, SendStep
  <1>2. CASE CheckRetxTimeout
    BY <1>2, CheckStep
  <1>3. CASE \E n \in Numbers : OnData(n) /\ phase' = "aborted"
    BY <1>3, AbortStep
  <1>4. CASE \E n \in Numbers : OnData(n) /\ phase' # "aborted"
    BY <1>4, DataStep
  <1>5. CASE \/ StartApplication \/ StopApplication \/ AddBatch
             \/ /\ Running /\ sending /\ (~Active \/ Choices = {}) /\ sending' = FALSE
                /\ UNCHANGED <<a, phase, seq, seqMax, retxSeqs, timeouts, counts, history,
                               samples, cc, coming, wire, answers>>
             \/ UNCHANGED vars
    BY <1>5, QuietStep
  <1> QED
    BY <1>1, <1>2, <1>3, <1>4, <1>5, Steps

LEMMA Invariant == Spec => []IInv
  <1> QED
    BY InitInv, NextInv, PTL DEF Spec

\* Every variable keeps its type, whatever the attributes: the counts, the window
\* and m_inFlight never leave the natural numbers.
THEOREM TypeCorrect == Spec => []TypeOK
  <1>1. IInv => TypeOK
    BY DEF IInv
  <1> QED
    BY <1>1, Invariant, PTL

\* A consumer with something to send has a send event or waits for Interests that
\* can still time out, for every class and every setting.
THEOREM NeverStalls == Spec => []NoStall
  <1>1. IInv => NoStall
    BY DEF IInv
  <1> QED
    BY <1>1, Invariant, PTL

\* ConsumerPcon's assertions never fail, with any initial window, but for CUBIC with a
\* window of zero that a decrease took out of slow start: otherwise only the exception of
\* Consumer::OnData stops the program.
THEOREM AssertionsAlwaysHold == Spec => []AssertionsHold
  <1>1. IInv => AssertionsHold
    BY DEF IInv
  <1> QED
    BY <1>1, Invariant, PTL

\* One step with conservative window adaptation reduces the window once, however
\* many Interests time out in it, marks a number not yet sent, and does so only after
\* Data beyond the last mark.
LEMMA CwaStep ==
  ASSUME IInv, [Next]_vars
  PROVE  a.kind = "pcon" /\ a.cwa => Spaced(cc, cc')
  <1> SUFFICES ASSUME a.kind = "pcon", a.cwa PROVE Spaced(cc, cc')
    OBVIOUS
  <1>1. cc \in Windows
    BY DEF IInv, TypeOK
  <1>3. CASE \E c \in Choices : Active /\ c.n \in Numbers /\ SendInterest(c)
    <2>1. PICK m : m = cc.inFlight + 1
      OBVIOUS
    <2>2. cc' = [cc EXCEPT !.inFlight = m]
      BY <1>3, <2>1 DEF SendInterest, CountUp, Windowed
    <2>3. cc'.window = cc.window /\ cc'.recPoint = cc.recPoint
      BY <1>1, <2>2 DEF Windows
    <2> QED
      BY <1>1, <2>3, SameSpaced
  <1>4. CASE CheckRetxTimeout
    BY <1>4, CheckStep
  <1>5. CASE \E n \in Numbers : OnData(n) /\ phase' = "aborted"
    <2>1. cc' = cc
      BY <1>5, AbortStep
    <2> QED
      BY <1>1, <2>1, SameSpaced
  <1>6. CASE \E n \in Numbers : OnData(n) /\ phase' # "aborted"
    BY <1>6, DataStep
  <1>7. CASE \/ StartApplication \/ StopApplication \/ AddBatch
             \/ /\ Running /\ sending /\ (~Active \/ Choices = {}) /\ sending' = FALSE
                /\ UNCHANGED <<a, phase, seq, seqMax, retxSeqs, timeouts, counts, history,
                               samples, cc, coming, wire, answers>>
             \/ UNCHANGED vars
    <2>1. cc' = cc
      BY <1>7, QuietStep
    <2> QED
      BY <1>1, <2>1, SameSpaced
  <1> QED
    BY <1>3, <1>4, <1>5, <1>6, <1>7, Steps

\* Conservative window adaptation reduces the window once per recovery, for any number
\* of timeouts in one check and any mixture of marked and late Data: between two reductions,
\* however many steps apart, there is Data for a number not yet sent at the first.
THEOREM OneReductionPerRecovery == Spec => CwaSpacing
  <1>1. IInv /\ [Next]_vars
          => [a.kind = "pcon" /\ a.cwa =>
                IF cc'.recPoint = cc.recPoint
                THEN AtOrAbove(cc'.window, Unreduced(cc))
                ELSE /\ AtOrAbove(cc'.window, Reduced(cc.window))
                     /\ cc.recPoint < 2 * cc'.highData
                     /\ 2 * seq <= cc'.recPoint]_vars
    BY CwaStep DEF Spaced
  <1> QED
    BY <1>1, Invariant, PTL DEF Spec, CwaSpacing

\* A sample is only taken of a number that was sent once.
LEMMA KarnStep ==
  ASSUME IInv, [Next]_vars
  PROVE  \A n \in Numbers :
           samples' # samples /\ history[n] # history'[n] /\ a.kind # "batches"
             => counts[n] = 1 /\ n \in Waiting
  <1> SUFFICES ASSUME NEW n \in Numbers, samples' # samples, history[n] # history'[n],
                      a.kind # "batches"
               PROVE  counts[n] = 1 /\ n \in Waiting
    OBVIOUS
  <1>1. /\ history' = [history EXCEPT ![a.prefix] = "none"]
        /\ history[a.prefix] = "fresh"
    <2>1. ~\E c \in Choices : Active /\ c.n \in Numbers /\ SendInterest(c)
      BY DEF SendInterest
    <2>2. ~CheckRetxTimeout
      BY CheckStep
    <2>3. ~\E m \in Numbers : OnData(m) /\ phase' = "aborted"
      BY AbortStep
    <2>4. ~(\/ StartApplication \/ StopApplication \/ AddBatch
            \/ /\ Running /\ sending /\ (~Active \/ Choices = {}) /\ sending' = FALSE
               /\ UNCHANGED <<a, phase, seq, seqMax, retxSeqs, timeouts, counts, history,
                              samples, cc, coming, wire, answers>>
            \/ UNCHANGED vars)
      BY QuietStep
    <2>5. \E m \in Numbers : OnData(m) /\ phase' # "aborted"
      BY <2>1, <2>2, <2>3, <2>4, Steps
    <2> QED
      BY <2>5, DataStep
  <1>2. n = a.prefix /\ history[n] = "fresh"
    BY <1>1 DEF IInv, TypeOK
  <1> QED
    BY <1>2 DEF IInv, KarnInv

\* Karn's rule, with every scheduler but ConsumerBatches, which forgets what it
\* has sent: a round trip is only measured of an Interest sent once and still waited
\* for, also where Zipf draws a content again.
THEOREM KarnRule == Spec => KarnUnlessCleared
  <1>1. IInv /\ [Next]_vars
          => [\A n \in Numbers :
                samples' # samples /\ history[n] # history'[n] /\ a.kind # "batches"
                  => counts[n] = 1 /\ n \in Waiting]_vars
    BY KarnStep
  <1> QED
    BY <1>1, Invariant, PTL DEF Spec, KarnUnlessCleared

-----------------------------------------------------------------------------
(* The refinement of Fetch. *)

\* A step as Fetch sees it.
FetchStep == [Abstract!Next]_(Abstract!vars)

\* A step that leaves what Fetch sees.
LEMMA SameForFetch ==
  ASSUME UNCHANGED <<a, phase, seq, retxSeqs>>, Waiting' = Waiting
  PROVE  FetchStep
  <1>1. /\ InOrder' = InOrder /\ a'.startSeq = a.startSeq
    BY DEF InOrder
  <1>2. /\ FromStart(Waiting \cup retxSeqs)' = FromStart(Waiting \cup retxSeqs)
        /\ FromStart(retxSeqs)' = FromStart(retxSeqs)
    BY <1>1 DEF FromStart
  <1> QED
    BY <1>1, <1>2 DEF FetchStep, Abstract!vars

\* Of the Zipf class Fetch sees nothing.
LEMMA DrawnForFetch ==
  ASSUME ~InOrder, a' = a
  PROVE  FetchStep
  <1>1. ~InOrder' /\ \A S : FromStart(S) = {} /\ (FromStart(S))' = {}
    BY DEF InOrder, FromStart
  <1> QED
    BY <1>1 DEF FetchStep, Abstract!vars

\* What Fetch sees after a step.
LEMMA SeenAfter ==
  ASSUME a' = a, InOrder
  PROVE  /\ InOrder'
         /\ (FromStart(retxSeqs))' = FromStart(retxSeqs')
         /\ (FromStart(Waiting \cup retxSeqs))' = FromStart(Waiting' \cup retxSeqs')
  BY DEF FromStart, InOrder

\* Counting from the start tells numbers apart.
LEMMA FromStartFacts ==
  ASSUME TypeOK, InOrder, NEW S, S \subseteq Numbers
  PROVE  /\ a.startSeq \in Nat
         /\ FromStart(S) \subseteq Int
         /\ \A x \in Nat : /\ x \in S <=> x - a.startSeq \in FromStart(S)
                           /\ FromStart(S \ {x}) = FromStart(S) \ {x - a.startSeq}
                           /\ FromStart(S \cup {x}) = FromStart(S) \cup {x - a.startSeq}
  <1>1. a.startSeq \in Nat /\ S \subseteq Nat
    BY Attribute DEF AttributeType, Numbers
  <1>2. \A T : FromStart(T) = {n - a.startSeq : n \in T}
    BY DEF FromStart
  <1>3. ASSUME NEW x \in Nat
        PROVE  /\ x \in S <=> x - a.startSeq \in FromStart(S)
               /\ FromStart(S \ {x}) = FromStart(S) \ {x - a.startSeq}
               /\ FromStart(S \cup {x}) = FromStart(S) \cup {x - a.startSeq}
    <2>1. \A n \in S : n - a.startSeq = x - a.startSeq <=> n = x
      BY <1>1
    <2>2. x \in S <=> x - a.startSeq \in FromStart(S)
      BY <1>2, <2>1
    <2>3. FromStart(S \ {x}) = FromStart(S) \ {x - a.startSeq}
      BY <1>2, <2>1
    <2>4. FromStart(S \cup {x}) = FromStart(S) \cup {x - a.startSeq}
      BY <1>2
    <2> QED
      BY <2>2, <2>3, <2>4
  <1>4. FromStart(S) \subseteq Int
    <2>1. \A n \in S : n - a.startSeq \in Int
      BY <1>1
    <2> QED
      BY <1>2, <2>1
  <1> QED
    BY <1>1, <1>3, <1>4

\* SendPacket requests the next number, or the smallest that timed out.
LEMMA SendFetches ==
  ASSUME IInv, Active, NEW c \in Choices, c.n \in Numbers, SendInterest(c), InOrder
  PROVE  FetchStep
  <1>1. /\ a' = a /\ phase' = phase /\ phase = "active" /\ seq' = c.seq
        /\ retxSeqs' = retxSeqs \ {c.n}
        /\ c.n \notin Waiting
    BY ChoiceFacts DEF SendInterest, Active, InOrder, IInv
  <1>2. Waiting' = Waiting \cup {c.n}
    <2>1. timeouts' = Append(timeouts, c.n) /\ Distinct(timeouts) /\ timeouts \in Seq(Numbers)
      BY <1>1 DEF SendInterest, IInv, QueueInv, TypeOK
    <2>2. c.n \notin Members(timeouts)
      BY <1>1 DEF Waiting, Members
    <2>3. Members(timeouts') = Members(timeouts) \cup {c.n}
      BY <2>1, <2>2, AppendFacts
    <2> QED
      BY <2>3 DEF Waiting, Members
  <1>3. /\ Waiting \subseteq Numbers /\ retxSeqs \subseteq Numbers /\ Numbers \subseteq Nat
        /\ seq \in Nat /\ c.n \in Nat /\ c.n <= MaxFresh /\ MaxFresh \in Nat
    BY WindowAssumption DEF IInv, TypeOK, Waiting, Numbers
  <1>4. TypeOK /\ a.startSeq \in Nat
    BY FromStartFacts DEF IInv
  <1> DEFINE s == c.n - a.startSeq
  <1>5. CASE retxSeqs # {}
    <2>1. c.n \in retxSeqs /\ c.seq = seq /\ \A k \in retxSeqs : c.n <= k
      BY <1>5 DEF Choices
    <2>2. Waiting' \cup retxSeqs' = Waiting \cup retxSeqs
      BY <1>1, <1>2, <2>1
    <2>3. s \in FromStart(retxSeqs) /\ FromStart(retxSeqs') = FromStart(retxSeqs) \ {s}
      BY <1>1, <1>3, <1>4, <2>1, FromStartFacts
    <2>4. \A t \in FromStart(retxSeqs) : s <= t
      BY <1>3, <1>4, <2>1 DEF FromStart
    <2> QED
      BY <1>1, <2>1, <2>2, <2>3, <2>4, SeenAfter DEF FetchStep, Abstract!Next, Abstract!Retry
  <1>6. CASE retxSeqs = {}
    <2>1. c.n = seq /\ c.seq = seq + 1
      BY <1>6 DEF Choices, InOrder
    <2>2. retxSeqs' = {} /\ Waiting' \cup retxSeqs' = (Waiting \cup retxSeqs) \cup {seq}
      BY <1>1, <1>2, <1>6, <2>1
    <2>3. FromStart(Waiting' \cup retxSeqs') = FromStart(Waiting \cup retxSeqs) \cup {seq - a.startSeq}
      <3> DEFINE S == Waiting \cup retxSeqs
      <3>1. S \subseteq Numbers
        BY <1>3
      <3> HIDE DEF S
      <3>2. FromStart(S \cup {seq}) = FromStart(S) \cup {seq - a.startSeq}
        BY <1>3, <1>4, <3>1, FromStartFacts
      <3> QED
        BY <2>2, <3>2 DEF S
    <2>4. FromStart({}) = {}
      BY DEF FromStart
    <2>5. seq - a.startSeq < MaxFresh + 1 /\ seq' - a.startSeq = (seq - a.startSeq) + 1
      BY <1>1, <1>3, <1>4, <2>1
    <2> QED
      BY <1>1, <1>6, <2>2, <2>3, <2>4, <2>5, SeenAfter DEF FetchStep, Abstract!Next, Abstract!Request
  <1> QED
    BY <1>5, <1>6

\* Interests that time out lapse.
LEMMA CheckFetches ==
  ASSUME IInv, CheckRetxTimeout, InOrder
  PROVE  FetchStep
  <1>1. phase' = phase /\ Running
    BY CheckStep DEF CheckRetxTimeout
  <1>2. PICK n \in 1 .. Len(timeouts) :
          LET expired == {timeouts[i] : i \in 1 .. n}
              asserted == a.kind = "pcon" => \A i \in 0 .. n - 1 : DecreaseAsserted(After[i].c)
          IN  IF asserted
                THEN /\ timeouts' = SubSeq(timeouts, n + 1, Len(timeouts))
                     /\ retxSeqs' = retxSeqs \cup expired
                ELSE phase' = "aborted"
    BY DEF CheckRetxTimeout
  <1> DEFINE E == {timeouts[i] : i \in 1 .. n}
  <1>3. /\ timeouts' = SubSeq(timeouts, n + 1, Len(timeouts))
        /\ retxSeqs' = retxSeqs \cup E
    BY <1>1, <1>2 DEF Running
  <1>4. a' = a /\ seq' = seq /\ timeouts \in Seq(Numbers) /\ Distinct(timeouts)
        /\ retxSeqs \cap Waiting = {} /\ retxSeqs \subseteq Numbers /\ TypeOK
    BY DEF CheckRetxTimeout, IInv, TypeOK, QueueInv
  <1>5. Waiting' = Waiting \ E /\ E \subseteq Waiting
    <2>1. LET t == SubSeq(timeouts, n + 1, Len(timeouts))
          IN  Members(t) = Members(timeouts) \ {timeouts[i] : i \in 1 .. n}
      BY <1>4, RestFacts
    <2>2. Members(timeouts') = Members(timeouts) \ E
      BY <1>3, <2>1
    <2>3. Waiting = Members(timeouts) /\ Waiting' = Members(timeouts')
      BY DEF Waiting, Members
    <2>4. E \subseteq Waiting
      <3>1. DOMAIN timeouts = 1 .. Len(timeouts) /\ Len(timeouts) \in Nat
        BY <1>4
      <3>2. \A i \in 1 .. n : i \in DOMAIN timeouts
        BY <3>1
      <3> QED
        BY <3>2 DEF Waiting
    <2> HIDE DEF E
    <2> QED
      BY <2>2, <2>3, <2>4
  <1>6. Waiting' \cup retxSeqs' = Waiting \cup retxSeqs
    BY <1>3, <1>5
  <1> HIDE DEF E
  <1>7. Waiting \subseteq Numbers
    BY <1>4 DEF Waiting
  <1> DEFINE S == FromStart(E)
  <1>8. FromStart(retxSeqs') = FromStart(retxSeqs) \cup S
    BY <1>3 DEF FromStart
  <1>9. S \in SUBSET (FromStart(Waiting \cup retxSeqs) \ FromStart(retxSeqs))
    <2>1. ASSUME NEW x \in E
          PROVE  x - a.startSeq \in FromStart(Waiting \cup retxSeqs) \ FromStart(retxSeqs)
      <3>1. x \in Numbers /\ x \in Nat /\ x \notin retxSeqs
        BY <1>4, <1>5, <1>7, <2>1 DEF Numbers
      <3>2. x - a.startSeq \notin FromStart(retxSeqs)
        BY <1>4, <3>1, FromStartFacts
      <3>3. x - a.startSeq \in FromStart(Waiting \cup retxSeqs)
        BY <1>5, <2>1 DEF FromStart
      <3> QED
        BY <3>2, <3>3
    <2> QED
      BY <2>1 DEF FromStart
  <1> HIDE DEF S
  <1> QED
    BY <1>1, <1>4, <1>6, <1>8, <1>9, SeenAfter DEF FetchStep, Abstract!Next, Abstract!Lapse, Running

\* Data reports the number it is taken for, if that was due.
LEMMA DataFetches ==
  ASSUME IInv, NEW n \in Numbers, OnData(n), InOrder
  PROVE  FetchStep
  <1>1. a' = a /\ seq' = seq /\ TypeOK /\ phase \in {"active", "stopped"}
    BY DEF OnData, IInv
  <1>2. CASE phase' = "aborted"
    <2>1. retxSeqs' = retxSeqs /\ timeouts' = timeouts
      BY <1>2, AbortStep
    <2>2. Waiting' = Waiting
      BY <2>1 DEF Waiting
    <2> QED
      BY <1>1, <1>2, <2>1, <2>2, SeenAfter DEF FetchStep, Abstract!Next, Abstract!Live
  <1>3. CASE phase' # "aborted"
    <2>1. phase' = phase
      BY <1>3, DataStep
    <2>2. \/ Active /\ Acknowledge(a.prefix) /\ a.prefix # NotANumber
          \/ ~Active /\ UNCHANGED <<retxSeqs, timeouts>>
      BY <1>3, DataStep
    <2>3. CASE ~Active /\ UNCHANGED <<retxSeqs, timeouts>>
      BY <1>1, <2>1, <2>3, SameForFetch DEF Waiting
    <2>4. CASE Active /\ Acknowledge(a.prefix) /\ a.prefix # NotANumber
      <3> DEFINE p == a.prefix
                 s == p - a.startSeq
                 D == Waiting \cup retxSeqs
      <3>1. p \in Numbers /\ p \in Nat
        BY <1>1, <2>4, Attribute DEF Numbers
      <3>2. retxSeqs' = retxSeqs \ {p} /\ timeouts' = Erased(p)
        BY <2>4 DEF Acknowledge
      <3>3. Waiting' = Waiting \ {p}
        BY <1>1, <3>2, ErasedFacts DEF Waiting, Members, IInv, QueueInv
      <3>4. Waiting' \cup retxSeqs' = D \ {p}
        BY <3>2, <3>3
      <3>5. retxSeqs \subseteq Numbers /\ D \subseteq Numbers
        BY <1>1 DEF TypeOK, Waiting
      <3> HIDE DEF D, p
      <3>6. /\ FromStart(retxSeqs \ {p}) = FromStart(retxSeqs) \ {s}
            /\ FromStart(D \ {p}) = FromStart(D) \ {s}
            /\ p \in D <=> s \in FromStart(D)
        BY <1>1, <3>1, <3>5, FromStartFacts
      <3>7. CASE p \in D
        <4>1. s \in FromStart(Waiting \cup retxSeqs)
              /\ (FromStart(Waiting \cup retxSeqs))' = FromStart(Waiting \cup retxSeqs) \ {s}
              /\ (FromStart(retxSeqs))' = FromStart(retxSeqs) \ {s}
          BY <1>1, <3>2, <3>4, <3>6, <3>7, SeenAfter DEF D
        <4> HIDE DEF s
        <4> QED
          BY <1>1, <2>1, <2>4, <4>1, SeenAfter DEF FetchStep, Abstract!Next, Abstract!Report, Active
      <3>8. CASE p \notin D
        <4>1. Waiting' = Waiting /\ retxSeqs' = retxSeqs
          BY <3>2, <3>3, <3>8 DEF D
        <4> QED
          BY <1>1, <2>1, <4>1, SameForFetch
      <3> QED
        BY <3>7, <3>8
    <2> QED
      BY <2>2, <2>3, <2>4
  <1> QED
    BY <1>2, <1>3

\* Every step is one of Fetch, or nothing to it.
LEMMA NextFetches == IInv /\ [Next]_vars => FetchStep
  <1> SUFFICES ASSUME IInv, [Next]_vars PROVE FetchStep
    OBVIOUS
  <1>1. a' = a
    BY DEF Next, StartApplication, StopApplication, AddBatch, SendPacket, SendInterest,
           CheckRetxTimeout, OnData, vars
  <1>2. CASE ~InOrder
    BY <1>1, <1>2, DrawnForFetch
  <1>3. CASE InOrder
    <2>1. CASE \E c \in Choices : Active /\ c.n \in Numbers /\ SendInterest(c)
      BY <1>3, <2>1, SendFetches
    <2>2. CASE CheckRetxTimeout
      BY <1>3, <2>2, CheckFetches
    <2>3. CASE \E n \in Numbers : OnData(n)
      BY <1>3, <2>3, DataFetches
    <2>4. CASE StartApplication \/ StopApplication
      <3>1. /\ seq' = seq /\ retxSeqs' = retxSeqs /\ Waiting' = Waiting
            /\ \/ phase = "idle" /\ phase' = "active"
               \/ phase = "active" /\ phase' = "stopped"
        BY <2>4 DEF StartApplication, StopApplication, Active, Waiting
      <3> QED
        BY <1>1, <1>3, <3>1, SeenAfter DEF FetchStep, Abstract!Next, Abstract!Live
    <2>5. CASE \/ AddBatch
               \/ UNCHANGED <<a, phase, seq, seqMax, retxSeqs, timeouts, counts, history,
                              samples, cc, coming, wire, answers>>
               \/ UNCHANGED vars
      <3>1. UNCHANGED <<a, phase, seq, retxSeqs, timeouts>>
        BY <2>5 DEF AddBatch, vars
      <3> QED
        BY <3>1, SameForFetch DEF Waiting
    <2> QED
      BY <2>1, <2>2, <2>3, <2>4, <2>5, Steps
  <1> QED
    BY <1>2, <1>3

\* The same specification as that of the constant rate consumers: whatever the window,
\* the marks and the batches do, numbers are requested in order, those that lapsed
\* first, each is reported at most once, and nothing is requested after the stop.
THEOREM WindowConsumersFetch == Spec => FetchSpec
  <1>1. Init => Abstract!Init
    <2> SUFFICES ASSUME Init PROVE Abstract!Init
      OBVIOUS
    <2>1. TypeOK /\ Waiting = {} /\ retxSeqs = {} /\ phase = "idle" /\ seq = a.startSeq
      BY InitType DEF Init, Waiting
    <2>2. a.startSeq \in Nat
      BY <2>1, Attribute DEF AttributeType, Numbers
    <2>3. FromStart({}) = {}
      BY DEF FromStart
    <2> QED
      BY <2>1, <2>2, <2>3 DEF Abstract!Init
  <1>2. IInv /\ [Next]_vars => [Abstract!Next]_(Abstract!vars)
    BY NextFetches DEF FetchStep
  <1> QED
    BY <1>1, <1>2, Invariant, PTL DEF Spec, FetchSpec, Abstract!Spec
=============================================================================
