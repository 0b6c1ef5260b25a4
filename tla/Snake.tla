------------------------------- MODULE Snake -------------------------------
(***************************************************************************)
(* SNAKE, the in-network computing protocol of the fork: a SnakeConsumer,  *)
(* a chain of SnakeBolts (bolt 1 next to the consumer, bolt N next to the  *)
(* producer) and a SnakeProducer.                                          *)
(*                                                                         *)
(* A request for a sequence number has two rounds.  The metadata round     *)
(* goes to the producer and comes back, and every bolt on the way back     *)
(* puts its estimated cost in the tags when it is the cheapest so far.     *)
(* The result round carries the marker of the cheapest bolt, which         *)
(* executes the function on the Data as it passes.  With RttOpt on, a bolt *)
(* may turn the metadata back into a result request by itself; with local  *)
(* or producer there is one round, marked by the bolt on the consumer's or *)
(* the producer's node.                                                    *)
(*                                                                         *)
(* A bolt keys what it knows of a request by the nonce, which it copies to *)
(* the Interest it expresses.  Names are abstracted to the sequence number *)
(* they contain; the random Key-TID of a bolt makes its Interest's answer  *)
(* come back to that Interest, here the entry of pending.                  *)
(*                                                                         *)
(* External: the forwarder, which carries Interests up the chain and       *)
(* answers down it, and may lose or duplicate an Interest.                 *)
(***************************************************************************)
EXTENDS Integers, FiniteSets

CONSTANTS
  N,          \* number of bolts on the path
  Seqs,       \* sequence numbers the consumer requests
  Costs,      \* values the cost estimator returns
  RttOpts,    \* values of the global value RttOpt
  MaxNonce,   \* bound: Interests the consumer creates
  MaxRetx,    \* bound: requests repeated after a timeout
  MaxDups,    \* bound: Interests the network delivers twice
  MaxLoss     \* bound: messages lost or answered too late

ASSUME SnakeAssumption ==
  /\ N \in Nat \ {0} /\ Costs \subseteq Nat /\ Costs # {}
  /\ RttOpts \subseteq {"on", "off", "local", "producer"}
  /\ MaxNonce \in Nat /\ MaxRetx \in Nat /\ MaxDups \in Nat /\ MaxLoss \in Nat

Bolts == 1 .. N
Nonces == 1 .. MaxNonce
Producer == N + 1
Consumer == 0

NoMarker == 0     \* no MinCostMarkerTag; else the bolt the marker is a hash of
NoCost == -1      \* no MaxCostTag, and no MinCostTag (ULLONG_MAX in the code)
Unexecuted == 0

Interest == [to : 1 .. Producer, nonce : Nonces, seq : Seqs, marker : 0 .. N]
Data == [to : 0 .. N, nonce : Nonces, seq : Seqs, meta : BOOLEAN, marker : 0 .. N,
         minCost : Costs \cup {NoCost}, maxCost : Costs \cup {NoCost},
         executed : 0 .. N]

VARIABLES
  cost, delay,  \* what the estimator returns at each bolt (fixed by Init)
  rttOpt,       \* the global value RttOpt (fixed by Init)
  waiting,      \* sequence numbers in the consumer's containers
  answer,       \* per sequence number: -1, or the bolt that executed what was accepted
  nonces,       \* nonces used by the consumer so far
  loop,         \* Bolt::loop, per bolt
  reqs,         \* the keys of Bolt::Reqs, per bolt
  pending,      \* per bolt and nonce: expressed Interests without an answer
  replied,      \* SnakeProducer::repliedMetadataContiner
  interests,    \* Interests in the network
  datas,        \* Data in the network
  seen,         \* per sequence number: bolts that processed its metadata
  retx, dups, losses

costVars == <<cost, delay, rttOpt>>
consumerVars == <<waiting, answer, nonces>>
boltVars == <<loop, reqs, pending>>
bounds == <<retx, dups, losses>>
vars == <<costVars, consumerVars, boltVars, replied, interests, datas, seen, bounds>>

NoAnswer == -1

TypeOK ==
  /\ cost \in [Bolts -> Costs] /\ delay \in [Bolts -> Costs] /\ rttOpt \in RttOpts
  /\ waiting \subseteq Seqs /\ answer \in [Seqs -> {NoAnswer} \cup 0 .. N]
  /\ nonces \in 0 .. MaxNonce
  /\ loop \in [Bolts -> SUBSET Nonces] /\ reqs \in [Bolts -> SUBSET Nonces]
  /\ pending \in [Bolts -> [Nonces -> Nat]]
  /\ replied \subseteq Seqs
  /\ interests \subseteq Interest /\ datas \subseteq Data
  /\ seen \in [Seqs -> SUBSET Bolts]
  /\ retx \in 0 .. MaxRetx /\ dups \in 0 .. MaxDups /\ losses \in 0 .. MaxLoss

Init ==
  /\ cost \in [Bolts -> Costs] /\ delay \in [Bolts -> Costs] /\ rttOpt \in RttOpts
  /\ waiting = {} /\ answer = [s \in Seqs |-> NoAnswer] /\ nonces = 0
  /\ loop = [i \in Bolts |-> {}] /\ reqs = [i \in Bolts |-> {}]
  /\ pending = [i \in Bolts |-> [n \in Nonces |-> 0]]
  /\ replied = {} /\ interests = {} /\ datas = {}
  /\ seen = [s \in Seqs |-> {}]
  /\ retx = 0 /\ dups = 0 /\ losses = 0

-----------------------------------------------------------------------------
(* SnakeConsumer. *)

\* An Interest with a fresh nonce enters the network at bolt 1.
Express(s, marker, sent) ==
  /\ nonces < MaxNonce
  /\ nonces' = nonces + 1
  /\ interests' = sent \cup {[to |-> 1, nonce |-> nonces + 1, seq |-> s, marker |-> marker]}

\* SnakeConsumerCbr's ScheduleNextPacket: a send event as long as there are numbers
\* that were never sent; bound: in any order.
Scheduled(s) == s \notin waiting /\ answer[s] = NoAnswer

\* SendPacket with a fresh sequence number: a metadata request.
SendPacket(s) ==
  /\ Scheduled(s)
  /\ Express(s, NoMarker, interests)
  /\ waiting' = waiting \cup {s}
  /\ UNCHANGED <<costVars, answer, boltVars, replied, datas, seen, bounds>>

\* CheckRetxTimeout: any number in the containers may have waited long enough.
TimedOut(s) == s \in waiting /\ retx < MaxRetx

\* OnTimeout and the SendPacket that follows it: again a metadata request,
\* whichever round the timeout interrupted.
Retransmit(s) ==
  /\ TimedOut(s)
  /\ retx' = retx + 1
  /\ Express(s, NoMarker, interests)
  /\ UNCHANGED <<costVars, waiting, answer, boltVars, replied, datas, seen, dups, losses>>

\* OnData of metadata, ackSnakeMetadata: the result request.  No container of
\* the consumer changes, and an already answered number is asked for again.
OnMetadata(d) ==
  /\ d.to = Consumer /\ d.meta
  /\ datas' = datas \ {d}
  /\ Express(d.seq, d.marker, interests)
  /\ UNCHANGED <<costVars, waiting, answer, boltVars, replied, seen, bounds>>

\* OnData of anything else: accepted as the result.
OnResult(d) ==
  /\ d.to = Consumer /\ ~d.meta
  /\ datas' = datas \ {d}
  /\ waiting' = waiting \ {d.seq}
  /\ answer' = [answer EXCEPT ![d.seq] = IF d.seq \in waiting THEN d.executed ELSE @]
  /\ UNCHANGED <<costVars, nonces, boltVars, replied, interests, seen, bounds>>

-----------------------------------------------------------------------------
(* SnakeBolt and its base class Bolt. *)

\* Slip: the loop check is skipped.
NeverLooped(i, n) == FALSE

\* The loop check by nonce.
Islooped(i, n) == n \in loop[i]

\* processingInterest, with the nodes of consumer and producer at the ends.
ProcessingInterest(i, m) ==
  IF <<rttOpt, i>> \in {<<"local", 1>>, <<"producer", N>>} THEN [m EXCEPT !.marker = i] ELSE m

\* onInterest: dropped if its nonce is in use, else remembered and expressed
\* one hop further under the same nonce.
BoltOnInterest(i, m) ==
  /\ m.to = i
  /\ IF Islooped(i, m.nonce)
       THEN /\ interests' = interests \ {m}
            /\ UNCHANGED boltVars
       ELSE /\ interests' = (interests \ {m}) \cup {[ProcessingInterest(i, m) EXCEPT !.to = i + 1]}
            /\ loop' = [loop EXCEPT ![i] = @ \cup {m.nonce}]
            /\ reqs' = [reqs EXCEPT ![i] = @ \cup {m.nonce}]
            /\ pending' = [pending EXCEPT ![i][m.nonce] = @ + 1]
  /\ UNCHANGED <<costVars, consumerVars, replied, datas, seen, bounds>>

\* Slip: the comparison is swapped.
CheaperSwapped(i, d) == d.minCost = NoCost \/ cost[i] > d.minCost

\* The comparison of the MinCost tag (absent: ULLONG_MAX) with the own cost.
Cheaper(i, d) == d.minCost = NoCost \/ cost[i] < d.minCost

\* The MinCost and MinCostMarker tags a bolt leaves on metadata.
MarkMinCost(i, d) ==
  IF Cheaper(i, d) THEN [d EXCEPT !.minCost = cost[i], !.marker = i] ELSE d

\* RttOpt: the MaxCost tag, set by the first bolt, and whether it turns the
\* metadata back.
MaxCostAt(i, d) == IF d.maxCost = NoCost THEN cost[i] ELSE d.maxCost
TurnsBack(i, d) == rttOpt = "on" /\ d.meta /\ delay[i] >= MaxCostAt(i, d)
MarkMaxCost(i, d) ==
  IF rttOpt # "on" THEN d
  ELSE [d EXCEPT !.maxCost =
          IF MaxCostAt(i, d) < cost[i] THEN cost[i] ELSE MaxCostAt(i, d)]

\* The chosen bolt executes the function, if nobody did.
Execute(i, d) ==
  IF d.executed = Unexecuted /\ d.marker = i THEN [d EXCEPT !.executed = i] ELSE d

\* processingData.
Process(i, d) == IF d.meta THEN MarkMaxCost(i, MarkMinCost(i, d)) ELSE Execute(i, d)

\* Slip: the Quest is erased, the nonce stays in loop.
CleanReqsOnly(i, n) ==
  /\ reqs' = [reqs EXCEPT ![i] = @ \ {n}]
  /\ UNCHANGED loop

\* clean: what is known of a nonce is forgotten.
Clean(i, n) ==
  /\ loop' = [loop EXCEPT ![i] = @ \ {n}]
  /\ reqs' = [reqs EXCEPT ![i] = @ \ {n}]

\* Slip: the state of a request is forgotten when it is turned back.
TurnBackCleaning(i, n) == Clean(i, n)

\* turnBackPreprocessingInterest keeps (or, by operator[], makes) the Quest.
TurnBackKeeping(i, n) ==
  /\ reqs' = [reqs EXCEPT ![i] = @ \cup {n}]
  /\ UNCHANGED loop

\* onData with GO_FORWARD_ACTION: processed, renamed, passed down, cleaned.
BoltForwardData(i, d) ==
  /\ d.to = i /\ pending[i][d.nonce] > 0
  /\ ~TurnsBack(i, d)
  /\ pending' = [pending EXCEPT ![i][d.nonce] = @ - 1]
  /\ Clean(i, d.nonce)
  /\ datas' = (datas \ {d}) \cup {[Process(i, d) EXCEPT !.to = i - 1]}
  /\ seen' = [seen EXCEPT ![d.seq] = IF d.meta THEN @ \cup {i} ELSE @]
  /\ UNCHANGED <<costVars, consumerVars, replied, interests, bounds>>

\* onData with TURN_BACK_ACTION: the bolt asks for the result itself, with the
\* marker chosen so far and the nonce of the request it serves.
BoltTurnBack(i, d) ==
  /\ d.to = i /\ pending[i][d.nonce] > 0
  /\ TurnsBack(i, d)
  /\ UNCHANGED pending       \* one Interest answered, another one expressed
  /\ TurnBackKeeping(i, d.nonce)
  /\ datas' = datas \ {d}
  /\ interests' = interests \cup
       {[to |-> i + 1, nonce |-> d.nonce, seq |-> d.seq, marker |-> MarkMinCost(i, d).marker]}
  /\ seen' = [seen EXCEPT ![d.seq] = @ \cup {i}]
  /\ UNCHANGED <<costVars, consumerVars, replied, bounds>>

\* onData: what processingData returns decides.
BoltOnData(i, d) == BoltForwardData(i, d) \/ BoltTurnBack(i, d)

\* onTimeout: only a message is printed; loop and Reqs keep the nonce.
BoltOnTimeout(i, n) ==
  /\ pending[i][n] > 0 /\ losses < MaxLoss
  /\ losses' = losses + 1
  /\ pending' = [pending EXCEPT ![i][n] = @ - 1]
  /\ UNCHANGED <<costVars, consumerVars, loop, reqs, replied, interests, datas, seen,
                 retx, dups>>

\* onNack, for the Interest m the bolt expressed: a local Nack (PRODUCER_LOCAL,
\* CACHE_LOCAL) is answered downstream by Data of the bolt's own, without tags,
\* and cleaned; any other one is only printed.
BoltOnNack(i, m, local) ==
  /\ m.to = i + 1 /\ pending[i][m.nonce] > 0 /\ losses < MaxLoss
  /\ losses' = losses + 1
  /\ interests' = interests \ {m}
  /\ pending' = [pending EXCEPT ![i][m.nonce] = @ - 1]
  /\ IF local
       THEN /\ Clean(i, m.nonce)
            /\ datas' = datas \cup
                 {[to |-> i - 1, nonce |-> m.nonce, seq |-> m.seq, meta |-> FALSE,
                   marker |-> NoMarker, minCost |-> NoCost, maxCost |-> NoCost,
                   executed |-> Unexecuted]}
       ELSE UNCHANGED <<loop, reqs, datas>>
  /\ UNCHANGED <<costVars, consumerVars, replied, seen, retx, dups>>

-----------------------------------------------------------------------------
(* SnakeProducer. *)

\* Slip: an answered request is never forgotten.
RememberForever(m, asked) == replied' = replied \cup {m.seq}

\* The name and parameters of an answered metadata request are remembered, those
\* of any other request forgotten.
Remember(m, asked) ==
  replied' = IF asked THEN replied \cup {m.seq} ELSE replied \ {m.seq}

\* isRequestForMetadata.
IsRequestForMetadata(m) == m.marker = NoMarker /\ m.seq \notin replied

\* OnInterest: metadata, or the Data with the function still to be executed and
\* the marker, if any, of the request.
ProducerOnInterest(m) ==
  /\ m.to = Producer
  /\ interests' = interests \ {m}
  /\ LET asked == IsRequestForMetadata(m)
     IN  /\ Remember(m, asked)
         /\ datas' = datas \cup
              {[to |-> N, nonce |-> m.nonce, seq |-> m.seq, meta |-> asked,
                marker |-> m.marker, minCost |-> NoCost, maxCost |-> NoCost,
                executed |-> Unexecuted]}
  /\ UNCHANGED <<costVars, consumerVars, boltVars, seen, bounds>>

-----------------------------------------------------------------------------
(* The network. *)

\* An Interest reaches a bolt that already received it: a second path.
Duplicate(i, m) ==
  /\ dups < MaxDups /\ i < m.to
  /\ dups' = dups + 1
  /\ interests' = interests \cup {[m EXCEPT !.to = i]}
  /\ UNCHANGED <<costVars, consumerVars, boltVars, replied, datas, seen, retx, losses>>

\* An Interest is lost, or the consumer gets a Nack for it, which OnNack only logs.
LoseInterest(m) ==
  /\ losses < MaxLoss
  /\ losses' = losses + 1
  /\ interests' = interests \ {m}
  /\ UNCHANGED <<costVars, consumerVars, boltVars, replied, datas, seen, retx, dups>>

\* Data is lost, or dropped because the Interest it answers is gone.
LoseData(d) ==
  /\ losses < MaxLoss \/ (d.to \in Bolts /\ pending[d.to][d.nonce] = 0)
  /\ losses' = IF losses < MaxLoss THEN losses + 1 ELSE losses
  /\ datas' = datas \ {d}
  /\ UNCHANGED <<costVars, consumerVars, boltVars, replied, interests, seen, retx, dups>>

Deliver ==
  \/ \E m \in interests : ProducerOnInterest(m) \/ \E i \in Bolts : BoltOnInterest(i, m)
  \/ \E d \in datas : OnMetadata(d) \/ OnResult(d) \/ \E i \in Bolts : BoltOnData(i, d)

Disturb ==
  \/ \E s \in Seqs : Retransmit(s)
  \/ \E i \in Bolts, n \in Nonces : BoltOnTimeout(i, n)
  \/ \E m \in interests :
       \/ LoseInterest(m)
       \/ \E i \in Bolts : Duplicate(i, m) \/ \E b \in BOOLEAN : BoltOnNack(i, m, b)
  \/ \E d \in datas : LoseData(d)

Next == (\E s \in Seqs : SendPacket(s)) \/ Deliver \/ Disturb

Spec == Init /\ [][Next]_vars

\* Every message in the network is delivered in the end.
FairSpec == Spec /\ WF_vars(Deliver) /\ \A s \in Seqs : WF_vars(SendPacket(s))

-----------------------------------------------------------------------------
(* Properties. *)

\* A bolt that waits for an answer still has the Quest and the nonce that clean
\* erases by iterator when the answer comes: erase is never given end(), and the
\* operator[] of Reqs never makes an empty Quest.
CleanDefined ==
  \A i \in Bolts, n \in Nonces : pending[i][n] > 0 => n \in loop[i] /\ n \in reqs[i]

\* Bolt::loop and Bolt::Reqs hold the same nonces.
LoopMatchesReqs == loop = reqs

\* One request is expressed by a bolt once at a time, whatever the network
\* duplicates and although a turned back request is expressed under its nonce.
ExpressedOnce == \A i \in Bolts, n \in Nonces : pending[i][n] <= 1

\* What the consumer accepts as the result of a function is its result, not the
\* producer's raw Data, and was computed on a bolt at least as cheap as every bolt
\* that saw the metadata: exactly what the two rounds are for.  All have seen it when
\* none may turn it back.  With one round it is the bolt at the end that RttOpt names.
ExecutedAtCheapest ==
  \A s \in Seqs :
    answer[s] # NoAnswer =>
      /\ answer[s] \in Bolts /\ \A i \in seen[s] : cost[answer[s]] <= cost[i]
      /\ rttOpt = "off" => seen[s] = Bolts
      /\ rttOpt = "local" => answer[s] = 1
      /\ rttOpt = "producer" => answer[s] = N

\* A request that is not for metadata carries the marker of the bolt that is to
\* execute the function (SnakeProducer: "2nd incoming interest carrying min cost
\* marker"), so the Data that answers it does.
MarkerOnResults == \A d \in datas : d.meta \/ d.marker # NoMarker

\* Once every request is answered the producer remembers none of them.
ProducerForgets ==
  (interests = {} /\ datas = {} /\ waiting = {}) => replied = {}

\* Without losses, every request is answered.
Answered == \A s \in Seqs : s \in waiting ~> s \notin waiting
=============================================================================
