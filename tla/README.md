# ndnSIM in TLA+

Specifications of this fork of ndnSIM, the ns-3 module that simulates Named Data
Networking, with TLC runs on small instances and TLAPS proofs for all instances.

The repository is a layer around two others: ns-3 (clock, events, channels,
object model) below it and NFD with ndn-cxx (the forwarder and the client
library, git submodules whose directories are empty here) inside it. What this
repository decides itself, and what is specified here, is how applications
request, retry, control congestion and measure; how the "bolts" of the fork,
small programs beside the forwarder, rewrite requests and answers on their way
(SNAKE, in-network function execution, and Trace); how a topology is read, a
stack installed on its nodes and routes computed before a run; and what a node
does with applications, faces and tracers that come and go while events are on
their way.

* [Inventory](#inventory)
* [How the parts interact](#how-the-parts-interact)
* [Modules and their code](#modules-and-their-code)
* [Runs](#runs), [bounds](#bounds), [fairness](#fairness)
* [Disagreements found](#disagreements-found)
* [Proofs](#proofs)
* [Only model-checked](#only-model-checked), [not modelled](#not-modelled)
* [Plan](#plan)

Paths below are relative to the repository.

## Inventory

### Consumers: `apps/ndn-consumer.*`, `ndn-consumer-cbr.*`, `ndn-bolt-consumer*`, `ndn-trace-consumer*`

*State.* The next sequence number `m_seq`; `m_retxSeqs` (timed out, to be sent
again); three multi-index containers of time stamps, `m_seqTimeouts`,
`m_seqFullDelay`, `m_seqLastDelay`; the map `m_seqRetxCounts`; two ns-3 events,
`m_sendEvent` and `m_retxEvent`; `m_active`; the RTT estimator.

*Operations.* `StartApplication`, `StopApplication`, `ScheduleNextPacket`,
`SendPacket`, `WillSendOutInterest`, `OnData`, `OnNack` (logs), `OnTimeout`,
`CheckRetxTimeout`, `SetRetxTimer`; for traces `getPathDetails`, `pars`, `sum`.

*Hard.* Five containers updated by three handlers whose order the network
decides; Data that arrives after its timeout but before the retransmission; Data
that arrives twice; a chain of send events that ends by itself and must be
started again by a timeout; subclasses that call `Consumer::OnData` and then
repeat its body.

*Correct when.* No sequence number is lost or held twice; delays are reported
once; the estimator obeys Karn's rule; the event chain is there whenever there is
something to send; an Interest times out in bounded time; a stopped application
is silent; a timed-out number is sent again unless smaller ones keep timing out
faster than numbers are sent. All this is the promise of the
abstract specification `Fetch` with the timing added.

### RTT estimator: `utils/ndn-rtt-estimator.*`, `utils/ndn-rtt-mean-deviation.*`

*State.* `m_history` (sequence numbers sent, with a retransmission mark),
`m_multiplier`, `m_nSamples`, the smoothed estimate. *Operations.* `SentSeq`,
`AckSeq`, `IncreaseMultiplier`, `ResetMultiplier`, `RetransmitTimeout`,
`ClearSent`, `Reset`. *Hard.* Marks set by timeouts before the packet leaves; a
history cleared under way. *Correct when.* The multiplier is bounded,
`RetransmitTimeout` stays within `MaxRTO`, no ambiguous sample is taken.

### Window based consumers: `apps/ndn-consumer-window.*`, `-pcon`, `-batches`, `-zipf-mandelbrot`

*State.* Window, in-flight count, `m_ssthresh`, `m_highData`, `m_recPoint`, the
batch list. *Operations.* Those of `Consumer` overridden, `WindowIncrease`,
`WindowDecrease` (AIMD, BIC, CUBIC), `AddBatch`, `GetNextSeq`. *Hard.* Data and
timeouts both count down; several timeouts in one check; sequence number
arithmetic under assertions; attributes that overwrite each other. All of them
name their Interests as `ConsumerCbr` does, so that Data ends the program
([1](#disagreements-found)) unless the last component of the prefix happens to be
a number. A window of zero sends on a timer. *Correct when.* The window never waits for what nobody will answer or
time out, congestion is reacted to once per recovery, no assertion fails.

### SNAKE: `apps/ndn-snake-consumer*`, `apps/snake/*`, `apps/bolts/bolt.hpp`, `apps/ndn-snake-producer.*`

A request runs in two rounds. The first Interest asks for metadata; every
`SnakeBolt` on the way back compares the cheapest cost so far, carried in a
packet tag, with its own and leaves its marker when it is cheaper. The second
Interest carries the marker, and the marked bolt executes the function on the
Data that passes. With the global value `RttOpt` a bolt may turn the metadata
back into a result request without a trip to the consumer, or the bolt on the
consumer's or producer's node marks itself at once and there is one round only.

*State.* Consumer: as above. Bolt: `loop` (nonces in use) and `Reqs` (a `Quest`
per nonce). Producer: `repliedMetadataContiner`, hashes of answered metadata
requests. *Operations.* `SendPacket`, `ackSnakeMetadata`, `OnData`; `onInterest`,
`Islooped`, `onData` with `processingData`, `turnBackPreprocessingInterest`,
`clean`, `onNack`, `onTimeout`; `OnInterest`, `isRequestForMetadata`.

*Hard.* Everything a bolt knows is keyed by a nonce that travels; `clean` erases
by iterator without looking; the producer tells the two rounds apart by what it
remembers of earlier Interests; Interests can be repeated, duplicated and lost at
every hop. *Correct when.* What `clean` erases exists, an Interest is expressed
once at a time, the result was executed and at the cheapest bolt that was asked,
every request is answered, the producer does not accumulate.

### TraceBolt: `apps/trace-bolt.hpp`

*State.* `loop`, `Reqs` with the fields of multipath traces (`mhops`, `m_reply`).
*Operations.* `onInterest` in modes S and M, `query` (asks the FIB manager),
`onData`, `onNack`, `onTimeout`, `createmulti`, `createData`, `createNack`,
`format`, `clean`. *Hard.* The FIB answer is a later event; several answers belong
to one request; delays and overheads of bolts are nested in each other's replies
and taken apart by the consumer. *Correct when.* The Quest lives as long as an
answer can come, each accepted request is answered once, the printed times are
those of the links.

### LFID routing: `helper/lfid/*`

*State.* Per destination the abstract FIB of every node (next hops with cost,
difference to the shortest path and class downward or upward), a digraph of it, a
priority queue of nodes, a set of upward next hops. *Operations.* `checkInputs`,
filling by Dijkstra with the metrics of one node set to infinity, `checkFib`,
`removeLoops`, `removeDeadEnds`, installing. *Hard.* Two greedy loops that delete
from the structure they iterate by and put entries back into their queues; three
copies of the same edges. *Correct when.* The copies agree, the installed routes
neither loop nor end dead, the loops end, no assertion fails.

### Global routing: `helper/ndn-global-routing-helper.*`, `model/ndn-global-router.*`, `helper/boost-graph-ndn-global-routing-helper.hpp`

*State.* A `GlobalRouter` per node and per channel that is not point to point,
with its incidencies and local prefixes; the metrics of the faces; FIB entries.
*Operations.* `Install`, `AddOrigin`, `CalculateRoutes`,
`CalculateAllPossibleRoutes`. *Hard.* `Install` calls itself through nodes and
channels; all metrics of a node are overwritten and lent back one at a time;
later routes replace earlier ones with the same face. *Correct when.* The graph is
the network, the metrics come back, each route has the cost of the way it leads.

### Topology readers: `utils/topology/*`

*State.* Nodes, links, processed pairs; for maps a graph with ranks. *Operations.*
`Read`, `ApplySettings`, `Commit`, `SaveTopology`, `ApplyOspfMetric`; the map
reader's `AssignClients`, `assignGw`, `ConnectBackboneRouters`,
`KeepOnlyBiggestConnectedComponent`, `CreateLink`, `CreateNode`. *Hard.* Matching
by position in two files; recursion that overwrites ranks; removals after
connecting. *Correct when.* A saved topology reads as the same, a link has its own
latency, the backbone is connected.

### Scenario helpers: `helper/ndn-{fib,strategy-choice,link-control,app,scenario,network-region-table}-helper.*`

*State.* None of their own but `ScenarioHelper::links`; they act on FIB, strategy
table, error models and region table. *Hard.* Several links between two nodes:
`ScenarioHelper` means the last, the others the first. *Correct when.* A command
does what it says to both ends of one link and to no other.

### Protocol stack: `model/ndn-l3-protocol.*`, `ndn-net-device-transport.*`, `helper/ndn-stack-helper.*`

*State.* The face table with its managers' faces, callbacks that make faces,
default routes. *Operations.* `Install`, `Update`, `AddFaceCreateCallback` and its
kin, `SetLinkDelayAsFaceMetric`, `ProcessWarmupEvents`. *Hard.* Devices that are
added between calls. *Correct when.* Each device has one face and its route.

### Applications on a node: `apps/ndn-app.*`, `model/ndn-app-link-service.*`, `apps/ndn-producer.*`, `apps/ndn-{trace,bolt}-app.*`, `snake/ndn-snake-app.*`

*State.* `m_active`, the application's face, a bolt. *Operations.* Start, stop,
`AddRoute` for a producer's prefix, delivery by `Simulator::ScheduleNow`. *Hard.*
Start and stop between an event and its delivery; commands that arrive for a face
that is gone. *Correct when.* A producer is served exactly while it runs.

### Tracers: `utils/tracers/*`

*State.* Counters by face, face descriptions, the averaging period and its event.
*Operations.* `Install`, the trace callbacks, `PeriodicPrinter`, `Print`, `Reset`.
*Hard.* Faces without a number; the first event that is cancelled; in- and
out-records; commands to the managers, which are Interests whose answers are counted
and whose packets are not. *Correct when.* Every row is about a known face and tells of no more
than happened, over the time that passed.

### Everything else

Clocks, key chain and packet tag are stubs without behaviour of their own.

## How the parts interact

```
 reader --links--> StackHelper --faces--> GlobalRouter/LFID --FIB--> forwarder
 Consumer --Interest--> AppLinkService --> forwarder --> bolt 1 ... bolt N --> Producer
    ^   (ScheduleNow)                     (external)     |  Quest per nonce      |
    +------------------- Data / Nack, same way back, tags rewritten -------------+
 RTT estimator <- SentSeq, AckSeq, IncreaseMultiplier - Consumer
 tracers <- trace sources of L3Protocol, consumers and queues
```

* Calls: a consumer calls its estimator and its own scheduler; helpers call each
  other before the run. Callbacks: ns-3 events (send, retransmission check,
  printer), the link service, ndn-cxx's Face for the bolts, the controller's
  `fetch` for the FIB query of `TraceBolt`, trace sources.
* Messages: Interests with a nonce and the tags MinCost, MinCostMarker, MaxCost,
  Metadata and Function; Data with the same tags; commands to the managers, which
  are Interests too and arrive later. The first round of SNAKE is recognised by
  the absence of a marker and by what the producer remembers.
* The simulator is one thread. A handler is atomic, which is why each is one
  action. The interleavings are those of events: which of several due at the same
  instant runs first, and in which order the network delivers.

## Modules and their code

| Module | Code | State | Actions |
| --- | --- | --- | --- |
| `Fetch` | what every consumer promises | numbers due and lapsed | `Request`, `Retry`, `Lapse`, `Report`, `Live` |
| `Consumer` | `apps/ndn-consumer.*`, its Cbr subclasses, `utils/ndn-rtt-*` | one variable per container, per event and per field of the estimator that matters | `StartApplication`, `StopApplication`, `SendPacket`, `CheckRetxTimeout` (with `OnTimeout` for each expired number), `OnData`, `LoseOrNack`, `Tick` |
| `WindowConsumer` | `apps/ndn-consumer-{window,pcon,batches,zipf-mandelbrot}.*` | attributes, containers in the order of their time stamps, congestion control | `StartApplication`, `StopApplication`, `AddBatch`, `SendPacket`, `CheckRetxTimeout`, `OnData` |
| `Snake` | `apps/ndn-snake-*`, `apps/bolts/bolt.hpp`, `apps/snake/*` | the consumer's request sets, `loop`, `Reqs` and unanswered Interests per bolt, the producer's memory, messages in the network | `SendPacket`, `Retransmit`, `OnMetadata`, `OnResult`; `BoltOnInterest`, `BoltForwardData`, `BoltTurnBack`, `BoltOnTimeout`, `BoltOnNack`; `ProducerOnInterest`; `Duplicate`, `LoseInterest`, `LoseData` |
| `TracePath` | JSON of `apps/trace-bolt.hpp`, `getPathDetails` of `apps/ndn-trace-consumer.cpp` | none | operators for the nested replies and what is printed of them |
| `TraceBolt` | `apps/trace-bolt.hpp` | `loop`, `Reqs`, queries under way, unanswered Interests | `OnInterest`, `OnFib`, `FibFailed`, `OnData`, `OnNack`, `OnTimeout` |
| `Lfid` | `helper/lfid/*` | `dist`, `fib`, `dg`, `q`, `nhSet` and the phase of the calculation | `FillFib`, `FillQueue`, `RemoveLoop`, `FillNhSet`, `RemoveDeadEnd`, `Install` |
| `GlobalRouting` | `helper/ndn-global-routing-helper.*`, `model/ndn-global-router.*`, the graph adapter, `SetLinkDelayAsFaceMetric` | metrics, routers and incidencies, the stack of `Install` calls, FIB, the calculation's progress | `Install`, `InstallOther`, `AddIncidency`, `Return`; `AddOrigin`; `RoutesOf`; `DisableFaces`, `RoutesVia`, `RecoverMetrics`; `SetMetric`, `SetLinkDelayAsFaceMetric` |
| `AnnotatedTopology` | `utils/topology/annotated-topology-reader.cpp`, `rocketfuel-weights-reader.cpp` | nodes, links, processed pairs, the iterator of the repeated run | `ReadRouter`, `ReadAnnotated`, `ReadWeight`, `ReadLatency`, `ApplySettings`, ... |
| `Rocketfuel` | `utils/topology/rocketfuel-map-reader.cpp` | graph and ranks | `ReadMapLine`, `EndOfMap`, `RankVertices`, `ConnectBackboneRouters`, `RemoveWrongLinks`, `KeepAgain`, `CreateNodes`, `CreateLinks` |
| `Helpers` | `helper/ndn-{scenario,fib,link-control}-helper.cpp` | `links`, error models | `CreateTopology`, `AddRouteByName`, `AddRouteToNode`, `RemoveRouteToNode`, `FailLink`, `UpLink` |
| `Scenario` | how the examples put these together | that of the four modules before | a reader, then `Build`, then routing; or the helpers |
| `Tracers` | `utils/tracers/*` | counters, descriptions, period and event | `InstallL3RateTracer` and its kin, `Trace`, `TraceDelays`, `TraceDrop`, `PeriodicPrinter` |
| `Node` | `model/ndn-l3-protocol.*`, `helper/ndn-stack-helper.*`, `apps/ndn-app.*`, `ndn-producer.*`, bolt applications, link service, device transport, `FibHelper`, `StrategyChoiceHelper`, region tables | face table, FIB, strategy, PIT, commands and deliveries on their way, applications | `Install`, `Update`, `AddDevice`, face callbacks; `StartApplication`, `StopApplication`, `StartBolt`, `StopBolt`; `Execute`, `Deliver`; `Express`, `InterestFrom`, `DataFrom`, `BoltAnswers`, `TimeOut`, `Drop`, `Tick` |
| `MCLfid`, `MCWindowConsumer`, `MCScenario`, `MCNode` | | | values and bounds of the runs |
| `ConsumerProofs`, `WindowConsumerProofs`, `SnakeProofs`, `TraceBoltProofs`, `LfidProofs`, `ScenarioProofs`, `NodeProofs` | | | proofs about the modules they extend |
| `Iterations` | | | lemmas on induction and recursion that the proofs share |

`Scenario` composes the readers, global routing and the helpers: what a reader
leaves in `m_linksList` is the network `GlobalRouting` is built on. `Node` composes
stack, applications and tracers. A definition whose comment begins with "Slip" is
never part of a specification. It is a plausible mistake in the definition that
follows it, kept to show that the properties notice it: with the slip in place of
the definition the property named for it in `PROJECT.json` is violated.

Abstractions worth knowing:

* `Consumer`. Time is discrete. The network is a number of answers under way per
  sequence number, each of which may be delivered at any time or never; a
  retransmission adds one, so late and second answers occur. `RetransmitTimeout`
  returns any value its min/max formula allows for the current multiplier, which
  covers every history of estimates. A time stamp is kept as the age of its
  entry. Subclasses differ in two constants: `Trailer`, the name components they
  put after the sequence number (the base class reads it at component -2), and
  `Passes`, how often the body of `OnData` runs. Sequence numbers do not wrap.
* `Fetch` and the refinement. `due` is `timeouts \cup retxSeqs`, `lapsed` is
  `retxSeqs`. It allows no step that skips a number, forgets one, requests a new
  one before the smallest lapsed one, or reports one twice. `WindowConsumer` has the
  same mapping with numbers counted from `StartSeq`, which is an attribute there,
  and with nothing to see of the Zipf class, which draws its numbers.
* `WindowConsumer`. Time is left out: a check finds any number of the oldest
  entries due, and batches come in any order, as their times need not grow. Windows are
  fixed point numbers with two steps to a packet; slow start is exact in them, a decrease
  is rounded down to a step and never to none, congestion avoidance adds any part of a
  packet. Two increments may be larger, by the amounts of the bound `Leaps`: that of a
  window below a packet, by which one is divided, and CUBIC's third power of the time.
  `NoLimit` is the threshold before the first decrease and a window that was divided by
  zero, which compares as never full. With an initial window of zero `ConsumerWindow` and
  `ConsumerPcon` send on a timer (`Full`, `Scheduled`), so that all of congestion control
  is reached with it as well. The class, its attributes and the last component of
  `Prefix` are chosen in `Init`. The loop that reads `Batches` tests for the end of
  the text before it reads only: a blank at the end adds the last batch again, and an
  empty text one whose amount was never assigned (`ReadBatches`).
* `Snake`. One consumer, a chain of bolts. Names are their sequence number, a
  marker is the bolt it hashes. The costs and delays a bolt computes are fixed per
  behaviour and arbitrary. The timers and containers of the consumer are those of
  `Consumer` and reduced to the set of unanswered numbers. The forwarder is
  external: Interests go up the chain, answers to the hop that asked, and it may
  lose or duplicate. The modes `LOCAL` and `PRODUCER` look for nodes
  with hard-coded names, which are here the ends of the chain; session requests are
  left out.
* `TraceBolt`. The answer of each next hop is told apart by the hop. The FIB is
  arbitrary and fixed; the loop over prefix lengths in `query` starts anew at
  every match, so the *shortest* matching prefix decides, and so it does here.
* `TracePath`. Times are exact numbers: the rounding of `float` and `double` is
  left out. An array (the reply of a multipath trace) fails an assertion of
  `pars`, and what is no JSON leads to a read of the first element of an empty
  vector; both are in `GetPathDetails`, and `PathTraced` is about the rest.
* `Lfid`. One destination; the code's loop over destinations has no state between
  iterations. At most one link between two nodes. The metric of a link is the same
  in both directions; Dijkstra sees its low 16 bits (`Weight`, the cast of the graph
  adapter), the cost of the next hop has it whole. Dijkstra is used for its result: of the
  loop check only whether a distance is finite, which `Reaches` says by sets of nodes that
  no arc leaves. The assertions of `FibNextHop` (`NODE_ID_LIMIT` among them), `AbstractFib`
  (every node needs a name in `ns3::Names`) and `NodePrio` end in the phase "asserted",
  that of `removeLoops` in "aborted". `WellFormed` says of a topology that the former cannot fail.
* `GlobalRouting`. A path's weight under the code's `WeightCombine` is its first
  face and the sum of the metrics; of several shortest paths any may be returned. A face
  holds its metric in 64 bits; the adapter and `originalMetrics` keep 16 of them
  (`Uint16`), so that a metric of 65536 or more weighs what is left of it, and
  `CalculateAllPossibleRoutes` leaves that behind on the face.
  Routes are in the FIB when `AddRoute` returns, here and in `Helpers`: nothing
  forwards before the run; `Node` has the commands' delay. The calculations never
  remove a route, so that after a change of metrics one without an origin may stay
  (`AllRoutesExact` excepts it).
* `AnnotatedTopology`, `Rocketfuel`. Lines without the words a property is about:
  positions, error models, queue sizes, and delays drawn by chance are left out, a
  node's resources are the class they were drawn for, a bandwidth is kept as the
  OSPF metric that follows from it. A line that links a node with itself is not
  read. What the code does by iterating over a container and by functions that call
  themselves is here a recursive function over the numbers of a sequence (`Listed`,
  `ReadBack`), over sets of vertices (`AssignClients`) or over calls with their
  arguments (`AssignGw`), about which proofs are possible.
* `Node`. One node. NFD's tables are external and modelled by how the code uses
  them: a closed face leaves face table, FIB and PIT and has no number any more; a
  command for it has no effect; the content store is empty. Deliveries and
  commands are two queues in the order of `ScheduleNow`; between the two any order
  is possible. Faces of devices are never closed. A bolt answers when its own
  request was answered.
* `Tracers`. One tracer is installed, with a file that opens. Rows are counted;
  sizes and smoothed rates are left out. A command to a manager is an Interest as well: its
  packets are not traced, since `initializeManagement` puts its faces into the face table
  without the connections of `addFace`, but its entry in the PIT is satisfied like any other, and
  the `L3RateTracer` counts that for the face it came from and for the managers' face
  (`CommandEntry` in `Node`). Its rows for the managers' face therefore tell of answers
  and of no Interests, as `tests/unit-tests/utils/tracers/ndn-l3-rate-tracer.t.cpp:81-103`
  has it: on face 1 five `OutSatisfiedInterests` and no `OutInterests`. `CsTracer::Connect` is a comment, so its
  rows stay zero.

## Runs

| Run | Module, cfg | Shows |
| --- | --- | --- |
| `consumer` | `Consumer`, `MCConsumer` | A `BoltConsumerCbr` against every order of delivery, loss, timeout and Stop, with a send gap longer than the first RTO. `FetchSpec`: it implements `Fetch`. `NothingLost`: all containers agree on what is unanswered. `Karn`, `NoStall`, `TimelyTimeout`, `SilentAfterStop`. `NoStarvation`: numbers time out faster than they are sent and `SendPacket` prefers the smallest. The smallest that waits always gets its turn; a larger one does if, under the largest RTO the back-off reaches, all numbers up to it fit between two timeouts of the first (`Within`). The run has one number within that bound and one beyond, for which TLC finds it starving if it is claimed for all. |
| `window` | `MCWindowConsumer`, `MCWindowConsumer` | The four other consumers with 34 settings. `NoStall`: whatever counts down twice, the in-flight count never exceeds the entries that can time out. `CwaSpacing`: however many timeouts or marks, the window is reduced once, and again only after Data for a number that was not yet sent at that reduction. `AssertionsHold`: but for CUBIC with a window of zero, see below. `KarnUnlessCleared`. `FetchSpec`: all but the Zipf class implement `Fetch` as well. |
| `snake` | `Snake`, `MCSnake` | Three bolts, all costs, delays and values of `RttOpt`, nothing lost. `ExecutedAtCheapest`, `Answered`, `ProducerForgets`. |
| `snake_faults` | `Snake`, `MCSnakeFaults` | Two bolts with a loss, a duplicate, a Nack or timeout, and a retransmission. `CleanDefined`, `LoopMatchesReqs`, `ExpressedOnce`. |
| `trace_bolt` | `TraceBolt`, `MCTraceBolt` | Two requests in modes S and M, at most one next hop per prefix. `QuestKept`, `Accounted`, `Served`; `PathTraced` for every path of up to three bolts. |
| `lfid` | `MCLfid`, `MCLfid` | All topologies over eight links of five nodes with two metrics, and over the nine links of a topology of seven nodes. `DigraphMirrorsFib`, `LoopFree`, `DownwardDescends` (with the assertions, which hold in well-formed topologies; some of three nodes that are not well-formed are among those of the run), `NoDeadEnds`, and `Progress`, the measure by which the two loops end. |
| `scenario` | `MCScenario`, `MCScenario` | Topologies from the readers, from cliques and by hand. `RoundTrip`, `LatencyOfOwnLink`, `BackboneConnected` of the readers; `GraphMirrorsNetwork` of `Install` from any nodes in any order; `MetricsBorrowed` at every moment of a calculation; `AllRoutesExact` and `ShortestRouted`: the routes, of prefixes with one origin and with two, against costs computed from the network by another algorithm; `LinkControlled`, `RoutesLeadThere` with several links between two nodes. |
| `node` | `MCNode`, `MCNode` | A node whose devices, callbacks, applications, bolts, routes, strategy, regions and tracer come and go. `ProducerServes`, `OneFacePerDevice`, `RowsOfKnownFaces`, `RatesHonest` (`FacesHonest` of the faces of network and applications, `CommandsHonest` of the managers'). |
| `consumer_cbr` | `Consumer`, `MCConsumerCbr` | violation of `DataTraced`, see below |
| `snake_retx` | `Snake`, `MCSnakeRetx` | violation of `MarkerOnResults` |
| `trace_bolt_multi` | `TraceBolt`, `MCTraceBoltMulti` | violation of `QuestKept` |
| `lfid_abort` | `MCLfid`, `MCLfidAbort` | violation of `NoAbort` |

### Bounds

* `Consumer`: `MaxSeq = 3`, `StartSeq = 0`: three numbers let one be answered while
  another waits for retransmission and a third is fresh. `Gaps = {2}` and
  `RetxTimer = 1` make numbers time out faster than they are sent.
  `MaxBackoff = 3` (`MaxMultiplier` 8 instead of 64) and `MaxRto = 4` reach the
  cap of the RTO before that of the multiplier; number 1 is then within the bound of `NoStarvation` and number
  2 is not. With the code's defaults (`MinRTO` 0.2 s times 64 is 12.8 s, below `MaxRTO`, and a
  gap of one second) the first thirteen numbers are within it; what is sent later
  may starve for as long as nothing at all is answered.
  `MaxCopies = 2` is an answer to the original and one to the repetition; further
  ones are taken to be lost. The proofs cover all other values.
* `WindowConsumer`: numbers to `MaxFresh = 3`, `MaxAnswers = 3` Data. Initial windows of 0
  and 2 packets and `LowWindow = 3` instead of 14 reach the polling of a zero
  window and both sides of the limit of BIC; the one amount in `Leaps` opens the
  window for all numbers of the run; a prefix with a number is the only way
  past the first Data, one without the way to the exception. `Garbage` is what an
  uninitialised batch amount may be.
* `Snake`: three bolts are the least where the cheapest can be first, middle and
  last, and three costs order them fully. With faults, two bolts and one fault of
  each kind; `SnakeProofs` covers any number. `MaxNonce` bounds the
  Interests the consumer makes: two rounds, twice where a request is repeated.
* `TraceBolt`: two requests interleave; `MaxArrivals = 4` lets each nonce arrive
  again while in use and after it was cleaned. Name length two distinguishes the
  longest from the shortest prefix. `TracePath`: three bolts are first, between and
  last, two durations tell a link from a bolt's work.
* `Lfid`: with five nodes an upward next hop can have loops of up to four nodes
  that avoid the destination; a link may be absent, so all subgraphs are
  covered. Only with seven nodes does `removeDeadEnds` look again at a next hop it
  had kept (without that, `NoDeadEnds` fails there). Three nodes with metrics 0, 1, 65535,
  65536 and 65537, a node without a name, one with an id above `NodeIdLimit = 6`
  and a single one are what the assertions reject. `lfid_abort` takes all
  topologies of four nodes.
* `Scenario`: annotated and weights files of up to three lines over three routers,
  maps over seven links of five routers, the least where clients, gateways and two
  backbone components occur. `GoesOn` takes to the stack what differs for routing
  (not weights files, whose links are like annotated ones, nor maps read with other
  arguments); `Short` gives a network from a file one origin and one calculation.
  Networks by hand, with channels of three nodes and two links between the same
  nodes, get two calculations, two origins of a name and one change of metrics
  between them. A metric of 40000 is large enough for a sum to pass 65535; one of 65539 is 3 in 16 bits;
  a delay below a millisecond gives the metric 0. `MaxCommands = 4` lets a link fail and come up again with a route changed
  in between. The proofs cover any number of calculations, changes and networks.
* `Node`: one application of each kind, two devices, two Interests, one route
  command, two ticks with a period of two. `Bounded` in `MCNode` is a constraint
  that keeps features that do not meet apart: face callbacks and regions change
  before the rest, each class of tracer has the things it listens to, a bolt stands
  for a producer, and four events of starts, stops, packets, commands and ticks in one
  behaviour are left to a node with one device, whose tracer came after the commands
  of the RIB manager; these are executed before anything else happens. `NodeProofs` is without it.

`CHECK_DEADLOCK FALSE` stands where the system really stops: an aborted consumer,
requests that have all been answered, a calculation that has ended, a scenario or
node at its bounds. `MCConsumer` does check deadlock: the retransmission check
never ends.

### Fairness

* `Consumer!FairSpec`: weak fairness of the send event, the check and `Tick`.
  The ns-3 simulator executes every event it has scheduled and then advances its
  clock. Nothing is assumed of the network or of Start and Stop.
* `Snake!FairSpec`: weak fairness of `Deliver` and `SendPacket`. It is used only
  where nothing is lost, and there every message is an event of the simulator.
  The steps of `Disturb` are never fair.
* `TraceBolt!FairSpec`: a FIB query returns or fails, and an expressed Interest is
  answered, refused or times out: ndn-cxx schedules its timeout with it. No
  fairness between these outcomes is assumed.
* The others need none: `Progress` of `Lfid` is an action property that gives the
  measure, the rest is safety.

## Disagreements found

1. **`consumer_cbr`** `Consumer::OnData` reads the sequence number at name
   component -2 (`apps/ndn-consumer.cpp:224`), where only the Bolt and Trace
   subclasses put it. With `ConsumerCbr`, whose name ends with it, the conversion
   throws at the first Data. The tests of the application delay tracer expect
   delays of `ConsumerCbr`. The window based consumers inherit this.
2. **`snake_retx`** A repeated metadata request finds its name remembered at the
   producer and is answered as a result request, without marker, though the
   comment at `apps/ndn-snake-producer.cpp:127` speaks of a request "carrying min
   cost marker". No bolt executes it and the consumer accepts the raw Data.
3. **`trace_bolt_multi`** `TraceBolt::onData` calls `clean` after every reply of a
   multipath trace, not after the last (`apps/trace-bolt.hpp:260`): with two next
   hops the second reply finds an empty Quest and the request is never answered.
4. **`lfid_abort`** `removeLoops` looks up an arc into `res2` and then asserts
   `res` (`helper/lfid/remove-loops.cpp:232`). A looping upward next hop without
   an opposite arc ends the program; four nodes suffice.

The passing runs hold with these in the models: `trace_bolt` has one next hop,
`snake` no repetition, an aborted `lfid` behaviour installs nothing, and
`window` allows two ends: the exception of the first, and this one.

* CUBIC with an initial window of zero (`Window=0`; with `UseCwa=false`, or if the first
  Data is marked). The consumer sends on its timer; a timeout puts `m_cubicWmax` and
  `m_ssthresh` to the window of zero, which is then no longer in slow start, and the next Data fails
  `BOOST_ASSERT(m_cubicWmax > 0)` (`apps/ndn-consumer-pcon.cpp:304`). Without assertions
  the window is divided by zero from then on. `CubicOfNothing` in `AssertionsHold` names
  exactly this state.

Two comments say more than the code does, where the models follow the code:

* "remember interface statuses" (`helper/ndn-global-routing-helper.cpp:316`): the map
  holds `uint16_t`, and a metric of 65536 or more does not come back whole
  (`MetricsBorrowed`).
* "Will read input stream till eof" (`utils/batches.cpp:36`): with a blank before the end it
  reads once more and adds the last batch again.


## Proofs

Seven modules hold theorems, one for each module they prove about; an eighth,
`Iterations`, holds lemmas on induction and recursion that four of them share. Every
theorem holds for all values of the constants that satisfy the named assumptions of
the modules it is about, which TLC evaluates in the runs; nothing else is assumed:

* `ConsumerAssumption`, `SnakeAssumption`, `TraceBoltAssumption`,
  `TracePathAssumption`: types, and that a timer or a chain is not empty.
* `LfidAssumption`: a topology is finite and its metrics are natural numbers, small enough
  for the sum with a distance to fit the code's `int`. Nothing is assumed of names, ids
  and the 16 bits of metrics: where the assertions of the code need that, the property
  says so (`WellFormed`).
* `WindowAssumption`: types, any initial window, and that `LowWindow` is at least 2: BIC's
  first step above it takes a packet off the window and must not empty it. The code's
  value is 14.
* `RoutersAssumption`, `NetworksAssumption`, `CliquesAssumption`: routers are numbers,
  finitely many; a channel is a sequence of nodes.
* `MetricsAssumption`, `OspfAssumption`, `RatesAssumption` (and `NetworksAssumption` for
  networks made by hand): metrics, delays and rates are natural numbers, bandwidths
  positive. The attributes of the code are unsigned, the readers divide by the bandwidth.
* `KindsOfApplications`: no application is both a producer and a bolt.

In each module the argument is the same: an inductive invariant that is stronger
than the property, one lemma per action that keeps it, and a theorem that puts
them together. What the strengthening says is what has to be understood. The
invariants were checked by TLC on the runs before they were proved.

**`Iterations`.** Induction over the natural numbers, in the form of sets
(`NatSets`: a set with 0 and the successor of each of its numbers has all of them),
which needs no operator parameter; from it `Iteration`, `Recursion` and
`MeasuredRecursion`: functions that are iterated, whose steps depend on their
number, or that call themselves, also nested, where a measure gets smaller, exist.
A recursive definition `f[x \in S] == ...` is `CHOOSE f : f = [x \in S |-> ...]`, so
that these lemmas are what lets anything be said of its values. `LeastOf` and
`GreatestOf` give the numbers that `Min` and `Max` choose.

**`ConsumerProofs`** (any number of sequence numbers, ticks, retransmissions).
`IInv` adds to `NothingLost` what ties the containers together: a sequence number
that has not been asked for has no stamp and no count (`Unsent`), one asked for
once has its first stamp (`FreshIsFirst`), and the delays are traced for numbers
that no longer wait (`TracedOnce`). From it `NothingIsLost` (a requested sequence
number is waiting for Data, waiting to be repeated, or answered), `DelayTracedOnce`,
`NeverStalls`, `TimeoutsAreTimely` and `KarnsRule`; `StoppedIsSilent` is an action
property. `ConsumerFetches` is the refinement: the consumer implements `Fetch`, the
abstract fetch of a set of numbers, under the mapping at the end of `Consumer`;
initial states map to initial states and each step to a step or a stutter, the
latter only from states where `IInv` holds.

**`WindowConsumerProofs`** (any attributes, numbers, answers). The containers are
sequences in the order of their time stamps, and a check goes through as many of the
oldest entries as are due, by the recursive function `After`; a lemma says that each
round keeps the containers distinct and consistent, and induction carries that
through the check. `IInv` bounds the in-flight count by the entries that can
time out: `NeverStalls`. `AssertionsAlwaysHold` needs that `m_highData` stays behind what
was requested, and of CUBIC (`Cubic`) that a window out of slow start has a maximum, or is
the window of zero that was never anything else, the state the property
excepts; `OneReductionPerRecovery`, that a decrease puts `m_recPoint` at what was sent last
or beyond, also where several entries time out in one check, so that the next one
has to wait for Data above it, and that nothing but a decrease takes more from the
window than BIC's one packet; `KarnRule` that a number sent again is marked in
`history` before it is sent. `TypeCorrect` has the ranges. `WindowConsumersFetch` is the
refinement of `Fetch`, from `IInv` where a number waits in one container at
most, lies before `m_seq`, and no check aborts the program; Data does, before or
after a stop.

**`SnakeProofs`** (any number of bolts, costs, requests). `BoltInv` keeps the loops
and the pending requests of each bolt in step. The lemma `OneBolt` proves a step
for one bolt, so that an action only has to show which bolt it touches and how.
`CleanIsDefined`: `clean` never looks up a request that is gone;
`LoopAndReqsAgree`; `OneInterestPerNonce`. `CheapestExecutes` and `ProducerForgetsAll`
have the hypothesis `Undisturbed` (nothing lost, duplicated, refused or repeated
so far), a part of the state and not of the constants: they also tell of each
disturbed behaviour until the first disturbance. Their invariant `RoundInv` says
for each request in which round it is and where: either it was not sent, or exactly
one message of it is in the network, or it was answered; a metadata answer
that has passed some bolts carries the least cost of them and the marker of a bolt that
has it; a result request carries the marker of the cheapest bolt that was asked, has not
passed it with an answer unless the function was executed there; and the producer
remembers exactly the requests that are between its two answers. `AlwaysUnderWay` and
`EveryDeliveryAdvances` are what the liveness property `Answered` needs besides fairness:
while a request is waited for, a message carries it and its receiver takes it, and
`Left`, the hops left (up and down twice before the marker is chosen, once after), gets
smaller with each delivery. What remains is that a delivery is enabled
(`MaxNonce` bounds the consumer's Interests) and that enabled ones happen.

**`TraceBoltProofs`** (any requests and nonces; hypothesis `OneFace`: FIB entries with
one next hop, the case the multipath finding leaves). `BoltInv` is the type, `OneWait` (a
trace waits at one place: for the FIB, for an answer, or nowhere), `QuestWaits` (while it
waits, its Quest is there) and `Accounted`. `QuestIsKept`: an answer finds its Quest;
`EachAnsweredOnce`. `NoRequestForgotten` has no such hypothesis: a request that blocks its
nonce and lost nothing has an answer to come, also when that of an earlier request
under its nonce comes first. `TracesAreExact` is about what is printed for any path, times
and end: the reply at the i-th bolt tells of its delay and of the
overhead of all behind it (`DelayValue`, `ReplyValue`), the recursive sum of the
consumer (`SumValue`) is the time of all links behind, and what is printed for a
link is the difference of two of them.

**`LfidProofs`** (any routers, links, names, ids and metrics). The FIBs that
`Shaped` describes name known nodes, hold one entry per neighbour and have a way
down for each entry. `LoopsDone` says that what has left the queue of
`removeLoops` is safe and that the digraph has exactly the arcs of the FIBs;
`EndsDone`, that a next hop that has left the set of `removeDeadEnds` leads onward.
Both hold for every order of the queue, which the code takes from hash
containers. That an erased entry leaves another one is a fact about
cardinalities. From these `SearchedDigraphIsTheFib`, `RoutesAreLoopFree`,
`RoutesDoNotEndDead`. `EveryNodeKeepsAWayDown` rests on distances: a node's shortest
path starts with a link to a nearer node (a path shorter than n's own does
not lead through n), so the entry for it is downward in the initial FIB, and `DownInv` says
that no step erases a downward entry or fails an assertion. This needs that the weight of
a link is its metric and not zero, which is what `WellFormed` gives; that downward next
hops lead to nearer nodes holds without it, since the weight is at most the metric.
`EveryIterationProgresses` is the measure of both loops; it needs that the queue has a
first element by its order.

**`ScenarioProofs`** (any maps and files, networks, cliques, and any number of
calculations, changes and commands).

* *Readers.* `FileInv` ties the repeated run together: the iterator is one ahead of the
  lines read, so that the line for the i-th link is applied to the i-th link:
  `LatenciesAreOfTheirLinks`.
* *Backbone.* `Component` yields the least set closed under edges, `Components` lists each
  once, and a member of `Joins` has a link between each and the one before: after
  `ConnectBackboneRouters` all of the backbone is one component (`JoinsConnect`).
  `RemoveWrongLinks` drops no link within the backbone (`WholeByEdges`), and since the
  backbone is connected, the component that is kept contains all of it or none
  (`WholeInOne`): `BackboneStaysConnected`.
* *Saving.* `assignGw` calls itself while vertices without a class remain; the measure
  is the number of these, then of the neighbours left, and since the result of an
  inner call is the argument of the next one, that it never forgets a class is proved
  together with its termination (`GwDescends`). So after `RankVertices` every router has a
  class. `LinesInv` says that no link is the reverse of an earlier one, for files
  because of the pairs processed, for maps because an edge goes from its smaller end;
  such a list is read as it is (`ReadsBackAll`): `SavedTopologyIsRead`.
* *Routing.* `Routing` is what a step of a scenario is for the graph and the
  metrics. `BorrowInv` (what is remembered for a node is the metrics before its turn, as
  long as it has them changed, in 16 bits) gives `MetricsAreGivenBack`. `GraphInv` (each router's
  frame has scanned a part of its devices, and edges lead to what is installed)
  gives `InstallMirrorsNetwork`.
* *Routes.* The reference is `CostTo`: as many rounds over the faces as there are nodes,
  which starts from no path at all. It is tied to Dijkstra over the graph of routers and
  channels from both sides. `NoneCheaper`: along any path of the graph a node's cost is at
  most the metrics of the faces it leaves by, so no path over a face is cheaper than
  `CostVia` of it. `CostIsReached`: a cost that some round gives a node below `WeightInf`
  is the metric of one of its faces and a cost of an earlier round behind it, so that following
  these from round to round gives a path of the graph without repetition that
  costs as much (`ViaIsReached`, `CheapestPath`). With the other faces of the source
  disabled, a way that leaves over one of them weighs at least `Disabled`, which
  `DistancesBest` and `DistancesCheapest` use to say what one calculation adds to the
  FIB (`RoutesAdded`). On top of `BorrowInv` and `GraphInv`, which say that it calculates
  with the metrics and the graph of the network, `RouteInv` then follows the
  calculation: `CalcOk` (what is left to do names sources and their faces), `FibSound` (until
  metrics change, no route is cheaper than its face allows), `AllDone` and `ShortestDone` (what
  the properties say holds for the sources and faces already done).
  `AllPossibleRoutesAreExact`, `ShortestPathsAreRouted`. Where a prefix has several origins, a
  face has one cost for it, that of the origin whose route came last: a node has for each
  origin a face with which a shortest path to it starts, and the face's cost is that of a
  shortest path to this or another origin over it. The proof found a case that
  TLC's networks do not have and the first form of the property got wrong: a way that
  costs exactly 65534 ties with one over a disabled face, and the next hop may be missing.
* *Helpers.* `Helped`: the devices in `links` are on their node and lead to the other,
  the routes asked for are in the FIB, and the first link of two nodes has what was
  last asked for. `CommandsReachTheirLink`, `RoutesStay`.

**`NodeProofs`** (any faces, Interests, commands, without the constraint `Bounded` of the
run). `FaceInv`: face numbers have been given out (`Numbers`), a running application's face
is its own (`AppFaces`), FIB and PIT name faces in the face table (`TableFaces`) and a
tracer's rows are of faces it has asked about (`RowsOfKnownFaces`). `RowsAreOfKnownFaces`,
`TablesNameFaces`. `RouteInv` adds for devices and running applications where their route is:
in the FIB or in a command that is still to be executed and that nothing behind it
takes back, which is `DevicesHaveOneFace`; `ServiceInv` says the same of stopped
applications' unregistering and of the deliveries owed to a producer:
`ProducersServe`. `CountInv` splits what was sent over a face into pending, answered and
timed out, from the moment the tracer was installed, and says of the managers' face that
what it is told answers are the answers told of the two faces commands come from:
`TracersAreHonest`.

## Only model-checked

* Liveness under fairness: `NoStarvation`, `Answered`, `Served`. TLAPS 1.4.5 has no
  `ENABLED`. Their safety parts are proved: nothing that is waited for is forgotten
  (`NeverStalls` of the consumer, `AlwaysUnderWay`, `NoRequestForgotten`), and for SNAKE the
  measure that ends the wait (`EveryDeliveryAdvances`).
* The violations, which are counterexamples.

Conversely `DelayTracedOnce` of the consumer, `TablesNameFaces` of the node and the types
are stated by theorems and appear in no run's list: they are parts of the invariants
above.

## Not modelled

* NFD, ndn-cxx and ns-3 themselves. What they do for this code is in the modules as
  external actions (answers, refusals, timeouts, delivery).
* Pure data: wire encodings, the bytes of the packet header, positions of nodes, error
  models, queue sizes, wording of log and trace rows, the content store and its
  tracer, the clocks, dummy key chain and packet tag (stubs).
* Numbers at 2^32: `m_seq` is 32 bits wide and wraps after that many packets
  (`apps/ndn-consumer.cpp:181`); a run cannot get there. The 16 bits of face metrics
  (`Uint16`, `Weight`) and of the unsigned sums of the global routing are modelled at their
  width; the sums of LFID, `int`s in the code, cannot overflow with the metrics
  `LfidAssumption` allows.
* LFID over parallel links: the metrics are remembered per neighbour, so both links get the
  metric of one of them (`helper/lfid/ndn-global-routing-helper-lfid.cpp:94`);
  the topologies of `Lfid` give each pair of nodes one link or none.
* Reads after an erase (`helper/lfid/abstract-fib.cpp:121`, `remove-loops.cpp:297`): what
  they read is undefined and, in the builds we know of, the element that was erased;
  the model reads it before the erase.
* Two SNAKE consumers for one name at once: the metadata key of the producer does not
  contain the requester (`apps/ndn-snake-producer.cpp:120`).
* Bolts: sessions; `Bolt::query` and `createmulti`, which nothing calls; the RTT estimator's
  `Reset`, which nothing calls, and the `SentSeq` and `AckSeq` of the base class, which
  `RttMeanDeviation` overrides in what is used.
* Tracers: destruction while a face still holds the raw callback, the constructors
  that take a node's name (the node pointer stays null), a trace file that cannot be
  opened; the name cutting of the hop delay tracer. The
  times of a Trace row and its JSON members, of which a multipath row keeps three.
* `ProcessWarmupEvents` in the middle of a run; disposal of a stack (the protocol
  handler of a device is never unregistered, `model/ndn-net-device-transport.cpp:75`);
  null results that are used (`helper/ndn-stack-helper.cpp:399` on devices that are
  not point-to-point, `helper/ndn-fib-helper.cpp:104` when routes are added before
  the stack and assertions are off).
* Readers: the `PointToPointHelper` shared by all links keeps the delay and queue of the
  previous link where a line leaves them out
  (`utils/topology/annotated-topology-reader.cpp:413`). The base class's `SaveTopology`
  writes "NA" for the resources of a node, which `RoundTrip` therefore excepts.
* Installation, examples, build scripts, Python bindings, visualizer.

## Plan

The order was, and for what is left is, importance to a simulation's result.

1. Done: consumers, SNAKE bolts, Trace bolts, LFID, each with proofs.
2. Done: window based consumers (`WindowConsumer`), composed with the batches and Zipf
   schedules; global routing and its proofs; the topology readers and their
   composition with stack, helpers and routing (`Scenario`); the node with its
   applications, faces, producer and tracers (`Node`) and its proofs; the
   abstract `Fetch` and the refinement; the fault steps of SNAKE.
3. Done: proofs of every invariant and action property that a passing run checks.
4. Left, in this order:
   * LFID with parallel links, and the metrics it then gives back;
   * a second SNAKE consumer for the same name.
