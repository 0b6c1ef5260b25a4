-------------------------------- MODULE Node ---------------------------------
(***************************************************************************)
(* One node: devices, the stack that StackHelper installs and updates,     *)
(* applications with their faces, commands of FibHelper and                *)
(* StrategyChoiceHelper, and a tracer that listens.                        *)
(*                                                                         *)
(* What an application face sends is delivered by a later event of the     *)
(* same instant, and so are commands to the managers: applications start   *)
(* and stop in between.                                                    *)
(*                                                                         *)
(* External, modelled from how the code uses it: the simulator's clock and *)
(* NFD's tables.  A closed face leaves the face table, the FIB and the PIT *)
(* and loses its number; a command for a face that is gone has no effect;  *)
(* the content store is empty.                                             *)
(***************************************************************************)
EXTENDS Tracers, Sequences, FiniteSetsExt, SequencesExt

CONSTANTS
  Producers, Consumers,  \* applications
  Bolts,                 \* applications that hold a bolt: BoltApp, SnakeBoltApp, TraceApp,
                         \* and FactoryCallbackApp with one
  Names, TraceNames,     \* names of Interests, below the producers' and the bolts' prefix
  Regions,               \* region names
  DeviceTypes,           \* types of the devices the node may get, in their order
  MaxCallbacks, MaxInterests, MaxRoutes, MaxDrops, MaxTime  \* bounds on what the scenario does

\* An application is an object of one class.
ASSUME KindsOfApplications == Producers \cap Bolts = {}

Apps == Producers \cup Consumers \cup Bolts
Prefix == "/prefix"
TracePrefix == "/Trace"
Root == "/"
Management == "/localhost/nfd"
RibPrefix == "/localhost/nfd/rib"
MaxCost == 1000            \* numeric_limits<int32_t>::max()

\* The initial configuration: the strategy of the root, and whose commands are allowed.
InitialStrategy == "best-route"
Privileges == {"fib", "strategy-choice"}

\* Numbers of faces; those that are not reserved begin at 256, here at 3.
InternalFace == 1
InjectFace == 2
RibFace == 3

VARIABLES
  devices,       \* number of devices of the node
  updated,       \* how many of them the last Install or Update has seen
  needSetDefaultRoutes,
  m_netDeviceCallbacks,  \* pairs <<type of device, callback>>
  regions,       \* NetworkRegionTable
  faceTable,     \* owner of each face, by number
  lastFaceId,
  fib,           \* next hops [prefix, face, cost]
  strategy,      \* of the producers' prefix
  pit,           \* in and out records, by name
  commands,      \* commands on their way to the managers
  applications,  \* ApplicationList
  active,        \* m_active, or whether m_instance of a BoltApp is set
  m_face,        \* number the face of an application (or of its bolt) was added with
  ended,         \* applications whose StopApplication has run
  awaited,       \* <<consumer, name>>: m_seqLastDelay
  deliveries,    \* events of AppLinkService: <<application, kind, name>>
  dropped,       \* packets dropped in traced queues (a history variable)
  now, interests, routes, drops

helperVars == <<needSetDefaultRoutes, m_netDeviceCallbacks>>
deviceVars == <<devices, updated>>
tableVars == <<faceTable, lastFaceId, fib, strategy, pit, regions>>
appVars == <<applications, active, m_face, ended, awaited>>
boundVars == <<now, interests, routes, drops>>
nodeVars == <<helperVars, deviceVars, tableVars, commands, appVars, deliveries>>
vars == <<nodeVars, rowVars, scheduleVars, dropped, boundVars>>

AppInit == active = [a \in Apps |-> FALSE] /\ m_face = [a \in Apps |-> INVALID_FACEID]

\* Called, if at all, before the installation.
SetDefaultRoutes(needSet) == needSetDefaultRoutes = needSet

Init ==
  /\ TracerInit /\ AppInit
  /\ devices = 0 /\ updated = 0 /\ \E needSet \in BOOLEAN : SetDefaultRoutes(needSet)
  /\ m_netDeviceCallbacks = <<<<"p2p", "PointToPointNetDeviceCallback">>>>
  /\ faceTable = <<>> /\ lastFaceId = 0 /\ fib = {} /\ strategy = InitialStrategy /\ pit = <<>>
  /\ regions = {} /\ commands = <<>> /\ deliveries = <<>>
  /\ applications = {} /\ ended = {} /\ awaited = {}
  /\ dropped = 0 /\ now = 0 /\ interests = 0 /\ routes = 0 /\ drops = 0

StackInstalled == faceTable # <<>>

\* A face's number when it is used: none once it was removed.
GetId(f) == IF f \in DOMAIN faceTable THEN f ELSE INVALID_FACEID

-----------------------------------------------------------------------------
(* Faces of applications and devices. *)

AppOf(f) == faceTable[f][2]
IsAppFace(f) == f \in DOMAIN faceTable /\ faceTable[f][1] = "app"
DeviceFaces(d) ==
  {f \in DOMAIN faceTable : faceTable[f][1] = "device" /\ faceTable[f][2] = d}

\* The members of a set of numbers in their order.
Nth(ds, i) == CHOOSE d \in ds : Cardinality({x \in ds : x <= d}) = i

\* AppLinkService::doSend*: ScheduleNow for the applications behind the faces fs.
Schedule(kind, fs, n) ==
  LET app == {f \in fs : IsAppFace(f)}
  IN  [i \in 1 .. Cardinality(app) |-> <<AppOf(Nth(app, i)), kind, n>>]

\* addFace for a sequence of owners, in their order.
AddFaces(table, last, owners) ==
  [f \in DOMAIN table \cup (last + 1) .. (last + Len(owners)) |->
     IF f \in DOMAIN table THEN table[f] ELSE owners[f - last]]

AddRoute(prefix, f, cost) == [op |-> "add", prefix |-> prefix, face |-> f, cost |-> cost]
RemoveRoute(prefix, f) == [op |-> "remove", prefix |-> prefix, face |-> f]
SetStrategy(prefix, s) == [op |-> "set", prefix |-> prefix, strategy |-> s]

Manager(c) == IF c.op = "set" THEN "strategy-choice" ELSE "fib"

\* The face a command comes from: the RIB manager's own, or that of injectInterest.
From(c) == IF c.prefix = RibPrefix THEN RibFace ELSE InjectFace

\* injectInterest: a command that the scenario or an application of the node gives.
InjectInterest(cs) == commands' = commands \o cs

-----------------------------------------------------------------------------
(* The tracer. *)

\* Interests that were sent over each face and may still be answered: by a producer
\* those that are on their way to it, one for each that was sent.
OnTheirWay(f) == {i \in DOMAIN deliveries : deliveries[i][1] = AppOf(f) /\ deliveries[i][2] = "Interest"}
Unanswered(f) ==
  IF IsAppFace(f) /\ AppOf(f) \in Producers THEN Cardinality(OnTheirWay(f))
  ELSE Cardinality({n \in DOMAIN pit : f \in pit[n].out})
Pending == [f \in DOMAIN faceTable |-> Unanswered(f)]

InstallTracer(class, period) ==
  /\ StackInstalled /\ ~TracerInstalled
  /\ \/ class = "L3RateTracer" /\ InstallL3RateTracer(now, period, Pending)
     \/ class = "L3HopDelayTracer" /\ InstallL3HopDelayTracer(now, Pending)
     \/ class = "AppDelayTracer" /\ InstallAppDelayTracer(now, applications \cap Consumers)
     \/ class = "CsTracer" /\ InstallCsTracer(now, period)
     \/ class = "L2RateTracer"
        /\ InstallL2RateTracer(now, period, {d \in 1 .. devices : DeviceTypes[d] = "p2p"})
  /\ UNCHANGED <<nodeVars, dropped, boundVars>>

PrintPeriod == PeriodicPrinter(now) /\ UNCHANGED <<nodeVars, dropped, boundVars>>

-----------------------------------------------------------------------------
(* StackHelper. *)

HelperStep == UNCHANGED <<needSetDefaultRoutes, deviceVars, tableVars, commands, appVars, deliveries,
                          rowVars, scheduleVars, dropped, boundVars>>

AddFaceCreateCallback(type, callback) ==
  /\ Len(m_netDeviceCallbacks) < MaxCallbacks
  /\ m_netDeviceCallbacks' = Append(m_netDeviceCallbacks, <<type, callback>>)
  /\ HelperStep

\* Only the first callback of the type.
UpdateFaceCreateCallback(type, callback) ==
  /\ \E i \in DOMAIN m_netDeviceCallbacks :
       /\ m_netDeviceCallbacks[i][1] = type
       /\ \A j \in 1 .. i - 1 : m_netDeviceCallbacks[j][1] # type
       /\ m_netDeviceCallbacks' = [m_netDeviceCallbacks EXCEPT ![i][2] = callback]
  /\ HelperStep

\* All callbacks of the type, whichever is given.
RemoveFaceCreateCallback(type) ==
  /\ m_netDeviceCallbacks' = SelectSeq(m_netDeviceCallbacks, LAMBDA x : x[1] # type)
  /\ HelperStep

\* The face of device d: its remote URI is that of the other device of the link, or a
\* broadcast address.
NetDeviceTransport(d, remoteUri) == <<"device", d, remoteUri>>
DefaultNetDeviceCallback(d) == NetDeviceTransport(d, "ff:ff:ff:ff:ff:ff")
PointToPointNetDeviceCallback(d) == NetDeviceTransport(d, "opposite")
CustomCallback(d) == NetDeviceTransport(d, "custom")

\* The first callback for the type of d that makes a face; a custom one may decline.
NewFace(d) ==
  LET fit == {i \in DOMAIN m_netDeviceCallbacks :
                m_netDeviceCallbacks[i][1] = DeviceTypes[d] /\ m_netDeviceCallbacks[i][2] # "declines"}
  IN  IF fit = {} THEN DefaultNetDeviceCallback(d)
      ELSE IF m_netDeviceCallbacks[Min(fit)][2] = "custom" THEN CustomCallback(d)
      ELSE PointToPointNetDeviceCallback(d)

\* createAndRegisterFace for each of the devices ds, and their default routes, on a node
\* with these faces and commands.
CreateAndRegisterFaces(table, last, given, ds) ==
  LET owners == [i \in 1 .. Cardinality(ds) |-> NewFace(Nth(ds, i))]
  IN  /\ faceTable' = AddFaces(table, last, owners)
      /\ lastFaceId' = last + Len(owners)
      /\ commands' = given \o IF needSetDefaultRoutes
                              THEN [i \in DOMAIN owners |-> AddRoute(Root, last + i, MaxCost)]
                              ELSE <<>>
      /\ updated' = devices

AddDevice ==
  /\ devices < Len(DeviceTypes)
  /\ devices' = devices + 1
  /\ UNCHANGED <<helperVars, updated, tableVars, commands, appVars, deliveries, rowVars,
                 scheduleVars, dropped, boundVars>>

\* initializeManagement reserves two numbers, initializeRibManager adds a third face.
ManagementFaces == <<<<"internal", "management">>, <<"internal", "inject">>>>
RibFaces == <<<<"internal", "rib">>>>
ManagementRoute == [prefix |-> Management, face |-> InternalFace, cost |-> 0]

\* The RIB manager registers its prefix; its other requests are the same to the tracer.
RibCommands == <<AddRoute(RibPrefix, RibFace, 0)>>

\* NotifyNewAggregate calls initialize once, for the first node it sees.
NotYetAggregated == ~StackInstalled

\* L3Protocol::initialize, when the stack is aggregated to the node, then the devices.
Install ==
  /\ NotYetAggregated
  /\ CreateAndRegisterFaces(ManagementFaces \o RibFaces, RibFace, RibCommands, 1 .. devices)
  /\ fib' = {ManagementRoute}
  /\ UNCHANGED <<helperVars, devices, strategy, pit, regions, appVars, deliveries, rowVars,
                 scheduleVars, dropped, boundVars>>

\* Slip: every device gets a face, also one that has it.
AllDevices == 1 .. devices

\* getFaceByNetDevice finds nothing.
WithoutFace == {d \in 1 .. devices : DeviceFaces(d) = {}}

\* Update of a node without a stack is Install.
Update ==
  /\ StackInstalled
  /\ CreateAndRegisterFaces(faceTable, lastFaceId, commands, WithoutFace)
  /\ UNCHANGED <<helperVars, devices, fib, strategy, pit, regions, appVars, deliveries, rowVars,
                 scheduleVars, dropped, boundVars>>

\* NetworkRegionTableHelper: the table is changed at once.
ChangeRegions(new) ==
  /\ StackInstalled
  /\ regions' = new
  /\ UNCHANGED <<helperVars, deviceVars, faceTable, lastFaceId, fib, strategy, pit, commands, appVars,
                 deliveries, rowVars, scheduleVars, dropped, boundVars>>

AddRegionName(names) == ChangeRegions(regions \cup names)
RemoveRegionName(names) == ChangeRegions(regions \ names)
EmptyNetworkRegionTable == ChangeRegions({})

-----------------------------------------------------------------------------
(* Applications. *)

\* AppHelper::InstallPriv; the application will be started later.
InstallApplication(a) ==
  /\ a \notin applications
  /\ applications' = applications \cup {a}
  /\ UNCHANGED <<helperVars, deviceVars, tableVars, commands, active, m_face, ended, awaited,
                 deliveries, rowVars, scheduleVars, dropped, boundVars>>

\* Producer::StartApplication, after that of App.
RegisterPrefix(a, f) == IF a \in Producers THEN <<AddRoute(Prefix, f, 0)>> ELSE <<>>

\* The face of an application that is started for the first time.
OpenFace(a) ==
  /\ StackInstalled /\ a \in applications
  /\ m_face[a] = INVALID_FACEID
  /\ active' = [active EXCEPT ![a] = TRUE]
  /\ faceTable' = AddFaces(faceTable, lastFaceId, <<<<"app", a>>>>)
  /\ lastFaceId' = lastFaceId + 1
  /\ m_face' = [m_face EXCEPT ![a] = lastFaceId']

StartApplication(a) ==
  /\ a \notin Bolts
  /\ OpenFace(a)
  /\ InjectInterest(RegisterPrefix(a, lastFaceId'))
  /\ UNCHANGED <<helperVars, deviceVars, fib, strategy, pit, regions, applications, ended, awaited,
                 deliveries, rowVars, scheduleVars, dropped, boundVars>>

\* The bolt is made; its constructor sets an Interest filter on a face of its own.
StartBolt(b) ==
  /\ b \in Bolts
  /\ OpenFace(b)
  /\ InjectInterest(<<AddRoute(TracePrefix, lastFaceId', 0)>>)
  /\ UNCHANGED <<helperVars, deviceVars, fib, strategy, pit, regions, applications, ended, awaited,
                 deliveries, rowVars, scheduleVars, dropped, boundVars>>

\* What NFD does with a face that was closed.
Without(f) ==
  /\ faceTable' = [g \in DOMAIN faceTable \ {f} |-> faceTable[g]]
  /\ fib' = {h \in fib : h.face # f}
  /\ pit' = [n \in DOMAIN pit |-> [in |-> pit[n].in \ {f}, out |-> pit[n].out \ {f}]]

\* Slip: the face stays open.
LeaveOpen(a) == UNCHANGED <<faceTable, fib, pit>>

\* An application that was never started has no face to close.
CloseFace(a) == IF active[a] THEN Without(m_face[a]) ELSE UNCHANGED <<faceTable, fib, pit>>

EndApplication(a) ==
  /\ StackInstalled /\ a \in applications \ ended
  /\ CloseFace(a)
  /\ active' = [active EXCEPT ![a] = FALSE]
  /\ ended' = ended \cup {a}
  /\ UNCHANGED <<helperVars, deviceVars, lastFaceId, strategy, regions, commands, applications,
                 m_face, awaited, deliveries, rowVars, scheduleVars, dropped, boundVars>>

StopApplication(a) == a \notin Bolts /\ EndApplication(a)

\* The bolt is destroyed and its face with it.
StopBolt(b) == b \in Bolts /\ EndApplication(b)

-----------------------------------------------------------------------------
(* The forwarder. *)

PrefixOf(n) == IF n \in Names THEN Prefix ELSE TracePrefix
StrategyOf(n) == IF n \in Names THEN strategy ELSE InitialStrategy

\* Next hops of the longest prefix of n without f itself.
NextHops(f, n) ==
  LET prefix == IF \E h \in fib : h.prefix = PrefixOf(n) THEN PrefixOf(n) ELSE Root
  IN  {h \in fib : h.prefix = prefix /\ h.face # f}

\* The sets of faces an Interest from f may be sent to: the best one, or all of them.
Forwarded(f, n) ==
  LET hops == NextHops(f, n)
      best == {x \in hops : \A y \in hops : x.cost <= y.cost}
  IN  IF hops = {} THEN {}
      ELSE IF StrategyOf(n) = "multicast" THEN {{h.face : h \in hops}} ELSE {{h.face} : h \in best}

Known(n) == n \in DOMAIN pit
Entry(n) == IF Known(n) THEN pit[n] ELSE [in |-> {}, out |-> {}]
SetEntry(n, e) == pit' = [x \in DOMAIN pit \cup {n} |-> IF x = n THEN e ELSE pit[x]]

\* An Interest that comes in by face f is joined to its entry, forwarded (again, when
\* it comes from the same face) or, without a route, answered by a Nack or not at all.
ReceiveInterest(f, n) ==
  LET e == Entry(n)
  IN  \/ /\ Known(n)
         /\ SetEntry(n, [e EXCEPT !.in = @ \cup {f}])
         /\ Trace({<<f, "InInterests">>})
         /\ UNCHANGED deliveries
      \/ /\ ~Known(n) \/ f \in e.in
         /\ \E to \in Forwarded(f, n) :
              /\ SetEntry(n, [in |-> e.in \cup {f}, out |-> e.out \cup to])
              /\ Trace({<<f, "InInterests">>} \cup (to \X {"OutInterests"}))
              /\ deliveries' = deliveries \o Schedule("Interest", to, n)
      \/ /\ ~Known(n) /\ Forwarded(f, n) = {} /\ StrategyOf(n) = "best-route"
         /\ SetEntry(n, [in |-> {}, out |-> {}])
         /\ Trace({<<f, "InInterests">>, <<f, "OutNacks">>})
         /\ deliveries' = deliveries \o Schedule("Nack", {f}, n)
      \/ /\ ~Known(n) /\ Forwarded(f, n) = {} /\ StrategyOf(n) = "multicast"
         /\ SetEntry(n, [in |-> {f}, out |-> {}])
         /\ Trace({<<f, "InInterests">>})
         /\ UNCHANGED deliveries

\* Data that comes in by face f goes to the other faces of the entry's in-records.
ReceiveData(f, n, before) ==
  IF Known(n)
  THEN LET to == pit[n].in \ {f}
       IN  /\ Trace({<<f, "InData">>} \cup SatisfiedInterests(pit[n]) \cup (to \X {"OutData"}))
           /\ pit' = [x \in DOMAIN pit \ {n} |-> pit[x]]
           /\ deliveries' = before \o Schedule("Data", to, n)
  ELSE /\ Trace({<<f, "InData">>})
       /\ deliveries' = before
       /\ UNCHANGED pit

TimeOut(n) ==
  /\ Known(n)
  /\ Trace(TimedOutInterests(pit[n]))
  /\ pit' = [x \in DOMAIN pit \ {n} |-> pit[x]]
  /\ UNCHANGED <<helperVars, deviceVars, faceTable, lastFaceId, fib, strategy, regions, commands,
                 appVars, deliveries, scheduleVars, dropped, boundVars>>

\* A command is an Interest, answered by Data, over faces whose packets are not traced.
CommandEntry(c) == [in |-> {From(c)}, out |-> {InternalFace}]

\* The FIB and the strategy choice manager, reached through their own route.
Execute ==
  /\ commands # <<>>
  /\ ManagementRoute \in fib
  /\ LET c == Head(commands)
         others == {h \in fib : ~(h.prefix = c.prefix /\ h.face = c.face)}
     IN  /\ Manager(c) \in Privileges
         /\ fib' = IF c.op = "add" /\ c.face \in DOMAIN faceTable
                   THEN others \cup {[prefix |-> c.prefix, face |-> c.face, cost |-> c.cost]}
                   ELSE IF c.op = "remove" THEN others ELSE fib
         /\ strategy' = IF c.op = "set" THEN c.strategy ELSE strategy
         /\ Trace(SatisfiedInterests(CommandEntry(c)))
  /\ commands' = Tail(commands)
  /\ UNCHANGED <<helperVars, deviceVars, faceTable, lastFaceId, pit, regions, appVars, deliveries,
                 scheduleVars, dropped, boundVars>>

\* A command of the scenario.
Command(c) ==
  /\ routes < MaxRoutes
  /\ routes' = routes + 1
  /\ InjectInterest(<<c>>)
  /\ UNCHANGED <<helperVars, deviceVars, tableVars, appVars, deliveries, rowVars, scheduleVars,
                 dropped, now, interests, drops>>

\* Bound: the scenario gives routes to devices only.
ChangeRoute(f, cost) ==
  /\ \E d \in 1 .. devices : f \in DeviceFaces(d)
  /\ Command(AddRoute(Prefix, f, cost)) \/ Command(RemoveRoute(Prefix, f))

InstallStrategy(s) == StackInstalled /\ Command(SetStrategy(Prefix, s))

-----------------------------------------------------------------------------
(* Packets of applications and devices. *)

\* A consumer that is active sends an Interest: AppLinkService::onReceiveInterest.
Express(a, n) ==
  /\ a \in Consumers /\ active[a]
  /\ interests < MaxInterests
  /\ ReceiveInterest(GetId(m_face[a]), n)
  /\ interests' = interests + 1
  /\ awaited' = awaited \cup {<<a, n>>}
  /\ UNCHANGED <<helperVars, deviceVars, faceTable, lastFaceId, fib, strategy, regions, commands,
                 applications, active, m_face, ended, scheduleVars, dropped, now, routes, drops>>

\* NetDeviceTransport::receiveFromNetDevice.
InterestFrom(d, n) ==
  /\ interests < MaxInterests
  /\ \E f \in DeviceFaces(d) : ReceiveInterest(f, n)
  /\ interests' = interests + 1
  /\ UNCHANGED <<helperVars, deviceVars, faceTable, lastFaceId, fib, strategy, regions, commands,
                 appVars, scheduleVars, dropped, now, routes, drops>>

DataFrom(d, n) ==
  /\ \E f \in DeviceFaces(d) : Known(n) /\ f \in pit[n].out /\ ReceiveData(f, n, deliveries)
  /\ UNCHANGED <<helperVars, deviceVars, faceTable, lastFaceId, fib, strategy, regions, commands,
                 appVars, scheduleVars, dropped, boundVars>>

\* The queue of a point to point device is full.
Drop(d) ==
  /\ drops < MaxDrops
  /\ d <= devices /\ DeviceTypes[d] = "p2p"
  /\ drops' = drops + 1
  /\ TraceDrop(d)
  /\ dropped' = IF tracer.class = "L2RateTracer" /\ d \in tracer.sources THEN dropped + 1 ELSE dropped
  /\ UNCHANGED <<nodeVars, scheduleVars, now, interests, routes>>

\* m_instance, or m_impl of a FactoryCallbackApp: set from the start to the stop.
HasInstance(b) == active[b]

\* A bolt answers when its own request was answered (TraceBolt and Snake have the rest).
BoltAnswers(b, n) ==
  /\ b \in Bolts /\ HasInstance(b)
  /\ Known(n) /\ m_face[b] \in pit[n].out
  /\ ReceiveData(GetId(m_face[b]), n, deliveries)
  /\ UNCHANGED <<helperVars, deviceVars, faceTable, lastFaceId, fib, strategy, regions, commands,
                 appVars, scheduleVars, dropped, boundVars>>

\* Slip: the producer answers although it was stopped.
AnswersAlways(a) == TRUE

\* Producer::OnInterest returns early when the application is not active.
Answers(a) == active[a]

\* Consumer::OnData reports the delays of what was still awaited (Consumer has the rest).
Accept(a, n) ==
  IF active[a] /\ <<a, n>> \in awaited
  THEN awaited' = awaited \ {<<a, n>>} /\ TraceDelays(a)
  ELSE UNCHANGED <<awaited, rowVars>>

\* The next delivery: a producer answers an Interest, other packets end here.
Deliver ==
  /\ deliveries # <<>>
  /\ LET a == Head(deliveries)[1]
         kind == Head(deliveries)[2]
         n == Head(deliveries)[3]
         rest == Tail(deliveries)
     IN  \/ /\ kind = "Interest" /\ a \in Producers /\ Answers(a)
            /\ ReceiveData(GetId(m_face[a]), n, rest)
            /\ UNCHANGED awaited
         \/ /\ kind = "Data" /\ a \in Consumers
            /\ Accept(a, n)
            /\ deliveries' = rest /\ UNCHANGED pit
         \/ /\ ~(kind = "Interest" /\ a \in Producers /\ Answers(a)) /\ ~(kind = "Data" /\ a \in Consumers)
            /\ deliveries' = rest
            /\ UNCHANGED <<pit, awaited, rowVars>>
  /\ UNCHANGED <<helperVars, deviceVars, faceTable, lastFaceId, fib, strategy, regions, commands,
                 applications, active, m_face, ended, scheduleVars, dropped, boundVars>>

\* Time passes when the events of this instant are done.
Tick ==
  /\ now < MaxTime
  /\ deliveries = <<>> /\ commands = <<>> /\ now \notin printEvents
  /\ now' = now + 1
  /\ UNCHANGED <<nodeVars, rowVars, scheduleVars, dropped, interests, routes, drops>>

Configure ==
  \E type \in Range(DeviceTypes) :
    \/ \E callback \in {"custom", "declines"} :
         AddFaceCreateCallback(type, callback) \/ UpdateFaceCreateCallback(type, callback)
    \/ RemoveFaceCreateCallback(type)

Next ==
  \/ Configure \/ AddDevice \/ Install \/ Update
  \/ \E names \in SUBSET Regions : AddRegionName(names) \/ RemoveRegionName(names)
  \/ EmptyNetworkRegionTable
  \/ \E a \in Apps : InstallApplication(a) \/ StartApplication(a) \/ StopApplication(a)
  \/ \E b \in Bolts : StartBolt(b) \/ StopBolt(b)
  \/ \E class \in Classes, period \in Periods : InstallTracer(class, period)
  \/ PrintPeriod
  \/ Execute \/ Deliver
  \/ \E f \in DOMAIN faceTable, cost \in 0 .. 1 : ChangeRoute(f, cost)
  \/ \E s \in {"best-route", "multicast"} : InstallStrategy(s)
  \/ \E n \in Names \cup TraceNames :
       \/ \E a \in Apps : Express(a, n)
       \/ \E d \in 1 .. devices : InterestFrom(d, n) \/ DataFrom(d, n)
       \/ \E b \in Bolts : BoltAnswers(b, n)
       \/ TimeOut(n)
  \/ \E d \in 1 .. devices : Drop(d)
  \/ Tick

Spec == Init /\ [][Next]_vars

-----------------------------------------------------------------------------
(* Properties. *)

\* The tracer's rows are about faces that the table knew: an application that was
\* stopped between an event and its delivery sends nothing over its removed face, and
\* every face that is printed has a description (an assertion of PRINTER).
RowsOfKnownFaces ==
  \A k \in DOMAIN m_stats :
    IF k[1] = INVALID_FACEID THEN k[2] \in AllRows ELSE k[1] \in m_faceInfos

\* Over all periods and the running one the L3 tracers tell of no more answers and
\* timeouts of a face than Interests that were sent and are not pending; of delays no
\* more than of Interests that are not awaited any more; of drops exactly those that
\* happened.  Printed rates divide by the time that passed since the last Reset.
\* The face of the managers is the exception: the L3RateTracer tells of the answers to
\* commands, which came from the two other internal faces, and of no Interest at all.
Unseen(f) == IF f \in DOMAIN tracer.pending THEN tracer.pending[f] ELSE 0
Ended(f) == IF tracer.class = "L3HopDelayTracer" THEN Total(<<f, "InData">>)
            ELSE Total(<<f, "OutSatisfied">>) + Total(<<f, "OutTimedOut">>)
FacesHonest ==
  \A f \in m_faceInfos \ {INVALID_FACEID, InternalFace} :
    Ended(f) + Cardinality({n \in DOMAIN pit : f \in pit[n].out})
      <= Total(<<f, "OutInterests">>) + Unseen(f)
CommandsHonest ==
  /\ Total(<<InternalFace, "OutInterests">>) = 0
  /\ Total(<<InternalFace, "OutSatisfied">>) =
       Total(<<InjectFace, "InSatisfied">>) + Total(<<RibFace, "InSatisfied">>)
RatesHonest ==
  TracerInstalled =>
    /\ \A t \in printEvents : t = tracer.reset + tracer.period
    /\ FacesHonest
    /\ CommandsHonest
    /\ \A a \in Consumers :
         /\ Total(<<a, "LastDelay">>) = Total(<<a, "FullDelay">>)
         /\ Total(<<a, "FullDelay">>) + Cardinality(awaited) <= interests
    /\ Total(<<INVALID_FACEID, "Drop">>) = dropped

\* However Install, Update and new devices follow each other, each device that they
\* saw has one face, and a default route once the commands are done.
OneFacePerDevice ==
  /\ \A d \in 1 .. devices : Cardinality(DeviceFaces(d)) = IF d <= updated THEN 1 ELSE 0
  /\ commands = <<>> /\ needSetDefaultRoutes =>
       \A d \in 1 .. updated : \A f \in DeviceFaces(d) :
         [prefix |-> Root, face |-> f, cost |-> MaxCost] \in fib

\* When the events of an instant are done, a producer or bolt that is active has its
\* route, the producer owes no answer, and no route leads to the face of one that stopped.
ProducerServes ==
  deliveries = <<>> /\ commands = <<>> =>
    \A a \in Producers \cup Bolts :
      IF active[a]
      THEN /\ [prefix |-> IF a \in Bolts THEN TracePrefix ELSE Prefix,
               face |-> m_face[a], cost |-> 0] \in fib
           /\ a \in Producers => \A n \in DOMAIN pit : m_face[a] \notin pit[n].out
      ELSE \A h \in fib : h.face # m_face[a]
=============================================================================
