-------------------------------- MODULE MCNode -------------------------------
EXTENDS Node

Types == <<"p2p", "other">>

\* Bounds of the run: the tracer is installed before any command but those of the RIB
\* manager, and before any packet or, on a node with one device, after a few; it comes
\* with all applications unless it listens to them; the helper is configured and regions
\* are named on a node where nothing else happens; the RIB manager is done before
\* anything else happens; a bolt is started instead of a producer, and only its names
\* are asked for then; after the installation of the tracer the scenario does a few
\* things, most with a tracer of all packets on a node with one device, that did not
\* hear the RIB manager.
Done == Cardinality({a \in Apps : m_face[a] # INVALID_FACEID}) + Cardinality(ended)
        + interests + routes + drops + now
Most == [none |-> 3, L3RateTracer |-> 4, L3HopDelayTracer |-> 3, AppDelayTracer |-> 3,
         L2RateTracer |-> 3, CsTracer |-> 2]
Serving(as) == {a \in as : m_face[a] # INVALID_FACEID}
RibHeard == Total(<<RibFace, "InSatisfied">>) > 0
Default == <<<<"p2p", "PointToPointNetDeviceCallback">>>>
Bounded ==
  /\ Serving(Bolts) # {} => /\ Serving(Producers) = {} /\ routes = 0
                            /\ tracer.class = "L3RateTracer"
  /\ applications \cap Bolts # {} => Producers \subseteq applications
  /\ DOMAIN pit \subseteq IF Serving(Bolts) = {} THEN Names ELSE TraceNames
  /\ Done <= Most[tracer.class]
  /\ ~TracerInstalled /\ Done > 0 =>
       applications = Apps /\ Serving(Bolts) = {} /\ drops + routes + now + Cardinality(ended) = 0
         /\ ~needSetDefaultRoutes /\ devices = 1 /\ updated = 1
  /\ tracer.class \notin {"none", "AppDelayTracer"} => applications = Apps
  /\ Done > 3 => devices = 1
  /\ drops > 0 => tracer.class = "L2RateTracer"
  /\ routes > 0 => tracer.class \in {"L3RateTracer", "L3HopDelayTracer"}
  /\ tracer.class \in {"L2RateTracer", "CsTracer"} => Done = drops + now
  /\ commands # <<>> /\ Head(commands) = Head(RibCommands) => Done = 0
  /\ RibHeard => Done <= 2
  /\ m_netDeviceCallbacks # Default \/ regions # {} => Done = 0 /\ ~TracerInstalled
=============================================================================
