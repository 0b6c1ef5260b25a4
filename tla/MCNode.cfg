SPECIFICATION Spec
CONSTANTS
  Producers = {prod}
  Consumers = {cons}
  Bolts = {bolt}
  Names = {x}
  TraceNames = {y}
  Periods = {2}
  Regions = {region}
  DeviceTypes <- Types
  MaxCallbacks = 2
  MaxDrops = 1
  Classes = {"L3RateTracer", "L3HopDelayTracer", "AppDelayTracer", "CsTracer", "L2RateTracer"}
  MaxInterests = 2
  MaxRoutes = 1
  MaxTime = 2
CONSTRAINT Bounded
INVARIANTS RowsOfKnownFaces RatesHonest OneFacePerDevice ProducerServes
CHECK_DEADLOCK FALSE
