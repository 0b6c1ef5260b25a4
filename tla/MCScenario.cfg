SPECIFICATION Spec
CONSTANTS
  Routers = {1, 2, 3, 4, 5}
  FileRouters = {1, 2, 3}
  Bandwidths <- Rates
  ReferenceOspfRate = 10
  Comments <- Resources
  OspfMetrics = {1, 2}
  MaxLines = 3
  MapLinks <- Map
  MaxClientDegree = 3
  Networks <- HandMade
  Names = {p}
  Metrics = {40000}
  LinkDelays = {400, 2000}
  MaxOrigins = 2
  MaxCalculations = 2
  MaxChanges = 1
  Cliques <- Triangles
  MaxCommands = 4
INVARIANTS GraphMirrorsNetwork MetricsBorrowed AllRoutesExact ShortestRouted LatencyOfOwnLink BackboneConnected LinkControlled RoutesLeadThere RoundTrip
CHECK_DEADLOCK FALSE
