\* Any topology over eight links of five nodes with metrics 1 and 2, and over the
\* nine links of one of seven nodes; and a few that the assertions reject.
SPECIFICATION Spec
CONSTANTS
  Dst = 0
  Topologies <- AllTopologies
  NodeIdLimit = 6
INVARIANTS DigraphMirrorsFib LoopFree DownwardDescends NoDeadEnds
PROPERTIES Progress
\* The calculation ends.
CHECK_DEADLOCK FALSE
