\* All topologies of four nodes with metrics 1 and 2.
SPECIFICATION Spec
CONSTANTS
  Dst = 0
  Topologies <- FourNodes
  NodeIdLimit = 6
INVARIANTS NoAbort
\* The calculation ends.
CHECK_DEADLOCK FALSE
