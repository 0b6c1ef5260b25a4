\* One next hop per trace: what single path mode does, and multipath mode on a
\* FIB with one next hop per prefix.
SPECIFICATION FairSpec
CONSTANTS
  MaxHops = 3
  Times = {1, 3}
  Nonces = {n1, n2}
  Faces = {f1}
  NameLen = 2
  MaxArrivals = 4
INVARIANTS QuestKept Accounted PathTraced
PROPERTIES Served
\* The requests are finite in number.
CHECK_DEADLOCK FALSE
