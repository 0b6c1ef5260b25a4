\* Two next hops: the first reply makes the bolt forget the others.
SPECIFICATION Spec
CONSTANTS
  MaxHops = 3
  Times = {1, 3}
  Nonces = {n1}
  Faces = {f1, f2}
  NameLen = 1
  MaxArrivals = 2
INVARIANTS QuestKept
CHECK_DEADLOCK FALSE
