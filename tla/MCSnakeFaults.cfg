\* Losses, duplicates and retransmissions.
SPECIFICATION Spec
CONSTANTS
  N = 2
  Seqs = {s1}
  Costs = {1, 2}
  RttOpts = {"on", "off", "local", "producer"}
  MaxNonce = 4
  MaxRetx = 1
  MaxDups = 1
  MaxLoss = 1
INVARIANTS
  CleanDefined
  LoopMatchesReqs
  ExpressedOnce
CHECK_DEADLOCK FALSE
