\* One retransmission on a network that loses nothing.
SPECIFICATION Spec
CONSTANTS
  N = 1
  Seqs = {s1}
  Costs = {1, 2}
  RttOpts = {"on"}
  MaxNonce = 3
  MaxRetx = 1
  MaxDups = 0
  MaxLoss = 0
INVARIANTS
  MarkerOnResults
CHECK_DEADLOCK FALSE
