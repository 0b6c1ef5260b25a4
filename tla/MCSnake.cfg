\* Each message delivered once: the protocol as it is meant to run.
SPECIFICATION FairSpec
CONSTANTS
  N = 3
  Seqs = {s1}
  Costs = {1, 2, 3}
  RttOpts = {"on", "off", "local", "producer"}
  MaxNonce = 2
  MaxRetx = 0
  MaxDups = 0
  MaxLoss = 0
INVARIANTS
  ExecutedAtCheapest
  ProducerForgets
PROPERTIES
  Answered
CHECK_DEADLOCK FALSE
