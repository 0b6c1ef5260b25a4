\* A BoltConsumerCbr: one component after the sequence number, OnData run twice, a
\* send gap longer than the first RTO, and the fairness of the simulator.  The RTO
\* grows to 4: number 1 is within the bound of NoStarvation, number 2 beyond it.
SPECIFICATION FairSpec
CONSTANTS
  StartSeq = 0
  MaxSeq = 3
  Gaps = {2}
  RetxTimer = 1
  MinRto = 1
  MaxRto = 4
  MaxBackoff = 3
  MaxCopies = 2
  Trailer = 1
  Passes = 2
INVARIANTS
  NothingLost
  NoStall
  TimelyTimeout
PROPERTIES
  FetchSpec
  Karn
  SilentAfterStop
  NoStarvation
