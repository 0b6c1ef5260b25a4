\* A plain ConsumerCbr: the sequence number is the last name component.
SPECIFICATION Spec
CONSTANTS
  StartSeq = 0
  MaxSeq = 2
  Gaps = {1}
  RetxTimer = 1
  MinRto = 1
  MaxRto = 2
  MaxBackoff = 1
  MaxCopies = 1
  Trailer = 0
  Passes = 1
PROPERTIES
  DataTraced
CHECK_DEADLOCK FALSE
