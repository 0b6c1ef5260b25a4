\* Every class with the attributes of MCWindowConsumer.  An aborted program stops.
SPECIFICATION Spec
CONSTANTS
  Attributes <- MCAttributes
  Garbage <- MCGarbage
  Leaps <- MCLeaps
  MaxFresh = 3
  MaxAnswers = 3
  LowWindow = 3
INVARIANTS
  NoStall
  AssertionsHold
PROPERTIES
  CwaSpacing
  KarnUnlessCleared
  FetchSpec
CHECK_DEADLOCK FALSE
