CONSTANTS
  MaxSent = 2
  ReadBuffer = 1
  Window = 1
  HandlerThrows = {}
  SelectErrors = FALSE
SPECIFICATION FairSpec
INVARIANTS
  NeverWaitsInReceive
PROPERTIES
  StreamSpec
  Relayed
CHECK_DEADLOCK FALSE
