CONSTANTS
  MaxSent = 2
  ReadBuffer = 1
  Window = 1
  HandlerThrows = {"data"}
  SelectErrors = TRUE
SPECIFICATION FairSpec
INVARIANTS
  TypeOK
  InOrder
PROPERTIES
  SessionEnds
CHECK_DEADLOCK FALSE
