CONSTANTS
  MaxBytes = 5
  Newlines = {2, 3}
  MaxRecord = 3
  ReadBuffer = 2
  Word = 8
  Lengths = {1, 3, 4}
  MaxFailures = 2
SPECIFICATION FairSpec
INVARIANTS
  TypeOK
  AtMostOneLine
  BlockFilled
  EndKept
  NothingHidden
PROPERTIES
  CallsReturn
