CONSTANTS
  Connections = {c1, c2}
  MaxFd = 2
  Other = Other
  None = None
SPECIFICATION Spec
INVARIANTS
  TypeOK
  DescriptorsKept
  NoneLeaked
