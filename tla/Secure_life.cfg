CONSTANTS
  Sockets = {s1, s2, s3}
  Hosts = {h1, h2}
  Nowhere = Nowhere
SPECIFICATION Spec
INVARIANTS
  TypeOK
  OtherwiseFreedOnce
  DescriptorHeld
  TalksToItsServer
CHECK_DEADLOCK FALSE
SYMMETRY Symmetry
