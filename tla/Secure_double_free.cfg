CONSTANTS
  Sockets = {s1, s2}
  Hosts = {h1, h2}
  Nowhere = Nowhere
SPECIFICATION Spec
INVARIANTS
  FreedOnce
CHECK_DEADLOCK FALSE
