SPECIFICATION Spec
CONSTANTS
  c1 = c1
  c2 = c2
  sos = sos
  call = call
  Cycles = {c1, c2}
  Kinds = {sos, call}
  Limit = 2
  MaxEntries = 3
  MaxReloads = 2
  NoMark = NoMark
SYMMETRY Symmetry
VIEW View
INVARIANTS
  FiredOnce
  NothingLost
PROPERTIES
  BaselinedByFirst
CHECK_DEADLOCK FALSE
