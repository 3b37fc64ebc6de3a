SPECIFICATION Spec
CONSTANTS
  w1 = w1
  w2 = w2
  Watches = {w1, w2}
  Requests <- Both
  MaxFix = 2
  NoName = NoName
  Nothing = Nothing
VIEW View
CONSTRAINT Alone
INVARIANTS
  OwnFix
  OwnAddress
PROPERTIES
  OthersKept
