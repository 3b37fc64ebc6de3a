SPECIFICATION Spec
CONSTANTS
  view = view
  nightly = nightly
  Callers = {view, nightly}
  Nightly = nightly
  Retention = 1
  Served = 1
  MaxDay = 2
  MaxPoints = 1
  LastBuild = 1
  Today = Today
  NoBucket = NoBucket
VIEW View_
INVARIANTS
  DurableArchive
  OwnDay
PROPERTIES
  ServedDaysKept
