SPECIFICATION Spec
CONSTANTS
  view = view
  nightly = nightly
  Callers = {view, nightly}
  Nightly = nightly
  Retention = 1
  Served = 2
  MaxDay = 2
  MaxPoints = 1
  LastBuild = 0
  Today = Today
  NoBucket = NoBucket
INVARIANTS
  NightlyArchive
