SPECIFICATION FairSpec
CONSTANTS
  anna = anna
  ben = ben
  e1 = e1
  e2 = e2
  r1 = r1
  r2 = r2
  Watches = {anna, ben}
  Targets = {{anna}}
  Editors = {e1}
  Readers = {r1}
  Ids <- FewIds
  Intervals = {"off", "timed"}
  MaxUpdates = 1
  MaxFaults = 1
PROPERTIES
  ExactWhenAlone
  ReadIsShown
  Converges
