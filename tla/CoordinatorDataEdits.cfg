SPECIFICATION Spec
CONSTANTS
  anna = anna
  ben = ben
  e1 = e1
  e2 = e2
  r1 = r1
  r2 = r2
  Watches = {anna, ben}
  Targets = {{anna}}
  Editors = {e1}
  Readers = {}
  Ids <- FewIds
  Intervals = {"off"}
  MaxUpdates = 0
  MaxFaults = 0
PROPERTIES
  EditsStay
