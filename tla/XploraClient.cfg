SPECIFICATION Spec
CONSTANTS
  anna = anna
  ben = ben
  alarms = alarms
  Watches = {anna, ben}
  Functions = {alarms}
  Attempts = 2
  MaxRounds = 2
SYMMETRY Symmetry
INVARIANTS
  VerdictIsHonest
  FreshOnReturn
