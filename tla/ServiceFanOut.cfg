SPECIFICATION FairSpec
CONSTANTS
  home = home
  school = school
  anna = anna
  ben = ben
  carl = carl
  lamp = lamp
  x = x
  y = y
  z = z
  Accounts = {home, school}
  Watches = {anna, ben, carl}
  Strangers = {lamp}
  Owner <- Family
  Has <- Schedules
  Alarms = {x, y, z}
  Attempts = 2
  Nobody = Nobody
INVARIANTS
  SuccessIsReal
  RefusalIsReal
  CleanIsComplete
  NoDoomedRequest
PROPERTIES
  CallReturns
