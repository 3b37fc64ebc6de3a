SPECIFICATION FairSpec
CONSTANTS
  c1 = c1
  c2 = c2
  r1 = r1
  r2 = r2
  Callers = {c1, c2}
  Pollers = {c1}
  Recoveries = {r1, r2}
  NoRecovery = NoRecovery
  MaxToken = 2
VIEW View_
INVARIANTS
  TypeOK
  RetryFollowsRecovery
  RecoveryIsLed
  SingleFlightUntilFailure
  DurableBeforeResume
PROPERTIES
  CallsReturn
