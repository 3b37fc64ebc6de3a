SPECIFICATION FairSpec
CONSTANTS
  anna = anna
  ben = ben
  u1 = u1
  t1 = t1
  f1 = f1
  f2 = f2
  Users = {u1}
  Ticks = {t1}
  Watches = {anna, ben}
  Fetches = {f1, f2}
  NoFetch = NoFetch
  Longest = 2
  MaxStamps = 1
  NoSession = NoSession
INVARIANTS
  TypeOK
  TimerServesSessions
PROPERTIES
  RateLimitAborts
  SessionsEnd
  UsesCoalescer
