SPECIFICATION FairSpec
CONSTANTS
  c1 = c1
  c2 = c2
  c3 = c3
  plain = plain
  forced = forced
  f1 = f1
  f2 = f2
  Callers = {c1, c2, c3}
  Keys = {plain, forced}
  PlainKeys = {plain}
  Fetches = {f1, f2}
  NoFetch = NoFetch
INVARIANTS
  TypeOK
  EntryIsOwned
  OneFetchUnlessOverrun
PROPERTIES
  UpdatesReturn
