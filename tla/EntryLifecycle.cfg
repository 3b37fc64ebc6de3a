CONSTANTS
  Entries = {e1, e2}
  Accounts = {home, school}
  NoAccount = NoAccount
  NoCoordinator = NoCoordinator
  Forms <- MCForms
  MaxEdits = 4
SPECIFICATION Spec
SYMMETRY MCSymmetry
INVARIANTS
  SettingsApplied
  OwnSession
  UniqueAccounts
  ServicesWhileAllLoaded
  TimersOwned
  RemovedLeavesNoSession
CHECK_DEADLOCK FALSE
