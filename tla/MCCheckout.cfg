CONSTANTS
  mine = mine  theirs = theirs
  Accounts = {mine, theirs}
  Mine = mine
  NoAccount = NoAccount
  MaxGenerations = 2
  MaxCalls = 3
SPECIFICATION Spec
INVARIANTS TypeOK OnlyMineConfirmed HeldIsConfirmed
PROPERTIES ConfirmedIsFinal LinksAreCurrent
CHECK_DEADLOCK FALSE
