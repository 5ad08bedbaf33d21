CONSTANTS
  c1 = c1  c2 = c2  g1 = g1  h1 = h1  h2 = h2  h3 = h3  a1 = a1  a2 = a2
  seat = seat  vip = vip  comp = comp  NoSeat = NoSeat  NoLimit = NoLimit
  Checkouts = {c1}
  Hosted = {h1}
  Grants = {}
  Actors = {}
  HoldOf <- MCHoldOf
  ClassOf <- MCClassOf
  SeatOf <- MCNoSeats
  Quota <- MCQuota
  InitialCapacity = NoLimit
  LosableVerdicts = {}
  MaxCrashes = 1
  Capacities = {}
SPECIFICATION FairSpec
PROPERTY PaidIsSettled
CHECK_DEADLOCK FALSE
