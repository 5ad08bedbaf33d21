CONSTANTS
  c1 = c1  c2 = c2  g1 = g1  h1 = h1  h2 = h2  h3 = h3  a1 = a1  a2 = a2
  seat = seat  vip = vip  comp = comp  NoSeat = NoSeat  NoLimit = NoLimit
  Checkouts = {c1, c2}
  Hosted = {h1}
  Grants = {g1}
  Actors = {}
  HoldOf <- MCHoldOf
  ClassOf <- MCClassOf
  SeatOf <- MCNoSeats
  Quota <- MCQuota
  InitialCapacity = 2
  LosableVerdicts = {"capacity", "issue"}
  MaxCrashes = 0
  Capacities = {0, 1}
SPECIFICATION FairSpec
PROPERTIES PaidIsSettled AbandonedIsClosed
CHECK_DEADLOCK FALSE
