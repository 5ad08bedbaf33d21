CONSTANTS
  c1 = c1  c2 = c2  g1 = g1  h1 = h1  h2 = h2  h3 = h3  a1 = a1  a2 = a2
  seat = seat  vip = vip  comp = comp  NoSeat = NoSeat  NoLimit = NoLimit
  Checkouts = {c1, c2}
  Hosted = {h1, h3}
  Grants = {g1}
  Actors = {}
  HoldOf <- MCHoldOf
  ClassOf <- MCClassOf
  SeatOf <- MCMixed
  Quota <- MCQuotaOne
  InitialCapacity = 2
  LosableVerdicts = {"issue"}
  MaxCrashes = 1
  Capacities = {1}
SPECIFICATION Spec
INVARIANTS TypeOK SeatExclusive TicketsAccounted CapacityHonoured QuotaHonoured
CHECK_DEADLOCK FALSE
