CONSTANTS
  s1 = s1  s2 = s2  Nobody = Nobody
  Servers = {s1, s2}
  MaxSets = 1
  MaxFaults = 2
  MaxOps = 3
SPECIFICATION FairSpec
INVARIANTS OneInFlight FinishedIsFinished NothingLandsLater
PROPERTIES ReopensWhenOver ScheduleEnds
CHECK_DEADLOCK FALSE
