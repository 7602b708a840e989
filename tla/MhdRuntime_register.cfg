\* Two trips, the two registering goroutines, the core's updates and failures.
SPECIFICATION Spec
CONSTANTS
  u1 = u1
  u2 = u2
  UIDs = {u1, u2}
  Occurrences <- OneTrip
  StartedAt = 1
  TripEndReserve = 1
  MatchingWindow = 0
  StartupGrace = 5
  Jitter = 0
  OrderedSource = TRUE
  MaxTime = 2
  MaxRecords = 2
  MaxRefreshes = 2
  MaxFailures = 1
  MaxUpdates = 2
INVARIANTS TypeOK StatesAreAnnounced RequestsBounded
CHECK_DEADLOCK FALSE
