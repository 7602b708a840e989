\* Trips that run late: by event time the last state stays active.
SPECIFICATION Spec
CONSTANTS
  u1 = u1
  u2 = u2
  UIDs = {u1}
  Occurrences <- OneTrip
  StartedAt = 1
  TripEndReserve = 2
  MatchingWindow = 3
  StartupGrace = 0
  Jitter = 0
  OrderedSource = TRUE
  MaxTime = 6
  MaxRecords = 3
  MaxRefreshes = 1
  MaxFailures = 0
  MaxUpdates = 0
INVARIANTS FinishedTripsEndInactive
CHECK_DEADLOCK FALSE
