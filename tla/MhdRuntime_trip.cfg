\* One trip before, during and after its timetable, its records in order, with
\* the goroutines running and a publication that may fail.
SPECIFICATION FairSpec
CONSTANTS
  u1 = u1
  u2 = u2
  UIDs = {u1}
  Occurrences <- OneTrip
  StartedAt = 1
  TripEndReserve = 2
  MatchingWindow = 3
  StartupGrace = 0
  Jitter = 1
  OrderedSource = TRUE
  MaxTime = 6
  MaxRecords = 2
  MaxRefreshes = 1
  MaxFailures = 1
  MaxUpdates = 0
INVARIANTS CloseDatedAfterTrip StartComesFirst EndVisibleUnlessLate OvertakenOnlyByClosing
PROPERTIES TripsClose EndsArePublished ImplementsFeed
CHECK_DEADLOCK FALSE
