\* Refreshes in any order of the trips, and records around a Sunday midnight and
\* the time shifts of a Sunday.
SPECIFICATION MCSpec
CONSTANTS
  workday = workday
  sunday = sunday
  later = later
  night = night
  A = A
  B = B
  lineA = lineA
  lineB = lineB
  Trips = {workday, sunday, later, night}
  None = None
  NoFeed = NoFeed
  NoClock = NoClock
  DayLength = 1440
  MatchingWindow = 30
  Feeds <- SmallFeeds
  Records <- SmallRecords
  Times <- SmallTimes
  Zones <- SmallZones
INVARIANTS OccurrencesComplete FoundUnlessTwin RunningTripsAreMatched BestUnlessSaturated
