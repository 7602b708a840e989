\* Rounds of the loop over successive publications, updates and failures.
SPECIFICATION Spec
CONSTANTS
  u1 = u1
  NoPublication = NoPublication
  UIDs = {u1}
  StartedAt = 1
  FetchDelay = 1
  StartupGrace = 0
  Jitter = 0
  BatchLimit = 1
  Lags = {1}
  MaxTime = 4
  MaxFetches = 3
  MaxFailures = 1
  MaxUpdates = 1
INVARIANTS ConsumersMirrorPublication EndsVisibleInEventTime StartComesFirst
INVARIANTS StatesAreAnnounced FreshProcessedOnce
PROPERTIES ImplementsFeed
CHECK_DEADLOCK FALSE
