\* Rounds over a changing feed, updates and failures.
SPECIFICATION Spec
CONSTANTS
  u1 = u1
  u2 = u2
  Clear = Clear
  UIDs = {u1}
  StartedAt = 1
  Offset <- OneUnit
  BatchLimit = 1
  MaxTime = 3
  MaxFetches = 3
  MaxFailures = 1
  MaxErrorPages = 1
  MaxUpdates = 1
INVARIANTS ConsumersMirrorFeed EndsVisibleInEventTime StartsBelongToBeginnings RequestsBounded
PROPERTIES ImplementsFeed
CHECK_DEADLOCK FALSE
