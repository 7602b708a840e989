\* An error answer with a JSON body ends jams that are still in the feed.
SPECIFICATION Spec
CONSTANTS
  u1 = u1
  u2 = u2
  Clear = Clear
  UIDs = {u1}
  StartedAt = 1
  Offset <- OneUnit
  BatchLimit = 1
  MaxTime = 2
  MaxFetches = 2
  MaxFailures = 0
  MaxErrorPages = 1
  MaxUpdates = 0
PROPERTIES OnlyVanishedEnd
CHECK_DEADLOCK FALSE
