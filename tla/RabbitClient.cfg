\* Two publishers and the consumer on one channel that breaks and is reopened.
SPECIFICATION FairSpec
CONSTANTS
  p1 = p1
  p2 = p2
  Publishers = {p1, p2}
  Batches = 2
  Updates <- GoodThenPoison
  Poison = {2}
  Nobody = Nobody
  MaxBreaks = 1
  MaxDialErrors = 1
INVARIANTS OneChannelOpen StoredOnceInOrder UpdatesKeptUntilHandled
PROPERTIES PublishersReturn
CHECK_DEADLOCK FALSE
