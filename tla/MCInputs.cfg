\* Every property of what comes in: pushes, documents, feeds and reports.
SPECIFICATION MCSpec
CONSTANTS
  Sources = {"waze", "ndic", "mhd", "datex"}
  NoNumber = NoNumber
  FetchedAt = 6
  NoText = NoText
  Unreadable = Unreadable
  FetchTime = 7
  WazeFeeds <- MCWazeFeeds
  NdicAnswers <- MCNdicAnswers
  TmcTables <- MCTmcTables
  Routes <- MCRoutes
  Dialects <- MCDialects
  m1 = m1
  m2 = m2
  m3 = m3
  m4 = m4
  Messages = {m1, m2, m3, m4}
  None = None
  MaxStoredFiles = 2
  TicksPerSecond = 6
  MaxCrashes = 3
  MaxFailures = 1
SYMMETRY AnyMessage
INVARIANTS
  AggregatesMatchJams
  SnapshotsMatchDocument
  NeverBehindAccepted
  AcceptedKept
  CutWasNotAcknowledged
PROPERTIES
  PlacedWhereReported
  FallsBackOnlyInDoubt
CHECK_DEADLOCK FALSE
