SPECIFICATION Spec
CHECK_DEADLOCK FALSE
CONSTANTS
  ValueError = ValueError
  KeyError = KeyError
  Bad = Bad
  Blank = Blank
  Examples <- MCExamples
  PilotIds <- MCPilotIds
  RepairLimit = 4
  MaxSent = 8
  Ids <- MCIds
  Sample <- MCSample
  FullIds <- MCFullIds
  MaxRetries = 1
  FailureLimit = 2
  MinAttempted = 2
  MinValid = 98
  MaxSessions = 5
  MaxChanges = 2
  StrictOnly = FALSE
INVARIANTS
  JudgingIsConclusive
  ClassificationsAddUp
  RetrievalIsScoredFairly
  PreparedDataAreWhole
  LedgerTellsRequests
  ReportsAreSound
  DiagnosticsCoverFailures
  FullRunIsGuarded
PROPERTIES
  ConsistencyIsThreefold
