CONSTANTS
  NumPairs = 2
  Versions = {v1, v2}
  NoVersion = NoVersion
  Regenerations <- LastRegenerates
  MaxRetries = 2
  MaxRateLimits = 3
  MinInterval = 2
  Backoff = 1
  Delays = {0, 3}
  Latencies = {0, 3}
  Headroom = 2
  Ceiling = 4
  MaxSessions = 3
SPECIFICATION Spec
SYMMETRY VersionSymmetry
INVARIANTS
  TypeOK
  CallsAreBounded
  CallsArePaced
  ResultsAreComplete
  OneVersionInSession
PROPERTIES
  SuccessIsFinal
  RecordsTellCalls
