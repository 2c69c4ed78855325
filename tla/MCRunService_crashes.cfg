CONSTANTS
  Clients = {c1}
  Main = main
  MaxJobs = 2
  Runs = {r1, r2}
  NoRun = NoRun
  MaxTries = 8
  MaxRestarts = 2
  MaxFaults = 2
  TornCreates = TRUE
SPECIFICATION Spec
SYMMETRY ThreadAndRunSymmetry
INVARIANTS
  TypeOK
  EvidenceIsWhole
  OneJobAtWork
  NextAttemptStartsClean
PROPERTIES
  ImplementsLifecycle
  NoResumption
