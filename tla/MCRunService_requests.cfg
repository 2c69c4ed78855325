CONSTANTS
  Clients = {c1, c2}
  Main = main
  MaxJobs = 2
  Runs = {r1, r2}
  NoRun = NoRun
  MaxTries = 8
  MaxRestarts = 0
  MaxFaults = 1
  TornCreates = FALSE
SPECIFICATION Spec
SYMMETRY ThreadAndRunSymmetry
INVARIANTS
  LoopsConverge
  QueueIsCoherent
