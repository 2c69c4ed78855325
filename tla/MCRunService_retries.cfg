CONSTANTS
  Clients = {c1, c2}
  Main = main
  MaxJobs = 3
  Runs = {r1}
  NoRun = NoRun
  MaxTries = 2
  MaxRestarts = 0
  MaxFaults = 0
  TornCreates = FALSE
SPECIFICATION Spec
SYMMETRY ThreadAndRunSymmetry
INVARIANTS
  OneActiveJobPerRun
  SettledRuns
PROPERTIES
  CompleteRunIsFinal
