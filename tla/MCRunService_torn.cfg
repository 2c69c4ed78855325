CONSTANTS
  Clients = {c1}
  Main = main
  MaxJobs = 2
  Runs = {r1, r2}
  NoRun = NoRun
  MaxTries = 8
  MaxRestarts = 1
  MaxFaults = 0
  TornCreates = TRUE
SPECIFICATION FairSpec
PROPERTIES
  QueuedSurvivesRestart
