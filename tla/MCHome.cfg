SPECIFICATION Spec
CHECK_DEADLOCK FALSE
CONSTANTS
  Tabs <- MCTabs
  MaxStarts = 2
  Workspaces <- MCWorkspaces
  Inputs <- MCInputs
  MaxEdits = 2
  MaxPolls = 2
  MaxBreaks = 1
  MaxRequests = 2
  MaxRevision = 1
INVARIANTS
  OwnersKeepWorkspaces
  InputsKeepTheirContent
PROPERTIES
  PageNeverGoesBack
  PageKeepsUp
