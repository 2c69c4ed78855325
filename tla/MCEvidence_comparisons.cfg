CONSTANTS
  Clients = {c1, c2}
  Runs = {1, 2, 3, 4}
  Versions = {v1, v2}
  None = None
  Original = v1
  Queries <- ThirdDiffers
  Population <- OnePopulation
  Covering = {1, 2, 3}
  Directories = {}
  Lifetime = 1
  MaxClock = 0
  MaxComparisons = 1
  MaxPreviews = 0
  MaxChanges = 1
SPECIFICATION Spec
SYMMETRY ClientSymmetry
INVARIANTS
  ReportTellsOperands
  ComparisonIsWhole
PROPERTIES
  ComparisonIsFinal
