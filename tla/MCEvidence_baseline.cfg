CONSTANTS
  Clients = {c1, c2}
  Runs = {1, 2, 3}
  Versions = {v1, v2}
  None = None
  Original = v1
  Queries <- ThirdDiffers
  Population <- OnePopulation
  Covering = {1, 2, 3}
  Directories = {}
  Lifetime = 1
  MaxClock = 0
  MaxComparisons = 0
  MaxPreviews = 0
  MaxChanges = 0
SPECIFICATION Spec
SYMMETRY ClientSymmetry
PROPERTIES
  ReplacementIsConfirmed
