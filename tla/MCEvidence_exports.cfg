CONSTANTS
  Clients = {c1, c2}
  Runs = {r1, r2}
  Versions = {v1, v2}
  None = None
  Original = v1
  Queries <- OnePopulation
  Population <- OnePopulation
  Covering = {r1, r2}
  Directories = {d1, d2}
  Lifetime = 1
  MaxClock = 1
  MaxComparisons = 1
  MaxPreviews = 1
  MaxChanges = 1
SPECIFICATION Spec
SYMMETRY RunSymmetry
INVARIANTS
  TypeOK
  ExportsAreTrue
  OneExportPerPreview
PROPERTIES
  NoOverwrite
