SPECIFICATION Spec
CONSTANTS
  Components <- MixedNames
  Streams <- StreamNames
  NoStream <- Empty
  MAX_PATH = 1
  CaseInsensitive = TRUE
  Weight <- CollationWeight
  MEMFS_MAX_PATH = 7
  MaxNames = 4
INVARIANTS
  StrictOrder
