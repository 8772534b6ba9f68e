SPECIFICATION Spec
CONSTANTS
  FULL_SECTOR_SIZE = 2
  Files = {f1, f2}
  Values = {v1}
  Uninitialised = Uninitialised
  NullSector = NullSector
  HeapSectors = 3
  PointerSize = 1
  NodeSize = 1
  maxFsSize = 10
  UlongModulus = 2
  MaxFileSize = 5
  ThrowBound = 1
SYMMETRY Symmetry
CONSTRAINT WritersAreAlone
CHECK_DEADLOCK FALSE
INVARIANTS
  TypeOK
  ReadsWhatWasWritten
  RangesBelowFileSizeAccepted
  SizesNested
  QuotaNeverWraps
PROPERTIES
  RefusedOnlyWhenFull
