SPECIFICATION Spec
CONSTANTS
  FULL_SECTOR_SIZE = 2
  Threads = {t1, t2, t3}
  SectorNodes = {n1, n2}
  HeapSectors = {b1, b2, b3, b4}
  nullptr = nullptr
  NoNode = NoNode
  MaxSectors = 2
  ThrowBound = 0
SYMMETRY Symmetry
INVARIANTS
  TypeOK
  CounterExact
  CopiesAllocatedSector
  GrantedRangeAccepted
PROPERTIES
  VectorStableUnderReaders
