SPECIFICATION Spec
CONSTANTS
  FULL_SECTOR_SIZE = 2
  Threads = {t1, t2}
  SectorNodes = {n1, n2}
  HeapSectors = {b1}
  nullptr = nullptr
  NoNode = NoNode
  MaxSectors = 2
  ThrowBound = 0
INVARIANTS
  GrantedSectorsPresent
