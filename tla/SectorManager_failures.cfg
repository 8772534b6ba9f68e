SPECIFICATION FairSpec
CONSTANTS
  FULL_SECTOR_SIZE = 1
  Threads = {t1, t2}
  SectorNodes = {n1, n2}
  HeapSectors = {b1, b2}
  nullptr = nullptr
  NoNode = NoNode
  MaxSectors = 2
  ThrowBound = 1
INVARIANTS
  HeapExact
  NoSharedSector
  CounterNeverUnderReports
  CopiesNoFreedSector
PROPERTIES
  ImplementsSectorStore
  EveryHolderReleases
  CallsReturn
