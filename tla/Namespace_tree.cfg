SPECIFICATION Spec
CONSTANTS
  Components = {a, b}
  Streams = {s}
  NoStream = NoStream
  MAX_PATH = 2
  Threads = {t1, t2}
  FileNodes = {n1, n2, n3, n4}
  nullptr = nullptr
  MaxOpens = 2
  MaxLeaks = 1
  ReplacesStreams = FALSE
  EmplaceThrows = TRUE
SYMMETRY Symmetry
INVARIANTS
  TypeOK
  RefCountExact
  NothingDangles
  TreeShape
PROPERTIES
  OverwriteKeepsOpenStreams
  ImplementsFileTree
