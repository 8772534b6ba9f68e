SPECIFICATION Spec
CONSTANTS
  Components = {a, b}
  Streams = {s}
  NoStream = NoStream
  MAX_PATH = 1
  Threads = {t1}
  FileNodes = {n1, n2, n3, n4}
  nullptr = nullptr
  MaxOpens = 2
  MaxLeaks = 1
  ReplacesStreams = TRUE
  EmplaceThrows = FALSE
INVARIANTS
  MainNodesAlive
