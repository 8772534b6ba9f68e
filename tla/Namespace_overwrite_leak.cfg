SPECIFICATION Spec
CONSTANTS
  Components = {a}
  Streams = {s}
  NoStream = NoStream
  MAX_PATH = 1
  Threads = {t1}
  FileNodes = {n1, n2, n3}
  nullptr = nullptr
  MaxOpens = 2
  MaxLeaks = 1
  ReplacesStreams = FALSE
  EmplaceThrows = FALSE
INVARIANTS
  UnreachableNodesDeleted
