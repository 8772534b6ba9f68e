SPECIFICATION Spec
CONSTANTS
  Files = {f1}
  Tags = {1, 2}
  Payloads = {p}
  NoData = NoData
  EaNames = {a, b}
  MaxValueLength = 2
  MaxEas = 2
  EaOverhead = 2
  UlongModulus = 19
  MaxEaSize = 10
  Descriptors = {d1, d2}
SYMMETRY Symmetry
INVARIANTS
  TypeOK
  EasAreAnnounced
  ReparsePointConsistent
PROPERTIES
  TagKept
