SPECIFICATION Spec
CONSTANTS
  Components <- AsciiNames
  Streams <- StreamNames
  NoStream <- Empty
  MAX_PATH = 2
  CaseInsensitive = TRUE
  Weight <- CollationWeight
  MEMFS_MAX_PATH = 7
  MaxNames = 4
INVARIANTS
  TypeOK
  StrictOrder
  WalksAreComplete
  ListingIsFaithful
  LookupAgreesWithListing
  StreamInfoComplete
