SPECIFICATION FairSpec
CONSTANTS
  Words <- AllWords
  OptionOf <- WordLetter
  Length <- WordLength
  Numbers <- Digits
  MaxWords = 4
  Threads = {t1, t2}
  Labels <- LabelLengths
  MAX_VOLUME_LABEL_STR_LENGTH = 7
INVARIANTS
  TypeOK
  CallsHaveFileSystem
  DeletedOnce
  OnlyOptionLabelCrashes
  OptionsAsWritten
PROPERTIES
  StopCompletes
