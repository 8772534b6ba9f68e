SPECIFICATION Spec
CONSTANTS
  Words <- SwitchWords
  OptionOf <- SwitchWordLetter
  Length <- SwitchWordLength
  Numbers <- NoNumbers
  MaxWords = 4
  Threads = {t1}
  Labels <- LabelLengths
  MAX_VOLUME_LABEL_STR_LENGTH = 7
INVARIANTS
  OptionsHonoured
