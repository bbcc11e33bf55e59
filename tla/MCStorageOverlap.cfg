CONSTANTS
  Savers = {s1, s2}
  MaxVersion = 3
SPECIFICATION FairStorageSpec
PROPERTIES LoneSaveHeals SavesEnd
CHECK_DEADLOCK FALSE
