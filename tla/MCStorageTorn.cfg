CONSTANTS
  Savers = {s1, s2}
  MaxVersion = 2
SPECIFICATION StorageSpec
INVARIANT ActualIsWhole
CHECK_DEADLOCK FALSE
