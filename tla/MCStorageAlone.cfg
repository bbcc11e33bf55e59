CONSTANTS
  Savers = {s1}
  MaxVersion = 4
SPECIFICATION StorageSpec
INVARIANTS StorageTypeOK ActualIsWhole PromisesAreKept
PROPERTY IsAtomicFile
