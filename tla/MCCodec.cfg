CONSTANTS
  MaxMilliseconds = 7
  MsPerDay = 3
  Names = {n1, n2}
  Ranges <- MCRanges
  Spans = {0, 7}
  Stamps = {9}
  Lifetimes <- MCLifetimes
  MaxItems = 2
  MaxLaunches = 3
SPECIFICATION CodecSpec
INVARIANTS FilesAreReadable ReadsWhatWasWritten RangesKeepApplying
