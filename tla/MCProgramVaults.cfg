CONSTANTS
  MaxMilliseconds = 4
  MsPerDay = 1
  Interval = 2
  MaxWall = 3
  MaxBackSteps = 0
  MaxSaves = 1
  Clients = {c1, c2}
  Locations = {l1}
  Names = {n1, n2, n3}
  Spans = {1}
  Times = {0}
  MaxConditionals = 0
  MaxVaults = 2
  MaxProtection = 3
  FiveMinutes = 2
  MinAllowance = 1
  MaxAllowance = 1
  MaxLifetime = 1
SPECIFICATION ProgramSpec
SYMMETRY Symmetry
INVARIANTS ProgramTypeOK NothingIsPending SettledSurvives WithinLimits NamesAreUnique
PROPERTIES ProtectionIsServed ProtectionOnlyGrows LoneSaveCatchesUp
