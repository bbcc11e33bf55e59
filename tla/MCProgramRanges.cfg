CONSTANTS
  MaxMilliseconds = 3
  MsPerDay = 2
  Interval = 1
  MaxWall = 2
  MaxBackSteps = 0
  MaxSaves = 1
  Clients = {c1}
  Locations = {l1}
  Names = {n1}
  Spans = {1}
  Times = {0, 1}
  MaxConditionals = 1
  MaxVaults = 0
  MaxProtection = 2
  FiveMinutes = 1
  MinAllowance = 1
  MaxAllowance = 2
  MaxLifetime = 2
SPECIFICATION ProgramSpec
PROPERTY RangesEndAsRequested
