CONSTANTS
  MaxMilliseconds = 2
  MsPerDay = 4
  HoursPerDay = 2
  MinutesPerHour = 2
  MsPerMinute = 1
  LongestAsked = 1
  Interval = 2
  MaxWall = 2
  MaxBackSteps = 0
  MaxSaves = 1
  Clients = {c1}
  Locations = {aLocation}
  Names = {aName}
  DataTexts = {aText}
  Infinite = Infinite
  aLocation = aLocation
  aName = aName
  aText = aText
  anotherText = anotherText
  Requests <- MCRequests
  Spans = {0, 1, 2}
  Times = {0, 1, 2, 3}
  MaxConditionals = 1
  MaxVaults = 1
  MaxProtection = 1
  FiveMinutes = 1
  MinAllowance = 1
  MaxAllowance = 1
  MaxLifetime = 1
SPECIFICATION ServerSpec
INVARIANTS ServerTypeOK ShownOnlyOnceServed
PROPERTIES ProgramSpec OffersAreUnderstood
