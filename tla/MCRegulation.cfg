CONSTANTS
  MaxMilliseconds = 5
  MsPerDay = 4
  MsPerMinute = 2
  Interval = 1
  MaxWall = 5
  MaxBackSteps = 0
  MaxSaves = 1
  Clients = {c1}
  Luny = Luny
  Users <- MCUsers
  Locations <- MCLocations
  Names = {n1}
  Spans = {1, 2}
  Times = {0}
  MaxConditionals = 1
  MaxVaults = 0
  MaxProtection = 3
  FiveMinutes = 2
  MinAllowance = 1
  MaxAllowance = 1
  MaxLifetime = 2
SPECIFICATION RegulationSpec
INVARIANTS SettledCountdownBlocks AllowanceIsLeft NoneIsDead
PROPERTY LifetimeIsServed
