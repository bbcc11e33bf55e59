CONSTANTS
  MaxMilliseconds = 4
  MsPerDay = 3
  Interval = 2
  MaxWall = 6
  MaxBackSteps = 1
  MaxSaves = 2
SPECIFICATION ClocksSpec
INVARIANTS ClocksTypeOK NeverGoesBack UptimeWithinDay
PROPERTY ClockMovesForward
