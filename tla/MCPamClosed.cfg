CONSTANTS
  tty = tty
  luny = luny
  p1 = p1
  p2 = p2
  NoProfile = NoProfile
  Logins = {tty}
  Profiles = {p1, p2}
  Names = {luny}
  UserOf <- MCUserOf
  NameOf <- MCNameOf
  FirstProfiles = {p1}
  MaxCalls = 2
  MaxStops = 1
SPECIFICATION PamSpec
PROPERTY ClosedIsToldAsClosed
CHECK_DEADLOCK FALSE
