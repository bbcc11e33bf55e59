CONSTANTS
  tty = tty
  luny = luny
  p1 = p1
  p2 = p2
  NoProfile = NoProfile
  Logins = {tty}
  Profiles = {p1, p2}
  Names = {luny}
  UserOf <- MCUserOf
  NameOf <- MCNameOf
  FirstProfiles = {p1}
  MaxCalls = 3
  MaxStops = 2
SPECIFICATION FairPamSpec
INVARIANTS PamTypeOK DeniedOnlyWhenBlocked RepliesMatchQuestions
PROPERTIES AllowedOnlyWhenFree EveryCallReturns
CHECK_DEADLOCK FALSE
