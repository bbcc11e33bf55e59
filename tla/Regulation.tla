----------------------------- MODULE Regulation -----------------------------
(***************************************************************************)
(* users/mod.ts and Conditional.isActive: whether a user is to be kept     *)
(* from the screen or from the Internet, asked of the state of Program at  *)
(* any moment.  The question reads three clocks at once: the Instant and   *)
(* the daily uptime as of the last synchronisation, and the wall clock.    *)
(***************************************************************************)
EXTENDS Program

CONSTANTS
  Users,       \* UserNameEnum
  MsPerMinute  \* the grain of DateTime.getTime

ASSUME RegulationAssumption ==
  /\ MsPerMinute \in Nat \ {0}
  /\ Locations \subseteq [user : Users, list : {"screen", "internet"}]

\* DateTime.getTime: the hour and the minute, without seconds.
GetTime(t) == TimeOfDay(t) - (TimeOfDay(t) % MsPerMinute)

\* Mutant: the allowance is up when it is used, not when it is exceeded.
IsAllowanceUpEarly(c, dailyUptime) == dailyUptime >= c.demand.allowance

IsAllowanceUp(c, dailyUptime) == dailyUptime > c.demand.allowance

\* Mutant: the last moment of the lifetime does not count.
IsActiveStrictly(c, instant, now, dailyUptime) ==
  /\ IsRunning(c.lifetime, instant) /\ TillOrZero(c.lifetime.from, instant) < c.lifetime.duration
  /\ \/ c.demand.tag = "Countdown"
     \/ c.demand.tag = "TimeRange" /\ ContainsTime(c.demand.range, GetTime(now))
     \/ c.demand.tag = "UptimeAllowance" /\ IsAllowanceUp(c, dailyUptime)

\* Conditional.isActive.
IsActive(c, instant, now, dailyUptime) ==
  /\ IsRunning(c.lifetime, instant)
  /\ \/ c.demand.tag = "Countdown"
     \/ c.demand.tag = "TimeRange" /\ ContainsTime(c.demand.range, GetTime(now))
     \/ c.demand.tag = "UptimeAllowance" /\ IsAllowanceUp(c, dailyUptime)

ScreenConditionals(user) ==
  {c \in data1.conditionals : c.location.user = user /\ c.location.list = "screen"}

ShouldBlockScreen(user) ==
  \E c \in ScreenConditionals(user) : IsActive(c, Now, wall, data2.uptime.daily)

\* The method reads the list of the screen as well (users/mod.ts, line 64).
ShouldBlockInternet(user) ==
  \E c \in ScreenConditionals(user) : IsActive(c, Now, wall, data2.uptime.daily)

RegulationSpec == ProgramSpec

-----------------------------------------------------------------------------
(* Correctness.                                                             *)

\* A user who was told that his countdown conditional on the screen is saved is
\* kept from the screen, whenever the program runs, until that time has passed in
\* real time: through crashes, lost saves of the clocks and of the data, and the
\* requests of others, as long as the wall clock is not set back.
SettledCountdownBlocks ==
  (status = "up" /\ backSteps = 0) =>
    \A kept \in settled : \A c \in kept.conditionals :
      (c.location.list = "screen" /\ c.demand.tag = "Countdown")
        => \/ ShouldBlockScreen(c.location.user)
           \/ wall > origin + c.lifetime.from + c.lifetime.duration

\* An allowance leaves its user at least that much of the day: it blocks only when
\* more than the allowance had passed of the day of the last synchronisation,
\* however often the uptime was restored from a file and counted on.
AllowanceIsLeft ==
  (status = "up" /\ backSteps = 0) =>
    \A c \in data1.conditionals :
      (c.demand.tag = "UptimeAllowance" /\ IsActive(c, Now, wall, data2.uptime.daily))
        => data2.uptime.prev - DateOf(data2.uptime.prev) > c.demand.allowance
=============================================================================
