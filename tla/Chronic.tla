------------------------------- MODULE Chronic -------------------------------
(***************************************************************************)
(* The value types of discipline_daemon_primitive_ts/chronic: Duration,    *)
(* Instant, DateTime, Date, Countdown and TimeRange.  A Duration is a      *)
(* number of milliseconds, an Instant is the Duration the monotonic clock  *)
(* had counted, a DateTime is a timestamp; all of them are naturals here,  *)
(* and one unit of the model stands for whatever grain a configuration     *)
(* picks (MsPerDay units make a day).                                      *)
(***************************************************************************)
EXTENDS Integers

CONSTANTS
  MaxMilliseconds, \* Duration.MAXIMUM_MILLISECONDS, where addition saturates
  MsPerDay         \* Duration.MILLISECONDS_PER_DAY

ASSUME ChronicAssumption ==
  /\ MaxMilliseconds \in Nat
  /\ MsPerDay \in Nat \ {0}

Durations == 0..MaxMilliseconds

-----------------------------------------------------------------------------
(* Duration, Instant and DateTime arithmetic.  The three classes compute    *)
(* the same differences on the number they wrap.                            *)

MinusOrZero(a, b) == IF a > b THEN a - b ELSE 0
PlusOrMax(a, b)   == IF a + b <= MaxMilliseconds THEN a + b ELSE MaxMilliseconds
Shortest(a, b)    == IF a < b THEN a ELSE b
Longest(a, b)     == IF a > b THEN a ELSE b
TillOrZero(a, b)  == IF a < b THEN b - a ELSE 0
SinceOrZero(a, b) == IF a > b THEN a - b ELSE 0

\* DateTime.getDate: a Date is the timestamp of the day's midnight.
DateOf(t) == t - (t % MsPerDay)

-----------------------------------------------------------------------------
(* Countdown: it starts at an Instant and runs for a Duration.              *)

Countdown == [from : Durations, duration : Durations]

GetTill(c) == PlusOrMax(c.from, c.duration)

IsPending(c, now)  == now < c.from
IsRunning(c, now)  == ~IsPending(c, now) /\ TillOrZero(c.from, now) <= c.duration
IsFinished(c, now) == ~IsPending(c, now) /\ TillOrZero(c.from, now) > c.duration

ElapsedTimeOrZero(c, now)   == Shortest(SinceOrZero(now, c.from), c.duration)
RemainingTimeOrZero(c, now) == MinusOrZero(c.duration, ElapsedTimeOrZero(c, now))

ExtendByOrSetToMax(c, factor) ==
  [c EXCEPT !.duration = PlusOrMax(@, factor)]

-----------------------------------------------------------------------------
(* TimeRange: two timestamps within a day, the second one MsPerDay later     *)
(* when the range passes midnight.                                           *)

TimeOfDay(t) == t % MsPerDay
TimesOfDay   == 0..(MsPerDay - 1)

TimeRange == [from : TimesOfDay, till : 0..(2 * MsPerDay - 1)]

FromTimes(from, till) ==
  [from |-> from, till |-> IF from <= till THEN till ELSE till + MsPerDay]

ContainsTime(range, time) == range.from <= time /\ time <= range.till

\* getTill: a till after midnight is reduced by MAXIMUM_FROM_TIMESTAMP, which is
\* one less than the length of a day.
RangeTill(range) ==
  IF range.till <= MsPerDay - 1 THEN range.till ELSE range.till - (MsPerDay - 1)

\* What TimeRangeDeserialize makes of what TimeRangeSerialize wrote.
RangeReadBack(range) == FromTimes(range.from, RangeTill(range))
=============================================================================
