---------------------------- MODULE AndroidRules -----------------------------
(***************************************************************************)
(* The Android application in Kotlin, discipline_kt: the monotonic clock,  *)
(* the countdowns read against it, the two kinds of conditionals and the   *)
(* enablers that switch a rule on.  The operations that find a conditional *)
(* by its location are unfinished (state/N.kt, lines 317-333), so an       *)
(* action here is the part of an operation that follows the lookup.        *)
(***************************************************************************)
EXTENDS Integers

CONSTANTS
  CountdownRules,       \* rules whose enabler is a CountdownConditional
  PleaRules,            \* rules whose enabler is a CountdownAfterPleaConditional
  RuleDuration,         \* of each rule: how long its countdowns last
  MaximumMilliseconds,  \* Duration.MAXIMUM_MILLISECONDS, where addition saturates
  Readings              \* the Instants the clock may be synchronised with

Durations == 0..MaximumMilliseconds
Rules     == CountdownRules \union PleaRules

ASSUME AndroidRulesAssumption ==
  /\ MaximumMilliseconds \in Nat
  /\ CountdownRules \intersect PleaRules = {}
  /\ RuleDuration \in [Rules -> Durations]
  /\ Readings \subseteq Durations

VARIABLES
  elapsedTime,                  \* MonotonicClock.elapsedTime
  previousSynchronizationTime,  \* MonotonicClock.previousSynchronizationTime
  countdown                     \* of each rule's conditional: NoCountdown or a Countdown

vars == <<elapsedTime, previousSynchronizationTime, countdown>>

-----------------------------------------------------------------------------
(* Duration, Instant and Countdown.                                         *)

SaturatingSub(a, b) == IF a > b THEN a - b ELSE 0
SaturatingAdd(a, b) == IF a >= MaximumMilliseconds - b THEN MaximumMilliseconds ELSE a + b

\* Both methods of Instant subtract in the order opposite to their comments.
TillOrZero(this, other)  == SaturatingSub(this, other)
SinceOrZero(this, other) == SaturatingSub(other, this)

Countdown   == [from : Durations, duration : Durations]
NoCountdown == [from |-> -1, duration |-> 0]

GetTill(c) == SaturatingAdd(c.from, c.duration)

ElapsedTimeOrZero(c, now) ==
  IF SinceOrZero(now, c.from) < c.duration THEN SinceOrZero(now, c.from) ELSE c.duration

GetStatus(c, now) ==
  IF now < c.from THEN "Pending"
  ELSE IF ElapsedTimeOrZero(c, now) <= c.duration THEN "Running"
  ELSE "Finished"

Started(rule, now) == [from |-> now, duration |-> RuleDuration[rule]]

-----------------------------------------------------------------------------
(* The conditionals and the enablers.                                       *)

GetNow == elapsedTime

CountdownIsActive(c, now) == c # NoCountdown /\ GetStatus(c, now) = "Running"

PleaState(c, now) ==
  IF c = NoCountdown \/ GetStatus(c, now) = "Pending" THEN "Active"
  ELSE IF GetStatus(c, now) = "Running" THEN "Deactivating"
  ELSE "Deactivated"

\* Mutant: a plea takes effect at once.
IsActiveWithoutPlea(c, now) == PleaState(c, now) = "Active"

IsActiveOrDeactivating(c, now) == PleaState(c, now) \in {"Active", "Deactivating"}

\* RuleEnabler.isActive, which every kind of rule asks in isEnabled.
IsEnabled(rule, now) ==
  \/ rule \in CountdownRules /\ CountdownIsActive(countdown[rule], now)
  \/ rule \in PleaRules /\ IsActiveOrDeactivating(countdown[rule], now)

-----------------------------------------------------------------------------
(* The clock and the operations.                                            *)

Init ==
  /\ elapsedTime = 0
  /\ previousSynchronizationTime = 0
  /\ countdown = [rule \in Rules |-> NoCountdown]

\* Mutant: the reading is taken for the time that was counted.
SynchronizeTo(now) ==
  /\ elapsedTime' = now
  /\ previousSynchronizationTime' = now
  /\ UNCHANGED countdown

\* MonotonicClock.synchronize, with a reading that may be earlier than the last
\* one: an Instant is the uptime of the device or a time since the epoch, and the
\* first starts again when the device does.
Synchronize(now) ==
  /\ elapsedTime' = SaturatingAdd(elapsedTime, TillOrZero(previousSynchronizationTime, now))
  /\ previousSynchronizationTime' = now
  /\ UNCHANGED countdown

\* CountdownConditional: createReactivateState, then reactivateFromState.
ReactivateCountdown(rule) ==
  /\ countdown' = [countdown EXCEPT ![rule] = Started(rule, GetNow)]
  /\ UNCHANGED <<elapsedTime, previousSynchronizationTime>>

ReactivatePlea(rule) ==
  /\ countdown' = [countdown EXCEPT ![rule] = NoCountdown]
  /\ UNCHANGED <<elapsedTime, previousSynchronizationTime>>

\* CountdownAfterPleaConditional: createReDeactivateState, then
\* reDeactivateFromState.
ReDeactivatePlea(rule) ==
  /\ countdown' = [countdown EXCEPT ![rule] = Started(rule, GetNow)]
  /\ UNCHANGED <<elapsedTime, previousSynchronizationTime>>

Next ==
  \/ \E now \in Readings : Synchronize(now)
  \/ \E rule \in CountdownRules : ReactivateCountdown(rule)
  \/ \E rule \in PleaRules : ReactivatePlea(rule) \/ ReDeactivatePlea(rule)

Spec == Init /\ [][Next]_vars

-----------------------------------------------------------------------------
(* Correctness.                                                             *)

\* The clock and every countdown stay within what a Duration can hold.
AndroidTypeOK ==
  /\ elapsedTime \in Durations
  /\ previousSynchronizationTime \in Durations
  /\ countdown \in [Rules -> Countdown \union {NoCountdown}]

\* The clock is monotonic, whatever it is synchronised with: a device that starts
\* again does not set the countdowns of its rules back.
ClockOnlyMovesForward == [][elapsedTime' >= elapsedTime]_vars

\* A rule that is enabled stays enabled until its countdown is over on the clock:
\* neither a plea, nor a plea repeated or taken back, nor a clock synchronised
\* with an earlier reading switches it off before.  A rule that waits for a plea
\* has no countdown and stays enabled until one is made.
EnabledUntilTheEnd ==
  [][\A rule \in Rules :
       IsEnabled(rule, GetNow)
         /\ (countdown'[rule] = NoCountdown \/ GetNow' <= GetTill(countdown'[rule]))
       => IsEnabled(rule, GetNow)']_vars
=============================================================================
