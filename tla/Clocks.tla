------------------------------- MODULE Clocks --------------------------------
(***************************************************************************)
(* The two clocks of the primitive daemon (Data2 of program/program.ts):   *)
(* the MonotonicClock every countdown is measured against and the          *)
(* UptimeClock every allowance is measured against.  Both are advanced by  *)
(* the synchronisation loop from the wall clock, saved to data_2.json      *)
(* without being waited for, and restored from that file after a crash.    *)
(*                                                                         *)
(* data_2.json is a file that a save either replaces whole or leaves       *)
(* alone; module Storage says when the code provides that.                 *)
(***************************************************************************)
EXTENDS Chronic, FiniteSets

CONSTANTS
  Interval,        \* clockSynchronizationInterval
  MaxWall,         \* bound: the wall clock never reads more than this
  MaxBackSteps,    \* bound: how often the wall clock is set back
  MaxSaves         \* bound: saves of Data2 in flight at once

ASSUME ClocksAssumption ==
  /\ Interval \in Nat
  /\ MaxWall \in Nat
  /\ MaxBackSteps \in Nat
  /\ MaxSaves \in Nat \ {0}

VARIABLES
  wall,       \* what DateTime.now() returns
  armed,      \* real time since the loop's timer was set, counted up to Interval
  backSteps,  \* how often the wall clock was set back
  status,     \* the process: "down", "launching" or "up"
  data2,      \* Data2 in memory
  didSync,    \* didSynchronizeSinceSystemBoot
  saves2,     \* snapshots of Data2 being written
  disk2,      \* data_2.json: the empty set before it exists, else one snapshot
  origin,     \* history: the wall clock when the clocks were created
  highest     \* history: the latest Instant the monotonic clock ever gave out

clockVars == <<wall, armed, backSteps, status, data2, didSync, saves2, disk2,
               origin, highest>>

MonotonicClock == [elapsed : Durations, prev : Nat]
UptimeClock    == [daily : Durations, prev : Nat]
Data2          == [mono : MonotonicClock, uptime : UptimeClock]

ClocksTypeOK ==
  /\ wall \in 0..MaxWall
  /\ armed \in 0..Interval
  /\ backSteps \in 0..MaxBackSteps
  /\ status \in {"down", "launching", "up"}
  /\ data2 \in Data2
  /\ didSync \in BOOLEAN
  /\ saves2 \subseteq Data2
  /\ disk2 \subseteq Data2
  /\ origin \in Nat
  /\ highest \in Durations

-----------------------------------------------------------------------------
(* The clocks' own operations.                                              *)

\* Data2.default: MonotonicClock.create and UptimeClock.create.
DefaultData2(now) ==
  [mono   |-> [elapsed |-> 0, prev |-> now],
   uptime |-> [daily |-> 0, prev |-> now]]

\* Mutant: the signed difference, without the "or zero".
SynchronizeMonotonicSigned(clock, now) ==
  [elapsed |-> IF now < clock.prev
               THEN MinusOrZero(clock.elapsed, clock.prev - now)
               ELSE PlusOrMax(clock.elapsed, now - clock.prev),
   prev    |-> now]

\* Mutant: the sum is not capped at the longest Duration.
SynchronizeMonotonicUncapped(clock, now) ==
  [elapsed |-> clock.elapsed + TillOrZero(clock.prev, now),
   prev    |-> now]

SynchronizeMonotonic(clock, now) ==
  [elapsed |-> PlusOrMax(clock.elapsed, TillOrZero(clock.prev, now)),
   prev    |-> now]

\* Mutant: the first synchronisation after a boot counts like any other.
SynchronizeUptimeFromBoot(clock, now, didSynchronize) ==
  IF DateOf(now) > DateOf(clock.prev)
  THEN [daily |-> 0, prev |-> now]
  ELSE [daily |-> PlusOrMax(clock.daily,
                            Longest(TillOrZero(clock.prev, now), Interval)),
        prev  |-> now]

SynchronizeUptime(clock, now, didSynchronize) ==
  IF DateOf(now) > DateOf(clock.prev)
  THEN [daily |-> 0, prev |-> now]
  ELSE IF ~didSynchronize
  THEN [daily |-> clock.daily, prev |-> now]
  ELSE [daily |-> PlusOrMax(clock.daily,
                            Longest(TillOrZero(clock.prev, now), Interval)),
        prev  |-> now]

SynchronizedData2 ==
  [mono   |-> SynchronizeMonotonic(data2.mono, wall),
   uptime |-> SynchronizeUptime(data2.uptime, wall, didSync)]

-----------------------------------------------------------------------------
(* The environment: time, and a wall clock that may be set.                 *)

Tick ==
  /\ wall < MaxWall
  /\ wall' = wall + 1
  /\ armed' = Shortest(armed + 1, Interval)
  /\ UNCHANGED <<backSteps, status, data2, didSync, saves2, disk2, origin, highest>>

\* The wall clock is set, or the machine slept: no time passes for the timer.
SetWall(t) ==
  /\ t # wall
  /\ t < wall => backSteps < MaxBackSteps
  /\ wall' = t
  /\ backSteps' = IF t < wall THEN backSteps + 1 ELSE backSteps
  /\ UNCHANGED <<armed, status, data2, didSync, saves2, disk2, origin, highest>>

-----------------------------------------------------------------------------
(* The process.                                                             *)

ClocksInit ==
  /\ wall \in 0..MaxWall
  /\ armed = 0
  /\ backSteps = 0
  /\ status = "down"
  /\ data2 = DefaultData2(0)
  /\ didSync = FALSE
  /\ saves2 = {}
  /\ disk2 = {}
  /\ origin = wall
  /\ highest = 0

\* storage2.get when data_2.json does not exist: create the clocks and save
\* them.  A save that fails makes the launch fail and changes nothing.
LaunchFirst ==
  /\ status = "down"
  /\ disk2 = {}
  /\ status' = "launching"
  /\ data2' = DefaultData2(wall)
  /\ disk2' = {DefaultData2(wall)}
  /\ didSync' = FALSE
  /\ origin' = wall
  /\ UNCHANGED <<wall, armed, backSteps, saves2, highest>>

\* Mutant: the restored clock starts counting at the restart, as a new one does.
LaunchAgainRebased ==
  /\ status = "down"
  /\ \E saved \in disk2 : data2' = [saved EXCEPT !.mono.prev = wall]
  /\ status' = "launching"
  /\ didSync' = FALSE
  /\ UNCHANGED <<wall, armed, backSteps, saves2, disk2, origin, highest>>

\* storage2.get when data_2.json exists.
LaunchAgain ==
  /\ status = "down"
  /\ \E saved \in disk2 : data2' = saved
  /\ status' = "launching"
  /\ didSync' = FALSE
  /\ UNCHANGED <<wall, armed, backSteps, saves2, disk2, origin, highest>>

\* Program.synchronize up to its await, and the timer set after it.
Synchronize ==
  /\ Cardinality(saves2) < MaxSaves
  /\ data2' = SynchronizedData2
  /\ didSync' = TRUE
  /\ saves2' = saves2 \union {SynchronizedData2}
  /\ armed' = 0
  /\ highest' = Longest(highest, SynchronizedData2.mono.elapsed)
  /\ UNCHANGED <<wall, backSteps, disk2, origin>>

\* The end of Program.launch: startSynchronizationLoop runs the timer once.
StartLoop ==
  /\ status = "launching"
  /\ status' = "up"
  /\ Synchronize

TimerFires ==
  /\ status = "up"
  /\ armed = Interval
  /\ Synchronize
  /\ UNCHANGED status

\* saveData2 ends; a failure is only logged.  Saves end in any order.
SaveData2Ends(saved) ==
  /\ saved \in saves2
  /\ saves2' = saves2 \ {saved}
  /\ disk2' \in {{saved}, disk2}
  /\ UNCHANGED <<wall, armed, backSteps, status, data2, didSync, origin, highest>>

\* The process dies: memory and the saves in flight are lost.
CrashClocks ==
  /\ status # "down"
  /\ status' = "down"
  /\ data2' = DefaultData2(0)
  /\ didSync' = FALSE
  /\ saves2' = {}
  /\ armed' = 0
  /\ UNCHANGED <<wall, backSteps, disk2, origin, highest>>

ClocksNext ==
  \/ Tick
  \/ \E t \in 0..MaxWall : SetWall(t)
  \/ LaunchFirst
  \/ LaunchAgain
  \/ StartLoop
  \/ TimerFires
  \/ \E saved \in saves2 : SaveData2Ends(saved)
  \/ CrashClocks

ClocksSpec == ClocksInit /\ [][ClocksNext]_clockVars

-----------------------------------------------------------------------------
(* Correctness.                                                             *)

\* The monotonic clock is monotonic across crashes, restarts, failed saves and
\* saves that land out of order: as long as the wall clock was never set back,
\* a running program reads an Instant no earlier than any Instant it, or a
\* process before it, ever gave out.
NeverGoesBack ==
  (status = "up" /\ backSteps = 0) => data2.mono.elapsed >= highest

\* The daily uptime never exceeds the part of the day that has passed, whatever
\* the sequence of crashes, restarts and restored files, as long as the wall
\* clock was never set back.
UptimeWithinDay ==
  (status = "up" /\ backSteps = 0) =>
     data2.uptime.daily <= data2.uptime.prev - DateOf(data2.uptime.prev)

\* Whatever the wall clock does, a running program never reads an earlier
\* Instant than it did before: setting the wall clock back only stops time.
ClockMovesForward ==
  [][(status = "up" /\ status' = "up") => data2'.mono.elapsed >= data2.mono.elapsed]_clockVars
=============================================================================
