---------------------------- MODULE ClocksProofs -----------------------------
(***************************************************************************)
(* The invariants of Clocks, for every interval, day length, saturation    *)
(* point and bound.                                                        *)
(***************************************************************************)
EXTENDS Clocks, TLAPS

\* Every Data2 a launch could restore or the program is using.
Snapshots ==
  disk2 \union saves2 \union (IF status = "down" THEN {} ELSE {data2})

\* What a clock created at the origin reads at wall time t.
TrueElapsed(t) == Shortest(t - origin, MaxMilliseconds)

\* Nothing is restored, given out or in flight before the file exists.
FileExists ==
  disk2 = {} => status = "down" /\ saves2 = {} /\ highest = 0

\* A snapshot taken at wall time p reads what the clock should read at p.
Accurate(d) ==
  /\ d.mono.prev \in origin..wall
  /\ d.mono.elapsed = TrueElapsed(d.mono.prev)
  /\ d.uptime.prev <= wall
  /\ d.uptime.daily <= d.uptime.prev - DateOf(d.uptime.prev)

\* While the wall clock was never set back, the snapshots are accurate, no
\* Instant was given out early, and the timer never runs ahead of the clock.
ForwardInv ==
  backSteps = 0 =>
    /\ origin <= wall
    /\ highest <= TrueElapsed(wall)
    /\ \A d \in Snapshots : Accurate(d)
    /\ status = "up" => /\ data2.mono.elapsed >= highest
                        /\ data2.uptime.prev + armed <= wall

ClocksIInv ==
  /\ ClocksTypeOK
  /\ didSync => status = "up"
  /\ FileExists
  /\ ForwardInv

-----------------------------------------------------------------------------

\* Saturating addition stays in the range of a Duration.
LEMMA PlusOrMaxIsDuration ==
  ASSUME NEW a \in Durations, NEW b \in Nat
  PROVE  PlusOrMax(a, b) \in Durations /\ PlusOrMax(a, b) >= a
  BY ChronicAssumption DEF PlusOrMax, Durations

\* A date is a midnight no later than the time it was taken from.
LEMMA DateIsPast ==
  ASSUME NEW t \in Nat
  PROVE  DateOf(t) \in Int /\ DateOf(t) <= t
  <1>1. t % MsPerDay \in 0..(MsPerDay - 1)
    BY ChronicAssumption
  <1>2. QED
    BY <1>1, ChronicAssumption DEF DateOf

\* The differences and the longer of two durations are naturals.
LEMMA DifferencesAreNat ==
  ASSUME NEW a \in Nat, NEW b \in Nat
  PROVE  TillOrZero(a, b) \in Nat /\ Longest(a, b) \in Nat /\ Shortest(a, b) \in Nat
  BY DEF TillOrZero, Longest, Shortest

\* A synchronisation yields clocks of the right type.
LEMMA SynchronizedType ==
  ASSUME NEW d \in Data2, NEW now \in Nat, NEW did \in BOOLEAN
  PROVE  /\ SynchronizeMonotonic(d.mono, now) \in MonotonicClock
         /\ SynchronizeUptime(d.uptime, now, did) \in UptimeClock
  <1>1. d.mono.elapsed \in Durations /\ d.mono.prev \in Nat
        /\ d.uptime.daily \in Durations /\ d.uptime.prev \in Nat
    BY DEF Data2, MonotonicClock, UptimeClock
  <1>2. SynchronizeMonotonic(d.mono, now) \in MonotonicClock
    BY <1>1, DifferencesAreNat, PlusOrMaxIsDuration
    DEF SynchronizeMonotonic, MonotonicClock
  <1>3. TillOrZero(d.uptime.prev, now) \in Nat
        /\ Longest(TillOrZero(d.uptime.prev, now), Interval) \in Nat
    BY <1>1, DifferencesAreNat, ClocksAssumption
  <1>4. PlusOrMax(d.uptime.daily, Longest(TillOrZero(d.uptime.prev, now), Interval)) \in Durations
    BY <1>1, <1>3, PlusOrMaxIsDuration
  <1>5. 0 \in Durations
    BY ChronicAssumption DEF Durations
  <1>6. [daily |-> d.uptime.daily, prev |-> now] \in UptimeClock
    BY <1>1 DEF Data2, UptimeClock
  <1>7. SynchronizeUptime(d.uptime, now, did) \in UptimeClock
    BY <1>4, <1>5, <1>6 DEF SynchronizeUptime, UptimeClock
  <1>8. QED
    BY <1>2, <1>7

\* New clocks have the right type.
LEMMA DefaultType ==
  ASSUME NEW now \in Nat
  PROVE  DefaultData2(now) \in Data2
  BY ChronicAssumption
  DEF DefaultData2, Data2, MonotonicClock, UptimeClock, Durations

-----------------------------------------------------------------------------
(* One synchronisation of an accurate snapshot.                             *)

\* Adding the time that passed to an accurate reading gives an accurate reading,
\* saturated or not.
LEMMA SynchronizedElapsed ==
  ASSUME NEW o \in Nat, NEW p \in Nat, NEW w \in Nat, o <= p, p <= w
  PROVE  PlusOrMax(Shortest(p - o, MaxMilliseconds), TillOrZero(p, w))
           = Shortest(w - o, MaxMilliseconds)
  BY ChronicAssumption DEF PlusOrMax, Shortest, TillOrZero

\* A synchronisation that comes first after a launch, or no sooner than Interval
\* after the last one, leaves the daily uptime within the day.
LEMMA SynchronizedUptime ==
  ASSUME NEW u \in UptimeClock, NEW w \in Nat, NEW did \in BOOLEAN,
         u.daily <= u.prev - DateOf(u.prev), u.prev <= w,
         did => u.prev + Interval <= w
  PROVE  LET n == SynchronizeUptime(u, w, did)
         IN  n.prev = w /\ n.daily <= w - DateOf(w)
  <1>. DEFINE n == SynchronizeUptime(u, w, did)
              step == Longest(TillOrZero(u.prev, w), Interval)
  <1>1. u.daily \in Nat /\ u.prev \in Nat /\ Interval \in Nat /\ MaxMilliseconds \in Nat
    BY ChronicAssumption, ClocksAssumption DEF UptimeClock, Durations
  <1>2. DateOf(w) \in Int /\ DateOf(w) <= w /\ DateOf(u.prev) \in Int
    BY <1>1, DateIsPast
  <1>3. CASE DateOf(w) > DateOf(u.prev)
    <2>1. n = [daily |-> 0, prev |-> w]
      BY <1>3 DEF SynchronizeUptime
    <2>2. QED
      BY <2>1, <1>2
  <1>4. CASE ~(DateOf(w) > DateOf(u.prev)) /\ ~did
    <2>1. n = [daily |-> u.daily, prev |-> w]
      BY <1>4 DEF SynchronizeUptime
    <2>2. QED
      BY <2>1, <1>1, <1>2, <1>4
  <1>5. CASE ~(DateOf(w) > DateOf(u.prev)) /\ did
    <2>1. n = [daily |-> PlusOrMax(u.daily, step), prev |-> w]
      BY <1>5 DEF SynchronizeUptime
    <2>2. step = w - u.prev
      BY <1>1, <1>5 DEF Longest, TillOrZero
    <2>3. PlusOrMax(u.daily, step) <= u.daily + (w - u.prev)
      BY <2>2, <1>1 DEF PlusOrMax
    <2>4. PlusOrMax(u.daily, step) \in Nat
      BY <2>2, <1>1 DEF PlusOrMax
    <2>5. QED
      BY <2>1, <2>3, <2>4, <1>1, <1>2, <1>5
  <1>6. QED
    BY <1>3, <1>4, <1>5

\* Both clocks of a snapshot, synchronised.
LEMMA SynchronizedAccurate ==
  ASSUME ClocksTypeOK, origin <= wall, Accurate(data2),
         didSync => data2.uptime.prev + Interval <= wall
  PROVE  /\ SynchronizedData2.mono.elapsed = TrueElapsed(wall)
         /\ SynchronizedData2.mono.prev = wall
         /\ SynchronizedData2.uptime.prev = wall
         /\ SynchronizedData2.uptime.daily <= wall - DateOf(wall)
  <1>1. wall \in Nat /\ origin \in Nat /\ didSync \in BOOLEAN /\ MaxWall \in Nat
    BY ClocksAssumption DEF ClocksTypeOK
  <1>2. data2.mono.prev \in Nat /\ data2.uptime \in UptimeClock
    BY DEF ClocksTypeOK, Data2, MonotonicClock
  <1>3. origin <= data2.mono.prev /\ data2.mono.prev <= wall
        /\ data2.mono.elapsed = TrueElapsed(data2.mono.prev)
    BY <1>1 DEF Accurate
  <1>4. PlusOrMax(data2.mono.elapsed, TillOrZero(data2.mono.prev, wall)) = TrueElapsed(wall)
    BY <1>1, <1>2, <1>3, SynchronizedElapsed DEF TrueElapsed
  <1>5. /\ SynchronizedData2.mono.elapsed = TrueElapsed(wall)
        /\ SynchronizedData2.mono.prev = wall
    BY <1>4 DEF SynchronizedData2, SynchronizeMonotonic
  <1>6. LET n == SynchronizeUptime(data2.uptime, wall, didSync)
        IN  n.prev = wall /\ n.daily <= wall - DateOf(wall)
    BY <1>1, <1>2, SynchronizedUptime DEF Accurate
  <1>7. QED
    BY <1>5, <1>6 DEF SynchronizedData2

-----------------------------------------------------------------------------
(* The inductive invariant.                                                 *)

LEMMA InitClocks == ClocksInit => ClocksIInv
  <1>. SUFFICES ASSUME ClocksInit PROVE ClocksIInv
    OBVIOUS
  <1>1. ClocksTypeOK
    <2>1. data2 \in Data2 /\ didSync \in BOOLEAN
      BY DefaultType DEF ClocksInit
    <2>2. wall \in 0..MaxWall /\ armed \in 0..Interval /\ backSteps \in 0..MaxBackSteps
          /\ origin \in Nat /\ highest \in Durations
      BY ChronicAssumption, ClocksAssumption DEF ClocksInit, Durations
    <2>3. QED
      BY <2>1, <2>2 DEF ClocksInit, ClocksTypeOK
  <1>2. FileExists /\ (didSync => status = "up")
    BY DEF ClocksInit, FileExists
  <1>3. ForwardInv
    BY ChronicAssumption, ClocksAssumption
    DEF ClocksInit, ForwardInv, Snapshots, TrueElapsed, Shortest
  <1>4. QED
    BY <1>1, <1>2, <1>3 DEF ClocksIInv

\* The synchronised clocks are a Data2.
LEMMA SynchronizedData2Type ==
  ASSUME ClocksTypeOK
  PROVE  SynchronizedData2 \in Data2
  <1>1. wall \in Nat /\ didSync \in BOOLEAN /\ data2 \in Data2
    BY ClocksAssumption DEF ClocksTypeOK
  <1>2. /\ SynchronizeMonotonic(data2.mono, wall) \in MonotonicClock
        /\ SynchronizeUptime(data2.uptime, wall, didSync) \in UptimeClock
    BY <1>1, SynchronizedType
  <1>3. QED
    BY <1>2 DEF SynchronizedData2, Data2

\* Every action keeps the types.
LEMMA TypeStep == ClocksTypeOK /\ [ClocksNext]_clockVars => ClocksTypeOK'
  <1>. SUFFICES ASSUME ClocksTypeOK, [ClocksNext]_clockVars
                PROVE  ClocksTypeOK'
    OBVIOUS
  <1>. USE DEF ClocksTypeOK
  <1>1. CASE Tick
    BY <1>1, ClocksAssumption DEF Tick, Shortest
  <1>2. CASE \E t \in 0..MaxWall : SetWall(t)
    BY <1>2, ClocksAssumption DEF SetWall
  <1>3. CASE LaunchFirst
    <2>1. wall \in Nat
      BY ClocksAssumption
    <2>2. DefaultData2(wall) \in Data2
      BY <2>1, DefaultType
    <2>3. QED
      BY <1>3, <2>1, <2>2 DEF LaunchFirst
  <1>4. CASE LaunchAgain
    BY <1>4 DEF LaunchAgain
  <1>5. CASE StartLoop \/ TimerFires
    <2>1. SynchronizedData2 \in Data2
      BY SynchronizedData2Type
    <2>2. SynchronizedData2.mono.elapsed \in Durations
      BY <2>1 DEF Data2, MonotonicClock
    <2>3. highest' \in Durations
      BY <1>5, <2>2 DEF StartLoop, TimerFires, Synchronize, Longest
    <2>4. data2' \in Data2 /\ saves2' \subseteq Data2 /\ didSync' \in BOOLEAN
      BY <1>5, <2>1 DEF StartLoop, TimerFires, Synchronize
    <2>5. armed' \in 0..Interval /\ status' \in {"down", "launching", "up"}
      BY <1>5, ClocksAssumption DEF StartLoop, TimerFires, Synchronize
    <2>6. UNCHANGED <<wall, backSteps, disk2, origin>>
      BY <1>5 DEF StartLoop, TimerFires, Synchronize
    <2>7. QED
      BY <2>3, <2>4, <2>5, <2>6
  <1>6. CASE \E saved \in saves2 : SaveData2Ends(saved)
    BY <1>6 DEF SaveData2Ends
  <1>7. CASE CrashClocks
    <2>1. DefaultData2(0) \in Data2
      BY DefaultType
    <2>2. data2' \in Data2 /\ didSync' \in BOOLEAN /\ saves2' \subseteq Data2
      BY <1>7, <2>1 DEF CrashClocks
    <2>3. armed' \in 0..Interval /\ status' \in {"down", "launching", "up"}
      BY <1>7, ClocksAssumption DEF CrashClocks
    <2>4. UNCHANGED <<wall, backSteps, disk2, origin, highest>>
      BY <1>7 DEF CrashClocks
    <2>5. QED
      BY <2>2, <2>3, <2>4
  <1>8. CASE UNCHANGED clockVars
    BY <1>8 DEF clockVars
  <1>9. QED
    BY <1>1, <1>2, <1>3, <1>4, <1>5, <1>6, <1>7, <1>8 DEF ClocksNext

\* Nothing survives that the file does not explain.
LEMMA FileStep ==
  FileExists /\ (didSync => status = "up") /\ [ClocksNext]_clockVars
    => FileExists' /\ (didSync => status = "up")'
  BY DEF FileExists, ClocksNext, clockVars, Tick, SetWall, LaunchFirst,
         LaunchAgain, StartLoop, TimerFires, Synchronize, SaveData2Ends, CrashClocks

\* A wall clock set back once stays counted.
LEMMA BackStepsStep ==
  ClocksTypeOK /\ [ClocksNext]_clockVars /\ backSteps' = 0
    => backSteps = 0 /\ wall <= wall'
  <1>. SUFFICES ASSUME ClocksTypeOK, [ClocksNext]_clockVars, backSteps' = 0
                PROVE  backSteps = 0 /\ wall <= wall'
    OBVIOUS
  <1>1. wall \in Nat /\ backSteps \in Nat
    BY ClocksAssumption DEF ClocksTypeOK
  <1>2. CASE \E t \in 0..MaxWall : SetWall(t)
    BY <1>1, <1>2, ClocksAssumption DEF SetWall
  <1>3. CASE ~(\E t \in 0..MaxWall : SetWall(t))
    BY <1>1, <1>3 DEF ClocksNext, clockVars, Tick, LaunchFirst, LaunchAgain,
       StartLoop, TimerFires, Synchronize, SaveData2Ends, CrashClocks
  <1>4. QED
    BY <1>2, <1>3

\* An accurate snapshot stays accurate while the wall clock moves on.
LEMMA AccurateLater ==
  ASSUME ClocksTypeOK, wall' \in Nat, wall <= wall', origin' = origin,
         NEW d \in Data2, Accurate(d)
  PROVE  Accurate(d)'
  <1>1. wall \in Nat /\ origin \in Nat /\ d.mono.prev \in Nat /\ d.uptime.prev \in Nat
    BY ClocksAssumption DEF ClocksTypeOK, Data2, MonotonicClock, UptimeClock
  <1>2. QED
    BY <1>1 DEF Accurate, TrueElapsed

\* What a clock should read never decreases.
LEMMA TrueElapsedGrows ==
  ASSUME NEW s \in Nat, NEW t \in Nat, origin \in Nat, s <= t
  PROVE  TrueElapsed(s) \in Int /\ TrueElapsed(t) \in Int /\ TrueElapsed(s) <= TrueElapsed(t)
  <1>1. s - origin \in Int /\ t - origin \in Int /\ s - origin <= t - origin
        /\ MaxMilliseconds \in Int
    BY ChronicAssumption
  <1>2. Shortest(s - origin, MaxMilliseconds) \in Int
    BY <1>1 DEF Shortest
  <1>3. Shortest(t - origin, MaxMilliseconds) \in Int
    BY <1>1 DEF Shortest
  <1>4. Shortest(s - origin, MaxMilliseconds) <= Shortest(t - origin, MaxMilliseconds)
    BY <1>1 DEF Shortest
  <1>5. QED
    BY <1>2, <1>3, <1>4 DEF TrueElapsed

LEMMA ForwardStep == ClocksIInv /\ [ClocksNext]_clockVars => ForwardInv'
  <1>. SUFFICES ASSUME ClocksIInv, [ClocksNext]_clockVars, backSteps' = 0
                PROVE  /\ origin' <= wall'
                       /\ highest' <= TrueElapsed(wall)'
                       /\ \A d \in Snapshots' : Accurate(d)'
                       /\ status' = "up" => /\ data2'.mono.elapsed >= highest'
                                            /\ data2'.uptime.prev + armed' <= wall'
    BY DEF ForwardInv
  <1>1. ClocksTypeOK /\ ClocksTypeOK'
    BY TypeStep DEF ClocksIInv
  <1>2. backSteps = 0 /\ wall <= wall'
    BY <1>1, BackStepsStep
  <1>3. /\ wall \in Nat /\ wall' \in Nat /\ origin \in Nat /\ armed \in Nat
        /\ armed' \in Nat /\ highest \in Nat /\ data2 \in Data2 /\ saves2 \subseteq Data2
        /\ disk2 \subseteq Data2 /\ data2' \in Data2
    BY <1>1, ClocksAssumption, ChronicAssumption DEF ClocksTypeOK, Durations
  <1>4. /\ origin <= wall
        /\ highest <= TrueElapsed(wall)
        /\ \A d \in Snapshots : Accurate(d)
        /\ status = "up" => /\ data2.mono.elapsed >= highest
                            /\ data2.uptime.prev + armed <= wall
    BY <1>2 DEF ClocksIInv, ForwardInv
  <1>5. Snapshots \subseteq Data2
    BY <1>3 DEF Snapshots
  <1>6. data2.uptime.prev \in Nat /\ data2.mono.elapsed \in Nat
    BY <1>3, ChronicAssumption DEF Data2, UptimeClock, MonotonicClock, Durations
  <1>7. ASSUME UNCHANGED <<origin, highest>>
        PROVE  /\ origin' <= wall'
               /\ highest' <= TrueElapsed(wall)'
               /\ \A d \in Snapshots : Accurate(d)'
    <2>1. \A d \in Snapshots : Accurate(d)'
      BY <1>1, <1>2, <1>3, <1>4, <1>5, <1>7, AccurateLater
    <2>2. /\ TrueElapsed(wall) \in Int /\ TrueElapsed(wall') \in Int
          /\ TrueElapsed(wall) <= TrueElapsed(wall')
      BY <1>2, <1>3, TrueElapsedGrows
    <2>3. TrueElapsed(wall)' = TrueElapsed(wall')
      BY <1>7 DEF TrueElapsed
    <2>4. QED
      BY <1>2, <1>3, <1>4, <1>7, <2>1, <2>2, <2>3
  <1>8. CASE Tick
    <2>1. armed' <= armed + 1 /\ wall' = wall + 1
      BY <1>3, <1>8, <1>1, ClocksAssumption DEF Tick, Shortest, ClocksTypeOK
    <2>2. Snapshots' = Snapshots
      BY <1>8 DEF Tick, Snapshots
    <2>3. QED
      BY <1>3, <1>4, <1>6, <1>7, <1>8, <2>1, <2>2 DEF Tick
  <1>9. CASE \E t \in 0..MaxWall : SetWall(t)
    <2>1. Snapshots' = Snapshots
      BY <1>9 DEF SetWall, Snapshots
    <2>2. QED
      BY <1>2, <1>3, <1>4, <1>6, <1>7, <1>9, <2>1 DEF SetWall
  <1>10. CASE LaunchFirst
    <2>1. Accurate(DefaultData2(wall))'
      <3>. DEFINE d == DefaultData2(wall)
      <3>1. /\ d.mono.prev = wall /\ d.mono.elapsed = 0
            /\ d.uptime.prev = wall /\ d.uptime.daily = 0
        BY DEF DefaultData2
      <3>2. wall' = wall /\ origin' = wall
        BY <1>10 DEF LaunchFirst
      <3>3. TrueElapsed(wall)' = 0
        BY <1>3, <3>2, ChronicAssumption DEF TrueElapsed, Shortest
      <3>4. DateOf(wall) \in Int /\ DateOf(wall) <= wall
        BY <1>3, DateIsPast
      <3>5. d' = d /\ DateOf(wall)' = DateOf(wall)
        BY <3>2 DEF DefaultData2, DateOf
      <3>. HIDE DEF d
      <3>6. Accurate(d)'
        BY <1>3, <3>1, <3>2, <3>3, <3>4, <3>5 DEF Accurate, TrueElapsed
      <3>7. QED
        BY <3>6 DEF d
    <2>2. Snapshots' = {DefaultData2(wall)}
      BY <1>10 DEF LaunchFirst, Snapshots, ClocksIInv, FileExists
    <2>3. DefaultData2(wall)' = DefaultData2(wall)
      BY <1>10 DEF LaunchFirst, DefaultData2
    <2>4. highest' = 0 /\ origin' = wall /\ wall' = wall /\ status' # "up"
      BY <1>10 DEF LaunchFirst, ClocksIInv, FileExists
    <2>5. highest' <= TrueElapsed(wall)'
      BY <1>3, <2>4, ChronicAssumption DEF TrueElapsed, Shortest
    <2>6. QED
      BY <1>3, <2>1, <2>2, <2>3, <2>4, <2>5
  <1>11. CASE LaunchAgain
    <2>1. Snapshots' \subseteq Snapshots
      BY <1>11 DEF LaunchAgain, Snapshots
    <2>2. QED
      BY <1>7, <1>11, <2>1 DEF LaunchAgain
  <1>12. CASE StartLoop \/ TimerFires
    <2>1. status # "down" /\ Accurate(data2)
      BY <1>4, <1>12 DEF StartLoop, TimerFires, Snapshots
    <2>2. didSync => data2.uptime.prev + Interval <= wall
      BY <1>4, <1>12 DEF StartLoop, TimerFires, ClocksIInv
    <2>3. /\ SynchronizedData2.mono.elapsed = TrueElapsed(wall)
          /\ SynchronizedData2.mono.prev = wall
          /\ SynchronizedData2.uptime.prev = wall
          /\ SynchronizedData2.uptime.daily <= wall - DateOf(wall)
      BY <1>1, <1>4, <2>1, <2>2, SynchronizedAccurate
    <2>4. /\ UNCHANGED <<wall, origin, disk2>> /\ data2' = SynchronizedData2
          /\ saves2' = saves2 \union {SynchronizedData2} /\ armed' = 0
          /\ highest' = Longest(highest, SynchronizedData2.mono.elapsed)
      BY <1>12 DEF StartLoop, TimerFires, Synchronize
    <2>5. Accurate(SynchronizedData2)
      BY <1>3, <1>4, <2>3 DEF Accurate
    <2>6. Snapshots' \subseteq Snapshots \union {SynchronizedData2}
      BY <2>4 DEF Snapshots
    <2>7. \A d : Accurate(d)' <=> Accurate(d)
      BY <2>4 DEF Accurate, TrueElapsed
    <2>8. TrueElapsed(wall) \in Nat /\ TrueElapsed(wall)' = TrueElapsed(wall)
      BY <1>3, <1>4, <2>4, ChronicAssumption DEF TrueElapsed, Shortest
    <2>9. highest' = TrueElapsed(wall)
      BY <1>3, <1>4, <2>3, <2>4, <2>8 DEF Longest
    <2>10. QED
      BY <1>3, <1>4, <2>3, <2>4, <2>5, <2>6, <2>7, <2>8, <2>9
  <1>13. CASE \E saved \in saves2 : SaveData2Ends(saved)
    <2>1. Snapshots' \subseteq Snapshots
      BY <1>13 DEF SaveData2Ends, Snapshots
    <2>2. QED
      BY <1>4, <1>7, <1>13, <2>1 DEF SaveData2Ends
  <1>14. CASE CrashClocks
    <2>1. Snapshots' \subseteq Snapshots
      BY <1>14 DEF CrashClocks, Snapshots
    <2>2. QED
      BY <1>7, <1>14, <2>1 DEF CrashClocks
  <1>15. CASE UNCHANGED clockVars
    <2>1. Snapshots' = Snapshots
      BY <1>15 DEF clockVars, Snapshots
    <2>2. QED
      BY <1>4, <1>7, <1>15, <2>1 DEF clockVars
  <1>16. QED
    BY <1>8, <1>9, <1>10, <1>11, <1>12, <1>13, <1>14, <1>15 DEF ClocksNext

THEOREM ClocksInvariant == ClocksSpec => []ClocksIInv
  <1>1. ClocksIInv /\ [ClocksNext]_clockVars => ClocksIInv'
    BY TypeStep, FileStep, ForwardStep DEF ClocksIInv
  <1>2. QED
    BY <1>1, InitClocks, PTL DEF ClocksSpec

-----------------------------------------------------------------------------
(* The properties of Clocks.                                                *)

\* The variables of the clocks stay in their types.
THEOREM ClocksTypeCorrect == ClocksSpec => []ClocksTypeOK
  <1>1. ClocksIInv => ClocksTypeOK
    BY DEF ClocksIInv
  <1>2. QED
    BY <1>1, ClocksInvariant, PTL

\* While the wall clock is never set back, no Instant is ever read that is
\* earlier than one given out before, whatever crashes and lost saves lie between.
THEOREM MonotonicAcrossRestarts == ClocksSpec => []NeverGoesBack
  <1>1. ClocksIInv => NeverGoesBack
    BY DEF ClocksIInv, ForwardInv, NeverGoesBack
  <1>2. QED
    BY <1>1, ClocksInvariant, PTL

\* While the wall clock is never set back, the daily uptime stays within the day.
THEOREM UptimeBounded == ClocksSpec => []UptimeWithinDay
  <1>1. ClocksIInv => UptimeWithinDay
    BY DEF ClocksIInv, ForwardInv, UptimeWithinDay, Snapshots, Accurate
  <1>2. QED
    BY <1>1, ClocksInvariant, PTL

\* A running program never reads an earlier Instant, even if the clock is set back.
THEOREM MovesForward == ClocksSpec => ClockMovesForward
  <1>1. ClocksIInv /\ [ClocksNext]_clockVars
          => [(status = "up" /\ status' = "up")
                => data2'.mono.elapsed >= data2.mono.elapsed]_clockVars
    <2>. SUFFICES ASSUME ClocksIInv, ClocksNext, status = "up", status' = "up"
                  PROVE  data2'.mono.elapsed >= data2.mono.elapsed
      OBVIOUS
    <2>1. data2.mono.elapsed \in Durations /\ data2.mono.prev \in Nat /\ wall \in Nat
      BY ClocksAssumption DEF ClocksIInv, ClocksTypeOK, Data2, MonotonicClock
    <2>2. TillOrZero(data2.mono.prev, wall) \in Nat
      BY <2>1, DifferencesAreNat
    <2>3. PlusOrMax(data2.mono.elapsed, TillOrZero(data2.mono.prev, wall)) >= data2.mono.elapsed
      BY <2>1, <2>2, PlusOrMaxIsDuration
    <2>4. CASE TimerFires
      BY <2>3, <2>4 DEF TimerFires, Synchronize, SynchronizedData2, SynchronizeMonotonic
    <2>5. CASE ~TimerFires
      <3>1. data2' = data2
        BY <2>5 DEF ClocksNext, Tick, SetWall, LaunchFirst, LaunchAgain, StartLoop,
                    SaveData2Ends, CrashClocks
      <3>2. data2.mono.elapsed \in Int
        BY <2>1, ChronicAssumption DEF Durations
      <3>3. QED
        BY <3>1, <3>2
    <2>6. QED
      BY <2>4, <2>5
  <1>2. QED
    BY <1>1, ClocksInvariant, PTL DEF ClocksSpec, ClockMovesForward
=============================================================================
