---------------------------- MODULE ProgramProofs ----------------------------
(***************************************************************************)
(* The invariants of Program, for every number of clients, conditionals,   *)
(* vaults and names, and for every limit.                                  *)
(***************************************************************************)
EXTENDS Program, ClocksProofs, FiniteSetTheorems

\* A Data1 within the limits.
Small(d) ==
  /\ IsFiniteSet(d.conditionals) /\ Cardinality(d.conditionals) <= MaxConditionals
  /\ IsFiniteSet(d.vaults) /\ Cardinality(d.vaults) <= MaxVaults

\* No two vaults of d share a name.
Unambiguous(d) == \A v, w \in d.vaults : v.name = w.name => v = w

\* No countdown of d starts later than at instant.
StartedBy(d, instant) == \A countdown \in Countdowns(d) : countdown.from <= instant

Sound(d) == Small(d) /\ Unambiguous(d) /\ StartedBy(d, highest)

ProgramIInv ==
  /\ ClocksIInv
  /\ ProgramTypeOK
  /\ status = "up" => Now <= highest
  /\ \A d \in Copies : Sound(d)
  /\ NoneIsDead

-----------------------------------------------------------------------------
(* The clocks of a Program are Clocks.                                       *)

LEMMA ClocksStep == [ProgramNext]_vars => [ClocksNext]_clockVars
  <1> SUFFICES ASSUME [ProgramNext]_vars PROVE [ClocksNext]_clockVars
    OBVIOUS
  <1>1. CASE Environment \/ CreateData1File \/ Launch \/ Start \/ Synchronization
             \/ ClockSaveEnds \/ Crash
    BY <1>1 DEF Environment, CreateData1File, Launch, Start, Synchronization,
                ClockSaveEnds, Crash, ClocksNext
  <1>2. ASSUME NEW c \in Clients, Request(c) \/ SaveData1Ends(c)
        PROVE  UNCHANGED clockVars
    BY <1>2 DEF Request, CreateCountdownConditional, CreateTimeRangeConditional,
       CreateUptimeAllowanceConditional, CreateVault, DeleteVault,
       ProlongVaultProtection, Handle, SaveData1Ends,
       SaveData1Succeeds, SaveData1Fails
  <1>3. CASE UNCHANGED vars
    BY <1>3 DEF vars
  <1>4. QED
    BY <1>1, <1>2, <1>3 DEF ProgramNext

\* The program runs its two clocks as the module Clocks says, so that what is
\* proved of them holds in the program (program.ts, launch and synchronize).
THEOREM ProgramRunsClocks == ProgramSpec => ClocksSpec
  <1>1. ProgramInit => ClocksInit
    BY DEF ProgramInit
  <1>2. QED
    BY <1>1, ClocksStep, PTL DEF ProgramSpec, ClocksSpec

-----------------------------------------------------------------------------
(* What one step makes of Data1.                                             *)

\* The changes the handlers make, to a Data1 old.
Requested(old, new) ==
  \/ \E location \in Locations, demand \in Demands, lifetime \in Durations :
       MayAddConditional(old) /\ new = WithConditional(old, location, demand, lifetime)
  \/ \E name \in Names, protection \in Durations :
       /\ MayAddVault(old, name)
       /\ new = [old EXCEPT !.vaults = @ \union
                  {[name |-> name, protection |-> [from |-> Now, duration |-> protection]]}]
  \/ \E vault \in old.vaults : new = [old EXCEPT !.vaults = @ \ {vault}]
  \/ \E vault \in old.vaults :
       new = [old EXCEPT !.vaults = (@ \ {vault}) \union
               {[vault EXCEPT !.protection = Prolonged(@, Now, FiveMinutes)]}]

\* A time range made from two times of day has its type.
LEMMA FromTimesType ==
  ASSUME NEW from \in TimesOfDay, NEW till \in 0..MsPerDay
  PROVE  FromTimes(from, till) \in TimeRange
  <1>1. from \in Nat /\ till \in Nat /\ from <= MsPerDay - 1 /\ till <= MsPerDay
        /\ MsPerDay \in Nat /\ MsPerDay >= 1
    BY ChronicAssumption DEF TimesOfDay
  <1>2. (IF from <= till THEN till ELSE till + MsPerDay) \in 0..(2 * MsPerDay - 1)
    BY <1>1
  <1>3. QED
    BY <1>2 DEF FromTimes, TimeRange

\* A handler adds one Data1 to those in use.
LEMMA HandleCopies ==
  ASSUME ProgramTypeOK, NEW c \in Clients, NEW d, Handle(c, d)
  PROVE  /\ status = "up" /\ UNCHANGED <<clockVars, disk1>> /\ data1' = d
         /\ Copies' \subseteq Copies \union {d}
         /\ d \in Data1 => inFlight' \in [Clients -> SUBSET Save]
  <1>1. /\ status = "up" /\ UNCHANGED <<clockVars, disk1>> /\ data1' = d
        /\ inFlight \in [Clients -> SUBSET Save]
    BY DEF Handle, ProgramTypeOK
  <1>2. PICK alone \in BOOLEAN :
          inFlight' = [o \in Clients |->
                         IF o = c THEN {[data |-> d, alone |-> alone]}
                         ELSE {[s EXCEPT !.alone = FALSE] : s \in inFlight[o]}]
    BY DEF Handle
  <1>3. ASSUME NEW o \in Clients, o # c, NEW t \in inFlight'[o]
        PROVE  t \in Save /\ \E s \in inFlight[o] : t.data = s.data
    <2>1. PICK s \in inFlight[o] : t = [s EXCEPT !.alone = FALSE]
      BY <1>2, <1>3
    <2>2. s \in Save
      BY <1>1
    <2>3. t.data = s.data /\ t \in Save
      BY <2>1, <2>2 DEF Save
    <2>4. QED
      BY <2>3
  <1>4. \A t \in inFlight'[c] : t = [data |-> d, alone |-> alone]
    BY <1>2
  <1>5. Copies' \subseteq Copies \union {d}
    <2>1. SUFFICES ASSUME NEW o \in Clients, NEW t \in inFlight'[o]
                   PROVE  t.data = d \/ \E s \in inFlight[o] : t.data = s.data
      BY <1>1 DEF Copies
    <2>2. QED
      BY <1>3, <1>4
  <1>6. ASSUME d \in Data1 PROVE inFlight' \in [Clients -> SUBSET Save]
    <2>1. [data |-> d, alone |-> alone] \in Save
      BY <1>6 DEF Save
    <2>2. \A o \in Clients : inFlight'[o] \subseteq Save
      BY <1>3, <1>4, <2>1
    <2>3. QED
      BY <1>2, <2>2
  <1>7. QED
    BY <1>1, <1>5, <1>6

\* Every request is one of the four changes.
LEMMA RequestIsRequested ==
  ASSUME ProgramTypeOK, NEW c \in Clients, Request(c)
  PROVE  /\ Handle(c, data1') /\ Requested(data1, data1')
         /\ \/ settled' = settled
            \/ \E name \in Names :
                 settled' = {[kept EXCEPT !.vaults = @ \ VaultsNamed(kept, name)] : kept \in settled}
  <1>1. /\ Spans \subseteq Durations /\ Times \subseteq TimesOfDay
    BY ProgramAssumption
  <1>2. ASSUME NEW l \in Locations, NEW span \in Spans, CreateCountdownConditional(c, l, span)
        PROVE  Handle(c, data1') /\ Requested(data1, data1') /\ settled' = settled
    <2>1. [tag |-> "Countdown"] \in Demands
      BY DEF Demands
    <2>2. QED
      BY <1>1, <1>2, <2>1 DEF CreateCountdownConditional, Handle, Requested
  <1>3. ASSUME NEW l \in Locations, NEW span \in Spans, NEW from \in Times, NEW till \in Times,
               CreateTimeRangeConditional(c, l, from, till, span)
        PROVE  Handle(c, data1') /\ Requested(data1, data1') /\ settled' = settled
    <2>1. from \in TimesOfDay /\ from \in 0..MsPerDay
      BY <1>1, ChronicAssumption DEF TimesOfDay
    <2>2. RequestedRange(from, till) \in TimeRange
      BY <2>1, FromTimesType DEF RequestedRange
    <2>3. [tag |-> "TimeRange", range |-> RequestedRange(from, till)] \in Demands
      BY <2>2 DEF Demands
    <2>4. QED
      BY <1>1, <1>3, <2>3 DEF CreateTimeRangeConditional, Handle, Requested
  <1>4. ASSUME NEW l \in Locations, NEW span \in Spans, NEW allowance \in Spans,
               CreateUptimeAllowanceConditional(c, l, allowance, span)
        PROVE  Handle(c, data1') /\ Requested(data1, data1') /\ settled' = settled
    <2>1. [tag |-> "UptimeAllowance", allowance |-> allowance] \in Demands
      BY <1>1 DEF Demands
    <2>2. QED
      BY <1>1, <1>4, <2>1 DEF CreateUptimeAllowanceConditional, Handle, Requested
  <1>5. ASSUME NEW name \in Names, NEW span \in Spans, CreateVault(c, name, span)
        PROVE  Handle(c, data1') /\ Requested(data1, data1') /\ settled' = settled
    BY <1>1, <1>5 DEF CreateVault, Handle, Requested
  <1>6. ASSUME NEW name \in Names, DeleteVault(c, name)
        PROVE  /\ Handle(c, data1') /\ Requested(data1, data1')
               /\ settled' = {[kept EXCEPT !.vaults = @ \ VaultsNamed(kept, name)] : kept \in settled}
    BY <1>6 DEF DeleteVault, Handle, Requested, VaultsNamed
  <1>7. ASSUME NEW name \in Names, ProlongVaultProtection(c, name)
        PROVE  Handle(c, data1') /\ Requested(data1, data1') /\ settled' = settled
    BY <1>7 DEF ProlongVaultProtection, Handle, Requested, VaultsNamed
  <1>8. QED
    BY <1>2, <1>3, <1>4, <1>5, <1>6, <1>7 DEF Request

-----------------------------------------------------------------------------
(* What the changes keep.                                                    *)

\* There is a number left for every new conditional.
LEMMA FreshNumberExists ==
  ASSUME NEW d, IsFiniteSet(d.conditionals)
  PROVE  FreshNumber(d) \in Nat
  <1> DEFINE used  == {c.n : c \in d.conditionals}
             bound == Cardinality(d.conditionals)
             f     == [c \in d.conditionals |-> c.n]
  <1>1. bound \in Nat
    BY FS_CardinalityType
  <1>2. f \in Surjection(d.conditionals, used)
    BY DEF Surjection
  <1>3. IsFiniteSet(used) /\ Cardinality(used) <= bound /\ Cardinality(used) \in Nat
    BY <1>2, FS_Surjection, FS_CardinalityType
  <1>4. Cardinality(0..bound) = bound + 1
    BY <1>1, FS_Interval
  <1>5. ~(0..bound \subseteq used)
    <2>1. SUFFICES ASSUME 0..bound \subseteq used PROVE FALSE
      OBVIOUS
    <2>2. Cardinality(0..bound) <= Cardinality(used)
      BY <1>3, <2>1, FS_Subset
    <2>3. QED
      BY <1>1, <1>3, <1>4, <2>2
  <1>6. \E n \in 0..bound : \A c \in d.conditionals : c.n # n
    BY <1>5
  <1>7. FreshNumber(d) \in 0..bound
    BY <1>6 DEF FreshNumber
  <1>8. QED
    BY <1>1, <1>7

\* The arithmetic of countdowns stays within the durations.
LEMMA CountdownArithmetic ==
  ASSUME NEW c \in Countdown, NEW now \in Durations, NEW factor \in Durations
  PROVE  /\ RemainingTimeOrZero(c, now) \in Durations
         /\ Prolonged(c, now, factor) \in Countdown
         /\ Prolonged(c, now, factor).from \in {c.from, now}
  <1> USE ChronicAssumption, ProgramAssumption DEF Durations
  <1>1. c.from \in Durations /\ c.duration \in Durations
        /\ c = [from |-> c.from, duration |-> c.duration]
    BY DEF Countdown
  <1>2. ElapsedTimeOrZero(c, now) \in Durations
    BY <1>1 DEF ElapsedTimeOrZero, Shortest, SinceOrZero
  <1>3. RemainingTimeOrZero(c, now) \in Durations
    BY <1>1, <1>2 DEF RemainingTimeOrZero, MinusOrZero
  <1>4. CASE IsFinished(c, now)
    <2>1. Prolonged(c, now, factor) = [from |-> now, duration |-> Shortest(MaxProtection, factor)]
      BY <1>4 DEF Prolonged
    <2>2. Shortest(MaxProtection, factor) \in Durations
      BY DEF Shortest
    <2>3. QED
      BY <1>3, <2>1, <2>2 DEF Countdown
  <1>5. CASE ~IsFinished(c, now)
    <2> DEFINE step == IF PlusOrMax(factor, RemainingTimeOrZero(c, now)) > MaxProtection
                       THEN MinusOrZero(MaxProtection, RemainingTimeOrZero(c, now)) ELSE factor
    <2>1. step \in Nat
      BY <1>3 DEF MinusOrZero
    <2>2. Prolonged(c, now, factor) = [c EXCEPT !.duration = PlusOrMax(@, step)]
      BY <1>5 DEF Prolonged, ExtendByOrSetToMax
    <2> HIDE DEF step
    <2>3. PlusOrMax(c.duration, step) \in Durations
      BY <1>1, <2>1, PlusOrMaxIsDuration
    <2>4. Prolonged(c, now, factor) = [from |-> c.from, duration |-> PlusOrMax(c.duration, step)]
      BY <1>1, <2>2
    <2>5. QED
      BY <1>1, <1>3, <2>3, <2>4 DEF Countdown
  <1>6. QED
    BY <1>4, <1>5

\* Reading a conditional back keeps its lifetime.
LEMMA ConditionalReadBackType ==
  ASSUME NEW c \in Conditional
  PROVE  ConditionalReadBack(c) \in Conditional /\ ConditionalReadBack(c).lifetime = c.lifetime
  <1>1. CASE c.demand.tag = "TimeRange"
    <2> DEFINE range == c.demand.range
    <2>1. range \in TimeRange /\ c.demand = [tag |-> "TimeRange", range |-> range]
      BY <1>1 DEF Conditional, Demands
    <2>2. range.from \in TimesOfDay /\ RangeTill(range) \in 0..MsPerDay
      BY <2>1, ChronicAssumption DEF TimeRange, TimesOfDay, RangeTill
    <2>3. RangeReadBack(range) \in TimeRange
      BY <2>2, FromTimesType DEF RangeReadBack
    <2>4. c = [n |-> c.n, location |-> c.location, demand |-> c.demand, lifetime |-> c.lifetime]
          /\ c.n \in Nat /\ c.location \in Locations /\ c.lifetime \in Countdown
      BY DEF Conditional
    <2>5. ConditionalReadBack(c) =
            [n |-> c.n, location |-> c.location, lifetime |-> c.lifetime,
             demand |-> [tag |-> "TimeRange", range |-> RangeReadBack(range)]]
      BY <1>1, <2>1, <2>4 DEF ConditionalReadBack
    <2>6. [tag |-> "TimeRange", range |-> RangeReadBack(range)] \in Demands
      BY <2>3 DEF Demands
    <2>7. QED
      BY <2>4, <2>5, <2>6 DEF Conditional
  <1>2. CASE c.demand.tag # "TimeRange"
    BY <1>2 DEF ConditionalReadBack
  <1>3. QED
    BY <1>1, <1>2

\* A Data1 read back from its file is as sound as the one written.
LEMMA ReadBackKeeps ==
  ASSUME NEW d \in Data1
  PROVE  ReadBack(d) \in Data1 /\ (Sound(d) => Sound(ReadBack(d)))
  <1> DEFINE back == {ConditionalReadBack(c) : c \in d.conditionals}
             f    == [c \in d.conditionals |-> ConditionalReadBack(c)]
  <1>1. /\ d = [conditionals |-> d.conditionals, vaults |-> d.vaults]
        /\ d.conditionals \subseteq Conditional /\ d.vaults \subseteq Vault
    BY DEF Data1
  <1>2. ReadBack(d) = [conditionals |-> back, vaults |-> d.vaults]
    BY <1>1 DEF ReadBack
  <1>3. back \subseteq Conditional /\ \A b \in back : \E c \in d.conditionals : b.lifetime = c.lifetime
    BY <1>1, ConditionalReadBackType
  <1>4. f \in Surjection(d.conditionals, back)
    BY DEF Surjection
  <1> HIDE DEF back, f
  <1>5. ReadBack(d) \in Data1
    BY <1>1, <1>2, <1>3 DEF Data1
  <1>6. ASSUME Sound(d) PROVE Sound(ReadBack(d))
    <2>1. IsFiniteSet(back) /\ Cardinality(back) <= Cardinality(d.conditionals)
          /\ Cardinality(back) \in Nat /\ Cardinality(d.conditionals) \in Nat
      BY <1>4, <1>6, FS_Surjection, FS_CardinalityType DEF Sound, Small
    <2>2. Small(ReadBack(d))
      BY <1>2, <1>6, <2>1, ProgramAssumption DEF Sound, Small
    <2>3. Unambiguous(ReadBack(d))
      BY <1>2, <1>6 DEF Sound, Unambiguous
    <2>4. Countdowns(ReadBack(d)) \subseteq Countdowns(d)
      BY <1>2, <1>3 DEF Countdowns
    <2>5. QED
      BY <1>6, <2>2, <2>3, <2>4 DEF Sound, StartedBy
  <1>7. QED
    BY <1>5, <1>6

\* So is a Data1 from which the dead conditionals were removed.
LEMMA RemoveDeadKeeps ==
  ASSUME NEW d \in Data1, NEW now
  PROVE  RemoveDead(d, now) \in Data1 /\ (Sound(d) => Sound(RemoveDead(d, now)))
  <1> DEFINE left == {c \in d.conditionals : ~IsFinished(c.lifetime, now)}
  <1>1. /\ d = [conditionals |-> d.conditionals, vaults |-> d.vaults]
        /\ d.conditionals \subseteq Conditional /\ d.vaults \subseteq Vault
    BY DEF Data1
  <1>2. RemoveDead(d, now) = [conditionals |-> left, vaults |-> d.vaults]
    BY <1>1 DEF RemoveDead
  <1>3. left \subseteq d.conditionals
    OBVIOUS
  <1> HIDE DEF left
  <1>4. RemoveDead(d, now) \in Data1
    BY <1>1, <1>2, <1>3 DEF Data1
  <1>5. ASSUME Sound(d) PROVE Sound(RemoveDead(d, now))
    <2>1. IsFiniteSet(left) /\ Cardinality(left) <= Cardinality(d.conditionals)
          /\ Cardinality(left) \in Nat /\ Cardinality(d.conditionals) \in Nat
      BY <1>3, <1>5, FS_Subset, FS_CardinalityType DEF Sound, Small
    <2>2. Small(RemoveDead(d, now))
      BY <1>2, <1>5, <2>1, ProgramAssumption DEF Sound, Small
    <2>3. Unambiguous(RemoveDead(d, now))
      BY <1>2, <1>5 DEF Sound, Unambiguous
    <2>4. Countdowns(RemoveDead(d, now)) \subseteq Countdowns(d)
      BY <1>2, <1>3 DEF Countdowns
    <2>5. QED
      BY <1>5, <2>2, <2>3, <2>4 DEF Sound, StartedBy
  <1>6. QED
    BY <1>4, <1>5

\* One more element is at most one more.
LEMMA OneMore ==
  ASSUME NEW S, NEW x, IsFiniteSet(S)
  PROVE  /\ IsFiniteSet(S \union {x}) /\ Cardinality(S \union {x}) \in Nat
         /\ Cardinality(S) \in Nat /\ Cardinality(S \union {x}) <= Cardinality(S) + 1
  <1>1. IsFiniteSet(S \union {x})
        /\ Cardinality(S \union {x}) = IF x \in S THEN Cardinality(S) ELSE Cardinality(S) + 1
    BY FS_AddElement
  <1>2. Cardinality(S) \in Nat
    BY FS_CardinalityType
  <1>3. QED
    BY <1>1, <1>2

\* A handler keeps a sound Data1 sound, and adds no conditional that is dead.
LEMMA RequestedKeeps ==
  ASSUME NEW old \in Data1, NEW new, Requested(old, new), Sound(old),
         Now \in Durations, highest \in Durations, Now <= highest
  PROVE  /\ new \in Data1 /\ Sound(new)
         /\ \A c \in new.conditionals : c \in old.conditionals \/ ~IsFinished(c.lifetime, Now)
  <1>1. /\ old = [conditionals |-> old.conditionals, vaults |-> old.vaults]
        /\ old.conditionals \subseteq Conditional /\ old.vaults \subseteq Vault
    BY DEF Data1
  <1>2. /\ IsFiniteSet(old.conditionals) /\ Cardinality(old.conditionals) \in Nat
        /\ IsFiniteSet(old.vaults) /\ Cardinality(old.vaults) \in Nat
        /\ MaxConditionals \in Nat /\ MaxVaults \in Nat
    BY FS_CardinalityType, ProgramAssumption DEF Sound, Small
  <1>3. ASSUME NEW location \in Locations, NEW demand \in Demands, NEW lifetime \in Durations,
               MayAddConditional(old), new = WithConditional(old, location, demand, lifetime)
        PROVE  /\ new \in Data1 /\ Sound(new)
               /\ \A c \in new.conditionals : c \in old.conditionals \/ ~IsFinished(c.lifetime, Now)
    <2> DEFINE added == [n |-> FreshNumber(old), location |-> location, demand |-> demand,
                         lifetime |-> [from |-> Now, duration |-> lifetime]]
    <2>1. new = [conditionals |-> old.conditionals \union {added}, vaults |-> old.vaults]
      BY <1>1, <1>3 DEF WithConditional
    <2>2. added \in Conditional
      BY <1>2, FreshNumberExists DEF Conditional, Countdown
    <2>3. added.lifetime.from = Now /\ ~IsFinished(added.lifetime, Now)
      BY DEF IsFinished, IsPending, TillOrZero, Durations
    <2> HIDE DEF added
    <2>4. new \in Data1
      BY <1>1, <2>1, <2>2 DEF Data1
    <2>5. Small(new)
      <3>1. /\ IsFiniteSet(new.conditionals) /\ Cardinality(new.conditionals) \in Nat
            /\ Cardinality(new.conditionals) <= Cardinality(old.conditionals) + 1
        BY <1>2, <2>1, OneMore
      <3>2. Cardinality(old.conditionals) < MaxConditionals
        BY <1>3 DEF MayAddConditional
      <3>3. QED
        BY <1>2, <2>1, <3>1, <3>2 DEF Sound, Small
    <2>6. Unambiguous(new)
      BY <2>1 DEF Sound, Unambiguous
    <2>7. StartedBy(new, highest)
      BY <2>1, <2>3 DEF Sound, StartedBy, Countdowns
    <2>8. QED
      BY <2>1, <2>3, <2>4, <2>5, <2>6, <2>7 DEF Sound
  <1>4. ASSUME NEW name \in Names, NEW protection \in Durations, MayAddVault(old, name),
               new = [old EXCEPT !.vaults = @ \union
                  {[name |-> name, protection |-> [from |-> Now, duration |-> protection]]}]
        PROVE  new \in Data1 /\ Sound(new) /\ new.conditionals = old.conditionals
    <2> DEFINE added == [name |-> name, protection |-> [from |-> Now, duration |-> protection]]
    <2>1. new = [conditionals |-> old.conditionals, vaults |-> old.vaults \union {added}]
      BY <1>1, <1>4
    <2>2. added \in Vault /\ added.name = name /\ added.protection.from = Now
      BY DEF Vault, Countdown
    <2> HIDE DEF added
    <2>3. new \in Data1
      BY <1>1, <2>1, <2>2 DEF Data1
    <2>4. Small(new)
      <3>1. /\ IsFiniteSet(new.vaults) /\ Cardinality(new.vaults) \in Nat
            /\ Cardinality(new.vaults) <= Cardinality(old.vaults) + 1
        BY <1>2, <2>1, OneMore
      <3>2. Cardinality(old.vaults) < MaxVaults
        BY <1>4 DEF MayAddVault
      <3>3. QED
        BY <1>2, <2>1, <3>1, <3>2 DEF Sound, Small
    <2>5. Unambiguous(new)
      BY <1>4, <2>1, <2>2 DEF Sound, Unambiguous, MayAddVault, VaultsNamed
    <2>6. StartedBy(new, highest)
      BY <2>1, <2>2 DEF Sound, StartedBy, Countdowns
    <2>7. QED
      BY <2>1, <2>3, <2>4, <2>5, <2>6 DEF Sound
  <1>5. ASSUME NEW vault \in old.vaults, new = [old EXCEPT !.vaults = @ \ {vault}]
        PROVE  new \in Data1 /\ Sound(new) /\ new.conditionals = old.conditionals
    <2>1. new = [conditionals |-> old.conditionals, vaults |-> old.vaults \ {vault}]
      BY <1>1, <1>5
    <2>2. Small(new)
      BY <1>2, <2>1, FS_RemoveElement DEF Sound, Small
    <2>3. Unambiguous(new) /\ StartedBy(new, highest) /\ new \in Data1
      BY <1>1, <2>1 DEF Sound, Unambiguous, StartedBy, Countdowns, Data1
    <2>4. QED
      BY <2>1, <2>2, <2>3 DEF Sound
  <1>6. ASSUME NEW vault \in old.vaults,
               new = [old EXCEPT !.vaults = (@ \ {vault}) \union
                        {[vault EXCEPT !.protection = Prolonged(@, Now, FiveMinutes)]}]
        PROVE  new \in Data1 /\ Sound(new) /\ new.conditionals = old.conditionals
    <2> DEFINE protection == Prolonged(vault.protection, Now, FiveMinutes)
               changed    == [name |-> vault.name, protection |-> protection]
    <2>1. vault = [name |-> vault.name, protection |-> vault.protection]
          /\ vault.name \in Names /\ vault.protection \in Countdown
      BY <1>1 DEF Vault
    <2>2. new = [conditionals |-> old.conditionals,
                 vaults |-> (old.vaults \ {vault}) \union {changed}]
      <3>1. [vault EXCEPT !.protection = Prolonged(@, Now, FiveMinutes)] = changed
        BY <2>1
      <3> HIDE DEF changed
      <3>2. QED
        BY <1>1, <1>6, <3>1
    <2>3. protection \in Countdown /\ protection.from \in {vault.protection.from, Now}
      BY <2>1, CountdownArithmetic, ProgramAssumption
    <2>4. changed \in Vault /\ changed.name = vault.name /\ changed.protection = protection
      BY <2>1, <2>3 DEF Vault
    <2> HIDE DEF protection, changed
    <2>5. new \in Data1
      BY <1>1, <2>2, <2>4 DEF Data1
    <2>6. /\ IsFiniteSet(old.vaults \ {vault})
          /\ Cardinality(old.vaults \ {vault}) = Cardinality(old.vaults) - 1
      BY <1>2, FS_RemoveElement
    <2>7. /\ IsFiniteSet(new.vaults)
          /\ Cardinality(new.vaults) <= Cardinality(old.vaults)
      <3>1. /\ IsFiniteSet(new.vaults) /\ Cardinality(new.vaults) \in Nat
            /\ Cardinality(new.vaults) <= Cardinality(old.vaults \ {vault}) + 1
        BY <2>2, <2>6, OneMore
      <3>2. QED
        BY <1>2, <2>6, <3>1
    <2>8. Cardinality(new.vaults) \in Nat
      BY <2>7, FS_CardinalityType
    <2>9. Small(new)
      BY <1>2, <2>2, <2>7, <2>8 DEF Sound, Small
    <2>10. Unambiguous(new)
      BY <2>2, <2>4 DEF Sound, Unambiguous
    <2>11. vault.protection.from <= highest
      BY DEF Sound, StartedBy, Countdowns
    <2>12. StartedBy(new, highest)
      BY <2>2, <2>3, <2>4, <2>11 DEF Sound, StartedBy, Countdowns
    <2>13. QED
      BY <2>2, <2>5, <2>9, <2>10, <2>12 DEF Sound
  <1>7. QED
    BY <1>3, <1>4, <1>5, <1>6 DEF Requested

-----------------------------------------------------------------------------
(* The inductive invariant.                                                 *)

\* The default Data1 is sound.
LEMMA DefaultIsSound == DefaultData1 \in Data1 /\ Sound(DefaultData1)
  <1>1. DefaultData1.conditionals = {} /\ DefaultData1.vaults = {}
    BY DEF DefaultData1
  <1>2. Small(DefaultData1)
    BY <1>1, FS_EmptySet, ProgramAssumption DEF Small
  <1>3. Unambiguous(DefaultData1) /\ StartedBy(DefaultData1, highest)
    BY <1>1 DEF Unambiguous, StartedBy, Countdowns
  <1>4. QED
    BY <1>2, <1>3 DEF DefaultData1, Data1, Sound

LEMMA InitProgram == ProgramInit => ProgramIInv
  <1> SUFFICES ASSUME ProgramInit PROVE ProgramIInv
    OBVIOUS
  <1>1. ClocksIInv /\ status = "down"
    BY InitClocks DEF ProgramInit, ClocksInit
  <1>2. ProgramTypeOK
    BY DefaultIsSound DEF ProgramInit, ProgramTypeOK
  <1>3. Copies = {DefaultData1}
    BY DEF ProgramInit, Copies
  <1>4. QED
    BY <1>1, <1>2, <1>3, DefaultIsSound DEF ProgramIInv, NoneIsDead

\* Every copy has its type.
LEMMA CopiesType == ProgramTypeOK => Copies \subseteq Data1
  BY DEF ProgramTypeOK, Copies, Save

\* The latest Instant given out grows, and a running program never reads a later one.
LEMMA HighestGrows ==
  ASSUME ClocksTypeOK, ClocksTypeOK', status = "up" => Now <= highest, [ClocksNext]_clockVars
  PROVE  /\ highest \in Nat /\ highest' \in Nat /\ highest <= highest'
         /\ status' = "up" => Now' <= highest'
  <1>1. /\ highest \in Nat /\ highest' \in Nat
        /\ data2.mono.elapsed \in Nat /\ data2'.mono.elapsed \in Nat
    BY ChronicAssumption DEF ClocksTypeOK, Durations, Data2, MonotonicClock
  <1>2. CASE StartLoop \/ TimerFires
    <2>1. highest' = Longest(highest, data2'.mono.elapsed)
      BY <1>2 DEF StartLoop, TimerFires, Synchronize
    <2>2. QED
      BY <1>1, <2>1 DEF Longest, Now
  <1>3. CASE ~(StartLoop \/ TimerFires)
    <2>1. highest' = highest /\ (status' = "up" => status = "up" /\ data2' = data2)
      BY <1>3 DEF ClocksNext, clockVars, Tick, SetWall, LaunchFirst, LaunchAgain,
         SaveData2Ends, CrashClocks
    <2>2. QED
      BY <1>1, <2>1 DEF Now
  <1>4. QED
    BY <1>2, <1>3

\* What is sound stays sound while the latest Instant grows.
LEMMA SoundLater ==
  ASSUME highest \in Nat, highest' \in Nat, highest <= highest',
         NEW d \in Data1, Sound(d)
  PROVE  Sound(d)'
  <1>1. \A countdown \in Countdowns(d) : countdown.from \in Nat
    BY ChronicAssumption
    DEF Countdowns, Data1, Conditional, Vault, Countdown, Durations
  <1>2. QED
    BY <1>1 DEF Sound, Small, Unambiguous, StartedBy, Countdowns

\* A step that puts at most one sound Data1 beside those in use keeps all sound.
LEMMA CopiesStaySound ==
  ASSUME ProgramIInv, highest \in Nat, highest' \in Nat, highest <= highest',
         NEW d \in Data1, Sound(d), Copies' \subseteq Copies \union {d}
  PROVE  \A e \in Copies' : Sound(e)'
  <1>1. \A e \in Copies : e \in Data1 /\ Sound(e)
    BY CopiesType DEF ProgramIInv
  <1>2. ASSUME NEW e \in Copies' PROVE Sound(e)'
    BY <1>1, <1>2, SoundLater
  <1>3. QED
    BY <1>2

LEMMA ProgramStep == ProgramIInv /\ [ProgramNext]_vars => ProgramIInv'
  <1> SUFFICES ASSUME ProgramIInv, [ProgramNext]_vars
               PROVE  ProgramIInv'
    OBVIOUS
  <1>1. [ClocksNext]_clockVars
    BY ClocksStep
  <1>2. ClocksIInv /\ ClocksIInv'
    BY <1>1, TypeStep, FileStep, ForwardStep DEF ClocksIInv, ProgramIInv
  <1>3. /\ highest \in Nat /\ highest' \in Nat /\ highest <= highest'
        /\ status' = "up" => Now' <= highest'
    BY <1>1, <1>2, HighestGrows DEF ClocksIInv, ProgramIInv
  <1>4. ProgramTypeOK /\ NoneIsDead /\ Copies \subseteq Data1
        /\ \A d \in Copies : Sound(d)
    BY CopiesType DEF ProgramIInv
  <1>5. Now \in Durations /\ highest \in Durations
    BY <1>2 DEF ClocksIInv, ClocksTypeOK, Data2, MonotonicClock, Now
  <1>6. data1 \in Copies /\ disk1 \subseteq Copies
    BY DEF Copies
  <1>7. SUFFICES \E d \in Data1 :
                   /\ Sound(d) /\ Copies' \subseteq Copies \union {d}
                   /\ ProgramTypeOK' /\ NoneIsDead'
    <2>1. PICK d \in Data1 :
            /\ Sound(d) /\ Copies' \subseteq Copies \union {d}
            /\ ProgramTypeOK' /\ NoneIsDead'
      BY <1>7
    <2>2. \A e \in Copies' : Sound(e)'
      BY <1>3, <2>1, CopiesStaySound
    <2>3. QED
      BY <1>2, <1>3, <2>1, <2>2 DEF ProgramIInv
  <1>8. CASE Environment \/ ClockSaveEnds \/ UNCHANGED vars
    <2>1. UNCHANGED dataVars /\ UNCHANGED <<status, data2>>
      BY <1>8 DEF Environment, ClockSaveEnds, SaveData2Ends, Tick, SetWall, vars, clockVars
    <2>2. Copies' = Copies /\ ProgramTypeOK' /\ NoneIsDead'
      BY <1>4, <2>1 DEF dataVars, Copies, ProgramTypeOK, NoneIsDead, Now
    <2>3. QED
      BY <1>4, <1>6, <2>2
  <1>9. CASE CreateData1File
    <2>1. Copies' \subseteq Copies \union {DefaultData1}
      BY <1>9 DEF CreateData1File, Copies
    <2>2. ProgramTypeOK' /\ NoneIsDead'
      BY <1>4, <1>9, DefaultIsSound DEF CreateData1File, ProgramTypeOK, NoneIsDead, clockVars
    <2>3. QED
      BY <2>1, <2>2, DefaultIsSound
  <1>10. CASE Launch
    <2>1. PICK saved \in disk1 : data1' = ReadBack(saved)
      BY <1>10 DEF Launch
    <2>2. ReadBack(saved) \in Data1 /\ Sound(ReadBack(saved))
      BY <1>4, <1>6, ReadBackKeeps
    <2>3. Copies' \subseteq Copies \union {ReadBack(saved)}
      BY <1>10, <2>1 DEF Launch, Copies
    <2>4. status' # "up"
      BY <1>10 DEF Launch, LaunchFirst, LaunchAgain
    <2>5. ProgramTypeOK'
      BY <1>4, <1>10, <2>1, <2>2 DEF Launch, ProgramTypeOK
    <2>6. QED
      BY <2>2, <2>3, <2>4, <2>5 DEF NoneIsDead
  <1>11. CASE Start \/ Synchronization
    <2> DEFINE left == RemoveDead(data1, Now')
    <2>1. Now' = SynchronizedData2.mono.elapsed
      BY <1>11 DEF Start, Synchronization, StartLoop, TimerFires, Synchronize, Now
    <2>2. data1' = left /\ UNCHANGED <<inFlight, disk1, settled>>
      BY <1>11, <2>1 DEF Start, Synchronization
    <2>3. left \in Data1 /\ Sound(left)
      BY <1>4, <1>6, RemoveDeadKeeps
    <2>4. \A c \in left.conditionals : ~IsFinished(c.lifetime, Now')
      BY <1>4, <1>6 DEF RemoveDead, Data1
    <2> HIDE DEF left
    <2>5. Copies' \subseteq Copies \union {left}
      BY <2>2 DEF Copies
    <2>6. ProgramTypeOK' /\ NoneIsDead'
      BY <1>4, <2>2, <2>3, <2>4 DEF ProgramTypeOK, NoneIsDead
    <2>7. QED
      BY <2>3, <2>5, <2>6
  <1>12. CASE Crash
    <2>1. Copies' \subseteq Copies \union {DefaultData1}
      BY <1>12 DEF Crash, Copies
    <2>2. status' # "up"
      BY <1>12 DEF Crash, CrashClocks
    <2>3. ProgramTypeOK'
      BY <1>4, <1>12, DefaultIsSound DEF Crash, ProgramTypeOK
    <2>4. QED
      BY <2>1, <2>2, <2>3, DefaultIsSound DEF NoneIsDead
  <1>13. ASSUME NEW c \in Clients, Request(c)
         PROVE  \E d \in Data1 :
                   /\ Sound(d) /\ Copies' \subseteq Copies \union {d}
                   /\ ProgramTypeOK' /\ NoneIsDead'
    <2>1. Handle(c, data1') /\ Requested(data1, data1')
      BY <1>4, <1>13, RequestIsRequested
    <2>2. /\ status = "up" /\ UNCHANGED <<clockVars, disk1>>
          /\ Copies' \subseteq Copies \union {data1'}
          /\ data1' \in Data1 => inFlight' \in [Clients -> SUBSET Save]
      BY <1>4, <2>1, HandleCopies
    <2>3. Now <= highest
      BY <2>2 DEF ProgramIInv
    <2>4. /\ data1' \in Data1 /\ Sound(data1')
          /\ \A k \in data1'.conditionals : k \in data1.conditionals \/ ~IsFinished(k.lifetime, Now)
      BY <1>4, <1>5, <1>6, <2>1, <2>3, RequestedKeeps
    <2>5. settled' \subseteq Data1
      <3>1. CASE settled' = settled
        BY <1>4, <3>1 DEF ProgramTypeOK
      <3>2. ASSUME NEW name \in Names,
                   settled' = {[kept EXCEPT !.vaults = @ \ VaultsNamed(kept, name)] : kept \in settled}
            PROVE  settled' \subseteq Data1
        BY <1>4, <3>2 DEF ProgramTypeOK, Data1
      <3>3. QED
        BY <1>4, <1>13, <3>1, <3>2, RequestIsRequested
    <2>6. ProgramTypeOK'
      BY <1>4, <2>2, <2>4, <2>5 DEF ProgramTypeOK
    <2>7. NoneIsDead'
      <3>1. Now' = Now
        BY <2>2 DEF Now, clockVars
      <3>2. QED
        BY <1>4, <2>2, <2>4, <3>1 DEF NoneIsDead
    <2>8. QED
      BY <2>2, <2>4, <2>6, <2>7
  <1>14. ASSUME NEW c \in Clients, SaveData1Ends(c)
         PROVE  \E d \in Data1 :
                   /\ Sound(d) /\ Copies' \subseteq Copies \union {d}
                   /\ ProgramTypeOK' /\ NoneIsDead'
    <2>1. PICK save \in inFlight[c] :
            /\ inFlight' = [inFlight EXCEPT ![c] = {}]
            /\ disk1' \in {{save.data}, disk1}
            /\ settled' \in {{save.data}, settled}
            /\ UNCHANGED <<clockVars, data1>>
      <3>1. inFlight[c] # {}
        BY <1>14 DEF SaveData1Ends, SaveData1Succeeds, SaveData1Fails
      <3>2. QED
        BY <1>14, <3>1 DEF SaveData1Ends, SaveData1Succeeds, SaveData1Fails
    <2>2. save \in Save /\ save.data \in Data1 /\ save.data \in Copies
      BY <1>4 DEF ProgramTypeOK, Save, Copies
    <2>3. \A o \in Clients : inFlight'[o] \subseteq inFlight[o]
      BY <1>4, <2>1 DEF ProgramTypeOK
    <2>4. Copies' \subseteq Copies \union {save.data}
      BY <2>1, <2>2, <2>3 DEF Copies
    <2>5. ProgramTypeOK'
      BY <1>4, <2>1, <2>2 DEF ProgramTypeOK
    <2>6. NoneIsDead'
      BY <1>4, <2>1 DEF NoneIsDead, Now, clockVars
    <2>7. QED
      BY <1>4, <2>2, <2>4, <2>5, <2>6
  <1>15. QED
    BY <1>8, <1>9, <1>10, <1>11, <1>12, <1>13, <1>14 DEF ProgramNext

\* The inductive invariant of the program.
THEOREM ProgramInvariant == ProgramSpec => []ProgramIInv
  <1>1. QED
    BY InitProgram, ProgramStep, PTL DEF ProgramSpec

-----------------------------------------------------------------------------
(* The properties of Program.                                               *)

\* The data of the program stay in their types.
THEOREM ProgramTypeCorrect == ProgramSpec => []ProgramTypeOK
  <1>1. ProgramIInv => ProgramTypeOK
    BY DEF ProgramIInv
  <1>2. QED
    BY <1>1, ProgramInvariant, PTL

\* A countdown starts no later than an Instant already given out, and the clock
\* never reads an earlier one again.
LEMMA StartedCountdowns == ProgramIInv => NothingIsPending
  <1> SUFFICES ASSUME ProgramIInv, status = "up", backSteps = 0,
                      NEW countdown \in Countdowns(data1)
               PROVE  ~IsPending(countdown, Now)
    BY DEF NothingIsPending
  <1>1. countdown.from <= highest
    BY DEF ProgramIInv, Copies, Sound, StartedBy
  <1>2. highest <= Now
    BY DEF ProgramIInv, ClocksIInv, ForwardInv, Now
  <1>3. countdown.from \in Nat /\ highest \in Nat /\ Now \in Nat
    BY ChronicAssumption DEF ProgramIInv, ProgramTypeOK, ClocksIInv, ClocksTypeOK, Now,
       Data2, MonotonicClock, Countdowns, Data1, Conditional, Vault, Countdown, Durations
  <1>4. QED
    BY <1>1, <1>2, <1>3 DEF IsPending

\* While the wall clock is never set back, no countdown a running program holds
\* starts in the future of its clock, although data_1.json and data_2.json are
\* saved and restored independently (program.ts, synchronize and saveData1).
THEOREM CountdownsHaveStarted == ProgramSpec => []NothingIsPending
  <1>1. QED
    BY StartedCountdowns, ProgramInvariant, PTL

\* A running program holds no conditional whose time has passed, whatever a crash
\* brought back (program.ts, synchronize; union.ts, removeDead).
THEOREM DeadAreRemoved == ProgramSpec => []NoneIsDead
  <1>1. ProgramIInv => NoneIsDead
    BY DEF ProgramIInv
  <1>2. QED
    BY <1>1, ProgramInvariant, PTL

\* The limits on conditionals and vaults hold in memory, in every save under way and
\* in the file (procedures.ts, addConditional and createVault).
THEOREM LimitsHold == ProgramSpec => []WithinLimits
  <1>1. ProgramIInv => WithinLimits
    BY DEF ProgramIInv, WithinLimits, Copies, Sound, Small
  <1>2. QED
    BY <1>1, ProgramInvariant, PTL

\* No two vaults share a name, wherever the data is (procedures.ts, createVault).
THEOREM NamesStayUnique == ProgramSpec => []NamesAreUnique
  <1>1. ProgramIInv => NamesAreUnique
    BY DEF ProgramIInv, NamesAreUnique, Copies, Sound, Unambiguous
  <1>2. QED
    BY <1>1, ProgramInvariant, PTL

\* What the clock of a running program reads has passed in real time.
ReadingInv ==
  (status = "up" /\ backSteps = 0) =>
    Now \in Nat /\ wall \in Nat /\ origin \in Nat /\ origin + Now <= wall

LEMMA ReadingHasPassed == ClocksIInv => ReadingInv
  <1> SUFFICES ASSUME ClocksIInv, status = "up", backSteps = 0
               PROVE  Now \in Nat /\ wall \in Nat /\ origin \in Nat /\ origin + Now <= wall
    BY DEF ReadingInv
  <1>1. /\ data2.mono.elapsed \in Nat /\ data2.mono.prev \in Nat
        /\ wall \in Nat /\ origin \in Nat /\ MaxMilliseconds \in Nat
    BY ChronicAssumption, ClocksAssumption
    DEF ClocksIInv, ClocksTypeOK, Data2, MonotonicClock, Durations
  <1>2. Accurate(data2)
    BY DEF ClocksIInv, ForwardInv, Snapshots
  <1>3. /\ data2.mono.prev <= wall /\ origin <= data2.mono.prev
        /\ data2.mono.elapsed = TrueElapsed(data2.mono.prev)
    BY <1>1, <1>2 DEF Accurate
  <1>4. data2.mono.elapsed <= data2.mono.prev - origin
    BY <1>1, <1>3 DEF TrueElapsed, Shortest
  <1>5. QED
    BY <1>1, <1>3, <1>4 DEF Now

\* A countdown that has finished was served in real time.
LEMMA FinishedIsServed ==
  ASSUME ClocksIInv, status = "up", backSteps = 0,
         NEW c \in Countdown, IsFinished(c, Now)
  PROVE  wall > origin + c.from + c.duration
  <1>1. c.from \in Nat /\ c.duration \in Nat
    BY ChronicAssumption DEF Countdown, Durations
  <1>2. Now \in Nat /\ wall \in Nat /\ origin \in Nat /\ origin + Now <= wall
    BY ReadingHasPassed DEF ReadingInv
  <1>3. Now > c.from + c.duration
    BY <1>1, <1>2 DEF IsFinished, IsPending, TillOrZero
  <1>4. QED
    BY <1>1, <1>2, <1>3

\* While a program runs, only the end of a protection lets its vault disappear.
LEMMA VaultStep ==
  ASSUME ProgramIInv, ProgramNext, status = "up", status' = "up",
         NEW v \in data1.vaults, v.name \notin VaultNames(data1')
  PROVE  MayDelete(v)
  <1>1. ProgramTypeOK
    BY DEF ProgramIInv
  <1>2. data1' # data1
    BY DEF VaultNames
  <1>3. CASE Start \/ Synchronization
    <2>1. data1'.vaults = data1.vaults
      BY <1>1, <1>3 DEF Start, Synchronization, RemoveDead, ProgramTypeOK, Data1
    <2>2. QED
      BY <2>1 DEF VaultNames
  <1>4. ASSUME NEW c \in Clients, NEW name \in Names, DeleteVault(c, name)
        PROVE  MayDelete(v)
    <2>1. PICK vault \in data1.vaults :
            MayDelete(vault) /\ data1' = [data1 EXCEPT !.vaults = @ \ {vault}]
      BY <1>4 DEF DeleteVault, Handle, VaultsNamed
    <2>2. data1'.vaults = data1.vaults \ {vault}
      BY <1>1, <2>1 DEF ProgramTypeOK, Data1
    <2>3. QED
      BY <2>1, <2>2 DEF VaultNames
  <1>5. ASSUME NEW c \in Clients, NEW name \in Names, ProlongVaultProtection(c, name)
        PROVE  FALSE
    <2>1. PICK vault \in data1.vaults :
            data1' = [data1 EXCEPT !.vaults = (@ \ {vault}) \union
                        {[vault EXCEPT !.protection = Prolonged(@, Now, FiveMinutes)]}]
      BY <1>5 DEF ProlongVaultProtection, Handle, VaultsNamed
    <2> DEFINE changed == [vault EXCEPT !.protection = Prolonged(@, Now, FiveMinutes)]
    <2>2. data1'.vaults = (data1.vaults \ {vault}) \union {changed}
      BY <1>1, <2>1 DEF ProgramTypeOK, Data1
    <2>3. changed.name = vault.name
      BY <1>1 DEF ProgramTypeOK, Data1, Vault
    <2>4. QED
      BY <2>2, <2>3 DEF VaultNames
  <1>6. ASSUME NEW c \in Clients, NEW name \in Names, NEW span \in Spans, CreateVault(c, name, span)
        PROVE  FALSE
    <2>1. data1.vaults \subseteq data1'.vaults
      BY <1>1, <1>6 DEF CreateVault, Handle, ProgramTypeOK, Data1
    <2>2. QED
      BY <2>1 DEF VaultNames
  <1>7. ASSUME NEW c \in Clients,
               \E l \in Locations, span \in Spans :
                 \/ CreateCountdownConditional(c, l, span)
                 \/ \E from, till \in Times : CreateTimeRangeConditional(c, l, from, till, span)
                 \/ \E allowance \in Spans : CreateUptimeAllowanceConditional(c, l, allowance, span)
        PROVE  FALSE
    <2>1. data1'.vaults = data1.vaults
      BY <1>1, <1>7 DEF CreateCountdownConditional, CreateTimeRangeConditional,
         CreateUptimeAllowanceConditional, WithConditional, Handle, ProgramTypeOK, Data1
    <2>2. QED
      BY <2>1 DEF VaultNames
  <1>8. ASSUME NEW c \in Clients, SaveData1Ends(c) PROVE FALSE
    BY <1>2, <1>8 DEF SaveData1Ends, SaveData1Succeeds, SaveData1Fails
  <1>9. CASE Environment \/ CreateData1File \/ ClockSaveEnds
    BY <1>2, <1>9 DEF Environment, CreateData1File, ClockSaveEnds, dataVars
  <1>10. CASE Launch \/ Crash
    BY <1>10 DEF Launch, LaunchFirst, LaunchAgain, Crash, CrashClocks
  <1>11. QED
    BY <1>3, <1>4, <1>5, <1>6, <1>7, <1>8, <1>9, <1>10 DEF ProgramNext, Request

\* While the wall clock is never set back, a vault of a running program disappears
\* only once its protection was served in real time (procedures.ts, deleteVault).
THEOREM ProtectionsAreServed == ProgramSpec => ProtectionIsServed
  <1>1. ProgramIInv /\ [ProgramNext]_vars
          => [(status = "up" /\ status' = "up" /\ backSteps = 0) =>
                \A v \in data1.vaults :
                  v.name \notin VaultNames(data1')
                    => wall > origin + v.protection.from + v.protection.duration]_vars
    <2> SUFFICES ASSUME ProgramIInv, ProgramNext, status = "up", status' = "up", backSteps = 0,
                        NEW v \in data1.vaults, v.name \notin VaultNames(data1')
                 PROVE  wall > origin + v.protection.from + v.protection.duration
      OBVIOUS
    <2>1. MayDelete(v)
      BY VaultStep
    <2>2. v.protection \in Countdown /\ v.protection \in Countdowns(data1)
      BY DEF ProgramIInv, ProgramTypeOK, Data1, Vault, Countdowns
    <2>3. ~IsPending(v.protection, Now)
      BY <2>2, StartedCountdowns DEF NothingIsPending
    <2>4. v.protection.duration \in Nat /\ Now \in Nat /\ v.protection.from \in Nat
      BY <2>2, ReadingHasPassed, ChronicAssumption
         DEF ReadingInv, ProgramIInv, Countdown, Durations
    <2>5. IsFinished(v.protection, Now)
      BY <2>1, <2>3, <2>4 DEF MayDelete, IsRunning, IsFinished, IsPending, TillOrZero
    <2>6. QED
      BY <2>2, <2>5, FinishedIsServed DEF ProgramIInv
  <1>2. QED
    BY <1>1, ProgramInvariant, PTL DEF ProgramSpec, ProtectionIsServed

\* While a program runs, only the end of its time lets a conditional disappear.
LEMMA ConditionalStep ==
  ASSUME ProgramIInv, ProgramNext, status = "up", status' = "up",
         NEW c \in data1.conditionals, c \notin data1'.conditionals
  PROVE  Synchronization /\ IsFinished(c.lifetime, Now')
  <1>1. ProgramTypeOK
    BY DEF ProgramIInv
  <1>2. ASSUME NEW o \in Clients, Request(o) PROVE FALSE
    <2>1. Requested(data1, data1')
      BY <1>1, <1>2, RequestIsRequested
    <2>2. data1 = [conditionals |-> data1.conditionals, vaults |-> data1.vaults]
      BY <1>1 DEF ProgramTypeOK, Data1
    <2>3. data1.conditionals \subseteq data1'.conditionals
      BY <2>1, <2>2 DEF Requested, WithConditional
    <2>4. QED
      BY <2>3
  <1>3. ASSUME NEW o \in Clients, SaveData1Ends(o) PROVE FALSE
    BY <1>3 DEF SaveData1Ends, SaveData1Succeeds, SaveData1Fails
  <1>4. CASE Environment \/ CreateData1File \/ ClockSaveEnds
    BY <1>4 DEF Environment, CreateData1File, ClockSaveEnds, dataVars
  <1>5. CASE Launch \/ Start \/ Crash
    BY <1>5 DEF Launch, LaunchFirst, LaunchAgain, Start, StartLoop, Crash, CrashClocks
  <1>6. CASE Synchronization
    <2>1. data1' = RemoveDead(data1, Now')
      BY <1>6 DEF Synchronization, TimerFires, Synchronize, Now
    <2>2. data1'.conditionals = {k \in data1.conditionals : ~IsFinished(k.lifetime, Now')}
      BY <1>1, <2>1 DEF RemoveDead, ProgramTypeOK, Data1
    <2>3. QED
      BY <1>6, <2>2
  <1>7. QED
    BY <1>2, <1>3, <1>4, <1>5, <1>6 DEF ProgramNext

\* While the wall clock is never set back, a conditional of a running program
\* disappears only once its time was served (union.ts, removeDead).
THEOREM LifetimesAreServed == ProgramSpec => LifetimeIsServed
  <1>1. ProgramIInv /\ ProgramIInv' /\ [ProgramNext]_vars
          => [(status = "up" /\ status' = "up" /\ backSteps = 0) =>
                \A c \in data1.conditionals :
                  c \notin data1'.conditionals
                    => wall > origin + c.lifetime.from + c.lifetime.duration]_vars
    <2> SUFFICES ASSUME ProgramIInv, ProgramIInv', ProgramNext,
                        status = "up", status' = "up", backSteps = 0,
                        NEW c \in data1.conditionals, c \notin data1'.conditionals
                 PROVE  wall > origin + c.lifetime.from + c.lifetime.duration
      OBVIOUS
    <2>1. Synchronization /\ IsFinished(c.lifetime, Now')
      BY ConditionalStep
    <2>2. UNCHANGED <<wall, origin, backSteps>>
      BY <2>1 DEF Synchronization, TimerFires, Synchronize
    <2>3. /\ Now' \in Nat /\ wall' \in Nat /\ origin' \in Nat /\ origin' + Now' <= wall'
      <3>1. ReadingInv'
        BY ReadingHasPassed, PTL DEF ProgramIInv
      <3>2. QED
        BY <2>1, <2>2, <3>1 DEF ReadingInv, Synchronization
    <2>4. c.lifetime.from \in Nat /\ c.lifetime.duration \in Nat
      BY ChronicAssumption DEF ProgramIInv, ProgramTypeOK, Data1, Conditional, Countdown, Durations
    <2>5. Now' > c.lifetime.from + c.lifetime.duration
      BY <2>1, <2>3, <2>4 DEF IsFinished, IsPending, TillOrZero
    <2>6. QED
      BY <2>2, <2>3, <2>4, <2>5
  <1>2. QED
    BY <1>1, ProgramInvariant, PTL DEF ProgramSpec, LifetimeIsServed

-----------------------------------------------------------------------------
(* Prolonging a protection.                                                  *)

\* Prolonging brings the end no nearer, and what then remains is within the
\* maximum unless more remained before.
LEMMA ProlongedGrows ==
  ASSUME NEW c \in Countdown, NEW now \in Durations, NEW factor \in Durations
  PROVE  LET p == Prolonged(c, now, factor)
         IN  /\ GetTill(p) >= GetTill(c)
             /\ RemainingTimeOrZero(p, now) <= Longest(RemainingTimeOrZero(c, now), MaxProtection)
  <1> DEFINE p == Prolonged(c, now, factor)
             R == RemainingTimeOrZero(c, now)
  <1>1. /\ c.from \in Nat /\ c.from <= MaxMilliseconds
        /\ c.duration \in Nat /\ c.duration <= MaxMilliseconds
        /\ now \in Nat /\ now <= MaxMilliseconds
        /\ factor \in Nat /\ factor <= MaxMilliseconds
        /\ MaxProtection \in Nat /\ MaxProtection <= MaxMilliseconds
        /\ MaxMilliseconds \in Nat
    BY ChronicAssumption, ProgramAssumption DEF Countdown, Durations
  <1>2. CASE IsFinished(c, now)
    <2>1. p = [from |-> now, duration |-> Shortest(MaxProtection, factor)]
      BY <1>2 DEF Prolonged
    <2>2. now > c.from + c.duration
      BY <1>1, <1>2 DEF IsFinished, IsPending, TillOrZero
    <2>3. GetTill(p) >= now
      BY <1>1, <2>1 DEF GetTill, PlusOrMax, Shortest
    <2>4. GetTill(c) = c.from + c.duration
      BY <1>1, <2>2 DEF GetTill, PlusOrMax
    <2>5. GetTill(p) \in Nat
      BY <1>1, <2>1 DEF GetTill, PlusOrMax, Shortest
    <2>6. GetTill(p) >= GetTill(c)
      BY <1>1, <2>2, <2>3, <2>4, <2>5
    <2>7. RemainingTimeOrZero(p, now) <= MaxProtection /\ RemainingTimeOrZero(p, now) \in Nat
      <3>1. SinceOrZero(now, now) = 0
        BY <1>1 DEF SinceOrZero
      <3>2. ElapsedTimeOrZero(p, now) = 0
        BY <1>1, <2>1, <3>1 DEF ElapsedTimeOrZero, Shortest
      <3>3. QED
        BY <1>1, <2>1, <3>2 DEF RemainingTimeOrZero, MinusOrZero, Shortest
    <2>8. R \in Nat
      BY CountdownArithmetic, ChronicAssumption DEF Durations
    <2>9. QED
      BY <1>1, <2>6, <2>7, <2>8 DEF Longest
  <1>3. CASE ~IsFinished(c, now)
    <2> DEFINE step == IF PlusOrMax(factor, R) > MaxProtection
                       THEN MinusOrZero(MaxProtection, R) ELSE factor
               E    == SinceOrZero(now, c.from)
    <2>1. E \in Nat /\ E <= c.duration
      BY <1>1, <1>3 DEF IsFinished, IsPending, TillOrZero, SinceOrZero
    <2>2. R = c.duration - E
      BY <1>1, <2>1 DEF RemainingTimeOrZero, ElapsedTimeOrZero, Shortest, MinusOrZero
    <2>3. p = [from |-> c.from, duration |-> PlusOrMax(c.duration, step)]
      BY <1>3 DEF Prolonged, ExtendByOrSetToMax, Countdown
    <2> DEFINE dur == PlusOrMax(c.duration, step)
    <2>4. R \in Nat
      BY <1>1, <2>1, <2>2
    <2>5. /\ step \in Nat
          /\ R + step <= MaxProtection \/ step = 0 \/ MaxProtection = MaxMilliseconds
      BY <1>1, <2>4 DEF PlusOrMax, MinusOrZero
    <2> HIDE DEF step, R, E, p
    <2>6. /\ dur \in Nat /\ dur >= c.duration /\ dur <= c.duration + step
          /\ dur <= MaxMilliseconds
      BY <1>1, <2>5 DEF PlusOrMax
    <2> HIDE DEF dur
    <2>7. p.from = c.from /\ p.duration = dur
      BY <2>3 DEF dur
    <2>8. RemainingTimeOrZero(p, now) = dur - E
      BY <1>1, <2>1, <2>6, <2>7
         DEF RemainingTimeOrZero, ElapsedTimeOrZero, Shortest, MinusOrZero, E
    <2>9. GetTill(p) >= GetTill(c)
      BY <1>1, <2>6, <2>7 DEF GetTill, PlusOrMax
    <2>10. dur - E <= Longest(R, MaxProtection)
      BY <1>1, <2>1, <2>2, <2>4, <2>5, <2>6 DEF Longest
    <2>11. QED
      BY <2>8, <2>9, <2>10 DEF R, p
  <1>4. QED
    BY <1>2, <1>3

\* Nothing brings the end of a protection forward or prolongs it beyond the
\* maximum (vault.ts, extendProtectionByOrSetToMaxSafeValue).
THEOREM ProtectionsOnlyGrow == ProgramSpec => ProtectionOnlyGrows
  <1>1. ProgramIInv /\ [ProgramNext]_vars
          => [(status = "up" /\ status' = "up") =>
                \A v \in data1.vaults : \A w \in VaultsNamed(data1', v.name) :
                  /\ GetTill(w.protection) >= GetTill(v.protection)
                  /\ RemainingTimeOrZero(w.protection, Now)
                       <= Longest(RemainingTimeOrZero(v.protection, Now), MaxProtection)]_vars
    <2> SUFFICES ASSUME ProgramIInv, ProgramNext, status = "up", status' = "up",
                        NEW v \in data1.vaults, NEW w \in data1'.vaults, w.name = v.name
                 PROVE  /\ GetTill(w.protection) >= GetTill(v.protection)
                        /\ RemainingTimeOrZero(w.protection, Now)
                             <= Longest(RemainingTimeOrZero(v.protection, Now), MaxProtection)
      BY DEF VaultsNamed
    <2>1. /\ ProgramTypeOK /\ Unambiguous(data1) /\ Now \in Durations
          /\ v \in Vault /\ FiveMinutes \in Durations
      BY ProgramAssumption DEF ProgramIInv, ProgramTypeOK, Data1, Copies, Sound, ClocksIInv,
         ClocksTypeOK, Data2, MonotonicClock, Now
    <2>2. v.protection \in Countdown
      BY <2>1 DEF Vault
    <2>3. w = v \/ w.protection = Prolonged(v.protection, Now, FiveMinutes)
      <3>1. data1 = [conditionals |-> data1.conditionals, vaults |-> data1.vaults]
            /\ data1.vaults \subseteq Vault
        BY <2>1 DEF ProgramTypeOK, Data1
      <3>2. ASSUME w \in data1.vaults PROVE w = v
        BY <2>1, <3>2 DEF Unambiguous
      <3>3. ASSUME NEW c \in Clients, Request(c)
            PROVE  w = v \/ w.protection = Prolonged(v.protection, Now, FiveMinutes)
        <4>1. Requested(data1, data1')
          BY <2>1, <3>3, RequestIsRequested
        <4>2. ASSUME NEW location \in Locations, NEW demand \in Demands, NEW lifetime \in Durations,
                     data1' = WithConditional(data1, location, demand, lifetime)
              PROVE  w \in data1.vaults
          BY <3>1, <4>2 DEF WithConditional
        <4>3. ASSUME NEW name \in Names, NEW protection \in Durations, MayAddVault(data1, name),
                     data1' = [data1 EXCEPT !.vaults = @ \union
                       {[name |-> name, protection |-> [from |-> Now, duration |-> protection]]}]
              PROVE  w \in data1.vaults
          BY <3>1, <4>3 DEF MayAddVault, VaultsNamed
        <4>4. ASSUME NEW vault \in data1.vaults, data1' = [data1 EXCEPT !.vaults = @ \ {vault}]
              PROVE  w \in data1.vaults
          BY <3>1, <4>4
        <4>5. ASSUME NEW vault \in data1.vaults,
                     data1' = [data1 EXCEPT !.vaults = (@ \ {vault}) \union
                                {[vault EXCEPT !.protection = Prolonged(@, Now, FiveMinutes)]}]
              PROVE  w \in data1.vaults \/ w.protection = Prolonged(v.protection, Now, FiveMinutes)
          <5>1. w \in data1.vaults
                \/ w = [name |-> vault.name, protection |-> Prolonged(vault.protection, Now, FiveMinutes)]
            BY <3>1, <4>5 DEF Vault
          <5>2. w.name = vault.name => vault = v
            BY <2>1 DEF Unambiguous
          <5>3. QED
            BY <5>1, <5>2
        <4>6. QED
          BY <3>2, <4>1, <4>2, <4>3, <4>4, <4>5 DEF Requested
      <3>4. ASSUME NEW c \in Clients, SaveData1Ends(c) PROVE w \in data1.vaults
        BY <3>4 DEF SaveData1Ends, SaveData1Succeeds, SaveData1Fails
      <3>5. CASE Environment \/ CreateData1File \/ ClockSaveEnds
        BY <3>2, <3>5 DEF Environment, CreateData1File, ClockSaveEnds, dataVars
      <3>6. CASE Launch \/ Crash
        BY <3>6 DEF Launch, LaunchFirst, LaunchAgain, Crash, CrashClocks
      <3>7. CASE Start \/ Synchronization
        BY <3>1, <3>2, <3>7 DEF Start, Synchronization, RemoveDead
      <3>8. QED
        BY <3>2, <3>3, <3>4, <3>5, <3>6, <3>7 DEF ProgramNext
    <2>4. CASE w = v
      <3>1. GetTill(v.protection) \in Nat
        BY <2>2, ChronicAssumption DEF Durations, Countdown, GetTill, PlusOrMax
      <3>2. RemainingTimeOrZero(v.protection, Now) \in Durations
        BY <2>1, <2>2, CountdownArithmetic
      <3>3. RemainingTimeOrZero(v.protection, Now) \in Nat /\ MaxProtection \in Nat
        BY <3>2, ChronicAssumption, ProgramAssumption DEF Durations
      <3>4. QED
        BY <2>4, <3>1, <3>3 DEF Longest
    <2>5. CASE w.protection = Prolonged(v.protection, Now, FiveMinutes)
      BY <2>1, <2>2, <2>5, ProlongedGrows
    <2>6. QED
      BY <2>3, <2>4, <2>5
  <1>2. QED
    BY <1>1, ProgramInvariant, PTL DEF ProgramSpec, ProtectionOnlyGrows
=============================================================================
