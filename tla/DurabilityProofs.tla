-------------------------- MODULE DurabilityProofs ---------------------------
(***************************************************************************)
(* What a client was told is saved survives, and a save that nothing       *)
(* overlaps makes up for those that failed: for every number of clients,   *)
(* whatever saves overlap and fail, and however often the process dies.    *)
(* And what that means for the question the daemon is for, whether a user  *)
(* is to be kept out.                                                      *)
(***************************************************************************)
EXTENDS ProgramProofs, Regulation

\* d holds what kept holds: each conditional until its time has passed at instant,
\* each vault protected at least as long.
KeepsAt(kept, d, instant) ==
  /\ \A c \in kept.conditionals : c \in d.conditionals \/ IsFinished(c.lifetime, instant)
  /\ \A v \in kept.vaults : \E w \in d.vaults :
       w.name = v.name /\ GetTill(w.protection) >= GetTill(v.protection)

\* Nothing of d changes when it is written and read back.
Readable(d) == \A c \in d.conditionals : ConditionalReadBack(c) = c

\* A save under way that nothing overlapped since it began: memory is what it saves,
\* but for the conditionals that died meanwhile.
IsCurrent(save) ==
  /\ save.data.vaults = data1.vaults
  /\ data1.conditionals \subseteq save.data.conditionals
  /\ KeepsAt(save.data, data1, highest)

\* What is promised is held by every Data1 that can reach the file from now on: by
\* the file, by memory unless the process is down, and by every save under way.
Promised ==
  \A kept \in settled :
    /\ \A d \in disk1 : KeepsAt(kept, d, highest)
    /\ \A c \in Clients : \A save \in inFlight[c] : KeepsAt(kept, save.data, highest)
    /\ status # "down" => KeepsAt(kept, data1, highest)

DurabilityIInv ==
  /\ \A d \in Copies : Readable(d)
  /\ disk1 = {} => settled = {}
  /\ status # "up" => \A c \in Clients : inFlight[c] = {}
  /\ Promised
  /\ \A c \in Clients : \A save \in inFlight[c] :
       save.alone => IsCurrent(save) /\ \A o \in Clients : o # c => inFlight[o] = {}
  /\ \A c \in Clients : \A s, t \in inFlight[c] : s = t

-----------------------------------------------------------------------------
(* Keeping.                                                                 *)

LEMMA CountdownIsNat ==
  ASSUME NEW c \in Countdown
  PROVE  c.from \in Nat /\ c.duration \in Nat /\ GetTill(c) \in Nat
  BY ChronicAssumption DEF Countdown, Durations, GetTill, PlusOrMax

LEMMA FinishedLater ==
  ASSUME NEW c \in Countdown, NEW now \in Nat, NEW later \in Nat, now <= later,
         IsFinished(c, now)
  PROVE  IsFinished(c, later)
  BY CountdownIsNat DEF IsFinished, IsPending, TillOrZero

LEMMA KeepsLater ==
  ASSUME NEW kept \in Data1, NEW d, NEW now \in Nat, NEW later \in Nat, now <= later,
         KeepsAt(kept, d, now)
  PROVE  KeepsAt(kept, d, later)
  <1>1. \A c \in kept.conditionals : c.lifetime \in Countdown
    BY DEF Data1, Conditional
  <1>2. QED
    BY <1>1, FinishedLater DEF KeepsAt

LEMMA KeepsItself ==
  ASSUME NEW kept \in Data1, NEW now
  PROVE  KeepsAt(kept, kept, now)
  <1>1. \A v \in kept.vaults : GetTill(v.protection) \in Nat
    BY CountdownIsNat DEF Data1, Vault
  <1>2. QED
    BY <1>1 DEF KeepsAt

\* The loop removes only what has passed.
LEMMA KeepsAlive ==
  ASSUME NEW kept \in Data1, NEW d \in Data1, NEW now \in Nat, NEW later \in Nat,
         now <= later, KeepsAt(kept, d, later)
  PROVE  KeepsAt(kept, RemoveDead(d, now), later)
  <1>1. /\ RemoveDead(d, now).conditionals = {c \in d.conditionals : ~IsFinished(c.lifetime, now)}
        /\ RemoveDead(d, now).vaults = d.vaults
    BY DEF RemoveDead, Data1
  <1>2. \A c \in kept.conditionals : c.lifetime \in Countdown
    BY DEF Data1, Conditional
  <1>3. \A c \in kept.conditionals :
          c \in RemoveDead(d, now).conditionals \/ IsFinished(c.lifetime, later)
    BY <1>1, <1>2, FinishedLater DEF KeepsAt
  <1>4. QED
    BY <1>1, <1>3 DEF KeepsAt

\* Giving up a vault everywhere leaves the rest kept.
LEMMA KeepsWithout ==
  ASSUME NEW kept \in Data1, NEW d, NEW name, NEW now, KeepsAt(kept, d, now)
  PROVE  KeepsAt([kept EXCEPT !.vaults = @ \ VaultsNamed(kept, name)], d, now)
  BY DEF KeepsAt, Data1

\* What is readable is read back as it was.
LEMMA ReadBackIsSame ==
  ASSUME NEW d \in Data1, Readable(d)
  PROVE  ReadBack(d) = d
  <1>1. d = [conditionals |-> d.conditionals, vaults |-> d.vaults]
    BY DEF Data1
  <1>2. {ConditionalReadBack(c) : c \in d.conditionals} = d.conditionals
    BY DEF Readable
  <1>3. ReadBack(d) = [conditionals |-> {ConditionalReadBack(c) : c \in d.conditionals},
                       vaults |-> d.vaults]
    BY <1>1 DEF ReadBack
  <1>4. QED
    BY <1>1, <1>2, <1>3

-----------------------------------------------------------------------------
(* Requests.                                                                *)

\* new holds all of old, every protection at least as long, and stays readable.
Grows(old, new) ==
  /\ old.conditionals \subseteq new.conditionals
  /\ \A v \in old.vaults : \E w \in new.vaults :
       w.name = v.name /\ GetTill(w.protection) >= GetTill(v.protection)
  /\ Readable(old) => Readable(new)

LEMMA KeepsGrown ==
  ASSUME NEW kept \in Data1, NEW old \in Data1, NEW new \in Data1, NEW now,
         KeepsAt(kept, old, now), Grows(old, new)
  PROVE  KeepsAt(kept, new, now)
  <1>1. ASSUME NEW v \in kept.vaults
        PROVE  \E w \in new.vaults :
                 w.name = v.name /\ GetTill(w.protection) >= GetTill(v.protection)
    <2>1. PICK u \in old.vaults :
            u.name = v.name /\ GetTill(u.protection) >= GetTill(v.protection)
      BY DEF KeepsAt
    <2>2. PICK w \in new.vaults :
            w.name = u.name /\ GetTill(w.protection) >= GetTill(u.protection)
      BY DEF Grows
    <2>3. GetTill(u.protection) \in Nat /\ GetTill(v.protection) \in Nat
          /\ GetTill(w.protection) \in Nat
      BY CountdownIsNat DEF Data1, Vault
    <2>4. QED
      BY <2>1, <2>2, <2>3
  <1>2. QED
    BY <1>1 DEF KeepsAt, Grows

\* A conditional is read back as it was written, unless its range passes midnight.
LEMMA WithConditionalGrows ==
  ASSUME NEW d \in Data1, NEW location, NEW demand, NEW lifetime,
         demand.tag = "TimeRange" => \E from \in Times : demand =
           [tag |-> "TimeRange", range |-> RequestedRange(from, from)]
  PROVE  Grows(d, WithConditional(d, location, demand, lifetime))
  <1> DEFINE new == [n |-> FreshNumber(d), location |-> location, demand |-> demand,
                     lifetime |-> [from |-> Now, duration |-> lifetime]]
             e   == WithConditional(d, location, demand, lifetime)
  <1>1. e.conditionals = d.conditionals \union {new} /\ e.vaults = d.vaults
    BY DEF WithConditional, Data1
  <1>2. ConditionalReadBack(new) = new
    <2>1. CASE demand.tag = "TimeRange"
      <3>1. PICK from \in Times :
              demand = [tag |-> "TimeRange", range |-> RequestedRange(from, from)]
        BY <2>1
      <3>2. from \in Nat /\ from <= MsPerDay - 1 /\ MsPerDay \in Nat
        BY ChronicAssumption, ProgramAssumption DEF TimesOfDay
      <3>3. RequestedRange(from, from) = [from |-> from, till |-> from]
        BY <3>2 DEF RequestedRange, FromTimes
      <3>4. RangeReadBack([from |-> from, till |-> from]) = [from |-> from, till |-> from]
        BY <3>2 DEF RangeReadBack, RangeTill, FromTimes
      <3>5. [demand EXCEPT !.range = RangeReadBack(@)] = demand
        BY <3>1, <3>3, <3>4
      <3>6. ConditionalReadBack(new) = [new EXCEPT !.demand = [demand EXCEPT !.range = RangeReadBack(@)]]
        BY <2>1, <3>1 DEF ConditionalReadBack
      <3>7. QED
        BY <3>5, <3>6
    <2>2. CASE demand.tag # "TimeRange"
      BY <2>2 DEF ConditionalReadBack
    <2>3. QED
      BY <2>1, <2>2
  <1>3. \A v \in d.vaults : GetTill(v.protection) \in Nat
    BY CountdownIsNat DEF Data1, Vault
  <1> HIDE DEF new, e
  <1>4. QED
    BY <1>1, <1>2, <1>3 DEF Grows, Readable, e

\* A request makes Data1 grow and no promise weaker, or gives up one vault in both.
LEMMA RequestGrows ==
  ASSUME ProgramTypeOK, Now \in Durations, NEW c \in Clients, Request(c)
  PROVE  \/ settled' = settled /\ Grows(data1, data1')
         \/ \E name \in Names :
              /\ DeleteVault(c, name)
              /\ \E vault \in VaultsNamed(data1, name) :
                   data1' = [data1 EXCEPT !.vaults = @ \ {vault}]
              /\ settled' = {[kept EXCEPT !.vaults = @ \ VaultsNamed(kept, name)] : kept \in settled}
  <1>1. data1 \in Data1 /\ data1 = [conditionals |-> data1.conditionals, vaults |-> data1.vaults]
    BY DEF ProgramTypeOK, Data1
  <1>2. \A v \in data1.vaults : v.protection \in Countdown /\ GetTill(v.protection) \in Nat
    BY <1>1, CountdownIsNat DEF Data1, Vault
  <1>3. ASSUME NEW l \in Locations, NEW span \in Spans, CreateCountdownConditional(c, l, span)
        PROVE  settled' = settled /\ Grows(data1, data1')
    <2>1. data1' = WithConditional(data1, l, [tag |-> "Countdown"], span) /\ settled' = settled
      BY <1>3 DEF CreateCountdownConditional, Handle
    <2>2. QED
      BY <1>1, <2>1, WithConditionalGrows
  <1>4. ASSUME NEW l \in Locations, NEW span \in Spans, NEW from \in Times, NEW till \in Times,
               CreateTimeRangeConditional(c, l, from, till, span)
        PROVE  settled' = settled /\ Grows(data1, data1')
    <2> DEFINE demand == [tag |-> "TimeRange", range |-> RequestedRange(from, from)]
    <2>1. data1' = WithConditional(data1, l, demand, span) /\ settled' = settled
      BY <1>4 DEF CreateTimeRangeConditional, Handle, RequestedRange
    <2>2. QED
      BY <1>1, <2>1, WithConditionalGrows
  <1>5. ASSUME NEW l \in Locations, NEW span \in Spans, NEW allowance \in Spans,
               CreateUptimeAllowanceConditional(c, l, allowance, span)
        PROVE  settled' = settled /\ Grows(data1, data1')
    <2> DEFINE demand == [tag |-> "UptimeAllowance", allowance |-> allowance]
    <2>1. data1' = WithConditional(data1, l, demand, span) /\ settled' = settled
      BY <1>5 DEF CreateUptimeAllowanceConditional, Handle
    <2>2. demand.tag # "TimeRange"
      OBVIOUS
    <2> HIDE DEF demand
    <2>3. QED
      BY <1>1, <2>1, <2>2, WithConditionalGrows
  <1>6. ASSUME NEW name \in Names, NEW span \in Spans, CreateVault(c, name, span)
        PROVE  settled' = settled /\ Grows(data1, data1')
    <2>1. /\ settled' = settled
          /\ data1' = [data1 EXCEPT !.vaults = @ \union
               {[name |-> name, protection |-> [from |-> Now, duration |-> span]]}]
      BY <1>6 DEF CreateVault, Handle
    <2>2. /\ data1'.conditionals = data1.conditionals
          /\ data1.vaults \subseteq data1'.vaults
      BY <1>1, <2>1
    <2>3. QED
      BY <1>2, <2>1, <2>2 DEF Grows, Readable
  <1>7. ASSUME NEW name \in Names, ProlongVaultProtection(c, name)
        PROVE  settled' = settled /\ Grows(data1, data1')
    <2>1. PICK vault \in data1.vaults :
            /\ settled' = settled
            /\ data1' = [data1 EXCEPT !.vaults = (@ \ {vault}) \union
                 {[vault EXCEPT !.protection = Prolonged(@, Now, FiveMinutes)]}]
      BY <1>7 DEF ProlongVaultProtection, Handle, VaultsNamed
    <2> DEFINE longer == [vault EXCEPT !.protection = Prolonged(@, Now, FiveMinutes)]
    <2>2. /\ longer.name = vault.name
          /\ longer.protection = Prolonged(vault.protection, Now, FiveMinutes)
      BY <1>1 DEF Data1, Vault
    <2>3. GetTill(longer.protection) >= GetTill(vault.protection)
      BY <1>2, <2>2, ProlongedGrows, ProgramAssumption
    <2>4. /\ data1'.conditionals = data1.conditionals
          /\ data1'.vaults = (data1.vaults \ {vault}) \union {longer}
      BY <1>1, <2>1
    <2> HIDE DEF longer
    <2>5. \A v \in data1.vaults : \E w \in data1'.vaults :
            w.name = v.name /\ GetTill(w.protection) >= GetTill(v.protection)
      BY <1>2, <2>2, <2>3, <2>4
    <2>6. QED
      BY <2>1, <2>4, <2>5 DEF Grows, Readable
  <1>8. ASSUME NEW name \in Names, DeleteVault(c, name)
        PROVE  /\ \E vault \in VaultsNamed(data1, name) :
                    data1' = [data1 EXCEPT !.vaults = @ \ {vault}]
               /\ settled' = {[kept EXCEPT !.vaults = @ \ VaultsNamed(kept, name)] : kept \in settled}
    BY <1>8 DEF DeleteVault, Handle
  <1>9. QED
    BY <1>3, <1>4, <1>5, <1>6, <1>7, <1>8 DEF Request

\* A handler begins one save, and no save is alone any more that was.
LEMMA HandleSaves ==
  ASSUME ProgramTypeOK, NEW c \in Clients, NEW d, Handle(c, d)
  PROVE  /\ \A o \in Clients : \A s, t \in inFlight'[o] :
              (\A q, r \in inFlight[o] : q = r) => s = t
         /\ \A t \in inFlight'[c] :
              t.data = d /\ (t.alone => \A o \in Clients : inFlight'[o] # {} => o = c)
         /\ \A o \in Clients : \A t \in inFlight'[o] :
              o # c => ~t.alone /\ \E s \in inFlight[o] : t.data = s.data
  <1> DEFINE quiet == \A o \in Clients : inFlight[o] = {}
  <1>1. inFlight' = [o \in Clients |->
                       IF o = c THEN {[data |-> d, alone |-> quiet]}
                       ELSE {[s EXCEPT !.alone = FALSE] : s \in inFlight[o]}]
    BY Zenon DEF Handle
  <1>2. inFlight'[c] = {[data |-> d, alone |-> quiet]}
    BY <1>1
  <1>3. \A o \in Clients : o # c => inFlight'[o] = {[s EXCEPT !.alone = FALSE] : s \in inFlight[o]}
    BY <1>1
  <1>4. quiet => \A o \in Clients : inFlight'[o] # {} => o = c
    BY <1>3
  <1>5. ASSUME NEW o \in Clients, o # c, NEW t \in inFlight'[o]
        PROVE  ~t.alone /\ \E s \in inFlight[o] : t.data = s.data
    <2>1. PICK s \in inFlight[o] : t = [s EXCEPT !.alone = FALSE]
      BY <1>3, <1>5
    <2>2. s = [data |-> s.data, alone |-> s.alone]
      BY DEF ProgramTypeOK, Save
    <2>3. QED
      BY <2>1, <2>2
  <1>6. ASSUME NEW t \in inFlight'[c]
        PROVE  t.data = d /\ (t.alone => \A o \in Clients : inFlight'[o] # {} => o = c)
    <2> HIDE DEF quiet
    <2>1. t = [data |-> d, alone |-> quiet]
      BY <1>2
    <2>2. t.data = d /\ (t.alone => quiet)
      BY <2>1
    <2>3. QED
      BY <1>4, <2>2
  <1>7. ASSUME NEW o \in Clients, NEW s \in inFlight'[o], NEW t \in inFlight'[o],
               \A q, r \in inFlight[o] : q = r
        PROVE  s = t
    <2> HIDE DEF quiet
    <2>1. CASE o = c
      BY <1>2, <2>1
    <2>2. CASE o # c
      <3>1. inFlight'[o] = {[q EXCEPT !.alone = FALSE] : q \in inFlight[o]}
        BY <1>3, <2>2
      <3>2. PICK q \in inFlight[o] : s = [q EXCEPT !.alone = FALSE]
        BY <3>1
      <3>3. PICK r \in inFlight[o] : t = [r EXCEPT !.alone = FALSE]
        BY <3>1
      <3>4. QED
        BY <1>7, <3>2, <3>3
    <2>3. QED
      BY <2>1, <2>2
  <1>8. QED
    BY <1>5, <1>6, <1>7

-----------------------------------------------------------------------------
(* The inductive invariant.                                                 *)

LEMMA InitDurability == ProgramInit => DurabilityIInv
  <1> SUFFICES ASSUME ProgramInit PROVE DurabilityIInv
    OBVIOUS
  <1>1. Copies = {DefaultData1}
    BY DEF ProgramInit, Copies
  <1>2. Readable(DefaultData1)
    BY DEF Readable, DefaultData1
  <1>3. settled = {} /\ \A c \in Clients : inFlight[c] = {}
    BY DEF ProgramInit
  <1>4. QED
    BY <1>1, <1>2, <1>3 DEF DurabilityIInv, Promised

\* What the steps of the proof below share.
LEMMA DurabilityFacts ==
  ASSUME ProgramIInv, ProgramIInv', DurabilityIInv, [ProgramNext]_vars
  PROVE  /\ highest \in Nat /\ highest' \in Nat /\ highest <= highest'
         /\ status' = "up" => Now' \in Nat /\ Now' <= highest'
         /\ Now \in Durations
         /\ ProgramTypeOK /\ Copies \subseteq Data1
         /\ data1 \in Data1 /\ data1' \in Data1 /\ disk1 \subseteq Data1 /\ settled \subseteq Data1
         /\ \A c \in Clients : \A save \in inFlight[c] : save.data \in Data1 /\ save.data \in Copies
         /\ \A kept \in settled :
              /\ \A d \in disk1 : KeepsAt(kept, d, highest')
              /\ \A c \in Clients : \A save \in inFlight[c] : KeepsAt(kept, save.data, highest')
              /\ status # "down" => KeepsAt(kept, data1, highest')
         /\ \A c \in Clients : \A save \in inFlight[c] :
              save.alone => KeepsAt(save.data, data1, highest')
  <1>1. /\ ProgramTypeOK /\ ClocksTypeOK /\ ClocksTypeOK'
        /\ status = "up" => Now <= highest
        /\ status' = "up" => Now' <= highest'
    BY DEF ProgramIInv, ClocksIInv
  <1>2. Now \in Durations /\ Now' \in Durations
    BY <1>1 DEF ClocksTypeOK, Data2, MonotonicClock, Now
  <1>3. highest \in Nat /\ highest' \in Nat /\ highest <= highest'
    BY <1>1, ClocksStep, HighestGrows
  <1>4. Now' \in Nat
    BY <1>2, ChronicAssumption DEF Durations
  <1>5. /\ data1 \in Data1 /\ data1' \in Data1 /\ disk1 \subseteq Data1 /\ settled \subseteq Data1
        /\ \A c \in Clients : inFlight[c] \subseteq Save
    BY DEF ProgramIInv, ProgramTypeOK
  <1>6. \A c \in Clients : \A save \in inFlight[c] : save.data \in Data1 /\ save.data \in Copies
    BY <1>5 DEF Save, Copies
  <1>7. \A kept \in settled :
              /\ \A d \in disk1 : KeepsAt(kept, d, highest')
              /\ \A c \in Clients : \A save \in inFlight[c] : KeepsAt(kept, save.data, highest')
              /\ status # "down" => KeepsAt(kept, data1, highest')
    BY <1>3, <1>5, <1>6, KeepsLater DEF DurabilityIInv, Promised
  <1>8. \A c \in Clients : \A save \in inFlight[c] :
              save.alone => KeepsAt(save.data, data1, highest')
    BY <1>3, <1>5, <1>6, KeepsLater DEF DurabilityIInv, IsCurrent
  <1>9. QED
    BY <1>1, <1>2, <1>3, <1>4, <1>5, <1>6, <1>7, <1>8, CopiesType

\* Steps that leave the data, the file and the saves alone.
LEMMA DurabilityIdle ==
  ASSUME ProgramIInv, ProgramIInv', DurabilityIInv, [ProgramNext]_vars,
         Environment \/ ClockSaveEnds \/ UNCHANGED vars
  PROVE  DurabilityIInv'
  <1>1. UNCHANGED dataVars /\ status' = status
    BY DEF Environment, ClockSaveEnds, SaveData2Ends, Tick, SetWall, vars, clockVars
  <1>2. data1' = data1 /\ inFlight' = inFlight /\ disk1' = disk1 /\ settled' = settled
    BY <1>1 DEF dataVars
  <1>3. Copies' = Copies
    BY <1>2 DEF Copies
  <1>4. Promised'
    BY <1>1, <1>2, DurabilityFacts DEF Promised
  <1>5. \A c \in Clients : \A save \in inFlight'[c] : save.alone => IsCurrent(save)'
    BY <1>2, DurabilityFacts DEF DurabilityIInv, IsCurrent
  <1>6. QED
    BY <1>1, <1>2, <1>3, <1>4, <1>5 DEF DurabilityIInv

\* The file is created, the program launched, or it dies: no save is under way after.
LEMMA DurabilityRestart ==
  ASSUME ProgramIInv, ProgramIInv', DurabilityIInv, [ProgramNext]_vars,
         CreateData1File \/ Launch \/ Crash
  PROVE  DurabilityIInv'
  <1>1. Readable(DefaultData1) /\ \A d \in Copies : Readable(d)
    BY DEF Readable, DefaultData1, DurabilityIInv
  <1>2. disk1 \subseteq Copies
    BY DEF Copies
  <1>3. SUFFICES /\ \A c \in Clients : inFlight'[c] = {}
                 /\ settled' = settled
                 /\ disk1' = {} => settled' = {}
                 /\ \A d \in {data1'} \union disk1' : Readable(d)
                 /\ \A kept \in settled :
                      /\ \A d \in disk1' : KeepsAt(kept, d, highest')
                      /\ status' # "down" => KeepsAt(kept, data1', highest')
    <2>1. \A d \in Copies' : Readable(d)
      BY <1>3 DEF Copies
    <2>2. Promised'
      BY <1>3 DEF Promised
    <2>3. QED
      BY <1>3, <2>1, <2>2 DEF DurabilityIInv
  <1>4. CASE CreateData1File
    <2>1. /\ status = "down" /\ status' = status /\ disk1 = {} /\ disk1' = {DefaultData1}
          /\ UNCHANGED <<data1, inFlight, settled>>
      BY <1>4 DEF CreateData1File, clockVars
    <2>2. settled = {} /\ \A c \in Clients : inFlight[c] = {}
      BY <2>1 DEF DurabilityIInv
    <2>3. data1 \in Copies
      BY DEF Copies
    <2>4. QED
      BY <1>1, <2>1, <2>2, <2>3
  <1>5. CASE Launch
    <2>1. PICK saved \in disk1 : data1' = ReadBack(saved)
      BY <1>5 DEF Launch
    <2>2. status = "down" /\ UNCHANGED <<inFlight, disk1, settled>>
      BY <1>5 DEF Launch, LaunchFirst, LaunchAgain
    <2>3. data1' = saved
      BY <1>1, <1>2, <2>1, ReadBackIsSame, DurabilityFacts
    <2>4. QED
      BY <1>1, <1>2, <2>1, <2>2, <2>3, DurabilityFacts DEF DurabilityIInv
  <1>6. CASE Crash
    <2>1. /\ status' = "down" /\ data1' = DefaultData1 /\ UNCHANGED <<disk1, settled>>
          /\ \A c \in Clients : inFlight'[c] = {}
      BY <1>6 DEF Crash, CrashClocks
    <2>2. QED
      BY <1>1, <1>2, <2>1, DurabilityFacts DEF DurabilityIInv
  <1>7. QED
    BY <1>4, <1>5, <1>6

\* The loop removes what is dead.
LEMMA DurabilityLoop ==
  ASSUME ProgramIInv, ProgramIInv', DurabilityIInv, [ProgramNext]_vars,
         Start \/ Synchronization
  PROVE  DurabilityIInv'
  <1>1. /\ data1' = RemoveDead(data1, Now') /\ UNCHANGED <<inFlight, disk1, settled>>
        /\ status' = "up" /\ status # "down"
    BY DEF Start, Synchronization, StartLoop, TimerFires, Synchronize, Now
  <1>2. /\ data1'.vaults = data1.vaults
        /\ data1'.conditionals \subseteq data1.conditionals
    BY <1>1, DurabilityFacts DEF RemoveDead, Data1
  <1>3. \A d \in Copies' : Readable(d)
    <2>1. Copies' \subseteq Copies \union {data1'} /\ data1 \in Copies
      BY <1>1 DEF Copies
    <2>2. QED
      BY <1>2, <2>1 DEF DurabilityIInv, Readable
  <1>4. \A kept \in Data1 : KeepsAt(kept, data1, highest') => KeepsAt(kept, data1', highest')
    BY <1>1, DurabilityFacts, KeepsAlive
  <1>5. Promised'
    BY <1>1, <1>4, DurabilityFacts DEF Promised
  <1>6. \A c \in Clients : \A save \in inFlight'[c] : save.alone => IsCurrent(save)'
    <2>1. \A c \in Clients : \A save \in inFlight[c] : save.alone =>
            /\ save.data.vaults = data1'.vaults
            /\ data1'.conditionals \subseteq save.data.conditionals
            /\ KeepsAt(save.data, data1', highest')
      BY <1>2, <1>4, DurabilityFacts DEF DurabilityIInv, IsCurrent
    <2>2. QED
      BY <1>1, <2>1 DEF IsCurrent
  <1>7. QED
    BY <1>1, <1>3, <1>5, <1>6 DEF DurabilityIInv

\* A request changes memory, and begins the save of what it made of it.
LEMMA DurabilityRequest ==
  ASSUME ProgramIInv, ProgramIInv', DurabilityIInv, [ProgramNext]_vars,
         NEW c \in Clients, Request(c)
  PROVE  DurabilityIInv'
  <1>1. Handle(c, data1')
    BY RequestIsRequested, DurabilityFacts
  <1>2. /\ status = "up" /\ status' = "up" /\ disk1' = disk1 /\ highest' = highest
        /\ Copies' \subseteq Copies \union {data1'}
    BY <1>1, HandleCopies, DurabilityFacts DEF clockVars
  <1>3. /\ \A t \in inFlight'[c] :
             t.data = data1' /\ (t.alone => \A o \in Clients : inFlight'[o] # {} => o = c)
        /\ \A o \in Clients : \A t \in inFlight'[o] :
             o # c => ~t.alone /\ \E s \in inFlight[o] : t.data = s.data
        /\ \A o \in Clients : \A s, t \in inFlight'[o] : s = t
    BY <1>1, HandleSaves, DurabilityFacts DEF DurabilityIInv
  <1>4. \A kept \in settled :
          /\ \A d \in disk1 : KeepsAt(kept, d, highest)
          /\ \A o \in Clients : \A s \in inFlight[o] : KeepsAt(kept, s.data, highest)
          /\ KeepsAt(kept, data1, highest)
    BY <1>2 DEF DurabilityIInv, Promised
  <1>5. /\ \A kept \in settled' :
             /\ \A d \in disk1 : KeepsAt(kept, d, highest)
             /\ \A o \in Clients : \A s \in inFlight[o] : KeepsAt(kept, s.data, highest)
             /\ KeepsAt(kept, data1', highest)
        /\ settled = {} => settled' = {}
        /\ Readable(data1')
    <2>1. Readable(data1)
      BY DEF DurabilityIInv, Copies
    <2>2. CASE settled' = settled /\ Grows(data1, data1')
      <3>1. Readable(data1')
        BY <2>1, <2>2 DEF Grows
      <3>2. \A kept \in settled : KeepsAt(kept, data1', highest)
        BY <1>4, <2>2, KeepsGrown, DurabilityFacts
      <3>3. QED
        BY <1>4, <2>2, <3>1, <3>2
    <2>3. ASSUME NEW name \in Names, NEW vault \in VaultsNamed(data1, name),
                 data1' = [data1 EXCEPT !.vaults = @ \ {vault}],
                 settled' = {[kept EXCEPT !.vaults = @ \ VaultsNamed(kept, name)] : kept \in settled}
          PROVE  <1>5!1 /\ <1>5!2 /\ <1>5!3
      <3>1. /\ data1'.conditionals = data1.conditionals /\ data1'.vaults = data1.vaults \ {vault}
            /\ vault.name = name
        BY <2>3, DurabilityFacts DEF Data1, VaultsNamed
      <3>2. Readable(data1')
        BY <2>1, <3>1 DEF Readable
      <3>3. ASSUME NEW old \in settled
            PROVE  LET kept == [old EXCEPT !.vaults = @ \ VaultsNamed(old, name)]
                   IN  /\ \A d \in disk1 : KeepsAt(kept, d, highest)
                       /\ \A o \in Clients : \A s \in inFlight[o] : KeepsAt(kept, s.data, highest)
                       /\ KeepsAt(kept, data1', highest)
        <4> DEFINE kept == [old EXCEPT !.vaults = @ \ VaultsNamed(old, name)]
        <4>1. old \in Data1
          BY DurabilityFacts
        <4>2. /\ \A d \in disk1 : KeepsAt(kept, d, highest)
              /\ \A o \in Clients : \A s \in inFlight[o] : KeepsAt(kept, s.data, highest)
              /\ KeepsAt(kept, data1, highest)
          BY <1>4, <4>1, KeepsWithout
        <4>3. \A v \in kept.vaults : v.name # name
          BY <4>1 DEF Data1, VaultsNamed
        <4> HIDE DEF kept
        <4>4. KeepsAt(kept, data1', highest)
          BY <3>1, <4>2, <4>3 DEF KeepsAt
        <4>5. QED
          BY <4>2, <4>4 DEF kept
      <3>4. ASSUME NEW kept \in settled'
            PROVE  /\ \A d \in disk1 : KeepsAt(kept, d, highest)
                   /\ \A o \in Clients : \A s \in inFlight[o] : KeepsAt(kept, s.data, highest)
                   /\ KeepsAt(kept, data1', highest)
        <4>1. PICK old \in settled : kept = [old EXCEPT !.vaults = @ \ VaultsNamed(old, name)]
          BY <2>3, <3>4
        <4>2. QED
          BY <3>3, <4>1
      <3>5. settled = {} => settled' = {}
        BY <2>3
      <3>6. QED
        BY <3>2, <3>4, <3>5
    <2>4. QED
      BY <2>2, <2>3, RequestGrows, DurabilityFacts
  <1>6. Promised'
    <2>1. \A kept \in settled' : \A o \in Clients : \A t \in inFlight'[o] :
            KeepsAt(kept, t.data, highest)
      BY <1>3, <1>5
    <2>2. QED
      BY <1>2, <1>5, <2>1 DEF Promised
  <1>7. \A o \in Clients : \A t \in inFlight'[o] :
          t.alone => IsCurrent(t)' /\ \A p \in Clients : p # o => inFlight'[p] = {}
    <2>1. KeepsAt(data1', data1', highest')
      BY KeepsItself, DurabilityFacts
    <2>2. QED
      BY <1>3, <2>1 DEF IsCurrent
  <1>8. \A d \in Copies' : Readable(d)
    BY <1>2, <1>5 DEF DurabilityIInv
  <1>9. QED
    BY <1>2, <1>3, <1>5, <1>6, <1>7, <1>8 DEF DurabilityIInv

\* A save ends; if nothing overlapped it and it succeeds, what it saved is promised.
LEMMA DurabilitySave ==
  ASSUME ProgramIInv, ProgramIInv', DurabilityIInv, [ProgramNext]_vars,
         NEW c \in Clients, SaveData1Ends(c)
  PROVE  DurabilityIInv'
  <1>1. /\ inFlight' = [inFlight EXCEPT ![c] = {}]
        /\ data1' = data1 /\ status' = status /\ highest' = highest
    BY DEF SaveData1Ends, SaveData1Succeeds, SaveData1Fails, clockVars
  <1>2. \A o \in Clients : inFlight'[o] \subseteq inFlight[o]
    BY <1>1, DurabilityFacts DEF ProgramTypeOK
  <1>3. PICK save \in inFlight[c] :
          \/ disk1' = disk1 /\ settled' = settled
          \/ disk1' = {save.data} /\ settled' = IF save.alone THEN {save.data} ELSE settled
    <2>1. inFlight[c] # {}
      BY DEF SaveData1Ends, SaveData1Succeeds, SaveData1Fails
    <2>2. QED
      BY <2>1 DEF SaveData1Ends, SaveData1Succeeds, SaveData1Fails
  <1>4. save.data \in Data1 /\ save.data \in Copies /\ status = "up"
    BY DurabilityFacts DEF DurabilityIInv
  <1>5. \A d \in Copies' : Readable(d)
    <2>1. Copies' \subseteq Copies
      BY <1>1, <1>2, <1>3, <1>4 DEF Copies
    <2>2. QED
      BY <2>1 DEF DurabilityIInv
  <1>6. Promised'
    <2>1. CASE settled' = settled /\ disk1' \in {disk1, {save.data}}
      BY <1>1, <1>2, <2>1, DurabilityFacts DEF Promised
    <2>2. CASE save.alone /\ disk1' = {save.data} /\ settled' = {save.data}
      <3>1. \A o \in Clients : inFlight'[o] = {}
        BY <1>1, <1>2, <2>2, DurabilityFacts DEF DurabilityIInv, ProgramTypeOK
      <3>2. KeepsAt(save.data, save.data, highest') /\ KeepsAt(save.data, data1', highest')
        BY <1>1, <1>4, <2>2, KeepsItself, DurabilityFacts
      <3>3. QED
        BY <2>2, <3>1, <3>2 DEF Promised
    <2>3. QED
      BY <1>3, <2>1, <2>2
  <1>7. \A o \in Clients : \A t \in inFlight'[o] :
          t.alone => IsCurrent(t)' /\ \A p \in Clients : p # o => inFlight'[p] = {}
    BY <1>1, <1>2 DEF DurabilityIInv, IsCurrent
  <1>8. QED
    BY <1>1, <1>2, <1>3, <1>4, <1>5, <1>6, <1>7 DEF DurabilityIInv

LEMMA DurabilityStep ==
  ProgramIInv /\ ProgramIInv' /\ DurabilityIInv /\ [ProgramNext]_vars => DurabilityIInv'
  BY DurabilityIdle, DurabilityRestart, DurabilityLoop, DurabilityRequest, DurabilitySave
     DEF ProgramNext

\* The inductive invariant of durability.
THEOREM DurabilityInvariant == ProgramSpec => []DurabilityIInv
  <1>1. QED
    BY InitDurability, ProgramInvariant, DurabilityStep, PTL DEF ProgramSpec

-----------------------------------------------------------------------------
(* The properties.                                                          *)

\* Whatever was saved while nothing overlapped the save is in data_1.json after any
\* later saves, failures and crashes (program.ts, saveData1; storage.ts).
THEOREM SavedDataSurvives == ProgramSpec => []SettledSurvives
  <1>1. DurabilityIInv => SettledSurvives
    BY DEF DurabilityIInv, Promised, KeepsAt, SettledSurvives, VaultsNamed
  <1>2. QED
    BY <1>1, DurabilityInvariant, PTL

\* A save that nothing overlaps makes the file hold all that memory holds, the
\* changes whose own save failed included (procedures.ts, saveData1).
THEOREM LoneSavesCatchUp == ProgramSpec => LoneSaveCatchesUp
  <1>1. ASSUME ProgramIInv, DurabilityIInv, [ProgramNext]_vars,
               NEW c \in Clients, NEW save \in inFlight[c],
               status' = "up", inFlight'[c] = {}, save.alone, disk1' # disk1,
               NEW d \in disk1'
        PROVE  d.vaults = data1.vaults /\ data1.conditionals \subseteq d.conditionals
    <2>1. IsCurrent(save) /\ \A o \in Clients : o # c => inFlight[o] = {}
      BY <1>1 DEF DurabilityIInv
    <2>2. \E o \in Clients : SaveData1Succeeds(o)
      <3>1. ~CreateData1File
        BY <1>1 DEF CreateData1File, DurabilityIInv
      <3>2. ~Environment /\ ~Launch /\ ~Start /\ ~Synchronization /\ ~ClockSaveEnds /\ ~Crash
        BY <1>1 DEF Environment, Launch, Start, Synchronization, ClockSaveEnds, Crash, dataVars
      <3>3. \A o \in Clients : ~SaveData1Fails(o)
        BY <1>1 DEF SaveData1Fails
      <3>4. \A o \in Clients : ~Request(o)
        BY <1>1, RequestIsRequested DEF ProgramIInv, Handle
      <3>5. QED
        BY <1>1, <3>1, <3>2, <3>3, <3>4 DEF ProgramNext, SaveData1Ends, vars, dataVars
    <2>3. PICK o \in Clients : \E s \in inFlight[o] : disk1' = {s.data}
      BY <2>2 DEF SaveData1Succeeds
    <2>4. o = c
      BY <2>1, <2>3
    <2>5. d = save.data
      BY <1>1, <2>3, <2>4 DEF DurabilityIInv
    <2>6. QED
      BY <2>1, <2>5 DEF IsCurrent
  <1>2. ProgramIInv /\ DurabilityIInv /\ [ProgramNext]_vars
          => [\A c \in Clients : \A save \in inFlight[c] :
                (status' = "up" /\ inFlight'[c] = {} /\ save.alone /\ disk1' # disk1) =>
                  \A d \in disk1' : d.vaults = data1.vaults /\ data1.conditionals \subseteq d.conditionals]_vars
    BY <1>1
  <1>3. QED
    BY <1>2, ProgramInvariant, DurabilityInvariant, PTL DEF ProgramSpec, LoneSaveCatchesUp

-----------------------------------------------------------------------------
(* What users/mod.ts answers, for every user, list, clock and number of     *)
(* clients: a restriction that was promised holds, and an allowance is left.*)

\* A conditional that was promised is in memory, or its time was served.
LEMMA PromisedIsHeldOrServed ==
  ASSUME ProgramIInv, DurabilityIInv, status = "up", backSteps = 0,
         NEW kept \in settled, NEW c \in kept.conditionals
  PROVE  c \in data1.conditionals \/ wall > origin + c.lifetime.from + c.lifetime.duration
  <1>1. c.lifetime \in Countdown /\ c \in Conditional
    BY DEF ProgramIInv, ProgramTypeOK, Data1, Conditional
  <1>2. KeepsAt(kept, data1, highest)
    BY DEF DurabilityIInv, Promised
  <1>3. CASE IsFinished(c.lifetime, highest)
    <2>1. highest \in Nat /\ Now \in Nat /\ highest <= Now
      BY ReadingHasPassed, ChronicAssumption
         DEF ReadingInv, ProgramIInv, ClocksIInv, ClocksTypeOK, ForwardInv, Now, Durations
    <2>2. IsFinished(c.lifetime, Now)
      BY <1>1, <1>3, <2>1, FinishedLater
    <2>3. QED
      BY <1>1, <2>2, FinishedIsServed DEF ProgramIInv
  <1>4. QED
    BY <1>2, <1>3 DEF KeepsAt

\* Time that has passed in the world since the file was created.
Served(countdown) == wall > origin + countdown.from + countdown.duration

\* What was promised in kept is promised in new, or its time is over.
StandsIn(kept, new) ==
  /\ \A c \in kept.conditionals : c \in new.conditionals \/ Served(c.lifetime)
  /\ \A v \in kept.vaults :
       \/ \E w \in VaultsNamed(new, v.name) : GetTill(w.protection) >= GetTill(v.protection)
       \/ Served(v.protection)

LEMMA StandsInItself ==
  ASSUME NEW kept \in Data1
  PROVE  StandsIn(kept, kept)
  BY KeepsItself DEF StandsIn, KeepsAt, VaultsNamed

\* Served in full, though the end of a countdown is capped at the longest duration.
LEMMA LaterEndIsServed ==
  ASSUME ClocksIInv, status = "up", backSteps = 0,
         NEW v \in Countdown, NEW w \in Countdown, GetTill(w) >= GetTill(v), IsFinished(w, Now)
  PROVE  Served(v)
  <1>1. /\ v.from \in Nat /\ v.duration \in Nat /\ w.from \in Nat /\ w.duration \in Nat
        /\ MaxMilliseconds \in Nat
    BY CountdownIsNat, ChronicAssumption
  <1>2. Now \in Nat /\ Now <= MaxMilliseconds
    BY ChronicAssumption DEF ClocksIInv, ClocksTypeOK, Data2, MonotonicClock, Now, Durations
  <1>3. Now > w.from + w.duration
    BY <1>1, <1>2 DEF IsFinished, IsPending, TillOrZero
  <1>4. w.from + w.duration >= v.from + v.duration
    BY <1>1, <1>2, <1>3 DEF GetTill, PlusOrMax
  <1>5. wall \in Nat /\ origin \in Nat /\ origin + Now <= wall
    BY ReadingHasPassed DEF ReadingInv
  <1>6. QED
    BY <1>1, <1>2, <1>3, <1>4, <1>5 DEF Served

\* A vault that is deleted had served every promise about it.
LEMMA DeletedIsServed ==
  ASSUME ProgramIInv, DurabilityIInv, backSteps = 0, NEW c \in Clients, NEW name \in Names,
         DeleteVault(c, name), NEW kept \in settled, NEW v \in VaultsNamed(kept, name)
  PROVE  Served(v.protection)
  <1>1. PICK vault \in VaultsNamed(data1, name) : MayDelete(vault) /\ status = "up"
    BY DEF DeleteVault, Handle
  <1>2. PICK w \in data1.vaults :
          w.name = v.name /\ GetTill(w.protection) >= GetTill(v.protection)
    BY <1>1 DEF DurabilityIInv, Promised, KeepsAt, VaultsNamed
  <1>3. w = vault
    BY <1>1, <1>2 DEF ProgramIInv, Copies, Sound, Unambiguous, VaultsNamed
  <1>4. /\ w.protection \in Countdown /\ w.protection \in Countdowns(data1)
        /\ v.protection \in Countdown
    BY <1>2 DEF ProgramIInv, ProgramTypeOK, Data1, Vault, Countdowns, VaultsNamed
  <1>5. ~IsPending(w.protection, Now)
    BY <1>1, <1>4, StartedCountdowns DEF NothingIsPending
  <1>6. Now \in Nat /\ w.protection.from \in Nat /\ w.protection.duration \in Nat
    BY <1>1, <1>4, CountdownIsNat, ReadingHasPassed DEF ReadingInv, ProgramIInv
  <1>7. IsFinished(w.protection, Now)
    BY <1>1, <1>3, <1>5, <1>6 DEF MayDelete, IsRunning, IsFinished, IsPending, TillOrZero
  <1>8. QED
    BY <1>1, <1>2, <1>4, <1>7, LaterEndIsServed DEF ProgramIInv

\* A save that nothing overlapped promises what was promised before.
LEMMA SettlingKeeps ==
  ASSUME ProgramIInv, DurabilityIInv, backSteps = 0, NEW c \in Clients, NEW save \in inFlight[c],
         NEW kept \in settled
  PROVE  StandsIn(kept, save.data)
  <1>1. KeepsAt(kept, save.data, highest) /\ status = "up"
    BY DEF DurabilityIInv, Promised
  <1>2. ASSUME NEW k \in kept.conditionals, IsFinished(k.lifetime, highest)
        PROVE  Served(k.lifetime)
    <2>1. k.lifetime \in Countdown
      BY DEF ProgramIInv, ProgramTypeOK, Data1, Conditional
    <2>2. highest \in Nat /\ Now \in Nat /\ highest <= Now
      BY <1>1, ReadingHasPassed, ChronicAssumption
         DEF ReadingInv, ProgramIInv, ClocksIInv, ClocksTypeOK, ForwardInv, Now, Durations
    <2>3. IsFinished(k.lifetime, Now)
      BY <1>2, <2>1, <2>2, FinishedLater
    <2>4. QED
      BY <1>1, <2>1, <2>3, FinishedIsServed DEF ProgramIInv, Served
  <1>3. QED
    BY <1>1, <1>2 DEF KeepsAt, StandsIn, VaultsNamed

\* How a step changes what is promised: not at all, by what a save wrote, or by
\* giving up a vault.
LEMMA SettledChanges ==
  ASSUME ProgramIInv, [ProgramNext]_vars
  PROVE  \/ settled' = settled
         \/ \E c \in Clients : \E save \in inFlight[c] : settled' = {save.data}
         \/ \E c \in Clients : \E name \in Names :
              /\ DeleteVault(c, name)
              /\ settled' = {[kept EXCEPT !.vaults = @ \ VaultsNamed(kept, name)] : kept \in settled}
  <1>1. ASSUME NEW c \in Clients, Request(c)
        PROVE  \/ settled' = settled
               \/ \E name \in Names :
                    /\ DeleteVault(c, name)
                    /\ settled' = {[kept EXCEPT !.vaults = @ \ VaultsNamed(kept, name)] : kept \in settled}
    <2>1. ProgramTypeOK /\ Now \in Durations
      BY DEF ProgramIInv, ClocksIInv, ClocksTypeOK, Data2, MonotonicClock, Now
    <2>2. QED
      BY <1>1, <2>1, RequestGrows
  <1>2. ASSUME NEW c \in Clients, SaveData1Ends(c)
        PROVE  settled' = settled \/ \E save \in inFlight[c] : settled' = {save.data}
    BY <1>2 DEF SaveData1Ends, SaveData1Succeeds, SaveData1Fails
  <1>3. CASE \/ Environment \/ CreateData1File \/ Launch \/ Start \/ Synchronization
             \/ ClockSaveEnds \/ Crash \/ UNCHANGED vars
    BY <1>3 DEF Environment, CreateData1File, Launch, Start, Synchronization,
       ClockSaveEnds, Crash, dataVars, vars
  <1>4. QED
    BY <1>1, <1>2, <1>3 DEF ProgramNext

\* One Data1 is promised at a time.
LEMMA SettledIsOne == ProgramSpec => [](\A a, b \in settled : a = b)
  <1>1. ProgramInit => \A a, b \in settled : a = b
    BY DEF ProgramInit
  <1>2. ProgramIInv /\ (\A a, b \in settled : a = b) /\ [ProgramNext]_vars
          => (\A a, b \in settled : a = b)'
    BY SettledChanges
  <1>3. QED
    BY <1>1, <1>2, ProgramInvariant, PTL DEF ProgramSpec

\* The promise of the daemon, over any number of crashes, failed and overlapping
\* saves: what a client was once told is saved ends in no other way than by its time
\* being served in real time; until then it is promised on, a vault with an end no
\* earlier (program.ts, procedures.ts, vault.ts and storage.ts together).
THEOREM PromisesEndOnlyWhenServed ==
  ProgramSpec =>
    [][backSteps = 0 =>
         \A kept \in settled : settled' # {} /\ \A new \in settled' : StandsIn(kept, new)]_vars
  <1> DEFINE One == \A a, b \in settled : a = b
  <1>1. ASSUME ProgramIInv, DurabilityIInv, One, [ProgramNext]_vars, backSteps = 0,
               NEW kept \in settled
        PROVE  settled' # {} /\ \A new \in settled' : StandsIn(kept, new)
    <2>1. kept \in Data1 /\ settled = {kept}
      BY <1>1 DEF ProgramIInv, ProgramTypeOK
    <2>2. CASE settled' = settled
      BY <2>1, <2>2, StandsInItself
    <2>3. ASSUME NEW c \in Clients, NEW save \in inFlight[c], settled' = {save.data}
          PROVE  settled' # {} /\ \A new \in settled' : StandsIn(kept, new)
      BY <1>1, <2>3, SettlingKeeps
    <2>4. ASSUME NEW c \in Clients, NEW name \in Names, DeleteVault(c, name),
                 settled' = {[old EXCEPT !.vaults = @ \ VaultsNamed(old, name)] : old \in settled}
          PROVE  settled' # {} /\ \A new \in settled' : StandsIn(kept, new)
      <3> DEFINE new == [kept EXCEPT !.vaults = @ \ VaultsNamed(kept, name)]
      <3>1. settled' = {new}
        BY <2>1, <2>4
      <3>2. new.conditionals = kept.conditionals /\ new.vaults = kept.vaults \ VaultsNamed(kept, name)
        BY <2>1 DEF Data1
      <3> HIDE DEF new
      <3>3. ASSUME NEW v \in VaultsNamed(kept, name)
            PROVE  Served(v.protection)
        BY <1>1, <2>4, DeletedIsServed
      <3>4. \A v \in kept.vaults : GetTill(v.protection) \in Nat
        BY <2>1, CountdownIsNat DEF Data1, Vault
      <3>5. StandsIn(kept, new)
        BY <3>2, <3>3, <3>4 DEF StandsIn, VaultsNamed
      <3>6. QED
        BY <3>1, <3>5
    <2>5. QED
      BY <1>1, <2>2, <2>3, <2>4, SettledChanges
  <1>2. ProgramIInv /\ DurabilityIInv /\ One /\ [ProgramNext]_vars
          => [backSteps = 0 =>
                \A kept \in settled : settled' # {} /\ \A new \in settled' : StandsIn(kept, new)]_vars
    BY <1>1
  <1>3. ProgramSpec => []One
    BY SettledIsOne
  <1> HIDE DEF One
  <1>4. QED
    BY <1>2, <1>3, ProgramInvariant, DurabilityInvariant, PTL DEF ProgramSpec

\* A countdown that a running program holds is running.
LEMMA HeldIsRunning ==
  ASSUME ProgramIInv, status = "up", backSteps = 0, NEW c \in data1.conditionals
  PROVE  IsRunning(c.lifetime, Now)
  <1>1. c.lifetime \in Countdowns(data1) /\ c.lifetime \in Countdown
    BY DEF Countdowns, ProgramIInv, ProgramTypeOK, Data1, Conditional
  <1>2. ~IsPending(c.lifetime, Now)
    BY <1>1, StartedCountdowns DEF NothingIsPending
  <1>3. ~IsFinished(c.lifetime, Now)
    BY DEF ProgramIInv, NoneIsDead
  <1>4. Now \in Nat /\ c.lifetime.from \in Nat /\ c.lifetime.duration \in Nat
    BY <1>1, CountdownIsNat, ReadingHasPassed DEF ReadingInv, ProgramIInv
  <1>5. QED
    BY <1>2, <1>3, <1>4 DEF IsFinished, IsRunning, IsPending, TillOrZero

\* A countdown conditional on the screen whose save nothing overlapped keeps its
\* user from the screen until it was served in real time, through crashes and
\* failed saves (users/mod.ts, shouldBlockScreen; conditionals/union.ts, isActive).
THEOREM SettledCountdownsBlock == RegulationSpec => []SettledCountdownBlocks
  <1>1. ProgramIInv /\ DurabilityIInv => SettledCountdownBlocks
    <2> SUFFICES ASSUME ProgramIInv, DurabilityIInv, status = "up", backSteps = 0,
                        NEW kept \in settled, NEW c \in kept.conditionals,
                        c.location.list = "screen", c.demand.tag = "Countdown",
                        ~(wall > origin + c.lifetime.from + c.lifetime.duration)
                 PROVE  ShouldBlockScreen(c.location.user)
      BY DEF SettledCountdownBlocks
    <2>1. c \in data1.conditionals
      BY PromisedIsHeldOrServed
    <2>2. IsActive(c, Now, wall, data2.uptime.daily)
      BY <2>1, HeldIsRunning DEF IsActive
    <2>3. QED
      BY <2>1, <2>2 DEF ShouldBlockScreen, ScreenConditionals
  <1>2. QED
    BY <1>1, ProgramInvariant, DurabilityInvariant, PTL DEF RegulationSpec

\* An uptime allowance blocks only when more of the day has passed than it allows
\* (conditionals/uptime_allowance.ts, isAllowanceUp; chronic/uptime_clock.ts).
THEOREM AllowancesAreLeft == RegulationSpec => []AllowanceIsLeft
  <1>1. ProgramIInv => AllowanceIsLeft
    <2> SUFFICES ASSUME ProgramIInv, status = "up", backSteps = 0,
                        NEW c \in data1.conditionals, c.demand.tag = "UptimeAllowance",
                        IsActive(c, Now, wall, data2.uptime.daily)
                 PROVE  data2.uptime.prev - DateOf(data2.uptime.prev) > c.demand.allowance
      BY DEF AllowanceIsLeft
    <2>1. data2.uptime.daily > c.demand.allowance
      BY DEF IsActive, IsAllowanceUp
    <2>2. data2.uptime.daily <= data2.uptime.prev - DateOf(data2.uptime.prev)
      BY DEF ProgramIInv, ClocksIInv, ForwardInv, Snapshots, Accurate
    <2>3. c.demand \in Demands /\ data2.uptime.daily \in Durations /\ data2.uptime.prev \in Nat
      BY DEF ProgramIInv, ProgramTypeOK, Data1, Conditional,
             ClocksIInv, ClocksTypeOK, Data2, UptimeClock
    <2>4. c.demand.allowance \in Durations
      <3>1. c.demand \notin [tag : {"Countdown"}]
        OBVIOUS
      <3>2. c.demand \notin [tag : {"TimeRange"}, range : TimeRange]
        OBVIOUS
      <3>3. c.demand \in [tag : {"UptimeAllowance"}, allowance : Durations]
        BY <2>3, <3>1, <3>2 DEF Demands
      <3>4. QED
        BY <3>3
    <2>5. DateOf(data2.uptime.prev) \in Int
      BY <2>3, DateIsPast
    <2>6. data2.uptime.daily \in Nat /\ c.demand.allowance \in Nat
      BY <2>3, <2>4, ChronicAssumption DEF Durations
    <2>7. QED
      BY <2>1, <2>2, <2>3, <2>5, <2>6
  <1>2. QED
    BY <1>1, ProgramInvariant, PTL DEF RegulationSpec
=============================================================================
