------------------------------ MODULE Program -------------------------------
(***************************************************************************)
(* The primitive daemon: program/program.ts, program/procedures.ts and the *)
(* request handlers of server.ts, on top of the clocks.  Data1 - the       *)
(* conditionals of the users and the vaults - is changed by requests and   *)
(* by the synchronisation loop, saved to data_1.json by requests only, and *)
(* restored from that file after a crash, independently of the clocks.     *)
(*                                                                         *)
(* A handler runs without interruption up to its await of saveData1; its   *)
(* client waits for the answer while other handlers and the loop run.      *)
(* As in Clocks, a save replaces the file whole or leaves it alone.        *)
(***************************************************************************)
EXTENDS Clocks

CONSTANTS
  Clients,          \* the requests that can be under way at once
  Locations,        \* ConditionalLocation: a user and one of his two lists
  Names,            \* the vault names requests use
  Spans,            \* the durations requests ask for
  Times,            \* the times of day requests ask for
  MaxConditionals,  \* maximumConditionalNumber
  MaxVaults,        \* maximumVaultNumber
  MaxProtection,    \* Vault.maximumProtectionDuration
  FiveMinutes,      \* by how much a request prolongs the protection of a vault
  MinAllowance,     \* UptimeAllowanceConditional.MINIMUM_ALLOWANCE
  MaxAllowance,     \* UptimeAllowanceConditional.MAXIMUM_ALLOWANCE
  MaxLifetime       \* UptimeAllowanceConditional.MAXIMUM_LIFETIME

ASSUME ProgramAssumption ==
  /\ Spans \subseteq Durations
  /\ Times \subseteq TimesOfDay
  /\ MaxConditionals \in Nat
  /\ MaxVaults \in Nat
  /\ MaxProtection \in Durations
  /\ FiveMinutes \in Durations
  /\ {MinAllowance, MaxAllowance, MaxLifetime} \subseteq Durations

VARIABLES
  data1,     \* Data1 in memory
  inFlight,  \* for each client, the save its request waits for, if any
  disk1,     \* data_1.json: the empty set before it exists, else one snapshot
  settled    \* history: the last Data1 whose save ended well with no other under way

dataVars == <<data1, inFlight, disk1, settled>>
vars     == <<clockVars, dataVars>>

\* What a conditional asks for, by its tag.
Demands == [tag : {"Countdown"}]
             \union [tag : {"TimeRange"}, range : TimeRange]
             \union [tag : {"UptimeAllowance"}, allowance : Durations]

\* The four lists of conditionals are one set: a conditional knows its list, no
\* code depends on their order, and n tells equal conditionals apart.
Conditional == [n : Nat, location : Locations, demand : Demands, lifetime : Countdown]
Vault       == [name : Names, protection : Countdown]
Data1       == [conditionals : SUBSET Conditional, vaults : SUBSET Vault]
Save        == [data : Data1, alone : BOOLEAN]

ProgramTypeOK ==
  /\ data1 \in Data1
  /\ inFlight \in [Clients -> SUBSET Save]
  /\ disk1 \subseteq Data1
  /\ settled \subseteq Data1

DefaultData1 == [conditionals |-> {}, vaults |-> {}]

Now == data2.mono.elapsed
Countdowns(d)  == {c.lifetime : c \in d.conditionals} \union {v.protection : v \in d.vaults}
VaultNames(d)  == {v.name : v \in d.vaults}
VaultsNamed(d, name) == {v \in d.vaults : v.name = name}

-----------------------------------------------------------------------------
(* Data1 and its file.                                                      *)

\* What Data1Deserialize makes of what Data1Serialize wrote: everything comes
\* back but the time ranges, which come back as RangeReadBack says.
ConditionalReadBack(c) ==
  IF c.demand.tag = "TimeRange" THEN [c EXCEPT !.demand.range = RangeReadBack(@)] ELSE c

ReadBack(d) == [d EXCEPT !.conditionals = {ConditionalReadBack(c) : c \in @}]

\* Mutant: a conditional is dead when its time is up to the end, not when it has passed.
RemoveDeadPending(d, now) ==
  [d EXCEPT !.conditionals = {c \in @ : ElapsedTimeOrZero(c.lifetime, now) < c.lifetime.duration}]

\* Conditionals.removeDead of the four lists.
RemoveDead(d, now) ==
  [d EXCEPT !.conditionals = {c \in @ : ~IsFinished(c.lifetime, now)}]

-----------------------------------------------------------------------------
(* The process.                                                             *)

ProgramInit ==
  /\ ClocksInit
  /\ data1 = DefaultData1
  /\ inFlight = [c \in Clients |-> {}]
  /\ disk1 = {}
  /\ settled = {}

Environment ==
  /\ Tick \/ \E t \in 0..MaxWall : SetWall(t)
  /\ UNCHANGED dataVars

\* Program.launch: storage1.get when data_1.json does not exist.
CreateData1File ==
  /\ status = "down"
  /\ disk1 = {}
  /\ disk1' = {DefaultData1}
  /\ UNCHANGED <<clockVars, data1, inFlight, settled>>

\* Program.launch: both files are read, the second one created if need be.
Launch ==
  /\ LaunchFirst \/ LaunchAgain
  /\ \E saved \in disk1 : data1' = ReadBack(saved)
  /\ UNCHANGED <<inFlight, disk1, settled>>

\* Mutant: the first pass of the loop leaves the lists alone.
StartWithoutRemoval ==
  /\ StartLoop
  /\ UNCHANGED dataVars

\* The end of Program.launch: the server is started and the loop runs once.
Start ==
  /\ StartLoop
  /\ data1' = RemoveDead(data1, SynchronizedData2.mono.elapsed)
  /\ UNCHANGED <<inFlight, disk1, settled>>

\* Program.synchronize: the clocks, then the four lists; only Data2 is saved.
Synchronization ==
  /\ TimerFires
  /\ data1' = RemoveDead(data1, SynchronizedData2.mono.elapsed)
  /\ UNCHANGED <<inFlight, disk1, settled>>

ClockSaveEnds ==
  /\ \E saved \in saves2 : SaveData2Ends(saved)
  /\ UNCHANGED dataVars

Crash ==
  /\ CrashClocks
  /\ data1' = DefaultData1
  /\ inFlight' = [c \in Clients |-> {}]
  /\ UNCHANGED <<disk1, settled>>

-----------------------------------------------------------------------------
(* The requests.  A request that is refused changes nothing and is left out. *)

\* Mutant: saveData1 is called before the change is made.
HandleLate(c, d) ==
  /\ status = "up"
  /\ inFlight[c] = {}
  /\ data1' = d
  /\ LET quiet == \A o \in Clients : inFlight[o] = {}
     IN  inFlight' = [o \in Clients |->
                        IF o = c THEN {[data |-> data1, alone |-> quiet]}
                        ELSE {[s EXCEPT !.alone = FALSE] : s \in inFlight[o]}]
  /\ UNCHANGED <<clockVars, disk1>>

\* A handler changes Data1 to d and awaits saveData1.
Handle(c, d) ==
  /\ status = "up"
  /\ inFlight[c] = {}
  /\ data1' = d
  /\ LET quiet == \A o \in Clients : inFlight[o] = {}
     IN  inFlight' = [o \in Clients |->
                        IF o = c THEN {[data |-> d, alone |-> quiet]}
                        ELSE {[s EXCEPT !.alone = FALSE] : s \in inFlight[o]}]
  /\ UNCHANGED <<clockVars, disk1>>

MayAddConditional(d) == Cardinality(d.conditionals) < MaxConditionals

\* A number no conditional of d bears: the model's, to tell equal ones apart.
FreshNumber(d) ==
  CHOOSE n \in 0..Cardinality(d.conditionals) : \A c \in d.conditionals : c.n # n

\* addConditional.
WithConditional(d, location, demand, lifetime) ==
  [d EXCEPT !.conditionals = @ \union
     {[n        |-> FreshNumber(d),
       location |-> location,
       demand   |-> demand,
       lifetime |-> [from |-> Now, duration |-> lifetime]]}]

CreateCountdownConditional(c, location, duration) ==
  /\ MayAddConditional(data1)
  /\ Handle(c, WithConditional(data1, location, [tag |-> "Countdown"], duration))
  /\ UNCHANGED settled

\* The handler makes both ends of the range from the parameters of the first
\* (server.ts, line 170).
RequestedRange(from, till) == FromTimes(from, from)

CreateTimeRangeConditional(c, location, from, till, lifetime) ==
  /\ MayAddConditional(data1)
  /\ Handle(c, WithConditional(data1, location,
                 [tag |-> "TimeRange", range |-> RequestedRange(from, till)], lifetime))
  /\ UNCHANGED settled

\* UptimeAllowanceConditional.create.
IsAllowance(allowance, lifetime) ==
  /\ MinAllowance <= allowance /\ allowance <= MaxAllowance
  /\ lifetime <= MaxLifetime

CreateUptimeAllowanceConditional(c, location, allowance, lifetime) ==
  /\ MayAddConditional(data1)
  /\ IsAllowance(allowance, lifetime)
  /\ Handle(c, WithConditional(data1, location,
                 [tag |-> "UptimeAllowance", allowance |-> allowance], lifetime))
  /\ UNCHANGED settled

\* Mutant: the limit is off by one.
MayAddVaultTooMany(d, name) ==
  /\ Cardinality(d.vaults) <= MaxVaults
  /\ VaultsNamed(d, name) = {}

\* Mutant: the name is not looked up.
MayAddVaultTwice(d, name) == Cardinality(d.vaults) < MaxVaults

MayAddVault(d, name) ==
  /\ Cardinality(d.vaults) < MaxVaults
  /\ VaultsNamed(d, name) = {}

CreateVault(c, name, protection) ==
  /\ MayAddVault(data1, name)
  /\ Handle(c, [data1 EXCEPT !.vaults = @ \union
       {[name |-> name, protection |-> [from |-> Now, duration |-> protection]]}])
  /\ UNCHANGED settled

\* Mutant: the protection ends with the last sync that was not later than its end.
MayDeleteEarly(vault) == GetTill(vault.protection) <= Now

\* Not Vault.isProtected: a protection that is pending protects nothing.
MayDelete(vault) == ~IsRunning(vault.protection, Now)

\* The client gives up what an earlier answer promised.
DeleteVault(c, name) ==
  \E vault \in VaultsNamed(data1, name) :
    /\ MayDelete(vault)
    /\ Handle(c, [data1 EXCEPT !.vaults = @ \ {vault}])
    /\ settled' = {[kept EXCEPT !.vaults = @ \ VaultsNamed(kept, name)] : kept \in settled}

\* Mutant: the extension is not reduced to what the maximum leaves.
ProlongedUnbounded(countdown, now, factor) ==
  IF IsFinished(countdown, now)
  THEN [from |-> now, duration |-> Shortest(MaxProtection, factor)]
  ELSE ExtendByOrSetToMax(countdown, factor)

\* Mutant: the extended duration is not capped at the longest one.
ProlongedUncapped(countdown, now, factor) ==
  IF IsFinished(countdown, now)
  THEN [from |-> now, duration |-> Shortest(MaxProtection, factor)]
  ELSE [countdown EXCEPT !.duration = @ + factor]

\* Vault.extendProtectionByOrSetToMaxSafeValue.
Prolonged(countdown, now, factor) ==
  LET remaining == RemainingTimeOrZero(countdown, now)
  IN  IF IsFinished(countdown, now)
      THEN [from |-> now, duration |-> Shortest(MaxProtection, factor)]
      ELSE ExtendByOrSetToMax(countdown,
             IF PlusOrMax(factor, remaining) > MaxProtection
             THEN MinusOrZero(MaxProtection, remaining)
             ELSE factor)

ProlongVaultProtection(c, name) ==
  \E vault \in VaultsNamed(data1, name) :
    /\ Handle(c, [data1 EXCEPT !.vaults = (@ \ {vault}) \union
         {[vault EXCEPT !.protection = Prolonged(@, Now, FiveMinutes)]}])
    /\ UNCHANGED settled

\* saveData1 ends, and its client is answered.  Saves end in any order.
SaveData1Succeeds(c) ==
  \E save \in inFlight[c] :
    /\ inFlight' = [inFlight EXCEPT ![c] = {}]
    /\ disk1' = {save.data}
    /\ settled' = IF save.alone THEN {save.data} ELSE settled
    /\ UNCHANGED <<clockVars, data1>>

\* The answer is "internal error", although Data1 in memory stays changed.
SaveData1Fails(c) ==
  /\ inFlight[c] # {}
  /\ inFlight' = [inFlight EXCEPT ![c] = {}]
  /\ UNCHANGED <<clockVars, data1, disk1, settled>>

SaveData1Ends(c) == SaveData1Succeeds(c) \/ SaveData1Fails(c)

Request(c) ==
  \/ \E l \in Locations, span \in Spans :
       \/ CreateCountdownConditional(c, l, span)
       \/ \E from, till \in Times : CreateTimeRangeConditional(c, l, from, till, span)
       \/ \E allowance \in Spans : CreateUptimeAllowanceConditional(c, l, allowance, span)
  \/ \E name \in Names :
       \/ \E span \in Spans : CreateVault(c, name, span)
       \/ DeleteVault(c, name)
       \/ ProlongVaultProtection(c, name)

ProgramNext ==
  \/ Environment
  \/ CreateData1File \/ Launch \/ Start \/ Synchronization \/ ClockSaveEnds \/ Crash
  \/ \E c \in Clients : Request(c) \/ SaveData1Ends(c)

ProgramSpec == ProgramInit /\ [][ProgramNext]_vars

-----------------------------------------------------------------------------
(* Correctness.                                                             *)

\* data_1.json and data_2.json are saved independently, and the clocks without
\* being waited for; still, after any crash, no countdown starts in the future of
\* the restored clock, as long as the wall clock was never set back.  (A pending
\* countdown would neither restrict nor protect anything.)
NothingIsPending ==
  (status = "up" /\ backSteps = 0) =>
    \A countdown \in Countdowns(data1) : ~IsPending(countdown, Now)

\* A running program holds no conditional whose time has passed, although the
\* loop never saves the removal and a crash brings the dead ones back.
NoneIsDead ==
  (status = "up") => \A c \in data1.conditionals : ~IsFinished(c.lifetime, Now)

\* Every Data1 there is: in memory, in the saves under way and in the file.
Copies ==
  {data1} \union disk1 \union {save.data : save \in UNION {inFlight[c] : c \in Clients}}

\* The limits hold although other requests change Data1 and save it while a handler
\* awaits: in memory, in every save under way and in the file, which is what the
\* program holds after a crash.
WithinLimits ==
  \A d \in Copies :
    Cardinality(d.conditionals) <= MaxConditionals /\ Cardinality(d.vaults) <= MaxVaults

\* No two vaults share a name, wherever the data is.
NamesAreUnique ==
  \A d \in Copies : \A v, w \in d.vaults : v.name = w.name => v = w

\* What was saved while no other save was under way survives every crash, failure
\* and overlapping save after it: each vault until it is deleted, protected at
\* least as long, and each conditional, unchanged, until its time has passed.  A
\* save that others overlapped promises nothing here, although its client is
\* answered with success: an older snapshot may land after it, and a crash then
\* loses the request.
SettledSurvives ==
  \A kept \in settled : \A d \in disk1 :
    /\ \A c \in kept.conditionals : c \in d.conditionals \/ IsFinished(c.lifetime, highest)
    /\ \A v \in kept.vaults : \E w \in VaultsNamed(d, v.name) :
         GetTill(w.protection) >= GetTill(v.protection)

\* A save can fail after memory was changed, and its client is told so; the change
\* is not lost and not undone by halves: the next save that nothing overlaps makes
\* the file hold all that memory holds, earlier changes and deletions included.
LoneSaveCatchesUp ==
  [][\A c \in Clients : \A save \in inFlight[c] :
       (status' = "up" /\ inFlight'[c] = {} /\ save.alone /\ disk1' # disk1) =>
         \A d \in disk1' : d.vaults = data1.vaults /\ data1.conditionals \subseteq d.conditionals]_vars

\* A vault of a running program disappears only once its protection was served in
\* real time, crashes and lost saves included, if the wall clock was never set back.
ProtectionIsServed ==
  [][(status = "up" /\ status' = "up" /\ backSteps = 0) =>
       \A v \in data1.vaults :
         v.name \notin VaultNames(data1')
           => wall > origin + v.protection.from + v.protection.duration]_vars

\* So does a conditional.
LifetimeIsServed ==
  [][(status = "up" /\ status' = "up" /\ backSteps = 0) =>
       \A c \in data1.conditionals :
         c \notin data1'.conditionals
           => wall > origin + c.lifetime.from + c.lifetime.duration]_vars

\* Nothing brings the end of a protection forward, and nothing prolongs it beyond
\* the maximum, or beyond what it was created with.
ProtectionOnlyGrows ==
  [][(status = "up" /\ status' = "up") =>
       \A v \in data1.vaults : \A w \in VaultsNamed(data1', v.name) :
         /\ GetTill(w.protection) >= GetTill(v.protection)
         /\ RemainingTimeOrZero(w.protection, Now)
              <= Longest(RemainingTimeOrZero(v.protection, Now), MaxProtection)]_vars

\* What the handler's error text says of the second Time it makes ("from parameters
\* 'till-minute' and 'till-hour'"): the range ends when the request asks it to.
RangesEndAsRequested ==
  [][\A c \in Clients, l \in Locations, from, till \in Times, span \in Spans :
       CreateTimeRangeConditional(c, l, from, till, span) =>
         \E new \in data1'.conditionals \ data1.conditionals :
           new.demand = [tag |-> "TimeRange", range |-> FromTimes(from, till)]]_vars
=============================================================================
