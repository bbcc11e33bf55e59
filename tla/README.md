# Discipline: a formal model

Discipline is a self-discipline application: a user imposes restrictions on himself
(*conditionals*, *rules*) that block the screen, the Internet or applications, and locks
secrets away in *vaults*, both for a time that he cannot shorten afterwards. What makes such
a program correct is that time is measured honestly: across restarts, crashes, failed
writes and a wall clock that jumps, no restriction may end early, none may last for ever,
and nothing a user was told is saved may be lost.

The repository holds several implementations of the idea, most of them unfinished. The one
that is complete and runs is the *primitive daemon*
(`src/discipline_daemon_primitive_ts`, a Deno program). It is the core of this model.

Contents: [inventory](#1-inventory-of-the-system), [the modules](#2-the-modules-and-the-code),
[the runs](#3-the-runs), [the proofs](#4-the-proofs), [disagreements
found](#5-where-the-code-and-its-texts-disagree), [what is not
modelled](#6-what-is-not-modelled), [plan](#7-plan).

Below, *D* is `src/discipline_daemon_primitive_ts`, *K* is
`src/discipline_kt/app/src/main/java/com/example/app`, *R* is
`src/discipline_daemon_lib/src`.

## 1. Inventory of the system

### The primitive daemon (*D*)

| component | state | operations | interacts with |
|---|---|---|---|
| values of time (`chronic/`) | none: immutable `Duration`, `Instant`, `DateTime`, `Date`, `Time`, `TimeRange`; `Countdown` with a mutable duration | saturating sums, "or zero" differences, status of a countdown, ranges that pass midnight | everything |
| clocks (`chronic/monotonic_clock.ts`, `chronic/uptime_clock.ts`) | elapsed time, or daily uptime; the last synchronisation | `create`, `synchronize`, `getNow`, `getToday`, `getTime` | `Program.synchronize` drives them; every request reads them |
| storage (`storage.ts`) | an actual and a temp file per `Storage` | `get` (`atomicRead`: read, or create with the default), `set` (`atomicWrite`: write the temp file, rename) | `Program` owns two: `data_1.json`, `data_2.json` |
| program (`program/program.ts`) | `Data1` (conditionals, vaults, limits), `Data2` (the clocks), `didSynchronizeSinceSystemBoot` | `launch`, `startSynchronizationLoop`, `synchronize`, `saveData1`, `saveData2` | reads both files, starts the server, runs the loop on a timer |
| procedures (`program/procedures.ts`) | the program's | create a countdown, time range or uptime allowance conditional; create, delete, prolong a vault | called by the server; change `Data1`, await its save |
| vaults, conditionals (`vaults/`, `conditionals/`) | one countdown each | `isProtected`, `extendProtectionByOrSetToMaxSafeValue`; `isAlive`, `isActive`, `removeDead` | procedures and the loop |
| server (`server.ts`), page (`html.ts`) | none | parse a request, call a procedure, answer with a page; the page's forms and links are the requests a user makes | HTTP clients |
| serialization (`serialization.ts`) | a cursor over tokens | to and from text, for both data | storage |
| users (`users/mod.ts`) | two lists of conditionals per user | `shouldBlockScreen`, `shouldBlockInternet` | no caller yet |

The process is single-threaded: a handler runs uninterrupted up to an `await`. What
interleaves is therefore: handlers that wait for their save, the synchronisation loop, the
saves themselves (each a sequence of system calls on a thread pool), and the process dying
between any two of these.

Hard behaviours, and what correctness means there:

* *two files saved independently.* Requests save `data_1.json` and wait; the loop saves
  `data_2.json` (the clocks) and does not. After a crash the program combines an older clock
  with newer data. Nothing may then start "in the future" of the clock, and no protection may
  end early because the clock was restored.
* *time.* The wall clock jumps, stands still (suspend) or is set back. The monotonic clock
  must be monotonic across processes, the daily uptime may never exceed the day.
* *overlapping saves.* `Storage.set` is called by concurrent requests on one temp file.
* *partial failure.* Any system call of a save can fail; memory is already changed then.
* *checks before an await.* Limits and name uniqueness are checked, then the handler waits.
* *removal in memory only.* Dead conditionals are dropped without a save and reappear after a
  crash.
* *saturation.* Durations saturate at a maximum; nothing may wrap or stop too early there.

### The other implementations

* **Android, Kotlin** (*K*): rules ("always", "time range", "time allowance") with enablers
  (countdown, countdown after plea), counters kept beside SQLite tables (`state/`), the calls
  of the user interface on them (`operations/`), a second version of the clocks (`chronic/`),
  and services that call the platform's device policy. `database/Database.kt` holds unresolved
  merge markers; the project does not compile. Correctness: counters equal the rows they
  count; a rule that is enabled cannot be deleted; time advances.
* **Rust library** (*R*) **and PAM module** (`src/discipline_linux_pam_module`): user profiles
  with an index by user name (`launcher/linux/profiles.rs`), rules and procedures, a third
  version of the clocks, and the protocol by which the login module asks the daemon whether a
  user may enter. Parts are `todo!()`. Correctness: nobody is denied whom no profile of his
  blocks; whatever fails between the module and the daemon lets the user in; while nothing
  fails a blocked user is not let in; a reply belongs to its question; every call returns.
* **TypeScript core and Android application** (`src/discipline_ts`): a rewrite of rules and
  statistics; a service with a worker thread whose handlers are empty.
* **Client** (`src/discipline_client_ts`): a copy of the primitive daemon; program,
  procedures, storage and serialization are the same files byte for byte.
* **User interfaces** (`src/discipline_slint`, `src/discipline_web_ui`): no state of their own.
* **Vendored** (`src/dependencies`): third-party.

`PROJECT.json` lists each of these with its status.

## 2. The modules and the code

```
Chronic <- Clocks <- Program <- MCProgram
                        ^  ^--- Regulation <- MCRegulation
                        |       Server     <- MCServer
           ClocksProofs <- ProgramProofs <- DurabilityProofs (of Regulation, too)
                                        <- ServerProofs
Chronic <- Codec <- MCCodec, CodecProofs
AtomicFile <..(refinement).. Storage <- StorageProofs
AndroidRules <- AndroidRegulations <- MCAndroidRegulations, AndroidRulesProofs
PamLogin <- MCPamLogin, PamLoginProofs
```
(`<-`: is extended by. Server implements Program, Program implements Clocks, and Storage with
one saver implements AtomicFile.)

**Chronic** — the values of `D/chronic` as naturals, their operations as operators of the same
names. A unit of time is whatever grain a configuration picks; `MsPerDay` units make a day and
`MaxMilliseconds` is where durations saturate. Only the differences between saturating,
"or zero" and plain arithmetic matter to the properties, and they are kept. `RangeTill` and
`RangeReadBack` keep the off-by-one of `TimeRange.getTill`.

**Clocks** — `Data2` and its life: `Synchronize` is `Program.synchronize`, `StartLoop` the first
pass of `startSynchronizationLoop` at the end of `launch`, `TimerFires` the later ones (not
before `Interval` units of real time passed since the last), `LaunchFirst` / `LaunchAgain` what
`storage2.get` returns without and with a file, `SaveData2Ends` the end, good or bad and in any
order, of a save nobody waits for, `CrashClocks` the death of the process. The environment is
`Tick` (time passes) and `SetWall` (the wall clock is set, or the machine was suspended).
The variables `origin` and `highest` are history: when the clocks were created and the latest
Instant ever given out.

**Program** extends Clocks with `Data1`: the six requests, each the whole handler up to its
`await saveData1()`, `SaveData1Succeeds` and `SaveData1Fails` (the rest of the handler), `Launch`, `Start` and
`Synchronization`, which add `removeDead` to the actions of the clocks. A client has at most
one request under way; several clients overlap freely. A request that is refused changes
nothing and is therefore not an action. The four lists of conditionals are one set whose
elements know their list (no code depends on the order; `n` keeps equal ones apart). `settled`
is history: the last `Data1` whose save ended well without another one under way. Saves are
atomic here, the same assumption as in Clocks; Storage examines it.

**Storage** — one `Storage` object at the level of system calls: open-and-truncate, write,
rename, mkdir, each of which can fail; names and open descriptors are separate, so that a save
can write a file whose name another save has already moved. `exists`, `temp`, `actual` are the
directory, `content` what the files hold (`Empty`, `Torn`, or a version of the data), `pc`,
`saving` and `fd` the state of each call of `atomicWrite`. `Crash` may cut a write short. Loss
of power, after which the file system itself may have lost what was not synced, is left out.

**AtomicFile** — what `atomicWrite` promises by its name: a file that a save replaces at one
instant or not at all. `Storage` implements it when saves do not overlap
(`IsAtomicFile`, model-checked and proved), which is what Clocks and Program assume.

**Regulation** extends Program with the question the daemon exists for, `shouldBlockScreen` and
`shouldBlockInternet` of `D/users/mod.ts`, and `isActive` of the three kinds of conditionals.
The question changes nothing; it reads three clocks at once (Instant, daily uptime, wall clock),
and is asked of every state. Nothing in the daemon calls it yet.

**Codec** — `D/serialization.ts`: both files as a flat sequence of tokens in which nothing names
a field or ends a list. Each write and read operator is the source's function of that name; data
are added, written, and read back by later processes. It justifies what Program assumes of its
files: that they can be read, and that only the ends of overnight ranges change on the way.

**Server** extends Program with `D/server.ts` and the page of `D/html.ts`. A parameter of a
request is missing, an integer, `Infinite` (a text of so many digits that `parseInt` makes
Infinity of it), a name, data or location that its parser accepts, or another text that nothing
accepts. A handler either calls its procedure, with arguments made from the parameters as the
code makes them, and its client waits, or it refuses; `answers` is the status each client was
sent. `till` is made from the parameters of `from`, as the code does (`D/server.ts:170`), so that
a bad `till` is never refused. `new URL(request.url)` never throws for a request that the HTTP
server delivers; that branch is left out. `IsShown` is the page's decision to show a vault's
data, `Offered` the requests its forms and links can send.

**AndroidRules** (*K*) — the monotonic clock of the Android application, its countdowns, the two
kinds of conditionals and the enabler of a rule. `Instant.tillOrZero` and `sinceOrZero` are the
reverse of their comments (section 5); the model has them as they are. Nothing calls
`MonotonicClock.synchronize`, so the clock may be given any reading. An action is the part of an
operation that follows the lookup of the conditional, which is `TODO()` in the source.

**AndroidRegulations** extends it with rules in memory, regulations of applications, and the two
counters (`RulesStats`, `ApplicationRegulationsStats`) that limits are compared with. The three
kinds of rules are created and deleted by the same code three times (`TimeAllowanceRule` is the
one mapped). A rule created for an application that has no regulation any more is stored and
reported, and held nowhere: `HasPlace`. A request that fails in the database changes nothing.

**PamLogin** (*R* and the PAM module) — a login and the daemon: the calls PAM makes, the stream
between the two, one task of the daemon for each connection, and the profiles, which change
meanwhile. Each direction of a stream is a queue; a stream ends when either side closes it or
the daemon stops. The configuration, with the token that proves the module's identity, is
loaded anew for each connection and may be wrong. Outside the repository, and therefore free:
`pam_get_data`, `pam_get_user` and the configuration may fail at any call (`PamFails`), and so may
`pam_set_data` (`SetDataFails`): the connection it should have kept is dropped, and the next call
makes another. Real
Linux-PAM answers `PAM_NO_MODULE_DATA` to the first `pam_get_data`, which `glue.rs:32` treats as
an error, so that the module would never get further; the model also lets it succeed. A stream fails
because its other end is gone (`StreamFails`), or although it is whole: the message is too long, or
what arrives is none (`MessageFails`, and the read within `EstablishFails`); it is then shut while
its task still serves it. The token may fail to be written to a connection that was made
(`TokenIsNotWritten`). A dropped connection's task can do nothing that its login would notice, so
that a login has one task, the last connection's. `seen` is history: everything the daemon could
have said since the call began.

**MCProgram, MCRegulation, MCCodec, MCServer, MCAndroidRegulations, MCPamLogin** — small
instances for TLC. MCServer makes the requests: a complete one for every path, and every one that
differs from it in one parameter.

**ClocksProofs, StorageProofs, ProgramProofs, DurabilityProofs, ServerProofs, CodecProofs,
AndroidRulesProofs, PamLoginProofs** — theorems, see section 4.

Every definition that models code is listed in `PROJECT.json` under `map` with its lines.
Deaths of the process (`CrashClocks`, `Crash`, `Die`, `Stop`) are marked external there: no line of
the code does them.
Definitions marked *Mutant* in a comment are not used by any specification: they are the bug a
property was seen to catch (`PROJECT.json`, `mutants`).

## 3. The runs

| run | configuration | question |
|---|---|---|
| `clocks` | `MCClocks.cfg` | Are the clocks right under crashes, lost and reordered saves, and a wall clock that jumps both ways? |
| `storage_alone` | `MCStorageAlone.cfg` | Without overlap: is the file always whole, are promises kept, is it an `AtomicFile`? |
| `storage_overlap` | `MCStorageOverlap.cfg` | With overlap: does every save end, and does a later lone save repair the file? |
| `storage_torn` | `MCStorageTorn.cfg` | With overlap: is the file always whole? (No; section 5.) |
| `program_vaults` | `MCProgramVaults.cfg` | Two clients, up to two vaults, saves that overlap: are protections served, monotone and bounded, names unique, the limit kept; does what was saved alone survive; does a lone save catch up? |
| `program_ranges` | `MCProgramRanges.cfg` | Does a time range end when it was asked to? (No; section 5.) |
| `regulation` | `MCRegulation.cfg` | Conditionals of all kinds: does each live exactly as long as it should, and does it block meanwhile? |
| `codec` | `MCCodec.cfg` | Do the files give back what was written, process after process? |
| `server` | `MCServer.cfg` | Whatever is requested: only steps of Program, no vault shown early, and what the page offers understood? |
| `android` | `MCAndroidRegulations.cfg` | Do enabled rules stay, do the counters keep up and drift in one way only, does the clock only move forward? |
| `pam_login` | `MCPamLogin.cfg` | Is nobody denied or let in by mistake, and does every call return, while the daemon stops and profiles change? |
| `pam_closed` | `MCPamClosed.cfg` | Is a closed session told as closed? (No; section 5.) |

What the properties say:

* `NeverGoesBack`, `ClockMovesForward`: no Instant read is earlier than one given out before.
  Across processes this needs a wall clock that is not set back; within a process it does not.
* `UptimeWithinDay`: the daily uptime stays within the part of the day that has passed. It rests
  on `didSynchronizeSinceSystemBoot`: without it every restart would add an interval.
* `ActualIsWhole`, `PromisesAreKept`, `IsAtomicFile`: see AtomicFile. `LoneSaveHeals`, `SavesEnd`:
  what survives of it when saves overlap.
* `NothingIsPending`: after any crash, no countdown starts in the future of the restored clock.
  The reason is subtle: the clock save may be lost while `data_1.json` already holds a countdown
  that starts later than the restored reading, but the restored clock also restores its *previous
  synchronisation*, so that the first pass of the loop makes up for the loss before the server
  answers anyone. The mutant that resets that previous synchronisation breaks it.
* `NoneIsDead`, `LifetimeIsServed`: a running program holds no dead conditional; none disappears
  before its time has passed in real time.
* `ProtectionIsServed`, `ProtectionOnlyGrows`: a vault disappears only after its protection has
  passed in real time; prolonging neither brings the end forward nor exceeds the maximum.
* `SettledSurvives`: what a client was told is saved, by a save nothing overlapped, survives every
  crash, failure and overlapping save after it. A save that others overlapped promises nothing,
  although it too is answered with success (section 5). `LoneSaveCatchesUp`: a save that nothing overlaps makes the file hold all of memory, so that
  it makes up for earlier saves that failed.
* `WithinLimits`, `NamesAreUnique`: in every copy of the data (`Copies`): in memory, in every save
  under way and in the file.
* `SettledCountdownBlocks`: a countdown conditional on the screen that was saved keeps its user
  out, in every state in which the program runs, until it was served in real time. It joins the
  clocks, the survival of data and the question asked of both. `AllowanceIsLeft`: an allowance
  blocks only when that much of the day has passed.
* `FilesAreReadable`, `ReadsWhatWasWritten`: of the token streams. `RangesKeepApplying`: a range
  that passes midnight moves its end by one unit with every process that reads it, and still
  applies at the same times of day until the end has moved to the beginning.
* `ProgramSpec` (as a property of the server): no request, however malformed, makes the program
  do what the model of its procedures does not allow. `ShownOnlyOnceServed`: the page shows a
  vault's data only after its protection has passed in real time. `OffersAreUnderstood`: forms
  and handlers agree on paths, names and bounds; the one exception is stated in the property.
* `EnabledUntilTheEnd`, `EnabledRulesStay`: no plea, repeated or taken back, no deletion and no
  reading of the clock switches an enabled rule off before its time; only the regulation that
  holds it can go, as a whole. `ApplicationRegulation.isEnabled` demands an enabled rule of
  *each* of the three kinds, so that exception is wide. `CountersKeepUp`: no more rules than are
  counted, no more regulations than the maximum. `CountDriftsOnlyWithRegulations`: a counter that
  is too large comes from nothing but a regulation deleted with its rules; in particular a rule
  that is held nowhere is not counted.
* `DeniedOnlyWhenBlocked`, `AllowedOnlyWhenFree`: the answer to a login is one the daemon could
  have given at some moment of that call. `RepliesMatchQuestions`: a connection is kept for
  several calls, and no call reads a reply meant for an earlier one. `EveryCallReturns`.

**Bounds.** `MaxWall` limits the model's time; it is one to a few intervals and passes
midnights where the uptime matters, and the saturation point `MaxMilliseconds` lies within reach
in most runs, so that saturated values occur. `MaxBackSteps` is 1 where setting the clock back
matters, 0 where the property assumes it never happens. Two saves of the clocks in flight
(`MaxSaves`, in `clocks`) are enough for a reordering, two savers for an overlap, two clients for
every race between handlers, since each touches the shared data once. `MaxConditionals` and
`MaxVaults` are 0 in runs about the other kind. In `program_vaults` two vaults meet in overlapping
saves and there are three names, so that a third request meets the limit; the limit of
conditionals is 1 in `regulation`, and that it holds is the theorem `LimitsHold`. No span of that
run is longer than the maximum of a protection: one created longer is left to
`ProtectionsOnlyGrow`. `MaxVersion` bounds the values saved after
the default one: three in the run with overlap. `codec` has a day of three units, with every
range of it, two additions and three processes: enough for an end to drift past its beginning.
In `server` a minute is one unit, an hour two and a day four, so that a
minute and an hour differ and every bound of a parameter has a request on each side of it. In
`android` every kind of rule occurs once for one application and one rule belongs to the
screen; one regulation is the maximum and a second application meets it. In `pam_login` three
calls share connections over two stops of the daemon, with one profile at the beginning and
another that may come, both of the user. None of these bounds is in the theorems' hypotheses:
they are constants there.

**Fairness.** `storage_overlap` assumes weak fairness of each save's next call. The runtime hands
every call to a thread pool and resumes the continuation when it is done; no lock is waited for,
so an enabled step stays enabled until it is taken or the process dies. `pam_login` assumes weak
fairness of the module's steps within a call it began (the program that logs the user in goes
on) and of each task of the daemon (the runtime polls a task that can go on); neither calls nor
the return of a stopped daemon are promised. Streams have no timeouts, so `EveryCallReturns`
rests on these two: if a task neither answered nor ended, the login would wait for ever.
Deadlock is checked in every run but four, in which the system may stop: `storage_overlap` and
`storage_torn` with a file that cannot be read and the program down, `pam_login` and `pam_closed`
after the last call of a login.

## 4. The proofs

`tlapm` checks the following for every value of the constants, from the named assumptions in
the modules: the constants are naturals or durations, the day is not empty, there are finitely
many savers (`ChronicAssumption`, `ClocksAssumption`, `ProgramAssumption`, `StorageAssumption`),
the values that are written are of the types of the code (`CodecAssumption`), handlers make
only such values (`ServerAssumption`), rules and applications are finitely many and a countdown's
duration is one (`AndroidRulesAssumption`, `AndroidRegulationsAssumption`), every login and
profile has a name (`PamLoginAssumption`).

**ClocksProofs.** The invariant `ClocksIInv` says: as long as the wall clock was not set back,
*every* snapshot a launch could restore — in memory, in flight or on disk — is `Accurate`: it
reads what a clock created at `origin` should read at the wall time it was taken, and its daily
uptime is within that day. The property itself is not inductive: it says nothing of snapshots
that are still on their way to the disk. Two arithmetical lemmas carry the step: adding the time
that passed to an accurate reading gives an accurate one even when it saturates
(`SynchronizedElapsed`), and a synchronisation that comes first after a boot, or at least
`Interval` after the previous one, keeps the uptime in the day (`SynchronizedUptime`). From it:
`ClocksTypeCorrect`, `MonotonicAcrossRestarts`, `UptimeBounded`, `MovesForward`.

**StorageProofs.** For one saver: where the saver is determines what its file holds
(`SaverInv`), and the two names never lead to one file (`FileInv`). `AloneIsWhole`,
`AloneKeepsPromises`, and the refinement `AloneIsAtomicFile`: `Set` and `Initialize` are
`StartSave`, `Rename` is `Commit`, failures and crashes are `Die`, everything else stutters.
`StorageTypeCorrect` holds for any number of savers, and so does `LoneSavesHeal`: whatever
overlapping saves, failures and crashes have left in the two files, the rename of a save that was
alone from its beginning to its end leaves the whole of its value in the actual file. Its
invariant (`OverlapIInv`) says of such a save what `SaverInv` says of the only one
(`LoneInv`), and that nobody else is busy; a save that began earlier and is still going on
takes the mark `alone` away from both, which is what the step `BeginIsLone` shows.
`SavesComeToAnEnd` is the part of `SavesEnd` that is about steps: with `StepsLeft`, at most five
for a save, each step of a save takes at least one away and nothing that happens to the others
gives one back. What is left to TLC is that fairness makes the steps happen.

**ProgramProofs.** `ProgramRunsClocks` shows that a Program's clocks are Clocks, so that all of
the above carries over. The invariant `ProgramIInv` adds that every *copy* of the data — in
memory, in a save under way, in the file — is `Sound`: within the limits, without two vaults of
one name, and without a countdown that starts after the latest Instant ever given out. Every
handler is one of four changes (`Requested`), each of which keeps a copy sound
(`RequestedKeeps`), as do removal of the dead and reading back. From it: `ProgramTypeCorrect`,
`CountdownsHaveStarted`, `DeadAreRemoved`, `LimitsHold`, `NamesStayUnique`; together with the
accuracy of the clock, `ProtectionsAreServed` and `LifetimesAreServed`; and with the arithmetic
of `ProlongedGrows`, `ProtectionsOnlyGrow`.

**DurabilityProofs.** `SavedDataSurvives` and `LoneSavesCatchUp`. The invariant
`DurabilityIInv` looks at *every* Data1 that may yet reach the file: the file, memory and each
save under way keep what was promised (`Promised`); a save that nothing has overlapped since it
began is current, that is, differs from memory at most by conditionals that died meanwhile
(`IsCurrent`), and it is the only one; no client has two saves. The property itself says nothing
of a save that began earlier and ends later. The proof uses that reading back changes no range
(`Readable`), which is so because the handler makes both ends of a range from the same
parameters (section 5): if that were mended, overnight ranges would drift, and the theorem
would have to be stated up to that drift.

`PromisesEndOnlyWhenServed` says how a promise ends: from one step to the next, whatever was
promised (`settled`) is promised on, a vault with an end no earlier, or its time was served in
real time, crashes and failed or overlapping saves included. A deletion is the case that takes
the argument: the vault in memory ends no earlier than the promised one (`Promised`), it is not
pending (`StartedCountdowns`), so it may be deleted only when it is over, and so is the promise,
although `GetTill` caps an end at the longest duration (`LaterEndIsServed`).

The module ends with the theorems about Regulation. `SettledCountdownsBlock` joins two invariants: what was promised is in memory or
finished by the clock (`DurabilityIInv`), what is in memory is neither pending nor finished
(`ProgramIInv`), and a finished countdown was served in real time. `AllowancesAreLeft` follows
from the invariant of the clocks.

**ServerProofs.** `ServerImplementsProgram`: every step of the server is one of Program or
leaves it alone, for *any* set of requests; hence all theorems about Program hold of the daemon
behind its server. `DataIsShownOnlyOnceServed`, `OffersAreAlwaysUnderstood`, `ServerTypeCorrect`.
They assume `ServerAssumption`: what a handler can make from its parameters is among the
durations and times of Program.

**CodecProofs.** `FilesCanBeRead`, `WhatIsReadWasWritten`, `RangesApplyOn`, for lists of every
length and any number of processes. Two arguments meet. The first is about the functions: what
a reader makes of the tokens its writer wrote is the value (a `...Written` lemma for each type),
whatever follows them, which is what makes a format without names or ends of lists readable.
Arrays are written and read by recursion over their length (`FlattenSeq`, `ReadItems`). That the
recursive functions exist, and the induction over the length, are derived in the
module from the well-foundedness of finite sets under inclusion (`LeastElement`, `SetInduction`,
`PrimitiveRecursion`), because the induction theorems of the library take an operator. The second
is the invariant `CodecIInv`: the files are what the writers make of the data they were written
from, and each range has drifted from the one that was asked for by at most one unit for each
launch, or all the way to its beginning (`Drifted`). The property is not inductive: it compares
the times at which a range applies, which does not tell how far its end has come.
`ReadsAreWellFormed` is about files nobody wrote: whatever tokens they hold, they are refused or
give values that the constructors accept.

**AndroidRulesProofs.** `AndroidClockMovesForward`, `RulesStayEnabled`, `RegulationsTypeCorrect`,
`CountersAreSafe`, `CountsDriftOnlyWithRegulations`, `EnabledRulesAreKept`. The lemma `NeverFinished`
carries `RulesStayEnabled`: the elapsed time of a countdown is capped with its duration and
compared with <=, so that a countdown that has begun is Running for ever. `CountersAreSafe`
rests on rules of deleted regulations staying counted; `CountDriftStep` shows that nothing else
moves the counter away from the rules in memory. `NoCountdownIsEverOver` and
`EnabledRulesStayForGood` say what follows: the properties `EnabledUntilTheEnd` and
`EnabledRulesStay` promise something only until a countdown is over, the code keeps it for good.

**PamLoginProofs.** `PamTypeCorrect`, `DenialsAreJustified`, `AdmissionsAreJustified`,
`RepliesAreThoseOfTheQuestions`. The invariant of a login (`LoginInv`) relates where the module
is, what is on the two wires and what the task does: an open stream is being established, quiet,
or has exactly one question that is unread, being judged, answered or lost with its task; a
verdict or reply under way is one the daemon could have given since the call began.
Two theorems hold what `EveryCallReturns` rests on. `NobodyWaitsForNothing`: while a call is under
way, its module or its task has something to do; the shapes of the wires rule out that each
waits for the other. `CallsComeNearerToTheirEnd`: with the pair of what the call has before it
(`Distance`) and what its task has to do (`Work`: unread messages first, then the reply it owes),
each of their steps lowers the pair and no other step, of PAM, of another login or of the daemon,
raises it. `AFailedStreamAsksNoMore` is about the flag that nothing sets (section 5).

**Only model-checked:** `SavesEnd` and `EveryCallReturns`: liveness under fairness, and that a step
whose guard holds is ENABLED, are out of the prover's reach. Their variants are proved, see
StorageProofs and PamLoginProofs.

## 5. Where the code and its texts disagree

1. `storage_torn`: two overlapping calls of `Storage.set` share the temp file. One can open and
   truncate it before, and fill it after, the other renames it, so that the actual file is empty
   or holds parts of two values (`D/storage.ts:66`), while the function says of itself "Atomically
   writing data to a file". A daemon that dies then cannot be launched again, because
   `deserialize` refuses the file. Clocks and Program take saves to be atomic; their results on
   what survives a crash hold where saves of one file do not overlap, or where the next save
   that ran alone has healed the file.
2. `program_ranges`: the handler that creates a time range makes the second `Time` from
   `fromHour` and `fromMinute` as well (`D/server.ts:170`), though its error text names
   "parameters 'till-minute' and 'till-hour'". Every range created through the server ends
   when it begins.
3. `pam_closed`: the method that sends a "UserSessionClosedNotification" writes that of an opened
   session (`R/launcher/linux/system/pam/protocol/client_connection.rs:403`).

Met while reading and modelling, and followed by the model without a run of their own:

* `D/chronic/countdown.ts:84`: the comment on `getRemainingTimeOrZero` says "if pending, returns
  `Duration.zero()`"; the code returns the whole duration.
* `D/html.ts:486` offers an allowance from 1 minute, 30 by default; `uptime_allowance.ts:12-14`
  refuses less than an hour, more than a day, and a lifetime above three days. The form as
  the page fills it in is always refused. `OffersAreUnderstood` names the exception.
* `D/users/mod.ts:64`: `shouldBlockInternet` reads the list of the screen.
* `D/program/procedures.ts:244`: two requests whose saves of `Data1` overlap are both answered with
  success, and nothing orders the saves: the older snapshot may land last. A crash before a later
  save that runs alone then loses the newer request. `SettledSurvives` therefore speaks only of
  saves that nothing overlapped.
* `D/vaults/vault.ts:45`: a protection whose countdown is pending does not protect. When the wall
  clock was set back and the last save of the clocks is lost with a crash, the restored clock may
  be behind the start of a vault's countdown, and the vault can be deleted. `NothingIsPending` and
  `ProtectionIsServed` assume a wall clock that was never set back.
* `K/chronic/Instant.kt:66-75`: `tillOrZero` and `sinceOrZero` subtract the other way round from
  their comments. Synchronising the clock with a later reading therefore adds nothing
  (`MonotonicClock.kt:37-40`).
* `K/chronic/Countdown.kt:43,59`: a countdown never becomes `Finished` ("Completed", lines 8-10),
  so a plea never switches a rule off, and a rule with a countdown stays enabled for ever. Proved
  as `NoCountdownIsEverOver` and `EnabledRulesStayForGood`.
* `K/operations/ApplicationRegulation.kt:72`: deleting a regulation with its rules leaves
  `RulesStats` as it was; the functions that compare it with its limit are never called.
* `R/.../client_connection.rs:41`: the flag `closed` that would make a later call connect again is
  never set; after a failure all later calls of that login let the user in at once. Proved as
  `AFailedStreamAsksNoMore`.
* `R/launcher/linux/profiles.rs:289-295`: a user added is not found by name until the daemon starts
  again, since the index is made only then.

## 6. What is not modelled

Of the parts that are modelled:

* Texts of errors and pages, printing, styles; byte layout of the PAM messages.
* Loss of power (as opposed to the death of the process). A torn file whose parts happen to
  parse as data is not modelled either: a torn file is one that cannot be read.
* Program takes a save to be one step. Storage examines that step; what Program says about crashes
  holds where saves of one file do not overlap, or a later one that ran alone has healed the file.
* The accepting loop of the PAM server (`protocol/server.rs`, commented out): a connection has
  its task from the moment it is made. `Daemon.open` is `todo!()`; the model lets a daemon that
  starts again have the profiles it had. Whether a profile blocks is a Boolean that changes: the
  rules behind it are not finished.

Parts with no module, because there is nothing yet that could be checked:

* *Rules, procedures and database of the Rust library*: creating a rule always reaches `todo!()`
  (`RuleEnablerCreator.create`, `reached_maximum_allowed_always_rules`), opening the daemon does
  too, the SQL is malformed, and the procedures do not pass the borrow checker. *Its clocks* have
  no caller: no loop, file or client whose steps they could take part in. Read on their own
  they have defects worth knowing: `monotonic_clock.rs:79-82` caps the *total* elapsed time with
  the synchronisation interval, which stops the clock; `countdown.rs:82-93` never returns Finished;
  `uptime_clock.rs` tests for a new week with the time since the beginning of the day.
* *Database of the Android application*: `Database.kt` holds unresolved merge markers (lines 15, 79,
  224) and `withTransaction` (8-13) never ends its transaction. *Its services* pass calls on to the
  platform. Operations on vaults are commented out; the functions of `state/x.kt` are older ones.
* *TypeScript core and Android service*: opening the core throws, the counters' operations and the
  worker's handlers are empty, the service's state is never set.
* *Client*: the same files as the primitive daemon's where it has behaviour, covered by the same
  modules.
* *Utilities* of the primitive daemon that it does not import (`utilities/server.ts`,
  `database.ts`), user interfaces, superseded designs, vendored code.

## 7. Plan

1. Program composed with two Storages instead of atomic saves, with a proof that what Program
   says survives holds once a lone save has healed the file (`LoneSavesHeal`).
2. A *Ledger* of promises (conditionals and vaults with their ends) as an abstract specification
   that Program implements; `PromisesEndOnlyWhenServed` is the step of it.
3. The rules of a user profile behind PamLogin's Boolean, once creating one is implemented; the
   profiles' storage, once the daemon can be opened.
4. The clock of the Android application against an abstract clock, once something
   synchronises it.
