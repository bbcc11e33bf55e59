------------------------------ MODULE Storage -------------------------------
(***************************************************************************)
(* storage.ts: one Storage, that is one actual file and the one temp file  *)
(* every save of it goes through.  Storage.set writes the temp file and    *)
(* renames it over the actual file; Storage.get reads the actual file and  *)
(* creates it when it does not exist.  Nothing keeps two calls of set      *)
(* apart: two requests save data_1.json, two timers data_2.json.           *)
(*                                                                         *)
(* The file system is modelled as far as the calls tell it apart: a        *)
(* directory that maps the two names to files, files with a content, and   *)
(* descriptors that stay on their file when a name moves.  Opening with    *)
(* create truncates; the calls of one save run on a thread pool, so those  *)
(* of two saves interleave.  A process that dies leaves the files as they  *)
(* are; a machine that loses power is not modelled (nothing is synced).    *)
(***************************************************************************)
EXTENDS Naturals, FiniteSets

CONSTANTS
  Savers,      \* the calls of atomicWrite that can be under way at once
  MaxVersion   \* bound: how many values are saved after the default one

ASSUME StorageAssumption ==
  /\ IsFiniteSet(Savers)
  /\ Savers # {}
  /\ MaxVersion \in Nat

Versions == 0..MaxVersion          \* the values in the order they are saved; 0 is the default
Empty    == MaxVersion + 1         \* a file just created or truncated
Torn     == MaxVersion + 2         \* parts of values that deserialize refuses
Contents == Versions \union {Empty, Torn}

None  == 0                         \* the name leads to no file
Files == 1..(Cardinality(Savers) + 2)

VARIABLES
  exists,   \* directoryPath exists
  temp,     \* the file tempFilePath leads to, or None
  actual,   \* the file actualFilePath leads to, or None
  content,  \* what each file holds
  pc,       \* where each call of atomicWrite is
  saving,   \* the value each call serialized when it began
  fd,       \* the file each call has open
  alone,    \* history: no other call was under way since this one began
  process,  \* "down", "initializing" (get creates the file) or "up"
  last,     \* the latest value of the data, as a version
  promised  \* history: the latest value whose save ended well

storageVars == <<exists, temp, actual, content, pc, saving, fd, alone,
                 process, last, promised>>

Steps == {"idle", "write", "mkdir", "writeAgain", "fill", "fillAgain", "rename"}

StorageTypeOK ==
  /\ exists \in BOOLEAN
  /\ temp \in Files \union {None}
  /\ actual \in Files \union {None}
  /\ content \in [Files -> Contents]
  /\ pc \in [Savers -> Steps]
  /\ saving \in [Savers -> Versions]
  /\ fd \in [Savers -> Files]
  /\ alone \in [Savers -> BOOLEAN]
  /\ process \in {"down", "initializing", "up"}
  /\ last \in Versions
  /\ promised \in Versions

Busy == {s \in Savers : pc[s] # "idle"}

StorageInit ==
  /\ exists \in BOOLEAN
  /\ temp = None
  /\ actual = None
  /\ content = [f \in Files |-> Empty]
  /\ pc = [s \in Savers |-> "idle"]
  /\ saving = [s \in Savers |-> 0]
  /\ fd = [s \in Savers |-> 1]
  /\ alone = [s \in Savers |-> FALSE]
  /\ process = "down"
  /\ last = 0
  /\ promised = 0

-----------------------------------------------------------------------------
(* atomicWrite.                                                             *)

\* A call of atomicWrite: the data is serialized before the first await.
Begin(s, v) ==
  /\ pc[s] = "idle"
  /\ pc' = [pc EXCEPT ![s] = "write"]
  /\ saving' = [saving EXCEPT ![s] = v]
  /\ alone' = [t \in Savers |-> t = s /\ Busy = {}]

\* Storage.set of a running program.
Set(s) ==
  /\ process = "up"
  /\ last < MaxVersion
  /\ last' = last + 1
  /\ Begin(s, last + 1)
  /\ UNCHANGED <<exists, temp, actual, content, fd, process, promised>>

\* A call ends with an error.  When it was get that called, the launch fails.
Fail(s) ==
  /\ pc' = [pc EXCEPT ![s] = "idle"]
  /\ process' = IF process = "initializing" THEN "down" ELSE process

\* Mutant: the descriptor is the one the name had before the open.
OpenTempStale(s) ==
  /\ pc[s] \in {"write", "writeAgain"}
  /\ exists
  /\ \E f \in Files :
       /\ IF temp = None
          THEN f # actual /\ \A t \in Busy : pc[t] \in {"fill", "fillAgain"} => fd[t] # f
          ELSE f = temp
       /\ temp' = f
       /\ content' = [content EXCEPT ![f] = Empty]
       /\ fd' = [fd EXCEPT ![s] = temp]
  /\ pc' = [pc EXCEPT ![s] = IF @ = "write" THEN "fill" ELSE "fillAgain"]
  /\ UNCHANGED <<exists, actual, saving, alone, process, last, promised>>

\* Mutant: an existing temp file is opened without truncating it.
OpenTempKeeping(s) ==
  /\ pc[s] \in {"write", "writeAgain"}
  /\ exists
  /\ \E f \in Files :
       /\ IF temp = None
          THEN f # actual /\ \A t \in Busy : pc[t] \in {"fill", "fillAgain"} => fd[t] # f
          ELSE f = temp
       /\ temp' = f
       /\ content' = IF temp = None THEN [content EXCEPT ![f] = Empty] ELSE content
       /\ fd' = [fd EXCEPT ![s] = f]
  /\ pc' = [pc EXCEPT ![s] = IF @ = "write" THEN "fill" ELSE "fillAgain"]
  /\ UNCHANGED <<exists, actual, saving, alone, process, last, promised>>

\* The first half of writeTextFile: open the temp file, created or truncated.
OpenTemp(s) ==
  /\ pc[s] \in {"write", "writeAgain"}
  /\ exists
  /\ \E f \in Files :
       /\ IF temp = None
          THEN f # actual /\ \A t \in Busy : pc[t] \in {"fill", "fillAgain"} => fd[t] # f
          ELSE f = temp
       /\ temp' = f
       /\ content' = [content EXCEPT ![f] = Empty]
       /\ fd' = [fd EXCEPT ![s] = f]
  /\ pc' = [pc EXCEPT ![s] = IF @ = "write" THEN "fill" ELSE "fillAgain"]
  /\ UNCHANGED <<exists, actual, saving, alone, process, last, promised>>

\* The open fails: NotFound for a missing directory leads to mkdir, the first
\* time; everything else is an error.
OpenTempFails(s) ==
  /\ pc[s] \in {"write", "writeAgain"}
  /\ IF pc[s] = "write" /\ ~exists
     THEN pc' = [pc EXCEPT ![s] = "mkdir"] /\ UNCHANGED process
     ELSE Fail(s)
  /\ UNCHANGED <<exists, temp, actual, content, saving, fd, alone, last, promised>>

MakeDirectory(s) ==
  /\ pc[s] = "mkdir"
  /\ ~exists
  /\ exists' = TRUE
  /\ pc' = [pc EXCEPT ![s] = "writeAgain"]
  /\ UNCHANGED <<temp, actual, content, saving, fd, alone, process, last, promised>>

\* mkdir fails, also with AlreadyExists when another call was faster.
MakeDirectoryFails(s) ==
  /\ pc[s] = "mkdir"
  /\ Fail(s)
  /\ UNCHANGED <<exists, temp, actual, content, saving, fd, alone, last, promised>>

\* The second half of writeTextFile.  Over a shorter value the new one is whole;
\* over a longer one, that another call wrote since the truncation, its end stays.
FillTemp(s) ==
  /\ pc[s] \in {"fill", "fillAgain"}
  /\ \E c \in (IF content[fd[s]] = Empty THEN {saving[s]} ELSE {saving[s], Torn}) :
       content' = [content EXCEPT ![fd[s]] = c]
  /\ pc' = [pc EXCEPT ![s] = "rename"]
  /\ UNCHANGED <<exists, temp, actual, saving, fd, alone, process, last, promised>>

\* Mutant: the error of the write is not looked at, and the rename goes ahead.
FillTempFailsUnnoticed(s) ==
  /\ pc[s] \in {"fill", "fillAgain"}
  /\ \E c \in {content[fd[s]], Torn} : content' = [content EXCEPT ![fd[s]] = c]
  /\ pc' = [pc EXCEPT ![s] = "rename"]
  /\ UNCHANGED <<exists, temp, actual, saving, fd, alone, process, last, promised>>

\* The write fails midway.
FillTempFails(s) ==
  /\ pc[s] \in {"fill", "fillAgain"}
  /\ \E c \in {content[fd[s]], Torn} : content' = [content EXCEPT ![fd[s]] = c]
  /\ Fail(s)
  /\ UNCHANGED <<exists, temp, actual, saving, fd, alone, last, promised>>

Latest(a, b) == IF a > b THEN a ELSE b

\* rename, after which atomicWrite ends well; get then returns and the program runs.
Rename(s) ==
  /\ pc[s] = "rename"
  /\ temp # None
  /\ actual' = temp
  /\ temp' = None
  /\ pc' = [pc EXCEPT ![s] = "idle"]
  /\ process' = "up"
  /\ promised' = Latest(promised, saving[s])
  /\ UNCHANGED <<exists, content, saving, fd, alone, last>>

\* Mutant: a failed rename is taken for a success.
RenameFailsUnnoticed(s) ==
  /\ pc[s] = "rename"
  /\ pc' = [pc EXCEPT ![s] = "idle"]
  /\ process' = "up"
  /\ promised' = Latest(promised, saving[s])
  /\ UNCHANGED <<exists, temp, actual, content, saving, fd, alone, last>>

\* Mutant: a failed rename starts the save over.
RenameFailsRetried(s) ==
  /\ pc[s] = "rename"
  /\ pc' = [pc EXCEPT ![s] = "write"]
  /\ UNCHANGED <<exists, temp, actual, content, saving, fd, alone, process, last, promised>>

\* rename fails, also with NotFound when another call renamed the temp file.
RenameFails(s) ==
  /\ pc[s] = "rename"
  /\ Fail(s)
  /\ UNCHANGED <<exists, temp, actual, content, saving, fd, alone, last, promised>>

-----------------------------------------------------------------------------
(* atomicRead, when the program is launched.                                *)

\* Mutant: a temp file left behind by a crash is taken for the newer data.
ReadLeftover ==
  /\ process = "down"
  /\ actual # None
  /\ content[actual] \in Versions
  /\ process' = "up"
  /\ actual' = IF temp # None THEN temp ELSE actual
  /\ temp' = None
  /\ UNCHANGED <<exists, content, pc, saving, fd, alone, last, promised>>

\* The file holds a value: the program runs with it.  A file that deserialize
\* refuses makes the launch fail and changes nothing.
Read ==
  /\ process = "down"
  /\ actual # None
  /\ content[actual] \in Versions
  /\ process' = "up"
  /\ UNCHANGED <<exists, temp, actual, content, pc, saving, fd, alone, last, promised>>

\* There is no file: write the default value.
Initialize(s) ==
  /\ process = "down"
  /\ actual = None
  /\ process' = "initializing"
  /\ Begin(s, 0)
  /\ UNCHANGED <<exists, temp, actual, content, fd, last, promised>>

\* The process dies.  A write it was in the middle of may be cut short.
Crash ==
  /\ process # "down"
  /\ process' = "down"
  /\ pc' = [s \in Savers |-> "idle"]
  /\ \E cut \in SUBSET {fd[s] : s \in {t \in Savers : pc[t] \in {"fill", "fillAgain"}}} :
       content' = [f \in Files |-> IF f \in cut THEN Torn ELSE content[f]]
  /\ UNCHANGED <<exists, temp, actual, saving, fd, alone, last, promised>>

Step(s) ==
  \/ OpenTemp(s) \/ OpenTempFails(s)
  \/ MakeDirectory(s) \/ MakeDirectoryFails(s)
  \/ FillTemp(s) \/ FillTempFails(s)
  \/ Rename(s) \/ RenameFails(s)

StorageNext ==
  \/ Read
  \/ \E s \in Savers : Set(s) \/ Initialize(s) \/ Step(s)
  \/ Crash

StorageSpec == StorageInit /\ [][StorageNext]_storageVars

\* The thread pool runs every call that was handed to it; so does the event
\* loop every continuation.
FairStorageSpec == StorageSpec /\ \A s \in Savers : WF_storageVars(Step(s))

-----------------------------------------------------------------------------
(* Correctness.                                                             *)

\* The actual file always holds one value, whole: what "atomically" means.  A
\* file that does not keeps the daemon from ever being launched again.
ActualIsWhole ==
  actual # None => content[actual] \in Versions

\* A value whose save ended well is not lost: the file holds that value or a
\* later one, whatever fails or dies afterwards.
PromisesAreKept ==
  (promised > 0) => (actual # None /\ content[actual] >= promised)

\* A save that no other overlaps leaves its own value, whole, in the actual file,
\* even if saves that overlapped before had left it torn.
LoneSaveHeals ==
  [][\A s \in Savers :
       (alone[s] /\ pc[s] = "rename" /\ actual' # actual)
         => content'[actual'] = saving[s]]_storageVars

\* Every save ends, with a success or an error, or its process dies.
SavesEnd == \A s \in Savers : (pc[s] # "idle") ~> (pc[s] = "idle")

\* As long as saves do not overlap, the file is an AtomicFile.
Abstract == INSTANCE AtomicFile WITH
  Values   <- Versions,
  NoFile   <- Empty,
  file     <- IF actual = None THEN Empty ELSE content[actual],
  inFlight <- {saving[s] : s \in Busy}
IsAtomicFile == Abstract!AtomicSpec
=============================================================================
