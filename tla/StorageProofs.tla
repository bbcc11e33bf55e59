---------------------------- MODULE StorageProofs ----------------------------
(***************************************************************************)
(* A Storage whose saves never overlap is an atomic file, for every number *)
(* of values saved.  "Never overlap" is: there is one saver.  For any      *)
(* number of savers, a save that ran alone repairs the file.               *)
(***************************************************************************)
EXTENDS Storage, FiniteSetTheorems, TLAPS

\* Where the one saver is determines what its file holds.
SaverInv(s) ==
  /\ process = "down" => pc[s] = "idle"
  /\ process = "initializing" => pc[s] # "idle" /\ actual = None
  /\ pc[s] \in {"fill", "fillAgain"} => temp = fd[s] /\ content[fd[s]] = Empty
  /\ pc[s] = "rename" => temp # None /\ content[temp] = saving[s]
  /\ pc[s] # "idle" => saving[s] >= promised /\ saving[s] <= last

\* The names never lead to one file, and what was promised is there.
FileInv ==
  /\ temp # None => temp # actual
  /\ ActualIsWhole
  /\ PromisesAreKept
  /\ promised <= last

\* As a run checks it: the invariant for the one saver there is.
AloneIInv == StorageTypeOK /\ FileInv /\ \A s \in Savers : SaverInv(s)

-----------------------------------------------------------------------------

LEMMA ConstantFacts ==
  /\ MaxVersion \in Nat /\ Versions \subseteq Nat /\ 0 \in Versions
  /\ Empty \notin Versions /\ Torn \notin Versions /\ Empty # Torn
  /\ Versions \subseteq Contents /\ Empty \in Contents /\ Torn \in Contents
  /\ None \notin Files /\ 1 \in Files
  <1>1. Cardinality(Savers) \in Nat
    BY FS_CardinalityType, StorageAssumption
  <1>2. MaxVersion \in Nat
    BY StorageAssumption
  <1>3. None \notin Files /\ 1 \in Files
    BY <1>1 DEF None, Files
  <1>4. QED
    BY <1>2, <1>3 DEF Versions, Empty, Torn, Contents

\* The initial state: no file, no save.
LEMMA AloneInit == StorageInit => AloneIInv
  <1> SUFFICES ASSUME StorageInit PROVE AloneIInv
    OBVIOUS
  <1> USE DEF StorageInit
  <1>1. StorageTypeOK
    BY ConstantFacts DEF StorageTypeOK, Steps
  <1>2. FileInv
    BY ConstantFacts DEF FileInv, ActualIsWhole, PromisesAreKept
  <1>3. \A s \in Savers : SaverInv(s)
    BY DEF SaverInv
  <1>4. QED
    BY <1>1, <1>2, <1>3 DEF AloneIInv

\* Every step keeps the types.
LEMMA TypeStep == StorageTypeOK /\ [StorageNext]_storageVars => StorageTypeOK'
  <1> SUFFICES ASSUME StorageTypeOK, [StorageNext]_storageVars
               PROVE  StorageTypeOK'
    OBVIOUS
  <1> USE ConstantFacts DEF StorageTypeOK, Steps
  <1>1. CASE Read
    BY <1>1 DEF Read
  <1>2. ASSUME NEW s \in Savers, Set(s) PROVE StorageTypeOK'
    <2>1. last + 1 \in Versions
      BY <1>2, StorageAssumption DEF Set, Versions
    <2>2. QED
      BY <1>2, <2>1 DEF Set, Begin
  <1>3. ASSUME NEW s \in Savers, Initialize(s) PROVE StorageTypeOK'
    BY <1>3 DEF Initialize, Begin
  <1>4. ASSUME NEW s \in Savers, OpenTemp(s) PROVE StorageTypeOK'
    BY <1>4 DEF OpenTemp
  <1>5. ASSUME NEW s \in Savers, OpenTempFails(s) PROVE StorageTypeOK'
    BY <1>5 DEF OpenTempFails, Fail
  <1>6. ASSUME NEW s \in Savers, MakeDirectory(s) \/ MakeDirectoryFails(s)
        PROVE  StorageTypeOK'
    BY <1>6 DEF MakeDirectory, MakeDirectoryFails, Fail
  <1>7. ASSUME NEW s \in Savers, FillTemp(s) PROVE StorageTypeOK'
    <2>1. PICK c \in {saving[s], Torn} : content' = [content EXCEPT ![fd[s]] = c]
      BY <1>7 DEF FillTemp
    <2>2. c \in Contents
      OBVIOUS
    <2>3. QED
      BY <1>7, <2>1, <2>2 DEF FillTemp
  <1>8. ASSUME NEW s \in Savers, FillTempFails(s) PROVE StorageTypeOK'
    BY <1>8 DEF FillTempFails, Fail
  <1>9. ASSUME NEW s \in Savers, Rename(s) PROVE StorageTypeOK'
    BY <1>9 DEF Rename, Latest
  <1>10. ASSUME NEW s \in Savers, RenameFails(s) PROVE StorageTypeOK'
    BY <1>10 DEF RenameFails, Fail
  <1>11. CASE Crash
    BY <1>11 DEF Crash
  <1>12. CASE UNCHANGED storageVars
    BY <1>12 DEF storageVars
  <1>13. QED
    BY <1>1, <1>2, <1>3, <1>4, <1>5, <1>6, <1>7, <1>8, <1>9, <1>10, <1>11, <1>12
       DEF StorageNext, Step

-----------------------------------------------------------------------------

\* Every step of the one saver keeps the invariant.
LEMMA AloneStep ==
  ASSUME NEW s, Savers = {s}, AloneIInv, [StorageNext]_storageVars
  PROVE  AloneIInv'
  <1>1. StorageTypeOK /\ StorageTypeOK' /\ FileInv /\ SaverInv(s)
    BY TypeStep DEF AloneIInv
  <1>2. SUFFICES FileInv' /\ SaverInv(s)'
    BY <1>1 DEF AloneIInv
  <1> USE <1>1, ConstantFacts
      DEF StorageTypeOK, FileInv, SaverInv, ActualIsWhole, PromisesAreKept
  <1>3. CASE Read
    BY <1>3 DEF Read
  <1>4. CASE Set(s)
    <2>1. pc'[s] = "write" /\ saving'[s] = last' /\ last' = last + 1
      <3>1. pc'[s] = "write"
        BY <1>4 DEF Set, Begin
      <3>2. saving' = [saving EXCEPT ![s] = last'] /\ last' = last + 1
        BY <1>4 DEF Set, Begin
      <3>3. QED
        BY <3>1, <3>2
    <2>2. last \in Nat /\ promised \in Nat /\ promised <= last + 1
      <3>1. last \in Nat /\ promised \in Nat /\ promised <= last
        OBVIOUS
      <3> HIDE DEF FileInv, SaverInv, StorageTypeOK
      <3>2. QED
        BY <3>1
    <2>3. UNCHANGED <<temp, actual, content, process, promised>> /\ process = "up"
      BY <1>4 DEF Set
    <2>4. FileInv'
      BY <2>1, <2>2, <2>3
    <2>5. SaverInv(s)'
      BY <2>1, <2>2, <2>3
    <2>6. QED
      BY <2>4, <2>5
  <1>5. CASE Initialize(s)
    <2>1. promised = 0 /\ last \in Nat
      BY <1>5 DEF Initialize
    <2>2. pc'[s] = "write" /\ saving'[s] = 0 /\ process' = "initializing"
      BY <1>5 DEF Initialize, Begin
    <2>3. UNCHANGED <<temp, actual, content, last, promised>> /\ actual = None
      BY <1>5 DEF Initialize
    <2>4. QED
      BY <2>1, <2>2, <2>3
  <1>6. CASE OpenTemp(s)
    <2>1. PICK f \in Files :
            /\ IF temp = None THEN f # actual ELSE f = temp
            /\ temp' = f
            /\ content' = [content EXCEPT ![f] = Empty]
            /\ fd' = [fd EXCEPT ![s] = f]
      BY <1>6 DEF OpenTemp
    <2>2. f # actual /\ f # None
      BY <2>1
    <2>3. content'[f] = Empty /\ fd'[s] = f /\ (actual # None => content'[actual] = content[actual])
      BY <2>1, <2>2
    <2>4. pc'[s] \in {"fill", "fillAgain"}
      BY <1>6 DEF OpenTemp
    <2>5. UNCHANGED <<actual, saving, process, last, promised>> /\ pc[s] # "idle"
      BY <1>6 DEF OpenTemp
    <2>6. FileInv'
      BY <2>1, <2>2, <2>3, <2>5
    <2>7. SaverInv(s)'
      BY <2>1, <2>2, <2>3, <2>4, <2>5
    <2>8. QED
      BY <2>6, <2>7
  <1>7. CASE OpenTempFails(s)
    BY <1>7 DEF OpenTempFails, Fail
  <1>8. CASE MakeDirectory(s) \/ MakeDirectoryFails(s)
    BY <1>8 DEF MakeDirectory, MakeDirectoryFails, Fail
  <1>9. CASE FillTemp(s)
    <2>1. content' = [content EXCEPT ![temp] = saving[s]]
      BY <1>9 DEF FillTemp
    <2>2. temp # None /\ temp # actual
      BY <1>9 DEF FillTemp
    <2>3. QED
      BY <1>9, <2>1, <2>2 DEF FillTemp
  <1>10. CASE FillTempFails(s)
    <2>1. PICK c \in Contents : content' = [content EXCEPT ![temp] = c]
      BY <1>10 DEF FillTempFails
    <2>2. temp # None /\ temp # actual
      BY <1>10 DEF FillTempFails
    <2>3. actual # None => content'[actual] = content[actual]
      BY <2>1, <2>2
    <2>4. UNCHANGED <<temp, actual, saving, last, promised>> /\ pc'[s] = "idle"
      BY <1>10 DEF FillTempFails, Fail
    <2>5. process' # "initializing"
      BY <1>10 DEF FillTempFails, Fail
    <2>6. QED
      BY <2>2, <2>3, <2>4, <2>5
  <1>11. CASE Rename(s)
    <2>1. saving[s] \in Nat /\ promised \in Nat /\ last \in Nat
      OBVIOUS
    <2>2. promised' = saving[s]
      BY <1>11, <2>1 DEF Rename, Latest
    <2>3. actual' = temp /\ temp' = None /\ temp # None /\ content[temp] = saving[s]
      BY <1>11 DEF Rename
    <2>4. UNCHANGED <<content, last>> /\ pc'[s] = "idle" /\ process' = "up"
      BY <1>11 DEF Rename
    <2>5. QED
      BY <1>11, <2>1, <2>2, <2>3, <2>4 DEF Rename
  <1>12. CASE RenameFails(s)
    BY <1>12 DEF RenameFails, Fail
  <1>13. CASE Crash
    <2>1. actual # None => content'[actual] = content[actual]
      <3>1. PICK cut \in SUBSET {fd[t] : t \in {u \in Savers : pc[u] \in {"fill", "fillAgain"}}} :
              content' = [f \in Files |-> IF f \in cut THEN Torn ELSE content[f]]
        BY <1>13 DEF Crash
      <3>2. \A f \in cut : f = temp /\ temp # actual
        BY <3>1
      <3>3. QED
        BY <3>1, <3>2
    <2>2. QED
      BY <1>13, <2>1 DEF Crash
  <1>14. CASE UNCHANGED storageVars
    BY <1>14 DEF storageVars
  <1>15. QED
    BY <1>3, <1>4, <1>5, <1>6, <1>7, <1>8, <1>9, <1>10, <1>11, <1>12, <1>13, <1>14
       DEF StorageNext, Step

\* The types of a Storage, however many saves overlap.
THEOREM StorageTypeCorrect == StorageSpec => []StorageTypeOK
  <1>1. StorageInit => StorageTypeOK
    BY AloneInit DEF AloneIInv
  <1>2. QED
    BY <1>1, TypeStep, PTL DEF StorageSpec

\* The invariant of a Storage whose saves do not overlap.
THEOREM AloneInvariant ==
  ASSUME NEW s, Savers = {s}
  PROVE  StorageSpec => []AloneIInv
  <1>1. StorageInit => AloneIInv
    BY AloneInit
  <1>2. AloneIInv /\ [StorageNext]_storageVars => AloneIInv'
    BY AloneStep
  <1>3. QED
    BY <1>1, <1>2, PTL DEF StorageSpec

\* Without overlap the actual file always holds one whole value, so that the
\* daemon can always be launched again (storage.ts:52-83, atomicWrite).
THEOREM AloneIsWhole ==
  ASSUME NEW s, Savers = {s}
  PROVE  StorageSpec => []ActualIsWhole
  <1>1. AloneIInv => ActualIsWhole
    BY DEF AloneIInv, FileInv
  <1>2. QED
    BY AloneInvariant, <1>1, PTL

\* Without overlap no value whose save ended well is lost, whatever fails or
\* dies afterwards (storage.ts:52-83).
THEOREM AloneKeepsPromises ==
  ASSUME NEW s, Savers = {s}
  PROVE  StorageSpec => []PromisesAreKept
  <1>1. AloneIInv => PromisesAreKept
    BY DEF AloneIInv, FileInv
  <1>2. QED
    BY AloneInvariant, <1>1, PTL

-----------------------------------------------------------------------------
(* The refinement: without overlap every step of the file system is a step of *)
(* an AtomicFile or changes nothing of it.                                   *)

InFlight == {saving[t] : t \in Busy}
File     == IF actual = None THEN Empty ELSE content[actual]

LEMMA InFlightOfOne ==
  ASSUME NEW s, Savers = {s}
  PROVE  InFlight = IF pc[s] = "idle" THEN {} ELSE {saving[s]}
  BY DEF InFlight, Busy

LEMMA AtomicSteps ==
  ASSUME NEW s, Savers = {s}, AloneIInv, [StorageNext]_storageVars
  PROVE  [Abstract!AtomicNext]_(Abstract!atomicFileVars)
  <1> DEFINE Running(p, v) == IF p = "idle" THEN {} ELSE {v}
  <1>1. StorageTypeOK /\ FileInv /\ SaverInv(s)
    BY DEF AloneIInv
  <1>2. InFlight = Running(pc[s], saving[s]) /\ InFlight' = Running(pc[s], saving[s])'
    BY InFlightOfOne DEF InFlight, Busy
  <1>3. SUFFICES \/ \E v \in Versions : File' = File /\ InFlight' = InFlight \union {v}
                 \/ \E v \in Versions : v \in InFlight /\ File' = v /\ InFlight' = InFlight \ {v}
                 \/ File' = File /\ InFlight' = {}
                 \/ File' = File /\ InFlight' = InFlight
    BY DEF Abstract!AtomicNext, Abstract!StartSave, Abstract!Commit, Abstract!Die,
           Abstract!atomicFileVars, File, InFlight
  <1> USE <1>1, <1>2, ConstantFacts DEF StorageTypeOK, FileInv, SaverInv, File
  <1>4. CASE Read
    BY <1>4 DEF Read
  <1>5. CASE Set(s)
    <2>1. last + 1 \in Versions
      BY <1>5, StorageAssumption DEF Set, Versions
    <2>2. File' = File /\ InFlight = {} /\ InFlight' = {last + 1}
      BY <1>5, <2>1 DEF Set, Begin
    <2>3. QED
      BY <2>1, <2>2
  <1>6. CASE Initialize(s)
    <2>1. File' = File /\ InFlight = {} /\ InFlight' = {0}
      BY <1>6 DEF Initialize, Begin
    <2>2. QED
      BY <2>1
  <1>7. CASE OpenTemp(s)
    <2>1. PICK f \in Files : content' = [content EXCEPT ![f] = Empty] /\ f # actual
      BY <1>7 DEF OpenTemp
    <2>2. File' = File
      BY <1>7, <2>1 DEF OpenTemp
    <2>3. InFlight' = InFlight
      BY <1>7 DEF OpenTemp
    <2>4. QED
      BY <2>2, <2>3
  <1>8. CASE OpenTempFails(s)
    BY <1>8 DEF OpenTempFails, Fail
  <1>9. CASE MakeDirectory(s) \/ MakeDirectoryFails(s)
    BY <1>9 DEF MakeDirectory, MakeDirectoryFails, Fail
  <1>10. CASE FillTemp(s)
    <2>1. File' = File
      BY <1>10 DEF FillTemp
    <2>2. InFlight' = InFlight
      BY <1>10 DEF FillTemp
    <2>3. QED
      BY <2>1, <2>2
  <1>11. CASE FillTempFails(s)
    <2>1. File' = File
      BY <1>11 DEF FillTempFails
    <2>2. InFlight' = {}
      BY <1>11 DEF FillTempFails, Fail
    <2>3. QED
      BY <2>1, <2>2
  <1>12. CASE Rename(s)
    <2>1. File' = saving[s] /\ saving[s] \in Versions
      BY <1>12 DEF Rename
    <2>2. InFlight = {saving[s]} /\ InFlight' = {}
      BY <1>12 DEF Rename
    <2>3. QED
      BY <2>1, <2>2
  <1>13. CASE RenameFails(s)
    BY <1>13 DEF RenameFails, Fail
  <1>14. CASE Crash
    <2>1. PICK cut \in SUBSET {fd[t] : t \in {u \in Savers : pc[u] \in {"fill", "fillAgain"}}} :
            content' = [f \in Files |-> IF f \in cut THEN Torn ELSE content[f]]
      BY <1>14 DEF Crash
    <2>2. \A f \in cut : f # actual
      BY <2>1
    <2>3. File' = File
      BY <1>14, <2>1, <2>2 DEF Crash
    <2>4. InFlight' = {}
      BY <1>14 DEF Crash
    <2>5. QED
      BY <2>3, <2>4
  <1>15. CASE UNCHANGED storageVars
    BY <1>15 DEF storageVars
  <1>16. QED
    BY <1>4, <1>5, <1>6, <1>7, <1>8, <1>9, <1>10, <1>11, <1>12, <1>13, <1>14, <1>15
       DEF StorageNext, Step

\* Without overlap a Storage is what atomicWrite promises: a file that a save
\* replaces by its value at one instant or not at all (storage.ts:52-83).
THEOREM AloneIsAtomicFile ==
  ASSUME NEW s, Savers = {s}
  PROVE  StorageSpec => IsAtomicFile
  <1>1. StorageInit => Abstract!AtomicInit
    BY DEF StorageInit, Abstract!AtomicInit, Busy
  <1>2. AloneIInv /\ [StorageNext]_storageVars
          => [Abstract!AtomicNext]_(Abstract!atomicFileVars)
    BY AtomicSteps
  <1>3. QED
    BY <1>1, <1>2, AloneInvariant, PTL DEF StorageSpec, IsAtomicFile, Abstract!AtomicSpec

-----------------------------------------------------------------------------
(* Any number of savers.  What holds of one saver holds of a save that began   *)
(* while no other was under way, for as long as none begins.                  *)

\* A save still alone is the only one, and has the temp file for itself.
LoneInv(s) ==
  (alone[s] /\ pc[s] # "idle") =>
    /\ Busy = {s}
    /\ pc[s] \in {"fill", "fillAgain"} => temp = fd[s] /\ content[fd[s]] = Empty
    /\ pc[s] = "rename" => temp # None /\ content[temp] = saving[s]

\* As a run checks it.
OverlapIInv == StorageTypeOK /\ \A s \in Savers : LoneInv(s)

\* A step of another save does not take place while a save is alone.
LEMMA LoneIsOnlyOne ==
  ASSUME StorageTypeOK, NEW s \in Savers, LoneInv(s), alone[s], pc[s] # "idle",
         NEW t \in Savers, Step(t)
  PROVE  t = s
  <1>1. pc[t] # "idle"
    BY DEF Step, OpenTemp, OpenTempFails, MakeDirectory, MakeDirectoryFails, FillTemp,
           FillTempFails, Rename, RenameFails
  <1>2. QED
    BY <1>1 DEF LoneInv, Busy

\* A call that begins is alone only if none was under way; the others are not
\* alone any more.
LEMMA BeginIsLone ==
  ASSUME StorageTypeOK, NEW s \in Savers, NEW t \in Savers, NEW v, Begin(t, v)
  PROVE  LoneInv(s)'
  <1>1. alone'[s] <=> s = t /\ Busy = {}
    BY DEF Begin
  <1>2. pc' = [pc EXCEPT ![t] = "write"]
    BY DEF Begin
  <1>3. CASE s = t /\ Busy = {}
    <2>1. \A u \in Savers : pc[u] = "idle"
      BY <1>3 DEF Busy
    <2>2. pc'[s] = "write" /\ \A u \in Savers : u # s => pc'[u] = "idle"
      BY <1>2, <1>3, <2>1 DEF StorageTypeOK
    <2>3. Busy' = {s}
      BY <2>2 DEF Busy
    <2>4. QED
      BY <2>2, <2>3 DEF LoneInv
  <1>4. CASE ~(s = t /\ Busy = {})
    BY <1>1, <1>4 DEF LoneInv
  <1>5. QED
    BY <1>3, <1>4

\* Every step of a save that is alone leaves it what it needs, or ends it.
LEMMA LoneSaverStep ==
  ASSUME StorageTypeOK, NEW s \in Savers, LoneInv(s), Step(s)
  PROVE  LoneInv(s)'
  <1>1. SUFFICES ASSUME alone'[s], pc'[s] # "idle" PROVE LoneInv(s)'
    BY DEF LoneInv
  <1>2. alone[s] /\ pc[s] # "idle"
    BY <1>1 DEF Step, OpenTemp, OpenTempFails, MakeDirectory, MakeDirectoryFails, FillTemp,
                FillTempFails, Rename, RenameFails
  <1>3. /\ \A u \in Savers : u # s => pc[u] = "idle"
        /\ pc[s] \in {"fill", "fillAgain"} => temp = fd[s] /\ content[fd[s]] = Empty
    BY <1>2 DEF LoneInv, Busy
  <1>4. \A u \in Savers : u # s => pc'[u] = "idle"
    BY <1>3 DEF Step, OpenTemp, OpenTempFails, MakeDirectory, MakeDirectoryFails, FillTemp,
                FillTempFails, Rename, RenameFails, Fail, StorageTypeOK
  <1>5. Busy' = {s}
    BY <1>1, <1>4 DEF Busy
  <1>6. CASE OpenTemp(s)
    <2>1. PICK f \in Files : /\ temp' = f
                            /\ content' = [content EXCEPT ![f] = Empty]
                            /\ fd' = [fd EXCEPT ![s] = f]
      BY <1>6 DEF OpenTemp
    <2>2. temp' = fd'[s] /\ content'[fd'[s]] = Empty
      BY <2>1 DEF StorageTypeOK
    <2>3. pc'[s] \in {"fill", "fillAgain"}
      BY <1>6 DEF OpenTemp, StorageTypeOK
    <2>4. QED
      BY <1>5, <2>2, <2>3 DEF LoneInv
  <1>7. CASE FillTemp(s)
    <2>1. content' = [content EXCEPT ![temp] = saving[s]]
      BY <1>3, <1>7 DEF FillTemp
    <2>2. temp # None /\ content'[temp] = saving[s]
      BY <1>3, <1>7, <2>1, ConstantFacts DEF FillTemp, StorageTypeOK
    <2>3. pc'[s] = "rename" /\ UNCHANGED <<temp, saving>>
      BY <1>7 DEF FillTemp, StorageTypeOK
    <2>4. QED
      BY <1>5, <2>2, <2>3 DEF LoneInv
  <1>8. CASE OpenTempFails(s) \/ MakeDirectory(s)
    <2>1. pc'[s] \notin {"fill", "fillAgain", "rename"}
      BY <1>8 DEF OpenTempFails, MakeDirectory, Fail, StorageTypeOK
    <2>2. QED
      BY <1>5, <2>1 DEF LoneInv
  <1>9. CASE MakeDirectoryFails(s) \/ FillTempFails(s) \/ Rename(s) \/ RenameFails(s)
    <2>1. pc'[s] = "idle"
      BY <1>9 DEF MakeDirectoryFails, FillTempFails, Rename, RenameFails, Fail, StorageTypeOK
    <2>2. QED
      BY <1>1, <2>1
  <1>10. QED
    BY <1>6, <1>7, <1>8, <1>9 DEF Step

\* Every step of a Storage keeps the invariant, however many saves overlap.
LEMMA OverlapStep == OverlapIInv /\ [StorageNext]_storageVars => OverlapIInv'
  <1> SUFFICES ASSUME OverlapIInv, [StorageNext]_storageVars, NEW s \in Savers
               PROVE  LoneInv(s)'
    BY TypeStep DEF OverlapIInv
  <1>1. StorageTypeOK /\ LoneInv(s)
    BY DEF OverlapIInv
  <1>2. CASE Read \/ UNCHANGED storageVars
    BY <1>1, <1>2 DEF Read, storageVars, LoneInv, Busy
  <1>3. CASE Crash
    BY <1>3 DEF Crash, LoneInv
  <1>4. ASSUME NEW t \in Savers, Set(t) \/ Initialize(t) PROVE LoneInv(s)'
    BY <1>1, <1>4, BeginIsLone DEF Set, Initialize
  <1>5. ASSUME NEW t \in Savers, Step(t) PROVE LoneInv(s)'
    <2>1. CASE t = s
      BY <1>1, <1>5, <2>1, LoneSaverStep
    <2>2. CASE t # s
      <3>1. ~(alone[s] /\ pc[s] # "idle")
        BY <1>1, <1>5, <2>2, LoneIsOnlyOne
      <3>2. alone' = alone /\ pc'[s] = pc[s]
        BY <1>1, <1>5, <2>2 DEF Step, OpenTemp, OpenTempFails, MakeDirectory,
           MakeDirectoryFails, FillTemp, FillTempFails, Rename, RenameFails, Fail, StorageTypeOK
      <3>3. QED
        BY <3>1, <3>2 DEF LoneInv
    <2>3. QED
      BY <2>1, <2>2
  <1>6. QED
    BY <1>2, <1>3, <1>4, <1>5 DEF StorageNext

\* The actual file changes only by a rename of a save, and by that of a lone save
\* to the lone save's own value.
LEMMA LoneRenameHeals ==
  ASSUME OverlapIInv, [StorageNext]_storageVars, NEW s \in Savers,
         alone[s], pc[s] = "rename", actual' # actual
  PROVE  content'[actual'] = saving[s]
  <1>1. StorageTypeOK /\ LoneInv(s)
    BY DEF OverlapIInv
  <1>2. PICK t \in Savers : Rename(t)
    BY DEF StorageNext, Step, storageVars, Read, Set, Initialize, OpenTemp, OpenTempFails,
           MakeDirectory, MakeDirectoryFails, FillTemp, FillTempFails, RenameFails, Crash
  <1>3. t = s
    BY <1>1, <1>2, LoneIsOnlyOne DEF Step
  <1>4. QED
    BY <1>1, <1>2, <1>3 DEF Rename, LoneInv

\* A save that none overlaps leaves its own value, whole, in the file, also after
\* saves that overlapped have left it torn (storage.ts:52-83): what mends the
\* disagreement of the run storage_torn.
THEOREM LoneSavesHeal == StorageSpec => LoneSaveHeals
  <1>1. StorageInit => OverlapIInv
    BY AloneInit DEF AloneIInv, OverlapIInv, LoneInv, StorageInit
  <1>2. OverlapIInv /\ [StorageNext]_storageVars
          => [\A s \in Savers :
                (alone[s] /\ pc[s] = "rename" /\ actual' # actual)
                  => content'[actual'] = saving[s]]_storageVars
    BY LoneRenameHeals
  <1>3. QED
    BY <1>1, <1>2, OverlapStep, PTL DEF StorageSpec, LoneSaveHeals

-----------------------------------------------------------------------------
(* Why every save ends.  Whatever other saves do to its files, a save goes   *)
(* through at most five steps; TLC checks the rest as SavesEnd.              *)

\* The steps a save may still take: the directory is made at most once.
StepsLeft(s) ==
  [idle |-> 0, rename |-> 1, fill |-> 2, fillAgain |-> 2, writeAgain |-> 3, mkdir |-> 4,
   write |-> 5][pc[s]]

LEMMA StepTakesOne ==
  ASSUME StorageTypeOK, NEW s \in Savers, Step(s)
  PROVE  StepsLeft(s)' < StepsLeft(s)
  <1> USE DEF StorageTypeOK, StepsLeft, Fail
  <1>1. CASE OpenTemp(s)
    <2>1. pc[s] \in {"write", "writeAgain"} /\ pc'[s] \in {"fill", "fillAgain"}
      BY <1>1 DEF OpenTemp
    <2>2. QED
      BY <2>1
  <1>2. CASE OpenTempFails(s)
    <2>1. \/ pc[s] = "write" /\ pc'[s] = "mkdir"
          \/ pc[s] \in {"write", "writeAgain"} /\ pc'[s] = "idle"
      BY <1>2 DEF OpenTempFails
    <2>2. QED
      BY <2>1
  <1>3. CASE MakeDirectory(s) \/ MakeDirectoryFails(s)
    BY <1>3 DEF MakeDirectory, MakeDirectoryFails
  <1>4. CASE FillTemp(s) \/ FillTempFails(s)
    <2>1. pc[s] \in {"fill", "fillAgain"} /\ pc'[s] \in {"rename", "idle"}
      BY <1>4 DEF FillTemp, FillTempFails
    <2>2. QED
      BY <2>1
  <1>5. CASE Rename(s) \/ RenameFails(s)
    BY <1>5 DEF Rename, RenameFails
  <1>6. QED
    BY <1>1, <1>2, <1>3, <1>4, <1>5 DEF Step

LEMMA StepTouchesOne ==
  ASSUME StorageTypeOK, NEW s \in Savers, NEW t \in Savers, t # s,
         Step(t) \/ Set(t) \/ Initialize(t)
  PROVE  pc'[s] = pc[s]
  <1> USE DEF StorageTypeOK, Fail, Begin
  <1>1. CASE Set(t) \/ Initialize(t)
    BY <1>1 DEF Set, Initialize
  <1>2. CASE OpenTemp(t) \/ OpenTempFails(t)
    BY <1>2 DEF OpenTemp, OpenTempFails
  <1>3. CASE MakeDirectory(t) \/ MakeDirectoryFails(t)
    BY <1>3 DEF MakeDirectory, MakeDirectoryFails
  <1>4. CASE FillTemp(t) \/ FillTempFails(t) \/ Rename(t) \/ RenameFails(t)
    BY <1>4 DEF FillTemp, FillTempFails, Rename, RenameFails
  <1>5. QED
    BY <1>1, <1>2, <1>3, <1>4 DEF Step

\* A save under way comes nearer to its end with each of its steps, and no other
\* save, nor the crash of the process, takes it farther from it: a temp file that
\* another call took away is an error and not a reason to start over (atomicWrite).
THEOREM SavesComeToAnEnd ==
  StorageSpec =>
    [][\A s \in Savers :
         pc[s] # "idle" =>
           /\ StepsLeft(s)' <= StepsLeft(s)
           /\ Step(s) => StepsLeft(s)' < StepsLeft(s)]_storageVars
  <1>1. ASSUME StorageTypeOK, StorageNext, NEW s \in Savers, pc[s] # "idle"
        PROVE  /\ StepsLeft(s)' <= StepsLeft(s)
               /\ Step(s) => StepsLeft(s)' < StepsLeft(s)
    <2>1. StepsLeft(s) \in Nat /\ (pc'[s] = pc[s] => StepsLeft(s)' = StepsLeft(s))
      BY <1>1 DEF StorageTypeOK, Steps, StepsLeft
    <2>2. CASE Read
      <3>1. StepsLeft(s)' = StepsLeft(s)
        BY <2>1, <2>2 DEF Read
      <3>2. Step(s) => StepsLeft(s)' < StepsLeft(s)
        BY <1>1, StepTakesOne
      <3>3. QED
        BY <2>1, <3>1, <3>2
    <2>3. CASE Crash
      <3>1. StepsLeft(s)' = 0
        BY <2>3 DEF Crash, StepsLeft
      <3>2. Step(s) => StepsLeft(s)' < StepsLeft(s)
        BY <1>1, StepTakesOne
      <3>3. QED
        BY <2>1, <3>1, <3>2
    <2>4. ASSUME Step(s)
          PROVE  StepsLeft(s)' < StepsLeft(s) /\ StepsLeft(s)' <= StepsLeft(s)
      <3>1. StepsLeft(s)' < StepsLeft(s)
        BY <1>1, <2>4, StepTakesOne
      <3>2. StepsLeft(s)' \in Nat
        <4>1. StorageTypeOK'
          BY <1>1, TypeStep
        <4>2. QED
          BY <4>1 DEF StorageTypeOK, Steps, StepsLeft
      <3>3. QED
        BY <2>1, <3>1, <3>2
    <2>5. ASSUME NEW t \in Savers, Set(t) \/ Initialize(t) \/ Step(t)
          PROVE  StepsLeft(s)' <= StepsLeft(s)
      <3>1. CASE t = s
        <4>1. ~Set(s) /\ ~Initialize(s)
          BY <1>1 DEF Set, Initialize, Begin
        <4>2. QED
          BY <2>4, <2>5, <3>1, <4>1
      <3>2. CASE t # s
        BY <1>1, <2>1, <2>5, <3>2, StepTouchesOne
      <3>3. QED
        BY <3>1, <3>2
    <2>6. QED
      BY <1>1, <2>1, <2>2, <2>3, <2>4, <2>5 DEF StorageNext
  <1>2. StorageTypeOK /\ [StorageNext]_storageVars =>
          [\A s \in Savers :
             pc[s] # "idle" =>
               /\ StepsLeft(s)' <= StepsLeft(s)
               /\ Step(s) => StepsLeft(s)' < StepsLeft(s)]_storageVars
    BY <1>1
  <1>3. QED
    BY <1>2, StorageTypeCorrect, PTL DEF StorageSpec
=============================================================================
