----------------------------- MODULE AtomicFile ------------------------------
(***************************************************************************)
(* What atomicWrite of storage.ts promises by its name and its error texts *)
(* ("Atomically writing data to a file", "Committing the changes from the  *)
(* temp file to the actual file"): a file that at any time holds one value *)
(* written whole, and that a save replaces at one instant or not at all.   *)
(***************************************************************************)
EXTENDS Naturals, FiniteSets

CONSTANTS
  Values,  \* what may be saved
  NoFile   \* the file does not exist; not one of Values

VARIABLES
  file,     \* the value the file holds, or NoFile
  inFlight  \* the values whose saves were started and have not ended

atomicFileVars == <<file, inFlight>>

AtomicInit ==
  /\ file = NoFile
  /\ inFlight = {}

StartSave(v) ==
  /\ inFlight' = inFlight \union {v}
  /\ UNCHANGED file

Commit(v) ==
  /\ v \in inFlight
  /\ file' = v
  /\ inFlight' = inFlight \ {v}

Abandon(v) ==
  /\ v \in inFlight
  /\ inFlight' = inFlight \ {v}
  /\ UNCHANGED file

\* The process dies with its saves.
Die ==
  /\ inFlight' = {}
  /\ UNCHANGED file

AtomicNext ==
  \/ \E v \in Values : StartSave(v) \/ Commit(v) \/ Abandon(v)
  \/ Die

AtomicSpec == AtomicInit /\ [][AtomicNext]_atomicFileVars
=============================================================================
