---------------------------- MODULE StateFileWrite ----------------------------
(***************************************************************************)
(* StateStore's read-modify-write cycle, step by step: take the process-   *)
(* wide write lock, load the visible file, write the changed image to a    *)
(* temporary file, fsync it, rename it over the state file, sync the       *)
(* parent directory, and return.  Every step may fail, the process may     *)
(* crash and the machine may lose power between any two of them.           *)
(*                                                                         *)
(* An image is the set of updates it contains: writer w adds the update w. *)
(* A writer that finds its update already in the file it loaded replays    *)
(* the outcome and only confirms the durability of what it found.          *)
(***************************************************************************)
EXTENDS Naturals

CONSTANTS
  Writer,           \* threads holding a StateStore handle, one update each
  MaxFaults,        \* bound: failed steps
  MaxCrashes        \* bound: process crashes and power losses

Image == SUBSET Writer
Torn == {"torn"}        \* what a power loss leaves of data never fsynced
Partial == {"partial"}  \* a temporary file being written
NoFile == {"absent"}    \* no temporary file
None == "none"          \* nobody, no result

ASSUME WriteAssumption ==
  /\ None \notin Writer
  /\ MaxFaults \in Nat
  /\ MaxCrashes \in Nat

VARIABLES
  lock,             \* the thread that holds STATE_STORE_WRITE_LOCK, or none
  pc,               \* where each thread is
  base,             \* the image each thread loaded
  temp,             \* the temporary file: absent, partial, or its image
  tempSynced,       \* has the temporary file's data been fsynced
  entry,            \* the image the directory entry of the state file names
  entrySynced,      \* is the data of that image on the disk
  diskEntry,        \* the image the durable directory entry names
  result,           \* what each thread's call returned
  faults, crashes

vars == <<lock, pc, base, temp, tempSynced, entry, entrySynced, diskEntry,
          result, faults, crashes>>

Init ==
  /\ lock = None
  /\ pc = [w \in Writer |-> "idle"]
  /\ base = [w \in Writer |-> {}]
  /\ temp = NoFile
  /\ tempSynced = FALSE
  /\ entry = {}
  /\ entrySynced = TRUE
  /\ diskEntry = {}
  /\ result = [w \in Writer |-> None]
  /\ faults = 0
  /\ crashes = 0

Goto(w, from, to) == pc[w] = from /\ pc' = [pc EXCEPT ![w] = to]

Fault == faults < MaxFaults /\ faults' = faults + 1

dirVars == <<entry, entrySynced, diskEntry>>
tempVars == <<temp, tempSynced>>

-----------------------------------------------------------------------------
(* Wrong variants of the code, which the properties must tell from it: one *)
(* mutex per handle, no fsync.                                             *)
LockPerHandle(w) ==
  /\ Goto(w, "idle", "locked")
  /\ lock' = w
  /\ UNCHANGED <<base, tempVars, dirVars, result, faults, crashes>>

NoSyncTemp(w) ==
  /\ Goto(w, "fsync", "rename")
  /\ UNCHANGED <<lock, base, tempVars, dirVars, result, faults, crashes>>

-----------------------------------------------------------------------------
(* lock_write: every handle shares one mutex.                              *)
LockWrite(w) ==
  /\ lock = None
  /\ Goto(w, "idle", "locked")
  /\ lock' = w
  /\ UNCHANGED <<base, tempVars, dirVars, result, faults, crashes>>

(* load, and the choice every replaying operation makes on what it finds.  *)
Load(w) ==
  /\ Goto(w, "locked", IF w \in entry THEN "confirm" ELSE "open")
  /\ base' = [base EXCEPT ![w] = entry]
  /\ UNCHANGED <<lock, tempVars, dirVars, result, faults, crashes>>

(* open_private_new_file and write_all.                                    *)
OpenTemp(w) ==
  /\ Goto(w, "open", "write")
  /\ temp' = Partial
  /\ tempSynced' = FALSE
  /\ UNCHANGED <<lock, base, dirVars, result, faults, crashes>>

WriteTemp(w) ==
  /\ Goto(w, "write", "fsync")
  /\ temp' = base[w] \cup {w}
  /\ UNCHANGED <<lock, base, tempSynced, dirVars, result, faults, crashes>>

SyncTemp(w) ==
  /\ Goto(w, "fsync", "rename")
  /\ tempSynced' = TRUE
  /\ UNCHANGED <<lock, base, temp, dirVars, result, faults, crashes>>

(* replace_file.                                                           *)
Rename(w) ==
  /\ Goto(w, "rename", "sync")
  /\ entry' = temp
  /\ entrySynced' = tempSynced
  /\ temp' = NoFile
  /\ tempSynced' = FALSE
  /\ UNCHANGED <<lock, base, diskEntry, result, faults, crashes>>

SyncedEntry == IF entrySynced THEN entry ELSE Torn

(* sync_parent, at the end of a write or on its own for a replay.          *)
SyncParent(w) ==
  /\ pc[w] \in {"sync", "confirm"}
  /\ pc' = [pc EXCEPT ![w] = "idle"]
  /\ lock' = None
  /\ diskEntry' = SyncedEntry
  /\ result' = [result EXCEPT ![w] = "ok"]
  /\ UNCHANGED <<base, tempVars, entry, entrySynced, faults, crashes>>

(* Any step of the write closure returns early: the temporary file is      *)
(* removed (a no-op after the rename), the lock released, Err returned.    *)
StepFails(w) ==
  /\ pc[w] \in {"locked", "open", "write", "fsync", "rename", "sync", "confirm"}
  /\ Fault
  /\ pc' = [pc EXCEPT ![w] = "idle"]
  /\ lock' = None
  /\ temp' = NoFile
  /\ tempSynced' = FALSE
  /\ result' = [result EXCEPT ![w] = "err"]
  /\ UNCHANGED <<base, dirVars, crashes>>

-----------------------------------------------------------------------------
(* The operating system writes the renamed directory entry back by itself. *)
Writeback ==
  /\ diskEntry # SyncedEntry
  /\ diskEntry' = SyncedEntry
  /\ UNCHANGED <<lock, pc, base, tempVars, entry, entrySynced, result, faults,
                 crashes>>

(* The process dies: its threads, its lock and its unreturned calls are    *)
(* gone, and its temporary file is never looked at again.  After a power   *)
(* loss the directory entry is the durable one.                            *)
ProcessGone ==
  /\ crashes < MaxCrashes
  /\ crashes' = crashes + 1
  /\ lock' = None
  /\ pc' = [w \in Writer |-> "idle"]
  /\ temp' = NoFile
  /\ tempSynced' = FALSE
  /\ UNCHANGED <<base, result, faults, diskEntry>>

Crash == ProcessGone /\ UNCHANGED <<entry, entrySynced>>

PowerLoss ==
  /\ ProcessGone
  /\ entry' = diskEntry
  /\ entrySynced' = TRUE

WriterStep(w) ==
  \/ LockWrite(w)
  \/ Load(w)
  \/ OpenTemp(w)
  \/ WriteTemp(w)
  \/ SyncTemp(w)
  \/ Rename(w)
  \/ SyncParent(w)
  \/ StepFails(w)

Next ==
  \/ \E w \in Writer : WriterStep(w)
  \/ Writeback
  \/ Crash
  \/ PowerLoss

Spec == Init /\ [][Next]_vars

-----------------------------------------------------------------------------
(* Once a call has returned Ok, its update is in the durable image and in  *)
(* the visible one for good: no other thread's read-modify-write, failed   *)
(* write, crash or power loss takes it away.  This is what StateStore's    *)
(* callers (acknowledgements, handoffs, outcomes) build on.                *)
OkUpdatesSurvive ==
  \A w \in Writer : result[w] = "ok" => w \in diskEntry /\ w \in entry

(* What the rest of the runtime may assume of the state file: readers see  *)
(* whole images only, never a torn or partial one, the durable image is a  *)
(* former visible one, and it changes only by a sync of the visible one    *)
(* or by nothing.                                                          *)
File == INSTANCE DurableFile WITH file <- entry, disk <- diskEntry

ImplementsDurableFile == File!Spec

=============================================================================
