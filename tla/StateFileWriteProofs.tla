-------------------------- MODULE StateFileWriteProofs --------------------------
(***************************************************************************)
(* Proofs about StateFileWrite, for any number of writers, faults and      *)
(* crashes: an update reported Ok survives, and the steps of a write       *)
(* implement the file that the other modules take for granted.             *)
(*                                                                         *)
(* The argument is mutual exclusion.  While a thread is between load and   *)
(* rename nobody else changes the directory entry, so the image it puts    *)
(* there is the visible one plus its own update; and that image was fsynced *)
(* before the rename, so what a sync makes durable is never torn.          *)
(***************************************************************************)
EXTENDS StateFileWrite, TLAPS

Step == {"idle", "locked", "open", "write", "fsync", "rename", "sync", "confirm"}

(* Where each thread is, and that only the owner of the lock is anywhere.  *)
OnlyTheOwnerWorks ==
  /\ pc \in [Writer -> Step]
  /\ \A w \in Writer : pc[w] # "idle" => lock = w

(* Both entries name whole images, whose data has reached the disk.        *)
EntriesAreWhole ==
  /\ entry \in Image
  /\ diskEntry \in Image
  /\ entrySynced = TRUE

(* What a thread knows of the file at each step of its write.              *)
WorkIsCurrent ==
  /\ base \in [Writer -> Image]
  /\ result \in [Writer -> {None, "ok", "err"}]
  /\ \A w \in Writer :
       /\ pc[w] \in {"open", "write", "fsync", "rename"} => base[w] = entry
       /\ pc[w] \in {"fsync", "rename"} => temp = base[w] \cup {w}
       /\ pc[w] = "rename" => tempSynced = TRUE
       /\ pc[w] \in {"sync", "confirm"} => w \in entry

IInv == OnlyTheOwnerWorks /\ EntriesAreWhole /\ WorkIsCurrent /\ OkUpdatesSurvive

-----------------------------------------------------------------------------
LEMMA InitIInv == Init => IInv
BY DEF Init, IInv, OnlyTheOwnerWorks, EntriesAreWhole, WorkIsCurrent,
       OkUpdatesSurvive, Step, Image, None

(* While w works, every other thread is idle.                              *)
LEMMA OthersIdle ==
  ASSUME OnlyTheOwnerWorks, NEW w \in Writer, pc[w] # "idle"
  PROVE  \A v \in Writer \ {w} : pc[v] = "idle"
BY DEF OnlyTheOwnerWorks

(* The steps that leave both entries and the results alone.                *)
LEMMA PrivateSteps ==
  ASSUME IInv, NEW w \in Writer,
         \/ LockWrite(w) \/ Load(w) \/ OpenTemp(w) \/ WriteTemp(w) \/ SyncTemp(w)
  PROVE  IInv' /\ UNCHANGED <<entry, diskEntry>>
<1>1. UNCHANGED <<entry, entrySynced, diskEntry, result>>
  BY DEF LockWrite, Load, OpenTemp, WriteTemp, SyncTemp, dirVars
<1>2. OnlyTheOwnerWorks'
  BY WriteAssumption DEF IInv, OnlyTheOwnerWorks, Step, LockWrite, Load, OpenTemp,
     WriteTemp, SyncTemp, Goto, None
<1>3. EntriesAreWhole' /\ OkUpdatesSurvive'
  BY <1>1 DEF IInv, EntriesAreWhole, OkUpdatesSurvive
<1>4. \A v \in Writer \ {w} : pc[v] = "idle" /\ pc'[v] = "idle"
  BY WriteAssumption DEF IInv, OnlyTheOwnerWorks, LockWrite, Load, OpenTemp,
     WriteTemp, SyncTemp, Goto, None
<1>5. WorkIsCurrent'
  <2>1. CASE LockWrite(w)
    BY <1>4, <2>1 DEF IInv, OnlyTheOwnerWorks, WorkIsCurrent, LockWrite, Goto,
       tempVars, dirVars
  <2>2. CASE Load(w)
    BY <1>4, <2>2 DEF IInv, OnlyTheOwnerWorks, EntriesAreWhole, WorkIsCurrent, Load,
       Goto, tempVars, dirVars
  <2>3. CASE OpenTemp(w)
    BY <1>4, <2>3 DEF IInv, OnlyTheOwnerWorks, WorkIsCurrent, OpenTemp, Goto, dirVars
  <2>4. CASE WriteTemp(w)
    BY <1>4, <2>4 DEF IInv, OnlyTheOwnerWorks, WorkIsCurrent, WriteTemp, Goto, dirVars
  <2>5. CASE SyncTemp(w)
    BY <1>4, <2>5 DEF IInv, OnlyTheOwnerWorks, WorkIsCurrent, SyncTemp, Goto, dirVars
  <2> QED
    BY <2>1, <2>2, <2>3, <2>4, <2>5
<1> QED
  BY <1>1, <1>2, <1>3, <1>5 DEF IInv

(* The rename adds the update of w to the visible image and nothing else.  *)
LEMMA RenameStep ==
  ASSUME IInv, NEW w \in Writer, Rename(w)
  PROVE  IInv' /\ entry' = entry \cup {w} /\ UNCHANGED diskEntry
<1>1. pc[w] = "rename" /\ entry' = entry \cup {w} /\ entrySynced' = TRUE
      /\ UNCHANGED <<lock, base, diskEntry, result>>
  BY DEF IInv, WorkIsCurrent, Rename, Goto
<1>2. \A v \in Writer \ {w} : pc[v] = "idle" /\ pc'[v] = "idle"
  BY <1>1, OthersIdle DEF IInv, OnlyTheOwnerWorks, Rename, Goto
<1>3. pc'[w] = "sync"
  BY DEF IInv, OnlyTheOwnerWorks, Rename, Goto
<1>4. OnlyTheOwnerWorks'
  BY <1>1 DEF IInv, OnlyTheOwnerWorks, Step, Rename, Goto
<1>5. EntriesAreWhole' /\ OkUpdatesSurvive'
  BY <1>1 DEF IInv, EntriesAreWhole, OkUpdatesSurvive, Image
<1>6. WorkIsCurrent'
  BY <1>1, <1>2, <1>3 DEF IInv, WorkIsCurrent
<1> QED
  BY <1>1, <1>4, <1>5, <1>6 DEF IInv

(* A sync makes the visible image durable, with the update of w in it.     *)
LEMMA SyncStep ==
  ASSUME IInv, NEW w \in Writer, SyncParent(w)
  PROVE  IInv' /\ diskEntry' = entry /\ UNCHANGED entry
<1>1. pc[w] \in {"sync", "confirm"} /\ pc' = [pc EXCEPT ![w] = "idle"]
      /\ diskEntry' = entry /\ result' = [result EXCEPT ![w] = "ok"]
      /\ UNCHANGED <<base, temp, tempSynced, entry, entrySynced>>
  BY DEF IInv, EntriesAreWhole, SyncParent, SyncedEntry, tempVars
<1>2. \A v \in Writer : pc'[v] = "idle"
  BY <1>1, OthersIdle DEF IInv, OnlyTheOwnerWorks
<1>3. w \in entry
  BY <1>1 DEF IInv, WorkIsCurrent
<1>4. OnlyTheOwnerWorks'
  BY <1>1, <1>2 DEF IInv, OnlyTheOwnerWorks, Step
<1>5. EntriesAreWhole' /\ OkUpdatesSurvive' /\ WorkIsCurrent'
  BY <1>1, <1>2, <1>3 DEF IInv, EntriesAreWhole, OkUpdatesSurvive, WorkIsCurrent
<1> QED
  BY <1>1, <1>4, <1>5 DEF IInv

(* A step that fails gives the lock back and leaves the entries alone.     *)
LEMMA FailStep ==
  ASSUME IInv, NEW w \in Writer, StepFails(w)
  PROVE  IInv' /\ UNCHANGED <<entry, diskEntry>>
<1>1. pc[w] # "idle" /\ pc' = [pc EXCEPT ![w] = "idle"]
      /\ result' = [result EXCEPT ![w] = "err"]
      /\ UNCHANGED <<base, entry, entrySynced, diskEntry>>
  BY DEF StepFails, dirVars
<1>2. \A v \in Writer : pc'[v] = "idle"
  BY <1>1, OthersIdle DEF IInv, OnlyTheOwnerWorks
<1>3. OnlyTheOwnerWorks'
  BY <1>1, <1>2 DEF IInv, OnlyTheOwnerWorks, Step
<1>4. EntriesAreWhole' /\ OkUpdatesSurvive' /\ WorkIsCurrent'
  BY <1>1, <1>2 DEF IInv, EntriesAreWhole, OkUpdatesSurvive, WorkIsCurrent
<1> QED
  BY <1>1, <1>3, <1>4 DEF IInv

(* Write-back, the death of the process and the loss of power.             *)
LEMMA EnvironmentSteps ==
  ASSUME IInv, Writeback \/ Crash \/ PowerLoss
  PROVE  /\ IInv'
         /\ \/ diskEntry' = entry /\ UNCHANGED entry
            \/ entry' = diskEntry /\ UNCHANGED diskEntry
            \/ UNCHANGED <<entry, diskEntry>>
<1>1. CASE Writeback
  <2>1. diskEntry' = entry
        /\ UNCHANGED <<lock, pc, base, temp, tempSynced, entry, entrySynced, result>>
    BY <1>1 DEF IInv, EntriesAreWhole, Writeback, SyncedEntry, tempVars
  <2> QED
    BY <2>1 DEF IInv, OnlyTheOwnerWorks, EntriesAreWhole, OkUpdatesSurvive,
       WorkIsCurrent
<1>2. CASE Crash \/ PowerLoss
  <2>1. /\ pc' = [v \in Writer |-> "idle"] /\ UNCHANGED <<base, result, diskEntry>>
        /\ entry' \in {entry, diskEntry} /\ entrySynced' = TRUE
    BY <1>2 DEF IInv, EntriesAreWhole, Crash, PowerLoss, ProcessGone
  <2>2. OnlyTheOwnerWorks'
    BY <2>1 DEF OnlyTheOwnerWorks, Step
  <2>3. EntriesAreWhole' /\ OkUpdatesSurvive' /\ WorkIsCurrent'
    BY <2>1 DEF IInv, EntriesAreWhole, OkUpdatesSurvive, WorkIsCurrent
  <2> QED
    BY <2>1, <2>2, <2>3 DEF IInv
<1> QED
  BY <1>1, <1>2

-----------------------------------------------------------------------------
(* Every step keeps the invariant and is, seen from the two entries, a     *)
(* step of DurableFile or no step.                                         *)
LEMMA NextIInv == IInv /\ [Next]_vars => IInv' /\ [File!Next]_(File!fileVars)
<1> SUFFICES ASSUME IInv, [Next]_vars PROVE IInv' /\ [File!Next]_(File!fileVars)
  OBVIOUS
<1> USE DEF File!Next, File!Replace, File!ReplacedUnsynced, File!Synced,
            File!PowerLoss, File!fileVars
<1>1. ASSUME NEW w \in Writer, WriterStep(w)
      PROVE  IInv' /\ [File!Next]_(File!fileVars)
  <2>1. CASE Rename(w)
    <3>1. IInv' /\ entry' \in Image /\ UNCHANGED diskEntry
      BY <2>1, RenameStep DEF IInv, EntriesAreWhole
    <3> QED
      BY <3>1
  <2>2. CASE SyncParent(w)
    BY <2>2, SyncStep
  <2>3. CASE StepFails(w)
    BY <2>3, FailStep
  <2>4. CASE LockWrite(w) \/ Load(w) \/ OpenTemp(w) \/ WriteTemp(w) \/ SyncTemp(w)
    BY <2>4, PrivateSteps
  <2> QED
    BY <1>1, <2>1, <2>2, <2>3, <2>4 DEF WriterStep
<1>2. CASE Writeback \/ Crash \/ PowerLoss
  BY <1>2, EnvironmentSteps
<1>3. CASE UNCHANGED vars
  BY <1>3 DEF vars, IInv, OnlyTheOwnerWorks, EntriesAreWhole, OkUpdatesSurvive,
              WorkIsCurrent
<1> QED
  BY <1>1, <1>2, <1>3 DEF Next

(* An update reported Ok stays in the file and on the disk, whatever other *)
(* threads, failed writes, crashes and power losses do afterwards.         *)
THEOREM OkSurvives == Spec => []OkUpdatesSurvive
<1>1. IInv => OkUpdatesSurvive
  BY DEF IInv
<1> QED
  BY <1>1, InitIInv, NextIInv, PTL DEF Spec

(* The steps of write_json_atomic under the write lock implement the file  *)
(* of DurableFile, which every other module of the project is built on.    *)
THEOREM RefinesDurableFile == Spec => ImplementsDurableFile
<1>1. Init => File!Init
  BY DEF Init, File!Init, Image
<1> QED
  BY <1>1, InitIInv, NextIInv, PTL DEF Spec, ImplementsDurableFile, File!Spec

=============================================================================
