------------------------ MODULE LifecycleLockProofs ------------------------
(***************************************************************************)
(* Proofs about LifecycleLock.  What a waiter remembers of a lock is       *)
(* either about a dead owner, or about a complete lock of an owner that    *)
(* will not take the lock again; the removals are reached with the former  *)
(* only.  While nobody has died, therefore, only its owner removes a lock. *)
(***************************************************************************)
EXTENDS LifecycleLock, FiniteSetTheorems, TLAPS

Critical == {"held", "drop", "release"}

(* The lock of a live owner says how far its owner is.                     *)
OwnerIsWhereItSays ==
  Exists /\ lock.owner \in alive =>
    IF lock.complete THEN pc[lock.owner] \in Critical
                     ELSE pc[lock.owner] \in {"fill", "scrap"} /\ lock.age = 0

(* What the snapshot of each waiter still tells about its owner.           *)
Dead(s) == s \in Snapshot /\ s.owner \notin alive
Past(s) == s \in Snapshot /\ s.complete /\ pc[s.owner] \in Critical \cup {"done"}

SnapshotsAreOfDeadOrPast ==
  \A p \in Process :
    /\ pc[p] \in {"match", "unlink", "discard"} => Dead(seen[p])
    /\ pc[p] \in {"read", "compare", "reread"} => Dead(seen[p]) \/ Past(seen[p])
    /\ pc[p] = "recompare" =>
         \/ Dead(seen[p])
         \/ Past(seen[p]) /\ ~(Exists /\ lock.owner = seen[p].owner)

(* While nobody has died, a lock being written or held is in its place.    *)
LocksStay ==
  alive = Process =>
    \A p \in Process :
      /\ pc[p] \in {"fill", "scrap"} =>
           Exists /\ lock.owner = p /\ ~lock.complete
      /\ pc[p] \in Critical => Exists /\ lock.owner = p /\ lock.complete

LockInv == OwnerIsWhereItSays /\ SnapshotsAreOfDeadOrPast /\ LocksStay

TypeInv == TypeOK /\ IsFiniteSet(Process \ alive)

IInv == TypeInv /\ (Prompt => LockInv)

(* A lock just created or written is a file.                               *)
LEMMA NewFileTyped ==
  ASSUME NEW p \in Process, NEW c \in BOOLEAN
  PROVE  /\ [owner |-> p, complete |-> c, age |-> 0] \in File
         /\ [owner |-> p, complete |-> c, age |-> 0] # None
<1>1. 0 \in 0 .. LockTimeout + 1
  BY TimesAssumption
<1>2. [owner |-> p, complete |-> c, age |-> 0] \in File
  BY <1>1 DEF File
<1> QED
  BY <1>2, NoneAssumption

(* Each death counts once.                                                 *)
LEMMA DeathIsCounted ==
  ASSUME NEW p \in alive, IsFiniteSet(Process \ alive), alive \subseteq Process
  PROVE  /\ IsFiniteSet(Process \ (alive \ {p}))
         /\ Cardinality(Process \ (alive \ {p})) = Cardinality(Process \ alive) + 1
         /\ Cardinality(Process \ alive) \in Nat
<1>1. Process \ (alive \ {p}) = (Process \ alive) \cup {p} /\ p \notin Process \ alive
  OBVIOUS
<1>2. /\ IsFiniteSet((Process \ alive) \cup {p})
      /\ Cardinality((Process \ alive) \cup {p}) = Cardinality(Process \ alive) + 1
  BY <1>1, FS_AddElement
<1>3. Cardinality(Process \ alive) \in Nat
  BY FS_CardinalityType
<1> QED
  BY <1>1, <1>2, <1>3

(* Every step keeps the types.                                             *)
LEMMA TypeStep ==
  ASSUME TypeInv, [Next]_vars
  PROVE  TypeOK'
<1>1. ASSUME NEW p \in Process, Begin(p) PROVE TypeOK'
  BY <1>1 DEF Begin, At, Goto, TypeInv, TypeOK, Steps, File, Exists
<1>2. ASSUME NEW p \in Process, FillFails(p) PROVE TypeOK'
  BY <1>2, BoundsAssumption DEF FillFails, At, Goto, TypeInv, TypeOK, Steps
<1>3. ASSUME NEW p \in Process, Finish(p) PROVE TypeOK'
  BY <1>3 DEF Finish, At, Goto, Same, TypeInv, TypeOK, Steps
<1>4. ASSUME NEW p \in Process, Crash(p) PROVE TypeOK'
  <2>1. /\ p \in alive /\ alive \subseteq Process /\ alive' = alive \ {p}
        /\ IsFiniteSet(Process \ alive)
        /\ Cardinality(Process \ alive) < MaxCrashes
    BY <1>4 DEF Crash, TypeInv, TypeOK
  <2>2. /\ Cardinality(Process \ alive') = Cardinality(Process \ alive) + 1
        /\ Cardinality(Process \ alive) \in Nat
    BY <2>1, DeathIsCounted
  <2>3. Cardinality(Process \ alive') <= MaxCrashes
    BY <2>1, <2>2, BoundsAssumption
  <2> QED
    BY <1>4, <2>3 DEF Crash, TypeInv, TypeOK
<1>5. ASSUME NEW p \in Process, Create(p) PROVE TypeOK'
  BY <1>5, NewFileTyped DEF Create, At, Goto, Same, TypeInv, TypeOK, Steps, Exists
<1>6. ASSUME NEW p \in Process, Fill(p) PROVE TypeOK'
  BY <1>6, NewFileTyped DEF Fill, At, Goto, Same, TypeInv, TypeOK, Steps, Exists
<1>7. ASSUME NEW p \in Process, Scrap(p) PROVE TypeOK'
  BY <1>7 DEF Scrap, At, Goto, Same, TypeInv, TypeOK, Steps
<1>8. ASSUME NEW p \in Process, Inspect(p) PROVE TypeOK'
  BY <1>8 DEF Inspect, At, Goto, IsStale, SnapshotOf, TypeInv, TypeOK, Steps, File,
      Snapshot, Exists
<1>9. ASSUME NEW p \in Process, Read(p) PROVE TypeOK'
  BY <1>9 DEF Read, ReadsComplete, At, Goto, IsProcessRunning, SnapshotOf, TypeInv, TypeOK, Steps,
      File, Snapshot, Exists
<1>10. ASSUME NEW p \in Process, Match(p) PROVE TypeOK'
  BY <1>10 DEF Match, At, Goto, Same, TypeInv, TypeOK, Steps
<1>11. ASSUME NEW p \in Process, Unlink(p) PROVE TypeOK'
  BY <1>11 DEF Unlink, At, Goto, Same, TypeInv, TypeOK, Steps
<1>12. ASSUME NEW p \in Process, Compare(p) PROVE TypeOK'
  BY <1>12 DEF Compare, At, Goto, Same, TypeInv, TypeOK, Steps
<1>13. ASSUME NEW p \in Process, Reread(p) PROVE TypeOK'
  BY <1>13 DEF Reread, ReadsComplete, At, Goto, Same, TypeInv, TypeOK, Steps
<1>14. ASSUME NEW p \in Process, Recompare(p) PROVE TypeOK'
  BY <1>14 DEF Recompare, At, Goto, Same, TypeInv, TypeOK, Steps
<1>15. ASSUME NEW p \in Process, Discard(p) PROVE TypeOK'
  BY <1>15 DEF Discard, At, Goto, Same, TypeInv, TypeOK, Steps
<1>16. ASSUME NEW p \in Process, Deadline(p) PROVE TypeOK'
  BY <1>16 DEF Deadline, At, Goto, Same, TypeInv, TypeOK, Steps
<1>17. ASSUME NEW p \in Process, WakeUp(p) PROVE TypeOK'
  BY <1>17 DEF WakeUp, At, Goto, Same, TypeInv, TypeOK, Steps
<1>18. ASSUME NEW p \in Process, Drop(p) PROVE TypeOK'
  BY <1>18 DEF Drop, At, Goto, Same, TypeInv, TypeOK, Steps
<1>19. ASSUME NEW p \in Process, Release(p) PROVE TypeOK'
  BY <1>19 DEF Release, At, Goto, Same, TypeInv, TypeOK, Steps
<1>20. CASE Tick
  BY <1>20, TimesAssumption, NoneAssumption DEF TypeInv, TypeOK, File, Tick, Exists
<1>21. CASE UNCHANGED vars
  BY <1>21 DEF TypeInv, TypeOK, Steps, vars
<1> QED
  BY <1>1, <1>2, <1>3, <1>4, <1>5, <1>6, <1>7, <1>8, <1>9, <1>10, <1>11, <1>12,
  <1>13, <1>14, <1>15, <1>16, <1>17, <1>18, <1>19, <1>20, <1>21 DEF Next, CodeStep

(* A lock passes from fill or scrap to the critical section with its       *)
(* owner, and no tick passes in between.                                   *)
LEMMA OwnerStep ==
  ASSUME TypeOK, Prompt, LockInv, [Next]_vars
  PROVE  OwnerIsWhereItSays'
<1>1. ASSUME NEW p \in Process, Begin(p) PROVE OwnerIsWhereItSays'
  BY <1>1 DEF Begin, At, Goto, LockInv, OwnerIsWhereItSays, Exists, Critical, TypeOK,
      File
<1>2. ASSUME NEW p \in Process, FillFails(p) PROVE OwnerIsWhereItSays'
  BY <1>2 DEF FillFails, At, Goto, LockInv, OwnerIsWhereItSays, Exists, Critical,
      TypeOK, File
<1>3. ASSUME NEW p \in Process, Finish(p) PROVE OwnerIsWhereItSays'
  BY <1>3 DEF Finish, At, Goto, Same, LockInv, OwnerIsWhereItSays, Exists, Critical,
      TypeOK, File
<1>4. ASSUME NEW p \in Process, Crash(p) PROVE OwnerIsWhereItSays'
  BY <1>4 DEF Crash, At, Goto, LockInv, OwnerIsWhereItSays, Exists, Critical, TypeOK,
      File
<1>5. ASSUME NEW p \in Process, Create(p) PROVE OwnerIsWhereItSays'
  BY <1>5, NewFileTyped DEF Create, At, Goto, Same, LockInv, OwnerIsWhereItSays,
      Exists, Critical, TypeOK, File
<1>6. ASSUME NEW p \in Process, Fill(p) PROVE OwnerIsWhereItSays'
  BY <1>6, NewFileTyped DEF Fill, At, Goto, Same, LockInv, OwnerIsWhereItSays,
      Exists, Critical, TypeOK, File
<1>7. ASSUME NEW p \in Process, Scrap(p) PROVE OwnerIsWhereItSays'
  BY <1>7 DEF Scrap, At, Goto, Same, LockInv, OwnerIsWhereItSays, Exists, Critical,
      TypeOK, File
<1>8. ASSUME NEW p \in Process, Inspect(p) PROVE OwnerIsWhereItSays'
  BY <1>8 DEF Inspect, At, Goto, IsStale, SnapshotOf, LockInv, OwnerIsWhereItSays,
      Exists, Critical, TypeOK, File
<1>9. ASSUME NEW p \in Process, Read(p) PROVE OwnerIsWhereItSays'
  BY <1>9 DEF Read, ReadsComplete, At, Goto, IsProcessRunning, SnapshotOf, LockInv,
      OwnerIsWhereItSays, Exists, Critical, TypeOK, File
<1>10. ASSUME NEW p \in Process, Match(p) PROVE OwnerIsWhereItSays'
  BY <1>10 DEF Match, At, Goto, Same, LockInv, OwnerIsWhereItSays, Exists, Critical,
      TypeOK, File
<1>11. ASSUME NEW p \in Process, Unlink(p) PROVE OwnerIsWhereItSays'
  BY <1>11 DEF Unlink, At, Goto, Same, LockInv, OwnerIsWhereItSays, Exists, Critical,
      TypeOK, File
<1>12. ASSUME NEW p \in Process, Compare(p) PROVE OwnerIsWhereItSays'
  BY <1>12 DEF Compare, At, Goto, Same, LockInv, OwnerIsWhereItSays, Exists,
      Critical, TypeOK, File
<1>13. ASSUME NEW p \in Process, Reread(p) PROVE OwnerIsWhereItSays'
  BY <1>13 DEF Reread, ReadsComplete, At, Goto, Same, LockInv, OwnerIsWhereItSays, Exists, Critical,
      TypeOK, File
<1>14. ASSUME NEW p \in Process, Recompare(p) PROVE OwnerIsWhereItSays'
  BY <1>14 DEF Recompare, At, Goto, Same, LockInv, OwnerIsWhereItSays, Exists,
      Critical, TypeOK, File
<1>15. ASSUME NEW p \in Process, Discard(p) PROVE OwnerIsWhereItSays'
  BY <1>15 DEF Discard, At, Goto, Same, LockInv, OwnerIsWhereItSays, Exists,
      Critical, TypeOK, File
<1>16. ASSUME NEW p \in Process, Deadline(p) PROVE OwnerIsWhereItSays'
  BY <1>16 DEF Deadline, At, Goto, Same, LockInv, OwnerIsWhereItSays, Exists,
      Critical, TypeOK, File
<1>17. ASSUME NEW p \in Process, WakeUp(p) PROVE OwnerIsWhereItSays'
  BY <1>17 DEF WakeUp, At, Goto, Same, LockInv, OwnerIsWhereItSays, Exists, Critical,
      TypeOK, File
<1>18. ASSUME NEW p \in Process, Drop(p) PROVE OwnerIsWhereItSays'
  BY <1>18 DEF Drop, At, Goto, Same, LockInv, OwnerIsWhereItSays, Exists, Critical,
      TypeOK, File, Matches, SnapshotOf
<1>19. ASSUME NEW p \in Process, Release(p) PROVE OwnerIsWhereItSays'
  BY <1>19 DEF Release, At, Goto, Same, LockInv, OwnerIsWhereItSays, Exists,
      Critical, TypeOK, File
<1>20. CASE Tick
  BY <1>20, TimesAssumption, NoneAssumption DEF LockInv, OwnerIsWhereItSays, Exists,
      Critical, TypeOK, File, Tick, Resting
<1>21. CASE UNCHANGED vars
  BY <1>21 DEF LockInv, OwnerIsWhereItSays, Exists, Critical, TypeOK, File, vars
<1> QED
  BY <1>1, <1>2, <1>3, <1>4, <1>5, <1>6, <1>7, <1>8, <1>9, <1>10, <1>11, <1>12,
  <1>13, <1>14, <1>15, <1>16, <1>17, <1>18, <1>19, <1>20, <1>21 DEF Next, CodeStep

(* The dead stay dead, and no one takes the lock twice.                    *)
LEMMA SnapshotStep ==
  ASSUME TypeOK, Prompt, LockInv, [Next]_vars
  PROVE  SnapshotsAreOfDeadOrPast'
<1>1. ASSUME NEW p \in Process, Begin(p) PROVE SnapshotsAreOfDeadOrPast'
  BY <1>1 DEF Begin, At, Goto, LockInv, SnapshotsAreOfDeadOrPast, Dead, Past, TypeOK,
      File, Snapshot, Critical, Exists
<1>2. ASSUME NEW p \in Process, FillFails(p) PROVE SnapshotsAreOfDeadOrPast'
  BY <1>2 DEF FillFails, At, Goto, LockInv, SnapshotsAreOfDeadOrPast, Dead, Past,
      TypeOK, File, Snapshot, Critical, Exists
<1>3. ASSUME NEW p \in Process, Finish(p) PROVE SnapshotsAreOfDeadOrPast'
  BY <1>3 DEF Finish, At, Goto, Same, LockInv, SnapshotsAreOfDeadOrPast, Dead, Past,
      TypeOK, File, Snapshot, Critical, Exists
<1>4. ASSUME NEW p \in Process, Crash(p) PROVE SnapshotsAreOfDeadOrPast'
  BY <1>4 DEF Crash, At, Goto, LockInv, SnapshotsAreOfDeadOrPast, Dead, Past, TypeOK,
      File, Snapshot, Critical, Exists
<1>5. ASSUME NEW p \in Process, Create(p) PROVE SnapshotsAreOfDeadOrPast'
  BY <1>5, NoneAssumption DEF Create, At, Goto, Same, LockInv,
      SnapshotsAreOfDeadOrPast, Dead, Past, TypeOK, File, Snapshot, Critical, Exists
<1>6. ASSUME NEW p \in Process, Fill(p) PROVE SnapshotsAreOfDeadOrPast'
  BY <1>6, NoneAssumption DEF Fill, At, Goto, Same, LockInv,
      SnapshotsAreOfDeadOrPast, Dead, Past, TypeOK, File, Snapshot, Critical, Exists
<1>7. ASSUME NEW p \in Process, Scrap(p) PROVE SnapshotsAreOfDeadOrPast'
  BY <1>7 DEF Scrap, At, Goto, Same, LockInv, SnapshotsAreOfDeadOrPast, Dead, Past,
      TypeOK, File, Snapshot, Critical, Exists
<1>8. ASSUME NEW p \in Process, Inspect(p) PROVE SnapshotsAreOfDeadOrPast'
  BY <1>8, TimesAssumption DEF Inspect, At, Goto, IsStale, SnapshotOf, LockInv,
      SnapshotsAreOfDeadOrPast, Dead, Past, TypeOK, File, Snapshot, Critical, Exists,
      OwnerIsWhereItSays
<1>9. ASSUME NEW p \in Process, Read(p) PROVE SnapshotsAreOfDeadOrPast'
  BY <1>9 DEF Read, ReadsComplete, At, Goto, IsProcessRunning, SnapshotOf, LockInv,
      SnapshotsAreOfDeadOrPast, Dead, Past, TypeOK, File, Snapshot, Critical, Exists,
      OwnerIsWhereItSays
<1>10. ASSUME NEW p \in Process, Match(p) PROVE SnapshotsAreOfDeadOrPast'
  BY <1>10 DEF Match, At, Goto, Same, LockInv, SnapshotsAreOfDeadOrPast, Dead, Past,
      TypeOK, File, Snapshot, Critical, Exists
<1>11. ASSUME NEW p \in Process, Unlink(p) PROVE SnapshotsAreOfDeadOrPast'
  BY <1>11 DEF Unlink, At, Goto, Same, LockInv, SnapshotsAreOfDeadOrPast, Dead, Past,
      TypeOK, File, Snapshot, Critical, Exists
<1>12. ASSUME NEW p \in Process, Compare(p) PROVE SnapshotsAreOfDeadOrPast'
  BY <1>12 DEF Compare, At, Goto, Same, LockInv, SnapshotsAreOfDeadOrPast, Dead,
      Past, TypeOK, File, Snapshot, Critical, Exists, Matches
<1>13. ASSUME NEW p \in Process, Reread(p) PROVE SnapshotsAreOfDeadOrPast'
  BY <1>13 DEF Reread, ReadsComplete, At, Goto, Same, LockInv, SnapshotsAreOfDeadOrPast, Dead, Past,
      TypeOK, File, Snapshot, Critical, Exists, OwnerIsWhereItSays
<1>14. ASSUME NEW p \in Process, Recompare(p) PROVE SnapshotsAreOfDeadOrPast'
  BY <1>14 DEF Recompare, At, Goto, Same, LockInv, SnapshotsAreOfDeadOrPast, Dead,
      Past, TypeOK, File, Snapshot, Critical, Exists, Matches, SnapshotOf,
      OwnerIsWhereItSays
<1>15. ASSUME NEW p \in Process, Discard(p) PROVE SnapshotsAreOfDeadOrPast'
  BY <1>15 DEF Discard, At, Goto, Same, LockInv, SnapshotsAreOfDeadOrPast, Dead,
      Past, TypeOK, File, Snapshot, Critical, Exists
<1>16. ASSUME NEW p \in Process, Deadline(p) PROVE SnapshotsAreOfDeadOrPast'
  BY <1>16 DEF Deadline, At, Goto, Same, LockInv, SnapshotsAreOfDeadOrPast, Dead,
      Past, TypeOK, File, Snapshot, Critical, Exists
<1>17. ASSUME NEW p \in Process, WakeUp(p) PROVE SnapshotsAreOfDeadOrPast'
  BY <1>17 DEF WakeUp, At, Goto, Same, LockInv, SnapshotsAreOfDeadOrPast, Dead, Past,
      TypeOK, File, Snapshot, Critical, Exists
<1>18. ASSUME NEW p \in Process, Drop(p) PROVE SnapshotsAreOfDeadOrPast'
  BY <1>18 DEF Drop, At, Goto, Same, LockInv, SnapshotsAreOfDeadOrPast, Dead, Past,
      TypeOK, File, Snapshot, Critical, Exists
<1>19. ASSUME NEW p \in Process, Release(p) PROVE SnapshotsAreOfDeadOrPast'
  BY <1>19 DEF Release, At, Goto, Same, LockInv, SnapshotsAreOfDeadOrPast, Dead,
      Past, TypeOK, File, Snapshot, Critical, Exists
<1>20. CASE Tick
  BY <1>20, NoneAssumption DEF LockInv, SnapshotsAreOfDeadOrPast, Dead, Past, TypeOK,
      File, Snapshot, Critical, Exists, Tick, Resting
<1>21. CASE UNCHANGED vars
  BY <1>21 DEF LockInv, SnapshotsAreOfDeadOrPast, Dead, Past, TypeOK, File, Snapshot,
      Critical, Exists, vars
<1> QED
  BY <1>1, <1>2, <1>3, <1>4, <1>5, <1>6, <1>7, <1>8, <1>9, <1>10, <1>11, <1>12,
  <1>13, <1>14, <1>15, <1>16, <1>17, <1>18, <1>19, <1>20, <1>21 DEF Next, CodeStep

(* While nobody has died no waiter reaches a removal.                      *)
LEMMA LocksStep ==
  ASSUME TypeOK, Prompt, LockInv, [Next]_vars
  PROVE  LocksStay'
<1>1. ASSUME NEW p \in Process, Begin(p) PROVE LocksStay'
  BY <1>1 DEF Begin, At, Goto, LockInv, LocksStay, Exists, Critical, TypeOK, File
<1>2. ASSUME NEW p \in Process, FillFails(p) PROVE LocksStay'
  BY <1>2 DEF FillFails, At, Goto, LockInv, LocksStay, Exists, Critical, TypeOK, File
<1>3. ASSUME NEW p \in Process, Finish(p) PROVE LocksStay'
  BY <1>3 DEF Finish, At, Goto, Same, LockInv, LocksStay, Exists, Critical, TypeOK, File
<1>4. ASSUME NEW p \in Process, Crash(p) PROVE LocksStay'
  BY <1>4 DEF Crash, At, Goto, LockInv, LocksStay, Exists, Critical, TypeOK, File
<1>5. ASSUME NEW p \in Process, Create(p) PROVE LocksStay'
  <2> SUFFICES ASSUME alive' = Process, NEW q \in Process
               PROVE  /\ pc'[q] \in {"fill", "scrap"} =>
                            /\ lock' # None
                            /\ lock'.owner = q /\ ~lock'.complete
                      /\ pc'[q] \in Critical =>
                            /\ lock' # None
                            /\ lock'.owner = q /\ lock'.complete
    BY DEF LocksStay, Exists
  <2>1. alive = Process /\ pc[p] = "create"
    BY <1>5 DEF Create, At, Same
  <2>2. CASE lock # None
    BY <1>5, <2>1, <2>2 DEF Create, At, Goto, Exists, LockInv, LocksStay, TypeOK,
                            Critical
  <2>3. CASE lock = None
    <3>1. /\ pc[q] \notin {"fill", "scrap"} \cup Critical
          /\ pc' = [pc EXCEPT ![p] = "fill"]
          /\ lock' = [owner |-> p, complete |-> FALSE, age |-> 0]
      BY <1>5, <2>1, <2>3 DEF Create, Goto, Exists, LockInv, LocksStay
    <3>2. lock'.owner = p /\ lock'.complete = FALSE /\ lock' # None
      BY <3>1, NewFileTyped
    <3> QED
      BY <3>1, <3>2 DEF TypeOK, Critical
  <2> QED
    BY <2>2, <2>3
<1>6. ASSUME NEW p \in Process, Fill(p) PROVE LocksStay'
  <2> SUFFICES ASSUME alive' = Process, NEW q \in Process
               PROVE  /\ pc'[q] \in {"fill", "scrap"} =>
                            /\ lock' # None
                            /\ lock'.owner = q /\ ~lock'.complete
                      /\ pc'[q] \in Critical =>
                            /\ lock' # None
                            /\ lock'.owner = q /\ lock'.complete
    BY DEF LocksStay, Exists
  <2>1. /\ alive = Process /\ pc[p] = "fill"
        /\ lock # None /\ lock.owner = p
    BY <1>6 DEF Fill, At, Same, LockInv, LocksStay, Exists
  <2>2. /\ q # p => pc[q] \notin {"fill", "scrap"} \cup Critical
        /\ pc' = [pc EXCEPT ![p] = "held"]
        /\ lock' = [owner |-> p, complete |-> TRUE, age |-> 0]
    BY <1>6, <2>1 DEF Fill, Goto, Exists, LockInv, LocksStay
  <2>3. lock'.owner = p /\ lock'.complete = TRUE /\ lock' # None
    BY <2>2, NewFileTyped
  <2> QED
    BY <2>1, <2>2, <2>3 DEF TypeOK, Critical
<1>7. ASSUME NEW p \in Process, Scrap(p) PROVE LocksStay'
  BY <1>7 DEF Scrap, At, Goto, Same, LockInv, LocksStay, Exists, Critical, TypeOK, File
<1>8. ASSUME NEW p \in Process, Inspect(p) PROVE LocksStay'
  BY <1>8 DEF Inspect, At, Goto, IsStale, SnapshotOf, LockInv, LocksStay, Exists,
      Critical, TypeOK, File
<1>9. ASSUME NEW p \in Process, Read(p) PROVE LocksStay'
  BY <1>9 DEF Read, ReadsComplete, At, Goto, IsProcessRunning, SnapshotOf, LockInv, LocksStay,
      Exists, Critical, TypeOK, File
<1>10. ASSUME NEW p \in Process, Match(p) PROVE LocksStay'
  BY <1>10 DEF Match, At, Goto, Same, LockInv, LocksStay, Exists, Critical, TypeOK, File
<1>11. ASSUME NEW p \in Process, Unlink(p) PROVE LocksStay'
  BY <1>11 DEF Unlink, At, Goto, Same, LockInv, LocksStay, Exists, Critical, TypeOK,
      File, SnapshotsAreOfDeadOrPast, Dead, Snapshot
<1>12. ASSUME NEW p \in Process, Compare(p) PROVE LocksStay'
  BY <1>12 DEF Compare, At, Goto, Same, LockInv, LocksStay, Exists, Critical, TypeOK,
      File
<1>13. ASSUME NEW p \in Process, Reread(p) PROVE LocksStay'
  BY <1>13 DEF Reread, ReadsComplete, At, Goto, Same, LockInv, LocksStay, Exists, Critical, TypeOK,
      File
<1>14. ASSUME NEW p \in Process, Recompare(p) PROVE LocksStay'
  BY <1>14 DEF Recompare, At, Goto, Same, LockInv, LocksStay, Exists, Critical,
      TypeOK, File
<1>15. ASSUME NEW p \in Process, Discard(p) PROVE LocksStay'
  BY <1>15 DEF Discard, At, Goto, Same, LockInv, LocksStay, Exists, Critical, TypeOK,
      File, SnapshotsAreOfDeadOrPast, Dead, Snapshot
<1>16. ASSUME NEW p \in Process, Deadline(p) PROVE LocksStay'
  BY <1>16 DEF Deadline, At, Goto, Same, LockInv, LocksStay, Exists, Critical,
      TypeOK, File
<1>17. ASSUME NEW p \in Process, WakeUp(p) PROVE LocksStay'
  BY <1>17 DEF WakeUp, At, Goto, Same, LockInv, LocksStay, Exists, Critical, TypeOK,
      File
<1>18. ASSUME NEW p \in Process, Drop(p) PROVE LocksStay'
  BY <1>18 DEF Drop, At, Goto, Same, LockInv, LocksStay, Exists, Critical, TypeOK,
      File, Matches, SnapshotOf
<1>19. ASSUME NEW p \in Process, Release(p) PROVE LocksStay'
  BY <1>19 DEF Release, At, Goto, Same, LockInv, LocksStay, Exists, Critical, TypeOK,
      File
<1>20. CASE Tick
  <2>1. pc' = pc /\ alive' = alive
    BY <1>20 DEF Tick
  <2>2. ASSUME Exists
        PROVE  /\ Exists' /\ lock'.owner = lock.owner
               /\ lock'.complete = lock.complete
    <3>1. lock \in File
      BY <2>2 DEF Exists, TypeOK
    <3>2. lock' = lock \/ lock' = [lock EXCEPT !.age = @ + 1]
      BY <1>20 DEF Tick
    <3>3. lock' \in File
      BY <1>20, <2>2, <3>1, TimesAssumption DEF Tick, File
    <3> QED
      BY <2>2, <3>1, <3>2, <3>3, NoneAssumption DEF Exists, File
  <2> QED
    BY <2>1, <2>2 DEF LockInv, LocksStay
<1>21. CASE UNCHANGED vars
  BY <1>21 DEF LockInv, LocksStay, Exists, Critical, TypeOK, File, vars
<1> QED
  BY <1>1, <1>2, <1>3, <1>4, <1>5, <1>6, <1>7, <1>8, <1>9, <1>10, <1>11, <1>12,
  <1>13, <1>14, <1>15, <1>16, <1>17, <1>18, <1>19, <1>20, <1>21 DEF Next, CodeStep

-----------------------------------------------------------------------------
(* The three facts of an inductive invariant.                              *)
LEMMA InitIInv == Init => IInv
<1> SUFFICES ASSUME Init PROVE IInv
  OBVIOUS
<1>1. Process \ alive = {}
  BY DEF Init
<1>2. IsFiniteSet(Process \ alive) /\ Cardinality(Process \ alive) = 0
  BY <1>1, FS_EmptySet
<1>3. TypeOK
  BY <1>2, TimesAssumption, BoundsAssumption DEF Init, TypeOK, Steps
<1>4. LockInv
  BY DEF Init, LockInv, OwnerIsWhereItSays, SnapshotsAreOfDeadOrPast, LocksStay,
         Exists, Critical
<1> QED
  BY <1>2, <1>3, <1>4 DEF IInv, TypeInv

LEMMA NextIInv == IInv /\ [Next]_vars => IInv'
<1> SUFFICES ASSUME IInv, [Next]_vars PROVE IInv'
  OBVIOUS
<1>1. TypeInv /\ TypeOK
  BY DEF IInv, TypeInv
<1>2. TypeOK'
  BY <1>1, TypeStep
<1>3. IsFiniteSet(Process \ alive)'
  <2>1. \/ alive' = alive
        \/ \E p \in alive : alive' = alive \ {p}
    BY DEF Next, CodeStep, vars, Same, Crash, Begin, FillFails, Finish, Create, Fill,
           Scrap, Inspect, Read, Match, Unlink, Compare, Reread, Recompare,
           Discard, Deadline, WakeUp, Drop, Release, Tick
  <2> QED
    BY <1>1, <2>1, DeathIsCounted DEF TypeInv, TypeOK
<1>4. Prompt => LockInv'
  BY <1>1, OwnerStep, SnapshotStep, LocksStep DEF IInv, LockInv
<1> QED
  BY <1>2, <1>3, <1>4 DEF IInv, TypeInv

LEMMA InvariantHolds == Spec => []IInv
BY InitIInv, NextIInv, PTL DEF Spec

(* Type correctness, for any number of processes, deaths and failed        *)
(* writes, however slow the processes are.                                 *)
THEOREM TypeCorrect == Spec => []TypeOK
<1>1. IInv => TypeOK
  BY DEF IInv, TypeInv
<1> QED
  BY <1>1, InvariantHolds, PTL

(* While nobody has died the lock excludes, if no process stalls between   *)
(* two file operations for longer than LIFECYCLE_LOCK_STALE_TTL.           *)
THEOREM ExclusionWithoutDeaths ==
  ASSUME Prompt
  PROVE  Spec => []ExclusiveWhileNoneDied
<1>1. IInv => ExclusiveWhileNoneDied
  BY DEF IInv, LockInv, LocksStay, ExclusiveWhileNoneDied, MutualExclusion,
         Holding, Critical
<1> QED
  BY <1>1, InvariantHolds, PTL

(* Whoever dies, when and how often: recovery never comes to remove a lock *)
(* that it has read while its holder lives.                                *)
THEOREM RecoveryIsAgainstTheDead ==
  ASSUME Prompt
  PROVE  Spec => []NoLiveLockCondemned
<1>1. IInv => NoLiveLockCondemned
  BY DEF IInv, LockInv, SnapshotsAreOfDeadOrPast, Dead, NoLiveLockCondemned,
         Holding, At
<1> QED
  BY <1>1, InvariantHolds, PTL

-----------------------------------------------------------------------------
(* A lock whose owner was dead when p began is at least as old as the wait *)
(* of p, and p is at the deadline with it only from an inspection that     *)
(* found it too young to be stale.                                         *)
RecoveryOf(p) ==
  /\ pc[p] = "idle" => waited[p] = 0
  /\ doomed[p] # None => doomed[p] \notin alive
  /\ Exists /\ lock.owner = doomed[p] =>
       waited[p] <= lock.age /\ (pc[p] = "deadline" => waited[p] <= StaleTTL)

RecoveryInv == \A p \in Process : RecoveryOf(p)

(* A lock of a process that lives is not one of those.                     *)
LEMMA LiveIsNotDoomed ==
  ASSUME TypeOK, NEW p \in Process, RecoveryOf(p), Exists, lock.owner \in alive
  PROVE  lock.owner # doomed[p]
BY NoneAssumption DEF RecoveryOf, TypeOK, File, Exists

LEMMA RecoveryStep ==
  ASSUME TypeOK, TypeOK', Prompt, NEW p \in Process, RecoveryOf(p), [Next]_vars
  PROVE  RecoveryOf(p)'
<1>1. ASSUME NEW q \in Process, Begin(q) PROVE RecoveryOf(p)'
  <2>1. pc' = [pc EXCEPT ![q] = "create"] /\ UNCHANGED <<lock, waited, alive>>
    BY <1>1 DEF Begin, Goto
  <2>2. CASE q = p
    <3>1. /\ pc'[p] = "create" /\ waited[p] = 0
          /\ doomed'[p] # None => doomed'[p] \notin alive
      BY <1>1, <2>1, <2>2 DEF Begin, At, IsProcessRunning, RecoveryOf, TypeOK
    <3>2. Exists => lock.age \in Nat
      BY TimesAssumption DEF TypeOK, File, Exists
    <3> QED
      BY <2>1, <3>1, <3>2 DEF RecoveryOf, Exists
  <2>3. CASE q # p
    BY <1>1, <2>1, <2>3 DEF Begin, RecoveryOf, TypeOK, Exists
  <2> QED
    BY <2>2, <2>3
<1>2. ASSUME NEW q \in Process, Create(q) PROVE RecoveryOf(p)'
  <2>1. q \in alive /\ UNCHANGED <<waited, alive, doomed>>
    BY <1>2 DEF Create, At, Same
  <2>2. pc'[p] = pc[p] \/ pc'[p] \in {"inspect", "fill"}
    BY <1>2 DEF Create, Goto, TypeOK
  <2>3. lock' = lock \/ lock'.owner = q
    BY <1>2 DEF Create
  <2>4. doomed[p] # q
    BY <2>1, NoneAssumption DEF RecoveryOf
  <2> QED
    BY <2>1, <2>2, <2>3, <2>4 DEF RecoveryOf, Exists
<1>3. ASSUME NEW q \in Process, Fill(q) PROVE RecoveryOf(p)'
  <2>1. q \in alive /\ UNCHANGED <<waited, alive, doomed>>
    BY <1>3 DEF Fill, At, Same
  <2>2. pc'[p] = pc[p] \/ pc'[p] \in {"held", "scrap"}
    BY <1>3 DEF Fill, Goto, TypeOK
  <2>3. lock' = lock \/ lock'.owner = q
    BY <1>3 DEF Fill
  <2>4. doomed[p] # q
    BY <2>1, NoneAssumption DEF RecoveryOf
  <2> QED
    BY <2>1, <2>2, <2>3, <2>4 DEF RecoveryOf, Exists
<1>4. ASSUME NEW q \in Process, Inspect(q) PROVE RecoveryOf(p)'
  <2>1. UNCHANGED <<lock, waited, alive, doomed>>
    BY <1>4 DEF Inspect
  <2>2. CASE q = p /\ Exists /\ ~IsStale(lock)
    <3>1. pc'[p] = "deadline" /\ lock.age <= StaleTTL
      BY <1>4, <2>2, TimesAssumption DEF Inspect, Goto, IsStale, TypeOK, File, Exists
    <3>2. waited[p] \in Nat /\ lock.age \in Nat
      BY <2>2, TimesAssumption DEF TypeOK, File, Exists
    <3> QED
      BY <2>1, <3>1, <3>2, TimesAssumption DEF RecoveryOf, Exists
  <2>3. CASE q # p \/ ~Exists \/ IsStale(lock)
    <3>1. pc'[p] = pc[p] \/ ~Exists \/ pc'[p] = "read"
      BY <1>4, <2>3 DEF Inspect, Goto, TypeOK
    <3>2. pc'[p] # "idle" \/ pc[p] = "idle"
      BY <1>4 DEF Inspect, Goto, TypeOK
    <3> QED
      BY <2>1, <3>1, <3>2 DEF RecoveryOf, Exists
  <2> QED
    BY <2>2, <2>3
<1>5. ASSUME NEW q \in Process, Read(q) PROVE RecoveryOf(p)'
  <2>1. UNCHANGED <<lock, waited, alive, doomed>>
    BY <1>5 DEF Read
  <2>2. \/ pc'[p] = pc[p] \/ pc'[p] \in {"compare", "match"}
        \/ pc'[p] = "deadline" /\ Exists /\ lock.owner \in alive
    BY <1>5 DEF Read, ReadsComplete, IsProcessRunning, Goto, TypeOK
  <2>3. pc'[p] = "deadline" /\ pc[p] # "deadline" /\ Exists => lock.owner # doomed[p]
    BY <2>2, LiveIsNotDoomed
  <2> QED
    BY <2>1, <2>2, <2>3 DEF RecoveryOf, Exists
<1>6. ASSUME NEW q \in Process,
             \/ FillFails(q) \/ Finish(q) \/ Scrap(q) \/ Match(q) \/ Unlink(q)
             \/ Compare(q) \/ Reread(q) \/ Recompare(q) \/ Discard(q) \/ Deadline(q)
             \/ WakeUp(q) \/ Drop(q) \/ Release(q)
      PROVE  RecoveryOf(p)'
  <2>1. (lock' = lock \/ lock' = None) /\ UNCHANGED <<waited, alive, doomed>>
    BY <1>6 DEF FillFails, Finish, Scrap, Match, Unlink, Compare, Reread, Recompare, Discard,
       Deadline, WakeUp, Drop, Release, Same
  <2>2. pc'[p] = pc[p] \/ pc'[p] \in Steps \ {"idle", "deadline"}
    BY <1>6 DEF FillFails, Finish, Scrap, Match, Unlink, Compare, Reread, Recompare, Discard,
       Deadline, WakeUp, Drop, Release, Goto, TypeOK, Steps
  <2> QED
    BY <2>1, <2>2 DEF RecoveryOf, Exists
<1>7. ASSUME NEW q \in Process, Crash(q) PROVE RecoveryOf(p)'
  BY <1>7 DEF Crash, RecoveryOf, Exists
<1>8. CASE Tick
  <2>1. /\ UNCHANGED <<pc, alive, doomed>>
        /\ waited[p] \in 0..LockTimeout
        /\ waited'[p] \in {waited[p]} \cup (1..LockTimeout)
        /\ waited'[p] \in {waited[p], waited[p] + 1}
        /\ pc[p] = "idle" => waited'[p] = waited[p]
        /\ lock' = IF Exists /\ lock.age <= LockTimeout
                   THEN [lock EXCEPT !.age = @ + 1] ELSE lock
    BY <1>8, TimesAssumption DEF Tick, TypeOK, Acquiring, Steps
  <2>2. SUFFICES ASSUME Exists', lock'.owner = doomed[p]
                 PROVE  waited'[p] <= lock'.age /\ (pc[p] = "deadline" => waited'[p] <= StaleTTL)
    BY <2>1 DEF RecoveryOf
  <2>3. /\ Exists /\ lock.owner = doomed[p] /\ lock.age \in 0..(LockTimeout + 1)
        /\ lock'.age = IF lock.age <= LockTimeout THEN lock.age + 1 ELSE lock.age
    BY <2>1, <2>2 DEF Exists, TypeOK, File
  <2>4. waited'[p] <= lock'.age
    BY <2>1, <2>3, TimesAssumption DEF RecoveryOf
  <2>5. pc[p] = "deadline" => waited'[p] = waited[p]
    <3>1. p \in alive => pc[p] # "deadline"
      BY <1>8 DEF Tick, Resting
    <3>2. p \notin alive => waited'[p] = waited[p]
      BY <1>8 DEF Tick, TypeOK
    <3> QED
      BY <3>1, <3>2
  <2> QED
    BY <2>3, <2>4, <2>5 DEF RecoveryOf
<1>9. CASE UNCHANGED vars
  BY <1>9 DEF vars, RecoveryOf, Exists
<1> QED
  BY <1>1, <1>2, <1>3, <1>4, <1>5, <1>6, <1>7, <1>8, <1>9 DEF Next, CodeStep

(* The first waiter after a crash recovers the lock: it never gives up on  *)
(* one whose owner was dead when it began.                                 *)
THEOREM DeadLocksRecovered ==
  ASSUME Prompt
  PROVE  Spec => DeadLocksAreRecovered
<1>1. Init => RecoveryInv
  BY DEF Init, RecoveryInv, RecoveryOf, Exists
<1>2. TypeOK /\ TypeOK' /\ RecoveryInv /\ [Next]_vars => RecoveryInv'
  BY RecoveryStep DEF RecoveryInv
<1>3. TypeOK /\ RecoveryInv /\ [Next]_vars =>
        [\A p \in Process :
           pc[p] = "deadline" /\ pc'[p] = "timedout" /\ Exists
             => lock.owner # doomed[p]]_vars
  <2> SUFFICES ASSUME TypeOK, RecoveryInv, Next, NEW p \in Process,
                      pc[p] = "deadline", pc'[p] = "timedout", Exists
               PROVE  lock.owner # doomed[p]
    OBVIOUS
  <2>1. waited[p] >= LockTimeout
    <3>1. \A q \in Process : Deadline(q) /\ q = p => waited[p] >= LockTimeout
      BY DEF Deadline, Goto, TypeOK
    <3>2. \A q \in Process : Deadline(q) => q = p
      BY DEF Deadline, Goto, TypeOK
    <3>3. \E q \in Process : Deadline(q)
      BY DEF Next, CodeStep, Begin, FillFails, Finish, Crash, Create, Fill, Scrap, Inspect,
         Read, Match, Unlink, Compare, Reread, Recompare, Discard, WakeUp, Drop, Release,
         Tick, Goto, TypeOK
    <3> QED
      BY <3>1, <3>2, <3>3
  <2>2. waited[p] \in Nat
    BY TimesAssumption DEF TypeOK
  <2> QED
    BY <2>1, <2>2, TimesAssumption DEF RecoveryInv, RecoveryOf
<1> QED
  BY <1>1, <1>2, <1>3, TypeCorrect, PTL DEF Spec, DeadLocksAreRecovered
=============================================================================
