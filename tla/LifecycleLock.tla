--------------------------- MODULE LifecycleLock ---------------------------
(***************************************************************************)
(* daemon.lifecycle.lock (daemon/lifecycle.rs): the file that serializes   *)
(* the lifecycle commands and the daemon's startup, and how the lock of a  *)
(* dead owner is recovered.  One action per access to the file system, so  *)
(* that any two processes may interleave between two accesses.             *)
(*                                                                         *)
(* A process takes the lock once, so it also names its pid, its token and  *)
(* the file it created.  A file is empty until its content is written in   *)
(* one call; identity and length of a file stand for the FileSnapshot.     *)
(***************************************************************************)
EXTENDS Naturals, FiniteSets

CONSTANTS
  Process,      \* the commands and daemons that take the lock
  None,
  StaleTTL,     \* LIFECYCLE_LOCK_STALE_TTL, in ticks
  LockTimeout,  \* LIFECYCLE_LOCK_TIMEOUT, in ticks
  MaxCrashes,   \* bound: processes that die
  MaxWriteErrors, \* bound: writes of a new lock's content that fail
  Prompt        \* no tick passes while a process is between two steps

\* daemon.rs:36-41, asserted by daemon/tests.rs.
ASSUME TimesAssumption ==
  /\ StaleTTL \in Nat /\ LockTimeout \in Nat /\ StaleTTL < LockTimeout
ASSUME BoundsAssumption ==
  /\ MaxCrashes \in Nat /\ MaxWriteErrors \in Nat /\ Prompt \in BOOLEAN

VARIABLES
  lock,    \* the file at the path: None, or its owner, content and age
  pc,      \* the next step of each process
  seen,    \* the file a waiter inspected
  waited,  \* ticks since the process began to acquire
  alive,   \* the processes whose pid runs
  errors,  \* number of failed writes
  doomed   \* history: the dead owner a waiter met when it began, or None

vars == <<lock, pc, seen, waited, alive, errors, doomed>>

Steps == {"idle", "create", "fill", "scrap", "inspect", "read", "match",
          "unlink", "compare", "reread", "recompare", "discard", "deadline",
          "sleep", "held", "drop", "release", "done", "timedout", "failed"}
Resting == {"idle", "sleep", "held", "done", "timedout", "failed"}
Acquiring == Steps \ {"idle", "held", "drop", "release", "done", "timedout",
                      "failed"}

File == [owner : Process, complete : BOOLEAN, age : 0 .. LockTimeout + 1]
Snapshot == [owner : Process, complete : BOOLEAN]
ASSUME NoneAssumption == None \notin File \cup Process

\* Wrong: the snapshot holds what changes while the file does not.
SnapshotWithAge(f) == f

SnapshotOf(f) == [owner |-> f.owner, complete |-> f.complete]
Exists == lock # None
Matches(s) == Exists /\ SnapshotOf(lock) = s

\* Wrong: a lock is stale only after every waiter has given up.
IsStaleLate(f) == f.age > LockTimeout

\* Wrong: the age is not looked at.
IsStaleAtOnce(f) == f.age >= 0

\* FileSnapshot::is_stale; only the inspected file can have grown younger,
\* and then the snapshot no longer matches.
IsStale(f) == f.age > StaleTTL

\* Wrong: a process that does nothing visible is taken for dead.
IsProcessBusy(p) == p \in alive /\ pc[p] # "held"

\* is_process_running of the recorded pid.  It is asked of a lock older than
\* StaleTTL only; a check that fails, which would call its owner dead, is left
\* out, and so is a dead owner's pid that another process got.
IsProcessRunning(p) == p \in alive

TypeOK ==
  /\ lock \in File \cup {None}
  /\ pc \in [Process -> Steps]
  /\ seen \in [Process -> Snapshot \cup {None}]
  /\ waited \in [Process -> 0 .. LockTimeout]
  /\ alive \subseteq Process /\ Cardinality(Process \ alive) <= MaxCrashes
  /\ errors \in 0 .. MaxWriteErrors
  /\ doomed \in [Process -> Process \cup {None}]

Init ==
  /\ lock = None
  /\ pc = [p \in Process |-> "idle"]
  /\ seen = [p \in Process |-> None]
  /\ waited = [p \in Process |-> 0]
  /\ alive = Process
  /\ errors = 0
  /\ doomed = [p \in Process |-> None]

-----------------------------------------------------------------------------
At(p, step) == p \in alive /\ pc[p] = step
Goto(p, step) == pc' = [pc EXCEPT ![p] = step]
Same == UNCHANGED <<seen, waited, alive, errors, doomed>>

Begin(p) ==
  /\ At(p, "idle") /\ Goto(p, "create")
  /\ doomed' = [doomed EXCEPT ![p] =
       IF Exists /\ ~IsProcessRunning(lock.owner) THEN lock.owner ELSE None]
  /\ UNCHANGED <<lock, seen, waited, alive, errors>>

\* create_new: exclusive creation of an empty file.
Create(p) ==
  /\ At(p, "create")
  /\ IF Exists
       THEN Goto(p, "inspect") /\ UNCHANGED lock
       ELSE /\ lock' = [owner |-> p, complete |-> FALSE, age |-> 0]
            /\ Goto(p, "fill")
  /\ Same

\* The content goes to the file that was created, wherever it is now;
\* set_private_file_permissions goes to the path and fails if it is gone.
Fill(p) ==
  /\ At(p, "fill")
  /\ IF Exists
       THEN /\ lock' = IF lock.owner # p THEN lock
                       ELSE [owner |-> p, complete |-> TRUE, age |-> 0]
            /\ Goto(p, "held")
       ELSE Goto(p, "scrap") /\ UNCHANGED lock
  /\ Same

FillFails(p) ==
  /\ At(p, "fill") /\ errors < MaxWriteErrors
  /\ errors' = errors + 1 /\ Goto(p, "scrap")
  /\ UNCHANGED <<lock, seen, waited, alive, doomed>>

\* remove_file_if_exists(path) after a failed write.
Scrap(p) ==
  /\ At(p, "scrap") /\ lock' = None /\ Goto(p, "failed") /\ Same

\* inspect_stale_lifecycle_lock up to its first return: the snapshot.
Inspect(p) ==
  /\ At(p, "inspect")
  /\ IF Exists /\ IsStale(lock)
       THEN /\ seen' = [seen EXCEPT ![p] = SnapshotOf(lock)]
            /\ Goto(p, "read")
       ELSE Goto(p, "deadline") /\ UNCHANGED seen
  /\ UNCHANGED <<lock, waited, alive, errors, doomed>>

\* read_lifecycle_lock finds the pid, the token and the time; a file that its
\* creator has not written yet has none of them.
ReadsComplete == Exists /\ lock.complete

\* read_lifecycle_lock and what the inspection concludes from it: NotStale,
\* Owned(token) or Incomplete(snapshot).
Read(p) ==
  /\ At(p, "read")
  /\ IF ~ReadsComplete
       THEN Goto(p, "compare") /\ UNCHANGED seen
       ELSE IF IsProcessRunning(lock.owner)
         THEN Goto(p, "deadline") /\ UNCHANGED seen
         ELSE /\ seen' = [seen EXCEPT ![p] = SnapshotOf(lock)]
              /\ Goto(p, "match")
  /\ UNCHANGED <<lock, waited, alive, errors, doomed>>

\* remove_lifecycle_lock_if_matches: the token is read again ...
Match(p) ==
  /\ At(p, "match")
  /\ IF Matches(seen[p]) THEN Goto(p, "unlink") ELSE Goto(p, "create")
  /\ UNCHANGED lock /\ Same

\* Wrong: a failed removal is ignored and the acquisition starts over.
UnlinkNothing(p) ==
  /\ At(p, "unlink") /\ Goto(p, "create") /\ UNCHANGED lock /\ Same

\* ... and then the path is removed, whatever file it names by now.
Unlink(p) ==
  /\ At(p, "unlink") /\ lock' = None /\ Goto(p, "create") /\ Same

\* cleanup_incomplete_lifecycle_lock_if_matches: compare the snapshot, read
\* the content, compare again, remove.
Compare(p) ==
  /\ At(p, "compare")
  /\ IF Matches(seen[p]) THEN Goto(p, "reread") ELSE Goto(p, "create")
  /\ UNCHANGED lock /\ Same

Reread(p) ==
  /\ At(p, "reread")
  /\ IF ReadsComplete THEN Goto(p, "create") ELSE Goto(p, "recompare")
  /\ UNCHANGED lock /\ Same

Recompare(p) ==
  /\ At(p, "recompare")
  /\ IF Matches(seen[p]) THEN Goto(p, "discard") ELSE Goto(p, "create")
  /\ UNCHANGED lock /\ Same

Discard(p) ==
  /\ At(p, "discard") /\ lock' = None /\ Goto(p, "create") /\ Same

\* The lock is not stale: give up after LIFECYCLE_LOCK_TIMEOUT or poll again.
Deadline(p) ==
  /\ At(p, "deadline")
  /\ Goto(p, IF waited[p] >= LockTimeout THEN "timedout" ELSE "sleep")
  /\ UNCHANGED lock /\ Same

WakeUp(p) ==
  /\ At(p, "sleep") /\ Goto(p, "create") /\ UNCHANGED lock /\ Same

\* LifecycleLockGuard::drop: match the own token, then remove the path.
Finish(p) ==
  /\ At(p, "held") /\ Goto(p, "drop") /\ UNCHANGED lock /\ Same

Drop(p) ==
  /\ At(p, "drop")
  /\ Goto(p, IF Matches([owner |-> p, complete |-> TRUE])
               THEN "release" ELSE "done")
  /\ UNCHANGED lock /\ Same

Release(p) ==
  /\ At(p, "release") /\ lock' = None /\ Goto(p, "done") /\ Same

-----------------------------------------------------------------------------
\* A process dies at any step; a lock it owns stays behind.
Crash(p) ==
  /\ p \in alive /\ Cardinality(Process \ alive) < MaxCrashes
  /\ alive' = alive \ {p}
  /\ UNCHANGED <<lock, pc, seen, waited, errors, doomed>>

\* Time passes.  If Prompt, no process is slow in the middle of its steps;
\* a holder may work, and a waiter sleep, as long as it likes.
Tick ==
  /\ Prompt => \A p \in alive : pc[p] \in Resting
  /\ \/ Exists /\ lock.age <= LockTimeout
     \/ \E p \in alive : pc[p] \in Acquiring /\ waited[p] < LockTimeout
  /\ lock' = IF Exists /\ lock.age <= LockTimeout
               THEN [lock EXCEPT !.age = @ + 1] ELSE lock
  /\ waited' = [p \in Process |->
       IF p \in alive /\ pc[p] \in Acquiring /\ waited[p] < LockTimeout
         THEN waited[p] + 1 ELSE waited[p]]
  /\ UNCHANGED <<pc, seen, alive, errors, doomed>>

\* The steps of acquire_lifecycle_lock after its first call, and of the drop.
CodeStep(p) ==
  \/ Create(p) \/ Fill(p) \/ Scrap(p) \/ Inspect(p) \/ Read(p)
  \/ Match(p) \/ Unlink(p) \/ Compare(p) \/ Reread(p) \/ Recompare(p)
  \/ Discard(p) \/ Deadline(p) \/ WakeUp(p) \/ Drop(p) \/ Release(p)

Next ==
  \/ \E p \in Process :
       Begin(p) \/ FillFails(p) \/ Finish(p) \/ Crash(p) \/ CodeStep(p)
  \/ Tick

Spec == Init /\ [][Next]_vars

\* A process that runs takes its next step, and time passes.  Nothing forces a
\* holder to finish.
Fairness ==
  /\ \A p \in Process : WF_vars(CodeStep(p))
  /\ WF_vars(Tick)
FairSpec == Spec /\ Fairness

-----------------------------------------------------------------------------
Holding(p) == p \in alive /\ pc[p] \in {"held", "drop", "release"}

(***************************************************************************)
(* "Lifecycle operations are serialized by daemon.lifecycle.lock"          *)
(* (docs/design/0.1-daemon-lifecycle.md:84): two processes never are in    *)
(* their critical sections at once.                                        *)
(***************************************************************************)
MutualExclusion ==
  \A p, q \in Process : Holding(p) /\ Holding(q) => p = q

(***************************************************************************)
(* The same as long as no process has died: neither a lock held longer     *)
(* than LIFECYCLE_LOCK_STALE_TTL nor one whose content is late or could    *)
(* not be written lets a second process in.                                *)
(***************************************************************************)
ExclusiveWhileNoneDied == alive = Process => MutualExclusion

(***************************************************************************)
(* The lock of a live holder is removed by the holder's own guard, or by a *)
(* process that had decided to remove another file: the recovery of        *)
(* lifecycle.rs:36-43 never decides against a live holder.                 *)
(***************************************************************************)
NoLiveLockCondemned ==
  \A p \in Process :
    /\ At(p, "unlink") => ~Holding(seen[p].owner)
    /\ At(p, "discard") => ~Holding(seen[p].owner)

(***************************************************************************)
(* "... so the first waiter after a crash can recover the lock"            *)
(* (daemon.rs:39-41): a waiter that found the lock of a dead owner when it *)
(* began never gives up on that lock.                                      *)
(***************************************************************************)
DeadLocksAreRecovered ==
  [][\A p \in Process :
       pc[p] = "deadline" /\ pc'[p] = "timedout" /\ Exists
         => lock.owner # doomed[p]]_vars

(***************************************************************************)
(* acquire_lifecycle_lock returns: its loop retries recovery without       *)
(* looking at the deadline, so only the recovery's success ends it.        *)
(***************************************************************************)
EveryWaitEnds ==
  \A p \in Process :
    pc[p] = "create" ~> p \notin alive \/ pc[p] \notin Acquiring
=============================================================================
