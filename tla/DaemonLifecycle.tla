-------------------------- MODULE DaemonLifecycle --------------------------
(***************************************************************************)
(* The background process (daemon.rs, daemon/*.rs): the commands start,    *)
(* run and stop and the daemons they start and stop, over daemon.lock,     *)
(* daemon.state and daemon.stop, with one action per access to a file or a *)
(* process.                                                                *)
(*                                                                         *)
(* The lifecycle lock is sound here: it has one holder, and what a dead    *)
(* holder leaves behind is recovered.  LifecycleLock says when that is so. *)
(*                                                                         *)
(* A start command makes one ownership token and one child, so the command *)
(* names its token, and the child is Daemon(token).  A record's pid is     *)
(* that of the command in mode starting, of the daemon afterwards.         *)
(***************************************************************************)
EXTENDS Naturals, FiniteSets

CONSTANTS
  Starter,      \* invocations of start and run
  Foreground,   \* those of run
  Stopper,      \* invocations of stop
  None,
  Invalid,      \* the content of a record file that does not decode
  Timeouts,     \* FALSE: nothing takes long enough for a timeout or a TTL
  MaxFaults,    \* bound: steps in which a process dies or something it calls fails
  MaxReuses,    \* bound: pids of dead processes that name another one
  InstantReuse  \* TRUE: even between a check of an identity and the signal

ASSUME LifecycleAssumption ==
  /\ Foreground \subseteq Starter /\ Starter \cap Stopper = {}
  /\ MaxFaults \in Nat /\ MaxReuses \in Nat
  /\ Timeouts \in BOOLEAN /\ InstantReuse \in BOOLEAN

Daemon(s) == <<s>>
Daemons == {Daemon(s) : s \in Starter}
Command == Starter \cup Stopper
Process == Command \cup Daemons
Record == [token : Starter, mode : {"starting", "running"}]

\* Processes, records, the two special contents and what start tells its user
\* are told apart.
ASSUME KindsAssumption ==
  /\ Daemons \cap Command = {} /\ Record \cap Command = {}
  /\ None \notin Record \cup Process \cup {"failed", "left"}
  /\ Invalid \notin Record \cup {None}

VARIABLES
  lockFile, stateFile,  \* daemon.lock, daemon.state: None, Invalid or a record
  stopFile,             \* daemon.stop: None or the token to stop
  holder,               \* holder of the lifecycle lock
  pc,                   \* next step of each process
  status,               \* what inspect_status told a stop that goes on
  found,                \* the record a command deals with, or its own token
  told,                 \* what an ended command told its user
  expired,              \* the starting lock is older than STARTING_LOCK_TTL
  reused,               \* dead processes whose pid names another process
  faults,               \* number of faults so far
  unchecked,            \* history: processes taken for gone because a check failed
  careless,             \* history: commands that went on after a file access failed
  foreign,              \* history: a process that is no daemon was signalled
  barred                \* history: tokens made before a stop, not a careless one,
                        \* told that there is no daemon

files == <<lockFile, stateFile, stopFile>>
memory == <<status, found>>
outside == <<expired, reused, foreign>>
failures == <<faults, unchecked, careless>>
vars == <<files, holder, pc, memory, told, outside, failures, barred>>

Gone == {"ended", "broken"}  \* a daemon exits with success or without

Statuses == {"starting", "running", "unverified", "unowned", "stale", "stopped"}

Live(p) == pc[p] \notin Gone \cup {"none"}
\* A child that ended stays in the process table until its starter waits.
Zombie(s) ==
  pc[Daemon(s)] \in Gone /\
  pc[s] \in {"ready", "readyState", "attend", "failStop", "failKill"}

PidOf(r) == IF r.mode = "starting" THEN r.token ELSE Daemon(r.token)

\* is_process_running may answer b.  A zombie counts on Unix, not on Windows.
Running(p, b) ==
  \/ b = (Live(p) \/ p \in reused)
  \/ b /\ \E s \in Starter : p = Daemon(s) /\ Zombie(s)

\* process_command_line of the pid may show c: the daemon's own line, which
\* holds its token, another process's, or none that can be read.
CommandLine(p, c) ==
  \/ c = "own" /\ Live(p)
  \/ c = "other" /\ ~Live(p)
  \/ c = "unreadable"

\* inspect_process_identity may answer i.
Identity(p, i) ==
  \/ i = "verified" /\ CommandLine(p, "own")
  \/ i = "mismatch" /\ CommandLine(p, "other")
  \/ i = "unverified" /\ CommandLine(p, "unreadable")

\* starting_lock_is_live, of the record in daemon.lock.
StartingIsLive(r, b) == IF expired THEN ~b ELSE Running(PidOf(r), b)

\* inspect_record_status of a daemon's record: what it may answer.
RecordStatus(r, st) ==
  \/ st = "stale" /\ Running(PidOf(r), FALSE)
  \/ /\ Running(PidOf(r), TRUE)
     /\ \/ st = "running" /\ Identity(PidOf(r), "verified")
        \/ st = "unverified" /\ Identity(PidOf(r), "unverified")
        \/ st = "unowned" /\ Identity(PidOf(r), "mismatch")

\* inspect_lock_without_state, after the state and the lock were read as sf and
\* lf: a running daemon is unverified at best.
LockStatus(sf, lf, st, r) ==
  \/ /\ lf = None /\ r = None
     /\ st = IF sf = None THEN "stopped" ELSE "stale"
  \/ lf = Invalid /\ r = None /\ st = "stale"
  \/ /\ lf \in Record /\ lf.mode = "starting" /\ r = lf
     /\ \E b \in BOOLEAN :
          StartingIsLive(r, b) /\ st = IF b THEN "starting" ELSE "stale"
  \/ /\ lf \in Record /\ lf.mode = "running" /\ r = lf
     /\ \/ st = "stale" /\ RecordStatus(r, st)
        \/ st = "unverified" /\ Running(PidOf(r), TRUE)

\* inspect_status may answer st with record r.
InspectStatus(sf, lf, st, r) ==
  IF sf \in Record THEN r = sf /\ RecordStatus(r, st)
                   ELSE LockStatus(sf, lf, st, r)

Init ==
  /\ lockFile = None /\ stateFile = None /\ stopFile = None /\ holder = None
  /\ pc = [p \in Process |-> IF p \in Command THEN "acquire" ELSE "none"]
  /\ status = [t \in Stopper |-> None]
  /\ found = [c \in Command |-> None] /\ told = [c \in Command |-> None]
  /\ expired = FALSE /\ reused = {} /\ faults = 0
  /\ unchecked = {} /\ careless = {}
  /\ foreign = FALSE /\ barred = {}

-----------------------------------------------------------------------------
At(p, step) == pc[p] = step
Goto(p, step) == pc' = [pc EXCEPT ![p] = step]

\* Something fails in a step, with the processes ps taken for gone and the
\* commands cs going on after it.
FailsFor(ps, cs) ==
  /\ faults < MaxFaults /\ faults' = faults + 1
  /\ unchecked' = unchecked \cup ps /\ careless' = careless \cup cs
Fails == FailsFor({}, {})

\* is_process_running answers b: FALSE if the check cannot be made.
IsRunning(p, b) ==
  \/ Running(p, b) /\ UNCHANGED failures
  \/ ~b /\ ~Running(p, FALSE) /\ FailsFor({p}, {})

\* inspect_status of command c, where a file that cannot be read counts as
\* invalid and a process that cannot be checked as gone.
Inspect(c, st, r) ==
  \/ InspectStatus(stateFile, lockFile, st, r) /\ UNCHANGED failures
  \/ \E sf \in {stateFile, Invalid} :
       \E lf \in {lockFile} \cup IF sf \in Record THEN {} ELSE {Invalid} :
         LET unread == IF sf = stateFile /\ lf = lockFile THEN {} ELSE {c} IN
         \/ unread # {} /\ InspectStatus(sf, lf, st, r) /\ FailsFor({}, unread)
         \/ /\ st = "stale" /\ r \in Record /\ r = IF sf \in Record THEN sf ELSE lf
            /\ ~Running(PidOf(r), FALSE) /\ FailsFor({PidOf(r)}, unread)

\* The guard of the lifecycle lock is dropped when its function returns.
Dropped(p) == holder' = IF holder = p THEN None ELSE holder

End(c, answer) ==
  /\ Goto(c, "ended") /\ told' = [told EXCEPT ![c] = answer] /\ Dropped(c)
  /\ barred' = IF /\ c \in Stopper /\ answer \in {"stopped", "notRunning"}
                  /\ c \notin careless'
                 THEN {s \in Starter : pc[Daemon(s)] # "none"} \cup barred
                 ELSE barred
EndDaemon(s, how) == Goto(Daemon(s), how) /\ Dropped(Daemon(s))
GoOn == UNCHANGED <<holder, told, barred>>

\* acquire_lifecycle_lock of the functions that take it.
Acquire(p) ==
  /\ ~(holder \in Process /\ Live(holder))
  /\ holder' = p
  /\ \/ At(p, "acquire")
        /\ Goto(p, IF p \in Command THEN "inspect" ELSE "validate")
     \/ At(p, "reacquire") /\ Goto(p, "cleanLock")
  /\ UNCHANGED <<files, memory, told, barred, outside, failures>>

\* It gives up after LIFECYCLE_LOCK_TIMEOUT or an error.  A failed start that
\* cannot have the lock leaves its files behind.
AcquireGivesUp(p) ==
  /\ \/ Timeouts /\ UNCHANGED failures
     \/ Fails
  /\ \/ p \in Command /\ At(p, "acquire") /\ End(p, "failed")
     \/ p \in Command /\ At(p, "reacquire") /\ End(p, "left")
     \/ p \in Daemons /\ At(p, "acquire") /\ Goto(p, "broken") /\ GoOn
  /\ UNCHANGED <<files, memory, outside>>

\* stop takes a runtime directory that it cannot look up for a missing one.
StopFindsNoDirectory(t) ==
  /\ At(t, "acquire") /\ FailsFor({}, {t}) /\ End(t, "notRunning")
  /\ UNCHANGED <<files, memory, outside>>

-----------------------------------------------------------------------------
\* prepare_start under the lifecycle lock: inspect_status and what it asks for.
PrepareStart(s) ==
  /\ At(s, "inspect")
  /\ \E st \in Statuses, r \in Record \cup {None} :
       /\ Inspect(s, st, r)
       /\ \/ st \in {"starting", "unowned"} /\ End(s, "refused") /\ UNCHANGED found
          \/ st \in {"running", "unverified"} /\ End(s, "already") /\ UNCHANGED found
          \/ st = "stale" /\ r = None /\ Goto(s, "cleanInvalid") /\ GoOn
             /\ UNCHANGED found
          \/ st = "stale" /\ r # None /\ Goto(s, "cleanLock") /\ GoOn
             /\ found' = [found EXCEPT ![s] = r]
          \/ st = "stopped" /\ Goto(s, "create") /\ GoOn /\ UNCHANGED found
  /\ UNCHANGED <<files, status, outside>>

\* write_new_record creates an empty lock first, if there is none ...
CreateLock(s) ==
  /\ At(s, "create") /\ lockFile = None
  /\ lockFile' = Invalid /\ Goto(s, "fill") /\ GoOn
  /\ UNCHANGED <<stateFile, stopFile, memory, outside, failures>>

\* ... and inspect_start_lock looks at the one there is: a stale one is
\* removed and the creation tried again; an invalid one is never removed.
StartLockExists(s) ==
  /\ At(s, "create") /\ lockFile # None
  /\ \/ /\ lockFile \in Record
        /\ \/ lockFile.mode = "starting" /\ expired /\ UNCHANGED failures
           \/ IsRunning(PidOf(lockFile), FALSE)
        /\ lockFile' = None /\ expired' = FALSE /\ UNCHANGED pc /\ GoOn
     \/ /\ \/ lockFile = Invalid
           \/ /\ lockFile \in Record
              /\ IF lockFile.mode = "starting" THEN StartingIsLive(lockFile, TRUE)
                                               ELSE Running(PidOf(lockFile), TRUE)
        /\ End(s, "refused") /\ UNCHANGED <<lockFile, expired, failures>>
  /\ UNCHANGED <<stateFile, stopFile, memory, reused, foreign>>

\* The lock cannot be created, read or removed.
CreateFails(s) ==
  /\ At(s, "create") /\ Fails /\ End(s, "failed")
  /\ UNCHANGED <<files, memory, outside>>

FillLock(s) ==
  /\ At(s, "fill")
  /\ \/ /\ lockFile' = [token |-> s, mode |-> "starting"]
        /\ found' = [found EXCEPT ![s] = s]
        /\ Goto(s, "spawn") /\ GoOn /\ UNCHANGED failures
     \/ /\ lockFile' \in {Invalid, [token |-> s, mode |-> "starting"]}
        /\ Fails /\ End(s, "failed") /\ UNCHANGED found
  /\ UNCHANGED <<stateFile, stopFile, status, outside>>

\* Wrong: the guard lives until the function returns.
SpawnHolding(s) ==
  /\ At(s, "spawn")
  /\ pc' = [pc EXCEPT ![s] = "ready", ![Daemon(s)] = "acquire"] /\ GoOn
  /\ UNCHANGED <<files, memory, outside, failures>>

\* Spawn the daemon and drop the guard, then wait for it; or fail, and let the
\* armed StartCleanupGuard clean up under the lock.
Spawn(s) ==
  /\ At(s, "spawn")
  /\ \/ /\ pc' = [pc EXCEPT ![s] = "ready", ![Daemon(s)] = "acquire"]
        /\ Dropped(s) /\ UNCHANGED failures
     \/ Fails /\ Goto(s, "cleanLock") /\ UNCHANGED holder
  /\ UNCHANGED <<files, memory, told, barred, outside>>

\* wait_for_running reads the lock, then the state, again and again ...
IsReady(f, s) == f = [token |-> s, mode |-> "running"]
WaitForRunning(s) ==
  /\ \/ /\ At(s, "ready") /\ lockFile # Invalid
        /\ Goto(s, IF IsReady(lockFile, s) THEN "readyState" ELSE "ready")
        /\ GoOn
     \/ /\ At(s, "readyState") /\ stateFile # Invalid /\ ~IsReady(stateFile, s)
        /\ Goto(s, "ready") /\ GoOn
     \/ /\ At(s, "readyState") /\ IsReady(stateFile, s)
        /\ IF s \in Foreground THEN Goto(s, "attend") /\ GoOn
                               ELSE End(s, "started")
  /\ UNCHANGED <<files, memory, outside, failures>>

\* ... until the daemon is gone, a record is invalid, a check or a read fails, or
\* START_TIMEOUT.
StartFails(s) ==
  /\ \/ /\ \/ At(s, "ready") /\ Timeouts
           \/ At(s, "ready") /\ Running(Daemon(s), FALSE)
           \/ At(s, "ready") /\ lockFile = Invalid
           \/ At(s, "readyState") /\ stateFile = Invalid
        /\ UNCHANGED failures
     \/ (At(s, "ready") \/ At(s, "readyState")) /\ Fails
  /\ Goto(s, "failStop") /\ GoOn
  /\ UNCHANGED <<files, memory, outside>>

\* cleanup_failed_start asks the daemon to stop, without the lifecycle lock
\* and over any other stop request; a failed write is ignored ...
FailedStartRequestsStop(s) ==
  /\ At(s, "failStop")
  /\ \/ stopFile' = s /\ UNCHANGED failures
     \/ Fails /\ stopFile' \in {stopFile, None, s}
  /\ Goto(s, "failKill") /\ GoOn
  /\ UNCHANGED <<lockFile, stateFile, memory, outside>>

\* Wrong: the daemon is left to itself.
FailedStartGivesUp(s) ==
  /\ At(s, "failKill") /\ Goto(s, "reacquire") /\ GoOn
  /\ UNCHANGED <<files, memory, outside, failures>>

\* ... waits for it, kills it if it is late, and reaps it; if it cannot wait,
\* the daemon counts as gone.
FailedStartEndsDaemon(s) ==
  /\ At(s, "failKill")
  /\ \/ /\ Timeouts \/ ~Live(Daemon(s))
        /\ pc' = [pc EXCEPT ![s] = "reacquire",
                            ![Daemon(s)] = IF @ \in Gone THEN @ ELSE "broken"]
        /\ UNCHANGED failures
     \/ FailsFor({Daemon(s)}, {}) /\ Goto(s, "reacquire")
  /\ GoOn /\ UNCHANGED <<files, memory, outside>>

\* run waits for its child, and cleans up after one that failed, but not if it
\* cannot wait.
ForegroundReturns(s) ==
  /\ At(s, "attend")
  /\ \/ At(Daemon(s), "ended") /\ End(s, "stopped") /\ UNCHANGED failures
     \/ At(Daemon(s), "broken") /\ Goto(s, "reacquire") /\ GoOn /\ UNCHANGED failures
     \/ FailsFor({Daemon(s)}, {}) /\ End(s, "left")
  /\ UNCHANGED <<files, memory, outside>>

-----------------------------------------------------------------------------
\* stop under the lifecycle lock: inspect_status and what it asks for.
InspectToStop(t) ==
  /\ At(t, "inspect")
  /\ \E st \in Statuses, r \in Record \cup {None} :
       /\ Inspect(t, st, r)
       /\ \/ st \in {"starting", "unowned"} /\ End(t, "refused") /\ UNCHANGED memory
          \/ st = "stopped" /\ End(t, "notRunning") /\ UNCHANGED memory
          \/ /\ st \in {"running", "unverified", "stale"}
             /\ status' = [status EXCEPT ![t] = st]
             /\ found' = [found EXCEPT ![t] = r]
             /\ Goto(t, IF st # "stale" THEN "request"
                        ELSE IF r = None THEN "cleanInvalid" ELSE "cleanLock")
             /\ GoOn
  /\ UNCHANGED <<files, outside>>

\* A failed write may have emptied the file, or written it.
RequestStop(t) ==
  /\ At(t, "request")
  /\ \/ stopFile' = found[t].token /\ Goto(t, "await") /\ GoOn /\ UNCHANGED failures
     \/ /\ Fails /\ End(t, "failed")
        /\ stopFile' \in {stopFile, None, found[t].token}
  /\ UNCHANGED <<lockFile, stateFile, memory, outside>>

\* Wrong: a daemon that does not stop in time is taken for stopped.
AwaitStopAtMost(t) ==
  /\ At(t, "await")
  /\ \/ Timeouts /\ UNCHANGED failures
     \/ IsRunning(PidOf(found[t]), FALSE)
  /\ Goto(t, "cleanLock") /\ GoOn
  /\ UNCHANGED <<files, memory, outside>>

\* wait_for_stop, or wait_for_process_to_exit if the daemon is unverified.  A
\* state file that cannot be looked up counts as removed, the daemon as gone.
AwaitStop(t) ==
  /\ At(t, "await")
  /\ \/ /\ \/ IsRunning(PidOf(found[t]), FALSE)
           \/ status[t] = "running" /\ stateFile = None /\ UNCHANGED failures
           \/ status[t] = "running" /\ FailsFor({PidOf(found[t])}, {})
        /\ Goto(t, "cleanLock") /\ GoOn
     \/ /\ Timeouts /\ status[t] = "running"
        /\ Goto(t, "reread") /\ GoOn /\ UNCHANGED failures
     \/ /\ Timeouts /\ status[t] = "unverified"
        /\ End(t, "refused") /\ UNCHANGED failures
  /\ UNCHANGED <<files, memory, outside>>

\* force_stop_verified: read the state again ...
RereadState(t) ==
  /\ At(t, "reread")
  /\ \/ /\ CASE stateFile = found[t] -> Goto(t, "verify") /\ GoOn
             [] stateFile = None -> Goto(t, "cleanLock") /\ GoOn
             [] OTHER -> End(t, "refused")
        /\ UNCHANGED failures
     \/ Fails /\ End(t, "refused")
  /\ UNCHANGED <<files, memory, outside>>

\* Wrong: the identity of a running process is not checked again.
VerifyRunning(t) ==
  /\ At(t, "verify")
  /\ \E b \in BOOLEAN :
       /\ IsRunning(PidOf(found[t]), b)
       /\ Goto(t, IF b THEN "kill" ELSE "cleanLock") /\ GoOn
  /\ UNCHANGED <<files, memory, outside>>

\* ... check the process again ...
VerifyIdentity(t) ==
  /\ At(t, "verify")
  /\ LET p == PidOf(found[t]) IN
     \/ IsRunning(p, FALSE) /\ Goto(t, "cleanLock") /\ GoOn
     \/ /\ IsRunning(p, TRUE) /\ Identity(p, "verified")
        /\ Goto(t, "kill") /\ GoOn
     \/ /\ IsRunning(p, TRUE)
        /\ Identity(p, "mismatch") \/ Identity(p, "unverified")
        /\ End(t, "refused")
  /\ UNCHANGED <<files, memory, outside>>

\* ... and signal the pid, whichever process has it by now.
Terminate(t) ==
  /\ At(t, "kill")
  /\ LET p == PidOf(found[t]) IN
     \/ /\ Running(p, TRUE)
        /\ pc' = [pc EXCEPT ![t] = "awaitKilled",
                            ![p] = IF @ \in Gone THEN @ ELSE "broken"]
        /\ foreign' = (foreign \/ p \in reused) /\ GoOn /\ UNCHANGED failures
     \/ /\ \/ Running(p, FALSE) /\ UNCHANGED failures
           \/ Fails
        /\ End(t, "failed") /\ UNCHANGED foreign
  /\ UNCHANGED <<files, memory, expired, reused>>

AwaitKilled(t) ==
  /\ At(t, "awaitKilled")
  /\ \/ IsRunning(PidOf(found[t]), FALSE) /\ Goto(t, "cleanLock") /\ GoOn
     \/ Timeouts /\ End(t, "failed") /\ UNCHANGED failures
  /\ UNCHANGED <<files, memory, outside>>

-----------------------------------------------------------------------------
\* Wrong: a failed start looks for its starting record only.
NamesStarting(f, target) ==
  f = IF target \in Starter THEN [token |-> target, mode |-> "starting"]
                            ELSE target

\* Cleanup under the lock, for a record or for a token: each file is read and
\* removed if it still names the one cleaned up.
Names(f, target) ==
  f \in Record /\ IF target \in Starter THEN f.token = target ELSE f = target
TokenOf(target) == IF target \in Starter THEN target ELSE target.token

\* A failed start ends, a start goes on to create its lock, stop reports.
AfterCleanup(c) ==
  \/ c \in Starter /\ found[c] = c /\ End(c, "failed")
  \/ c \in Starter /\ found[c] # c /\ Goto(c, "create") /\ GoOn
  \/ c \in Stopper /\ status[c] = "stale" /\ End(c, "notRunning")
  \/ c \in Stopper /\ status[c] # "stale" /\ End(c, "stopped")

\* A file that cannot be read or removed stays, and the cleanup goes on.
CleanLock(c) ==
  /\ At(c, "cleanLock")
  /\ \/ /\ lockFile' = IF Names(lockFile, found[c]) THEN None ELSE lockFile
        /\ UNCHANGED failures
     \/ Names(lockFile, found[c]) /\ FailsFor({}, {c}) /\ UNCHANGED lockFile
  /\ expired' = (expired /\ lockFile' # None)
  /\ Goto(c, "cleanState") /\ GoOn
  /\ UNCHANGED <<stateFile, stopFile, memory, reused, foreign>>

CleanState(c) ==
  /\ At(c, "cleanState")
  /\ \/ /\ stateFile' = IF Names(stateFile, found[c]) THEN None ELSE stateFile
        /\ UNCHANGED failures
     \/ Names(stateFile, found[c]) /\ FailsFor({}, {c}) /\ UNCHANGED stateFile
  /\ Goto(c, "cleanStop") /\ GoOn
  /\ UNCHANGED <<lockFile, stopFile, memory, outside>>

CleanStop(c) ==
  /\ At(c, "cleanStop")
  /\ \/ /\ stopFile' = IF stopFile = TokenOf(found[c]) THEN None ELSE stopFile
        /\ UNCHANGED failures
     \/ stopFile = TokenOf(found[c]) /\ Fails /\ UNCHANGED stopFile
  /\ IF c \in Stopper /\ status[c] = "unverified"
       THEN Goto(c, "cleanInvalid") /\ GoOn
       ELSE AfterCleanup(c)
  /\ UNCHANGED <<lockFile, stateFile, memory, outside>>

\* cleanup_invalid_state_files_unlocked; an invalid lock stays.  A state file
\* that cannot be read is invalid.
CleanInvalid(c) ==
  /\ At(c, "cleanInvalid")
  /\ \/ /\ stateFile' = IF stateFile = Invalid THEN None ELSE stateFile
        /\ stopFile' = IF stateFile = Invalid THEN None ELSE stopFile
        /\ UNCHANGED failures
     \/ stateFile' \in {stateFile, None} /\ stopFile' \in {stopFile, None} /\ Fails
  /\ AfterCleanup(c)
  /\ UNCHANGED <<lockFile, memory, outside>>

-----------------------------------------------------------------------------
\* Wrong: the token of the startup lock is not compared.
ValidateMode(s) ==
  /\ At(Daemon(s), "validate")
  /\ IF lockFile \in Record
       THEN Goto(Daemon(s), "writeLock") /\ UNCHANGED holder
       ELSE EndDaemon(s, "broken")
  /\ UNCHANGED <<files, memory, told, barred, outside, failures>>

\* validate_startup_lock.
Validate(s) ==
  /\ At(Daemon(s), "validate")
  /\ \/ /\ lockFile = [token |-> s, mode |-> "starting"] /\ Running(s, TRUE)
        /\ Goto(Daemon(s), "writeLock") /\ UNCHANGED <<holder, failures>>
     \/ /\ lockFile # [token |-> s, mode |-> "starting"] \/ Running(s, FALSE)
        /\ EndDaemon(s, "broken") /\ UNCHANGED failures
     \/ Fails /\ EndDaemon(s, "broken")
  /\ UNCHANGED <<files, memory, told, barred, outside>>

\* run_daemon replaces the lock, then the state, and drops its guard.  An
\* error ends it, and may come after the rename.
WriteLock(s) ==
  /\ At(Daemon(s), "writeLock")
  /\ \/ /\ lockFile' = [token |-> s, mode |-> "running"]
        /\ Goto(Daemon(s), "writeState") /\ UNCHANGED <<holder, failures>>
     \/ /\ lockFile' \in {lockFile, [token |-> s, mode |-> "running"]}
        /\ Fails /\ EndDaemon(s, "broken")
  /\ expired' = (expired /\ lockFile' = lockFile)
  /\ UNCHANGED <<stateFile, stopFile, memory, told, barred, reused, foreign>>

WriteState(s) ==
  /\ At(Daemon(s), "writeState")
  /\ \/ /\ stateFile' = [token |-> s, mode |-> "running"]
        /\ EndDaemon(s, "loop") /\ UNCHANGED failures
     \/ /\ stateFile' \in {stateFile, [token |-> s, mode |-> "running"]}
        /\ Fails /\ EndDaemon(s, "broken")
  /\ UNCHANGED <<lockFile, stopFile, memory, told, barred, outside>>

\* The loop of the daemon ends when should_stop finds its token.
StopRequested(s) ==
  /\ At(Daemon(s), "loop") /\ stopFile = s
  /\ \/ EndDaemon(s, "ended") /\ UNCHANGED failures
     \/ Fails /\ EndDaemon(s, "broken")
  /\ UNCHANGED <<files, memory, told, barred, outside>>

-----------------------------------------------------------------------------
\* The environment.  A process is killed; what it holds and wrote remains.
Crash(p) ==
  /\ Live(p) /\ Fails /\ Goto(p, "broken")
  /\ UNCHANGED <<files, holder, memory, told, outside, barred>>

\* The pid of a dead process that someone still knows names a new process.
Known == Record \cap
  ({lockFile, stateFile} \cup {found[c] : c \in {d \in Command : Live(d)}})
Reuse(p) ==
  /\ Cardinality(reused) < MaxReuses /\ p \in {PidOf(r) : r \in Known} \ reused /\ pc[p] \in Gone
  /\ \A s \in Starter : p = Daemon(s) => ~Zombie(s)
  /\ InstantReuse \/ \A t \in Stopper : ~At(t, "kill")
  /\ reused' = reused \cup {p}
  /\ UNCHANGED <<files, holder, pc, memory, told, expired, failures, foreign, barred>>

\* A starting record outlives STARTING_LOCK_TTL.
Age(s) ==
  /\ Timeouts /\ ~expired /\ lockFile = [token |-> s, mode |-> "starting"]
  /\ expired' = TRUE
  /\ UNCHANGED <<files, holder, pc, memory, told, reused, failures, foreign, barred>>

CorruptState ==
  /\ stateFile \in Record /\ Fails /\ stateFile' = Invalid
  /\ UNCHANGED <<lockFile, stopFile, holder, pc, memory, told, outside, barred>>

CommandStep(c) ==
  Acquire(c) \/ CleanLock(c) \/ CleanState(c) \/ CleanStop(c) \/ CleanInvalid(c)
StarterStep(s) ==
  \/ CommandStep(s) \/ PrepareStart(s) \/ CreateLock(s) \/ StartLockExists(s)
  \/ CreateFails(s) \/ FillLock(s) \/ Spawn(s) \/ WaitForRunning(s) \/ StartFails(s)
  \/ FailedStartRequestsStop(s) \/ FailedStartEndsDaemon(s)
  \/ ForegroundReturns(s)
StopperStep(t) ==
  \/ CommandStep(t) \/ StopFindsNoDirectory(t) \/ InspectToStop(t) \/ RequestStop(t) \/ AwaitStop(t)
  \/ RereadState(t) \/ VerifyIdentity(t) \/ Terminate(t) \/ AwaitKilled(t)
DaemonStep(s) ==
  \/ Acquire(Daemon(s)) \/ Validate(s) \/ WriteLock(s) \/ WriteState(s)
  \/ StopRequested(s)

Next ==
  \/ \E s \in Starter : StarterStep(s) \/ DaemonStep(s) \/ Age(s)
  \/ \E t \in Stopper : StopperStep(t)
  \/ \E p \in Process : AcquireGivesUp(p) \/ Crash(p) \/ Reuse(p)
  \/ CorruptState

Spec == Init /\ [][Next]_vars

\* Every process that runs takes its next step.
Fairness ==
  /\ \A s \in Starter : WF_vars(StarterStep(s)) /\ WF_vars(DaemonStep(s))
  /\ \A t \in Stopper : WF_vars(StopperStep(t))
FairSpec == Spec /\ Fairness

-----------------------------------------------------------------------------
InLoop(s) == At(Daemon(s), "loop")

\* A check of the daemon failed, and it was taken for gone.
Misjudged(s) == Daemon(s) \in unchecked

(***************************************************************************)
(* "Repeated starts should not create duplicate active daemon processes"   *)
(* (docs/design/0.1-daemon-lifecycle.md:88).  They can, by one mistake     *)
(* only, whatever else fails: a process that cannot be checked is taken    *)
(* for gone (process_ops.rs:120), so one of the two daemons has been.      *)
(***************************************************************************)
AtMostOneDaemon ==
  \A r, s \in Starter :
    InLoop(r) /\ InLoop(s) =>
      r = s \/ Misjudged(r) \/ Misjudged(s)

(***************************************************************************)
(* A daemon in its loop that was not taken for gone can be found: the lock *)
(* names it and so does the state, unless it is corrupt, or a command that *)
(* failed to read it took it for corrupt and removed it.  No cleanup, of a *)
(* command that found an older daemon or of a start that failed, removes   *)
(* the files of a daemon that runs.                                        *)
(***************************************************************************)
RunningDaemonIsFindable ==
  \A s \in Starter : InLoop(s) =>
    \/ Misjudged(s)
    \/ /\ lockFile = [token |-> s, mode |-> "running"]
       /\ \/ stateFile \in {lockFile, Invalid}
          \/ stateFile = None /\ careless # {}

(***************************************************************************)
(* When stop has reported that the daemon is stopped, or not running, no   *)
(* daemon spawned until then is in its loop or will ever be, unless it was *)
(* taken for gone, or the stop or the daemon's own start went on after a   *)
(* file could not be looked up, read or removed.                           *)
(***************************************************************************)
StoppedStaysStopped ==
  \A s \in barred \ careless : InLoop(s) => Misjudged(s)

(***************************************************************************)
(* A start that reports a failure leaves no daemon, unless it could not    *)
(* tell whether its daemon had ended; and if it had taken daemon.lock it   *)
(* leaves no file that names one, unless it could not take the lifecycle   *)
(* lock to clean up or could not read or remove a file then.               *)
(***************************************************************************)
FailedStartLeavesNothing ==
  \A s \in Starter :
    /\ told[s] \in {"failed", "left"} =>
         ~Live(Daemon(s)) \/ Misjudged(s)
    /\ told[s] = "failed" /\ found[s] = s /\ s \notin careless =>
         \A f \in {lockFile, stateFile} \cap Record : f.token # s

(***************************************************************************)
(* "Before sending a force-stop signal, it must re-read state and re-check *)
(* process identity so a stale PID cannot be terminated after PID reuse"   *)
(* (docs/design/0.1-daemon-lifecycle.md:82): only daemons are signalled.   *)
(***************************************************************************)
OnlyDaemonsAreSignalled == ~foreign

(***************************************************************************)
(* No command waits for a step that waits for it: without faults and       *)
(* without a single timeout, every command ends, run with its daemon.      *)
(***************************************************************************)
EveryCommandEnds ==
  /\ \A c \in Command \ Foreground : <>(pc[c] = "ended")
  /\ \A s \in Foreground :
       <>[](pc[s] = "ended" \/ (At(s, "attend") /\ InLoop(s)))
=============================================================================
