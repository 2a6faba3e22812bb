----------------------------- MODULE MessageHandoff -----------------------------
(***************************************************************************)
(* From a platform's delivery of a message to an agent that executes it:   *)
(* RuntimeOrchestrator::accept_inbound_delivery, the StateStore operations  *)
(* persist_inbound_event, claim_message_batch, start_agent_run,            *)
(* complete_/fail_/interrupt_agent_run and reconcile_runs_at_startup, and   *)
(* the public save() that resolves a run, around one state file that may   *)
(* fail to be written, with process crashes and power losses in between.   *)
(*                                                                         *)
(* Each store operation is one step: it runs under the process-wide write  *)
(* lock.  The adapter calls happen outside it and are steps of their own.  *)
(* file is the visible image of the state and disk the durable one.        *)
(***************************************************************************)
EXTENDS RuntimeState

CONSTANTS
  MaxFaults,        \* bound: store operations that fail
  MaxCrashes,       \* bound: process crashes and power losses
  CarefulEmbedder   \* does the embedder resolve a run as failed or cancelled
                    \* only when no execution of it is alive

ASSUME HandoffAssumption ==
  /\ MaxFaults \in Nat
  /\ MaxCrashes \in Nat
  /\ CarefulEmbedder \in BOOLEAN

VARIABLES
  file, disk,       \* the state file, see DurableFile.tla
  mode,             \* "recovering" until startup reconciliation returned Ok
  receipt,          \* per event, the status persist_inbound_event returned to
                    \* a delivery that is about to be acknowledged
  control,          \* per run, what the thread that was handed it is doing
  exec,             \* per run, the agent's execution: its process tree
  faults, crashes,
  (* history, read by no action *)
  acked,            \* per event, the status its first acknowledgement carried
  handed,           \* per event, how often it was handed to an agent
  told              \* per run, the outcome a store operation confirmed with Ok

storeVars == <<file, disk>>
adapterVars == <<receipt, control, exec>>
history == <<acked, handed, told>>
bounds == <<faults, crashes>>
vars == <<storeVars, mode, adapterVars, bounds, history>>

Store == INSTANCE DurableFile WITH Image <- RuntimeImage

None == "none"

Init ==
  /\ file = EmptyImage
  /\ disk = EmptyImage
  /\ mode = "recovering"
  /\ receipt = [e \in Event |-> None]
  /\ control = [r \in RunId |-> None]
  /\ exec = [r \in RunId |-> None]
  /\ faults = 0
  /\ crashes = 0
  /\ acked = [e \in Event |-> None]
  /\ handed = [e \in Event |-> 0]
  /\ told = [r \in RunId |-> None]

Fault == faults < MaxFaults /\ faults' = faults + 1 /\ UNCHANGED crashes

(* write_unlocked(new) inside an operation that returns the error: nothing *)
(* else of the operation happens.                                          *)
WriteFails(new) ==
  /\ Fault
  /\ Store!NotReplaced \/ Store!ReplacedUnsynced(new)

(* write_unlocked(new) inside an operation that goes on.                   *)
WriteSucceeds(new) == Store!Written(new) /\ UNCHANGED bounds

-----------------------------------------------------------------------------
(* Wrong: an event whose write was not synced is acknowledged.             *)
PersistIgnoringSyncError(e) ==
  /\ mode = "up"
  /\ receipt[e] = None
  /\ e \notin Recorded(file)
  /\ Store!ReplacedUnsynced(RecordEvent(file, e))
  /\ Fault
  /\ receipt' = [receipt EXCEPT ![e] = "recorded"]
  /\ UNCHANGED <<mode, control, exec, history>>

(* accept_inbound_delivery, up to the acknowledgement.  A platform delivers *)
(* an event any number of times.  A duplicate returns without a write.     *)
PersistInboundEvent(e) ==
  /\ mode = "up"
  /\ receipt[e] = None
  /\ \/ /\ e \in Recorded(file)
        /\ receipt' = [receipt EXCEPT ![e] = "duplicate"]
        /\ UNCHANGED <<storeVars, bounds>>
     \/ /\ e \notin Recorded(file)
        /\ \/ /\ WriteSucceeds(RecordEvent(file, e))
              /\ receipt' = [receipt EXCEPT ![e] = "recorded"]
           \/ WriteFails(RecordEvent(file, e)) /\ UNCHANGED receipt
  /\ UNCHANGED <<mode, control, exec, history>>

(* ImAdapter::acknowledge_inbound_delivery succeeds.                       *)
AcknowledgeInbound(e) ==
  /\ receipt[e] # None
  /\ receipt' = [receipt EXCEPT ![e] = None]
  /\ acked' = [acked EXCEPT ![e] = IF @ = None THEN receipt[e] ELSE @]
  /\ UNCHANGED <<storeVars, mode, control, exec, bounds, handed, told>>

(* It fails: the error is reported, the platform will deliver again.       *)
AcknowledgeFails(e) ==
  /\ receipt[e] # None
  /\ Fault
  /\ receipt' = [receipt EXCEPT ![e] = None]
  /\ UNCHANGED <<storeVars, mode, control, exec, history>>

(* claim_message_batch with a fresh run id.                                *)
ClaimMessageBatch(r) ==
  /\ mode = "up"
  /\ file.status[r] = Absent
  /\ \E s \in Session, b \in SUBSET file.queue :
       /\ ~Owned(file, s)
       /\ IsBatch(file, s, b)
       /\ \/ WriteSucceeds(ClaimBatch(file, r, s, b))
          \/ WriteFails(ClaimBatch(file, r, s, b))
  /\ UNCHANGED <<mode, adapterVars, history>>

(* A public snapshot adds a run of its own, without an input.  One that is *)
(* added already terminal owns nothing and is left out.                    *)
AddRunBySave(r) ==
  /\ mode = "up"
  /\ file.status[r] = Absent
  /\ \E s \in Session :
       /\ ~Owned(file, s)
       /\ WriteSucceeds(AddRun(file, r, s)) \/ WriteFails(AddRun(file, r, s))
  /\ UNCHANGED <<mode, adapterVars, history>>

(* AgentRunRequest::from_run_input: what the agent of run r is handed.      *)
RequestMessages(r) == file.input[r]

(* start_agent_run: only a caller that sees Ok hands the input to an agent. *)
StartAgentRun(r) ==
  /\ mode = "up"
  /\ file.input[r] # {}
  /\ file.status[r] = "pending"
  /\ \/ /\ WriteSucceeds(SetStatus(file, r, "running"))
        /\ control' = [control EXCEPT ![r] = "executing"]
        /\ exec' = [exec EXCEPT ![r] = "live"]
        /\ handed' = [e \in Event |->
                        IF e \in RequestMessages(r) THEN handed[e] + 1 ELSE handed[e]]
     \/ /\ WriteFails(SetStatus(file, r, "running"))
        /\ UNCHANGED <<control, exec, handed>>
  /\ UNCHANGED <<mode, receipt, acked, told>>

(* AgentAdapter::execute_run returns.  Output and a definite failure assert *)
(* that the execution has terminated, an uncertain failure asserts nothing. *)
AgentReturns(r) ==
  /\ control[r] = "executing"
  /\ \E outcome \in {"completed", "failed", "interrupted"} :
       /\ outcome # "interrupted" => exec[r] = "ended"
       /\ control' = [control EXCEPT ![r] = outcome]
  /\ UNCHANGED <<storeVars, mode, receipt, exec, bounds, history>>

(* The process tree of an execution ends.                                  *)
ExecutionEnds(r) ==
  /\ exec[r] = "live"
  /\ exec' = [exec EXCEPT ![r] = "ended"]
  /\ UNCHANGED <<storeVars, mode, receipt, control, bounds, history>>

(* Wrong: whatever the thread is doing is recorded as an outcome; or an    *)
(* outcome found in the visible file is confirmed without a sync.          *)
RecordAnyOutcome(r) ==
  /\ control[r] # None
  /\ file.status[r] = "running"
  /\ WriteSucceeds(SetStatus(file, r, control[r]))
  /\ control' = [control EXCEPT ![r] = None]
  /\ told' = told
  /\ UNCHANGED <<mode, receipt, exec, acked, handed>>

ReplayWithoutSync(r) ==
  /\ control[r] \in {"completed", "failed", "interrupted"}
  /\ \/ /\ file.status[r] = "running"
        /\ WriteFails(SetStatus(file, r, control[r]))
        /\ UNCHANGED <<control, told>>
     \/ /\ file.status[r] = control[r]
        /\ control' = [control EXCEPT ![r] = None]
        /\ told' = [told EXCEPT ![r] = control[r]]
        /\ UNCHANGED <<storeVars, bounds>>
  /\ UNCHANGED <<mode, receipt, exec, acked, handed>>

(* complete_agent_run, fail_agent_run or interrupt_agent_run, by the thread *)
(* that was handed the run.  From running it writes the outcome; where it  *)
(* finds the outcome already written it confirms that the file is durable; *)
(* from any other status it is an error that changes nothing.  After an    *)
(* error the thread may call again.                                        *)
RecordOutcome(r) ==
  /\ control[r] \in {"completed", "failed", "interrupted"}
  /\ LET outcome == control[r]
         Confirmed ==
           /\ control' = [control EXCEPT ![r] = None]
           /\ told' = [told EXCEPT ![r] = outcome]
     IN \/ /\ file.status[r] = "running"
           /\ \/ WriteSucceeds(SetStatus(file, r, outcome)) /\ Confirmed
              \/ /\ WriteFails(SetStatus(file, r, outcome))
                 /\ UNCHANGED <<control, told>>
        \/ /\ file.status[r] = outcome
           /\ \/ Store!Synced /\ UNCHANGED bounds /\ Confirmed
              \/ Store!NotReplaced /\ Fault /\ UNCHANGED <<control, told>>
  /\ UNCHANGED <<mode, receipt, exec, acked, handed>>

(* The embedder moves a run on through the public API: load, start_run,    *)
(* complete_run, fail_run, cancel_run or interrupt_run, save.  A run with  *)
(* a durable input is neither started nor completed this way.  A stale     *)
(* snapshot is merged: it changes a run only to a descendant of the record *)
(* in the file, and is an error or has no effect otherwise.                *)
SaveRunStatus(r) ==
  /\ mode = "up"
  /\ \E new \in {"running", "interrupted", "completed", "failed", "cancelled"} :
       /\ IsDescendant(file.status[r], new)
       /\ new \in {"running", "completed"} => file.input[r] = {}
       /\ CarefulEmbedder /\ new \in Terminal => exec[r] # "live"
       /\ \/ WriteSucceeds(SetStatus(file, r, new))
          \/ WriteFails(SetStatus(file, r, new))
  /\ UNCHANGED <<mode, adapterVars, history>>

(* Wrong: with nothing to reconcile, the report is returned right away.    *)
ReconcileWithoutSync ==
  /\ mode = "recovering"
  /\ \/ /\ Reconciled(file) # file
        /\ WriteFails(Reconciled(file))
        /\ UNCHANGED mode
     \/ /\ Reconciled(file) = file
        /\ mode' = "up"
        /\ UNCHANGED <<storeVars, bounds>>
  /\ UNCHANGED <<adapterVars, history>>

(* reconcile_runs_at_startup: the report is returned only once the state it *)
(* describes is durable.                                                   *)
ReconcileRunsAtStartup ==
  /\ mode = "recovering"
  /\ \/ /\ Reconciled(file) # file
        /\ \/ WriteSucceeds(Reconciled(file)) /\ mode' = "up"
           \/ WriteFails(Reconciled(file)) /\ UNCHANGED mode
     \/ /\ Reconciled(file) = file
        /\ \/ Store!Synced /\ UNCHANGED bounds /\ mode' = "up"
           \/ Store!NotReplaced /\ Fault /\ UNCHANGED mode
  /\ UNCHANGED <<adapterVars, history>>

-----------------------------------------------------------------------------
Writeback ==
  /\ Store!Writeback
  /\ UNCHANGED <<mode, adapterVars, bounds, history>>

(* Every thread of the bridge is gone; the next process starts recovering. *)
ProcessGone ==
  /\ crashes < MaxCrashes
  /\ crashes' = crashes + 1
  /\ mode' = "recovering"
  /\ receipt' = [e \in Event |-> None]
  /\ control' = [r \in RunId |-> None]
  /\ UNCHANGED <<faults, history>>

(* An agent's processes may survive the bridge's.                          *)
Crash == ProcessGone /\ UNCHANGED <<storeVars, exec>>

PowerLoss ==
  /\ ProcessGone
  /\ Store!PowerLoss
  /\ exec' = [r \in RunId |-> IF exec[r] = "live" THEN "ended" ELSE exec[r]]

Next ==
  \/ \E e \in Event :
       \/ PersistInboundEvent(e)
       \/ AcknowledgeInbound(e)
       \/ AcknowledgeFails(e)
  \/ \E r \in RunId :
       \/ ClaimMessageBatch(r)
       \/ AddRunBySave(r)
       \/ StartAgentRun(r)
       \/ AgentReturns(r)
       \/ ExecutionEnds(r)
       \/ RecordOutcome(r)
       \/ SaveRunStatus(r)
  \/ ReconcileRunsAtStartup
  \/ Writeback
  \/ Crash
  \/ PowerLoss

Spec == Init /\ [][Next]_vars

-----------------------------------------------------------------------------
TypeOK ==
  /\ file \in RuntimeImage
  /\ disk \in RuntimeImage
  /\ mode \in {"recovering", "up"}
  /\ receipt \in [Event -> {None, "recorded", "duplicate"}]
  /\ control \in [RunId -> {None, "executing", "completed", "failed",
                            "interrupted"}]
  /\ exec \in [RunId -> {None, "live", "ended"}]
  /\ faults \in Nat
  /\ crashes \in Nat
  /\ acked \in [Event -> {None, "recorded", "duplicate"}]
  /\ handed \in [Event -> Nat]
  /\ told \in [RunId -> {None, "completed", "failed", "interrupted"}]

(* Neither a reader nor a restart after a power loss ever meets an image   *)
(* that RuntimeState::validate rejects, although no step is refused by it: *)
(* messages are owned by the queue or by exactly one run, in ledger order, *)
(* and a session by at most one unfinished run.                            *)
ImagesValid == Valid(file) /\ Valid(disk)

(* A message is handed to an agent at most once, ever: not again after a   *)
(* crash, a power loss, a failed write, a redelivery or a new run.         *)
HandedOnce == \A e \in Event : handed[e] <= 1

(* Two executions in one scope never overlap, not even one that outlived   *)
(* the bridge that started it.  The embedder has to be careful for this:   *)
(* the code lets it fail or cancel a run whose agent is still working.     *)
ExclusiveExecution ==
  \A q, r \in RunId :
    q # r /\ exec[q] = "live" /\ exec[r] = "live" => file.scope[q] # file.scope[r]

(* An outcome a store operation confirmed is the one a restart finds, also *)
(* when Ok was only the replay of a write that had reported an error.      *)
(* An interrupted run may have been resolved since.                        *)
ConfirmedOutcomeDurable ==
  \A r \in RunId :
    /\ told[r] \in Terminal => disk.status[r] = told[r]
    /\ told[r] = "interrupted" => disk.status[r] \in {"interrupted", "failed",
                                                      "cancelled"}

(* The event of a delivery acknowledged as Recorded is in the ledger, and  *)
(* survives a power loss.                                                  *)
RecordedAckDurable ==
  \A e \in Event : acked[e] = "recorded" => e \in Recorded(disk)

(* The same for every acknowledged delivery, which is what the design says *)
(* of accept_inbound_delivery.                                             *)
AckedDurable == \A e \in Event : acked[e] # None => e \in Recorded(disk)

(* Startup reconciliation returns its report only when no run is left that *)
(* looks as if a thread of this process were executing it, and the image a *)
(* power loss would restore is the reported one.                           *)
ReportIsDurable ==
  [][mode = "recovering" /\ mode' = "up" =>
       /\ \A r \in RunId : file'.status[r] # "running"
       /\ disk' = file']_vars

=============================================================================
