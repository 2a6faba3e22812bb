------------------------------ MODULE RuntimeState ------------------------------
(***************************************************************************)
(* The part of RuntimeState (runtime/state/model.rs, run.rs, queue.rs) that *)
(* carries a message from its arrival to an agent: the inbound ledger, the *)
(* message queue, the runs and their durable inputs, as one image, and the *)
(* transitions the code makes on it.  Times, names and payloads are left   *)
(* out; a guard on a time appears as a call that may be rejected.          *)
(*                                                                         *)
(* The queue is the set of its events: the code keeps it in ledger order   *)
(* (both vectors grow at the end together, and a claim retains the order), *)
(* so the order is read off the ledger.                                    *)
(***************************************************************************)
EXTENDS Naturals, Sequences, FiniteSets

CONSTANTS
  Event,            \* inbound event ids
  Session,          \* session ids: the execution scopes
  NoSession,        \* stands for "references no session"
  SessionOf,        \* the session of a message event, NoSession for a notice
  RunId,            \* run ids
  MaxBatch          \* MessageQueuePolicy::max_batch_size

ASSUME StateAssumption ==
  /\ NoSession \notin Session
  /\ SessionOf \in [Event -> Session \cup {NoSession}]
  /\ MaxBatch \in Nat \ {0}

Active == {"pending", "running", "interrupted"}    \* not RunStatus::is_terminal
Terminal == {"completed", "failed", "cancelled"}
Absent == "absent"                                 \* no run has this id

RuntimeImage ==
  [ledger : Seq(Event),                 \* inbound_events
   queue  : SUBSET Event,               \* queued_messages
   status : [RunId -> Active \cup Terminal \cup {Absent}],
   scope  : [RunId -> Session \cup {NoSession}],
   input  : [RunId -> SUBSET Event]]    \* run_inputs; {} when there is none

EmptyImage ==
  [ledger |-> <<>>,
   queue  |-> {},
   status |-> [r \in RunId |-> Absent],
   scope  |-> [r \in RunId |-> NoSession],
   input  |-> [r \in RunId |-> {}]]

-----------------------------------------------------------------------------
Recorded(st) == {st.ledger[i] : i \in DOMAIN st.ledger}

(* e was recorded before f.                                                *)
Before(st, e, f) ==
  \E i, j \in DOMAIN st.ledger : i < j /\ st.ledger[i] = e /\ st.ledger[j] = f

QueueOf(st, s) == {e \in st.queue : SessionOf[e] = s}

(* Wrong: an interrupted run taken for a finished one.                     *)
OwnedByWorking(st, s) ==
  \E r \in RunId : st.status[r] \in {"pending", "running"} /\ st.scope[r] = s

(* Session s has a run that is not terminal.                               *)
Owned(st, s) == \E r \in RunId : st.status[r] \in Active /\ st.scope[r] = s

(* RuntimeState::record_inbound_event for an event not in the ledger: a    *)
(* message event also joins the queue.                                     *)
RecordEvent(st, e) ==
  [st EXCEPT !.ledger = Append(@, e),
             !.queue = IF SessionOf[e] = NoSession THEN @ ELSE @ \cup {e}]

(* MessageQueuePolicy::poll_where: b is the batch of session s, the oldest *)
(* queued messages up to max_batch_size.  When it is ready is a matter of  *)
(* time and left open.                                                     *)
IsBatch(st, s, b) ==
  /\ b # {}
  /\ b \subseteq QueueOf(st, s)
  /\ Cardinality(b) <= MaxBatch
  /\ b = QueueOf(st, s) \/ Cardinality(b) = MaxBatch
  /\ \A e \in b, f \in QueueOf(st, s) \ b : Before(st, e, f)

(* Wrong: the claimed messages stay queued.                                *)
ClaimKeepingQueue(st, r, s, b) ==
  [st EXCEPT !.status[r] = "pending", !.scope[r] = s, !.input[r] = b]

(* RuntimeState::claim_message_batch, once the policy has chosen s and b.  *)
ClaimBatch(st, r, s, b) ==
  [st EXCEPT !.status[r] = "pending",
             !.scope[r] = s,
             !.input[r] = b,
             !.queue = @ \ b]

(* RuntimeState::add_run: a run no queued message belongs to.              *)
AddRun(st, r, s) == [st EXCEPT !.status[r] = "pending", !.scope[r] = s]

(* start_run, interrupt_run, complete_run..., fail_run and cancel_run.     *)
SetStatus(st, r, new) == [st EXCEPT !.status[r] = new]

(* RunRecord::is_descendant_of: the status changes that a snapshot merged  *)
(* into the file may make, in one or several of the run's own transitions. *)
IsDescendant(old, new) ==
  \/ old = "pending" /\ new \in {"running", "interrupted"} \cup Terminal
  \/ old = "running" /\ new \in {"interrupted"} \cup Terminal
  \/ old = "interrupted" /\ new \in {"failed", "cancelled"}

(* Wrong: startup retries the runs it finds running.                       *)
ReconciledByRetry(st) ==
  [st EXCEPT !.status = [r \in RunId |->
     IF st.status[r] = "running" /\ st.input[r] # {} THEN "pending" ELSE st.status[r]]]

(* RuntimeState::reconcile_runs_at_startup: a pending run with a durable   *)
(* input stays resumable, every other unfinished run becomes interrupted.  *)
Reconciled(st) ==
  [st EXCEPT !.status = [r \in RunId |->
     IF \/ st.status[r] = "running"
        \/ st.status[r] = "pending" /\ st.input[r] = {}
     THEN "interrupted"
     ELSE st.status[r]]]

-----------------------------------------------------------------------------
(* RuntimeState::validate, conjunct by conjunct.  The transitions above do *)
(* not consult it; that every image they produce satisfies it means the    *)
(* code's validate() never turns one of them into an error.                *)

(* A ledger without duplicate ids.                                         *)
LedgerUnique(st) ==
  \A i, j \in DOMAIN st.ledger : st.ledger[i] = st.ledger[j] => i = j

(* At most one active run owns a session.                                  *)
OneActiveRun(st) ==
  \A q, r \in RunId :
    /\ q # r
    /\ st.status[q] \in Active
    /\ st.status[r] \in Active
    => st.scope[q] # st.scope[r]

(* Queued and claimed messages are in the ledger, and no message is both   *)
(* queued and claimed or claimed twice.                                    *)
OwnedOnce(st) ==
  /\ st.queue \subseteq Recorded(st)
  /\ \A r \in RunId :
       /\ st.input[r] \subseteq Recorded(st) \ st.queue
       /\ st.input[r] # {} => st.status[r] # Absent
       /\ \A e \in st.input[r] : SessionOf[e] = st.scope[r]
  /\ \A q, r \in RunId : q # r => st.input[q] \cap st.input[r] = {}

(* The messages of a session are claimed in ledger order: a claimed one    *)
(* precedes every queued one, and the inputs of two runs do not interleave. *)
OwnedInOrder(st) ==
  /\ \A r \in RunId : \A e \in st.input[r], f \in QueueOf(st, st.scope[r]) :
       Before(st, e, f)
  /\ \A q, r \in RunId : q # r /\ st.scope[q] = st.scope[r] =>
       \/ \A e \in st.input[q], f \in st.input[r] : Before(st, e, f)
       \/ \A e \in st.input[q], f \in st.input[r] : Before(st, f, e)

Valid(st) ==
  /\ LedgerUnique(st)
  /\ OneActiveRun(st)
  /\ OwnedOnce(st)
  /\ OwnedInOrder(st)

=============================================================================
