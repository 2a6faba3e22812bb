------------------------------- MODULE SnapshotSave -------------------------------
(***************************************************************************)
(* StateStore::save against everything else that writes the state file.    *)
(* Embedders load the state, edit their copies with the public operations  *)
(* of RuntimeState and save them, perhaps more than once, while the store's *)
(* own transitions (inbound delivery, claim, agent run, outbox, startup    *)
(* recovery) change the file underneath.  The file may be of any version,  *)
(* or damaged, when the process starts.                                    *)
(*                                                                         *)
(* Each operation of the store holds the process-wide write lock, hence is *)
(* one step; its write is atomic and succeeds (StateFileWrite and          *)
(* MessageHandoff have the failing ones).  An operation that returns an    *)
(* error changes nothing and is not a step.                                *)
(***************************************************************************)
EXTENDS StateFormat

CONSTANTS
  Event,            \* the events that may arrive
  SessionId,        \* the sessions an embedder may add
  AgentRun,         \* run ids for claims
  EmbedderRun,      \* run ids an embedder adds
  Delivery,         \* the deliveries an embedder or another handle enqueues
  Embedder,         \* callers with a copy of the state each
  ReleasedFiles,    \* files that the released versions write; {} for none
  BusyFiles,        \* bound: those of them that the store goes on from
  OddFiles,         \* files that none of them writes
  ClockMax,         \* bound: the clock stops here
  MaxEdits,         \* bound: edits of one loaded snapshot
  MaxUpdates        \* bound: transitions of the store

(* What the files at the start hold.                                       *)
Wires == UNION (ReleasedFiles \cup OddFiles)

Filed(c) == UNION {ToSet(RecordsOf(wire.fields[c])) : wire \in Wires}

(* The keys that can come up.  An output is named for its run and place.   *)
EventKey == {e.id : e \in Event \cup Filed("ledger")}

RunKey == AgentRun \cup EmbedderRun \cup {run.id : run \in Filed("runs")}

OtherDelivery == {d.id : d \in Delivery \cup Filed("outbox")}

DeliveryKey == (AgentRun \X Nat) \cup OtherDelivery

(* What messages and deliveries say.                                       *)
Body ==
  {"answer", "more"} \cup
  {x.body : x \in Event \cup Delivery \cup Filed("queue") \cup Filed("outbox")
                    \cup UNION {ToSet(input.messages) : input \in Filed("inputs")}}

SessionType == [id : Nat, created : Nat, updated : Nat]

EntryType == [id : EventKey, received : Nat, recorded : Nat]

MessageType ==
  [id : EventKey, session : Nat, received : Nat, body : Body, enqueued : Nat]

InputType ==
  [id : RunKey, session : Nat, messages : Seq(MessageType), ready : Nat, claimed : Nat]

RunType ==
  [id : RunKey, session : Nat, created : Nat, updated : Nat,
   status : {"pending", "running", "interrupted", "completed", "failed", "cancelled"},
   started : SUBSET Nat, finished : SUBSET Nat, outputs : Seq(DeliveryKey)]

DeliveryType ==
  [id : DeliveryKey, session : Nat, author : {"agent", "system", "user"}, body : Body,
   status : {"pending", "delivering", "delivered", "failed", "uncertain"},
   created : Nat, updated : Nat, attempts : Nat, delivered : SUBSET Nat, error : BOOLEAN]

ImageType ==
  [sessions : Seq(SessionType), runs : Seq(RunType), inputs : Seq(InputType),
   ledger : Seq(EntryType), queue : Seq(MessageType), outbox : Seq(DeliveryType),
   updated : Nat]

(* There is one file at most, and what is read from it has the types of    *)
(* the code.  Nobody else's delivery is named like an output of an agent,  *)
(* and a message is for some session.                                      *)
ASSUME SnapshotAssumption ==
  /\ SessionId \subseteq Nat \ {None}
  /\ \A e \in Event : /\ e.kind \in EventKinds /\ e.received \in Nat
                      /\ e.kind = "message" => e.session # None
  /\ \A id \in OtherDelivery : id[1] \notin AgentRun
  /\ AgentRun \cap EmbedderRun = {}
  /\ ClockMax \in Nat /\ ClockMax <= MaxTime
  /\ MaxEdits \in Nat
  /\ MaxUpdates \in Nat
  /\ BusyFiles \subseteq ReleasedFiles
  /\ \A f \in ReleasedFiles \cup OddFiles : \A v, w \in f : v = w
  /\ \A wire \in Wires : \A img \in Parse(wire) : img \in ImageType

VARIABLES
  now,              \* unix_seconds_now()
  file,             \* the state file: {} while there is none, else {its wire}
  snapshot,         \* per embedder its copy: {} before it has loaded one
  edits,            \* per embedder how often its copy was edited
  updates,          \* how many transitions the store has made
  confirmed         \* the completions that were confirmed to the caller

vars == <<now, file, snapshot, edits, updates, confirmed>>

Init ==
  /\ now = 0
  /\ file \in ReleasedFiles \cup OddFiles
  /\ snapshot = [m \in Embedder |-> {}]
  /\ edits = [m \in Embedder |-> 0]
  /\ updates = IF file \in BusyFiles THEN 0 ELSE MaxUpdates
  /\ confirmed = {}

(* Wrong: a file that cannot be read counts as no file.                    *)
LoadLeniently(f) ==
  LET read == UNION {Parse(wire) : wire \in f}
  IN IF read = {} THEN {EmptyImage(0)} ELSE read

(* load_existing_for_merge: no file is nothing to merge with, a file that  *)
(* does not parse is an error.                                             *)
LoadForMerge(f) == IF f = {} THEN {EmptyImage(0)} ELSE UNION {Parse(wire) : wire \in f}

(* StateStore::load, the same for a file.                                  *)
Load(f) == IF f = {} THEN {EmptyImage(now)} ELSE LoadForMerge(f)

(* write_unlocked                                                          *)
Write(img) == Valid(img) /\ file' = {Encode(img)}

-----------------------------------------------------------------------------
(* The embedders.                                                          *)

(* One that loads again is another embedder.                               *)
LoadSnapshot(m) ==
  /\ snapshot[m] = {}
  /\ \E img \in Load(file) : snapshot' = [snapshot EXCEPT ![m] = {img}]
  /\ UNCHANGED <<now, file, edits, updates, confirmed>>

(* A public operation of RuntimeState on the copy of m.                    *)
Edit(m, Op(_)) ==
  /\ edits[m] < MaxEdits
  /\ \E old \in snapshot[m] : \E new \in Op(old) \ {old} :
       snapshot' = [snapshot EXCEPT ![m] = {new}]
  /\ edits' = [edits EXCEPT ![m] = @ + 1]
  /\ UNCHANGED <<now, file, updates, confirmed>>

EditSession(m, s) == Edit(m, LAMBDA img : UpsertSession(img, NewSession(s, now), now))

EditAddRun(m, id, s) == Edit(m, LAMBDA img : AddRun(img, NewRun(id, s, now), now))

EditEvent(m, e) == Edit(m, LAMBDA img : RecordEvent(img, e, now))

EditDelivery(m, d) ==
  Edit(m, LAMBDA img : UNION {Enqueue(img, x, now) :
                                x \in NewDelivery(d.id, d.session, "system", d.body, now)})

(* start_run, interrupt_run, complete_run, fail_run and cancel_run.        *)
EditRun(m, id, Step(_)) == Edit(m, LAMBDA img : OnRun(img, id, Step, now, now))

EditStart(m, id) == EditRun(m, id, LAMBDA run : Start(run, now))

EditInterrupt(m, id) == EditRun(m, id, LAMBDA run : Interrupt(run, now))

EditComplete(m, id) == EditRun(m, id, LAMBDA run : Complete(run, now, <<>>))

EditEnd(m, id, status) == EditRun(m, id, LAMBDA run : End(run, status, now))

(* StateStore::save; the embedder keeps its copy.                          *)
SaveSnapshot(m) ==
  /\ \E s \in snapshot[m], existing \in LoadForMerge(file) :
       \E img \in Save(existing, s) : file' = {Encode(img)}
  /\ UNCHANGED <<now, snapshot, edits, updates, confirmed>>

-----------------------------------------------------------------------------
(* The store's own transitions, under the same lock.                       *)

(* load, change, write_unlocked                                            *)
Update(Op(_)) ==
  /\ updates < MaxUpdates
  /\ \E img \in UNION {Op(existing) : existing \in Load(file)} : Write(img)
  /\ updates' = updates + 1
  /\ UNCHANGED <<now, snapshot, edits>>

(* persist_inbound_event and enqueue_outbound_delivery go through          *)
(* save_unlocked: the changed image is merged into the file it came from.  *)
UpdateBySave(Op(_)) ==
  /\ updates < MaxUpdates
  /\ \E loaded \in Load(file), existing \in LoadForMerge(file) :
       \E img \in Op(loaded) \ {loaded} :
         \E merged \in Save(existing, img) : file' = {Encode(merged)}
  /\ updates' = updates + 1
  /\ UNCHANGED <<now, snapshot, edits, confirmed>>

PersistEvent(e) == UpdateBySave(LAMBDA img : RecordEvent(img, e, now))

EnqueueDelivery(d) ==
  UpdateBySave(LAMBDA img : UNION {Enqueue(img, x, now) :
                                     x \in NewDelivery(d.id, d.session, "system", d.body, now)})

ClaimMessages(id) ==
  Update(LAMBDA img : ClaimBatch(img, id, now)) /\ UNCHANGED confirmed

(* require_nondecreasing_outcome_time                                      *)
NotBeforeUpdate(run, t) == t >= run.updated

(* start_agent_run: only a run with an input.                              *)
StartAgentRun(id) ==
  /\ Update(LAMBDA img : IF Has(img.inputs, id)
                         THEN OnRun(img, id, LAMBDA run : IF now >= run.updated
                                                          THEN Start(run, now) ELSE {}, now, now)
                         ELSE {})
  /\ UNCHANGED confirmed

(* AgentRunOutput::new: the agent's messages, in the session of the run.   *)
IsOutput(session, messages) ==
  /\ messages # <<>>
  /\ \A m \in ToSet(messages) : m.author = "agent" /\ m.session = session

(* output_deliveries: one per message, named for the run and its place.    *)
OutputDeliveries(id, session, messages, t) ==
  [i \in DOMAIN messages |->
     CHOOSE d \in NewDelivery(<<id, i>>, session, "agent", messages[i].body, t) : TRUE]

SessionOfRun(img, id) == (CHOOSE run \in Find(img.runs, id) : TRUE).session

(* complete_agent_run of a running run.                                    *)
CompleteAgentRun(id, messages) ==
  /\ Update(LAMBDA img :
       IF Has(img.runs, id) /\ IsOutput(SessionOfRun(img, id), messages)
       THEN CompleteWithOutputs(img, id,
              OutputDeliveries(id, SessionOfRun(img, id), messages, now), now, now)
       ELSE {})
  /\ confirmed' = confirmed \cup {[run |-> id, messages |-> messages, at |-> now]}

(* fail_agent_run and interrupt_agent_run of a running run.                *)
StopAgentRun(id, Step(_)) ==
  /\ Update(LAMBDA img :
       OnRun(img, id, LAMBDA run : IF run.status = "running" /\ NotBeforeUpdate(run, now)
                                   THEN Step(run) ELSE {}, now, now))
  /\ UNCHANGED confirmed

FailAgentRun(id) == StopAgentRun(id, LAMBDA run : End(run, "failed", now))

InterruptAgentRun(id) == StopAgentRun(id, LAMBDA run : Interrupt(run, now))

(* A transition of any delivery that is in the outbox.                     *)
OnOutbox(Step(_)) ==
  /\ Update(LAMBDA img :
       UNION {OnDelivery(img, d.id, Step, now) : d \in ToSet(img.outbox)})
  /\ UNCHANGED confirmed

(* claim_next_outbound_delivery_attempt takes the first that is due; which *)
(* failed ones are due is the retry policy's matter (OutboxDelivery).      *)
ClaimDelivery == OnOutbox(LAMBDA d : BeginDelivery(d, now))

(* mark_outbound_delivery_delivered, _failed, _uncertain                   *)
SettleDelivery(status) == OnOutbox(LAMBDA d : Settle(d, status, now))

(* resolve_outbound_delivery_as_delivered, _as_failed                      *)
ResolveDelivery(status) == OnOutbox(LAMBDA d : Resolve(d, status, now))

(* Startup recovery of the runs and of the outbox.                         *)
Recover ==
  /\ Update(LAMBDA img : {ReconcileRuns(img, now), ReconcileOutbox(img, now)} \ {img})
  /\ UNCHANGED confirmed

Tick ==
  /\ now < ClockMax
  /\ now' = now + 1
  /\ UNCHANGED <<file, snapshot, edits, updates, confirmed>>

-----------------------------------------------------------------------------
(* What an agent, or who speaks for it, may answer.                        *)
Outputs ==
  LET message(author, s, body) == [author |-> author, session |-> s, body |-> body]
  IN {<<>>} \cup
     UNION {{<<message("agent", s, "answer")>>,
             <<message("agent", s, "answer"), message("agent", s, "more")>>,
             <<message("agent", s, "answer"), message("user", s, "more")>>} : s \in SessionId}

EmbedderNext(m) ==
  \/ LoadSnapshot(m)
  \/ \E s \in SessionId : EditSession(m, s)
  \/ \E id \in EmbedderRun, s \in SessionId : EditAddRun(m, id, s)
  \/ \E e \in Event : EditEvent(m, e)
  \/ \E d \in Delivery : EditDelivery(m, d)
  \/ \E id \in AgentRun \cup EmbedderRun :
       \/ EditStart(m, id)
       \/ EditInterrupt(m, id)
       \/ EditComplete(m, id)
       \/ \E status \in {"failed", "cancelled"} : EditEnd(m, id, status)
  \/ SaveSnapshot(m)

StoreNext ==
  \/ \E e \in Event : PersistEvent(e)
  \/ \E d \in Delivery : EnqueueDelivery(d)
  \/ \E id \in AgentRun :
       \/ ClaimMessages(id)
       \/ StartAgentRun(id)
       \/ \E messages \in Outputs : CompleteAgentRun(id, messages)
       \/ FailAgentRun(id)
       \/ InterruptAgentRun(id)
  \/ ClaimDelivery
  \/ \E status \in {"delivered", "failed", "uncertain"} : SettleDelivery(status)
  \/ \E status \in {"delivered", "failed"} : ResolveDelivery(status)
  \/ Recover

Next ==
  \/ \E m \in Embedder : EmbedderNext(m)
  \/ StoreNext
  \/ Tick

Spec == Init /\ [][Next]_vars

-----------------------------------------------------------------------------
(* What a file has promised is kept by a save, however old the snapshot:   *)
(* ledger, outbox and queue keep what they hold, unchanged and in front;   *)
(* run inputs are the store's alone; a run only goes on, and one with an   *)
(* input neither starts nor completes this way.                            *)
Extends(new, old) ==
  /\ IsPrefix(old.ledger, new.ledger)
  /\ IsPrefix(old.queue, new.queue)
  /\ IsPrefix(old.outbox, new.outbox)
  /\ new.inputs = old.inputs
  /\ \A i \in DOMAIN old.runs :
       LET was == old.runs[i]
           is == new.runs[i]
       IN \/ is = was
          \/ /\ IsDescendant(is, was)
             /\ Has(old.inputs, was.id) => is.status \in {"interrupted", "failed", "cancelled"}

SaveOnlyAdds ==
  [][\A m \in Embedder : SaveSnapshot(m) =>
       \A old \in Load(file), new \in Load(file') : Extends(new, old)]_vars

(* A copy that was not edited, however old, saves without changing a record *)
(* of the file (a session may lose a refresh), and it is refused only over *)
(* a delivery that went on or a session it lacks.                          *)
StaleSaveChangesNothing ==
  \A m \in Embedder : edits[m] = 0 =>
    \A s \in snapshot[m], old \in Load(file) :
      LET saved == Save(old, s)
      IN /\ \A new \in saved : [c \in Collections |-> new[c]] = [c \in Collections |-> old[c]]
         /\ saved = {} =>
              ~Agree(old.outbox, s.outbox) \/ \E x \in ToSet(old.sessions) : ~Has(s.sessions, x.id)

(* A merge that meets no conflict, keeps the sessions and gives none of    *)
(* them two owners needs no validation: it is valid.                       *)
MergesAreValid ==
  \A m \in Embedder : \A s \in snapshot[m], old \in Load(file) :
    LET merged == Merged(old, s)
        active == {run \in ToSet(merged.runs) : ~IsTerminal(run)}
    IN /\ Mergeable(old, s)
       /\ \A x \in ToSet(old.sessions) : Has(s.sessions, x.id)
       /\ Cardinality(active) = Cardinality({run.session : run \in active})
       => Valid(merged)

(* verify_completion_replay: c is the completion that img holds.           *)
VerifiesReplay(img, c) ==
  \E run \in Find(img.runs, c.run) :
    LET expected == OutputDeliveries(c.run, run.session, c.messages, c.at)
    IN /\ IsOutput(run.session, c.messages)
       /\ run.status = "completed"
       /\ run.finished = {c.at}
       /\ run.outputs = [i \in DOMAIN expected |-> expected[i].id]
       /\ \A e \in ToSet(expected) : \E d \in Find(img.outbox, e.id) : SameEnqueue(d, e)

(* A completion that was confirmed stands, whatever the outbox worker and  *)
(* the stale copies do: called again it is confirmed, another one is not,  *)
(* and no run has outputs in the outbox without it.                        *)
ConfirmedCompletionStands ==
  \A img \in Load(file) :
    /\ \A c \in confirmed : VerifiesReplay(img, c)
    /\ \A c \in confirmed, messages \in Outputs :
         VerifiesReplay(img, [c EXCEPT !.messages = messages]) => messages = c.messages
    /\ \A d \in ToSet(img.outbox) :
         d.id[1] \in AgentRun => \E c \in confirmed : c.run = d.id[1]

(* What is read is everything the file holds, and an old file loses        *)
(* nothing: a file that is not understood in full is not read at all.  And *)
(* what the program has written is read, by whichever version it was       *)
(* written and however far the store and the saves have gone on from it.   *)
FilesAreReadInFull ==
  /\ \A wire \in file : \A img \in Parse(wire) :
       /\ img.sessions = wire.sessions
       /\ \A c \in Collections :
            LET field == wire.fields[c]
            IN IF field.tag = "value" THEN img[c] = field.records
                                      ELSE field.tag = "missing" /\ img[c] = <<>>
  /\ Load(file) = {} => file \in OddFiles

(* A file that cannot be read is left as it is.                            *)
UnreadableFileIsKept == [][\A wire \in file : Parse(wire) = {} => file' = file]_file
=============================================================================
