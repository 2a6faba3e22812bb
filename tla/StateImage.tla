------------------------------- MODULE StateImage -------------------------------
(***************************************************************************)
(* The whole RuntimeState (runtime/state/model.rs) with its records         *)
(* (session.rs, event.rs, queue.rs, run.rs, outbox.rs) and their times: the *)
(* transitions, the validation, and the merge that StateStore::save makes  *)
(* of a snapshot and the file (state/store/core.rs).                       *)
(*                                                                         *)
(* An operation that can be rejected yields a set: {} when the code returns *)
(* an error, otherwise the set of the one result.  An Option<u64> is a set *)
(* of at most one time.  The records of each collection carry the key of   *)
(* the collection as `id`: a queued message the event it came from, a run  *)
(* input the run it belongs to.  Ids of a wrong form, the text of a message *)
(* and the time it was written, and the text of an error are left out.     *)
(***************************************************************************)
EXTENDS QueuePolicy, SequencesExt

None == 0                                  \* not the id of a session

Accept(guard, value) == IF guard THEN {value} ELSE {}

(* The elements of seq that are in S, in their order.                      *)
Select(seq, S) ==
  LET upTo[i \in 0..Len(seq)] ==
        IF i = 0 THEN <<>>
        ELSE IF seq[i] \in S THEN Append(upTo[i - 1], seq[i])
        ELSE upTo[i - 1]
  IN upTo[Len(seq)]

Has(records, id) == \E i \in DOMAIN records : records[i].id = id

Find(records, id) == {x \in ToSet(records) : x.id = id}

(* records with x in the place of the record with its id.                  *)
Put(records, x) ==
  [i \in DOMAIN records |-> IF records[i].id = x.id THEN x ELSE records[i]]

DistinctIds(records) ==
  \A i, j \in DOMAIN records : records[i].id = records[j].id => i = j

NonDecreasing(s) == \A i, j \in DOMAIN s : i < j => s[i] <= s[j]

Increasing(s) == \A i, j \in DOMAIN s : i < j => s[i] < s[j]

-----------------------------------------------------------------------------
(* Sessions, events and messages.                                          *)

NewSession(id, t) == [id |-> id, created |-> t, updated |-> t]

(* Event ids may be delivered again, with the same content or another.     *)
(* session is None unless the event is a message; one that is malformed    *)
(* (not from a platform, not written by a user) cannot be queued.          *)
EventKinds == {"message", "notice", "malformed"}

(* InboundEventRecord::from_event                                          *)
Entry(e, now) ==
  [id |-> e.id, received |-> e.received, recorded |-> Larger(now, e.received)]

SameIdentity(m, n) == [m EXCEPT !.enqueued = 0] = [n EXCEPT !.enqueued = 0]

MessageWellFormed(m) == m.session # None /\ m.enqueued >= m.received

InputWellFormed(input) ==
  LET messages == input.messages
      times == [i \in DOMAIN messages |-> messages[i].enqueued]
  IN /\ messages # <<>>
     /\ DistinctIds(messages)
     /\ \A m \in ToSet(messages) : MessageWellFormed(m) /\ m.session = input.session
     /\ NonDecreasing(times)
     /\ Last(times) <= input.ready
     /\ input.ready <= input.claimed

-----------------------------------------------------------------------------
(* Runs: RunRecord.                                                        *)

NewRun(id, s, t) ==
  [id |-> id, session |-> s, status |-> "pending", created |-> t, updated |-> t,
   started |-> {}, finished |-> {}, outputs |-> <<>>]

(* Wrong: a cancelled run keeps its session.                               *)
HasOutcome(run) == run.status \in {"completed", "failed"}

IsTerminal(run) == run.status \in {"completed", "failed", "cancelled"}

(* Not before the run was created or started.                              *)
NotBefore(run, t) == t >= run.created /\ \A u \in run.started : t >= u

Start(run, t) ==
  Accept(run.status = "pending" /\ t >= run.created,
         [run EXCEPT !.status = "running", !.started = {t}, !.updated = Larger(@, t)])

Interrupt(run, t) ==
  Accept(run.status \in {"pending", "running"} /\ NotBefore(run, t),
         [run EXCEPT !.status = "interrupted", !.updated = Larger(@, t)])

Complete(run, t, outputs) ==
  Accept(run.status = "running" /\ IsInjective(outputs) /\ NotBefore(run, t),
         [run EXCEPT !.status = "completed", !.finished = {t},
                     !.updated = Larger(@, t), !.outputs = outputs])

(* fail and cancel                                                         *)
End(run, status, t) ==
  Accept(~IsTerminal(run) /\ NotBefore(run, t),
         [run EXCEPT !.status = status, !.finished = {t}, !.updated = Larger(@, t)])

(* RunRecord::is_descendant_of                                             *)
IsDescendant(run, old) ==
  /\ run.id = old.id
  /\ run.session = old.session
  /\ run.created = old.created
  /\ run.updated >= old.updated
  /\ run.status = "completed" \/ run.outputs = old.outputs
  /\ CASE old.status = "pending" -> run.status # "pending"
       [] old.status = "running" ->
            run.status \notin {"pending", "running"} /\ run.started = old.started
       [] old.status = "interrupted" ->
            run.status \in {"failed", "cancelled"} /\ run.started = old.started
       [] OTHER -> FALSE

(* RunRecord::validate                                                     *)
RunWellFormed(run) ==
  /\ IsInjective(run.outputs)
  /\ run.outputs # <<>> => run.status = "completed"
  /\ run.created <= run.updated
  /\ \A t \in run.started : run.created <= t /\ t <= run.updated
  /\ \A t \in run.finished : NotBefore(run, t) /\ t <= run.updated
  /\ CASE run.status = "pending" -> run.started = {} /\ run.finished = {}
       [] run.status = "running" -> run.started # {} /\ run.finished = {}
       [] run.status = "interrupted" -> run.finished = {}
       [] run.status = "completed" -> run.started # {} /\ run.finished # {}
       [] OTHER -> run.finished # {}

-----------------------------------------------------------------------------
(* Deliveries: OutboundDeliveryRecord.                                     *)

NewDelivery(id, s, author, body, t) ==
  Accept(author # "user",
         [id |-> id, session |-> s, author |-> author, body |-> body,
          status |-> "pending", created |-> t, updated |-> t,
          attempts |-> 0, delivered |-> {}, error |-> FALSE])

SameEnqueue(d, e) ==
  /\ d.id = e.id
  /\ d.session = e.session
  /\ <<d.author, d.body>> = <<e.author, e.body>>
  /\ d.created = e.created

BeginDelivery(d, t) ==
  Accept(d.status \in {"pending", "failed"} /\ t >= d.updated,
         [d EXCEPT !.status = "delivering", !.attempts = @ + 1,
                   !.delivered = {}, !.error = FALSE, !.updated = t])

Outcome(d, status, t) ==
  [d EXCEPT !.status = status,
            !.delivered = IF status = "delivered" THEN {t} ELSE {},
            !.error = (status # "delivered"),
            !.updated = t]

(* mark_delivered, mark_failed, mark_uncertain: what became of the attempt. *)
Settle(d, status, t) ==
  Accept(d.status = "delivering" /\ t >= d.updated, Outcome(d, status, t))

(* validate_resolution_time                                                *)
ResolvableAt(d, t) == t >= d.created /\ t >= d.updated

(* resolve_uncertain_as_...: what an operator found out about it.          *)
Resolve(d, status, t) ==
  Accept(d.status = "uncertain" /\ ResolvableAt(d, t), Outcome(d, status, t))

(* OutboundDeliveryRecord::validate                                        *)
DeliveryWellFormed(d) ==
  /\ d.author # "user"
  /\ d.created <= d.updated
  /\ \A t \in d.delivered : d.created <= t /\ t <= d.updated
  /\ (d.attempts = 0) = (d.status = "pending")
  /\ d.delivered = IF d.status = "delivered" THEN {d.updated} ELSE {}
  /\ d.error = (d.status \in {"failed", "uncertain"})

-----------------------------------------------------------------------------
(* The image and its transitions.                                          *)

EmptyImage(now) ==
  [sessions |-> <<>>, runs |-> <<>>, inputs |-> <<>>, ledger |-> <<>>,
   queue |-> <<>>, outbox |-> <<>>, updated |-> now]

Touch(img, t) == [img EXCEPT !.updated = Larger(@, t)]

(* RuntimeState::upsert_session                                            *)
UpsertSession(img, s, now) ==
  LET refreshed == {[old EXCEPT !.updated = Larger(@, s.updated)] :
                      old \in Find(img.sessions, s.id)}
      kept == IF refreshed = {} THEN {s} ELSE refreshed
  IN {Touch([img EXCEPT !.sessions = IF refreshed = {} THEN Append(@, s) ELSE Put(@, x)],
            Larger(x.updated, now)) : x \in kept}

(* RuntimeState::add_run                                                   *)
AddRun(img, run, now) ==
  Accept(/\ Has(img.sessions, run.session)
         /\ ~Has(img.runs, run.id)
         /\ \/ IsTerminal(run)
            \/ \A old \in ToSet(img.runs) : old.session = run.session => IsTerminal(old),
         Touch([img EXCEPT !.runs = Append(@, run)], Larger(run.updated, now)))

Claimed(img) == UNION {ToSet(img.inputs[i].messages) : i \in DOMAIN img.inputs}

(* RuntimeState::message_record_for_event                                  *)
MessageOf(img, id) == {m \in ToSet(img.queue) \cup Claimed(img) : m.id = id}

(* Wrong: the messages of every session count.                             *)
LastEnqueuedOfAny(img, s) ==
  Max({0} \cup {m.enqueued : m \in ToSet(img.queue) \cup Claimed(img)})

(* The latest time a message of s, waiting or claimed, was enqueued.       *)
LastEnqueued(img, s) ==
  Max({0} \cup {m.enqueued : m \in {n \in ToSet(img.queue) \cup Claimed(img) : n.session = s}})

(* Wrong: the clock alone decides when a message joined the queue.         *)
QueuedAtArrival(img, e, now) ==
  [id |-> e.id, session |-> e.session, received |-> e.received, body |-> e.body,
   enqueued |-> Larger(now, e.received)]

(* QueuedMessage::from_event: never before a message of the session that   *)
(* came earlier, whatever the clock says now.                              *)
Queued(img, e, now) ==
  [id |-> e.id, session |-> e.session, received |-> e.received, body |-> e.body,
   enqueued |-> Larger(Larger(now, LastEnqueued(img, e.session)), e.received)]

(* RuntimeState::record_inbound_event_at: the same event again leaves the  *)
(* image as it is, the same id with another content is an error.           *)
RecordEvent(img, e, now) ==
  LET queued == IF e.kind = "message" THEN {Queued(img, e, now)} ELSE {}
      entry == Entry(e, now)
      isReplay == /\ \A old \in Find(img.ledger, e.id) : old.received = e.received
                  /\ \A m \in MessageOf(img, e.id) : \E q \in queued : SameIdentity(m, q)
                  /\ queued # {} => MessageOf(img, e.id) # {}
      added == [img EXCEPT !.ledger = Append(@, entry),
                           !.queue = @ \o SetToSeq(queued)]
  IN IF e.kind = "malformed" \/ (e.kind = "message" /\ ~Has(img.sessions, e.session))
     THEN {}
     ELSE IF Has(img.ledger, e.id) THEN Accept(isReplay, img)
     ELSE {Touch(added, Max({entry.recorded} \cup {q.enqueued : q \in queued}))}

(* The sessions no unfinished run owns.                                    *)
FreeSessions(img) ==
  SessionsIn(img.queue) \ {run.session : run \in {r \in ToSet(img.runs) : ~IsTerminal(r)}}

(* RuntimeState::claim_message_batch, when a batch is ready.               *)
ClaimBatch(img, id, now) ==
  UNION {LET input == [id |-> id, session |-> b.session, messages |-> b.messages,
                       ready |-> b.ready, claimed |-> now]
         IN {Touch([added EXCEPT
                      !.queue = Select(@, ToSet(@) \ ToSet(b.messages)),
                      !.inputs = Append(@, input)], now) :
               added \in IF InputWellFormed(input)
                         THEN AddRun(img, NewRun(id, b.session, now), now)
                         ELSE {}} :
         b \in ReadyBatch(img.queue, now, FreeSessions(img))}

(* A transition of the run `id` at time t, made when the clock shows now.  *)
OnRun(img, id, Step(_), t, now) ==
  {Touch([img EXCEPT !.runs = Put(@, run)], Larger(t, now)) :
     run \in UNION {Step(old) : old \in Find(img.runs, id)}}

OnDelivery(img, id, Step(_), now) ==
  {Touch([img EXCEPT !.outbox = Put(@, d)], Larger(d.updated, now)) :
     d \in UNION {Step(old) : old \in Find(img.outbox, id)}}

(* RuntimeState::enqueue_outbound_delivery                                 *)
Enqueue(img, d, now) ==
  IF ~DeliveryWellFormed(d) \/ ~Has(img.sessions, d.session) \/ d.status # "pending" THEN {}
  ELSE IF Has(img.outbox, d.id) THEN Accept(Find(img.outbox, d.id) = {d}, img)
  ELSE {Touch([img EXCEPT !.outbox = Append(@, d)], Larger(d.updated, now))}

(* RuntimeState::complete_run_with_output_deliveries                       *)
CompleteWithOutputs(img, id, deliveries, t, now) ==
  UNION {IF /\ deliveries # <<>>
            /\ run.status = "running"
            /\ t >= run.updated
            /\ DistinctIds(deliveries)
            /\ \A d \in ToSet(deliveries) :
                 /\ DeliveryWellFormed(d)
                 /\ d.status = "pending"
                 /\ Has(img.sessions, d.session) /\ d.session = run.session
                 /\ d.author = "agent"
                 /\ d.created = t
                 /\ ~Has(img.outbox, d.id)
         THEN {Touch([img EXCEPT !.runs = Put(@, done), !.outbox = @ \o deliveries],
                     Larger(t, now)) :
                 done \in Complete(run, t, [i \in DOMAIN deliveries |-> deliveries[i].id])}
         ELSE {} : run \in Find(img.runs, id)}

(* RuntimeState::reconcile_runs_at_startup and                             *)
(* reconcile_outbound_deliveries_at_startup: a time before the record's    *)
(* last one counts as that one.                                            *)
ReconcileRuns(img, now) ==
  LET lost(run) == run.status = "running" \/ (run.status = "pending" /\ ~Has(img.inputs, run.id))
      stopped(run) == CHOOSE r \in Interrupt(run, Larger(now, run.updated)) : TRUE
      runs == [i \in DOMAIN img.runs |->
                 IF lost(img.runs[i]) THEN stopped(img.runs[i]) ELSE img.runs[i]]
  IN Touch([img EXCEPT !.runs = runs],
           Max({img.updated} \cup {runs[i].updated : i \in {j \in DOMAIN runs : lost(img.runs[j])}}))

ReconcileOutbox(img, now) ==
  LET lost(d) == d.status = "delivering"
      doubted(d) == CHOOSE x \in Settle(d, "uncertain", Larger(now, d.updated)) : TRUE
      outbox == [i \in DOMAIN img.outbox |->
                   IF lost(img.outbox[i]) THEN doubted(img.outbox[i]) ELSE img.outbox[i]]
  IN Touch([img EXCEPT !.outbox = outbox],
           Max({img.updated} \cup {outbox[i].updated : i \in {j \in DOMAIN outbox : lost(img.outbox[j])}}))

-----------------------------------------------------------------------------
(* RuntimeState::validate                                                  *)

SessionsValid(img) ==
  /\ DistinctIds(img.sessions)
  /\ \A s \in ToSet(img.sessions) : s.created <= s.updated /\ s.updated <= img.updated

RunsValid(img) ==
  /\ DistinctIds(img.runs)
  /\ \A run \in ToSet(img.runs) :
       /\ RunWellFormed(run)
       /\ Has(img.sessions, run.session)
       /\ run.updated <= img.updated
  /\ \A q, r \in ToSet(img.runs) :
       /\ q # r => ToSet(q.outputs) \cap ToSet(r.outputs) = {}
       /\ q.session = r.session /\ ~IsTerminal(q) /\ ~IsTerminal(r) => q = r

LedgerValid(img) ==
  /\ DistinctIds(img.ledger)
  /\ \A e \in ToSet(img.ledger) : e.received <= e.recorded /\ e.recorded <= img.updated

OutboxValid(img) ==
  /\ DistinctIds(img.outbox)
  /\ \A d \in ToSet(img.outbox) :
       DeliveryWellFormed(d) /\ Has(img.sessions, d.session) /\ d.updated <= img.updated

OutputsValid(img) ==
  \A run \in ToSet(img.runs) : \A id \in ToSet(run.outputs) :
    \E d \in Find(img.outbox, id) :
      d.session = run.session /\ d.author = "agent" /\ run.finished = {d.created}

Position(img, id) == CHOOSE i \in DOMAIN img.ledger : img.ledger[i].id = id

(* A queued or claimed message has an entry in the ledger, made when it    *)
(* was received and not after it was queued.                               *)
MatchesLedger(img, m) ==
  \E e \in Find(img.ledger, m.id) : m.received = e.received /\ m.enqueued >= e.recorded

QueueValid(img) ==
  /\ DistinctIds(img.queue)
  /\ \A m \in ToSet(img.queue) :
       /\ MessageWellFormed(m)
       /\ MatchesLedger(img, m)
       /\ Has(img.sessions, m.session)
       /\ m.enqueued <= img.updated
  /\ Increasing([i \in DOMAIN img.queue |-> Position(img, img.queue[i].id)])

(* A message is claimed by one run, and then it waits no longer.           *)
ClaimedOnce(img) ==
  /\ \A m \in Claimed(img) : ~Has(img.queue, m.id)
  /\ \A x, y \in ToSet(img.inputs) :
       x # y => {m.id : m \in ToSet(x.messages)} \cap {m.id : m \in ToSet(y.messages)} = {}

InputsValid(img) ==
  /\ DistinctIds(img.inputs)
  /\ \A input \in ToSet(img.inputs) :
       /\ InputWellFormed(input)
       /\ \E run \in Find(img.runs, input.id) :
            run.session = input.session /\ run.created = input.claimed
       /\ \A m \in ToSet(input.messages) : MatchesLedger(img, m)
       /\ input.claimed <= img.updated
  /\ ClaimedOnce(img)

(* The messages of a session that were claimed, then those that wait: each *)
(* once, in ledger order, and with times that do not go back.              *)
OwnershipOf(img, s) ==
  MessagesOf(FlattenSeq([i \in DOMAIN img.inputs |-> img.inputs[i].messages]) \o img.queue, s)

OwnershipValid(img) ==
  \A s \in SessionsIn(img.queue) \cup {img.inputs[i].session : i \in DOMAIN img.inputs} :
    LET owned == OwnershipOf(img, s)
    IN /\ NonDecreasing([i \in DOMAIN owned |-> owned[i].enqueued])
       /\ Increasing([i \in DOMAIN owned |-> Position(img, owned[i].id)])

Valid(img) ==
  /\ SessionsValid(img)
  /\ RunsValid(img)
  /\ LedgerValid(img)
  /\ OutboxValid(img)
  /\ OutputsValid(img)
  /\ QueueValid(img)
  /\ InputsValid(img)
  /\ OwnershipValid(img)

-----------------------------------------------------------------------------
(* StateStore::save: a snapshot merged into what the file holds.  No file  *)
(* is an empty image: the checks and the merge come to the same.           *)

(* Wrong: a run may go on in a snapshot, whoever it belongs to.            *)
MayIntroduceRuns(existing, snapshot) ==
  /\ \A d \in ToSet(snapshot.outbox) : Has(existing.outbox, d.id) \/ d.status = "pending"
  /\ \A input \in ToSet(snapshot.inputs) : Has(existing.inputs, input.id)

(* The four validate_snapshot_... checks: a snapshot brings no delivery    *)
(* that is not pending, no run input, no start or completion of a run that *)
(* has an input, and no outputs of a run the file does not have.           *)
MayIntroduce(existing, snapshot) ==
  /\ \A d \in ToSet(snapshot.outbox) : Has(existing.outbox, d.id) \/ d.status = "pending"
  /\ \A input \in ToSet(snapshot.inputs) : Has(existing.inputs, input.id)
  /\ \A run \in ToSet(snapshot.runs) :
       /\ \/ ~Has(existing.inputs, run.id)
          \/ run.status \notin {"running", "completed"}
          \/ \E old \in Find(existing.runs, run.id) : run = old \/ IsDescendant(old, run)
       /\ \/ run.outputs = <<>>
          \/ \E old \in Find(existing.runs, run.id) : old.outputs = run.outputs

(* validate_shared_inbound_event_identity                                  *)
SameEvents(existing, snapshot) ==
  \A e \in ToSet(snapshot.ledger) :
    Has(existing.ledger, e.id) =>
      /\ Find(existing.ledger, e.id) = {e}
      /\ {[m EXCEPT !.enqueued = 0] : m \in MessageOf(existing, e.id)}
           = {[m EXCEPT !.enqueued = 0] : m \in MessageOf(snapshot, e.id)}

Agree(existing, records) ==
  \A x \in ToSet(records) : Has(existing, x.id) => Find(existing, x.id) = {x}

(* The records of the file, then the new ones of the snapshot.             *)
Union(existing, records) ==
  existing \o Select(records, {x \in ToSet(records) : ~Has(existing, x.id)})

(* preserve_runs_from: of two versions of a run the later one.             *)
RunsAgree(existing, runs) ==
  \A run \in ToSet(runs) : \A old \in Find(existing, run.id) :
    run = old \/ IsDescendant(run, old) \/ IsDescendant(old, run)

(* Wrong: a run the snapshot knows too is the snapshot's.                  *)
MergedRunsLastWins(existing, runs) ==
  Union([i \in DOMAIN existing |->
           IF Has(runs, existing[i].id)
           THEN CHOOSE run \in Find(runs, existing[i].id) : TRUE
           ELSE existing[i]],
        runs)

MergedRuns(existing, runs) ==
  Union([i \in DOMAIN existing |->
           LET newer == {run \in Find(runs, existing[i].id) : IsDescendant(run, existing[i])}
           IN IF newer = {} THEN existing[i] ELSE CHOOSE run \in newer : TRUE],
        runs)

(* Wrong: the new messages keep the times the snapshot gave them.          *)
AppendAsQueued(inputs, queue, new) == queue \o new

(* The new messages after the queue, none with a time before the last one  *)
(* of its session.                                                         *)
AppendRebased(inputs, queue, new) ==
  LET claimed == FlattenSeq([i \in DOMAIN inputs |-> inputs[i].messages])
      before(q, m) == MessagesOf(claimed \o q, m.session)
      rebased(q, m) ==
        IF before(q, m) = <<>> THEN m
        ELSE [m EXCEPT !.enqueued = Larger(@, Last(before(q, m)).enqueued)]
      upTo[i \in 0..Len(new)] ==
        IF i = 0 THEN queue ELSE Append(upTo[i - 1], rebased(upTo[i - 1], new[i]))
  IN upTo[Len(new)]

(* Wrong: the snapshot's queue is taken over whatever was claimed since.   *)
MergedQueueUnclaimed(inputs, existing, queue) ==
  AppendRebased(inputs, existing, Select(queue, {m \in ToSet(queue) : ~Has(existing, m.id)}))

(* preserve_queued_messages_from: what is claimed does not come back.      *)
MergedQueue(inputs, existing, queue) ==
  LET claimed == UNION {ToSet(inputs[i].messages) : i \in DOMAIN inputs}
      isClaimed(m) == \E c \in claimed : c.id = m.id
  IN AppendRebased(inputs,
                   Select(existing, {m \in ToSet(existing) : ~isClaimed(m)}),
                   Select(queue, {m \in ToSet(queue) : ~isClaimed(m) /\ ~Has(existing, m.id)}))

(* preserve_outbound_deliveries_from                                       *)
MergedOutbox(existing, outbox) == Union(existing, outbox)

LatestRecord(img) ==
  Max({img.updated}
      \cup {run.updated : run \in ToSet(img.runs)}
      \cup {input.claimed : input \in ToSet(img.inputs)}
      \cup {e.recorded : e \in ToSet(img.ledger)}
      \cup {m.enqueued : m \in ToSet(img.queue)}
      \cup {d.updated : d \in ToSet(img.outbox)})

Mergeable(existing, snapshot) ==
  /\ MayIntroduce(existing, snapshot)
  /\ SameEvents(existing, snapshot)
  /\ RunsAgree(existing.runs, snapshot.runs)
  /\ Agree(existing.inputs, snapshot.inputs)
  /\ Agree(existing.outbox, snapshot.outbox)

(* The sessions are the snapshot's.                                        *)
Merged(existing, snapshot) ==
  LET inputs == Union(existing.inputs, snapshot.inputs)
      merged == [snapshot EXCEPT
                   !.runs = MergedRuns(existing.runs, @),
                   !.inputs = inputs,
                   !.ledger = Union(existing.ledger, @),
                   !.queue = MergedQueue(inputs, existing.queue, @),
                   !.outbox = MergedOutbox(existing.outbox, @)]
  IN [merged EXCEPT !.updated = LatestRecord(merged)]

(* save_unlocked, up to the write.                                         *)
Save(existing, snapshot) ==
  IF Mergeable(existing, snapshot)
  THEN Accept(Valid(Merged(existing, snapshot)), Merged(existing, snapshot))
  ELSE {}
=============================================================================
