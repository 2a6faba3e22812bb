------------------------------- MODULE MessageQueue -------------------------------
(***************************************************************************)
(* Debounce, batching and exclusion in time: messages arrive through        *)
(* StateStore::persist_inbound_event, an embedder claims batches with       *)
(* StateStore::claim_message_batch, sleeps as long as a Waiting answer      *)
(* tells it to, and ends the runs.  The clock may be set back.  Writes do  *)
(* not fail here (MessageHandoff has the failing ones), and the process    *)
(* holds one lock during an operation, so that each is one step.           *)
(***************************************************************************)
EXTENDS StateImage

CONSTANTS
  Event,            \* the events that may arrive, in any order and repeatedly
  SessionId,        \* the sessions known from the start
  Backlog,          \* messages queued at time 0, in order
  ClockMax,         \* bound: the clock stops here
  MaxRollbacks      \* bound: times the clock is set back

ASSUME QueueAssumption ==
  /\ SessionId \subseteq Nat \ {None} /\ IsFiniteSet(SessionId)
  /\ \A e \in Event : e.kind \in EventKinds /\ e.received \in Nat
  /\ Backlog \in Seq({e \in Event : e.kind = "message" /\ e.session \in SessionId})
  /\ DistinctIds(Backlog)
  /\ ClockMax \in Nat /\ ClockMax <= MaxTime
  /\ MaxRollbacks \in Nat

VARIABLES
  now,              \* unix_seconds_now()
  rollbacks,        \* how often the clock was set back
  file,             \* the image in the state file
  wait              \* the embedder's last answer, while it sleeps on it

vars == <<now, rollbacks, file, wait>>

Awake == [asleep |-> FALSE, next |-> {}]

WithSessions ==
  [EmptyImage(0) EXCEPT !.sessions = SetToSeq({NewSession(s, 0) : s \in SessionId})]

WithBacklog ==
  LET after[i \in 0..Len(Backlog)] ==
        IF i = 0 THEN WithSessions
        ELSE CHOOSE new \in RecordEvent(after[i - 1], Backlog[i], 0) : TRUE
  IN after[Len(Backlog)]

Init ==
  /\ now = 0
  /\ rollbacks = 0
  /\ file = WithBacklog
  /\ wait = Awake

-----------------------------------------------------------------------------
(* StateStore::persist_inbound_event.  The embedder is told of a message   *)
(* for a session that no run owns.                                         *)
Arrive(e) ==
  /\ file' \in RecordEvent(file, e, now)
  /\ wait' = IF file' # file /\ e.session \in FreeSessions(file') THEN Awake ELSE wait
  /\ UNCHANGED <<now, rollbacks>>

(* An embedder that does not sleep, or whose time has come, asks.          *)
Asking == ~wait.asleep \/ \E t \in wait.next : now >= t

(* StateStore::claim_message_batch: a batch, under a fresh run id.         *)
Claim ==
  /\ Asking
  /\ file' \in ClaimBatch(file, Len(file.runs) + 1, now)
  /\ wait' = Awake
  /\ UNCHANGED <<now, rollbacks>>

(* ... or when to ask again.                                               *)
Wait ==
  /\ Asking
  /\ ReadyBatch(file.queue, now, FreeSessions(file)) = {}
  /\ wait' = [asleep |-> TRUE, next |-> NextReadyAt(file.queue, FreeSessions(file))]
  /\ UNCHANGED <<now, rollbacks, file>>

(* RuntimeState::cancel_run: a run ends, its session is free, and the      *)
(* embedder knows.                                                         *)
EndRun(id) ==
  /\ file' \in OnRun(file, id, LAMBDA run : End(run, "cancelled", now), now, now)
  /\ wait' = Awake
  /\ UNCHANGED <<now, rollbacks>>

Tick ==
  /\ now < ClockMax
  /\ now' = now + 1
  /\ UNCHANGED <<rollbacks, file, wait>>

(* The system clock is set back.                                           *)
SetBack ==
  /\ rollbacks < MaxRollbacks
  /\ now > 0
  /\ now' \in 0..(now - 1)
  /\ rollbacks' = rollbacks + 1
  /\ UNCHANGED <<file, wait>>

RunIds == 1..Cardinality({e.id : e \in Event})

Next ==
  \/ \E e \in Event : Arrive(e)
  \/ Claim
  \/ Wait
  \/ \E id \in RunIds : EndRun(id)
  \/ Tick
  \/ SetBack

(* Time passes, the embedder asks when it is awake, and it ends its runs.  *)
Fairness ==
  /\ WF_vars(Tick)
  /\ WF_vars(Claim)
  /\ WF_vars(Wait)
  /\ \A id \in RunIds : WF_vars(EndRun(id))

Spec == Init /\ [][Next]_vars /\ Fairness

-----------------------------------------------------------------------------
(* Every image the operations produce passes RuntimeState::validate, which *)
(* write_unlocked consults: no arrival or claim is turned into an error,   *)
(* whatever times the messages carry and whatever the clock does.          *)
FileStaysValid == Valid(file)

(* A Waiting answer is exact for as long as the embedder is not woken: a   *)
(* batch is ready when the time it was given has come, and not before.     *)
WaitIsExact ==
  wait.asleep =>
    (\E t \in wait.next : now >= t)
      <=> ReadyBatch(file.queue, now, FreeSessions(file)) # {}

(* What a message waits for is its own session: its enqueue time is that   *)
(* of the latest arrival of its session up to it, and a message dated in   *)
(* the future holds up those behind it but no other session.               *)
OnlyItsSessionDelays ==
  \A s \in SessionId :
    LET owned == OwnershipOf(file, s)
        recorded(m) == CHOOSE t \in {e.recorded : e \in Find(file.ledger, m.id)} : TRUE
    IN \A i \in DOMAIN owned :
         owned[i].enqueued = Max({recorded(owned[j]) : j \in 1..i})

(* A batch that is full is final: it is ready at once, and the messages    *)
(* that keep coming neither join it nor put it off.                        *)
FullBatchIsFinal ==
  [][\A s \in SessionId :
       LET before == MessagesOf(file.queue, s)
           after == MessagesOf(file'.queue, s)
       IN Len(before) >= MaxBatch /\ after # <<>> /\ after[1] = before[1] =>
            /\ Prefix(after, MaxBatch) = Prefix(before, MaxBatch)
            /\ ReadyAt(after) = ReadyAt(before)
            /\ ReadyAt(after) = before[MaxBatch].enqueued]_file

(* The untimed model takes the session of an event as a function of its id: *)
(* an id comes again with another content, never for another session, and  *)
(* a notice is for none.                                                   *)
ASSUME UntimedAssumption ==
  /\ IsFiniteSet({e.id : e \in Event})
  /\ \A e, f \in Event : e.id = f.id => e.session = f.session
  /\ \A e \in Event : e.kind = "notice" => e.session = None

(* The image without its times.                                            *)
Bare(img) ==
  [ledger |-> [i \in DOMAIN img.ledger |-> img.ledger[i].id],
   queue  |-> {m.id : m \in ToSet(img.queue)},
   status |-> [r \in RunIds |-> IF Has(img.runs, r)
                               THEN CHOOSE x \in {run.status : run \in Find(img.runs, r)} : TRUE
                               ELSE "absent"],
   scope  |-> [r \in RunIds |-> IF Has(img.runs, r)
                               THEN CHOOSE x \in {run.session : run \in Find(img.runs, r)} : TRUE
                               ELSE None],
   input  |-> [r \in RunIds |-> {m.id : m \in UNION {ToSet(x.messages) : x \in Find(img.inputs, r)}}]]

Untimed ==
  INSTANCE RuntimeState
    WITH Event <- {e.id : e \in Event},
         Session <- SessionId,
         NoSession <- None,
         SessionOf <- [id \in {e.id : e \in Event} |->
                         (CHOOSE e \in Event : e.id = id).session],
         RunId <- RunIds

(* The untimed image MessageHandoff works on is an abstraction of this one: *)
(* every step of the file is one of its transitions, and a claim takes the *)
(* batch it allows, from a session no unfinished run owns.                 *)
StepsAreUntimedSteps ==
  [][LET old == Bare(file)
         new == Bare(file')
     IN \/ new = old
        \/ \E id \in {e.id : e \in Event} :
             id \notin Untimed!Recorded(old) /\ new = Untimed!RecordEvent(old, id)
        \/ \E r \in RunIds, s \in SessionId :
             /\ ~Untimed!Owned(old, s)
             /\ Untimed!IsBatch(old, s, new.input[r])
             /\ new = Untimed!ClaimBatch(old, r, s, new.input[r])
        \/ \E r \in RunIds :
             /\ Untimed!IsDescendant(old.status[r], new.status[r])
             /\ new = Untimed!SetStatus(old, r, new.status[r])]_file

(* A message that was accepted is claimed, however the others arrive.      *)
EveryMessageIsClaimed ==
  \A id \in {e.id : e \in Event} :
    Has(file.queue, id) ~> (\E m \in Claimed(file) : m.id = id)
=============================================================================
