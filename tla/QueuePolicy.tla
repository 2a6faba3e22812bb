------------------------------- MODULE QueuePolicy -------------------------------
(***************************************************************************)
(* MessageQueuePolicy (runtime/queue.rs): which of the queued messages make *)
(* the next batch, and when.  A pure function of the queue, the time and   *)
(* the sessions the caller lets take part.  Session ids are numbers: the   *)
(* code breaks ties by the order of the ids.                               *)
(***************************************************************************)
EXTENDS Naturals, Sequences, FiniteSets, FiniteSetsExt

CONSTANTS
  Debounce,         \* MessageQueuePolicy::debounce_secs
  MaxBatch,         \* MessageQueuePolicy::max_batch_size
  MaxTime           \* the largest time: u64::MAX

ASSUME PolicyAssumption ==
  /\ Debounce \in Nat
  /\ MaxBatch \in Nat \ {0}
  /\ MaxTime \in Nat

Larger(a, b) == IF a >= b THEN a ELSE b

(* u64::saturating_add                                                     *)
SaturatingAdd(a, b) == IF a + b > MaxTime THEN MaxTime ELSE a + b

(* The messages of session s, in queue order.  (SelectSeq, written out: the *)
(* proofs need its definition.)                                            *)
MessagesOf(queue, s) ==
  LET upTo[i \in 0..Len(queue)] ==
        IF i = 0 THEN <<>>
        ELSE IF queue[i].session = s THEN Append(upTo[i - 1], queue[i])
        ELSE upTo[i - 1]
  IN upTo[Len(queue)]

SessionsIn(queue) == {queue[i].session : i \in DOMAIN queue}

(* Wrong: a ready session hands out all it has.                            *)
Uncapped(messages, n) == messages

Prefix(messages, n) == SubSeq(messages, 1, IF Len(messages) < n THEN Len(messages) ELSE n)

(* Wrong: every message restarts the wait, those of a full batch too.      *)
ReadyAtLast(messages) ==
  SaturatingAdd(messages[Len(messages)].enqueued, Debounce)

(* A full batch is ready when its last message came, a partial one when no *)
(* message has come for Debounce.                                          *)
ReadyAt(messages) ==
  IF Len(messages) >= MaxBatch
  THEN messages[MaxBatch].enqueued
  ELSE SaturatingAdd(messages[Len(messages)].enqueued, Debounce)

(* The sessions of `eligible` with a batch that is ready at time now.      *)
ReadySessions(queue, now, eligible) ==
  {s \in SessionsIn(queue) \cap eligible : ReadyAt(MessagesOf(queue, s)) <= now}

(* The session served first: the earliest ready, then the smallest id.     *)
FirstOf(queue, sessions) ==
  CHOOSE s \in sessions :
    \A t \in sessions \ {s} :
      LET at(x) == ReadyAt(MessagesOf(queue, x))
      IN at(s) < at(t) \/ (at(s) = at(t) /\ s < t)

(* MessageQueuePolicy::poll_where: the set of the one batch that is ready, *)
(* or {} while the caller must wait.                                       *)
ReadyBatch(queue, now, eligible) ==
  LET ready == ReadySessions(queue, now, eligible)
      s == FirstOf(queue, ready)
  IN IF ready = {} THEN {}
     ELSE {[session  |-> s,
            messages |-> Prefix(MessagesOf(queue, s), MaxBatch),
            ready    |-> ReadyAt(MessagesOf(queue, s))]}

(* Wrong: the caller is told the latest of the times, not the earliest.    *)
LastReadyAt(queue, eligible) ==
  LET times == {ReadyAt(MessagesOf(queue, s)) : s \in SessionsIn(queue) \cap eligible}
  IN IF times = {} THEN {} ELSE {Max(times)}

(* next_ready_at_unix of a poll that found no batch: the earliest time at  *)
(* which a session becomes ready, {} when no eligible message is queued.   *)
NextReadyAt(queue, eligible) ==
  LET times == {ReadyAt(MessagesOf(queue, s)) : s \in SessionsIn(queue) \cap eligible}
  IN IF times = {} THEN {} ELSE {Min(times)}
=============================================================================
