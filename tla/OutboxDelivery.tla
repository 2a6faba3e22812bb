----------------------------- MODULE OutboxDelivery -----------------------------
(***************************************************************************)
(* The outbox (runtime/outbox.rs, outbox/*.rs, state/store/outbound*.rs):   *)
(* deliveries are enqueued in the state file, workers claim the first due  *)
(* one, hand it to the platform adapter and record what became of it; a    *)
(* restart declares the attempts it finds open uncertain, and an operator  *)
(* who has asked the platform resolves those.  Around it: writes that      *)
(* fail before or after the replacement, crashes, power losses, a clock    *)
(* that may be set back, and a platform that may accept a request whose    *)
(* adapter call never returned.                                            *)
(*                                                                         *)
(* Delivery d is the d-th record of outbound_deliveries, the order in      *)
(* which claims scan.  Each store operation is one step (one write lock).  *)
(***************************************************************************)
EXTENDS Naturals, FiniteSets

CONSTANTS
  Worker,           \* threads that call OutboxWorker::process_next
  N,                \* bound: deliveries ever enqueued
  MaxAttempts,      \* OutboundRetryPolicy::max_attempts
  InitialDelay,     \* OutboundRetryPolicy::initial_retry_delay_secs
  MaxDelay,         \* OutboundRetryPolicy::max_retry_delay_secs
  MaxTime,          \* the largest time there is: u64::MAX
  ClockMax,         \* bound: how far the clock, and times read off it, go
  MaxRollbacks,     \* bound: times the clock is set back
  MaxFaults,        \* bound: store operations that fail
  MaxCrashes        \* bound: process crashes and power losses

(* OutboundRetryPolicy::new accepts no other.                              *)
IsRetryPolicy(attempts, initial, max) ==
  /\ attempts \in Nat \ {0}
  /\ initial \in Nat \ {0}
  /\ max \in Nat
  /\ initial <= max

ASSUME OutboxAssumption ==
  /\ N \in Nat
  /\ IsRetryPolicy(MaxAttempts, InitialDelay, MaxDelay)
  /\ MaxTime \in Nat
  /\ ClockMax \in Nat /\ ClockMax <= MaxTime
  /\ MaxRollbacks \in Nat
  /\ MaxFaults \in Nat
  /\ MaxCrashes \in Nat

Delivery == 1..N
Time == 0..ClockMax
Status == {"absent", "pending", "delivering", "delivered", "failed", "uncertain"}

None == "none"

(* last_error is told apart by who wrote it: the bridge or an operator.    *)
DeliveryRecord ==
  [status : Status, attempts : 0..MaxAttempts, updated : Time,
   error : {None, "bridge", "operator"}]

OutboxImage == [Delivery -> DeliveryRecord]

NoRecord == [status |-> "absent", attempts |-> 0, updated |-> 0, error |-> None]
Idle == [phase |-> "idle", delivery |-> 0, started |-> 0]
NoCommand == [status |-> None, at |-> 0]

VARIABLES
  file, disk,       \* the state file, see DurableFile.tla
  mode,             \* "recovering" until startup reconciliation returned Ok
  worker,           \* per worker: where process_next is, its delivery and
                    \* its started_at_unix
  request,          \* per delivery, what the platform did with the request of
                    \* its latest attempt: open while it may still accept it
  command,          \* per delivery, the resolution an operator calls with
  now,              \* the system clock
  rollbacks, faults, crashes,
  (* history, read by no action *)
  calls,            \* per delivery, the adapter calls made for it
  accepted,         \* per delivery, the requests the platform accepted
  told              \* per delivery, the last news of it an Ok has brought

storeVars == <<file, disk>>
outsideVars == <<request, now, rollbacks>>
history == <<calls, accepted, told>>
bounds == <<faults, crashes>>
vars == <<storeVars, mode, worker, command, outsideVars, bounds, history>>

Store == INSTANCE DurableFile WITH Image <- OutboxImage

Init ==
  /\ file = [d \in Delivery |-> NoRecord]
  /\ disk = file
  /\ mode = "recovering"
  /\ worker = [w \in Worker |-> Idle]
  /\ request = [d \in Delivery |-> None]
  /\ command = [d \in Delivery |-> NoCommand]
  /\ now = 0
  /\ rollbacks = 0
  /\ faults = 0
  /\ crashes = 0
  /\ calls = [d \in Delivery |-> 0]
  /\ accepted = [d \in Delivery |-> 0]
  /\ told = [d \in Delivery |-> None]

Fault == faults < MaxFaults /\ faults' = faults + 1 /\ UNCHANGED crashes

WriteFails(new) ==
  /\ Fault
  /\ Store!NotReplaced \/ Store!ReplacedUnsynced(new)

WriteSucceeds(new) == Store!Written(new) /\ UNCHANGED bounds

(* Wrong: a failure erases the attempt history.                            *)
MarkedFresh(d, status, at, by) ==
  [file EXCEPT ![d].status = status,
               ![d].updated = at,
               ![d].attempts = IF status = "failed" THEN 0 ELSE @,
               ![d].error = by]

(* mark_delivered, mark_failed, mark_uncertain and the resolutions.        *)
Marked(d, status, at, by) ==
  [file EXCEPT ![d].status = status,
               ![d].updated = at,
               ![d].error = IF status = "delivered" THEN None ELSE by]

Reported(d, status) ==
  IF status = "delivered" THEN [told EXCEPT ![d] = "delivered"] ELSE told

-----------------------------------------------------------------------------
(* OutboundRetryPolicy.                                                    *)
SmallerOf(a, b) == IF a <= b THEN a ELSE b
LargerOf(a, b) == IF a >= b THEN a ELSE b

(* Wrong: the first retry is due at once.                                  *)
RetryDelayFromZero(attempts) ==
  SmallerOf(InitialDelay * 2 ^ (attempts - 1) - InitialDelay, MaxDelay)

RetryDelay(attempts) == SmallerOf(InitialDelay * 2 ^ (attempts - 1), MaxDelay)

NextAttemptAt(rec) ==
  IF rec.status = "pending"
  THEN rec.updated
  ELSE SmallerOf(rec.updated + RetryDelay(rec.attempts), MaxTime)

(* Wrong: no bound on the attempts, or no retry at all.                    *)
ClaimableForever(rec) == rec.status \in {"pending", "failed"}

ClaimableOnce(rec) == rec.status = "pending"

Claimable(rec) ==
  \/ rec.status = "pending"
  \/ rec.status = "failed" /\ rec.attempts < MaxAttempts

IsDue(rec, at) == Claimable(rec) /\ NextAttemptAt(rec) <= at

-----------------------------------------------------------------------------
Queued(d, at) ==
  [file EXCEPT ![d] = [status |-> "pending",
                       attempts |-> 0,
                       updated |-> at,
                       error |-> None]]

(* enqueue_outbound_delivery of a record created at any time, as often as  *)
(* the caller likes.  A duplicate of a record still as it was enqueued     *)
(* returns without a write; of one that has moved on it is an error.       *)
Enqueue(d) ==
  /\ mode = "up"
  /\ \/ /\ file[d].status = "absent"
        /\ \A c \in 1..(d - 1) : file[c].status # "absent"
        /\ \E at \in Time :
             \/ /\ WriteSucceeds(Queued(d, at))
                /\ told' = [told EXCEPT ![d] = "queued"]
             \/ WriteFails(Queued(d, at)) /\ UNCHANGED told
     \/ /\ file[d].status = "pending"
        /\ told' = [told EXCEPT ![d] = IF @ = None THEN "duplicate" ELSE @]
        /\ UNCHANGED <<storeVars, bounds>>
  /\ UNCHANGED <<mode, worker, command, outsideVars, calls, accepted>>

(* process_next reads the clock before it takes the write lock.            *)
ReadClock(w) ==
  /\ mode = "up"
  /\ worker[w].phase = "idle"
  /\ worker' = [worker EXCEPT ![w].phase = "polling", ![w].started = now]
  /\ UNCHANGED <<storeVars, mode, command, outsideVars, bounds, history>>

(* claim_next_outbound_delivery_attempt: the first due delivery, or none.  *)
FirstDue(d, at) ==
  /\ IsDue(file[d], at)
  /\ \A c \in 1..(d - 1) : ~IsDue(file[c], at)

Claimed(d, at) ==
  [file EXCEPT ![d] = [status |-> "delivering",
                       attempts |-> file[d].attempts + 1,
                       updated |-> at,
                       error |-> None]]

Sending(d, at) == [phase |-> "calling", delivery |-> d, started |-> at]

ClaimNextDelivery(w) ==
  LET at == worker[w].started
  IN /\ worker[w].phase = "polling"
     /\ \/ /\ \A d \in Delivery : ~IsDue(file[d], at)
           /\ worker' = [worker EXCEPT ![w] = Idle]
           /\ UNCHANGED <<storeVars, request, calls, bounds>>
        \/ \E d \in Delivery :
             /\ FirstDue(d, at)
             /\ \/ /\ WriteSucceeds(Claimed(d, at))
                   /\ worker' = [worker EXCEPT ![w] = Sending(d, at)]
                   /\ request' = [request EXCEPT ![d] = "open"]
                   /\ calls' = [calls EXCEPT ![d] = @ + 1]
                \/ /\ WriteFails(Claimed(d, at))
                   /\ worker' = [worker EXCEPT ![w] = Idle]
                   /\ UNCHANGED <<request, calls>>
     /\ UNCHANGED <<mode, command, now, rollbacks, accepted, told>>

(* The platform decides on an open request, whether or not the adapter     *)
(* call that sent it, or its process, is still there.                      *)
PlatformDecides(d) ==
  /\ request[d] = "open"
  /\ \/ /\ request' = [request EXCEPT ![d] = "accepted"]
        /\ accepted' = [accepted EXCEPT ![d] = @ + 1]
     \/ request' = [request EXCEPT ![d] = "refused"] /\ UNCHANGED accepted
  /\ UNCHANGED <<storeVars, mode, worker, command, now, rollbacks, bounds, calls,
                 told>>

(* ImAdapter::deliver_outbound_message returns.  Ok asserts acceptance, a  *)
(* retryable failure that there is none, an uncertain one nothing.         *)
AdapterReturns(w) ==
  LET d == worker[w].delivery
  IN /\ worker[w].phase = "calling"
     /\ \/ request[d] = "accepted" /\ worker' = [worker EXCEPT ![w].phase = "delivered"]
        \/ request[d] = "refused" /\ worker' = [worker EXCEPT ![w].phase = "failed"]
        \/ worker' = [worker EXCEPT ![w].phase = "uncertain"]
     /\ UNCHANGED <<storeVars, mode, command, outsideVars, bounds, history>>

(* Wrong: the outcome is marked with the clock as it is.                   *)
MarkAllowedNow(w) ==
  LET d == worker[w].delivery
  IN file[d].status = "delivering" /\ file[d].updated <= now

(* mark_outbound_delivery_delivered, _failed or _uncertain, and the return *)
(* of process_next.  A mark that mark_delivered or mark_unsuccessful would *)
(* refuse is left disabled here; OutcomeIsRecordable says there is none.   *)
MarkAllowed(w) ==
  LET d == worker[w].delivery
  IN /\ file[d].status = "delivering"
     /\ file[d].updated <= LargerOf(now, worker[w].started)

RecordOutcome(w) ==
  LET d == worker[w].delivery
      outcome == worker[w].phase
      marked == Marked(d, outcome, LargerOf(now, worker[w].started), "bridge")
  IN /\ outcome \in {"delivered", "failed", "uncertain"}
     /\ MarkAllowed(w)
     /\ worker' = [worker EXCEPT ![w] = Idle]
     /\ \/ /\ WriteSucceeds(marked)
           /\ told' = Reported(d, outcome)
        \/ WriteFails(marked) /\ UNCHANGED told
     /\ UNCHANGED <<mode, command, outsideVars, calls, accepted>>

-----------------------------------------------------------------------------
(* An operator asks the platform about an uncertain delivery and, once it  *)
(* has an answer, calls resolve_outbound_delivery_as_delivered or          *)
(* _as_failed; after an error it repeats the call unchanged.               *)
InspectUncertain(d) ==
  /\ mode = "up"
  /\ command[d] = NoCommand
  /\ file[d].status = "uncertain"
  /\ file[d].updated <= now
  /\ \/ /\ request[d] = "accepted"
        /\ command' = [command EXCEPT ![d] = [status |-> "delivered", at |-> now]]
     \/ /\ request[d] = "refused"
        /\ command' = [command EXCEPT ![d] = [status |-> "failed", at |-> now]]
  /\ UNCHANGED <<storeVars, mode, worker, outsideVars, bounds, history>>

(* Wrong: a replayed resolution is confirmed without a sync.               *)
ResolveWithoutSync(d) ==
  LET to == command[d].status
      resolved == Marked(d, to, command[d].at, "operator")
  IN /\ mode = "up"
     /\ command[d] # NoCommand
     /\ \/ /\ file[d].status = "uncertain"
           /\ WriteFails(resolved)
           /\ UNCHANGED <<command, told>>
        \/ /\ file[d] = resolved[d]
           /\ command' = [command EXCEPT ![d] = NoCommand]
           /\ told' = Reported(d, to)
           /\ UNCHANGED <<storeVars, bounds>>
     /\ UNCHANGED <<mode, worker, outsideVars, calls, accepted>>

Resolve(d) ==
  LET to == command[d].status
      at == command[d].at
      resolved == Marked(d, to, at, "operator")
      Fresh == file[d].status = "uncertain" /\ file[d].updated <= at
      Replay == file[d].status = to /\ file[d] = resolved[d]
  IN /\ mode = "up"
     /\ command[d] # NoCommand
     /\ \/ /\ \/ Fresh /\ WriteSucceeds(resolved)
              \/ Replay /\ Store!Synced /\ UNCHANGED bounds
           /\ command' = [command EXCEPT ![d] = NoCommand]
           /\ told' = Reported(d, to)
        \/ /\ \/ Fresh /\ WriteFails(resolved)
              \/ Replay /\ Store!NotReplaced /\ Fault
           /\ UNCHANGED <<command, told>>
        \/ /\ ~Fresh /\ ~Replay
           /\ command' = [command EXCEPT ![d] = NoCommand]
           /\ UNCHANGED <<storeVars, bounds, told>>
     /\ UNCHANGED <<mode, worker, outsideVars, calls, accepted>>

(* Wrong: open attempts are retried, or stamped with a clock set back.     *)
ReconciledByRetry ==
  [d \in Delivery |->
     IF file[d].status = "delivering"
     THEN Marked(d, "failed", LargerOf(now, file[d].updated), "bridge")[d]
     ELSE file[d]]

ReconciledNow ==
  [d \in Delivery |->
     IF file[d].status = "delivering"
     THEN Marked(d, "uncertain", now, "bridge")[d]
     ELSE file[d]]

(* reconcile_outbound_deliveries_at_startup.                               *)
Reconciled ==
  [d \in Delivery |->
     IF file[d].status = "delivering"
     THEN Marked(d, "uncertain", LargerOf(now, file[d].updated), "bridge")[d]
     ELSE file[d]]

ReconcileAtStartup ==
  /\ mode = "recovering"
  /\ \/ /\ Reconciled # file
        /\ \/ WriteSucceeds(Reconciled) /\ mode' = "up"
           \/ WriteFails(Reconciled) /\ UNCHANGED mode
     \/ /\ Reconciled = file
        /\ \/ Store!Synced /\ UNCHANGED bounds /\ mode' = "up"
           \/ Store!NotReplaced /\ Fault /\ UNCHANGED mode
  /\ UNCHANGED <<worker, command, outsideVars, history>>

-----------------------------------------------------------------------------
Tick ==
  /\ now < ClockMax
  /\ now' = now + 1
  /\ UNCHANGED <<storeVars, mode, worker, command, request, rollbacks, bounds,
                 history>>

SetClockBack ==
  /\ rollbacks < MaxRollbacks
  /\ rollbacks' = rollbacks + 1
  /\ now' \in 0..(now - 1)
  /\ UNCHANGED <<storeVars, mode, worker, command, request, bounds, history>>

Writeback ==
  /\ Store!Writeback
  /\ UNCHANGED <<mode, worker, command, outsideVars, bounds, history>>

ProcessGone ==
  /\ crashes < MaxCrashes
  /\ crashes' = crashes + 1
  /\ mode' = "recovering"
  /\ worker' = [w \in Worker |-> Idle]
  /\ UNCHANGED <<command, outsideVars, faults, history>>

Crash == ProcessGone /\ UNCHANGED storeVars

PowerLoss == ProcessGone /\ Store!PowerLoss

WorkerStep(w) ==
  \/ ReadClock(w)
  \/ ClaimNextDelivery(w)
  \/ AdapterReturns(w)
  \/ RecordOutcome(w)

DeliveryStep(d) ==
  \/ Enqueue(d)
  \/ PlatformDecides(d)
  \/ InspectUncertain(d)
  \/ Resolve(d)

Next ==
  \/ \E w \in Worker : WorkerStep(w)
  \/ \E d \in Delivery : DeliveryStep(d)
  \/ ReconcileAtStartup
  \/ Tick
  \/ SetClockBack
  \/ Writeback
  \/ Crash
  \/ PowerLoss

Spec == Init /\ [][Next]_vars

(* The embedder's loop keeps calling process_next, adapter calls return,   *)
(* startup reconciliation is retried, and time passes.                     *)
FairSpec ==
  /\ Spec
  /\ \A w \in Worker : WF_vars(WorkerStep(w))
  /\ WF_vars(ReconcileAtStartup)
  /\ WF_vars(Tick)

-----------------------------------------------------------------------------
TypeOK ==
  /\ file \in OutboxImage
  /\ disk \in OutboxImage
  /\ mode \in {"recovering", "up"}
  /\ worker \in [Worker -> [phase : {"idle", "polling", "calling", "delivered",
                                     "failed", "uncertain"},
                            delivery : Delivery \cup {0},
                            started : Time]]
  /\ request \in [Delivery -> {None, "open", "accepted", "refused"}]
  /\ command \in [Delivery -> [status : {None, "delivered", "failed"}, at : Time]]
  /\ now \in Time
  /\ rollbacks \in Nat
  /\ faults \in Nat
  /\ crashes \in Nat
  /\ calls \in [Delivery -> Nat]
  /\ accepted \in [Delivery -> Nat]
  /\ told \in [Delivery -> {None, "queued", "duplicate", "delivered"}]

(* The platform accepts no delivery twice, although attempts are retried,  *)
(* outcomes are lost in crashes and requests outlive the calls that sent   *)
(* them: nothing that may have been accepted is ever sent again.           *)
AcceptedAtMostOnce == \A d \in Delivery : accepted[d] <= 1

(* Neither the visible nor the durable image offers a delivery for another *)
(* attempt while an earlier request may still be, or has been, accepted;   *)
(* a record that says delivered is right.                                  *)
StatusIsTruthful ==
  \A d \in Delivery, img \in {file, disk} :
    /\ request[d] \in {"open", "accepted"} =>
         img[d].status \in {"delivering", "uncertain", "delivered"}
    /\ img[d].status = "delivered" => accepted[d] = 1

(* No restart resets the attempts: the durable count covers every adapter  *)
(* call ever made, and the policy's maximum bounds them.                   *)
CallsAreCounted ==
  \A d \in Delivery : calls[d] <= disk[d].attempts /\ calls[d] <= file[d].attempts

(* A worker that comes back from the adapter finds its delivery as it left *)
(* it, delivering and not updated after the time it will mark it with,     *)
(* whatever other workers, operators and the clock did in the meantime.    *)
OutcomeIsRecordable ==
  \A w \in Worker :
    worker[w].phase \in {"calling", "delivered", "failed", "uncertain"} =>
      /\ MarkAllowed(w)
      /\ \A v \in Worker \ {w} : worker[v].delivery # worker[w].delivery

(* A delivery reported queued outlives a power loss, and one reported      *)
(* delivered stays delivered, also when the report was only a replay of a  *)
(* resolution whose write had returned an error.  It cannot be said of an  *)
(* enqueue that was answered Duplicate: its first write may be unsynced.   *)
ReportedIsDurable ==
  \A d \in Delivery :
    /\ told[d] = "queued" => disk[d].status # "absent"
    /\ told[d] = "delivered" => disk[d].status = "delivered"

(* updated_at never goes back while a delivery moves, clock or no clock:   *)
(* the backoff of a retry cannot be shortened by setting the clock back.   *)
(* A power loss may forget an update that was not durable.                 *)
UpdatesMoveForward ==
  [][\A d \in Delivery :
       disk[d].status # "absent" => disk'[d].updated >= disk[d].updated]_vars

(* Without faults and restarts every delivery is delivered, given up after *)
(* the last attempt, or handed to the operator as uncertain.               *)
Settled(rec) ==
  \/ rec.status \in {"delivered", "uncertain"}
  \/ rec.status = "failed" /\ rec.attempts = MaxAttempts

EveryDeliverySettles ==
  \A d \in Delivery : file[d].status = "pending" ~> Settled(file[d])

=============================================================================
