-------------------------- MODULE OutboxDeliveryProofs --------------------------
(***************************************************************************)
(* Proofs about OutboxDelivery, for any number of workers, deliveries,     *)
(* attempts, faults, crashes and clock changes.                            *)
(*                                                                         *)
(* The inductive invariant has one part per delivery and one per worker.   *)
(* A delivery's two records, in the visible and in the durable image, both *)
(* back what was done outside of the file: the calls made, what the        *)
(* platform may have accepted and what was reported.  The delicate part is *)
(* an operator's resolution, which may be applied long after it was asked  *)
(* for: see CommandStands.                                                 *)
(*                                                                         *)
(* The theorems are about clocks that never show the last second there is: *)
(* next_attempt_at saturates at that time, a retry would be due at once,   *)
(* and a resolution dated in that second could be applied to its outcome.  *)
(***************************************************************************)
EXTENDS OutboxDelivery, FiniteSetTheorems, TLAPS

ClockStaysBelow == ClockMax < MaxTime

Retryable == {"pending", "failed"}

(* What the record of delivery d in an image must show.                    *)
Backs(rec, d) ==
  /\ (rec.attempts = 0) = (rec.status \in {"absent", "pending"})
  /\ calls[d] <= rec.attempts
  /\ request[d] \in {"open", "accepted"} =>
       rec.status \in {"delivering", "uncertain", "delivered"}
  /\ rec.status = "delivered" => request[d] = "accepted"
  /\ told[d] = "queued" => rec.status # "absent"
  /\ told[d] = "delivered" => rec.status = "delivered"

(* The durable record is behind the visible one, and a delivery that is    *)
(* uncertain while the bridge is up did not get there from a retryable     *)
(* record that a power loss could bring back.                              *)
DiskIsBehind(d) ==
  /\ disk[d].status # "absent" =>
       file[d].status # "absent" /\ disk[d].updated <= file[d].updated
  /\ mode = "up" /\ file[d].status = "uncertain" =>
       disk[d].status \in {"delivering", "uncertain"}

(* An operator's command is right about the latest request, and if it says *)
(* failed, no attempt can start before the time the command is dated; or   *)
(* both records are dated later, and the command will be rejected.         *)
CommandStands(d) ==
  LET at == command[d].at
  IN /\ command[d].status = None => command[d] = NoCommand
     /\ command[d].status = "delivered" => request[d] = "accepted"
     /\ command[d].status = "failed" =>
          \/ /\ request[d] = "refused"
             /\ file[d].status \in Retryable => at <= file[d].updated
             /\ disk[d].status \in Retryable => at <= disk[d].updated
             /\ mode = "up" /\ file[d].status = "delivering" => at < file[d].updated
          \/ at < file[d].updated /\ at < disk[d].updated

DeliveryInv(d) ==
  /\ Backs(file[d], d)
  /\ Backs(disk[d], d)
  /\ DiskIsBehind(d)
  /\ CommandStands(d)
  /\ accepted[d] = IF request[d] = "accepted" THEN 1 ELSE 0
  /\ request[d] # None \/ command[d].status # None => calls[d] >= 1

Holds(w) == worker[w].phase \in {"calling", "delivered", "failed", "uncertain"}

(* A worker that has been given a delivery is the only one, and nothing    *)
(* else touches the record until it has recorded the outcome.              *)
WorkerInv(w) ==
  LET d == worker[w].delivery
  IN /\ ~Holds(w) => d = 0
     /\ mode = "recovering" => worker[w].phase = "idle"
     /\ Holds(w) =>
          /\ d \in Delivery
          /\ disk[d] = file[d]
          /\ file[d].status = "delivering"
          /\ file[d].updated = worker[w].started
          /\ worker[w].phase = "delivered" => request[d] = "accepted"
          /\ worker[w].phase = "failed" => request[d] = "refused"
          /\ \A v \in Worker \ {w} : worker[v].delivery # d

IInv ==
  /\ TypeOK
  /\ \A d \in Delivery : DeliveryInv(d)
  /\ \A w \in Worker : WorkerInv(w)

-----------------------------------------------------------------------------
(* The retry delay is at least a second.  A power of two is the number of  *)
(* subsets of an interval, hence not 0.                                    *)
LEMMA PowerIsPositive == \A n \in Nat : 2 ^ n \in Nat \ {0}
<1> SUFFICES ASSUME NEW n \in Nat PROVE 2 ^ n \in Nat \ {0}
  OBVIOUS
<1>1. IsFiniteSet(1..n) /\ Cardinality(1..n) = n
  BY FS_Interval
<1>2. IsFiniteSet(SUBSET (1..n)) /\ Cardinality(SUBSET (1..n)) = 2 ^ n
  BY <1>1, FS_SUBSET
<1>3. Cardinality(SUBSET (1..n)) \in Nat
  BY <1>2, FS_CardinalityType
<1>4. SUBSET (1..n) # {}
  OBVIOUS
<1>5. Cardinality(SUBSET (1..n)) # 0
  BY <1>2, <1>4, FS_EmptySet
<1> QED
  BY <1>2, <1>3, <1>5

LEMMA RetryDelayIsPositive ==
  ASSUME NEW n \in Nat \ {0}
  PROVE  RetryDelay(n) \in Nat \ {0}
<1>1. InitialDelay \in Nat \ {0} /\ MaxDelay \in Nat \ {0}
  BY OutboxAssumption DEF IsRetryPolicy
<1>2. 2 ^ (n - 1) \in Nat \ {0}
  BY PowerIsPositive
<1>3. \A a, b \in Nat \ {0} : a * b \in Nat \ {0}
  OBVIOUS
<1>4. InitialDelay * 2 ^ (n - 1) \in Nat \ {0}
  BY <1>1, <1>2, <1>3
<1> QED
  BY <1>1, <1>4 DEF RetryDelay, SmallerOf

(* A delivery that is due was last updated before or, on its first         *)
(* attempt, at the time it is claimed with.                                *)
LEMMA DueIsLater ==
  ASSUME ClockStaysBelow,
         NEW rec \in DeliveryRecord, NEW at \in Time, IsDue(rec, at),
         (rec.attempts = 0) = (rec.status \in {"absent", "pending"})
  PROVE  /\ rec.status \in Retryable
         /\ rec.attempts < MaxAttempts
         /\ rec.updated <= at
         /\ rec.status = "failed" => rec.updated < at
<1>1. /\ rec.updated \in Nat /\ rec.attempts \in Nat /\ at \in Nat
      /\ MaxTime \in Nat /\ rec.updated < MaxTime /\ MaxAttempts \in Nat \ {0}
  BY OutboxAssumption DEF ClockStaysBelow, DeliveryRecord, Time, IsRetryPolicy
<1>2. CASE rec.status = "pending"
  BY <1>1, <1>2 DEF IsDue, Claimable, NextAttemptAt, Retryable
<1>3. CASE rec.status = "failed" /\ rec.attempts < MaxAttempts
  <2>1. RetryDelay(rec.attempts) \in Nat \ {0}
    BY <1>1, <1>3, RetryDelayIsPositive
  <2>2. SmallerOf(rec.updated + RetryDelay(rec.attempts), MaxTime) <= at
    BY <1>3 DEF IsDue, NextAttemptAt
  <2> HIDE DEF RetryDelay
  <2> QED
    BY <1>1, <1>3, <2>1, <2>2 DEF SmallerOf, Retryable
<1> QED
  BY <1>2, <1>3 DEF IsDue, Claimable

(* The images the store operations write, record by record.                *)
LEMMA MarkedFacts ==
  ASSUME file \in OutboxImage, NEW d \in Delivery, NEW at \in Time,
         NEW status \in {"delivered", "failed", "uncertain"},
         NEW by \in {"bridge", "operator"}
  PROVE  /\ Marked(d, status, at, by) \in OutboxImage
         /\ \A e \in Delivery \ {d} : Marked(d, status, at, by)[e] = file[e]
         /\ Marked(d, status, at, by)[d].status = status
         /\ Marked(d, status, at, by)[d].updated = at
         /\ Marked(d, status, at, by)[d].attempts = file[d].attempts
<1> DEFINE err == IF status = "delivered" THEN None ELSE by
           rec == [file[d] EXCEPT !.status = status, !.updated = at, !.error = err]
<1>1. file[d] \in DeliveryRecord
  BY DEF OutboxImage
<1>2. Marked(d, status, at, by) = [file EXCEPT ![d] = rec]
  BY <1>1 DEF Marked, OutboxImage, DeliveryRecord
<1>3. /\ rec \in DeliveryRecord
      /\ rec.status = status /\ rec.updated = at /\ rec.attempts = file[d].attempts
  BY <1>1 DEF DeliveryRecord, Status
<1> HIDE DEF rec
<1> QED
  BY <1>2, <1>3 DEF OutboxImage

LEMMA QueuedFacts ==
  ASSUME file \in OutboxImage, NEW d \in Delivery, NEW at \in Time
  PROVE  /\ Queued(d, at) \in OutboxImage
         /\ \A e \in Delivery \ {d} : Queued(d, at)[e] = file[e]
         /\ Queued(d, at)[d].status = "pending"
         /\ Queued(d, at)[d].attempts = 0
         /\ Queued(d, at)[d].updated = at
<1> DEFINE rec == [status |-> "pending", attempts |-> 0, updated |-> at, error |-> None]
<1>1. /\ rec \in DeliveryRecord
      /\ rec.status = "pending" /\ rec.updated = at /\ rec.attempts = 0
  BY OutboxAssumption DEF DeliveryRecord, Status, IsRetryPolicy
<1>2. Queued(d, at) = [file EXCEPT ![d] = rec]
  BY DEF Queued
<1> HIDE DEF rec
<1> QED
  BY <1>1, <1>2 DEF OutboxImage

LEMMA ClaimedFacts ==
  ASSUME file \in OutboxImage, NEW d \in Delivery, NEW at \in Time,
         file[d].attempts < MaxAttempts
  PROVE  /\ Claimed(d, at) \in OutboxImage
         /\ \A e \in Delivery \ {d} : Claimed(d, at)[e] = file[e]
         /\ Claimed(d, at)[d].status = "delivering"
         /\ Claimed(d, at)[d].attempts = file[d].attempts + 1
         /\ Claimed(d, at)[d].updated = at
<1> DEFINE rec == [status |-> "delivering", attempts |-> file[d].attempts + 1,
                   updated |-> at, error |-> None]
<1>1. file[d] \in DeliveryRecord
  BY DEF OutboxImage
<1>2. /\ rec \in DeliveryRecord
      /\ rec.status = "delivering" /\ rec.updated = at
      /\ rec.attempts = file[d].attempts + 1
  BY <1>1, OutboxAssumption DEF DeliveryRecord, Status, IsRetryPolicy
<1>3. Claimed(d, at) = [file EXCEPT ![d] = rec]
  BY DEF Claimed
<1> HIDE DEF rec
<1> QED
  BY <1>2, <1>3 DEF OutboxImage

LEMMA ReconciledFacts ==
  ASSUME file \in OutboxImage, now \in Time
  PROVE  /\ Reconciled \in OutboxImage
         /\ \A d \in Delivery :
              /\ file[d].status # "delivering" => Reconciled[d] = file[d]
              /\ file[d].status = "delivering" =>
                   /\ Reconciled[d].status = "uncertain"
                   /\ Reconciled[d].updated >= file[d].updated
                   /\ Reconciled[d].attempts = file[d].attempts
<1>1. \A d \in Delivery : file[d].updated \in Time /\ LargerOf(now, file[d].updated) \in Time
                          /\ LargerOf(now, file[d].updated) >= file[d].updated
  BY OutboxAssumption DEF OutboxImage, DeliveryRecord, Time, LargerOf
<1>2. ASSUME NEW d \in Delivery
      PROVE  LET new == Marked(d, "uncertain", LargerOf(now, file[d].updated), "bridge")
             IN /\ new[d] \in DeliveryRecord
                /\ new[d].status = "uncertain"
                /\ new[d].updated = LargerOf(now, file[d].updated)
                /\ new[d].attempts = file[d].attempts
  BY <1>1, MarkedFacts DEF OutboxImage
<1> QED
  BY <1>1, <1>2 DEF Reconciled, OutboxImage

-----------------------------------------------------------------------------
(* The store operations of DurableFile, seen from here.                    *)
LEMMA StoreCases ==
  /\ \A new : WriteSucceeds(new) => file' = new /\ disk' = new /\ UNCHANGED bounds
  /\ \A new : WriteFails(new) =>
       file' \in {file, new} /\ disk' = disk /\ faults' = faults + 1 /\ crashes' = crashes
  /\ Store!Synced => file' = file /\ disk' = file
  /\ Store!NotReplaced => file' = file /\ disk' = disk
  /\ Store!Writeback => file' = file /\ disk' = file
  /\ Store!PowerLoss => file' = disk /\ disk' = disk
BY DEF WriteSucceeds, WriteFails, Fault, Store!Written, Store!NotReplaced,
       Store!ReplacedUnsynced, Store!Synced, Store!Writeback, Store!PowerLoss,
       Store!fileVars

(* A write of an image that changes one record leaves every record as it   *)
(* was or, the one, as written; what is durable then is also visible.      *)
LEMMA WriteFacts ==
  ASSUME IInv, NEW d \in Delivery, NEW new \in OutboxImage,
         \A e \in Delivery \ {d} : new[e] = file[e],
         WriteSucceeds(new) \/ WriteFails(new)
  PROVE  /\ file' \in OutboxImage /\ disk' \in OutboxImage
         /\ faults' \in Nat /\ crashes' \in Nat
         /\ \A e \in Delivery \ {d} :
              file'[e] = file[e] /\ disk'[e] \in {disk[e], file[e]}
         /\ WriteSucceeds(new) => file'[d] = new[d] /\ disk'[d] = new[d]
         /\ WriteFails(new) => file'[d] \in {file[d], new[d]} /\ disk'[d] = disk[d]
<1>1. CASE WriteSucceeds(new)
  BY <1>1, StoreCases DEF IInv, TypeOK, bounds
<1>2. CASE WriteFails(new)
  BY <1>2, StoreCases DEF IInv, TypeOK, bounds
<1> QED
  BY <1>1, <1>2

(* The types a step needs, for the steps that leave the rest alone.        *)
LEMMA TypeFacts ==
  ASSUME IInv, NEW d \in Delivery
  PROVE  /\ file[d] \in DeliveryRecord /\ disk[d] \in DeliveryRecord
         /\ file[d].updated \in Nat /\ disk[d].updated \in Nat
         /\ file[d].attempts \in Nat /\ disk[d].attempts \in Nat
         /\ calls[d] \in Nat /\ accepted[d] \in Nat /\ now \in Nat
         /\ command[d].at \in Nat
BY OutboxAssumption DEF IInv, TypeOK, OutboxImage, DeliveryRecord, Time

(* A delivery that a step does not touch: its visible record stays, its    *)
(* durable one stays or catches up.                                        *)
LEMMA OtherDelivery ==
  ASSUME IInv, NEW d \in Delivery,
         file'[d] = file[d], disk'[d] \in {disk[d], file[d]},
         mode' = mode \/ (file[d].status # "delivering" /\ disk'[d] = file[d]),
         request'[d] = request[d], command'[d] \in {command[d], NoCommand},
         calls'[d] = calls[d], accepted'[d] = accepted[d], told'[d] = told[d]
  PROVE  DeliveryInv(d)'
<1>1. DeliveryInv(d)
  BY DEF IInv
<1>2. NoCommand.status = None
  BY DEF NoCommand
<1> QED
  BY <1>1, <1>2, TypeFacts DEF DeliveryInv, Backs, DiskIsBehind, CommandStands, None

(* A worker whose delivery a step does not touch.                          *)
LEMMA OtherWorkers ==
  ASSUME IInv, NEW w \in Worker,
         worker'[w] = worker[w],
         mode' = mode \/ (mode = "recovering" /\ mode' = "up"),
         Holds(w) =>
           LET d == worker[w].delivery
           IN /\ file'[d] = file[d]
              /\ disk'[d] \in {disk[d], file[d]}
              /\ request'[d] = request[d] \/ request[d] = "open"
              /\ \A v \in Worker \ {w} : worker'[v].delivery # d
  PROVE  WorkerInv(w)'
BY DEF IInv, WorkerInv, Holds

-----------------------------------------------------------------------------
LEMMA InitIInv == Init => IInv
<1> SUFFICES ASSUME Init PROVE IInv
  OBVIOUS
<1>1. NoRecord \in DeliveryRecord
  BY OutboxAssumption DEF NoRecord, DeliveryRecord, Status, Time, IsRetryPolicy
<1>2. \A d \in Delivery : /\ file[d].status = "absent" /\ file[d].attempts = 0
                          /\ disk[d] = file[d]
  BY DEF Init, NoRecord
<1>3. TypeOK
  BY <1>1, OutboxAssumption
     DEF Init, TypeOK, OutboxImage, Idle, NoCommand, Time, None
<1>4. ASSUME NEW d \in Delivery PROVE DeliveryInv(d)
  BY <1>2 DEF Init, DeliveryInv, Backs, DiskIsBehind, CommandStands, NoCommand, None
<1>5. ASSUME NEW w \in Worker PROVE WorkerInv(w)
  BY DEF Init, WorkerInv, Holds, Idle
<1> QED
  BY <1>3, <1>4, <1>5 DEF IInv

(* Enqueue: a new record is pending, and no request was ever made for it.  *)
LEMMA EnqueueStep ==
  ASSUME IInv, NEW d \in Delivery, Enqueue(d)
  PROVE  IInv'
<1>1. UNCHANGED <<mode, worker, command, request, now, rollbacks, calls, accepted>>
  BY DEF Enqueue, outsideVars
<1>2. CASE /\ file[d].status = "pending"
           /\ told' = [told EXCEPT ![d] = IF @ = None THEN "duplicate" ELSE @]
           /\ UNCHANGED <<storeVars, bounds>>
  <2>1. UNCHANGED <<file, disk, faults, crashes>>
    BY <1>2 DEF storeVars, bounds
  <2>2. TypeOK'
    BY <1>1, <1>2, <2>1 DEF IInv, TypeOK
  <2>3. DeliveryInv(d)'
    BY <1>1, <1>2, <2>1 DEF IInv, TypeOK, DeliveryInv, Backs, DiskIsBehind,
       CommandStands, None
  <2>4. ASSUME NEW e \in Delivery \ {d} PROVE DeliveryInv(e)'
    BY <1>1, <1>2, <2>1, OtherDelivery DEF IInv, TypeOK
  <2>5. ASSUME NEW w \in Worker PROVE WorkerInv(w)'
    BY <1>1, <2>1, OtherWorkers DEF IInv, WorkerInv
  <2> QED
    BY <2>2, <2>3, <2>4, <2>5 DEF IInv
<1>3. ASSUME NEW at \in Time, file[d].status = "absent",
             \/ /\ WriteSucceeds(Queued(d, at))
                /\ told' = [told EXCEPT ![d] = "queued"]
             \/ WriteFails(Queued(d, at)) /\ UNCHANGED told
      PROVE  IInv'
  <2> DEFINE new == Queued(d, at)
  <2>1. /\ new \in OutboxImage
        /\ \A e \in Delivery \ {d} : new[e] = file[e]
        /\ new[d].status = "pending" /\ new[d].attempts = 0 /\ new[d].updated = at
    BY QueuedFacts DEF IInv, TypeOK
  <2>2. \/ WriteSucceeds(new) /\ told' = [told EXCEPT ![d] = "queued"]
        \/ WriteFails(new) /\ told' = told
    BY <1>3
  <2> HIDE DEF new
  <2>3. /\ file' \in OutboxImage /\ disk' \in OutboxImage
        /\ faults' \in Nat /\ crashes' \in Nat
        /\ \A e \in Delivery \ {d} :
             file'[e] = file[e] /\ disk'[e] \in {disk[e], file[e]}
        /\ WriteSucceeds(new) => file'[d] = new[d] /\ disk'[d] = new[d]
        /\ WriteFails(new) => file'[d] \in {file[d], new[d]} /\ disk'[d] = disk[d]
    BY <2>1, <2>2, WriteFacts
  <2>4. TypeOK'
    BY <1>1, <2>2, <2>3 DEF IInv, TypeOK
  <2>5. DeliveryInv(d)
    BY DEF IInv
  <2>6. file[d].attempts = 0 /\ disk[d].status = "absent" /\ disk[d].attempts = 0
    BY <1>3, <2>5, TypeFacts DEF DeliveryInv, Backs, DiskIsBehind
  <2>7. calls[d] = 0 /\ request[d] = None
    BY <2>5, <2>6, TypeFacts DEF DeliveryInv, Backs
  <2>8. told[d] # "queued" /\ told[d] # "delivered"
    BY <1>3, <2>5 DEF DeliveryInv, Backs
  <2>9. command[d].status = None /\ accepted[d] = 0
    BY <2>5, <2>7 DEF DeliveryInv, None
  <2>10. DeliveryInv(d)'
    <3>1. Backs(file[d], d)' /\ Backs(disk[d], d)'
      <4>1. \A rec \in {file'[d], disk'[d]} :
              rec.attempts = 0 /\ rec.status \in {"absent", "pending"}
        BY <1>3, <2>1, <2>2, <2>3, <2>6
      <4>2. /\ told'[d] = "queued" => file'[d] = new[d] /\ disk'[d] = new[d]
            /\ told'[d] # "delivered"
        BY <2>2, <2>3, <2>8 DEF IInv, TypeOK
      <4> QED
        BY <1>1, <2>1, <2>7, <4>1, <4>2 DEF Backs, None
    <3>2. DiskIsBehind(d)'
      BY <1>1, <1>3, <2>1, <2>2, <2>3, <2>6 DEF DiskIsBehind, Time
    <3> QED
      BY <1>1, <2>5, <2>7, <2>9, <3>1, <3>2 DEF DeliveryInv, CommandStands, None
  <2>11. ASSUME NEW e \in Delivery \ {d} PROVE DeliveryInv(e)'
    <3>1. told'[e] = told[e]
      BY <2>2 DEF IInv, TypeOK
    <3> QED
      BY <1>1, <2>3, <3>1, OtherDelivery
  <2>12. ASSUME NEW w \in Worker PROVE WorkerInv(w)'
    <3>1. Holds(w) => worker[w].delivery \in Delivery \ {d}
      BY <1>3 DEF IInv, WorkerInv
    <3>2. Holds(w) => \A v \in Worker \ {w} : worker[v].delivery # worker[w].delivery
      BY DEF IInv, WorkerInv
    <3> QED
      BY <1>1, <2>3, <3>1, <3>2, OtherWorkers
  <2> QED
    BY <2>4, <2>10, <2>11, <2>12 DEF IInv
<1> QED
  BY <1>2, <1>3 DEF Enqueue

(* ReadClock and AdapterReturns change only where the worker is.           *)
LEMMA WorkerOnlySteps ==
  ASSUME IInv, NEW w \in Worker, ReadClock(w) \/ AdapterReturns(w)
  PROVE  IInv'
<1>1. UNCHANGED <<file, disk, mode, command, request, now, rollbacks, faults, crashes,
                  calls, accepted, told>>
  BY DEF ReadClock, AdapterReturns, storeVars, outsideVars, bounds, history
<1>2. TypeOK'
  <2>1. CASE ReadClock(w)
    BY <1>1, <2>1 DEF IInv, TypeOK, ReadClock
  <2>2. CASE AdapterReturns(w)
    BY <1>1, <2>2 DEF IInv, TypeOK, AdapterReturns
  <2> QED
    BY <2>1, <2>2
<1>3. ASSUME NEW d \in Delivery PROVE DeliveryInv(d)'
  BY <1>1, OtherDelivery
<1>4. \A v \in Worker : worker'[v].delivery = worker[v].delivery
  BY DEF ReadClock, AdapterReturns, IInv, TypeOK
<1>5. ASSUME NEW v \in Worker \ {w} PROVE WorkerInv(v)'
  <2>1. worker'[v] = worker[v]
    BY DEF ReadClock, AdapterReturns, IInv, TypeOK
  <2> QED
    BY <1>1, <1>4, <2>1, OtherWorkers DEF IInv, WorkerInv
<1>6. WorkerInv(w)'
  <2>1. CASE ReadClock(w)
    BY <1>1, <2>1 DEF ReadClock, IInv, TypeOK, WorkerInv, Holds
  <2>2. CASE AdapterReturns(w)
    BY <1>1, <1>4, <2>2 DEF AdapterReturns, IInv, TypeOK, WorkerInv, Holds
  <2> QED
    BY <2>1, <2>2
<1> QED
  BY <1>2, <1>3, <1>5, <1>6 DEF IInv

(* ClaimNextDelivery: nothing is due, or the first due delivery is claimed *)
(* (or its write fails) with the time the worker read.                     *)
LEMMA ClaimStep ==
  ASSUME ClockStaysBelow, IInv, NEW w \in Worker, ClaimNextDelivery(w)
  PROVE  IInv'
<1> DEFINE at == worker[w].started
<1>1. UNCHANGED <<mode, command, now, rollbacks, accepted, told>>
  BY DEF ClaimNextDelivery
<1>2. worker[w].phase = "polling" /\ mode = "up" /\ at \in Time
  BY DEF ClaimNextDelivery, IInv, TypeOK, WorkerInv
<1>3. CASE /\ worker' = [worker EXCEPT ![w] = Idle]
           /\ UNCHANGED <<storeVars, request, calls, bounds>>
  <2>1. UNCHANGED <<file, disk, request, calls, faults, crashes>>
    BY <1>3 DEF storeVars, bounds
  <2>2. Idle \in [phase : {"idle"}, delivery : {0}, started : Time]
    BY OutboxAssumption DEF Idle, Time
  <2>3. TypeOK'
    BY <1>1, <1>3, <2>1, <2>2 DEF IInv, TypeOK
  <2>4. ASSUME NEW d \in Delivery PROVE DeliveryInv(d)'
    BY <1>1, <2>1, OtherDelivery
  <2>5. ASSUME NEW v \in Worker PROVE worker'[v] \in {worker[v], Idle}
    BY <1>3 DEF IInv, TypeOK
  <2>6. WorkerInv(w)'
    BY <1>1, <1>3, <2>2 DEF IInv, TypeOK, WorkerInv, Holds
  <2>7. ASSUME NEW v \in Worker \ {w} PROVE WorkerInv(v)'
    <3>1. worker'[v] = worker[v]
      BY <1>3 DEF IInv, TypeOK
    <3>2. Holds(v) => \A u \in Worker \ {v} : worker'[u].delivery # worker[v].delivery
      BY <2>2, <2>5 DEF IInv, WorkerInv, Delivery
    <3> QED
      BY <1>1, <2>1, <3>1, <3>2, OtherWorkers
  <2> QED
    BY <2>3, <2>4, <2>6, <2>7 DEF IInv
<1>4. ASSUME NEW d \in Delivery, FirstDue(d, at),
             \/ /\ WriteSucceeds(Claimed(d, at))
                /\ worker' = [worker EXCEPT ![w] = Sending(d, at)]
                /\ request' = [request EXCEPT ![d] = "open"]
                /\ calls' = [calls EXCEPT ![d] = @ + 1]
             \/ /\ WriteFails(Claimed(d, at))
                /\ worker' = [worker EXCEPT ![w] = Idle]
                /\ UNCHANGED <<request, calls>>
      PROVE  IInv'
  <2> DEFINE new == Claimed(d, at)
  <2>1. DeliveryInv(d)
    BY DEF IInv
  <2>2. /\ file[d].status \in Retryable /\ file[d].attempts < MaxAttempts
        /\ file[d].updated <= at
        /\ file[d].status = "failed" => file[d].updated < at
    BY <1>2, <1>4, <2>1, TypeFacts, DueIsLater DEF FirstDue, DeliveryInv, Backs
  <2>3. /\ new \in OutboxImage
        /\ \A e \in Delivery \ {d} : new[e] = file[e]
        /\ new[d].status = "delivering" /\ new[d].updated = at
        /\ new[d].attempts = file[d].attempts + 1
    BY <1>2, <2>2, ClaimedFacts DEF IInv, TypeOK
  <2>4. \/ /\ WriteSucceeds(new)
           /\ worker' = [worker EXCEPT ![w] = Sending(d, at)]
           /\ request' = [request EXCEPT ![d] = "open"]
           /\ calls' = [calls EXCEPT ![d] = @ + 1]
        \/ /\ WriteFails(new)
           /\ worker' = [worker EXCEPT ![w] = Idle]
           /\ UNCHANGED <<request, calls>>
    BY <1>4
  <2> HIDE DEF new
  <2>5. /\ file' \in OutboxImage /\ disk' \in OutboxImage
        /\ faults' \in Nat /\ crashes' \in Nat
        /\ \A e \in Delivery \ {d} :
             file'[e] = file[e] /\ disk'[e] \in {disk[e], file[e]}
        /\ WriteSucceeds(new) => file'[d] = new[d] /\ disk'[d] = new[d]
        /\ WriteFails(new) => file'[d] \in {file[d], new[d]} /\ disk'[d] = disk[d]
    BY <2>3, <2>4, WriteFacts
  <2>6. Idle \in [phase : {"idle"}, delivery : {0}, started : Time]
    BY OutboxAssumption DEF Idle, Time
  <2>7. TypeOK'
    <3>1. CASE /\ worker' = [worker EXCEPT ![w] = Sending(d, at)]
               /\ request' = [request EXCEPT ![d] = "open"]
               /\ calls' = [calls EXCEPT ![d] = @ + 1]
      BY <1>1, <1>2, <2>5, <3>1 DEF IInv, TypeOK, Sending
    <3>2. CASE worker' = [worker EXCEPT ![w] = Idle] /\ UNCHANGED <<request, calls>>
      BY <1>1, <2>5, <2>6, <3>2 DEF IInv, TypeOK
    <3> QED
      BY <2>4, <3>1, <3>2
  <2>8. /\ \/ WriteSucceeds(new) /\ request'[d] = "open" /\ calls'[d] = calls[d] + 1
           \/ WriteFails(new) /\ request'[d] = request[d] /\ calls'[d] = calls[d]
        /\ \A e \in Delivery \ {d} : request'[e] = request[e] /\ calls'[e] = calls[e]
    <3>1. CASE /\ WriteSucceeds(new)
               /\ request' = [request EXCEPT ![d] = "open"]
               /\ calls' = [calls EXCEPT ![d] = @ + 1]
      BY <3>1 DEF IInv, TypeOK
    <3>2. CASE WriteFails(new) /\ UNCHANGED <<request, calls>>
      BY <3>2
    <3> QED
      BY <2>4, <3>1, <3>2
  <2>9. /\ request[d] \notin {"open", "accepted"} /\ told[d] # "delivered"
        /\ accepted[d] = 0 /\ command[d].status # "delivered"
    BY <2>1, <2>2 DEF DeliveryInv, Backs, CommandStands, Retryable
  <2>10. command[d].status = "failed" => command[d].at < at
    <3>1. command[d].status = "failed" => file[d].status = "failed"
      BY <2>1, <2>2, TypeFacts DEF DeliveryInv, Backs, Retryable, None
    <3> QED
      BY <1>2, <2>1, <2>2, <3>1, TypeFacts, OutboxAssumption
         DEF DeliveryInv, CommandStands, Time
  <2>11. DeliveryInv(d)'
    <3>1. CASE WriteSucceeds(new) /\ request'[d] = "open" /\ calls'[d] = calls[d] + 1
      <4>1. Backs(file[d], d)' /\ Backs(disk[d], d)'
        BY <1>1, <2>1, <2>3, <2>5, <2>9, <3>1, TypeFacts DEF DeliveryInv, Backs
      <4>2. DiskIsBehind(d)' /\ CommandStands(d)'
        BY <1>1, <1>2, <2>1, <2>3, <2>5, <2>9, <2>10, <3>1
           DEF DeliveryInv, DiskIsBehind, CommandStands, Time
      <4> QED
        BY <1>1, <2>9, <3>1, <4>1, <4>2, TypeFacts DEF DeliveryInv
    <3>2. CASE WriteFails(new) /\ request'[d] = request[d] /\ calls'[d] = calls[d]
      <4>1. Backs(file[d], d)' /\ Backs(disk[d], d)'
        BY <1>1, <2>1, <2>3, <2>5, <2>9, <3>2, TypeFacts DEF DeliveryInv, Backs
      <4>2. DiskIsBehind(d)'
        BY <1>1, <1>2, <2>1, <2>2, <2>3, <2>5, <3>2, TypeFacts
           DEF DeliveryInv, DiskIsBehind, Time
      <4>3. CommandStands(d)'
        BY <1>1, <1>2, <2>1, <2>2, <2>3, <2>5, <2>10, <3>2, TypeFacts
           DEF DeliveryInv, CommandStands, Retryable, Time
      <4> QED
        BY <1>1, <2>1, <2>9, <3>2, <4>1, <4>2, <4>3 DEF DeliveryInv
    <3> QED
      BY <2>8, <3>1, <3>2
  <2>12. ASSUME NEW e \in Delivery \ {d} PROVE DeliveryInv(e)'
    BY <1>1, <2>5, <2>8, OtherDelivery
  <2>13. ASSUME NEW v \in Worker \ {w}
         PROVE  worker'[v] = worker[v] /\ worker'[v].delivery # d
    <3>1. worker'[v] = worker[v]
      BY <2>4 DEF IInv, TypeOK
    <3> QED
      BY <2>2, <3>1 DEF IInv, WorkerInv, Retryable, Delivery
  <2>14. WorkerInv(w)'
    <3>1. CASE WriteSucceeds(new) /\ worker'[w] = Sending(d, at)
      BY <1>1, <1>2, <2>3, <2>5, <2>13, <3>1 DEF WorkerInv, Holds, IInv, TypeOK, Sending
    <3>2. CASE worker'[w] = Idle
      BY <2>6, <3>2 DEF WorkerInv, Holds
    <3> QED
      BY <2>4, <3>1, <3>2 DEF IInv, TypeOK
  <2>15. ASSUME NEW v \in Worker \ {w} PROVE WorkerInv(v)'
    <3>1. Holds(v) => worker[v].delivery \in Delivery \ {d}
      BY <2>13 DEF IInv, WorkerInv
    <3>2. worker'[w].delivery \in {d, 0}
      BY <2>4, <2>6 DEF IInv, TypeOK, Sending
    <3>3. Holds(v) => \A u \in Worker \ {v} : worker'[u].delivery # worker[v].delivery
      BY <2>13, <3>1, <3>2 DEF IInv, WorkerInv, Delivery
    <3> QED
      BY <1>1, <2>5, <2>8, <2>13, <3>1, <3>3, OtherWorkers
  <2> QED
    BY <2>7, <2>11, <2>12, <2>14, <2>15 DEF IInv
<1> QED
  BY <1>3, <1>4 DEF ClaimNextDelivery

(* PlatformDecides: the request was open, so it had not been accepted and  *)
(* both records have a status that allows it to be.                        *)
LEMMA PlatformStep ==
  ASSUME IInv, NEW d \in Delivery, PlatformDecides(d)
  PROVE  IInv'
<1>1. /\ UNCHANGED <<file, disk, mode, worker, command, now, rollbacks, faults, crashes,
                     calls, told>>
      /\ request[d] = "open"
  BY DEF PlatformDecides, storeVars, bounds
<1>2. \/ /\ request' = [request EXCEPT ![d] = "accepted"]
         /\ accepted' = [accepted EXCEPT ![d] = @ + 1]
      \/ request' = [request EXCEPT ![d] = "refused"] /\ accepted' = accepted
  BY DEF PlatformDecides
<1>3. TypeOK'
  BY <1>1, <1>2 DEF IInv, TypeOK
<1>4. /\ \A e \in Delivery \ {d} : request'[e] = request[e] /\ accepted'[e] = accepted[e]
      /\ \/ request'[d] = "accepted" /\ accepted'[d] = accepted[d] + 1
         \/ request'[d] = "refused" /\ accepted'[d] = accepted[d]
  BY <1>2 DEF IInv, TypeOK
<1>5. DeliveryInv(d)'
  BY <1>1, <1>4, TypeFacts
     DEF IInv, DeliveryInv, Backs, DiskIsBehind, CommandStands, None
<1>6. ASSUME NEW e \in Delivery \ {d} PROVE DeliveryInv(e)'
  BY <1>1, <1>4, OtherDelivery
<1>7. ASSUME NEW w \in Worker PROVE WorkerInv(w)'
  BY <1>1, <1>4, OtherWorkers DEF IInv, WorkerInv
<1> QED
  BY <1>3, <1>5, <1>6, <1>7 DEF IInv

(* RecordOutcome: the worker's delivery is as the worker left it, and the  *)
(* mark is not dated before the record it replaces.                        *)
LEMMA RecordStep ==
  ASSUME IInv, NEW w \in Worker, RecordOutcome(w)
  PROVE  IInv'
<1>0. PICK d \in Delivery : d = worker[w].delivery
  BY DEF RecordOutcome, IInv, WorkerInv, Holds
<1> DEFINE outcome == worker[w].phase
           at == LargerOf(now, worker[w].started)
           new == Marked(d, outcome, at, "bridge")
<1>1. UNCHANGED <<mode, command, request, now, rollbacks, calls, accepted>>
  BY DEF RecordOutcome, outsideVars
<1>2. /\ outcome \in {"delivered", "failed", "uncertain"}
      /\ worker' = [worker EXCEPT ![w] = Idle]
      /\ \/ WriteSucceeds(new) /\ told' = Reported(d, outcome)
         \/ WriteFails(new) /\ told' = told
  BY <1>0 DEF RecordOutcome
<1>3. /\ mode = "up"
      /\ disk[d] = file[d] /\ file[d].status = "delivering"
      /\ outcome = "delivered" => request[d] = "accepted"
      /\ outcome = "failed" => request[d] = "refused"
      /\ \A v \in Worker \ {w} : worker[v].delivery # d
      /\ at \in Time /\ file[d].updated <= at
  BY <1>0, <1>2, OutboxAssumption DEF IInv, TypeOK, WorkerInv, Holds, LargerOf, Time
<1>4. /\ new \in OutboxImage
      /\ \A e \in Delivery \ {d} : new[e] = file[e]
      /\ new[d].status = outcome /\ new[d].updated = at
      /\ new[d].attempts = file[d].attempts
  BY <1>2, <1>3, MarkedFacts DEF IInv, TypeOK
<1>5. /\ told' \in [Delivery -> {None, "queued", "duplicate", "delivered"}]
      /\ \A e \in Delivery \ {d} : told'[e] = told[e]
      /\ \/ WriteSucceeds(new) /\ outcome = "delivered" /\ told'[d] = "delivered"
         \/ WriteSucceeds(new) /\ told'[d] = told[d]
         \/ WriteFails(new) /\ told'[d] = told[d]
  BY <1>2, <1>3 DEF Reported, IInv, TypeOK
<1> HIDE DEF new, at
<1>6. /\ file' \in OutboxImage /\ disk' \in OutboxImage
      /\ faults' \in Nat /\ crashes' \in Nat
      /\ \A e \in Delivery \ {d} :
           file'[e] = file[e] /\ disk'[e] \in {disk[e], file[e]}
      /\ WriteSucceeds(new) => file'[d] = new[d] /\ disk'[d] = new[d]
      /\ WriteFails(new) => file'[d] \in {file[d], new[d]} /\ disk'[d] = disk[d]
  BY <1>2, <1>3, <1>4, WriteFacts
<1>7. Idle \in [phase : {"idle"}, delivery : {0}, started : Time]
  BY OutboxAssumption DEF Idle, Time
<1>8. TypeOK'
  BY <1>1, <1>2, <1>5, <1>6, <1>7 DEF IInv, TypeOK
<1>9. DeliveryInv(d)'
  <2>1. DeliveryInv(d) /\ told[d] # "delivered"
    BY <1>3 DEF IInv, DeliveryInv, Backs
  <2>2. Backs(file[d], d)' /\ Backs(disk[d], d)'
    BY <1>1, <1>2, <1>3, <1>4, <1>5, <1>6, <2>1 DEF DeliveryInv, Backs
  <2>3. DiskIsBehind(d)'
    BY <1>1, <1>2, <1>3, <1>4, <1>5, <1>6, <2>1, TypeFacts DEF DeliveryInv, DiskIsBehind, Time
  <2>4. CommandStands(d)'
    BY <1>1, <1>2, <1>3, <1>4, <1>5, <1>6, <2>1, TypeFacts
       DEF DeliveryInv, CommandStands, Retryable, Time
  <2> QED
    BY <1>1, <2>1, <2>2, <2>3, <2>4 DEF DeliveryInv
<1>10. ASSUME NEW e \in Delivery \ {d} PROVE DeliveryInv(e)'
  BY <1>1, <1>5, <1>6, OtherDelivery
<1>11. WorkerInv(w)'
  BY <1>2, <1>7 DEF IInv, TypeOK, WorkerInv, Holds
<1>12. ASSUME NEW v \in Worker \ {w} PROVE WorkerInv(v)'
  <2>1. worker'[v] = worker[v] /\ worker'[w].delivery = 0
    BY <1>2, <1>7 DEF IInv, TypeOK
  <2>2. Holds(v) => worker[v].delivery \in Delivery \ {d}
    BY <1>3 DEF IInv, WorkerInv
  <2>3. Holds(v) => \A u \in Worker \ {v} : worker'[u].delivery # worker[v].delivery
    <3>1. \A u \in Worker \ {w} : worker'[u] = worker[u]
      BY <1>2 DEF IInv, TypeOK
    <3> QED
      BY <2>1, <2>2, <3>1 DEF IInv, WorkerInv, Delivery
  <2> QED
    BY <1>1, <1>6, <2>1, <2>2, <2>3, OtherWorkers
<1> QED
  BY <1>8, <1>9, <1>10, <1>11, <1>12 DEF IInv

(* InspectUncertain: the bridge is up, so neither record of an uncertain   *)
(* delivery is retryable, and the request has been answered.               *)
LEMMA InspectStep ==
  ASSUME IInv, NEW d \in Delivery, InspectUncertain(d)
  PROVE  IInv'
<1>1. /\ UNCHANGED <<file, disk, mode, worker, request, now, rollbacks, faults, crashes,
                     calls, accepted, told>>
      /\ mode = "up" /\ file[d].status = "uncertain"
  BY DEF InspectUncertain, storeVars, outsideVars, bounds, history
<1>2. \/ /\ request[d] = "accepted"
         /\ command' = [command EXCEPT ![d] = [status |-> "delivered", at |-> now]]
      \/ /\ request[d] = "refused"
         /\ command' = [command EXCEPT ![d] = [status |-> "failed", at |-> now]]
  BY DEF InspectUncertain
<1>3. TypeOK'
  BY <1>1, <1>2 DEF IInv, TypeOK
<1>4. /\ \A e \in Delivery \ {d} : command'[e] = command[e]
      /\ \/ request[d] = "accepted" /\ command'[d].status = "delivered"
         \/ request[d] = "refused" /\ command'[d].status = "failed"
  BY <1>2 DEF IInv, TypeOK
<1>5. DeliveryInv(d)'
  BY <1>1, <1>4
     DEF IInv, DeliveryInv, Backs, DiskIsBehind, CommandStands, Retryable, None
<1>6. ASSUME NEW e \in Delivery \ {d} PROVE DeliveryInv(e)'
  BY <1>1, <1>4, OtherDelivery
<1>7. ASSUME NEW w \in Worker PROVE WorkerInv(w)'
  BY <1>1, OtherWorkers DEF IInv, WorkerInv
<1> QED
  BY <1>3, <1>5, <1>6, <1>7 DEF IInv

(* Resolve: a fresh resolution writes what the operator found out, dated   *)
(* when it was found out; a replay makes the same record durable; anything *)
(* else is rejected.                                                       *)
LEMMA ResolveStep ==
  ASSUME IInv, NEW d \in Delivery, Resolve(d)
  PROVE  IInv'
<1> DEFINE to == command[d].status
           at == command[d].at
           new == Marked(d, to, at, "operator")
           Fresh == file[d].status = "uncertain" /\ file[d].updated <= at
           Replay == file[d].status = to /\ file[d] = new[d]
<1>1. /\ UNCHANGED <<mode, worker, request, now, rollbacks, calls, accepted>>
      /\ mode = "up" /\ command[d] # NoCommand
  BY DEF Resolve, outsideVars
<1>2. \/ /\ \/ Fresh /\ WriteSucceeds(new)
            \/ Replay /\ Store!Synced /\ UNCHANGED bounds
         /\ command' = [command EXCEPT ![d] = NoCommand]
         /\ told' = Reported(d, to)
      \/ /\ \/ Fresh /\ WriteFails(new)
            \/ Replay /\ Store!NotReplaced /\ Fault
         /\ UNCHANGED <<command, told>>
      \/ /\ command' = [command EXCEPT ![d] = NoCommand]
         /\ UNCHANGED <<storeVars, bounds, told>>
  BY DEF Resolve
<1>3. /\ DeliveryInv(d)
      /\ to \in {"delivered", "failed"} /\ at \in Time
      /\ to = "delivered" => request[d] = "accepted"
  BY <1>1 DEF IInv, TypeOK, DeliveryInv, CommandStands
<1>4. /\ new \in OutboxImage
      /\ \A e \in Delivery \ {d} : new[e] = file[e]
      /\ new[d].status = to /\ new[d].updated = at /\ new[d].attempts = file[d].attempts
  BY <1>3, MarkedFacts DEF IInv, TypeOK
<1>5. NoCommand \in [status : {None}, at : Time]
  BY OutboxAssumption DEF NoCommand, Time
<1>6. /\ Reported(d, to) \in [Delivery -> {None, "queued", "duplicate", "delivered"}]
      /\ \A e \in Delivery \ {d} : Reported(d, to)[e] = told[e]
      /\ Reported(d, to)[d] = IF to = "delivered" THEN "delivered" ELSE told[d]
  BY <1>3 DEF Reported, IInv, TypeOK
<1>7. /\ [command EXCEPT ![d] = NoCommand] \in
           [Delivery -> [status : {None, "delivered", "failed"}, at : Time]]
      /\ \A e \in Delivery \ {d} : [command EXCEPT ![d] = NoCommand][e] = command[e]
      /\ [command EXCEPT ![d] = NoCommand][d] = NoCommand
  BY <1>5 DEF IInv, TypeOK
<1> HIDE DEF new
<1>8. /\ command' \in [Delivery -> [status : {None, "delivered", "failed"}, at : Time]]
      /\ told' \in [Delivery -> {None, "queued", "duplicate", "delivered"}]
      /\ \A e \in Delivery \ {d} : command'[e] = command[e] /\ told'[e] = told[e]
  BY <1>2, <1>6, <1>7 DEF IInv, TypeOK
<1>9. /\ file' \in OutboxImage /\ disk' \in OutboxImage
      /\ faults' \in Nat /\ crashes' \in Nat
      /\ \A e \in Delivery \ {d} :
           file'[e] = file[e] /\ disk'[e] \in {disk[e], file[e]}
      /\ \/ /\ Fresh /\ file'[d] = new[d] /\ disk'[d] = new[d]
            /\ command'[d] = NoCommand /\ told'[d] = Reported(d, to)[d]
         \/ /\ Replay /\ file'[d] = file[d] /\ disk'[d] = file[d]
            /\ command'[d] = NoCommand /\ told'[d] = Reported(d, to)[d]
         \/ /\ Fresh /\ file'[d] \in {file[d], new[d]} /\ disk'[d] = disk[d]
            /\ command'[d] = command[d] /\ told'[d] = told[d]
         \/ /\ file'[d] = file[d] /\ disk'[d] = disk[d]
            /\ command'[d] \in {command[d], NoCommand} /\ told'[d] = told[d]
  <2>1. CASE /\ Fresh /\ WriteSucceeds(new)
             /\ command' = [command EXCEPT ![d] = NoCommand] /\ told' = Reported(d, to)
    BY <1>4, <1>7, <2>1, WriteFacts
  <2>2. CASE /\ Replay /\ Store!Synced /\ UNCHANGED bounds
             /\ command' = [command EXCEPT ![d] = NoCommand] /\ told' = Reported(d, to)
    BY <1>7, <2>2, StoreCases DEF IInv, TypeOK, bounds
  <2>3. CASE Fresh /\ WriteFails(new) /\ UNCHANGED <<command, told>>
    BY <1>4, <2>3, WriteFacts
  <2>4. CASE Store!NotReplaced /\ Fault /\ UNCHANGED <<command, told>>
    BY <2>4, StoreCases DEF IInv, TypeOK, Fault
  <2>5. CASE /\ command' = [command EXCEPT ![d] = NoCommand]
             /\ UNCHANGED <<storeVars, bounds, told>>
    BY <1>7, <2>5 DEF IInv, TypeOK, storeVars, bounds
  <2> QED
    BY <1>2, <2>1, <2>2, <2>3, <2>4, <2>5
<1>10. TypeOK'
  BY <1>1, <1>8, <1>9 DEF IInv, TypeOK
<1>11. NoCommand.status = None
  BY DEF NoCommand
<1>12. DeliveryInv(d)'
  <2>1. /\ Fresh => told[d] # "delivered" /\ file[d].attempts # 0
                    /\ disk[d].status \in {"delivering", "uncertain"}
        /\ to = "failed" /\ Fresh => request[d] = "refused"
    BY <1>1, <1>3, TypeFacts DEF DeliveryInv, Backs, DiskIsBehind, CommandStands, Retryable
  <2>2. Backs(file[d], d)' /\ Backs(disk[d], d)'
    BY <1>1, <1>3, <1>4, <1>6, <1>9, <2>1 DEF DeliveryInv, Backs
  <2>3. DiskIsBehind(d)'
    BY <1>1, <1>3, <1>4, <1>9, <2>1, TypeFacts DEF DeliveryInv, DiskIsBehind, Time
  <2>4. CommandStands(d)'
    BY <1>1, <1>3, <1>4, <1>9, <1>11, <2>1, TypeFacts, OutboxAssumption
       DEF DeliveryInv, CommandStands, Retryable, Time, None
  <2> QED
    BY <1>1, <1>3, <1>9, <1>11, <2>2, <2>3, <2>4 DEF DeliveryInv, None
<1>13. ASSUME NEW e \in Delivery \ {d} PROVE DeliveryInv(e)'
  BY <1>1, <1>8, <1>9, OtherDelivery
<1>14. ASSUME NEW w \in Worker PROVE WorkerInv(w)'
  <2>1. Holds(w) /\ worker[w].delivery = d =>
          file'[d] = file[d] /\ disk'[d] \in {disk[d], file[d]}
    BY <1>9 DEF IInv, WorkerInv
  <2>2. Holds(w) => worker[w].delivery \in Delivery
    BY DEF IInv, WorkerInv
  <2>3. Holds(w) => \A v \in Worker \ {w} : worker[v].delivery # worker[w].delivery
    BY DEF IInv, WorkerInv
  <2> QED
    BY <1>1, <1>9, <2>1, <2>2, <2>3, OtherWorkers
<1> QED
  BY <1>10, <1>12, <1>13, <1>14 DEF IInv

(* ReconcileAtStartup: no worker is at work; an attempt found open becomes *)
(* uncertain, and what is not uncertain stays, in both images in the end.  *)
LEMMA ReconcileStep ==
  ASSUME IInv, ReconcileAtStartup
  PROVE  IInv'
<1>1. /\ UNCHANGED <<worker, command, request, now, rollbacks, calls, accepted, told>>
      /\ mode = "recovering"
  BY DEF ReconcileAtStartup, outsideVars, history
<1>2. PICK new \in OutboxImage :
        /\ new = Reconciled
        /\ \A d \in Delivery :
             /\ file[d].status # "delivering" => new[d] = file[d]
             /\ file[d].status = "delivering" =>
                  /\ new[d].status = "uncertain"
                  /\ new[d].updated >= file[d].updated
                  /\ new[d].attempts = file[d].attempts
  BY ReconciledFacts DEF IInv, TypeOK
<1>3. \/ WriteSucceeds(new) /\ mode' = "up"
      \/ WriteFails(new) /\ mode' = mode
      \/ new = file /\ Store!Synced /\ UNCHANGED bounds /\ mode' = "up"
      \/ Store!NotReplaced /\ Fault /\ mode' = mode
  BY <1>2 DEF ReconcileAtStartup
<1>4. /\ file' \in OutboxImage /\ disk' \in OutboxImage
      /\ faults' \in Nat /\ crashes' \in Nat
      /\ \/ file' = new /\ disk' = new /\ mode' = "up"
         \/ file' \in {file, new} /\ disk' = disk /\ mode' = "recovering"
  BY <1>1, <1>2, <1>3, StoreCases DEF IInv, TypeOK, bounds, Fault
<1>5. TypeOK'
  BY <1>1, <1>4 DEF IInv, TypeOK
<1>6. ASSUME NEW d \in Delivery PROVE DeliveryInv(d)'
  <2>1. DeliveryInv(d)
    BY DEF IInv
  <2>2. new[d].updated \in Nat
    BY <1>2, OutboxAssumption DEF OutboxImage, DeliveryRecord, Time
  <2>3. Backs(new[d], d)
    BY <1>2, <2>1 DEF DeliveryInv, Backs
  <2>4. Backs(file[d], d)' /\ Backs(disk[d], d)'
    BY <1>1, <1>4, <2>1, <2>3 DEF DeliveryInv, Backs
  <2>5. DiskIsBehind(d)'
    BY <1>2, <1>4, <2>1, <2>2, TypeFacts DEF DeliveryInv, DiskIsBehind
  <2>6. CommandStands(d)'
    BY <1>1, <1>2, <1>4, <2>1, <2>2, TypeFacts DEF DeliveryInv, CommandStands, Retryable
  <2> QED
    BY <1>1, <2>1, <2>4, <2>5, <2>6 DEF DeliveryInv
<1>7. ASSUME NEW w \in Worker PROVE WorkerInv(w)'
  BY <1>1 DEF IInv, WorkerInv, Holds
<1> QED
  BY <1>5, <1>6, <1>7 DEF IInv

(* The clock, the operating system, crashes and power losses.              *)
LEMMA EnvironmentStep ==
  ASSUME IInv, Tick \/ SetClockBack \/ Writeback \/ Crash \/ PowerLoss
  PROVE  IInv'
<1>1. UNCHANGED <<command, request, faults, calls, accepted, told>>
  BY DEF Tick, SetClockBack, Writeback, Crash, PowerLoss, ProcessGone, storeVars,
         outsideVars, bounds, history
<1>2. /\ now' \in Time /\ rollbacks' \in Nat /\ crashes' \in Nat
      /\ \/ file' = file /\ disk' \in {disk, file} /\ mode' = mode /\ worker' = worker
         \/ /\ file' \in {file, disk} /\ disk' = disk
            /\ mode' = "recovering" /\ worker' = [w \in Worker |-> Idle]
  <2>1. CASE Tick
    BY <2>1, OutboxAssumption DEF Tick, storeVars, bounds, IInv, TypeOK, Time
  <2>2. CASE SetClockBack
    BY <2>2, OutboxAssumption DEF SetClockBack, storeVars, bounds, IInv, TypeOK, Time
  <2>3. CASE Writeback
    BY <2>3, StoreCases DEF Writeback, outsideVars, bounds, IInv, TypeOK
  <2>4. CASE Crash \/ PowerLoss
    BY <2>4, StoreCases DEF Crash, PowerLoss, ProcessGone, storeVars, outsideVars, IInv,
       TypeOK
  <2> QED
    BY <2>1, <2>2, <2>3, <2>4
<1>3. Idle \in [phase : {"idle"}, delivery : {0}, started : Time]
  BY OutboxAssumption DEF Idle, Time
<1>4. TypeOK'
  BY <1>1, <1>2, <1>3 DEF IInv, TypeOK
<1>5. ASSUME NEW d \in Delivery PROVE DeliveryInv(d)'
  <2>1. CASE file' = file /\ disk' \in {disk, file} /\ mode' = mode
    BY <1>1, <2>1, OtherDelivery
  <2>2. CASE file' \in {file, disk} /\ disk' = disk /\ mode' = "recovering"
    BY <1>1, <2>2, TypeFacts
       DEF IInv, DeliveryInv, Backs, DiskIsBehind, CommandStands
  <2> QED
    BY <1>2, <2>1, <2>2
<1>6. ASSUME NEW w \in Worker PROVE WorkerInv(w)'
  <2>1. CASE file' = file /\ disk' \in {disk, file} /\ mode' = mode /\ worker' = worker
    BY <1>1, <2>1, OtherWorkers DEF IInv, WorkerInv
  <2>2. CASE worker' = [v \in Worker |-> Idle]
    BY <1>3, <2>2 DEF WorkerInv, Holds
  <2> QED
    BY <1>2, <2>1, <2>2
<1> QED
  BY <1>4, <1>5, <1>6 DEF IInv

LEMMA NextIInv ==
  ASSUME ClockStaysBelow, IInv, [Next]_vars
  PROVE  IInv'
<1>1. CASE UNCHANGED vars
  BY <1>1 DEF vars, storeVars, outsideVars, history, bounds, IInv, TypeOK, DeliveryInv,
     Backs, DiskIsBehind, CommandStands, WorkerInv, Holds
<1>2. ASSUME NEW w \in Worker, WorkerStep(w) PROVE IInv'
  BY <1>2, WorkerOnlySteps, ClaimStep, RecordStep DEF WorkerStep
<1>3. ASSUME NEW d \in Delivery, DeliveryStep(d) PROVE IInv'
  BY <1>3, EnqueueStep, PlatformStep, InspectStep, ResolveStep DEF DeliveryStep
<1> QED
  BY <1>1, <1>2, <1>3, ReconcileStep, EnvironmentStep DEF Next

LEMMA Invariance ==
  ASSUME ClockStaysBelow
  PROVE  Spec => []IInv
<1>1. IInv /\ [Next]_vars => IInv'
  BY NextIInv
<1> QED
  BY <1>1, InitIInv, PTL DEF Spec

(* Every variable of the outbox has its type.                              *)
THEOREM TypeCorrect ==
  ASSUME ClockStaysBelow
  PROVE  Spec => []TypeOK
<1>1. IInv => TypeOK
  BY DEF IInv
<1> QED
  BY <1>1, Invariance, PTL

(* No delivery is accepted twice by the platform, whatever is retried,     *)
(* lost in a crash or answered late, for any number of workers.            *)
THEOREM AtMostOnce ==
  ASSUME ClockStaysBelow
  PROVE  Spec => []AcceptedAtMostOnce
<1>1. IInv => AcceptedAtMostOnce
  BY DEF IInv, DeliveryInv, AcceptedAtMostOnce
<1> QED
  BY <1>1, Invariance, PTL

(* No image, visible or durable, offers a delivery again that may still    *)
(* be, or has been, accepted; a record that says delivered is right.       *)
THEOREM TruthfulStatus ==
  ASSUME ClockStaysBelow
  PROVE  Spec => []StatusIsTruthful
<1>1. IInv => StatusIsTruthful
  BY DEF IInv, DeliveryInv, Backs, StatusIsTruthful
<1> QED
  BY <1>1, Invariance, PTL

(* The durable attempts cover every adapter call ever made.                *)
THEOREM CallsCounted ==
  ASSUME ClockStaysBelow
  PROVE  Spec => []CallsAreCounted
<1>1. IInv => CallsAreCounted
  BY DEF IInv, DeliveryInv, Backs, CallsAreCounted
<1> QED
  BY <1>1, Invariance, PTL

(* A worker that comes back from the adapter can record the outcome, and   *)
(* no other worker has its delivery.                                       *)
THEOREM OutcomeRecordable ==
  ASSUME ClockStaysBelow
  PROVE  Spec => []OutcomeIsRecordable
<1>1. IInv => OutcomeIsRecordable
  <2> SUFFICES ASSUME IInv, NEW w \in Worker, Holds(w)
               PROVE  /\ MarkAllowed(w)
                      /\ \A v \in Worker \ {w} : worker[v].delivery # worker[w].delivery
    BY DEF OutcomeIsRecordable, Holds
  <2>1. /\ worker[w].started \in Nat /\ now \in Nat
        /\ file[worker[w].delivery].updated = worker[w].started
    BY OutboxAssumption DEF IInv, TypeOK, WorkerInv, Time
  <2> QED
    BY <2>1 DEF IInv, WorkerInv, MarkAllowed, LargerOf
<1> QED
  BY <1>1, Invariance, PTL

(* What an Ok has reported queued or delivered outlives a power loss.      *)
THEOREM ReportedDurable ==
  ASSUME ClockStaysBelow
  PROVE  Spec => []ReportedIsDurable
<1>1. IInv => ReportedIsDurable
  BY DEF IInv, DeliveryInv, Backs, ReportedIsDurable
<1> QED
  BY <1>1, Invariance, PTL

-----------------------------------------------------------------------------
(* What becomes durable is not dated before what was: either it was        *)
(* visible already, or it is a write dated no earlier than what it         *)
(* replaces.                                                               *)
LEMMA DurableUpdate ==
  ASSUME IInv, NEW d \in Delivery, disk[d].status # "absent",
         \/ disk'[d] \in {disk[d], file[d]}
         \/ /\ disk'[d].updated \in Nat
            /\ file[d].updated <= disk'[d].updated
  PROVE  disk'[d].updated >= disk[d].updated
<1>1. disk[d].updated <= file[d].updated
  BY DEF IInv, DeliveryInv, DiskIsBehind
<1> QED
  BY <1>1, TypeFacts

(* The time of a durable record never goes back, although the clock may.   *)
THEOREM TimesMoveForward ==
  ASSUME ClockStaysBelow
  PROVE  Spec => UpdatesMoveForward
<1> DEFINE Forward(d) == disk[d].status # "absent" => disk'[d].updated >= disk[d].updated
<1>1. ASSUME IInv, [Next]_vars, NEW d \in Delivery PROVE Forward(d)
  <2> SUFFICES ASSUME disk[d].status # "absent"
               PROVE  \/ disk'[d] \in {disk[d], file[d]}
                      \/ /\ disk'[d].updated \in Nat
                         /\ file[d].updated <= disk'[d].updated
    BY <1>1, DurableUpdate
  <2>1. file[d].status # "absent" /\ DeliveryInv(d)
    BY <1>1 DEF IInv, DeliveryInv, DiskIsBehind
  <2>2. ASSUME NEW e \in Delivery, NEW new \in OutboxImage,
               \A c \in Delivery \ {e} : new[c] = file[c],
               e = d => file[d].updated <= new[d].updated,
               WriteSucceeds(new) \/ WriteFails(new)
        PROVE  \/ disk'[d] \in {disk[d], file[d]}
               \/ /\ disk'[d].updated \in Nat
                  /\ file[d].updated <= disk'[d].updated
    <3>1. new[d].updated \in Nat
      BY OutboxAssumption DEF OutboxImage, DeliveryRecord, Time
    <3> QED
      BY <1>1, <2>2, <3>1, StoreCases
  <2>3. ASSUME NEW e \in Delivery, Enqueue(e)
        PROVE  disk'[d] \in {disk[d], file[d]}
    <3>1. CASE UNCHANGED storeVars
      BY <3>1 DEF storeVars
    <3>2. ASSUME NEW at \in Time, file[e].status = "absent",
                 WriteSucceeds(Queued(e, at)) \/ WriteFails(Queued(e, at))
          PROVE  disk'[d] \in {disk[d], file[d]}
      <4>1. d # e /\ Queued(e, at)[d] = file[d]
        BY <1>1, <2>1, <3>2, QueuedFacts DEF IInv, TypeOK
      <4> QED
        BY <3>2, <4>1, StoreCases
    <3> QED
      BY <2>3, <3>1, <3>2 DEF Enqueue
  <2>4. ASSUME NEW w \in Worker, ClaimNextDelivery(w)
        PROVE  \/ disk'[d] \in {disk[d], file[d]}
               \/ /\ disk'[d].updated \in Nat
                  /\ file[d].updated <= disk'[d].updated
    <3>1. CASE UNCHANGED storeVars
      BY <3>1 DEF storeVars
    <3>2. ASSUME NEW e \in Delivery, FirstDue(e, worker[w].started),
                 \/ WriteSucceeds(Claimed(e, worker[w].started))
                 \/ WriteFails(Claimed(e, worker[w].started))
          PROVE  \/ disk'[d] \in {disk[d], file[d]}
                 \/ /\ disk'[d].updated \in Nat
                    /\ file[d].updated <= disk'[d].updated
      <4>1. worker[w].started \in Time
        BY <1>1 DEF IInv, TypeOK
      <4>2. file[e].attempts < MaxAttempts /\ file[e].updated <= worker[w].started
        BY <1>1, <3>2, <4>1, TypeFacts, DueIsLater DEF FirstDue, IInv, DeliveryInv, Backs
      <4> QED
        <5> DEFINE new == Claimed(e, worker[w].started)
        <5>1. /\ new \in OutboxImage /\ new[e].updated = worker[w].started
              /\ \A c \in Delivery \ {e} : new[c] = file[c]
          BY <1>1, <4>1, <4>2, ClaimedFacts DEF IInv, TypeOK
        <5>2. WriteSucceeds(new) \/ WriteFails(new)
          BY <3>2
        <5> HIDE DEF new
        <5> QED
          BY <2>2, <4>2, <5>1, <5>2
    <3> QED
      BY <2>4, <3>1, <3>2 DEF ClaimNextDelivery
  <2>5. ASSUME NEW w \in Worker, RecordOutcome(w)
        PROVE  \/ disk'[d] \in {disk[d], file[d]}
               \/ /\ disk'[d].updated \in Nat
                  /\ file[d].updated <= disk'[d].updated
    <3>1. PICK e \in Delivery : e = worker[w].delivery
      BY <1>1, <2>5 DEF RecordOutcome, IInv, WorkerInv, Holds
    <3> DEFINE at == LargerOf(now, worker[w].started)
               new == Marked(e, worker[w].phase, at, "bridge")
    <3>2. /\ at \in Time
          /\ worker[w].phase \in {"delivered", "failed", "uncertain"}
          /\ file[e].updated <= at
          /\ WriteSucceeds(new) \/ WriteFails(new)
      BY <1>1, <2>5, <3>1 DEF RecordOutcome, MarkAllowed, LargerOf, IInv, TypeOK
    <3>3. /\ new \in OutboxImage /\ new[e].updated = at
          /\ \A c \in Delivery \ {e} : new[c] = file[c]
      BY <1>1, <3>2, MarkedFacts DEF IInv, TypeOK
    <3> HIDE DEF new
    <3> QED
      BY <2>2, <3>2, <3>3
  <2>6. ASSUME NEW e \in Delivery, Resolve(e)
        PROVE  \/ disk'[d] \in {disk[d], file[d]}
               \/ /\ disk'[d].updated \in Nat
                  /\ file[d].updated <= disk'[d].updated
    <3> DEFINE to == command[e].status
               at == command[e].at
               new == Marked(e, to, at, "operator")
    <3>1. \/ disk' \in {disk, file}
          \/ /\ file[e].updated <= at
             /\ WriteSucceeds(new) \/ WriteFails(new)
      BY <2>6, StoreCases DEF Resolve, storeVars
    <3>2. to \in {"delivered", "failed"} /\ at \in Time
      BY <1>1, <2>6 DEF Resolve, IInv, TypeOK, DeliveryInv, CommandStands
    <3>3. /\ new \in OutboxImage /\ new[e].updated = at
          /\ \A c \in Delivery \ {e} : new[c] = file[c]
      BY <1>1, <3>2, MarkedFacts DEF IInv, TypeOK
    <3> HIDE DEF new
    <3> QED
      BY <2>2, <3>1, <3>2, <3>3
  <2>7. CASE ReconcileAtStartup
    <3>1. Reconciled \in OutboxImage /\ file[d].updated <= Reconciled[d].updated
      BY <1>1, ReconciledFacts, TypeFacts DEF IInv, TypeOK
    <3>2. Reconciled[d].updated \in Nat
      BY <3>1, OutboxAssumption DEF OutboxImage, DeliveryRecord, Time
    <3>3. disk' \in {disk, file, Reconciled}
      BY <2>7, StoreCases DEF ReconcileAtStartup
    <3> QED
      BY <3>1, <3>2, <3>3
  <2>8. ASSUME \/ \E w \in Worker : ReadClock(w) \/ AdapterReturns(w)
               \/ \E e \in Delivery : PlatformDecides(e) \/ InspectUncertain(e)
               \/ Tick \/ SetClockBack \/ Writeback \/ Crash \/ PowerLoss
               \/ UNCHANGED vars
        PROVE  disk' \in {disk, file}
    BY <2>8, StoreCases DEF ReadClock, AdapterReturns, PlatformDecides, InspectUncertain,
       Tick, SetClockBack, Writeback, Crash, PowerLoss, storeVars, vars
  <2> QED
    BY <1>1, <2>3, <2>4, <2>5, <2>6, <2>7, <2>8 DEF Next, WorkerStep, DeliveryStep
<1>2. IInv /\ [Next]_vars => [\A d \in Delivery : Forward(d)]_vars
  BY <1>1
<1> QED
  BY <1>2, Invariance, PTL DEF Spec, UpdatesMoveForward

===============================================================================
