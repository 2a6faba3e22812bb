-------------------------- MODULE MessageQueueProofs --------------------------
(***************************************************************************)
(* Proofs about MessageQueue.  The invariant is of the file alone: it is   *)
(* valid, and the messages of a session, claimed and waiting, are in the   *)
(* order of their ledger entries, each with the latest of the times up to  *)
(* its own.  A claim moves messages from the one half to the other and     *)
(* changes no such sequence; an arrival appends to one of them.  The last  *)
(* part shows that the file without its times goes through the transitions *)
(* of RuntimeState; for it the invariant also says that a message waits    *)
(* for the session it was sent to and that each run has an input.          *)
(***************************************************************************)
EXTENDS MessageQueue, OperatorProofs

Id == {e.id : e \in Event}

Body == {e.body : e \in Event}

MessageType ==
  [id : Id, session : SessionId, received : Nat, body : Body, enqueued : Nat]

LedgerType == [id : Id, received : Nat, recorded : Nat]

InputType ==
  [id : Nat, session : SessionId, messages : Seq(MessageType), ready : Nat, claimed : Nat]

(* No run is started here, or completed.                                   *)
RunType ==
  [id : Nat, session : SessionId, status : {"pending", "cancelled"}, created : Nat,
   updated : Nat, started : {{}}, finished : SUBSET Nat, outputs : {<<>>}]

ImageType ==
  [sessions : {WithSessions.sessions}, runs : Seq(RunType), inputs : Seq(InputType),
   ledger : Seq(LedgerType), queue : Seq(MessageType), outbox : {<<>>}, updated : Nat]

(* When the event of a message was recorded.                               *)
RecordedAt(img, m) == img.ledger[Position(img, m.id)].recorded

Ordered(img, s) ==
  LET owned == OwnershipOf(img, s)
  IN \A i \in DOMAIN owned :
       /\ Has(img.ledger, owned[i].id)
       /\ \A j \in 1..i : RecordedAt(img, owned[j]) <= owned[i].enqueued
       /\ \E j \in 1..i : owned[i].enqueued = RecordedAt(img, owned[j])
       /\ \A j \in 1..(i - 1) : Position(img, owned[j].id) < Position(img, owned[i].id)

(* A waiting message is the event that arrived.                            *)
QueuedAsSent(img) ==
  \A m \in ToSet(img.queue) :
    \E e \in Event : e.id = m.id /\ e.kind = "message" /\ e.session = m.session

(* Every run has come from a claim.                                        *)
EachRunClaimed(img) == Len(img.runs) = Len(img.inputs)

Sound(img) ==
  /\ img \in ImageType
  /\ Valid(img)
  /\ \A s \in SessionId : Ordered(img, s)
  /\ QueuedAsSent(img)
  /\ EachRunClaimed(img)

(* What the embedder was told last still holds.                            *)
WaitHolds ==
  /\ wait \in [asleep : BOOLEAN, next : SUBSET Nat]
  /\ wait.asleep => wait.next = NextReadyAt(file.queue, FreeSessions(file))

IInv == now \in Nat /\ Sound(file) /\ WaitHolds

-----------------------------------------------------------------------------
(* Positions in the ledger.                                                *)
LedgerGrew(img, entry, new) ==
  /\ DistinctIds(new.ledger)
  /\ new.ledger \in Seq(LedgerType)
  /\ ToSet(new.ledger) = ToSet(img.ledger) \cup {entry}
  /\ Has(new.ledger, entry.id) /\ new.ledger[Position(new, entry.id)] = entry
  /\ \A id : Has(img.ledger, id) =>
       /\ Has(new.ledger, id)
       /\ Position(new, id) = Position(img, id)
       /\ new.ledger[Position(new, id)] = img.ledger[Position(img, id)]
       /\ Position(new, id) < Position(new, entry.id)

(* An entry joins a ledger that has none for its event.                    *)
LEMMA LedgerGrows ==
  ASSUME NEW img \in ImageType, NEW new, NEW entry \in LedgerType,
         new.ledger = Append(img.ledger, entry), ~Has(img.ledger, entry.id),
         DistinctIds(img.ledger)
  PROVE  LedgerGrew(img, entry, new)
<1>1. PICK n \in Nat, old \in Seq(LedgerType) :
        old = img.ledger /\ n = Len(old) /\ DOMAIN old = 1..n
  BY LenProperties DEF ImageType
<1>2. PICK l : l = Append(old, entry)
  OBVIOUS
<1>3. /\ l \in Seq(LedgerType) /\ DOMAIN l = 1..(n + 1) /\ l[n + 1] = entry
      /\ \A i \in 1..n : l[i] = old[i]
  BY <1>1, <1>2, PositionsAppend
<1>4. new.ledger = l
  BY <1>1, <1>2
<1>5. \A i \in 1..n : old[i].id # entry.id
  BY <1>1 DEF Has
<1>6. DistinctIds(l)
  <2>1. ASSUME NEW i \in 1..(n + 1), NEW j \in 1..(n + 1), l[i].id = l[j].id PROVE i = j
    <3>1. CASE i \in 1..n /\ j \in 1..n
      BY <1>1, <1>3, <2>1, <3>1 DEF DistinctIds
    <3>2. CASE i = n + 1 /\ j \in 1..n
      BY <1>3, <1>5, <2>1, <3>2
    <3>3. CASE i \in 1..n /\ j = n + 1
      BY <1>3, <1>5, <2>1, <3>3
    <3>4. CASE i = n + 1 /\ j = n + 1
      BY <3>4
    <3> QED
      BY <3>1, <3>2, <3>3, <3>4
  <2> QED
    BY <1>3, <2>1 DEF DistinctIds
<1>7. ToSet(l) = ToSet(old) \cup {entry}
  BY <1>2, ElementsAppend
<1>8. Has(l, entry.id) /\ Position(new, entry.id) = n + 1
  <2>1. n + 1 \in DOMAIN l /\ l[n + 1].id = entry.id
    BY <1>3
  <2> QED
    BY <1>4, <1>6, <2>1, PositionIs DEF Has
<1>9. ASSUME NEW id, Has(old, id)
      PROVE  /\ Has(l, id) /\ Position(new, id) = Position(img, id)
             /\ l[Position(new, id)] = old[Position(img, id)]
             /\ Position(new, id) < Position(new, entry.id)
  <2>1. PICK i \in 1..n : i = Position(img, id) /\ old[i].id = id
    BY <1>1, <1>9, PositionOf
  <2>2. i \in DOMAIN l /\ l[i] = old[i] /\ l[i].id = id
    BY <1>3, <2>1
  <2>3. Position(new, id) = i
    BY <1>4, <1>6, <2>2, PositionIs
  <2>4. Has(l, id)
    BY <2>2 DEF Has
  <2> QED
    BY <1>8, <2>1, <2>2, <2>3, <2>4
<1> QED
  BY <1>1, <1>3, <1>4, <1>6, <1>7, <1>8, <1>9 DEF LedgerGrew

-----------------------------------------------------------------------------
(* Who has what: the messages of a session, claimed and waiting.           *)
LEMMA TypesHold ==
  Carries(InputType, MessageType)
BY DEF Carries, InputType, MessageType

LEMMA BatchesType ==
  ASSUME NEW inputs \in Seq(InputType)
  PROVE  /\ BatchesOf(inputs) \in Seq(Seq(MessageType))
         /\ ToSet(BatchesOf(inputs)) = {inputs[i].messages : i \in DOMAIN inputs}
BY TypesHold, BatchesListed

LEMMA BatchesAppend ==
  ASSUME NEW inputs \in Seq(InputType), NEW input \in InputType
  PROVE  BatchesOf(Append(inputs, input)) = Append(BatchesOf(inputs), input.messages)
BY TypesHold, BatchesGrow

LEMMA TakenIs ==
  ASSUME NEW img, img.inputs \in Seq(InputType)
  PROVE  Taken(img) \in Seq(MessageType) /\ ToSet(Taken(img)) = Claimed(img)
BY TypesHold, TakenListed

LEMMA OwnershipIs ==
  ASSUME NEW img, img.inputs \in Seq(InputType), img.queue \in Seq(MessageType), NEW s
  PROVE  /\ MessagesOf(Taken(img), s) \in Seq(MessageType)
         /\ MessagesOf(img.queue, s) \in Seq(MessageType)
         /\ OwnershipOf(img, s) \in Seq(MessageType)
         /\ OwnershipOf(img, s) = MessagesOf(Taken(img), s) \o MessagesOf(img.queue, s)
         /\ ToSet(OwnershipOf(img, s)) =
              {m \in ToSet(img.queue) \cup Claimed(img) : m.session = s}
BY TypesHold, OwnershipListed

(* A message that joins the queue comes last of its session.               *)
LEMMA OwnershipAfterArrival ==
  ASSUME NEW img, img.inputs \in Seq(InputType), img.queue \in Seq(MessageType),
         NEW new, new.inputs = img.inputs, NEW m \in MessageType,
         new.queue = Append(img.queue, m), NEW s
  PROVE  OwnershipOf(new, s) = IF m.session = s THEN Append(OwnershipOf(img, s), m)
                               ELSE OwnershipOf(img, s)
BY TypesHold, OwnershipGrows

(* A batch that is claimed is taken from the one half into the other.      *)
LEMMA OwnershipAfterClaim ==
  ASSUME NEW img, img.inputs \in Seq(InputType), img.queue \in Seq(MessageType),
         IsInjective(img.queue), NEW s, NEW n \in Nat, NEW new, NEW input \in InputType,
         input.messages = Prefix(MessagesOf(img.queue, s), n),
         new.inputs = Append(img.inputs, input),
         new.queue = Select(img.queue, ToSet(img.queue) \ ToSet(input.messages))
  PROVE  SameOwners(img, new)
BY TypesHold, OwnershipMoves

-----------------------------------------------------------------------------
(* Times.                                                                  *)
LEMMA LastEnqueuedIs ==
  ASSUME NEW img, img.inputs \in Seq(InputType), img.queue \in Seq(MessageType), NEW s
  PROVE  LET owned == OwnershipOf(img, s)
         IN /\ LastEnqueued(img, s) \in Nat
            /\ \A i \in DOMAIN owned : owned[i].enqueued <= LastEnqueued(img, s)
            /\ \/ LastEnqueued(img, s) = 0
               \/ \E i \in DOMAIN owned : LastEnqueued(img, s) = owned[i].enqueued
BY TypesHold, LastEnqueuedListed

-----------------------------------------------------------------------------
(* The sessions never change.                                              *)
LEMMA SessionsKnown ==
  /\ DistinctIds(WithSessions.sessions)
  /\ \A s : Has(WithSessions.sessions, s) <=> s \in SessionId
  /\ \A x \in ToSet(WithSessions.sessions) : x.created = 0 /\ x.updated = 0
<1> DEFINE all == {NewSession(s, 0) : s \in SessionId}
<1>1. IsFiniteSet(all)
  <2>1. PICK g : g = [s \in SessionId |-> NewSession(s, 0)]
    OBVIOUS
  <2>2. g \in Surjection(SessionId, all)
    BY <2>1 DEF Surjection
  <2> QED
    BY <2>2, QueueAssumption, FS_Surjection
<1>2. PICK l : l = WithSessions.sessions
  OBVIOUS
<1>3. l = SetToSeq(all)
  BY <1>2 DEF WithSessions, EmptyImage
<1>4. l \in Seq(all) /\ IsInjective(l) /\ ToSet(l) = all
  BY <1>1, <1>3, ListsAll
<1>5. \A x, y \in all : x.id = y.id => x = y
  BY DEF NewSession
<1>6. \A i \in DOMAIN l : l[i] \in all
  BY <1>4 DEF ToSet
<1>7. DistinctIds(l)
  BY <1>4, <1>5, <1>6 DEF DistinctIds, IsInjective
<1>8. \A s : Has(l, s) <=> s \in SessionId
  <2>1. ASSUME NEW s, Has(l, s) PROVE s \in SessionId
    BY <1>6, <2>1 DEF Has, NewSession
  <2>2. ASSUME NEW s \in SessionId PROVE Has(l, s)
    <3>1. NewSession(s, 0) \in ToSet(l) /\ NewSession(s, 0).id = s
      BY <1>4 DEF NewSession
    <3> QED
      BY <3>1 DEF Has, ToSet
  <2> QED
    BY <2>1, <2>2
<1>9. \A x \in ToSet(l) : x.created = 0 /\ x.updated = 0
  BY <1>4 DEF NewSession
<1> QED
  BY <1>2, <1>7, <1>8, <1>9

-----------------------------------------------------------------------------
(* The operations, by what they do to an image of the right type.          *)

(* An event that is not in the ledger.                                     *)
Arrived(img, e, t, new) ==
  /\ ~Has(img.ledger, e.id) /\ e.kind # "malformed"
  /\ new \in ImageType
  /\ new.runs = img.runs
  /\ new.inputs = img.inputs
  /\ new.ledger = Append(img.ledger, Entry(e, t)) /\ Entry(e, t) \in LedgerType
  /\ new.updated >= img.updated /\ new.updated >= Entry(e, t).recorded
  /\ \/ e.kind # "message" /\ new.queue = img.queue
     \/ /\ e.kind = "message" /\ e.session \in SessionId
        /\ Queued(img, e, t) \in MessageType
        /\ new.queue = Append(img.queue, Queued(img, e, t))
        /\ new.updated >= Queued(img, e, t).enqueued

LEMMA EntryType ==
  ASSUME NEW e \in Event, NEW t \in Nat
  PROVE  Entry(e, t) \in LedgerType /\ Entry(e, t).recorded = Larger(t, e.received)
<1>1. e.id \in Id /\ e.received \in Nat
  BY QueueAssumption DEF Id
<1>2. Larger(t, e.received) \in Nat
  BY <1>1, LargerIs
<1> QED
  BY <1>1, <1>2 DEF Entry, LedgerType

LEMMA QueuedType ==
  ASSUME NEW img \in ImageType, NEW e \in Event, NEW t \in Nat, e.session \in SessionId
  PROVE  /\ Queued(img, e, t) \in MessageType
         /\ Queued(img, e, t).id = e.id
         /\ Queued(img, e, t).session = e.session
         /\ Queued(img, e, t).received = e.received
         /\ Queued(img, e, t).enqueued =
              Larger(Larger(t, LastEnqueued(img, e.session)), e.received)
         /\ Queued(img, e, t).enqueued >= Entry(e, t).recorded
         /\ Queued(img, e, t).enqueued >= LastEnqueued(img, e.session)
         /\ Queued(img, e, t).enqueued \in {Entry(e, t).recorded, LastEnqueued(img, e.session)}
<1>1. e.id \in Id /\ e.received \in Nat /\ e.body \in Body
  BY QueueAssumption DEF Id, Body
<1>2. PICK last \in Nat : last = LastEnqueued(img, e.session)
  <2>1. img.inputs \in Seq(InputType) /\ img.queue \in Seq(MessageType)
    BY DEF ImageType
  <2> QED
    BY <2>1, LastEnqueuedIs
<1>3. PICK x \in Nat : x = Larger(Larger(t, last), e.received)
  BY <1>1, LargerIs
<1>4. x >= Larger(t, e.received) /\ x >= last /\ x \in {Larger(t, e.received), last}
  BY <1>1, <1>3 DEF Larger
<1>5. Queued(img, e, t) = [id |-> e.id, session |-> e.session, received |-> e.received,
                           body |-> e.body, enqueued |-> x]
  BY <1>2, <1>3 DEF Queued
<1>6. Entry(e, t).recorded = Larger(t, e.received)
  BY EntryType
<1> QED
  BY <1>1, <1>2, <1>3, <1>4, <1>5, <1>6 DEF MessageType

LEMMA ArrivalShape ==
  ASSUME NEW img \in ImageType, NEW e \in Event, NEW t \in Nat, NEW new \in RecordEvent(img, e, t)
  PROVE  new = img \/ Arrived(img, e, t, new)
<1>1. PICK entry \in LedgerType : entry = Entry(e, t)
  BY EntryType
<1>2. PICK queued : queued = IF e.kind = "message" THEN {Queued(img, e, t)} ELSE {}
  OBVIOUS
<1>3. PICK added : added = [img EXCEPT !.ledger = Append(@, entry), !.queue = @ \o SetToSeq(queued)]
  OBVIOUS
<1>4. PICK u : u = Max({entry.recorded} \cup {q.enqueued : q \in queued})
  OBVIOUS
<1>5. CASE Has(img.ledger, e.id)
  BY <1>5 DEF RecordEvent, Accept
<1>6. CASE ~Has(img.ledger, e.id)
  <2>1. /\ new = Touch(added, u) /\ e.kind # "malformed"
        /\ e.kind = "message" => Has(img.sessions, e.session)
    BY <1>1, <1>2, <1>3, <1>4, <1>6 DEF RecordEvent
  <2>2. img.sessions = WithSessions.sessions /\ img.outbox = <<>>
    BY DEF ImageType
  <2>3. e.kind = "message" => e.session \in SessionId
    BY <2>1, <2>2, SessionsKnown
  <2>4. PICK q \in Seq(MessageType), l \in Seq(LedgerType) : q = img.queue /\ l = img.ledger
    BY DEF ImageType
  <2>5. PICK o, m : o = q \o SetToSeq(queued) /\ m = Append(l, entry)
    OBVIOUS
  <2>6. m \in Seq(LedgerType)
    BY <2>5, AppendProperties
  <2>7. /\ o \in Seq(MessageType) /\ u \in Nat /\ u >= entry.recorded
        /\ \/ e.kind # "message" /\ o = q
           \/ /\ e.kind = "message" /\ e.session \in SessionId
              /\ Queued(img, e, t) \in MessageType
              /\ o = Append(q, Queued(img, e, t))
              /\ u >= Queued(img, e, t).enqueued
    <3>1. CASE e.kind = "message"
      <4>1. PICK x \in MessageType : x = Queued(img, e, t) /\ x.enqueued >= entry.recorded
        BY <1>1, <2>3, <3>1, QueuedType
      <4>2. queued = {x}
        BY <1>2, <3>1, <4>1
      <4>3. o = Append(q, x) /\ o \in Seq(MessageType)
        <5>1. SetToSeq(queued) = <<x>>
          BY <4>2, ListsOne
        <5> QED
          BY <2>5, <5>1, AppendIsConcat, AppendProperties
      <4>4. u = x.enqueued /\ u \in Nat /\ entry.recorded \in Nat
        <5>1. entry.recorded \in Nat /\ x.enqueued \in Nat
          BY DEF LedgerType, MessageType
        <5>2. {entry.recorded} \cup {y.enqueued : y \in queued} = {entry.recorded, x.enqueued}
          BY <4>2
        <5>3. Max({entry.recorded, x.enqueued}) = x.enqueued
          BY <4>1, <5>1, MaxIs
        <5> QED
          BY <1>4, <5>1, <5>2, <5>3
      <4> QED
        BY <2>3, <3>1, <4>1, <4>3, <4>4
    <3>2. CASE e.kind # "message"
      <4>1. queued = {}
        BY <1>2, <3>2
      <4>2. o = q
        <5>1. SetToSeq(queued) = <<>>
          BY <4>1, ListsNone
        <5> QED
          BY <2>5, <5>1, ConcatEmptySeq
      <4>3. u = entry.recorded /\ u \in Nat
        <5>1. entry.recorded \in Nat
          BY DEF LedgerType
        <5>2. {entry.recorded} \cup {y.enqueued : y \in queued} = {entry.recorded}
          BY <4>1
        <5>3. Max({entry.recorded}) = entry.recorded
          BY <5>1, MaxIs
        <5> QED
          BY <1>4, <5>1, <5>2, <5>3
      <4> QED
        BY <3>2, <4>2, <4>3
    <3> QED
      BY <3>1, <3>2
  <2>8. PICK v \in Nat : v = Larger(img.updated, u) /\ v >= img.updated /\ v >= u
    <3>1. img.updated \in Nat
      BY DEF ImageType
    <3> QED
      BY <2>7, <3>1, LargerIs
  <2>9. new = [sessions |-> img.sessions, runs |-> img.runs, inputs |-> img.inputs,
               ledger |-> m, queue |-> o, outbox |-> img.outbox, updated |-> v]
    BY <1>3, <2>1, <2>4, <2>5, <2>8 DEF Touch, ImageType
  <2>10. new \in ImageType
    BY <2>6, <2>7, <2>9 DEF ImageType
  <2>11. img.updated \in Nat /\ entry.recorded \in Nat
    BY DEF ImageType, LedgerType
  <2>12. v >= entry.recorded
    BY <2>7, <2>8, <2>11
  <2>13. \/ e.kind # "message" /\ new.queue = img.queue
         \/ /\ e.kind = "message" /\ e.session \in SessionId
            /\ Queued(img, e, t) \in MessageType
            /\ new.queue = Append(img.queue, Queued(img, e, t))
            /\ new.updated >= Queued(img, e, t).enqueued
    <3>1. CASE e.kind # "message" /\ o = q
      BY <2>4, <2>9, <3>1
    <3>2. CASE /\ e.kind = "message" /\ e.session \in SessionId
               /\ Queued(img, e, t) \in MessageType
               /\ o = Append(q, Queued(img, e, t))
               /\ u >= Queued(img, e, t).enqueued
      <4>1. Queued(img, e, t).enqueued \in Nat
        BY <3>2 DEF MessageType
      <4>2. v >= Queued(img, e, t).enqueued
        BY <2>7, <2>8, <3>2, <4>1
      <4> QED
        BY <2>4, <2>9, <3>2, <4>2
    <3> QED
      BY <2>7, <3>1, <3>2
  <2> QED
    BY <1>1, <1>6, <2>1, <2>4, <2>5, <2>8, <2>9, <2>10, <2>12, <2>13 DEF Arrived
<1> QED
  BY <1>5, <1>6

-----------------------------------------------------------------------------
(* What validation finds in an image of the right type, by its parts.      *)
LEMMA StaticPartsValid ==
  ASSUME NEW img \in ImageType
  PROVE  SessionsValid(img) /\ OutboxValid(img) /\ OutputsValid(img)
<1>1. img.sessions = WithSessions.sessions /\ img.outbox = <<>> /\ img.updated \in Nat
  BY DEF ImageType
<1>2. SessionsValid(img)
  <2>1. \A x \in ToSet(img.sessions) : x.created = 0 /\ x.updated = 0
    BY <1>1, SessionsKnown
  <2>2. DistinctIds(img.sessions)
    BY <1>1, SessionsKnown
  <2> QED
    BY <1>1, <2>1, <2>2 DEF SessionsValid
<1>3. OutboxValid(img)
  BY <1>1, ElementsEmpty DEF OutboxValid, DistinctIds
<1>4. OutputsValid(img)
  <2>1. \A run \in ToSet(img.runs) : run.outputs = <<>>
    <3>1. img.runs \in Seq(RunType)
      BY DEF ImageType
    <3>2. ToSet(img.runs) \subseteq RunType
      BY <3>1, ElementsType
    <3> QED
      BY <3>2 DEF RunType
  <2> QED
    BY <2>1, ElementsEmpty DEF OutputsValid
<1> QED
  BY <1>2, <1>3, <1>4

LEMMA RecordedType ==
  ASSUME NEW img \in ImageType, NEW m, Has(img.ledger, m.id)
  PROVE  RecordedAt(img, m) \in Nat /\ Position(img, m.id) \in Nat
<1>1. img.ledger \in Seq(LedgerType)
  BY DEF ImageType
<1>2. Position(img, m.id) \in DOMAIN img.ledger
  BY PositionOf
<1>3. DOMAIN img.ledger = 1..Len(img.ledger) /\ Len(img.ledger) \in Nat
  BY <1>1, LenProperties
<1>4. img.ledger[Position(img, m.id)] \in LedgerType
  BY <1>1, <1>2, <1>3, ElementOfSeq
<1> QED
  BY <1>2, <1>3, <1>4 DEF RecordedAt, LedgerType

LEMMA OwnedType ==
  ASSUME NEW img \in ImageType, NEW s
  PROVE  /\ OwnershipOf(img, s) \in Seq(MessageType)
         /\ Len(OwnershipOf(img, s)) \in Nat
         /\ DOMAIN OwnershipOf(img, s) = 1..Len(OwnershipOf(img, s))
         /\ \A i \in DOMAIN OwnershipOf(img, s) : OwnershipOf(img, s)[i] \in MessageType
<1>1. OwnershipOf(img, s) \in Seq(MessageType)
  <2>1. img.inputs \in Seq(InputType) /\ img.queue \in Seq(MessageType)
    BY DEF ImageType
  <2> QED
    BY <2>1, OwnershipIs
<1> QED
  BY <1>1, LenProperties, ElementOfSeq

LEMMA OrderedIsValid ==
  ASSUME NEW img \in ImageType, \A s \in SessionId : Ordered(img, s)
  PROVE  OwnershipValid(img)
<1>1. ASSUME NEW s \in SessionsIn(img.queue) \cup {img.inputs[i].session : i \in DOMAIN img.inputs}
      PROVE  s \in SessionId
  <2>1. img.inputs \in Seq(InputType) /\ img.queue \in Seq(MessageType)
    BY DEF ImageType
  <2>2. \A i \in DOMAIN img.inputs : img.inputs[i] \in InputType
    BY <2>1, LenProperties, ElementOfSeq
  <2>3. \A i \in DOMAIN img.queue : img.queue[i] \in MessageType
    BY <2>1, LenProperties, ElementOfSeq
  <2> QED
    BY <1>1, <2>2, <2>3 DEF SessionsIn, MessageType, InputType
<1>2. ASSUME NEW s \in SessionId, NEW owned, owned = OwnershipOf(img, s)
      PROVE  /\ NonDecreasing([i \in DOMAIN owned |-> owned[i].enqueued])
             /\ Increasing([i \in DOMAIN owned |-> Position(img, owned[i].id)])
  <2>1. PICK n \in Nat : DOMAIN owned = 1..n /\ \A i \in 1..n : owned[i].enqueued \in Nat
    <3>1. DOMAIN owned = 1..Len(owned) /\ Len(owned) \in Nat /\ \A i \in DOMAIN owned : owned[i] \in MessageType
      BY <1>2, OwnedType
    <3> QED
      BY <3>1 DEF MessageType
  <2>2. \A i \in 1..n :
          /\ Has(img.ledger, owned[i].id)
          /\ \A j \in 1..i : RecordedAt(img, owned[j]) <= owned[i].enqueued
          /\ \E j \in 1..i : owned[i].enqueued = RecordedAt(img, owned[j])
          /\ \A j \in 1..(i - 1) : Position(img, owned[j].id) < Position(img, owned[i].id)
    BY <1>2, <2>1 DEF Ordered
  <2>3. ASSUME NEW i \in 1..n, NEW j \in 1..n, i < j
        PROVE  /\ owned[i].enqueued <= owned[j].enqueued
               /\ Position(img, owned[i].id) < Position(img, owned[j].id)
    <3>1. PICK k \in 1..i : owned[i].enqueued = RecordedAt(img, owned[k])
      BY <2>2
    <3>2. k \in 1..j /\ i \in 1..(j - 1)
      BY <2>3
    <3>3. RecordedAt(img, owned[k]) <= owned[j].enqueued
      BY <2>2, <3>2
    <3>4. Position(img, owned[i].id) < Position(img, owned[j].id)
      BY <2>2, <3>2
    <3> QED
      BY <3>1, <3>3, <3>4
  <2> QED
    BY <2>1, <2>3 DEF NonDecreasing, Increasing
<1> QED
  BY <1>1, <1>2 DEF OwnershipValid

-----------------------------------------------------------------------------
(* An arrival leaves a sound image sound.                                  *)
LEMMA ArrivalLedger ==
  ASSUME NEW img, Sound(img), NEW e \in Event, NEW t \in Nat, NEW new, Arrived(img, e, t, new)
  PROVE  /\ LedgerValid(new)
         /\ \A m : MatchesLedger(img, m) => MatchesLedger(new, m)
         /\ Has(new.ledger, e.id) /\ new.ledger[Position(new, e.id)] = Entry(e, t)
         /\ \A id : Has(img.ledger, id) =>
              /\ Has(new.ledger, id)
              /\ Position(new, id) = Position(img, id)
              /\ new.ledger[Position(new, id)] = img.ledger[Position(img, id)]
              /\ Position(new, id) < Position(new, e.id)
<1>1. PICK entry \in LedgerType : entry = Entry(e, t)
  BY EntryType
<1>2. entry.id = e.id
  BY <1>1 DEF Entry
<1>3. /\ img \in ImageType /\ DistinctIds(img.ledger)
      /\ \A x \in ToSet(img.ledger) : x.received <= x.recorded /\ x.recorded <= img.updated
  BY DEF Sound, Valid, LedgerValid
<1>4. new.ledger = Append(img.ledger, entry) /\ ~Has(img.ledger, entry.id) /\ new \in ImageType
  BY <1>1, <1>2 DEF Arrived
<1>5. /\ DistinctIds(new.ledger)
      /\ ToSet(new.ledger) = ToSet(img.ledger) \cup {entry}
      /\ Has(new.ledger, entry.id) /\ new.ledger[Position(new, entry.id)] = entry
      /\ \A id : Has(img.ledger, id) =>
           /\ Has(new.ledger, id)
           /\ Position(new, id) = Position(img, id)
           /\ new.ledger[Position(new, id)] = img.ledger[Position(img, id)]
           /\ Position(new, id) < Position(new, entry.id)
  <2>1. LedgerGrew(img, entry, new)
    BY <1>3, <1>4, LedgerGrows
  <2> QED
    BY <2>1 DEF LedgerGrew
<1>6. LedgerValid(new)
  <2>1. entry.received <= entry.recorded
    <3>1. e.received \in Nat
      BY QueueAssumption
    <3> QED
      BY <1>1, <3>1, LargerIs DEF Entry
  <2>2. entry.recorded <= new.updated
    <3>1. new.updated \in Nat /\ entry.recorded \in Nat /\ new.updated >= entry.recorded
      BY <1>1, <1>4 DEF Arrived, ImageType, LedgerType
    <3> QED
      BY <3>1
  <2>3. ASSUME NEW x \in ToSet(img.ledger) PROVE x.recorded <= new.updated
    <3>1. x \in LedgerType
      <4>1. img.ledger \in Seq(LedgerType)
        BY <1>3 DEF ImageType
      <4> QED
        BY <4>1, ElementsType
    <3>2. img.updated \in Nat /\ new.updated \in Nat /\ new.updated >= img.updated
      BY <1>3, <1>4 DEF Arrived, ImageType
    <3> QED
      BY <1>3, <3>1, <3>2 DEF LedgerType
  <2> QED
    BY <1>3, <1>5, <2>1, <2>2, <2>3 DEF LedgerValid
<1>7. \A m : MatchesLedger(img, m) => MatchesLedger(new, m)
  BY <1>5 DEF MatchesLedger, Find
<1> QED
  BY <1>1, <1>2, <1>5, <1>6, <1>7

(* Who has claimed what depends on the inputs and the queue alone.         *)
(* What arrives was in no ledger, what is claimed is in it.                *)
LEMMA ArrivalClaims ==
  ASSUME NEW img, Sound(img), NEW e \in Event, NEW t \in Nat, NEW new, Arrived(img, e, t, new)
  PROVE  ClaimedOnce(new)
<1>1. new.inputs = img.inputs /\ ClaimedOnce(img) /\ InputsValid(img)
  BY DEF Sound, Arrived, Valid, InputsValid
<1>2. CASE new.queue = img.queue
  BY <1>1, <1>2, SameClaims
<1>3. CASE /\ new.queue = Append(img.queue, Queued(img, e, t))
           /\ Queued(img, e, t).id = e.id /\ Queued(img, e, t) \in MessageType
  <2>1. Claimed(new) = Claimed(img)
    BY <1>1 DEF Claimed
  <2>2. \A m \in Claimed(img) : Has(img.ledger, m.id)
    BY <1>1 DEF Claimed, InputsValid, MatchesLedger, Find, Has, ToSet
  <2>3. \A m \in Claimed(img) : m.id # e.id
    BY <2>2 DEF Arrived
  <2>4. PICK m \in MessageType : Append(img.queue, m) = new.queue /\ m.id = e.id
    BY <1>3
  <2> DEFINE q == new.queue
  <2>5. \A i \in DOMAIN q : q[i].id = e.id \/ (i \in DOMAIN img.queue /\ q[i] = img.queue[i])
    <3>1. img.queue \in Seq(MessageType)
      BY DEF Sound, ImageType
    <3>2. PICK n \in Nat : n = Len(img.queue) /\ DOMAIN img.queue = 1..n
      BY <3>1, LenProperties
    <3>3. DOMAIN q = 1..(n + 1) /\ q[n + 1] = m /\ \A i \in 1..n : q[i] = img.queue[i]
      BY <2>4, <3>1, <3>2, PositionsAppend
    <3>4. \A i \in 1..(n + 1) : i = n + 1 \/ i \in 1..n
      OBVIOUS
    <3>5. q[n + 1].id = e.id
      BY <2>4, <3>3
    <3> HIDE DEF q
    <3> QED
      BY <3>2, <3>3, <3>4, <3>5
  <2> QED
    BY <1>1, <2>1, <2>3, <2>4, <2>5 DEF ClaimedOnce, Has
<1> QED
  BY <1>2, <1>3, QueuedType DEF Arrived, Sound

LEMMA ArrivalRuns ==
  ASSUME NEW img, Sound(img), NEW e \in Event, NEW t \in Nat, NEW new, Arrived(img, e, t, new)
  PROVE  RunsValid(new) /\ InputsValid(new)
<1>1. img \in ImageType /\ new \in ImageType
  BY DEF Sound, Arrived
<1>2. /\ new.runs = img.runs /\ new.inputs = img.inputs /\ new.sessions = img.sessions
      /\ img.updated \in Nat /\ new.updated \in Nat /\ new.updated >= img.updated
  BY <1>1 DEF Arrived, ImageType
<1>3. RunsValid(img) /\ InputsValid(img)
  BY DEF Sound, Valid
<1>4. \A run \in ToSet(img.runs) : run.updated \in Nat
  <2>1. img.runs \in Seq(RunType)
    BY <1>1 DEF ImageType
  <2>2. ToSet(img.runs) \subseteq RunType
    BY <2>1, ElementsType
  <2> QED
    BY <2>2 DEF RunType
<1>5. \A input \in ToSet(img.inputs) : input.claimed \in Nat
  <2>1. img.inputs \in Seq(InputType)
    BY <1>1 DEF ImageType
  <2>2. ToSet(img.inputs) \subseteq InputType
    BY <2>1, ElementsType
  <2> QED
    BY <2>2 DEF InputType
<1>6. RunsValid(new)
  <2>1. \A run \in ToSet(new.runs) : run.updated <= new.updated
    BY <1>2, <1>3, <1>4 DEF RunsValid
  <2> QED
    BY <1>2, <1>3, <2>1 DEF RunsValid
<1>7. InputsValid(new)
  <2>1. \A input \in ToSet(new.inputs) : input.claimed <= new.updated
    BY <1>2, <1>3, <1>5 DEF InputsValid
  <2>2. \A m : MatchesLedger(img, m) => MatchesLedger(new, m)
    BY ArrivalLedger
  <2> QED
    BY <1>2, <1>3, <2>1, <2>2, ArrivalClaims DEF InputsValid
<1> QED
  BY <1>6, <1>7

LEMMA ArrivalQueue ==
  ASSUME NEW img, Sound(img), NEW e \in Event, NEW t \in Nat, NEW new, Arrived(img, e, t, new)
  PROVE  QueueValid(new)
<1>1. /\ img \in ImageType /\ new \in ImageType /\ new.sessions = img.sessions
      /\ img.updated \in Nat /\ new.updated \in Nat /\ new.updated >= img.updated
  BY DEF Sound, Arrived, ImageType
<1>2. QueueValid(img)
  BY DEF Sound, Valid
<1>3. PICK n \in Nat : DOMAIN img.queue = 1..n /\ n = Len(img.queue)
  <2>1. img.queue \in Seq(MessageType)
    BY <1>1 DEF ImageType
  <2> QED
    BY <2>1, LenProperties
<1>4. \A i \in 1..n : img.queue[i] \in ToSet(img.queue) /\ img.queue[i] \in MessageType
  <2>1. img.queue \in Seq(MessageType)
    BY <1>1 DEF ImageType
  <2> QED
    BY <1>3, <2>1, ElementOfSeq DEF ToSet
<1>5. \A i \in 1..n : Has(img.ledger, img.queue[i].id)
  BY <1>2, <1>4 DEF QueueValid, MatchesLedger, Find, ToSet, Has
<1>6. \A i \in 1..n : /\ Position(new, img.queue[i].id) = Position(img, img.queue[i].id)
                      /\ Position(new, img.queue[i].id) < Position(new, e.id)
  BY <1>5, ArrivalLedger
<1>7. \A i, j \in 1..n : i < j => Position(new, img.queue[i].id) < Position(new, img.queue[j].id)
  BY <1>2, <1>3, <1>6 DEF QueueValid, Increasing
<1>8. \A m \in ToSet(img.queue) : /\ MessageWellFormed(m)
                                  /\ MatchesLedger(new, m)
                                  /\ Has(new.sessions, m.session)
                                  /\ m.enqueued <= new.updated
  <2>1. \A m \in ToSet(img.queue) : m.enqueued <= new.updated
    <3>1. \A m \in ToSet(img.queue) : m.enqueued \in Nat
      <4>1. \A m \in ToSet(img.queue) : m \in MessageType
        BY <1>3, <1>4 DEF ToSet
      <4> QED
        BY <4>1 DEF MessageType
    <3> QED
      BY <1>1, <1>2, <3>1 DEF QueueValid
  <2>2. \A m : MatchesLedger(img, m) => MatchesLedger(new, m)
    BY ArrivalLedger
  <2> QED
    BY <1>1, <1>2, <2>1, <2>2 DEF QueueValid
<1>9. CASE new.queue = img.queue
  <2>1. Increasing([i \in DOMAIN new.queue |-> Position(new, new.queue[i].id)])
    BY <1>3, <1>7, <1>9 DEF Increasing
  <2> QED
    BY <1>2, <1>8, <1>9, <2>1 DEF QueueValid
<1>10. CASE /\ e.session \in SessionId
            /\ Queued(img, e, t) \in MessageType
            /\ new.queue = Append(img.queue, Queued(img, e, t))
            /\ new.updated >= Queued(img, e, t).enqueued
  <2>1. PICK m \in MessageType :
          /\ m = Queued(img, e, t) /\ m.id = e.id /\ m.session = e.session
          /\ m.received = e.received /\ m.enqueued >= Entry(e, t).recorded
    BY <1>1, <1>10, QueuedType
  <2>2. PICK q : q = new.queue
    OBVIOUS
  <2>3. /\ DOMAIN q = 1..(n + 1) /\ q[n + 1] = m /\ \A i \in 1..n : q[i] = img.queue[i]
        /\ ToSet(q) = ToSet(img.queue) \cup {m}
    <3>1. img.queue \in Seq(MessageType) /\ q = Append(img.queue, m)
      BY <1>1, <1>10, <2>1, <2>2 DEF ImageType
    <3> QED
      BY <1>3, <3>1, PositionsAppend, ElementsAppend
  <2>4. Increasing([i \in DOMAIN q |-> Position(new, q[i].id)])
    <3>1. ASSUME NEW i \in 1..(n + 1), NEW j \in 1..(n + 1), i < j
          PROVE  Position(new, q[i].id) < Position(new, q[j].id)
      <4>1. i \in 1..n /\ q[i] = img.queue[i]
        BY <2>3, <3>1
      <4>2. CASE j = n + 1
        BY <1>6, <2>1, <2>3, <4>1, <4>2
      <4>3. CASE j # n + 1
        BY <1>7, <2>3, <3>1, <4>1, <4>3
      <4> QED
        BY <4>2, <4>3
    <3> QED
      BY <2>3, <3>1 DEF Increasing
  <2>5. DistinctIds(q)
    <3>1. ASSUME NEW i \in 1..(n + 1), NEW j \in 1..(n + 1), q[i].id = q[j].id PROVE i = j
      <4>1. \A k \in 1..n : img.queue[k].id # e.id
        <5>1. ~Has(img.ledger, e.id)
          BY DEF Arrived
        <5> QED
          BY <1>5, <5>1
      <4>2. CASE i \in 1..n /\ j \in 1..n
        BY <1>2, <1>3, <2>3, <3>1, <4>2 DEF QueueValid, DistinctIds
      <4>3. CASE i = n + 1 /\ j \in 1..n
        BY <2>1, <2>3, <3>1, <4>1, <4>3
      <4>4. CASE i \in 1..n /\ j = n + 1
        BY <2>1, <2>3, <3>1, <4>1, <4>4
      <4>5. CASE i = n + 1 /\ j = n + 1
        BY <4>5
      <4> QED
        BY <4>2, <4>3, <4>4, <4>5
    <3> QED
      BY <2>3, <3>1 DEF DistinctIds
  <2>6. MessageWellFormed(m) /\ MatchesLedger(new, m) /\ Has(new.sessions, m.session) /\ m.enqueued <= new.updated
    <3>1. e.received \in Nat /\ Entry(e, t).recorded >= e.received /\ Entry(e, t).recorded \in Nat
      <4>1. e.received \in Nat
        BY QueueAssumption
      <4> QED
        BY <4>1, EntryType, LargerIs DEF LedgerType
    <3>2. MessageWellFormed(m)
      <4>1. m.session # None /\ m.enqueued \in Nat
        BY <1>10, <2>1, QueueAssumption DEF MessageType
      <4> QED
        BY <2>1, <3>1, <4>1 DEF MessageWellFormed
    <3>3. MatchesLedger(new, m)
      <4>1. /\ Has(new.ledger, e.id) /\ new.ledger[Position(new, e.id)] = Entry(e, t)
            /\ Position(new, e.id) \in DOMAIN new.ledger
        BY ArrivalLedger, PositionOf
      <4>2. Entry(e, t) \in Find(new.ledger, m.id)
        <5>1. Entry(e, t).id = e.id
          BY DEF Entry
        <5> QED
          BY <2>1, <4>1, <5>1 DEF Find, ToSet
      <4>3. Entry(e, t).received = e.received
        BY DEF Entry
      <4> QED
        BY <2>1, <4>2, <4>3 DEF MatchesLedger
    <3>4. Has(new.sessions, m.session)
      <4>1. new.sessions = WithSessions.sessions
        BY <1>1 DEF ImageType
      <4> QED
        BY <1>10, <2>1, <4>1, SessionsKnown
    <3>5. m.enqueued <= new.updated
      BY <1>1, <1>10, <2>1 DEF MessageType
    <3> QED
      BY <3>2, <3>3, <3>4, <3>5
  <2> QED
    BY <1>8, <2>2, <2>3, <2>4, <2>5, <2>6 DEF QueueValid
<1> QED
  BY <1>9, <1>10 DEF Arrived

LEMMA ArrivalOrdered ==
  ASSUME NEW img, Sound(img), NEW e \in Event, NEW t \in Nat, NEW new, Arrived(img, e, t, new),
         NEW s \in SessionId
  PROVE  Ordered(new, s)
<1>1. img \in ImageType /\ new \in ImageType /\ new.inputs = img.inputs /\ Ordered(img, s)
  BY DEF Sound, Arrived
<1>2. img.inputs \in Seq(InputType) /\ img.queue \in Seq(MessageType)
  BY <1>1 DEF ImageType
<1>3. PICK owned : owned = OwnershipOf(img, s)
  OBVIOUS
<1>4. PICK n \in Nat : n = Len(owned) /\ DOMAIN owned = 1..n /\ owned \in Seq(MessageType)
                       /\ \A i \in 1..n : owned[i] \in MessageType /\ owned[i].enqueued \in Nat
  <2>1. /\ owned \in Seq(MessageType) /\ Len(owned) \in Nat /\ DOMAIN owned = 1..Len(owned)
        /\ \A i \in DOMAIN owned : owned[i] \in MessageType
    BY <1>1, <1>3, OwnedType
  <2> QED
    BY <2>1 DEF MessageType
<1>5. \A i \in 1..n :
        /\ Has(img.ledger, owned[i].id)
        /\ \A j \in 1..i : RecordedAt(img, owned[j]) <= owned[i].enqueued
        /\ \E j \in 1..i : owned[i].enqueued = RecordedAt(img, owned[j])
        /\ \A j \in 1..(i - 1) : Position(img, owned[j].id) < Position(img, owned[i].id)
  BY <1>1, <1>3, <1>4 DEF Ordered
<1>6. \A i \in 1..n :
        /\ Has(new.ledger, owned[i].id)
        /\ RecordedAt(new, owned[i]) = RecordedAt(img, owned[i])
        /\ Position(new, owned[i].id) = Position(img, owned[i].id)
        /\ Position(new, owned[i].id) < Position(new, e.id)
  BY <1>5, ArrivalLedger DEF RecordedAt
<1>7. ASSUME NEW i \in 1..n
      PROVE  /\ Has(new.ledger, owned[i].id)
             /\ \A j \in 1..i : RecordedAt(new, owned[j]) <= owned[i].enqueued
             /\ \E j \in 1..i : owned[i].enqueued = RecordedAt(new, owned[j])
             /\ \A j \in 1..(i - 1) : Position(new, owned[j].id) < Position(new, owned[i].id)
  <2>1. \A j \in 1..i : j \in 1..n
    OBVIOUS
  <2>2. \A j \in 1..(i - 1) : j \in 1..n
    OBVIOUS
  <2> QED
    BY <1>5, <1>6, <2>1, <2>2
<1>8. CASE OwnershipOf(new, s) = owned
  BY <1>4, <1>7, <1>8 DEF Ordered
<1>9. CASE /\ e.session = s
           /\ Queued(img, e, t) \in MessageType
           /\ OwnershipOf(new, s) = Append(owned, Queued(img, e, t))
  <2>1. PICK m \in MessageType :
          /\ m = Queued(img, e, t) /\ m.id = e.id
          /\ m.enqueued >= Entry(e, t).recorded /\ m.enqueued >= LastEnqueued(img, s)
          /\ m.enqueued \in {Entry(e, t).recorded, LastEnqueued(img, s)}
    BY <1>1, <1>9, QueuedType
  <2>2. PICK longer : longer = OwnershipOf(new, s)
    OBVIOUS
  <2>3. DOMAIN longer = 1..(n + 1) /\ longer[n + 1] = m /\ \A i \in 1..n : longer[i] = owned[i]
    BY <1>4, <1>9, <2>1, <2>2, PositionsAppend
  <2>4. PICK last \in Nat :
          /\ last = LastEnqueued(img, s)
          /\ \A i \in 1..n : owned[i].enqueued <= last
          /\ last = 0 \/ \E i \in 1..n : last = owned[i].enqueued
    BY <1>2, <1>3, <1>4, LastEnqueuedIs
  <2>5. /\ Has(new.ledger, m.id) /\ RecordedAt(new, m) = Entry(e, t).recorded
        /\ Entry(e, t).recorded \in Nat /\ m.enqueued \in Nat
    BY <2>1, ArrivalLedger, EntryType DEF RecordedAt, LedgerType, MessageType
  <2>6. ASSUME NEW j \in 1..(n + 1) PROVE RecordedAt(new, longer[j]) <= m.enqueued
    <3>1. CASE j = n + 1
      BY <2>1, <2>3, <2>5, <3>1
    <3>2. CASE j \in 1..n
      <4>1. RecordedAt(new, owned[j]) <= owned[j].enqueued
        <5>1. j \in 1..j
          BY <3>2
        <5> QED
          BY <1>7, <3>2, <5>1
      <4>2. owned[j].enqueued <= last /\ owned[j].enqueued \in Nat /\ RecordedAt(new, owned[j]) \in Nat
        <5>1. RecordedAt(new, owned[j]) \in Nat
          BY <1>1, <1>7, <3>2, RecordedType
        <5> QED
          BY <1>4, <2>4, <3>2, <5>1
      <4> QED
        BY <2>1, <2>3, <2>4, <2>5, <3>2, <4>1, <4>2
    <3> QED
      BY <3>1, <3>2
  <2>7. \E j \in 1..(n + 1) : m.enqueued = RecordedAt(new, longer[j])
    <3>1. CASE m.enqueued = Entry(e, t).recorded
      <4>1. n + 1 \in 1..(n + 1)
        OBVIOUS
      <4> QED
        BY <2>3, <2>5, <3>1, <4>1
    <3>2. CASE m.enqueued # Entry(e, t).recorded
      <4>1. m.enqueued = last /\ last # 0
        BY <2>1, <2>4, <2>5, <3>2
      <4>2. PICK i \in 1..n : last = owned[i].enqueued
        BY <2>4, <4>1
      <4>3. PICK j \in 1..i : owned[i].enqueued = RecordedAt(new, owned[j])
        BY <1>7
      <4>4. j \in 1..n /\ j \in 1..(n + 1)
        OBVIOUS
      <4> QED
        BY <2>3, <4>1, <4>2, <4>3, <4>4
    <3> QED
      BY <3>1, <3>2
  <2>8. ASSUME NEW i \in 1..(n + 1)
        PROVE  /\ Has(new.ledger, longer[i].id)
               /\ \A j \in 1..i : RecordedAt(new, longer[j]) <= longer[i].enqueued
               /\ \E j \in 1..i : longer[i].enqueued = RecordedAt(new, longer[j])
               /\ \A j \in 1..(i - 1) : Position(new, longer[j].id) < Position(new, longer[i].id)
    <3>1. CASE i \in 1..n
      <4>1. \A j \in 1..i : longer[j] = owned[j]
        BY <2>3, <3>1
      <4>2. \A j \in 1..(i - 1) : longer[j] = owned[j]
        BY <2>3, <3>1
      <4>3. longer[i] = owned[i]
        BY <2>3, <3>1
      <4> QED
        BY <1>7, <3>1, <4>1, <4>2, <4>3
    <3>2. CASE i = n + 1
      <4>1. longer[i] = m
        BY <2>3, <3>2
      <4>2. \A j \in 1..(i - 1) : j \in 1..n /\ longer[j] = owned[j]
        BY <2>3, <3>2
      <4>3. \A j \in 1..(i - 1) : Position(new, longer[j].id) < Position(new, m.id)
        BY <1>6, <2>1, <4>2
      <4> QED
        BY <2>5, <2>6, <2>7, <3>2, <4>1, <4>3
    <3> QED
      BY <3>1, <3>2
  <2> QED
    BY <2>2, <2>3, <2>8 DEF Ordered
<1>10. \/ OwnershipOf(new, s) = owned
       \/ /\ e.session = s
          /\ Queued(img, e, t) \in MessageType
          /\ OwnershipOf(new, s) = Append(owned, Queued(img, e, t))
  <2>1. CASE new.queue = img.queue
    BY <1>1, <1>3, <2>1 DEF OwnershipOf
  <2>2. CASE /\ e.session \in SessionId
             /\ Queued(img, e, t) \in MessageType
             /\ new.queue = Append(img.queue, Queued(img, e, t))
    <3>1. PICK m \in MessageType : m = Queued(img, e, t) /\ m.session = e.session
      BY <1>1, <2>2, QueuedType
    <3>2. OwnershipOf(new, s) = IF m.session = s THEN Append(OwnershipOf(img, s), m)
                                ELSE OwnershipOf(img, s)
      BY <1>1, <1>2, <2>2, <3>1, OwnershipAfterArrival
    <3> QED
      BY <1>3, <3>1, <3>2
  <2> QED
    BY <2>1, <2>2 DEF Arrived
<1> QED
  BY <1>8, <1>9, <1>10

LEMMA ArrivalSound ==
  ASSUME NEW img, Sound(img), NEW e \in Event, NEW t \in Nat, NEW new, Arrived(img, e, t, new)
  PROVE  Sound(new)
<1>1. new \in ImageType
  BY DEF Arrived
<1>2. \A s \in SessionId : Ordered(new, s)
  BY ArrivalOrdered
<1>3. LedgerValid(new) /\ RunsValid(new) /\ InputsValid(new) /\ QueueValid(new)
  BY ArrivalLedger, ArrivalRuns, ArrivalQueue
<1>4. EachRunClaimed(new)
  BY DEF Arrived, Sound, EachRunClaimed
<1>5. QueuedAsSent(new)
  <2>1. img \in ImageType /\ img.queue \in Seq(MessageType) /\ QueuedAsSent(img)
    BY DEF Sound, ImageType
  <2>2. CASE new.queue = img.queue
    BY <2>1, <2>2 DEF QueuedAsSent
  <2>3. ASSUME NEW m \in MessageType, new.queue = Append(img.queue, m),
               m.id = e.id, m.session = e.session, e.kind = "message"
        PROVE  QueuedAsSent(new)
    <3>1. ToSet(Append(img.queue, m)) = ToSet(img.queue) \cup {m}
      BY <2>1, ElementsAppend
    <3> QED
      BY <2>1, <2>3, <3>1 DEF QueuedAsSent
  <2> QED
    BY <2>1, <2>2, <2>3, QueuedType DEF Arrived
<1> QED
  BY <1>1, <1>2, <1>3, <1>4, <1>5, StaticPartsValid, OrderedIsValid DEF Sound, Valid

-----------------------------------------------------------------------------
(* Which session is served, and when.                                      *)
LEMMA MessagesWait ==
  ASSUME NEW queue \in Seq(MessageType), NEW s
  PROVE  /\ MessagesOf(queue, s) \in Seq(MessageType)
         /\ s \in SessionsIn(queue) <=> MessagesOf(queue, s) # <<>>
         /\ s \in SessionsIn(queue) => s \in SessionId
<1>1. PICK mine \in Seq(MessageType) :
        mine = MessagesOf(queue, s) /\ ToSet(mine) = {m \in ToSet(queue) : m.session = s}
  <2>1. /\ MessagesOf(queue, s) \in Seq(MessageType)
        /\ ToSet(MessagesOf(queue, s)) = {m \in ToSet(queue) : m.session = s}
    BY MessagesType
  <2> QED
    BY <2>1
<1>2. ToSet(mine) = {} <=> mine = <<>>
  BY ElementsEmpty
<1>3. s \in SessionsIn(queue) <=> ToSet(mine) # {}
  BY <1>1 DEF SessionsIn, ToSet
<1>4. s \in SessionsIn(queue) => s \in SessionId
  <2>1. ToSet(queue) \subseteq MessageType
    BY ElementsType
  <2> QED
    BY <2>1 DEF SessionsIn, ToSet, MessageType
<1> QED
  BY <1>1, <1>2, <1>3, <1>4

LEMMA TypesTimed ==
  Timed(MessageType)
BY QueueAssumption DEF Timed, MessageType

LEMMA ReadyAtType ==
  ASSUME NEW messages \in Seq(MessageType), messages # <<>>
  PROVE  ReadyAt(messages) \in Nat
BY TypesTimed, ReadyAtIs

LEMMA SessionReadyAt ==
  ASSUME NEW queue \in Seq(MessageType), NEW s \in SessionsIn(queue)
  PROVE  ReadyAt(MessagesOf(queue, s)) \in Nat /\ s \in SessionId /\ s \in Nat
<1>1. MessagesOf(queue, s) \in Seq(MessageType) /\ MessagesOf(queue, s) # <<>> /\ s \in SessionId
  BY MessagesWait
<1> QED
  BY <1>1, ReadyAtType, QueueAssumption

LEMMA FirstIsOne ==
  ASSUME NEW queue \in Seq(MessageType), NEW ready \in SUBSET SessionsIn(queue), ready # {}
  PROVE  FirstOf(queue, ready) \in ready
BY TypesTimed, FirstIsReady

-----------------------------------------------------------------------------
(* A claim of a batch of s, as run id at time t.                           *)
ClaimedInput(img, id, t, s) ==
  [id |-> id, session |-> s, messages |-> Prefix(MessagesOf(img.queue, s), MaxBatch),
   ready |-> ReadyAt(MessagesOf(img.queue, s)), claimed |-> t]

Claims(img, id, t, s, new) ==
  LET input == ClaimedInput(img, id, t, s)
  IN /\ s \in FreeSessions(img) /\ s \in SessionId
     /\ input \in InputType /\ InputWellFormed(input)
     /\ NewRun(id, s, t) \in RunType
     /\ ~Has(img.runs, id)
     /\ \A old \in ToSet(img.runs) : old.session = s => IsTerminal(old)
     /\ new \in ImageType
     /\ new.sessions = img.sessions
     /\ new.runs = Append(img.runs, NewRun(id, s, t))
     /\ new.inputs = Append(img.inputs, input)
     /\ new.ledger = img.ledger
     /\ new.queue = Select(img.queue, ToSet(img.queue) \ ToSet(input.messages))
     /\ new.updated >= img.updated /\ new.updated >= t

LEMMA ClaimShape ==
  ASSUME NEW img \in ImageType, NEW id \in Nat, NEW t \in Nat, NEW new \in ClaimBatch(img, id, t)
  PROVE  \E s : Claims(img, id, t, s, new)
<1>1. /\ img.queue \in Seq(MessageType) /\ img.inputs \in Seq(InputType)
      /\ img.runs \in Seq(RunType) /\ img.updated \in Nat
  BY DEF ImageType
<1>2. PICK ready : ready = ReadySessions(img.queue, t, FreeSessions(img))
  OBVIOUS
<1>3. PICK s : s = FirstOf(img.queue, ready)
  OBVIOUS
<1>4. PICK input : input = ClaimedInput(img, id, t, s)
  OBVIOUS
<1>5. PICK kept : kept = Select(img.queue, ToSet(img.queue) \ ToSet(input.messages))
  OBVIOUS
<1>6. /\ ready # {} /\ InputWellFormed(input)
      /\ \E added \in AddRun(img, NewRun(id, s, t), t) :
           new = Touch([added EXCEPT !.queue = Select(@, ToSet(@) \ ToSet(input.messages)),
                                     !.inputs = Append(@, input)], t)
  <2>1. PICK b \in ReadyBatch(img.queue, t, FreeSessions(img)) :
          new \in LET i == [id |-> id, session |-> b.session, messages |-> b.messages,
                            ready |-> b.ready, claimed |-> t]
                  IN {Touch([added EXCEPT
                               !.queue = Select(@, ToSet(@) \ ToSet(b.messages)),
                               !.inputs = Append(@, i)], t) :
                        added \in IF InputWellFormed(i)
                                  THEN AddRun(img, NewRun(id, b.session, t), t)
                                  ELSE {}}
    BY DEF ClaimBatch
  <2>2. /\ ready # {}
        /\ b = [session |-> s, messages |-> Prefix(MessagesOf(img.queue, s), MaxBatch),
                ready |-> ReadyAt(MessagesOf(img.queue, s))]
    BY <1>2, <1>3 DEF ReadyBatch
  <2>3. /\ b.session = s /\ b.messages = input.messages
        /\ input = [id |-> id, session |-> b.session, messages |-> b.messages,
                    ready |-> b.ready, claimed |-> t]
    BY <1>4, <2>2 DEF ClaimedInput
  <2> QED
    BY <2>1, <2>2, <2>3
<1>7. s \in ready /\ s \in SessionsIn(img.queue) /\ s \in FreeSessions(img)
  <2>1. ready \subseteq SessionsIn(img.queue) \cap FreeSessions(img)
    BY <1>2 DEF ReadySessions
  <2> QED
    BY <1>1, <1>3, <1>6, <2>1, FirstIsOne
<1>8. s \in SessionId /\ ReadyAt(MessagesOf(img.queue, s)) \in Nat
  BY <1>1, <1>7, SessionReadyAt
<1>9. input \in InputType /\ input.messages = Prefix(MessagesOf(img.queue, s), MaxBatch)
  <2>1. MessagesOf(img.queue, s) \in Seq(MessageType)
    BY <1>1, MessagesType
  <2>2. Prefix(MessagesOf(img.queue, s), MaxBatch) \in Seq(MessageType)
    BY <2>1, PrefixSplit, PolicyAssumption
  <2> QED
    BY <1>4, <1>8, <2>2 DEF ClaimedInput, InputType
<1>10. kept \in Seq(MessageType)
  BY <1>1, <1>5, SelectType
<1>11. PICK run \in RunType : run = NewRun(id, s, t) /\ run.session = s /\ run.id = id
                              /\ run.updated = t /\ run.status = "pending"
  <2>1. PICK run : run = NewRun(id, s, t)
    OBVIOUS
  <2>2. run \in RunType /\ run.session = s /\ run.id = id /\ run.updated = t /\ run.status = "pending"
    BY <1>8, <2>1 DEF NewRun, RunType
  <2> QED
    BY <2>1, <2>2
<1>12. PICK added \in AddRun(img, run, t) :
         new = Touch([added EXCEPT !.queue = Select(@, ToSet(@) \ ToSet(input.messages)),
                                   !.inputs = Append(@, input)], t)
  BY <1>6, <1>11
<1>13. /\ ~Has(img.runs, id)
       /\ \A old \in ToSet(img.runs) : old.session = s => IsTerminal(old)
       /\ added = Touch([img EXCEPT !.runs = Append(@, run)], Larger(t, t))
  <2>1. ~IsTerminal(run)
    BY <1>11 DEF IsTerminal
  <2> QED
    BY <1>11, <2>1 DEF AddRun, Accept
<1>14. PICK u \in Nat : u = Larger(Larger(img.updated, Larger(t, t)), t) /\ u >= img.updated /\ u >= t
  <2>1. PICK u : u = Larger(Larger(img.updated, Larger(t, t)), t)
    OBVIOUS
  <2>2. u \in Nat /\ u >= img.updated /\ u >= t
    BY <1>1, <2>1 DEF Larger
  <2> QED
    BY <2>1, <2>2
<1>15. PICK runs, inputs : runs = Append(img.runs, run) /\ inputs = Append(img.inputs, input)
  OBVIOUS
<1>16. added = [sessions |-> img.sessions, runs |-> runs, inputs |-> img.inputs,
                ledger |-> img.ledger, queue |-> img.queue, outbox |-> img.outbox,
                updated |-> Larger(img.updated, Larger(t, t))]
  BY <1>13, <1>15 DEF Touch, ImageType
<1>17. new = [sessions |-> img.sessions, runs |-> runs, inputs |-> inputs,
              ledger |-> img.ledger, queue |-> kept, outbox |-> img.outbox, updated |-> u]
  BY <1>5, <1>12, <1>14, <1>15, <1>16 DEF Touch
<1>18. runs \in Seq(RunType) /\ inputs \in Seq(InputType)
  BY <1>1, <1>9, <1>11, <1>15, AppendProperties
<1>19. new \in ImageType
  BY <1>10, <1>14, <1>17, <1>18 DEF ImageType
<1>20. /\ new.sessions = img.sessions /\ new.runs = Append(img.runs, run)
       /\ new.inputs = Append(img.inputs, input) /\ new.ledger = img.ledger
       /\ new.queue = kept /\ new.updated >= img.updated /\ new.updated >= t
  BY <1>14, <1>15, <1>17
<1> QED
  BY <1>4, <1>5, <1>6, <1>7, <1>8, <1>9, <1>11, <1>13, <1>19, <1>20 DEF Claims

(* A claim leaves a sound image sound.                                     *)
LEMMA ClaimOrdered ==
  ASSUME NEW img, Sound(img), NEW id \in Nat, NEW t \in Nat, NEW s, NEW new,
         Claims(img, id, t, s, new)
  PROVE  /\ \A r : OwnershipOf(new, r) = OwnershipOf(img, r)
         /\ \A r \in SessionId : Ordered(new, r)
<1>1. /\ img.inputs \in Seq(InputType) /\ img.queue \in Seq(MessageType)
      /\ IsInjective(img.queue)
  BY DistinctIsInjective DEF Sound, ImageType, Valid, QueueValid
<1>2. PICK input \in InputType :
        /\ input.messages = Prefix(MessagesOf(img.queue, s), MaxBatch)
        /\ new.inputs = Append(img.inputs, input)
        /\ new.queue = Select(img.queue, ToSet(img.queue) \ ToSet(input.messages))
  BY DEF Claims, ClaimedInput
<1>3. \A r : OwnershipOf(new, r) = OwnershipOf(img, r)
  <2>1. SameOwners(img, new)
    BY <1>1, <1>2, PolicyAssumption, OwnershipAfterClaim
  <2> QED
    BY <2>1 DEF SameOwners
<1>4. new.ledger = img.ledger
  BY DEF Claims
<1>5. \A r \in SessionId : Ordered(new, r)
  <2>1. \A r \in SessionId : Ordered(img, r)
    BY DEF Sound
  <2>2. \A i : Position(new, i) = Position(img, i)
    BY <1>4 DEF Position
  <2>3. \A m : RecordedAt(new, m) = RecordedAt(img, m)
    BY <1>4, <2>2 DEF RecordedAt
  <2> QED
    BY <1>3, <1>4, <2>1, <2>2, <2>3 DEF Ordered
<1> QED
  BY <1>3, <1>5

LEMMA ClaimQueue ==
  ASSUME NEW img, Sound(img), NEW id \in Nat, NEW t \in Nat, NEW s, NEW new,
         Claims(img, id, t, s, new)
  PROVE  QueueValid(new) /\ LedgerValid(new)
<1>1. /\ img.queue \in Seq(MessageType) /\ img.ledger \in Seq(LedgerType)
      /\ img.updated \in Nat /\ new.updated \in Nat /\ new.updated >= img.updated
      /\ new.sessions = img.sessions /\ new.ledger = img.ledger
      /\ QueueValid(img) /\ LedgerValid(img)
  BY DEF Sound, Claims, ImageType, Valid
<1>2. PICK B : new.queue = Select(img.queue, B)
  BY DEF Claims
<1>3. ToSet(new.queue) \subseteq ToSet(img.queue) /\ new.queue \in Seq(MessageType)
  BY <1>1, <1>2, SelectType
<1>4. ToSet(img.queue) \subseteq MessageType /\ ToSet(img.ledger) \subseteq LedgerType
  BY <1>1, ElementsType
<1>5. PICK g : Embeds(g, new.queue, img.queue)
  BY <1>1, <1>2, SelectOrder
<1>6. PICK n \in Nat, k \in Nat : DOMAIN new.queue = 1..n /\ DOMAIN img.queue = 1..k
  BY <1>1, <1>3, LenProperties
<1>7. /\ \A i \in 1..n : g[i] \in 1..k /\ new.queue[i] = img.queue[g[i]]
      /\ \A i, j \in 1..n : i < j => g[i] < g[j]
  BY <1>5, <1>6 DEF Embeds
<1>8. /\ \A i, j \in 1..k : img.queue[i].id = img.queue[j].id => i = j
      /\ \A i, j \in 1..k :
           i < j => Position(new, img.queue[i].id) < Position(new, img.queue[j].id)
  <2>1. \A r : Position(new, r) = Position(img, r)
    BY <1>1 DEF Position
  <2>2. \A i, j \in 1..k : img.queue[i].id = img.queue[j].id => i = j
    BY <1>1, <1>6 DEF QueueValid, DistinctIds
  <2>3. PICK f : f = [i \in 1..k |-> Position(img, img.queue[i].id)]
    OBVIOUS
  <2>4. Increasing(f)
    BY <1>1, <1>6, <2>3 DEF QueueValid
  <2>5. \A i, j \in 1..k : i < j => f[i] < f[j]
    BY <2>3, <2>4 DEF Increasing
  <2> QED
    BY <2>1, <2>2, <2>3, <2>5
<1>9. Increasing([i \in DOMAIN new.queue |-> Position(new, new.queue[i].id)])
  <2>1. \A i, j \in 1..n :
          i < j => Position(new, new.queue[i].id) < Position(new, new.queue[j].id)
    BY <1>7, <1>8
  <2> QED
    BY <1>6, <2>1 DEF Increasing
<1>10. DistinctIds(new.queue)
  <2>1. ASSUME NEW i \in 1..n, NEW j \in 1..n, new.queue[i].id = new.queue[j].id PROVE i = j
    <3>1. g[i] = g[j]
      BY <1>7, <1>8, <2>1
    <3>2. ~(i < j) /\ ~(j < i)
      BY <1>7, <3>1
    <3> QED
      BY <3>2
  <2> QED
    BY <1>6, <2>1 DEF DistinctIds
<1>11. \A m \in ToSet(new.queue) : /\ MessageWellFormed(m)
                                   /\ MatchesLedger(new, m)
                                   /\ Has(new.sessions, m.session)
                                   /\ m.enqueued <= new.updated
  <2>1. \A m \in ToSet(img.queue) : m.enqueued \in Nat
    BY <1>4 DEF MessageType
  <2>2. \A m \in ToSet(img.queue) : m.enqueued <= new.updated
    BY <1>1, <2>1 DEF QueueValid
  <2>3. \A m : MatchesLedger(img, m) => MatchesLedger(new, m)
    BY <1>1 DEF MatchesLedger
  <2> QED
    BY <1>1, <1>3, <2>2, <2>3 DEF QueueValid
<1>12. LedgerValid(new)
  <2>1. \A x \in ToSet(img.ledger) : x.recorded <= new.updated
    <3>1. \A x \in ToSet(img.ledger) : x.recorded \in Nat
      BY <1>4 DEF LedgerType
    <3> QED
      BY <1>1, <3>1 DEF LedgerValid
  <2> QED
    BY <1>1, <2>1 DEF LedgerValid
<1> QED
  BY <1>9, <1>10, <1>11, <1>12 DEF QueueValid

LEMMA ClaimRuns ==
  ASSUME NEW img, Sound(img), NEW id \in Nat, NEW t \in Nat, NEW s, NEW new,
         Claims(img, id, t, s, new)
  PROVE  RunsValid(new)
<1>1. PICK run \in RunType : run = NewRun(id, s, t) /\ new.runs = Append(img.runs, run)
  BY DEF Claims
<1>2. /\ img.runs \in Seq(RunType)
      /\ img.updated \in Nat /\ new.updated \in Nat /\ new.updated >= img.updated
      /\ new.updated >= t
      /\ new.sessions = img.sessions /\ img.sessions = WithSessions.sessions
      /\ RunsValid(img) /\ s \in SessionId /\ ~Has(img.runs, run.id)
      /\ \A old \in ToSet(img.runs) : old.session = s => IsTerminal(old)
  BY <1>1 DEF Sound, Claims, ImageType, Valid, NewRun
<1>3. ToSet(new.runs) = ToSet(img.runs) \cup {run} /\ ToSet(img.runs) \subseteq RunType
  BY <1>1, <1>2, ElementsAppend, ElementsType
<1>4. DistinctIds(new.runs)
  BY <1>1, <1>2, DistinctIdsAppend DEF RunsValid
<1>5. /\ run.session = s /\ run.status = "pending" /\ run.created = t /\ run.updated = t
      /\ run.started = {} /\ run.finished = {} /\ run.outputs = <<>>
  BY <1>1 DEF NewRun
<1>6. RunWellFormed(run)
  BY <1>5 DEF RunWellFormed, IsInjective
<1>7. Has(new.sessions, run.session) /\ run.updated <= new.updated
  BY <1>2, <1>5, SessionsKnown
<1>8. \A r \in ToSet(img.runs) : RunWellFormed(r) /\ Has(new.sessions, r.session) /\ r.updated <= new.updated
  <2>1. \A r \in ToSet(img.runs) : r.updated \in Nat
    BY <1>3 DEF RunType
  <2> QED
    BY <1>2, <2>1 DEF RunsValid
<1>9. \A r \in ToSet(new.runs) : r.outputs = <<>>
  BY <1>3, <1>5 DEF RunType
<1>10. \A q, r \in ToSet(new.runs) : q # r => ToSet(q.outputs) \cap ToSet(r.outputs) = {}
  BY <1>9, ElementsEmpty
<1>11. \A q, r \in ToSet(new.runs) :
         q.session = r.session /\ ~IsTerminal(q) /\ ~IsTerminal(r) => q = r
  BY <1>2, <1>3, <1>5 DEF RunsValid
<1> QED
  BY <1>3, <1>4, <1>6, <1>7, <1>8, <1>10, <1>11 DEF RunsValid

(* The messages of a claim leave the queue.                                *)
LEMMA ClaimClaims ==
  ASSUME NEW img, Sound(img), NEW id \in Nat, NEW t \in Nat, NEW s, NEW new,
         Claims(img, id, t, s, new)
  PROVE  ClaimedOnce(new)
<1>1. PICK input \in InputType :
        /\ input.messages = Prefix(MessagesOf(img.queue, s), MaxBatch)
        /\ new.inputs = Append(img.inputs, input)
        /\ new.queue = Select(img.queue, ToSet(img.queue) \ ToSet(input.messages))
  BY DEF Claims, ClaimedInput
<1>2. /\ img.inputs \in Seq(InputType) /\ img.queue \in Seq(MessageType)
      /\ DistinctIds(img.queue) /\ ClaimedOnce(img)
  BY DEF Sound, ImageType, Valid, QueueValid, InputsValid
<1>3. PICK p, k : p = input.messages /\ k = Select(img.queue, ToSet(img.queue) \ ToSet(p))
  OBVIOUS
<1>4. ToSet(p) \subseteq ToSet(img.queue)
  <2>1. SplitsOff(MessageType, img.queue, s, p, k)
    BY <1>1, <1>2, <1>3, PolicyAssumption, DistinctIsInjective, TakesItsFirst
  <2> QED
    BY <2>1 DEF SplitsOff
<1>5. ToSet(k) = ToSet(img.queue) \ ToSet(p)
  <2>1. ToSet(k) = ToSet(img.queue) \cap (ToSet(img.queue) \ ToSet(p))
    BY <1>2, <1>3, SelectType
  <2> QED
    BY <2>1
<1>6. ToSet(new.inputs) = ToSet(img.inputs) \cup {input}
  BY <1>1, <1>2, ElementsAppend
<1>7. \A x : Claimed(x) = UNION {ToSet(y.messages) : y \in ToSet(x.inputs)}
  BY DEF Claimed, ToSet
<1>8. \A m \in Claimed(img), n \in ToSet(img.queue) : m.id # n.id
  BY <1>2 DEF ClaimedOnce, Has, ToSet
<1>9. \A m, n \in ToSet(img.queue) : m.id = n.id => m = n
  BY <1>2 DEF DistinctIds, ToSet
<1>10. Claimed(new) = Claimed(img) \cup ToSet(p)
  BY <1>3, <1>6, <1>7
<1>11. ASSUME NEW m \in Claimed(new) PROVE ~Has(new.queue, m.id)
  <2>1. \A n \in ToSet(k) : n.id # m.id
    BY <1>4, <1>5, <1>8, <1>9, <1>10
  <2> QED
    BY <1>1, <1>3, <2>1 DEF Has, ToSet
<1>12. ASSUME NEW x \in ToSet(img.inputs)
       PROVE  {m.id : m \in ToSet(x.messages)} \cap {m.id : m \in ToSet(p)} = {}
  <2>1. ToSet(x.messages) \subseteq Claimed(img)
    BY <1>7
  <2> QED
    BY <1>4, <1>8, <2>1
<1>13. ASSUME NEW x \in ToSet(new.inputs), NEW y \in ToSet(new.inputs), x # y
       PROVE  {m.id : m \in ToSet(x.messages)} \cap {m.id : m \in ToSet(y.messages)} = {}
  <2>1. CASE x \in ToSet(img.inputs) /\ y \in ToSet(img.inputs)
    BY <1>2, <1>13, <2>1 DEF ClaimedOnce
  <2>2. CASE x \in ToSet(img.inputs) /\ y = input
    BY <1>3, <1>12, <2>2
  <2>3. CASE x = input /\ y \in ToSet(img.inputs)
    BY <1>3, <1>12, <2>3
  <2> QED
    BY <1>6, <1>13, <2>1, <2>2, <2>3
<1> QED
  BY <1>11, <1>13 DEF ClaimedOnce

LEMMA ClaimInputs ==
  ASSUME NEW img, Sound(img), NEW id \in Nat, NEW t \in Nat, NEW s, NEW new,
         Claims(img, id, t, s, new)
  PROVE  InputsValid(new)
<1>1. PICK input \in InputType :
        /\ input = ClaimedInput(img, id, t, s) /\ InputWellFormed(input)
        /\ new.inputs = Append(img.inputs, input)
  BY DEF Claims
<1>2. PICK run \in RunType : run = NewRun(id, s, t) /\ new.runs = Append(img.runs, run)
  BY DEF Claims
<1>3. /\ img.runs \in Seq(RunType) /\ img.inputs \in Seq(InputType) /\ img.queue \in Seq(MessageType)
      /\ img.updated \in Nat /\ new.updated \in Nat /\ new.updated >= img.updated
      /\ new.updated >= t /\ new.ledger = img.ledger
      /\ InputsValid(img) /\ QueueValid(img) /\ ~Has(img.runs, id)
  BY DEF Sound, Claims, ImageType, Valid
<1>4. /\ ToSet(new.runs) = ToSet(img.runs) \cup {run}
      /\ ToSet(new.inputs) = ToSet(img.inputs) \cup {input}
      /\ ToSet(img.inputs) \subseteq InputType
  BY <1>1, <1>2, <1>3, ElementsAppend, ElementsType
<1>5. \A m : MatchesLedger(img, m) => MatchesLedger(new, m)
  BY <1>3 DEF MatchesLedger
<1>6. input.id = id /\ input.session = s /\ input.claimed = t
      /\ input.messages = Prefix(MessagesOf(img.queue, s), MaxBatch)
  BY <1>1 DEF ClaimedInput
<1>7. ~Has(img.inputs, input.id)
  <2>1. \A i \in ToSet(img.inputs) : Has(img.runs, i.id)
    <3>1. \A i \in ToSet(img.inputs) : \E r \in ToSet(img.runs) : r.id = i.id
      BY <1>3 DEF InputsValid, Find
    <3> QED
      BY <3>1 DEF Has, ToSet
  <2> QED
    BY <1>3, <1>6, <2>1 DEF Has, ToSet
<1>8. DistinctIds(new.inputs)
  BY <1>1, <1>3, <1>7, DistinctIdsAppend DEF InputsValid
<1>9. \A i \in ToSet(img.inputs) :
        /\ InputWellFormed(i)
        /\ \E r \in Find(new.runs, i.id) : r.session = i.session /\ r.created = i.claimed
        /\ \A m \in ToSet(i.messages) : MatchesLedger(new, m)
        /\ i.claimed <= new.updated
  <2>1. \A i \in ToSet(img.inputs) : i.claimed <= new.updated
    <3>1. \A i \in ToSet(img.inputs) : i.claimed \in Nat
      BY <1>4 DEF InputType
    <3> QED
      BY <1>3, <3>1 DEF InputsValid
  <2>2. \A i : Find(img.runs, i) \subseteq Find(new.runs, i)
    BY <1>4 DEF Find
  <2> QED
    BY <1>3, <1>5, <2>1, <2>2 DEF InputsValid
<1>10. \E r \in Find(new.runs, input.id) : r.session = input.session /\ r.created = input.claimed
  <2>1. run \in Find(new.runs, input.id)
    BY <1>2, <1>4, <1>6 DEF Find, NewRun
  <2> QED
    BY <1>2, <1>6, <2>1 DEF NewRun
<1>11. \A m \in ToSet(input.messages) : MatchesLedger(new, m)
  <2>1. ToSet(input.messages) \subseteq ToSet(img.queue)
    <3>1. PICK p, k : p = input.messages /\ k = Select(img.queue, ToSet(img.queue) \ ToSet(p))
      OBVIOUS
    <3>2. IsInjective(img.queue)
      BY <1>3, DistinctIsInjective DEF QueueValid
    <3>3. SplitsOff(MessageType, img.queue, s, p, k)
      BY <1>3, <1>6, <3>1, <3>2, PolicyAssumption, TakesItsFirst
    <3> QED
      BY <3>1, <3>3 DEF SplitsOff
  <2> QED
    BY <1>3, <1>5, <2>1 DEF QueueValid
<1>12. input.claimed <= new.updated
  BY <1>3, <1>6
<1> QED
  BY <1>1, <1>4, <1>8, <1>9, <1>10, <1>11, <1>12, ClaimClaims DEF InputsValid

LEMMA ClaimSound ==
  ASSUME NEW img, Sound(img), NEW id \in Nat, NEW t \in Nat, NEW s, NEW new,
         Claims(img, id, t, s, new)
  PROVE  Sound(new)
<1>1. new \in ImageType
  BY DEF Claims
<1>2. \A r \in SessionId : Ordered(new, r)
  BY ClaimOrdered
<1>3. LedgerValid(new) /\ RunsValid(new) /\ InputsValid(new) /\ QueueValid(new)
  BY ClaimRuns, ClaimInputs, ClaimQueue
<1>4. EachRunClaimed(new)
  <2>1. /\ img.runs \in Seq(RunType) /\ img.inputs \in Seq(InputType)
        /\ Len(img.runs) = Len(img.inputs)
    BY DEF Sound, ImageType, EachRunClaimed
  <2>2. PICK run \in RunType, input \in InputType :
          new.runs = Append(img.runs, run) /\ new.inputs = Append(img.inputs, input)
    BY DEF Claims
  <2>3. Len(new.runs) = Len(img.runs) + 1 /\ Len(new.inputs) = Len(img.inputs) + 1
    BY <2>1, <2>2, AppendProperties
  <2> QED
    BY <2>1, <2>3 DEF EachRunClaimed
<1>5. QueuedAsSent(new)
  <2>1. img.queue \in Seq(MessageType) /\ QueuedAsSent(img)
    BY DEF Sound, ImageType
  <2>2. ToSet(new.queue) \subseteq ToSet(img.queue)
    BY <2>1, SelectType DEF Claims
  <2> QED
    BY <2>1, <2>2 DEF QueuedAsSent
<1> QED
  BY <1>1, <1>2, <1>3, <1>4, <1>5, StaticPartsValid, OrderedIsValid DEF Sound, Valid

-----------------------------------------------------------------------------
(* The run `old` ends at time t, as `done`.                                *)
Ends(img, t, old, done, new) ==
  /\ old \in ToSet(img.runs) /\ old \in RunType /\ done \in RunType
  /\ old.status = "pending" /\ t >= old.created
  /\ done.id = old.id /\ done.session = old.session /\ done.created = old.created
  /\ done.status = "cancelled" /\ done.finished = {t} /\ done.updated = Larger(old.updated, t)
  /\ new \in ImageType
  /\ new.runs = Put(img.runs, done)
  /\ new.sessions = img.sessions /\ new.inputs = img.inputs /\ new.ledger = img.ledger
  /\ new.queue = img.queue
  /\ new.updated >= img.updated /\ new.updated >= t

LEMMA EndShape ==
  ASSUME NEW img \in ImageType, NEW id \in Nat, NEW t \in Nat,
         NEW new \in OnRun(img, id, LAMBDA run : End(run, "cancelled", t), t, t)
  PROVE  \E old, done : old.id = id /\ Ends(img, t, old, done, new)
<1>1. PICK old, done : /\ old \in Find(img.runs, id) /\ done \in End(old, "cancelled", t)
                       /\ new = Touch([img EXCEPT !.runs = Put(@, done)], Larger(t, t))
  BY DEF OnRun
<1>2. /\ img.runs \in Seq(RunType) /\ img.updated \in Nat
  BY DEF ImageType
<1>3. old \in ToSet(img.runs) /\ old \in RunType /\ old.id = id
  BY <1>1, <1>2, ElementsType DEF Find
<1>4. /\ old.status = "pending" /\ t >= old.created
      /\ done = [old EXCEPT !.status = "cancelled", !.finished = {t}, !.updated = Larger(@, t)]
  <2>1. ~IsTerminal(old) /\ NotBefore(old, t)
        /\ done = [old EXCEPT !.status = "cancelled", !.finished = {t}, !.updated = Larger(@, t)]
    BY <1>1 DEF End, Accept
  <2>2. old.status \in {"pending", "cancelled"}
    BY <1>3 DEF RunType
  <2> QED
    BY <2>1, <2>2 DEF IsTerminal, NotBefore
<1>5. PICK u \in Nat : u = Larger(old.updated, t)
  BY <1>3, LargerIs DEF RunType
<1>6. done = [id |-> old.id, session |-> old.session, status |-> "cancelled",
              created |-> old.created, updated |-> u, started |-> old.started,
              finished |-> {t}, outputs |-> old.outputs]
  BY <1>3, <1>4, <1>5 DEF RunType
<1>7. done \in RunType
  BY <1>3, <1>6 DEF RunType
<1>8. PICK runs : runs = Put(img.runs, done)
  OBVIOUS
<1>9. runs \in Seq(RunType)
  <2>1. Len(img.runs) \in Nat /\ DOMAIN img.runs = 1..Len(img.runs)
        /\ \A i \in DOMAIN img.runs : img.runs[i] \in RunType
    BY <1>2, LenProperties, ElementOfSeq
  <2>2. runs \in [1..Len(img.runs) -> RunType]
    BY <1>7, <1>8, <2>1 DEF Put
  <2> QED
    BY <2>1, <2>2, SeqDef
<1>10. PICK v \in Nat : v = Larger(img.updated, Larger(t, t)) /\ v >= img.updated /\ v >= t
  <2>1. PICK v : v = Larger(img.updated, Larger(t, t))
    OBVIOUS
  <2>2. v \in Nat /\ v >= img.updated /\ v >= t
    BY <1>2, <2>1 DEF Larger
  <2> QED
    BY <2>1, <2>2
<1>11. new = [sessions |-> img.sessions, runs |-> runs, inputs |-> img.inputs,
              ledger |-> img.ledger, queue |-> img.queue, outbox |-> img.outbox, updated |-> v]
  BY <1>1, <1>8, <1>10 DEF Touch, ImageType
<1>12. new \in ImageType
  BY <1>9, <1>10, <1>11 DEF ImageType
<1> QED
  BY <1>3, <1>4, <1>5, <1>6, <1>7, <1>8, <1>10, <1>11, <1>12 DEF Ends

LEMMA EndRuns ==
  ASSUME NEW img, Sound(img), NEW t \in Nat, NEW old, NEW done, NEW new,
         Ends(img, t, old, done, new)
  PROVE  /\ RunsValid(new)
         /\ DOMAIN new.runs = DOMAIN img.runs
         /\ \A i \in DOMAIN img.runs :
              new.runs[i] = IF img.runs[i] = old THEN done ELSE img.runs[i]
<1>1. /\ img.runs \in Seq(RunType)
      /\ img.updated \in Nat /\ new.updated \in Nat /\ new.updated >= img.updated
      /\ new.updated >= t /\ new.sessions = img.sessions
      /\ RunsValid(img)
      /\ new.runs \in Seq(RunType) /\ new.runs = Put(img.runs, done)
  BY DEF Sound, Ends, ImageType, Valid
<1>2. PICK n \in Nat : DOMAIN img.runs = 1..n /\ \A i \in 1..n : img.runs[i] \in RunType
  <2>1. Len(img.runs) \in Nat /\ DOMAIN img.runs = 1..Len(img.runs)
        /\ \A i \in DOMAIN img.runs : img.runs[i] \in RunType
    BY <1>1, LenProperties, ElementOfSeq
  <2> QED
    BY <2>1
<1>3. PICK k \in 1..n : img.runs[k] = old
  BY <1>2 DEF Ends, ToSet
<1>4. \A i, j \in 1..n : img.runs[i].id = img.runs[j].id => i = j
  BY <1>1, <1>2 DEF RunsValid, DistinctIds
<1>5. /\ done.id = old.id /\ done.session = old.session /\ done.created = old.created
      /\ done.status = "cancelled" /\ done.finished = {t} /\ done.updated = Larger(old.updated, t)
      /\ old.status = "pending" /\ t >= old.created /\ old \in RunType /\ done \in RunType
  BY DEF Ends
<1>6. DOMAIN new.runs = 1..n /\ \A i \in 1..n : new.runs[i] = IF i = k THEN done ELSE img.runs[i]
  BY <1>1, <1>2, <1>3, <1>4, <1>5 DEF Put
<1>7. \A i \in 1..n : img.runs[i] = old <=> i = k
  BY <1>3, <1>4
<1>8. DistinctIds(new.runs)
  <2>1. \A i \in 1..n : new.runs[i].id = img.runs[i].id
    BY <1>3, <1>5, <1>6
  <2> QED
    BY <1>4, <1>6, <2>1 DEF DistinctIds
<1>9. /\ old.updated \in Nat /\ old.created \in Nat /\ done.updated \in Nat
      /\ old.created <= old.updated /\ old.updated <= img.updated
      /\ Has(img.sessions, old.session)
      /\ done.started = {} /\ done.outputs = <<>>
  <2>1. old \in ToSet(img.runs)
    BY DEF Ends
  <2>2. RunWellFormed(old) /\ old.updated <= img.updated /\ Has(img.sessions, old.session)
    BY <1>1, <2>1 DEF RunsValid
  <2> QED
    BY <1>5, <2>2 DEF RunType, RunWellFormed
<1>10. done.updated >= t /\ done.updated >= old.updated /\ done.updated <= new.updated
  BY <1>1, <1>5, <1>9 DEF Larger
<1>11. RunWellFormed(done)
  <2>1. NotBefore(done, t)
    BY <1>5, <1>9 DEF NotBefore
  <2>2. done.created <= done.updated
    BY <1>5, <1>9, <1>10
  <2>3. IsInjective(done.outputs) /\ (done.outputs # <<>> => done.status = "completed")
    BY <1>9 DEF IsInjective
  <2>4. \A u \in done.finished : NotBefore(done, u) /\ u <= done.updated
    BY <1>5, <1>9, <1>10, <2>1
  <2>5. done.finished # {}
    BY <1>5
  <2> QED
    BY <1>5, <1>9, <2>2, <2>3, <2>4, <2>5 DEF RunWellFormed
<1>12. ASSUME NEW i \in 1..n
       PROVE  /\ RunWellFormed(new.runs[i])
              /\ Has(new.sessions, new.runs[i].session)
              /\ new.runs[i].updated <= new.updated
  <2>1. CASE i = k
    BY <1>1, <1>5, <1>6, <1>9, <1>10, <1>11, <2>1
  <2>2. CASE i # k
    <3>1. img.runs[i] \in ToSet(img.runs) /\ img.runs[i].updated \in Nat
      BY <1>2 DEF ToSet, RunType
    <3>2. RunWellFormed(img.runs[i]) /\ Has(img.sessions, img.runs[i].session) /\ img.runs[i].updated <= img.updated
      BY <1>1, <3>1 DEF RunsValid
    <3> QED
      BY <1>1, <1>6, <2>2, <3>1, <3>2
  <2> QED
    BY <2>1, <2>2
<1>13. \A i \in 1..n : new.runs[i].outputs = <<>>
  BY <1>2, <1>6, <1>9 DEF RunType
<1>14. ASSUME NEW i \in 1..n, NEW j \in 1..n, new.runs[i].session = new.runs[j].session,
              ~IsTerminal(new.runs[i]), ~IsTerminal(new.runs[j])
       PROVE  i = j
  <2>1. IsTerminal(done)
    BY <1>5 DEF IsTerminal
  <2>2. new.runs[i] = img.runs[i] /\ new.runs[j] = img.runs[j]
    BY <1>6, <1>14, <2>1
  <2>3. img.runs[i] \in ToSet(img.runs) /\ img.runs[j] \in ToSet(img.runs)
    BY <1>2 DEF ToSet
  <2>4. img.runs[i] = img.runs[j]
    BY <1>1, <1>14, <2>2, <2>3 DEF RunsValid
  <2> QED
    BY <1>4, <2>4
<1>15. ToSet(new.runs) = {new.runs[i] : i \in 1..n}
  BY <1>6 DEF ToSet
<1>16. \A q, r \in ToSet(new.runs) : q.session = r.session /\ ~IsTerminal(q) /\ ~IsTerminal(r) => q = r
  BY <1>14, <1>15
<1>17. \A q, r \in ToSet(new.runs) : q # r => ToSet(q.outputs) \cap ToSet(r.outputs) = {}
  BY <1>13, <1>15, ElementsEmpty
<1>18. \A r \in ToSet(new.runs) : RunWellFormed(r) /\ Has(new.sessions, r.session) /\ r.updated <= new.updated
  BY <1>12, <1>15
<1>19. RunsValid(new)
  BY <1>8, <1>16, <1>17, <1>18 DEF RunsValid
<1> QED
  BY <1>2, <1>6, <1>7, <1>19

LEMMA EndSound ==
  ASSUME NEW img, Sound(img), NEW t \in Nat, NEW old, NEW done, NEW new,
         Ends(img, t, old, done, new)
  PROVE  Sound(new)
<1>1. /\ new \in ImageType /\ img \in ImageType
      /\ new.sessions = img.sessions /\ new.inputs = img.inputs /\ new.ledger = img.ledger
      /\ new.queue = img.queue
      /\ img.updated \in Nat /\ new.updated \in Nat /\ new.updated >= img.updated
      /\ LedgerValid(img) /\ QueueValid(img) /\ InputsValid(img)
  BY DEF Ends, Sound, ImageType, Valid
<1>2. /\ \A r : Position(new, r) = Position(img, r)
      /\ \A m : MatchesLedger(img, m) => MatchesLedger(new, m)
  BY <1>1 DEF Position, MatchesLedger
<1>3. /\ ToSet(img.queue) \subseteq MessageType /\ ToSet(img.ledger) \subseteq LedgerType
      /\ ToSet(img.inputs) \subseteq InputType
  <2>1. img.queue \in Seq(MessageType) /\ img.ledger \in Seq(LedgerType) /\ img.inputs \in Seq(InputType)
    BY <1>1 DEF ImageType
  <2> QED
    BY <2>1, ElementsType
<1>4. \A s \in SessionId : Ordered(new, s)
  <2>1. \A s \in SessionId : Ordered(img, s)
    BY DEF Sound
  <2>2. \A s : OwnershipOf(new, s) = OwnershipOf(img, s)
    BY <1>1 DEF OwnershipOf
  <2>3. \A m : RecordedAt(new, m) = RecordedAt(img, m)
    BY <1>1, <1>2 DEF RecordedAt
  <2> QED
    BY <1>1, <1>2, <2>1, <2>2, <2>3 DEF Ordered
<1>5. LedgerValid(new)
  <2>1. \A x \in ToSet(img.ledger) : x.recorded \in Nat
    BY <1>3 DEF LedgerType
  <2>2. \A x \in ToSet(img.ledger) : x.recorded <= new.updated
    BY <1>1, <2>1 DEF LedgerValid
  <2> QED
    BY <1>1, <2>2 DEF LedgerValid
<1>6. QueueValid(new)
  <2>1. \A m \in ToSet(img.queue) : m.enqueued \in Nat
    BY <1>3 DEF MessageType
  <2>2. \A m \in ToSet(img.queue) : m.enqueued <= new.updated
    BY <1>1, <2>1 DEF QueueValid
  <2> QED
    BY <1>1, <1>2, <2>2 DEF QueueValid
<1>7. RunsValid(new) /\ DOMAIN new.runs = DOMAIN img.runs
      /\ \A i \in DOMAIN img.runs :
           new.runs[i] = IF img.runs[i] = old THEN done ELSE img.runs[i]
  BY EndRuns
<1>8. InputsValid(new)
  <2>1. \A i \in ToSet(img.inputs) : i.claimed \in Nat
    BY <1>3 DEF InputType
  <2>2. \A i \in ToSet(img.inputs) : i.claimed <= new.updated
    BY <1>1, <2>1 DEF InputsValid
  <2>3. ASSUME NEW i \in ToSet(img.inputs)
        PROVE  \E r \in Find(new.runs, i.id) : r.session = i.session /\ r.created = i.claimed
    <3>1. PICK r \in ToSet(img.runs) : r.id = i.id /\ r.session = i.session /\ r.created = i.claimed
      BY <1>1 DEF InputsValid, Find
    <3>2. PICK k \in DOMAIN img.runs : r = img.runs[k]
      BY DEF ToSet
    <3>3. new.runs[k] \in ToSet(new.runs)
      BY <1>7 DEF ToSet
    <3>4. new.runs[k].id = i.id /\ new.runs[k].session = i.session /\ new.runs[k].created = i.claimed
      BY <1>7, <3>1, <3>2 DEF Ends
    <3> QED
      BY <3>3, <3>4 DEF Find
  <2> QED
    BY <1>1, <1>2, <2>2, <2>3, SameClaims DEF InputsValid
<1>9. EachRunClaimed(new) /\ QueuedAsSent(new)
  <2>1. img.runs \in Seq(RunType) /\ new.runs \in Seq(RunType)
    BY <1>1 DEF ImageType
  <2>2. Len(new.runs) = Len(img.runs)
    BY <1>7, <2>1, LenProperties
  <2> QED
    BY <1>1, <2>2 DEF Sound, EachRunClaimed, QueuedAsSent
<1> QED
  BY <1>1, <1>4, <1>5, <1>6, <1>7, <1>8, <1>9, StaticPartsValid, OrderedIsValid DEF Sound, Valid

-----------------------------------------------------------------------------
(* The initial image: the messages of the backlog, recorded at time 0.     *)
LEMMA WithSessionsSound ==
  Sound(WithSessions) /\ WithSessions.ledger = <<>>
<1>1. PICK img : img = WithSessions
  OBVIOUS
<1>2. /\ img.runs = <<>> /\ img.inputs = <<>> /\ img.ledger = <<>> /\ img.queue = <<>>
      /\ img.outbox = <<>> /\ img.updated = 0
  BY <1>1 DEF WithSessions, EmptyImage
<1>3. img \in ImageType
  <2>1. PICK l : l = WithSessions.sessions
    OBVIOUS
  <2>2. img = [sessions |-> l, runs |-> <<>>, inputs |-> <<>>, ledger |-> <<>>,
               queue |-> <<>>, outbox |-> <<>>, updated |-> 0]
    BY <1>1, <2>1 DEF WithSessions, EmptyImage
  <2>3. <<>> \in Seq(RunType) /\ <<>> \in Seq(InputType) /\ <<>> \in Seq(LedgerType) /\ <<>> \in Seq(MessageType)
    BY EmptySeq
  <2> QED
    BY <2>1, <2>2, <2>3 DEF ImageType
<1>4. ToSet(<<>>) = {} /\ DistinctIds(<<>>)
  BY ElementsEmpty DEF DistinctIds
<1>5. RunsValid(img) /\ LedgerValid(img) /\ InputsValid(img)
  BY <1>2, <1>4 DEF RunsValid, LedgerValid, InputsValid, ClaimedOnce, Claimed
<1>6. QueueValid(img)
  BY <1>2, <1>4 DEF QueueValid, Increasing
<1>7. ASSUME NEW s \in SessionId PROVE Ordered(img, s)
  <2>1. PICK owned : owned = OwnershipOf(img, s)
    OBVIOUS
  <2>2. img.inputs \in Seq(InputType) /\ img.queue \in Seq(MessageType)
    BY <1>2, EmptySeq
  <2>3. ToSet(owned) = {m \in ToSet(img.queue) \cup Claimed(img) : m.session = s} /\ owned \in Seq(MessageType)
    BY <2>1, <2>2, OwnershipIs
  <2>4. ToSet(owned) = {}
    BY <1>2, <1>4, <2>3 DEF Claimed
  <2>5. owned = <<>>
    BY <2>3, <2>4, ElementsEmpty
  <2> QED
    BY <2>1, <2>5 DEF Ordered
<1>8. EachRunClaimed(img) /\ QueuedAsSent(img)
  BY <1>2, <1>4 DEF EachRunClaimed, QueuedAsSent
<1> QED
  BY <1>1, <1>2, <1>3, <1>5, <1>6, <1>7, <1>8, StaticPartsValid, OrderedIsValid DEF Sound, Valid

(* Only the first i - 1 events of the backlog are in the ledger.           *)
BacklogUpTo(i, img) == \A x \in ToSet(img.ledger) : \E j \in 1..(i - 1) : x.id = Backlog[j].id

LEMMA BacklogStep ==
  ASSUME NEW i \in 1..Len(Backlog), NEW img, Sound(img), BacklogUpTo(i, img),
         NEW new, new = CHOOSE x \in RecordEvent(img, Backlog[i], 0) : TRUE
  PROVE  Sound(new) /\ BacklogUpTo(i + 1, new)
<1>1. PICK e \in Event : e = Backlog[i] /\ e.kind = "message" /\ e.session \in SessionId
  <2>1. Backlog[i] \in {e \in Event : e.kind = "message" /\ e.session \in SessionId}
    BY QueueAssumption, ElementOfSeq
  <2> QED
    BY <2>1
<1>2. i \in DOMAIN Backlog /\ \A j \in 1..(i - 1) : j \in DOMAIN Backlog /\ j # i
  <2>1. Len(Backlog) \in Nat /\ DOMAIN Backlog = 1..Len(Backlog)
    BY QueueAssumption, LenProperties
  <2> QED
    BY <2>1
<1>3. ~Has(img.ledger, e.id)
  <2>1. SUFFICES ASSUME NEW x \in ToSet(img.ledger), x.id = e.id PROVE FALSE
    BY DEF Has, ToSet
  <2>2. PICK j \in 1..(i - 1) : x.id = Backlog[j].id
    BY DEF BacklogUpTo
  <2> QED
    BY <1>1, <1>2, <2>1, <2>2, QueueAssumption DEF DistinctIds
<1>4. img \in ImageType /\ Has(img.sessions, e.session)
  BY <1>1, SessionsKnown DEF Sound, ImageType
<1>5. RecordEvent(img, e, 0) # {}
  BY <1>1, <1>3, <1>4 DEF RecordEvent
<1>6. new \in RecordEvent(img, e, 0)
  BY <1>1, <1>5
<1>7. new = img \/ Arrived(img, e, 0, new)
  BY <1>4, <1>6, ArrivalShape
<1>8. CASE new = img
  <2>1. \A j \in 1..(i - 1) : j \in 1..((i + 1) - 1)
    OBVIOUS
  <2> QED
    BY <1>8, <2>1 DEF BacklogUpTo
<1>9. CASE Arrived(img, e, 0, new)
  <2>1. Sound(new)
    BY <1>9, ArrivalSound
  <2>2. ToSet(new.ledger) = ToSet(img.ledger) \cup {Entry(e, 0)}
    <3>1. img.ledger \in Seq(LedgerType)
      BY <1>4 DEF ImageType
    <3> QED
      <4>1. PICK x \in LedgerType : x = Entry(e, 0) /\ new.ledger = Append(img.ledger, x)
        BY <1>9 DEF Arrived
      <4>2. ToSet(Append(img.ledger, x)) = ToSet(img.ledger) \cup {x}
        BY <3>1, ElementsAppend
      <4> QED
        BY <4>1, <4>2
  <2>3. i \in 1..((i + 1) - 1) /\ Entry(e, 0).id = Backlog[i].id
    BY <1>1 DEF Entry
  <2>4. \A j \in 1..(i - 1) : j \in 1..((i + 1) - 1)
    OBVIOUS
  <2> QED
    BY <2>1, <2>2, <2>3, <2>4 DEF BacklogUpTo
<1> QED
  BY <1>7, <1>8, <1>9

LEMMA BacklogSound ==
  Sound(WithBacklog)
<1>1. PICK n \in Nat : n = Len(Backlog)
  BY QueueAssumption, LenProperties
<1> DEFINE V == {img \in ImageType : Sound(img)}
           Record(i, img) == CHOOSE x \in RecordEvent(img, Backlog[i], 0) : TRUE
           IsBacklog(f) ==
             f = [i \in 0..n |-> IF i = 0 THEN WithSessions ELSE Record(i, f[i - 1])]
<1>2. PICK next : next = [p \in (1..n) \X V |->
                            IF BacklogUpTo(p[1], p[2]) THEN Record(p[1], p[2]) ELSE p[2]]
  OBVIOUS
<1>3. next \in [(1..n) \X V -> V]
  <2>1. ASSUME NEW p \in (1..n) \X V
        PROVE  (IF BacklogUpTo(p[1], p[2]) THEN Record(p[1], p[2]) ELSE p[2]) \in V
    <3>1. p[1] \in 1..n /\ p[2] \in V /\ Sound(p[2])
      BY <2>1
    <3>2. CASE BacklogUpTo(p[1], p[2])
      <4>1. Sound(Record(p[1], p[2]))
        BY <1>1, <3>1, <3>2, BacklogStep
      <4> QED
        BY <3>2, <4>1 DEF Sound
    <3> QED
      BY <3>1, <3>2
  <2> HIDE DEF V, Record
  <2> QED
    BY <1>2, <2>1
<1>4. PICK g \in [0..n -> V] :
        g[0] = WithSessions /\ \A i \in 1..n : g[i] = next[<<i, g[i - 1]>>]
  <2>1. WithSessions \in V
    BY WithSessionsSound DEF Sound
  <2> HIDE DEF V
  <2>2. Scans(n, V, WithSessions, next) # {}
    BY <1>3, <2>1, ScanExists
  <2> QED
    BY <2>2 DEF Scans
<1>5. \A i \in 1..n : g[i] = IF BacklogUpTo(i, g[i - 1]) THEN Record(i, g[i - 1]) ELSE g[i - 1]
  <2>1. ASSUME NEW i \in 1..n
        PROVE  g[i] = IF BacklogUpTo(i, g[i - 1]) THEN Record(i, g[i - 1]) ELSE g[i - 1]
    <3>1. PICK p : p \in (1..n) \X V /\ p = <<i, g[i - 1]>> /\ p[1] = i /\ p[2] = g[i - 1]
      <4>1. g[i - 1] \in V
        OBVIOUS
      <4> HIDE DEF V
      <4>2. <<i, g[i - 1]>> \in (1..n) \X V
        BY <4>1
      <4>3. <<i, g[i - 1]>>[1] = i /\ <<i, g[i - 1]>>[2] = g[i - 1]
        OBVIOUS
      <4> QED
        BY <4>2, <4>3
    <3> HIDE DEF V, Record
    <3>2. g[i] = next[p]
      BY <1>4, <3>1
    <3> QED
      BY <1>2, <3>1, <3>2
  <2> QED
    BY <2>1
<1>6. \A i \in 0..n : BacklogUpTo(i + 1, g[i])
  <2>1. PICK h : h = [i \in 0..n |-> <<i, g[i]>>]
    OBVIOUS
  <2> DEFINE W == {p \in (0..n) \X V : BacklogUpTo(p[1] + 1, p[2])}
  <2>2. h[0] \in W
    <3>1. g[0] \in V /\ 0 \in 0..n
      OBVIOUS
    <3>2. BacklogUpTo(0 + 1, g[0])
      BY <1>4, WithSessionsSound, ElementsEmpty DEF BacklogUpTo
    <3>3. h[0] = <<0, g[0]>>
      BY <2>1, <3>1
    <3> HIDE DEF V
    <3> QED
      BY <3>1, <3>2, <3>3
  <2>3. ASSUME NEW i \in 1..n, h[i - 1] \in W PROVE h[i] \in W
    <3>1. i - 1 \in 0..n /\ i \in 0..n /\ (i - 1) + 1 = i
      OBVIOUS
    <3>2. h[i - 1] = <<i - 1, g[i - 1]>> /\ h[i] = <<i, g[i]>>
      BY <2>1, <3>1
    <3>3. BacklogUpTo(i, g[i - 1])
      BY <2>3, <3>1, <3>2
    <3>4. g[i - 1] \in V /\ g[i] \in V
      BY <3>1
    <3>5. Sound(g[i - 1])
      BY <3>4
    <3>6. g[i] = Record(i, g[i - 1])
      <4> HIDE DEF V, Record
      <4> QED
        BY <1>5, <3>3
    <3>7. BacklogUpTo(i + 1, g[i])
      BY <1>1, <3>3, <3>5, <3>6, BacklogStep
    <3> HIDE DEF V
    <3> QED
      BY <3>1, <3>2, <3>4, <3>7
  <2>4. \A i \in 0..n : h[i] \in W
    <3> HIDE DEF W
    <3> QED
      BY <2>2, <2>3, ScanType
  <2>5. \A i \in 0..n : h[i] = <<i, g[i]>>
    BY <2>1
  <2> HIDE DEF V
  <2> QED
    BY <2>4, <2>5
<1>7. \A i \in 1..n : g[i] = Record(i, g[i - 1])
  <2>1. \A i \in 1..n : i - 1 \in 0..n /\ (i - 1) + 1 = i
    OBVIOUS
  <2> HIDE DEF V, Record
  <2> QED
    BY <1>5, <1>6, <2>1
<1>8. IsBacklog(g)
  <2> HIDE DEF V, Record
  <2>1. \A i \in 0..n : g[i] = IF i = 0 THEN WithSessions ELSE Record(i, g[i - 1])
    <3>1. \A i \in 0..n : i = 0 \/ i \in 1..n
      OBVIOUS
    <3> QED
      BY <1>4, <1>7, <3>1
  <2> QED
    BY <1>4, <2>1
<1>9. PICK after : after = CHOOSE f : IsBacklog(f)
  OBVIOUS
<1>10. IsBacklog(after)
  <2> HIDE DEF IsBacklog
  <2> QED
    BY <1>8, <1>9
<1>11. WithBacklog = after[n]
  BY <1>1, <1>9 DEF WithBacklog
<1>12. \A i \in 0..n : g[i] = after[i]
  <2>1. after[0] = WithSessions /\ \A i \in 1..n : after[i] = Record(i, after[i - 1])
    <3> HIDE DEF Record
    <3> QED
      BY <1>10
  <2>2. g[0] = after[0]
    BY <1>4, <2>1
  <2>3. ASSUME NEW i \in 1..n, g[i - 1] = after[i - 1] PROVE g[i] = after[i]
    <3> HIDE DEF Record
    <3> QED
      BY <1>7, <2>1, <2>3
  <2>4. SameSteps(g, after, n)
    BY <2>2, <2>3 DEF SameSteps
  <2> HIDE DEF IsBacklog, V, Record
  <2> QED
    BY <2>4, ScanUnique
<1>13. g[n] \in V
  OBVIOUS
<1> QED
  BY <1>11, <1>12, <1>13

-----------------------------------------------------------------------------
(* The wait.  The times at which the sessions no run owns become ready.    *)
ReadyTimes(img) ==
  {ReadyAt(MessagesOf(img.queue, s)) : s \in SessionsIn(img.queue) \cap FreeSessions(img)}

LEMMA ReadyTimesType ==
  ASSUME NEW img \in ImageType
  PROVE  ReadyTimes(img) \in SUBSET Nat
<1>1. img.queue \in Seq(MessageType)
  BY DEF ImageType
<1>2. \A s \in SessionsIn(img.queue) : ReadyAt(MessagesOf(img.queue, s)) \in Nat
  BY <1>1, SessionReadyAt
<1> QED
  BY <1>2 DEF ReadyTimes

LEMMA NextReadyAtIs ==
  ASSUME NEW img \in ImageType
  PROVE  /\ ReadyTimes(img) = {} => NextReadyAt(img.queue, FreeSessions(img)) = {}
         /\ ReadyTimes(img) # {} =>
              \E k \in ReadyTimes(img) : /\ NextReadyAt(img.queue, FreeSessions(img)) = {k}
                                         /\ \A y \in ReadyTimes(img) : k <= y
         /\ NextReadyAt(img.queue, FreeSessions(img)) \in SUBSET Nat
<1>1. PICK times : times = ReadyTimes(img)
  OBVIOUS
<1>2. times \in SUBSET Nat
  BY <1>1, ReadyTimesType
<1>3. NextReadyAt(img.queue, FreeSessions(img)) = IF times = {} THEN {} ELSE {Min(times)}
  BY <1>1 DEF NextReadyAt, ReadyTimes
<1>4. times # {} => Min(times) \in times /\ \A y \in times : Min(times) <= y
  BY <1>2, MinIsLeast
<1> QED
  BY <1>1, <1>2, <1>3, <1>4

LEMMA BatchIsReady ==
  ASSUME NEW img \in ImageType, NEW t \in Nat
  PROVE  ReadyBatch(img.queue, t, FreeSessions(img)) # {} <=> \E y \in ReadyTimes(img) : y <= t
BY DEF ReadyBatch, ReadySessions, ReadyTimes

(* A message of a session that a run owns changes no time that counts.     *)
LEMMA OwnedArrivalKeepsTimes ==
  ASSUME NEW img \in ImageType, NEW e \in Event, NEW t \in Nat, NEW new,
         Arrived(img, e, t, new), e.session \notin FreeSessions(new)
  PROVE  NextReadyAt(new.queue, FreeSessions(new)) = NextReadyAt(img.queue, FreeSessions(img))
<1>1. /\ img.queue \in Seq(MessageType) /\ new.queue \in Seq(MessageType) /\ new.runs = img.runs
  BY DEF Arrived, ImageType
<1>2. CASE new.queue = img.queue
  BY <1>1, <1>2 DEF FreeSessions
<1>3. CASE /\ e.session \in SessionId
           /\ Queued(img, e, t) \in MessageType
           /\ new.queue = Append(img.queue, Queued(img, e, t))
  <2>1. PICK m \in MessageType : m = Queued(img, e, t) /\ m.session = e.session
    BY <1>3, QueuedType
  <2>2. PICK owners : owners = {run.session : run \in {r \in ToSet(img.runs) : ~IsTerminal(r)}}
    OBVIOUS
  <2>3. FreeSessions(img) = SessionsIn(img.queue) \ owners /\ FreeSessions(new) = SessionsIn(new.queue) \ owners
    BY <1>1, <2>2 DEF FreeSessions
  <2>4. SessionsIn(new.queue) = SessionsIn(img.queue) \cup {m.session}
    <3>1. /\ ToSet(new.queue) = ToSet(img.queue) \cup {m}
      BY <1>1, <1>3, <2>1, ElementsAppend
    <3>2. \A q : SessionsIn(q) = {x.session : x \in ToSet(q)}
      BY DEF SessionsIn, ToSet
    <3>3. {x.session : x \in ToSet(img.queue) \cup {m}}
            = {x.session : x \in ToSet(img.queue)} \cup {m.session}
      OBVIOUS
    <3> QED
      BY <3>1, <3>2, <3>3
  <2>5. e.session \in owners
    BY <2>1, <2>3, <2>4
  <2>6. FreeSessions(new) = FreeSessions(img) /\ e.session \notin FreeSessions(img)
    BY <2>1, <2>3, <2>4, <2>5
  <2>7. \A s \in FreeSessions(img) : MessagesOf(new.queue, s) = MessagesOf(img.queue, s)
    <3>1. \A s : MessagesOf(Append(img.queue, m), s) =
                   IF m.session = s THEN Append(MessagesOf(img.queue, s), m)
                   ELSE MessagesOf(img.queue, s)
      BY <1>1, MessagesAppend
    <3> QED
      BY <1>3, <2>1, <2>6, <3>1
  <2>8. /\ SessionsIn(new.queue) \cap FreeSessions(new) = FreeSessions(img)
        /\ SessionsIn(img.queue) \cap FreeSessions(img) = FreeSessions(img)
    BY <2>3, <2>6
  <2>9. {ReadyAt(MessagesOf(new.queue, s)) : s \in SessionsIn(new.queue) \cap FreeSessions(new)}
          = {ReadyAt(MessagesOf(img.queue, s)) : s \in SessionsIn(img.queue) \cap FreeSessions(img)}
    BY <2>7, <2>8
  <2> QED
    BY <2>9 DEF NextReadyAt
<1> QED
  BY <1>2, <1>3 DEF Arrived

-----------------------------------------------------------------------------
(* The invariant.                                                          *)
LEMMA InitEstablishesIInv ==
  Init => IInv
<1> SUFFICES ASSUME Init PROVE IInv
  OBVIOUS
<1>1. Sound(file)
  BY BacklogSound DEF Init
<1>2. wait \in [asleep : BOOLEAN, next : SUBSET Nat] /\ ~wait.asleep
  BY DEF Init, Awake
<1> QED
  BY <1>1, <1>2 DEF Init, IInv, WaitHolds

LEMMA IdType ==
  ASSUME Sound(file)
  PROVE  Len(file.runs) + 1 \in Nat
<1>1. file.runs \in Seq(RunType)
  BY DEF Sound, ImageType
<1> QED
  BY <1>1, LenProperties

LEMMA RunIdsType ==
  RunIds \subseteq Nat
BY DEF RunIds

(* The shape of the steps that change the file.                            *)
LEMMA FileSteps ==
  ASSUME IInv, [Next]_vars
  PROVE  \/ file' = file
         \/ \E e \in Event : Arrive(e) /\ Arrived(file, e, now, file')
         \/ Claim /\ \E s : Claims(file, Len(file.runs) + 1, now, s, file')
         \/ \E id \in RunIds : EndRun(id) /\ \E old, done : old.id = id /\ Ends(file, now, old, done, file')
<1>1. file \in ImageType /\ now \in Nat /\ Sound(file)
  BY DEF IInv, Sound
<1>2. ASSUME NEW e \in Event, Arrive(e) PROVE file' = file \/ Arrived(file, e, now, file')
  BY <1>1, <1>2, ArrivalShape DEF Arrive
<1>3. ASSUME Claim PROVE \E s : Claims(file, Len(file.runs) + 1, now, s, file')
  BY <1>1, <1>3, IdType, ClaimShape DEF Claim
<1>4. ASSUME NEW id \in RunIds, EndRun(id)
      PROVE  \E old, done : old.id = id /\ Ends(file, now, old, done, file')
  BY <1>1, <1>4, RunIdsType, EndShape DEF EndRun
<1>5. ASSUME Wait \/ Tick \/ SetBack \/ UNCHANGED vars PROVE file' = file
  BY <1>5 DEF Wait, Tick, SetBack, vars
<1> QED
  BY <1>2, <1>3, <1>4, <1>5 DEF Next

LEMMA NextPreservesSound ==
  ASSUME IInv, [Next]_vars
  PROVE  Sound(file)'
<1>1. Sound(file) /\ now \in Nat
  BY DEF IInv
<1>2. CASE file' = file
  BY <1>1, <1>2
<1>3. ASSUME NEW e \in Event, Arrived(file, e, now, file') PROVE Sound(file')
  BY <1>1, <1>3, ArrivalSound
<1>4. ASSUME NEW s, Claims(file, Len(file.runs) + 1, now, s, file') PROVE Sound(file')
  BY <1>1, <1>4, IdType, ClaimSound
<1>5. ASSUME NEW old, NEW done, Ends(file, now, old, done, file') PROVE Sound(file')
  BY <1>1, <1>5, EndSound
<1> QED
  BY <1>2, <1>3, <1>4, <1>5, FileSteps

LEMMA NextPreservesWait ==
  ASSUME IInv, [Next]_vars
  PROVE  WaitHolds'
<1>1. file \in ImageType /\ now \in Nat /\ WaitHolds
  BY DEF IInv, Sound
<1>2. CASE UNCHANGED <<file, wait>>
  BY <1>1, <1>2 DEF WaitHolds
<1>3. CASE wait' = Awake
  BY <1>3 DEF WaitHolds, Awake
<1>4. ASSUME NEW e \in Event, Arrive(e) PROVE WaitHolds'
  <2>1. file' = file \/ Arrived(file, e, now, file')
    BY <1>1, <1>4, ArrivalShape DEF Arrive
  <2>2. CASE file' = file
    BY <1>2, <1>4, <2>2 DEF Arrive
  <2>3. CASE file' # file /\ e.session \in FreeSessions(file')
    BY <1>3, <1>4, <2>3 DEF Arrive
  <2>4. CASE file' # file /\ e.session \notin FreeSessions(file')
    <3>1. NextReadyAt(file'.queue, FreeSessions(file')) = NextReadyAt(file.queue, FreeSessions(file))
      BY <1>1, <2>1, <2>4, OwnedArrivalKeepsTimes
    <3>2. wait' = wait
      BY <1>4, <2>4 DEF Arrive
    <3> QED
      BY <1>1, <3>1, <3>2 DEF WaitHolds
  <2> QED
    BY <2>2, <2>3, <2>4
<1>5. ASSUME Wait PROVE WaitHolds'
  <2>1. NextReadyAt(file.queue, FreeSessions(file)) \in SUBSET Nat
    BY <1>1, NextReadyAtIs
  <2>2. /\ wait' = [asleep |-> TRUE, next |-> NextReadyAt(file.queue, FreeSessions(file))]
        /\ file' = file
    BY <1>5 DEF Wait
  <2> QED
    BY <2>1, <2>2 DEF WaitHolds
<1>6. ASSUME Claim \/ \E id \in RunIds : EndRun(id) PROVE wait' = Awake
  BY <1>6 DEF Claim, EndRun
<1>7. ASSUME Tick \/ SetBack \/ UNCHANGED vars PROVE UNCHANGED <<file, wait>>
  BY <1>7 DEF Tick, SetBack, vars
<1> QED
  BY <1>2, <1>3, <1>4, <1>5, <1>6, <1>7 DEF Next

LEMMA NextPreservesIInv ==
  ASSUME IInv, [Next]_vars
  PROVE  IInv'
<1>1. now' \in Nat
  <2>1. now \in Nat
    BY DEF IInv
  <2>2. CASE Tick
    BY <2>1, <2>2 DEF Tick
  <2>3. CASE SetBack
    BY <2>1, <2>3 DEF SetBack
  <2>4. CASE now' = now
    BY <2>1, <2>4
  <2> QED
    BY <2>2, <2>3, <2>4 DEF Next, Arrive, Claim, Wait, EndRun, vars
<1> QED
  BY <1>1, NextPreservesSound, NextPreservesWait DEF IInv

(* The file is sound and the embedder's answer holds in every state.       *)
THEOREM Invariance ==
  Spec => []IInv
<1>1. IInv /\ [Next]_vars => IInv'
  BY NextPreservesIInv
<1> QED
  BY <1>1, InitEstablishesIInv, PTL DEF Spec

-----------------------------------------------------------------------------
(* Whatever arrives and whatever the clock does, the image in the file     *)
(* passes RuntimeState::validate: no arrival or claim is turned into an    *)
(* error by the check in StateStore::write_unlocked.                       *)
THEOREM FileAlwaysValid ==
  Spec => []FileStaysValid
<1>1. IInv => FileStaysValid
  BY DEF IInv, Sound, FileStaysValid
<1> QED
  BY <1>1, Invariance, PTL

(* The time in a Waiting answer of MessageQueuePolicy::poll_where is exact *)
(* until the embedder is woken: then, and not before, a batch is ready.    *)
THEOREM WaitAlwaysExact ==
  Spec => []WaitIsExact
<1>1. IInv => WaitIsExact
  <2> SUFFICES ASSUME IInv, wait.asleep
               PROVE  (\E t \in wait.next : now >= t)
                        <=> ReadyBatch(file.queue, now, FreeSessions(file)) # {}
    BY DEF WaitIsExact
  <2>1. file \in ImageType /\ now \in Nat /\ wait.next = NextReadyAt(file.queue, FreeSessions(file))
    BY DEF IInv, Sound, WaitHolds
  <2>2. ReadyBatch(file.queue, now, FreeSessions(file)) # {} <=> \E y \in ReadyTimes(file) : y <= now
    BY <2>1, BatchIsReady
  <2>3. ReadyTimes(file) \in SUBSET Nat
    BY <2>1, ReadyTimesType
  <2>4. CASE ReadyTimes(file) = {}
    BY <2>1, <2>2, <2>4, NextReadyAtIs
  <2>5. CASE ReadyTimes(file) # {}
    <3>1. PICK k \in ReadyTimes(file) :
            wait.next = {k} /\ \A y \in ReadyTimes(file) : k <= y
      BY <2>1, <2>5, NextReadyAtIs
    <3>2. (\E t \in wait.next : now >= t) <=> k <= now
      BY <2>1, <2>3, <3>1
    <3>3. (\E y \in ReadyTimes(file) : y <= now) <=> k <= now
      BY <2>1, <2>3, <3>1
    <3> QED
      BY <2>2, <3>2, <3>3
  <2> QED
    BY <2>4, <2>5
<1> QED
  BY <1>1, Invariance, PTL

(* The enqueue time of a message is the latest time at which an event of   *)
(* its session, up to its own, was recorded: other sessions do not delay   *)
(* it, and the clock going back does not let it overtake.                  *)
THEOREM OnlyTheirSessionDelays ==
  Spec => []OnlyItsSessionDelays
<1>1. IInv => OnlyItsSessionDelays
  <2> SUFFICES ASSUME IInv, NEW s \in SessionId,
                      NEW owned, owned = OwnershipOf(file, s),
                      NEW i \in DOMAIN owned
               PROVE  owned[i].enqueued =
                        Max({CHOOSE t \in {e.recorded : e \in Find(file.ledger, owned[j].id)} : TRUE :
                               j \in 1..i})
    BY DEF OnlyItsSessionDelays
  <2>1. file \in ImageType /\ Ordered(file, s) /\ DistinctIds(file.ledger)
    BY DEF IInv, Sound, Valid, LedgerValid
  <2>2. PICK n \in Nat : DOMAIN owned = 1..n /\ owned[i].enqueued \in Nat
    BY <2>1, OwnedType DEF MessageType
  <2>3. \A j \in 1..i : j \in DOMAIN owned /\ Has(file.ledger, owned[j].id)
    BY <2>1, <2>2 DEF Ordered
  <2>4. /\ \A j \in 1..i : RecordedAt(file, owned[j]) <= owned[i].enqueued
        /\ \E j \in 1..i : owned[i].enqueued = RecordedAt(file, owned[j])
    BY <2>1 DEF Ordered
  <2>5. ASSUME NEW j \in 1..i
        PROVE  (CHOOSE t \in {e.recorded : e \in Find(file.ledger, owned[j].id)} : TRUE)
                 = RecordedAt(file, owned[j])
    <3>1. PICK p \in DOMAIN file.ledger :
            p = Position(file, owned[j].id) /\ file.ledger[p].id = owned[j].id
      BY <2>3, PositionOf
    <3>2. Find(file.ledger, owned[j].id) = {file.ledger[p]}
      BY <2>1, <3>1 DEF Find, ToSet, DistinctIds
    <3>3. {e.recorded : e \in Find(file.ledger, owned[j].id)} = {file.ledger[p].recorded}
      BY <3>2
    <3> QED
      BY <3>1, <3>3 DEF RecordedAt
  <2>6. {CHOOSE t \in {e.recorded : e \in Find(file.ledger, owned[j].id)} : TRUE : j \in 1..i}
          = {RecordedAt(file, owned[j]) : j \in 1..i}
    BY <2>5
  <2>7. \A j \in 1..i : RecordedAt(file, owned[j]) \in Nat
    BY <2>1, <2>3, RecordedType
  <2>8. Max({RecordedAt(file, owned[j]) : j \in 1..i}) = owned[i].enqueued
    BY <2>4, <2>7, MaxIs
  <2> QED
    BY <2>6, <2>8
<1> QED
  BY <1>1, Invariance, PTL

-----------------------------------------------------------------------------
(* A full batch.                                                           *)

(* What FullBatchIsFinal says of the messages of one session.              *)
BatchStays(before, after) ==
  Len(before) >= MaxBatch /\ after # <<>> /\ after[1] = before[1] =>
    /\ Prefix(after, MaxBatch) = Prefix(before, MaxBatch)
    /\ ReadyAt(after) = ReadyAt(before)
    /\ ReadyAt(after) = before[MaxBatch].enqueued

(* The batch is the front, and what is appended is not.                    *)
LEMMA FrontStays ==
  ASSUME NEW before \in Seq(MessageType), NEW after,
         after = before \/ \E m \in MessageType : after = Append(before, m)
  PROVE  BatchStays(before, after)
<1> SUFFICES ASSUME Len(before) >= MaxBatch
             PROVE  /\ Prefix(after, MaxBatch) = Prefix(before, MaxBatch)
                    /\ ReadyAt(after) = ReadyAt(before)
                    /\ ReadyAt(after) = before[MaxBatch].enqueued
  BY DEF BatchStays
<1>1. PICK n \in Nat \ {0} : n = MaxBatch
  BY PolicyAssumption
<1>2. Len(before) \in Nat /\ DOMAIN before = 1..Len(before) /\ n <= Len(before)
  BY <1>1, LenProperties
<1>3. /\ after \in Seq(MessageType) /\ Len(after) \in Nat /\ Len(after) >= n
      /\ \A i \in 1..n : after[i] = before[i]
  <2>1. CASE after = before
    BY <1>2, <2>1
  <2>2. ASSUME NEW m \in MessageType, after = Append(before, m)
        PROVE  /\ after \in Seq(MessageType) /\ Len(after) \in Nat /\ Len(after) >= n
               /\ \A i \in 1..n : after[i] = before[i]
    <3>1. PICK long : long = Append(before, m)
      OBVIOUS
    <3>2. /\ long \in Seq(MessageType) /\ Len(long) = Len(before) + 1
          /\ \A i \in 1..Len(before) : long[i] = before[i]
      BY <3>1, AppendProperties
    <3>3. after = long
      BY <2>2, <3>1
    <3>4. Len(long) \in Nat /\ Len(long) >= n /\ \A i \in 1..n : i \in 1..Len(before)
      BY <1>2, <3>2
    <3> QED
      BY <3>2, <3>3, <3>4
  <2> QED
    BY <2>1, <2>2
<1>4. /\ Prefix(after, MaxBatch) = SubSeq(after, 1, n)
      /\ Prefix(before, MaxBatch) = SubSeq(before, 1, n)
  <2>1. ~(Len(after) < MaxBatch) /\ ~(Len(before) < MaxBatch)
    BY <1>1, <1>2, <1>3
  <2> QED
    BY <1>1, <2>1 DEF Prefix
<1>5. SubSeq(after, 1, n) = SubSeq(before, 1, n)
  BY <1>1, <1>2, <1>3
<1>6. n \in 1..n
  BY <1>1
<1>7. ReadyAt(after) = after[n].enqueued /\ ReadyAt(before) = before[n].enqueued
  BY <1>1, <1>2, <1>3 DEF ReadyAt
<1> QED
  BY <1>1, <1>3, <1>4, <1>5, <1>6, <1>7

(* A claimed batch is gone with its first message.                         *)
LEMMA FrontGoes ==
  ASSUME NEW before, NEW after \in Seq(MessageType), NEW taken \in Seq(MessageType),
         before = taken \o after, taken # <<>>, IsInjective(before)
  PROVE  BatchStays(before, after)
<1>1. SUFFICES ASSUME after # <<>>, after[1] = before[1] PROVE FALSE
  BY DEF BatchStays
<1>2. PICK k \in Nat \ {0} : k = Len(taken)
  BY EmptySeq
<1>3. Len(after) \in Nat \ {0}
  BY <1>1, EmptySeq
<1>4. Len(before) = k + Len(after) /\ before[1] = taken[1] /\ before[k + 1] = after[1]
  BY <1>2, <1>3, ConcatProperties
<1>5. DOMAIN before = 1..(k + Len(after))
  BY <1>2, <1>3, <1>4, ConcatProperties, LenProperties
<1>6. 1 \in DOMAIN before /\ k + 1 \in DOMAIN before /\ 1 # k + 1
  BY <1>2, <1>3, <1>5
<1> QED
  BY <1>1, <1>4, <1>6 DEF IsInjective

LEMMA StepKeepsBatches ==
  ASSUME IInv, [Next]_vars, NEW s \in SessionId
  PROVE  BatchStays(MessagesOf(file.queue, s), MessagesOf(file'.queue, s))
<1> DEFINE before == MessagesOf(file.queue, s)
           after == MessagesOf(file'.queue, s)
<1>1. file.queue \in Seq(MessageType) /\ IsInjective(file.queue) /\ Sound(file)
  BY DistinctIsInjective DEF IInv, Sound, ImageType, Valid, QueueValid
<1>2. before \in Seq(MessageType) /\ IsInjective(before)
  <2>1. before = Select(file.queue, {m \in MessageType : m.session = s})
    BY <1>1, MessagesAreSelected
  <2>2. IsInjective(Select(file.queue, {m \in MessageType : m.session = s}))
    BY <1>1, SelectInjective
  <2>3. before \in Seq(MessageType)
    BY <1>1, MessagesType
  <2> QED
    BY <2>1, <2>2, <2>3
<1>3. CASE file'.queue = file.queue
  BY <1>2, <1>3, FrontStays
<1>4. ASSUME NEW m \in MessageType, file'.queue = Append(file.queue, m)
      PROVE  BatchStays(before, after)
  <2>1. after = IF m.session = s THEN Append(before, m) ELSE before
    <3>1. MessagesOf(Append(file.queue, m), s) =
            IF m.session = s THEN Append(MessagesOf(file.queue, s), m) ELSE MessagesOf(file.queue, s)
      BY <1>1, <1>4, MessagesAppend
    <3> QED
      BY <1>4, <3>1
  <2> HIDE DEF before, after
  <2> QED
    BY <1>2, <2>1, FrontStays
<1>5. ASSUME NEW r, Claims(file, Len(file.runs) + 1, now, r, file')
      PROVE  BatchStays(before, after)
  <2>1. PICK taken : taken = Prefix(MessagesOf(file.queue, r), MaxBatch)
    OBVIOUS
  <2>2. taken # <<>> /\ file'.queue = Select(file.queue, ToSet(file.queue) \ ToSet(taken))
    BY <1>5, <2>1 DEF Claims, ClaimedInput, InputWellFormed
  <2>3. SplitsOff(MessageType, file.queue, r, taken, file'.queue)
    BY <1>1, <2>1, <2>2, PolicyAssumption, TakesItsFirst
  <2>4. CASE s = r
    <3>1. before = taken \o after /\ taken \in Seq(MessageType) /\ file'.queue \in Seq(MessageType)
      BY <2>3, <2>4 DEF SplitsOff
    <3>2. after \in Seq(MessageType)
      BY <3>1, MessagesType
    <3> HIDE DEF before, after
    <3> QED
      BY <1>2, <2>2, <3>1, <3>2, FrontGoes
  <2>5. CASE s # r
    <3>1. after = before
      BY <2>3, <2>5 DEF SplitsOff
    <3> HIDE DEF before, after
    <3> QED
      BY <1>2, <3>1, FrontStays
  <2> QED
    BY <2>4, <2>5
<1>6. \/ file'.queue = file.queue
      \/ \E m \in MessageType : file'.queue = Append(file.queue, m)
      \/ \E r : Claims(file, Len(file.runs) + 1, now, r, file')
  <2>1. ASSUME NEW e \in Event, Arrived(file, e, now, file')
        PROVE  \/ file'.queue = file.queue
               \/ \E m \in MessageType : file'.queue = Append(file.queue, m)
    BY <1>1, <2>1, QueuedType DEF Arrived, Sound, IInv
  <2> QED
    BY <2>1, FileSteps DEF Ends
<1> QED
  BY <1>3, <1>4, <1>5, <1>6

(* A batch of MaxBatch messages is final: MessageQueuePolicy::poll_where   *)
(* finds it ready at the time of its last message, and no later message,   *)
(* claim of another session or end of a run changes it.                    *)
THEOREM FullBatchesAreFinal ==
  Spec => FullBatchIsFinal
<1>1. IInv /\ [Next]_vars =>
        \A s \in SessionId : BatchStays(MessagesOf(file.queue, s), MessagesOf(file'.queue, s))
  BY StepKeepsBatches
<1>2. IInv /\ [Next]_vars =>
        [\A s \in SessionId :
           LET before == MessagesOf(file.queue, s)
               after == MessagesOf(file'.queue, s)
           IN Len(before) >= MaxBatch /\ after # <<>> /\ after[1] = before[1] =>
                /\ Prefix(after, MaxBatch) = Prefix(before, MaxBatch)
                /\ ReadyAt(after) = ReadyAt(before)
                /\ ReadyAt(after) = before[MaxBatch].enqueued]_file
  BY <1>1 DEF BatchStays
<1> QED
  BY <1>2, Invariance, PTL DEF Spec, FullBatchIsFinal

-----------------------------------------------------------------------------
(* The file as an image of RuntimeState: its ids without its times.  What  *)
(* Bare shows of a run and of its input is read off the one record with    *)
(* that id.                                                                *)
StatusOf(img, r) ==
  IF Has(img.runs, r) THEN CHOOSE x \in {run.status : run \in Find(img.runs, r)} : TRUE
  ELSE "absent"

ScopeOf(img, r) ==
  IF Has(img.runs, r) THEN CHOOSE x \in {run.session : run \in Find(img.runs, r)} : TRUE
  ELSE None

InputOf(img, r) == {m.id : m \in UNION {ToSet(x.messages) : x \in Find(img.inputs, r)}}

LedgerIds(img) == [i \in DOMAIN img.ledger |-> img.ledger[i].id]

Ids(messages) == {m.id : m \in ToSet(messages)}

LEMMA BareIs ==
  ASSUME NEW img
  PROVE  Bare(img) = [ledger |-> LedgerIds(img),
                      queue  |-> Ids(img.queue),
                      status |-> [r \in RunIds |-> StatusOf(img, r)],
                      scope  |-> [r \in RunIds |-> ScopeOf(img, r)],
                      input  |-> [r \in RunIds |-> InputOf(img, r)]]
BY DEF Bare, LedgerIds, Ids, StatusOf, ScopeOf, InputOf

LEMMA FindIs ==
  ASSUME NEW records, DistinctIds(records), NEW x \in ToSet(records)
  PROVE  Find(records, x.id) = {x}
BY DEF Find, ToSet, DistinctIds

LEMMA ChosenIs ==
  ASSUME NEW v
  PROVE  (CHOOSE x \in {v} : TRUE) = v
OBVIOUS

LEMMA RunIs ==
  ASSUME NEW img, DistinctIds(img.runs), NEW run \in ToSet(img.runs)
  PROVE  StatusOf(img, run.id) = run.status /\ ScopeOf(img, run.id) = run.session
<1>1. Find(img.runs, run.id) = {run}
  BY FindIs
<1>2. Has(img.runs, run.id)
  BY HasIs
<1>3. /\ {x.status : x \in Find(img.runs, run.id)} = {run.status}
      /\ {x.session : x \in Find(img.runs, run.id)} = {run.session}
  BY <1>1
<1> QED
  BY <1>2, <1>3, ChosenIs DEF StatusOf, ScopeOf

LEMMA NoRunIs ==
  ASSUME NEW img, NEW r, ~Has(img.runs, r)
  PROVE  StatusOf(img, r) = "absent" /\ ScopeOf(img, r) = None
BY DEF StatusOf, ScopeOf

LEMMA InputIs ==
  ASSUME NEW img, DistinctIds(img.inputs), NEW x \in ToSet(img.inputs)
  PROVE  InputOf(img, x.id) = Ids(x.messages)
<1>1. Find(img.inputs, x.id) = {x}
  BY FindIs
<1>2. {ToSet(y.messages) : y \in Find(img.inputs, x.id)} = {ToSet(x.messages)}
  BY <1>1
<1> QED
  BY <1>2 DEF InputOf, Ids

(* Nothing of a run changes where the records with its id do not.          *)
LEMMA SameRunIs ==
  ASSUME NEW img, NEW new, NEW r, Find(new.runs, r) = Find(img.runs, r)
  PROVE  StatusOf(new, r) = StatusOf(img, r) /\ ScopeOf(new, r) = ScopeOf(img, r)
<1>1. Has(new.runs, r) <=> Has(img.runs, r)
  <2>1. \A records : Has(records, r) <=> Find(records, r) # {}
    BY HasIs DEF Find
  <2> QED
    BY <2>1
<1> QED
  BY <1>1 DEF StatusOf, ScopeOf

LEMMA SameInputIs ==
  ASSUME NEW img, NEW new, NEW r, Find(new.inputs, r) = Find(img.inputs, r)
  PROVE  InputOf(new, r) = InputOf(img, r)
BY DEF InputOf

LEMMA FindAppended ==
  ASSUME NEW X, NEW records \in Seq(X), NEW x \in X, NEW id, id # x.id
  PROVE  Find(Append(records, x), id) = Find(records, id)
<1>1. ToSet(Append(records, x)) = ToSet(records) \cup {x}
  BY ElementsAppend
<1> QED
  BY <1>1 DEF Find

LEMMA FindSame ==
  ASSUME NEW img, NEW new, new.runs = img.runs, new.inputs = img.inputs
  PROVE  \A r : /\ StatusOf(new, r) = StatusOf(img, r) /\ ScopeOf(new, r) = ScopeOf(img, r)
                /\ InputOf(new, r) = InputOf(img, r)
BY SameRunIs, SameInputIs

(* The session of an event is a function of its id, and a message waits    *)
(* for the session it was sent to.                                         *)
SessionFor == [id \in Id |-> (CHOOSE e \in Event : e.id = id).session]

LEMMA SessionForIs ==
  ASSUME NEW e \in Event
  PROVE  e.id \in Id /\ SessionFor[e.id] = e.session
<1>1. e.id \in Id
  BY DEF Id
<1>2. PICK f : f = CHOOSE x \in Event : x.id = e.id
  OBVIOUS
<1>3. f \in Event /\ f.id = e.id
  BY <1>2
<1>4. f.session = e.session
  BY <1>3, UntimedAssumption
<1> QED
  BY <1>1, <1>2, <1>4 DEF SessionFor

LEMMA QueueOfIs ==
  ASSUME NEW img, Sound(img), NEW s
  PROVE  Untimed!QueueOf(Bare(img), s) = Ids(MessagesOf(img.queue, s))
<1>1. img.queue \in Seq(MessageType) /\ QueuedAsSent(img)
  BY DEF Sound, ImageType
<1>2. ToSet(MessagesOf(img.queue, s)) = {m \in ToSet(img.queue) : m.session = s}
  BY <1>1, MessagesType
<1>3. \A m \in ToSet(img.queue) : SessionFor[m.id] = m.session
  <2>1. SUFFICES ASSUME NEW m \in ToSet(img.queue) PROVE SessionFor[m.id] = m.session
    OBVIOUS
  <2>2. PICK e \in Event : e.id = m.id /\ e.session = m.session
    BY <1>1 DEF QueuedAsSent
  <2> QED
    BY <2>2, SessionForIs
<1>4. Bare(img).queue = Ids(img.queue)
  BY BareIs
<1>5. Untimed!QueueOf(Bare(img), s) = {id \in Bare(img).queue : SessionFor[id] = s}
  BY Zenon DEF Untimed!QueueOf, SessionFor, Id
<1> QED
  BY <1>2, <1>3, <1>4, <1>5 DEF Ids

(* The steps of the untimed image, as records.                             *)
IsImage(st) ==
  st = [ledger |-> st.ledger, queue |-> st.queue, status |-> st.status, scope |-> st.scope,
        input |-> st.input]

RecordsIn(st, id, new) ==
  new = [ledger |-> Append(st.ledger, id),
         queue |-> IF SessionFor[id] = None THEN st.queue ELSE st.queue \cup {id},
         status |-> st.status, scope |-> st.scope, input |-> st.input]

LEMMA UntimedRecordIs ==
  ASSUME NEW st, IsImage(st), NEW id, NEW new, RecordsIn(st, id, new)
  PROVE  new = Untimed!RecordEvent(st, id)
<1>1. PICK ledger, queue, other :
        /\ ledger = Append(st.ledger, id)
        /\ queue = IF SessionFor[id] = None THEN st.queue ELSE st.queue \cup {id}
        /\ other = Untimed!RecordEvent(st, id)
  OBVIOUS
<1>2. other = [st EXCEPT !.ledger = Append(st.ledger, id),
                         !.queue = IF SessionFor[id] = None THEN st.queue ELSE st.queue \cup {id}]
  BY <1>1, Zenon DEF Untimed!RecordEvent, SessionFor, Id
<1>3. other = [st EXCEPT !.ledger = ledger, !.queue = queue]
  BY <1>1, <1>2
<1>4. other = [ledger |-> ledger, queue |-> queue, status |-> st.status, scope |-> st.scope,
               input |-> st.input]
  BY <1>3 DEF IsImage
<1> QED
  BY <1>1, <1>4 DEF RecordsIn

ClaimsIn(st, r, s, b, new) ==
  new = [ledger |-> st.ledger, queue |-> st.queue \ b,
         status |-> [st.status EXCEPT ![r] = "pending"],
         scope |-> [st.scope EXCEPT ![r] = s],
         input |-> [st.input EXCEPT ![r] = b]]

LEMMA UntimedClaimIs ==
  ASSUME NEW st, IsImage(st), NEW r, NEW s, NEW b, NEW new, ClaimsIn(st, r, s, b, new)
  PROVE  new = Untimed!ClaimBatch(st, r, s, b)
<1>1. PICK status, scope, input, queue, other :
        /\ status = [st.status EXCEPT ![r] = "pending"]
        /\ scope = [st.scope EXCEPT ![r] = s]
        /\ input = [st.input EXCEPT ![r] = b]
        /\ queue = st.queue \ b
        /\ other = Untimed!ClaimBatch(st, r, s, b)
  OBVIOUS
<1>2. other = [st EXCEPT !.status = [st.status EXCEPT ![r] = "pending"],
                         !.scope = [st.scope EXCEPT ![r] = s],
                         !.input = [st.input EXCEPT ![r] = b],
                         !.queue = st.queue \ b]
  BY <1>1 DEF Untimed!ClaimBatch
<1>3. other = [st EXCEPT !.status = status, !.scope = scope, !.input = input, !.queue = queue]
  BY <1>1, <1>2, Zenon
<1>4. other = [ledger |-> st.ledger, queue |-> queue, status |-> status, scope |-> scope,
               input |-> input]
  BY <1>3 DEF IsImage
<1> QED
  BY <1>1, <1>4 DEF ClaimsIn

SetsIn(st, r, x, new) ==
  new = [ledger |-> st.ledger, queue |-> st.queue, status |-> [st.status EXCEPT ![r] = x],
         scope |-> st.scope, input |-> st.input]

LEMMA UntimedStatusIs ==
  ASSUME NEW st, IsImage(st), NEW r, NEW x, NEW new, SetsIn(st, r, x, new)
  PROVE  new = Untimed!SetStatus(st, r, x)
<1>1. PICK status, other : status = [st.status EXCEPT ![r] = x] /\ other = Untimed!SetStatus(st, r, x)
  OBVIOUS
<1>2. other = [st EXCEPT !.status = [st.status EXCEPT ![r] = x]]
  BY <1>1 DEF Untimed!SetStatus
<1>3. other = [st EXCEPT !.status = status]
  BY <1>1, <1>2
<1> QED
  BY <1>1, <1>3 DEF IsImage, SetsIn

LEMMA BareImage ==
  ASSUME NEW img
  PROVE  /\ IsImage(Bare(img))
         /\ Bare(img).ledger = LedgerIds(img)
         /\ Bare(img).queue = Ids(img.queue)
         /\ Bare(img).status = [r \in RunIds |-> StatusOf(img, r)]
         /\ Bare(img).scope = [r \in RunIds |-> ScopeOf(img, r)]
         /\ Bare(img).input = [r \in RunIds |-> InputOf(img, r)]
BY BareIs DEF IsImage

(* An arrival is RuntimeState!RecordEvent.                                 *)
IsUntimedArrival(old, id, new) ==
  id \notin Untimed!Recorded(old) /\ new = Untimed!RecordEvent(old, id)

LEMMA ArrivalIsUntimed ==
  ASSUME NEW img, Sound(img), NEW e \in Event, NEW t \in Nat, NEW new, Arrived(img, e, t, new)
  PROVE  IsUntimedArrival(Bare(img), e.id, Bare(new))
<1>1. /\ img \in ImageType /\ img.ledger \in Seq(LedgerType) /\ img.queue \in Seq(MessageType)
      /\ new \in ImageType /\ new.runs = img.runs /\ new.inputs = img.inputs
      /\ ~Has(img.ledger, e.id)
      /\ Entry(e, t) \in LedgerType /\ new.ledger = Append(img.ledger, Entry(e, t))
  BY DEF Sound, ImageType, Arrived
<1>2. Entry(e, t).id = e.id
  BY DEF Entry
<1>3. LedgerIds(new) = Append(LedgerIds(img), e.id)
  <2>1. PICK n \in Nat : n = Len(img.ledger) /\ DOMAIN img.ledger = 1..n
    BY <1>1, LenProperties
  <2>2. PICK x \in LedgerType : x = Entry(e, t)
    BY <1>1
  <2>3. /\ DOMAIN Append(img.ledger, x) = 1..(n + 1)
        /\ Append(img.ledger, x)[n + 1] = x
        /\ \A i \in 1..n : Append(img.ledger, x)[i] = img.ledger[i]
    BY <1>1, <2>1, PositionsAppend
  <2>4. PICK a : a = LedgerIds(img)
    OBVIOUS
  <2>5. a \in Seq(Id) /\ Len(a) = n /\ DOMAIN a = 1..n /\ \A i \in 1..n : a[i] = img.ledger[i].id
    <3>1. \A i \in 1..n : img.ledger[i] \in LedgerType
      BY <1>1, <2>1, ElementOfSeq
    <3>2. \A i \in 1..n : img.ledger[i].id \in Id
      BY <3>1 DEF LedgerType
    <3>3. a = [i \in 1..n |-> img.ledger[i].id]
      BY <2>1, <2>4 DEF LedgerIds
    <3>4. a \in Seq(Id)
      BY <3>2, <3>3
    <3> QED
      BY <3>3, <3>4, LenProperties
  <2>6. e.id \in Id
    BY DEF Id
  <2>7. /\ DOMAIN Append(a, e.id) = 1..(n + 1)
        /\ Append(a, e.id)[n + 1] = e.id
        /\ \A i \in 1..n : Append(a, e.id)[i] = a[i]
        /\ Append(a, e.id) \in Seq(Id)
    BY <2>5, <2>6, PositionsAppend
  <2>8. LedgerIds(new) = [i \in 1..(n + 1) |-> Append(img.ledger, x)[i].id]
    BY <1>1, <2>2, <2>3 DEF LedgerIds
  <2>9. \A i \in 1..(n + 1) : Append(img.ledger, x)[i].id = Append(a, e.id)[i]
    <3>1. SUFFICES ASSUME NEW i \in 1..(n + 1) PROVE Append(img.ledger, x)[i].id = Append(a, e.id)[i]
      OBVIOUS
    <3>2. i = n + 1 \/ i \in 1..n
      OBVIOUS
    <3> QED
      BY <1>2, <2>2, <2>3, <2>5, <2>7, <3>2
  <2>10. Append(a, e.id) = [i \in 1..(n + 1) |-> Append(a, e.id)[i]]
    <3>1. PICK c \in Seq(Id) : c = Append(a, e.id)
      BY <2>7
    <3>2. c = [i \in DOMAIN c |-> c[i]]
      OBVIOUS
    <3> QED
      BY <2>7, <3>1, <3>2
  <2> QED
    BY <2>4, <2>8, <2>9, <2>10
<1>4. Ids(new.queue) = IF SessionFor[e.id] = None THEN Ids(img.queue) ELSE Ids(img.queue) \cup {e.id}
  <2>1. SessionFor[e.id] = e.session
    BY SessionForIs
  <2>2. CASE e.kind # "message" /\ new.queue = img.queue
    <3>1. e.kind = "notice"
      BY <2>2, QueueAssumption DEF EventKinds, Arrived
    <3> QED
      BY <2>1, <2>2, <3>1, UntimedAssumption
  <2>3. CASE /\ e.session \in SessionId /\ Queued(img, e, t) \in MessageType
             /\ new.queue = Append(img.queue, Queued(img, e, t))
    <3>1. e.session # None
      BY <2>3, QueueAssumption
    <3>2. PICK m \in MessageType : m = Queued(img, e, t)
      BY <2>3
    <3>3. m.id = e.id
      BY <3>2 DEF Queued
    <3>4. ToSet(Append(img.queue, m)) = ToSet(img.queue) \cup {m}
      BY <1>1, ElementsAppend
    <3>5. Ids(new.queue) = Ids(img.queue) \cup {e.id}
      BY <2>3, <3>2, <3>3, <3>4 DEF Ids
    <3> QED
      BY <2>1, <3>1, <3>5
  <2> QED
    BY <2>2, <2>3 DEF Arrived
<1>5. Bare(new).ledger = Append(Bare(img).ledger, e.id)
  BY <1>3, BareImage
<1>6. Bare(new).queue = IF SessionFor[e.id] = None THEN Bare(img).queue ELSE Bare(img).queue \cup {e.id}
  <2>1. Bare(new).queue = Ids(new.queue) /\ Bare(img).queue = Ids(img.queue)
    BY BareImage
  <2> QED
    BY <1>4, <2>1
<1>7. /\ Bare(new).status = Bare(img).status /\ Bare(new).scope = Bare(img).scope
      /\ Bare(new).input = Bare(img).input
  <2>1. /\ \A r : StatusOf(new, r) = StatusOf(img, r)
        /\ \A r : ScopeOf(new, r) = ScopeOf(img, r)
        /\ \A r : InputOf(new, r) = InputOf(img, r)
    BY <1>1, FindSame
  <2>2. /\ Bare(new).status = [r \in RunIds |-> StatusOf(new, r)]
        /\ Bare(new).scope = [r \in RunIds |-> ScopeOf(new, r)]
        /\ Bare(new).input = [r \in RunIds |-> InputOf(new, r)]
    BY BareImage
  <2>3. /\ Bare(img).status = [r \in RunIds |-> StatusOf(img, r)]
        /\ Bare(img).scope = [r \in RunIds |-> ScopeOf(img, r)]
        /\ Bare(img).input = [r \in RunIds |-> InputOf(img, r)]
    BY BareImage
  <2> QED
    BY <2>1, <2>2, <2>3
<1>8. RecordsIn(Bare(img), e.id, Bare(new))
  BY <1>5, <1>6, <1>7, BareImage DEF IsImage, RecordsIn
<1>9. e.id \notin Untimed!Recorded(Bare(img))
  <2>1. Untimed!Recorded(Bare(img)) = {LedgerIds(img)[i] : i \in DOMAIN LedgerIds(img)}
    BY BareImage DEF Untimed!Recorded
  <2> QED
    BY <1>1, <2>1 DEF LedgerIds, Has
<1> QED
  BY <1>8, <1>9, BareImage, UntimedRecordIs DEF IsUntimedArrival

LEMMA IdsCount ==
  ASSUME NEW messages \in Seq(MessageType), DistinctIds(messages)
  PROVE  Cardinality(Ids(messages)) = Len(messages)
<1>1. PICK n \in Nat : n = Len(messages) /\ DOMAIN messages = 1..n
  BY LenProperties
<1>2. PICK f : f = [i \in 1..n |-> messages[i].id]
  OBVIOUS
<1>3. f \in Injection(1..n, Ids(messages))
  <2>1. f \in [1..n -> Ids(messages)]
    BY <1>1, <1>2 DEF Ids, ToSet
  <2>2. \A a, b \in 1..n : f[a] = f[b] => a = b
    BY <1>1, <1>2 DEF DistinctIds
  <2> QED
    BY <2>1, <2>2 DEF Injection, IsInjective
<1>4. f \in Surjection(1..n, Ids(messages))
  BY <1>1, <1>2 DEF Surjection, Ids, ToSet
<1>5. ExistsBijection(1..n, Ids(messages))
  BY <1>3, <1>4 DEF ExistsBijection, Bijection
<1>6. IsFiniteSet(1..n) /\ Cardinality(1..n) = n
  BY FS_Interval
<1> QED
  BY <1>1, <1>5, <1>6, FS_Bijection

(* The messages of a session wait in the order of the ledger.              *)
LEMMA WaitInOrder ==
  ASSUME NEW img, Sound(img), NEW s \in SessionId, NEW before, before = MessagesOf(img.queue, s),
         NEW i \in DOMAIN before, NEW j \in DOMAIN before, i < j
  PROVE  Untimed!Before(Bare(img), before[i].id, before[j].id)
<1>1. /\ img.queue \in Seq(MessageType) /\ img.inputs \in Seq(InputType) /\ img \in ImageType
      /\ Ordered(img, s)
  BY DEF Sound, ImageType
<1>2. PICK claimed : claimed = MessagesOf(Taken(img), s)
  OBVIOUS
<1>3. PICK owned : owned = OwnershipOf(img, s)
  OBVIOUS
<1>4. /\ claimed \in Seq(MessageType) /\ before \in Seq(MessageType)
      /\ owned \in Seq(MessageType) /\ owned = claimed \o before
  BY <1>1, <1>2, <1>3, OwnershipIs
<1>5. PICK k \in Nat, n \in Nat :
        /\ k = Len(claimed) /\ n = Len(before) /\ DOMAIN before = 1..n
        /\ DOMAIN (claimed \o before) = 1..(k + n)
        /\ \A x \in 1..n : (claimed \o before)[k + x] = before[x]
  <2>1. /\ Len(claimed) \in Nat /\ Len(before) \in Nat /\ DOMAIN before = 1..Len(before)
        /\ DOMAIN (claimed \o before) = 1..(Len(claimed) + Len(before))
        /\ \A x \in 1..Len(before) : (claimed \o before)[Len(claimed) + x] = before[x]
    BY <1>4, ConcatGrows
  <2> QED
    BY <2>1
<1>6. /\ k + i \in DOMAIN owned /\ k + j \in DOMAIN owned
      /\ owned[k + i] = before[i] /\ owned[k + j] = before[j]
      /\ k + i \in 1..((k + j) - 1)
  <2>1. i \in 1..n /\ j \in 1..n
    BY <1>5
  <2>2. k + i \in 1..(k + n) /\ k + j \in 1..(k + n) /\ k + i \in 1..((k + j) - 1)
    BY <2>1
  <2>3. DOMAIN owned = 1..(k + n) /\ owned[k + i] = before[i] /\ owned[k + j] = before[j]
    BY <1>4, <1>5, <2>1
  <2> QED
    BY <2>2, <2>3
<1>7. /\ Has(img.ledger, before[i].id) /\ Has(img.ledger, before[j].id)
      /\ Position(img, before[i].id) < Position(img, before[j].id)
  <2>1. \A x \in DOMAIN owned :
          /\ Has(img.ledger, owned[x].id)
          /\ \A y \in 1..(x - 1) : Position(img, owned[y].id) < Position(img, owned[x].id)
    BY <1>1, <1>3 DEF Ordered
  <2> QED
    BY <1>6, <2>1
<1>8. PICK p, q : p = Position(img, before[i].id) /\ q = Position(img, before[j].id)
  OBVIOUS
<1>9. /\ p \in DOMAIN img.ledger /\ img.ledger[p].id = before[i].id
      /\ q \in DOMAIN img.ledger /\ img.ledger[q].id = before[j].id
      /\ p < q
  BY <1>7, <1>8, PositionOf
<1>10. /\ p \in DOMAIN LedgerIds(img) /\ LedgerIds(img)[p] = before[i].id
       /\ q \in DOMAIN LedgerIds(img) /\ LedgerIds(img)[q] = before[j].id
  BY <1>9 DEF LedgerIds
<1>11. Bare(img).ledger = LedgerIds(img)
  BY BareImage
<1> QED
  BY <1>9, <1>10, <1>11 DEF Untimed!Before

(* FiniteSets comes with the instance once more.                           *)
LEMMA SameCount ==
  ASSUME NEW b
  PROVE  Untimed!Cardinality(b) = Cardinality(b)
BY DEF Untimed!Cardinality, Cardinality

(* The batch MessageQueuePolicy chooses is one the untimed model allows.   *)
LEMMA PrefixIsBatch ==
  ASSUME NEW img, Sound(img), NEW s \in SessionId,
         NEW taken, taken = Prefix(MessagesOf(img.queue, s), MaxBatch), taken # <<>>
  PROVE  Untimed!IsBatch(Bare(img), s, Ids(taken))
<1>1. PICK before : before = MessagesOf(img.queue, s)
  OBVIOUS
<1>2. img.queue \in Seq(MessageType) /\ DistinctIds(img.queue)
  BY DEF Sound, ImageType, Valid, QueueValid
<1>3. before \in Seq(MessageType) /\ DistinctIds(before)
  <2>1. before = Select(img.queue, {m \in MessageType : m.session = s})
    BY <1>1, <1>2, MessagesAreSelected
  <2>2. before \in Seq(MessageType)
    BY <1>1, <1>2, MessagesType
  <2> QED
    BY <1>2, <2>1, <2>2, SelectDistinct
<1>4. PICK rest \in Seq(MessageType) : taken \in Seq(MessageType) /\ before = taken \o rest
  <2>1. MaxBatch \in Nat
    BY PolicyAssumption
  <2>2. \E rest \in Seq(MessageType) :
          /\ Prefix(before, MaxBatch) \in Seq(MessageType)
          /\ before = Prefix(before, MaxBatch) \o rest
    BY <1>3, <2>1, PrefixSplit
  <2> QED
    BY <1>1, <2>2
<1>5. PICK k \in Nat, l \in Nat :
        /\ k = Len(taken) /\ l = Len(rest)
        /\ DOMAIN taken = 1..k /\ DOMAIN rest = 1..l /\ DOMAIN before = 1..(k + l)
        /\ \A x \in 1..k : before[x] = taken[x]
        /\ \A x \in 1..l : before[k + x] = rest[x]
  <2>1. /\ Grows(taken \o rest, taken)
        /\ Len(taken) \in Nat /\ Len(rest) \in Nat
        /\ DOMAIN taken = 1..Len(taken) /\ DOMAIN rest = 1..Len(rest)
        /\ DOMAIN (taken \o rest) = 1..(Len(taken) + Len(rest))
        /\ \A x \in 1..Len(rest) : (taken \o rest)[Len(taken) + x] = rest[x]
    BY <1>4, ConcatGrows
  <2> QED
    BY <1>4, <2>1 DEF Grows
<1>6. Len(before) = k + l
  BY <1>3, <1>5, LenProperties
<1>7. k <= MaxBatch /\ (k = MaxBatch \/ l = 0)
  <2>1. PICK c \in Nat : c = (IF Len(before) < MaxBatch THEN Len(before) ELSE MaxBatch)
                         /\ c <= MaxBatch /\ c <= k + l
    BY <1>6, PolicyAssumption
  <2>2. taken = SubSeq(before, 1, c)
    BY <1>1, <2>1 DEF Prefix
  <2>3. Len(SubSeq(before, 1, c)) = c
    <3>1. \A x \in 1..c : before[x] \in MessageType
      BY <1>3, <1>6, <2>1, ElementOfSeq
    <3> QED
      BY <2>1, <3>1, SubSeqProperties
  <2> QED
    BY <1>5, <1>6, <2>1, <2>2, <2>3, PolicyAssumption
<1>8. Ids(taken) \subseteq Ids(before)
  BY <1>5 DEF Ids, ToSet
<1>9. DistinctIds(taken)
  BY <1>3, <1>5 DEF DistinctIds
<1>10. Cardinality(Ids(taken)) = k
  BY <1>4, <1>5, <1>9, IdsCount
<1>11. \A e \in Ids(taken), f \in Ids(before) \ Ids(taken) : Untimed!Before(Bare(img), e, f)
  <2>1. SUFFICES ASSUME NEW e \in Ids(taken), NEW f \in Ids(before) \ Ids(taken)
                 PROVE  Untimed!Before(Bare(img), e, f)
    OBVIOUS
  <2>2. PICK i \in DOMAIN taken : taken[i].id = e
    BY DEF Ids, ToSet
  <2>3. PICK j \in DOMAIN before : before[j].id = f
    BY DEF Ids, ToSet
  <2>4. j \notin 1..k
    BY <1>5, <2>3 DEF Ids, ToSet
  <2>5. i \in DOMAIN before /\ before[i].id = e /\ i < j
    BY <1>5, <2>2, <2>3, <2>4
  <2> QED
    BY <1>1, <2>3, <2>5, WaitInOrder
<1>12. Ids(taken) # {}
  <2>1. k # 0
    BY <1>4, <1>5, EmptySeq
  <2>2. 1 \in DOMAIN taken
    BY <1>5, <2>1
  <2>3. taken[1] \in ToSet(taken)
    BY <2>2 DEF ToSet
  <2> QED
    BY <2>3 DEF Ids
<1>13. Ids(taken) = Ids(before) \/ Cardinality(Ids(taken)) = MaxBatch
  <2>1. CASE l = 0
    <3>1. before = taken
      BY <1>4, <1>5, <2>1, EmptySeq, ConcatEmptySeq
    <3> QED
      BY <3>1
  <2> QED
    BY <1>7, <1>10, <2>1
<1>14. PICK b, w : b = Ids(taken) /\ w = Ids(before)
  OBVIOUS
<1>15. Untimed!QueueOf(Bare(img), s) = w
  BY <1>1, <1>14, QueueOfIs
<1>16. /\ b # {} /\ b \subseteq w /\ Cardinality(b) <= MaxBatch
       /\ b = w \/ Cardinality(b) = MaxBatch
       /\ \A e \in b, f \in w \ b : Untimed!Before(Bare(img), e, f)
  BY <1>7, <1>8, <1>10, <1>11, <1>12, <1>13, <1>14
<1>17. Untimed!IsBatch(Bare(img), s, b)
  BY <1>15, <1>16, SameCount DEF Untimed!IsBatch
<1> QED
  BY <1>14, <1>17

(* Each run input holds a message no other does, so that there are no more *)
(* of them than events.                                                    *)
LEMMA InputsBounded ==
  ASSUME NEW img, Sound(img)
  PROVE  Len(img.inputs) <= Cardinality(Id)
<1>1. /\ img.inputs \in Seq(InputType) /\ DistinctIds(img.inputs) /\ ClaimedOnce(img)
      /\ \A x \in ToSet(img.inputs) : InputWellFormed(x)
  BY DEF Sound, ImageType, Valid, InputsValid
<1>2. PICK n \in Nat : n = Len(img.inputs) /\ DOMAIN img.inputs = 1..n
  BY <1>1, LenProperties
<1>3. PICK f : f = [i \in 1..n |-> img.inputs[i].messages[1].id]
  OBVIOUS
<1>4. ASSUME NEW i \in 1..n
      PROVE  /\ img.inputs[i] \in ToSet(img.inputs)
             /\ img.inputs[i].messages[1] \in ToSet(img.inputs[i].messages)
             /\ f[i] = img.inputs[i].messages[1].id /\ f[i] \in Id
  <2>1. img.inputs[i] \in InputType /\ img.inputs[i] \in ToSet(img.inputs)
    BY <1>1, <1>2, ElementOfSeq DEF ToSet
  <2>2. PICK messages \in Seq(MessageType) : messages = img.inputs[i].messages
    BY <2>1 DEF InputType
  <2>3. messages # <<>>
    BY <1>1, <2>1, <2>2 DEF InputWellFormed
  <2>4. 1 \in DOMAIN messages /\ messages[1] \in MessageType
    BY <2>2, <2>3, EmptySeq, LenProperties, ElementOfSeq
  <2> QED
    BY <1>3, <2>1, <2>2, <2>4 DEF ToSet, MessageType
<1>5. ASSUME NEW i \in 1..n, NEW j \in 1..n, f[i] = f[j] PROVE i = j
  <2>1. PICK x, y : x = img.inputs[i] /\ y = img.inputs[j]
    OBVIOUS
  <2>2. /\ x \in ToSet(img.inputs) /\ y \in ToSet(img.inputs)
        /\ f[i] \in {m.id : m \in ToSet(x.messages)}
        /\ f[j] \in {m.id : m \in ToSet(y.messages)}
    BY <1>4, <2>1
  <2>3. x = y
    BY <1>1, <1>5, <2>2 DEF ClaimedOnce
  <2> QED
    BY <1>1, <1>2, <2>1, <2>3 DEF DistinctIds
<1>6. f \in Injection(1..n, Id)
  <2>1. f \in [1..n -> Id]
    BY <1>3, <1>4
  <2>2. \A i, j \in 1..n : f[i] = f[j] => i = j
    BY <1>5
  <2> QED
    BY <2>1, <2>2 DEF Injection, IsInjective
<1>7. IsFiniteSet(Id)
  BY UntimedAssumption DEF Id
<1>8. IsFiniteSet(1..n) /\ Cardinality(1..n) = n
  BY FS_Interval
<1> QED
  BY <1>2, <1>6, <1>7, <1>8, FS_Injection

LEMMA NextRunId ==
  ASSUME NEW img, Sound(img), NEW t \in Nat, NEW s, NEW new,
         Claims(img, Len(img.runs) + 1, t, s, new)
  PROVE  Len(img.runs) + 1 \in RunIds
<1>1. PICK n \in Nat : n = Len(img.runs) /\ n = Len(img.inputs)
  <2>1. img.runs \in Seq(RunType) /\ Len(img.runs) = Len(img.inputs)
    BY DEF Sound, ImageType, EachRunClaimed
  <2> QED
    BY <2>1, LenProperties
<1>2. Sound(new)
  BY <1>1, ClaimSound
<1>3. Len(new.inputs) = n + 1
  <2>1. PICK input \in InputType : new.inputs = Append(img.inputs, input)
    BY DEF Claims
  <2>2. img.inputs \in Seq(InputType)
    BY DEF Sound, ImageType
  <2> QED
    BY <1>1, <2>1, <2>2, AppendProperties
<1>4. Len(new.inputs) <= Cardinality(Id)
  BY <1>2, InputsBounded
<1>5. Cardinality(Id) \in Nat
  BY UntimedAssumption, FS_CardinalityType DEF Id
<1> QED
  BY <1>1, <1>3, <1>4, <1>5 DEF RunIds, Id

(* A claim is RuntimeState!ClaimBatch.                                     *)
IsUntimedClaim(old, r, s, b, new) ==
  ~Untimed!Owned(old, s) /\ Untimed!IsBatch(old, s, b) /\ new = Untimed!ClaimBatch(old, r, s, b)

LEMMA FreeIsNotOwned ==
  ASSUME NEW img, DistinctIds(img.runs), NEW s \in SessionId,
         \A run \in ToSet(img.runs) : run.session = s => IsTerminal(run)
  PROVE  ~Untimed!Owned(Bare(img), s)
<1>1. SUFFICES ASSUME NEW r \in RunIds, Bare(img).status[r] \in Untimed!Active,
                      Bare(img).scope[r] = s
               PROVE  FALSE
  BY DEF Untimed!Owned
<1>2. StatusOf(img, r) \in {"pending", "running", "interrupted"} /\ ScopeOf(img, r) = s
  <2>1. Bare(img).status[r] = StatusOf(img, r) /\ Bare(img).scope[r] = ScopeOf(img, r)
    <3>1. /\ Bare(img).status = [q \in RunIds |-> StatusOf(img, q)]
          /\ Bare(img).scope = [q \in RunIds |-> ScopeOf(img, q)]
      BY BareImage
    <3> QED
      BY <3>1
  <2> QED
    BY <1>1, <2>1 DEF Untimed!Active
<1>3. Has(img.runs, r)
  BY <1>2, NoRunIs
<1>4. PICK run \in ToSet(img.runs) : run.id = r
  BY <1>3, HasIs
<1>5. run.status = StatusOf(img, r) /\ run.session = s
  BY <1>2, <1>4, RunIs
<1> QED
  BY <1>2, <1>5 DEF IsTerminal

LEMMA ClaimIsUntimed ==
  ASSUME NEW img, Sound(img), NEW r \in RunIds, NEW t \in Nat, NEW s, NEW new,
         Claims(img, r, t, s, new)
  PROVE  IsUntimedClaim(Bare(img), r, s, Bare(new).input[r], Bare(new))
<1>1. PICK input \in InputType : input = ClaimedInput(img, r, t, s)
  BY DEF Claims
<1>2. PICK run \in RunType : run = NewRun(r, s, t)
  BY DEF Claims
<1>3. /\ input.id = r /\ run.id = r /\ run.status = "pending" /\ run.session = s
      /\ input.messages = Prefix(MessagesOf(img.queue, s), MaxBatch)
  BY <1>1, <1>2 DEF ClaimedInput, NewRun
<1>4. /\ s \in SessionId /\ ~Has(img.runs, r) /\ InputWellFormed(input)
      /\ \A old \in ToSet(img.runs) : old.session = s => IsTerminal(old)
      /\ new.runs = Append(img.runs, run) /\ new.inputs = Append(img.inputs, input)
      /\ new.ledger = img.ledger
      /\ new.queue = Select(img.queue, ToSet(img.queue) \ ToSet(input.messages))
  BY <1>1, <1>2 DEF Claims
<1>5. /\ img.runs \in Seq(RunType) /\ img.inputs \in Seq(InputType)
      /\ img.queue \in Seq(MessageType) /\ input.messages \in Seq(MessageType)
      /\ DistinctIds(img.runs) /\ DistinctIds(img.queue)
  BY DEF Sound, ImageType, Valid, RunsValid, QueueValid, InputType
<1>6. Sound(new) /\ DistinctIds(new.runs) /\ DistinctIds(new.inputs)
  <2>1. Sound(new)
    BY RunIdsType, ClaimSound
  <2> QED
    BY <2>1 DEF Sound, Valid, RunsValid, InputsValid
<1>7. PICK b : b = Ids(input.messages)
  OBVIOUS
<1>8. /\ \A q : q # r => StatusOf(new, q) = StatusOf(img, q) /\ ScopeOf(new, q) = ScopeOf(img, q)
      /\ \A q : q # r => InputOf(new, q) = InputOf(img, q)
  <2>1. \A q : q # r => Find(new.runs, q) = Find(img.runs, q) /\ Find(new.inputs, q) = Find(img.inputs, q)
    BY <1>3, <1>4, <1>5, FindAppended
  <2> QED
    BY <2>1, SameRunIs, SameInputIs
<1>9. StatusOf(new, r) = "pending" /\ ScopeOf(new, r) = s /\ InputOf(new, r) = b
  <2>1. run \in ToSet(new.runs) /\ input \in ToSet(new.inputs)
    BY <1>4, <1>5, ElementsAppend
  <2>2. StatusOf(new, run.id) = run.status /\ ScopeOf(new, run.id) = run.session
    BY <1>6, <2>1, RunIs
  <2>3. InputOf(new, input.id) = Ids(input.messages)
    BY <1>6, <2>1, InputIs
  <2> QED
    BY <1>3, <1>7, <2>2, <2>3
<1>10. Ids(new.queue) = Ids(img.queue) \ b
  <2>1. \A m \in ToSet(input.messages) : m \in ToSet(img.queue)
    <3>1. \E rest \in Seq(MessageType) : MessagesOf(img.queue, s) = input.messages \o rest
      <4>1. PICK mine \in Seq(MessageType), n \in Nat : mine = MessagesOf(img.queue, s) /\ n = MaxBatch
        BY <1>5, MessagesType, PolicyAssumption
      <4>2. \E rest \in Seq(MessageType) : /\ Prefix(mine, n) \in Seq(MessageType)
                                             /\ mine = Prefix(mine, n) \o rest
        BY PrefixSplit
      <4> QED
        BY <1>3, <4>1, <4>2
    <3>2. ToSet(input.messages) \subseteq ToSet(MessagesOf(img.queue, s))
      BY <1>5, <3>1, ElementsConcat
    <3>3. ToSet(MessagesOf(img.queue, s)) = {m \in ToSet(img.queue) : m.session = s}
      BY <1>5, MessagesType
    <3> QED
      BY <3>2, <3>3
  <2>2. ToSet(new.queue) = ToSet(img.queue) \ ToSet(input.messages)
    <3>1. PICK S : S = ToSet(img.queue) \ ToSet(input.messages)
      OBVIOUS
    <3>2. ToSet(Select(img.queue, S)) = ToSet(img.queue) \cap S
      BY <1>5, SelectType
    <3> QED
      BY <1>4, <3>1, <3>2
  <2>3. \A m, k \in ToSet(img.queue) : m.id = k.id => m = k
    BY <1>5 DEF DistinctIds, ToSet
  <2> QED
    BY <1>7, <2>1, <2>2, <2>3 DEF Ids
<1>11. ClaimsIn(Bare(img), r, s, b, Bare(new))
  <2>1. [q \in RunIds |-> StatusOf(new, q)]
          = [[q \in RunIds |-> StatusOf(img, q)] EXCEPT ![r] = "pending"]
    BY <1>8, <1>9
  <2>2. [q \in RunIds |-> ScopeOf(new, q)] = [[q \in RunIds |-> ScopeOf(img, q)] EXCEPT ![r] = s]
    BY <1>8, <1>9
  <2>3. [q \in RunIds |-> InputOf(new, q)] = [[q \in RunIds |-> InputOf(img, q)] EXCEPT ![r] = b]
    BY <1>8, <1>9
  <2>4. LedgerIds(new) = LedgerIds(img)
    BY <1>4 DEF LedgerIds
  <2>5. /\ Bare(new).ledger = Bare(img).ledger
        /\ Bare(new).queue = Bare(img).queue \ b
        /\ Bare(new).status = [Bare(img).status EXCEPT ![r] = "pending"]
        /\ Bare(new).scope = [Bare(img).scope EXCEPT ![r] = s]
        /\ Bare(new).input = [Bare(img).input EXCEPT ![r] = b]
    <3>1. /\ Bare(new).ledger = LedgerIds(new) /\ Bare(img).ledger = LedgerIds(img)
          /\ Bare(new).queue = Ids(new.queue) /\ Bare(img).queue = Ids(img.queue)
      BY BareImage
    <3>2. /\ Bare(new).status = [q \in RunIds |-> StatusOf(new, q)]
          /\ Bare(new).scope = [q \in RunIds |-> ScopeOf(new, q)]
          /\ Bare(new).input = [q \in RunIds |-> InputOf(new, q)]
      BY BareImage
    <3>3. /\ Bare(img).status = [q \in RunIds |-> StatusOf(img, q)]
          /\ Bare(img).scope = [q \in RunIds |-> ScopeOf(img, q)]
          /\ Bare(img).input = [q \in RunIds |-> InputOf(img, q)]
      BY BareImage
    <3>4. Bare(new).ledger = Bare(img).ledger /\ Bare(new).queue = Bare(img).queue \ b
      BY <1>10, <2>4, <3>1
    <3>5. Bare(new).status = [Bare(img).status EXCEPT ![r] = "pending"]
      BY <2>1, <3>2, <3>3, Zenon
    <3>6. Bare(new).scope = [Bare(img).scope EXCEPT ![r] = s]
      BY <2>2, <3>2, <3>3, Zenon
    <3>7. Bare(new).input = [Bare(img).input EXCEPT ![r] = b]
      BY <2>3, <3>2, <3>3, Zenon
    <3> QED
      BY <3>4, <3>5, <3>6, <3>7
  <2>6. IsImage(Bare(new))
    BY BareImage
  <2> QED
    BY <2>5, <2>6, Zenon DEF IsImage, ClaimsIn
<1>12. Bare(new) = Untimed!ClaimBatch(Bare(img), r, s, b)
  BY <1>11, BareImage, UntimedClaimIs
<1>13. Untimed!IsBatch(Bare(img), s, b)
  <2>1. input.messages # <<>>
    BY <1>4 DEF InputWellFormed
  <2> QED
    BY <1>3, <1>4, <1>7, <2>1, PrefixIsBatch
<1>14. ~Untimed!Owned(Bare(img), s)
  BY <1>4, <1>5, FreeIsNotOwned
<1>15. Bare(new).input[r] = b
  <2>1. Bare(new).input = [q \in RunIds |-> InputOf(new, q)]
    BY BareImage
  <2> QED
    BY <1>9, <2>1
<1> QED
  BY <1>12, <1>13, <1>14, <1>15 DEF IsUntimedClaim

(* A cancellation is RuntimeState!SetStatus.                               *)
IsUntimedEnd(old, r, x, new) ==
  Untimed!IsDescendant(old.status[r], x) /\ new = Untimed!SetStatus(old, r, x)

LEMMA EndIsUntimed ==
  ASSUME NEW img, Sound(img), NEW t \in Nat, NEW old, NEW done, NEW new,
         Ends(img, t, old, done, new), old.id \in RunIds
  PROVE  IsUntimedEnd(Bare(img), old.id, Bare(new).status[old.id], Bare(new))
<1>1. /\ old \in ToSet(img.runs) /\ old.status = "pending"
      /\ done.id = old.id /\ done.session = old.session /\ done.status = "cancelled"
      /\ new.inputs = img.inputs /\ new.ledger = img.ledger /\ new.queue = img.queue
  BY DEF Ends
<1>2. /\ DistinctIds(img.runs) /\ DistinctIds(new.runs)
      /\ DOMAIN new.runs = DOMAIN img.runs
      /\ \A i \in DOMAIN img.runs : new.runs[i] = IF img.runs[i] = old THEN done ELSE img.runs[i]
  <2>1. RunsValid(new) /\ RunsValid(img)
    BY EndRuns DEF Sound, Valid
  <2> QED
    BY <2>1, EndRuns DEF RunsValid
<1>3. PICK r \in RunIds : r = old.id
  OBVIOUS
<1>4. \A q : q # r => Find(new.runs, q) = Find(img.runs, q)
  BY <1>1, <1>2, <1>3 DEF Find, ToSet
<1>5. done \in ToSet(new.runs)
  BY <1>1, <1>2 DEF ToSet
<1>6. /\ StatusOf(img, r) = "pending" /\ ScopeOf(img, r) = old.session
      /\ StatusOf(new, r) = "cancelled" /\ ScopeOf(new, r) = old.session
  <2>1. StatusOf(img, old.id) = old.status /\ ScopeOf(img, old.id) = old.session
    BY <1>1, <1>2, RunIs
  <2>2. StatusOf(new, done.id) = done.status /\ ScopeOf(new, done.id) = done.session
    BY <1>2, <1>5, RunIs
  <2> QED
    BY <1>1, <1>3, <2>1, <2>2
<1>7. \A q : q # r => StatusOf(new, q) = StatusOf(img, q) /\ ScopeOf(new, q) = ScopeOf(img, q)
  BY <1>4, SameRunIs
<1>8. \A q : InputOf(new, q) = InputOf(img, q)
  BY <1>1 DEF InputOf
<1>9. /\ Bare(img).status = [q \in RunIds |-> StatusOf(img, q)]
      /\ Bare(new).status = [q \in RunIds |-> StatusOf(new, q)]
  BY BareImage
<1>10. Bare(img).status[r] = "pending" /\ Bare(new).status[r] = "cancelled"
  BY <1>6, <1>9
<1>11. SetsIn(Bare(img), r, "cancelled", Bare(new))
  <2>1. [q \in RunIds |-> StatusOf(new, q)]
          = [[q \in RunIds |-> StatusOf(img, q)] EXCEPT ![r] = "cancelled"]
    BY <1>6, <1>7
  <2>2. Bare(new).status = [Bare(img).status EXCEPT ![r] = "cancelled"]
    BY <1>9, <2>1, Zenon
  <2>3. Bare(new).ledger = Bare(img).ledger
    <3>1. Bare(new).ledger = LedgerIds(new) /\ Bare(img).ledger = LedgerIds(img)
      BY BareImage
    <3>2. LedgerIds(new) = LedgerIds(img)
      BY <1>1 DEF LedgerIds
    <3> QED
      BY <3>1, <3>2
  <2>4. Bare(new).queue = Bare(img).queue
    <3>1. Bare(new).queue = Ids(new.queue) /\ Bare(img).queue = Ids(img.queue)
      BY BareImage
    <3> QED
      BY <1>1, <3>1
  <2>5. Bare(new).scope = Bare(img).scope
    <3>1. /\ Bare(new).scope = [q \in RunIds |-> ScopeOf(new, q)]
          /\ Bare(img).scope = [q \in RunIds |-> ScopeOf(img, q)]
      BY BareImage
    <3>2. \A q : ScopeOf(new, q) = ScopeOf(img, q)
      BY <1>6, <1>7
    <3> QED
      BY <3>1, <3>2
  <2>6. Bare(new).input = Bare(img).input
    <3>1. /\ Bare(new).input = [q \in RunIds |-> InputOf(new, q)]
          /\ Bare(img).input = [q \in RunIds |-> InputOf(img, q)]
      BY BareImage
    <3> QED
      BY <1>8, <3>1
  <2>7. IsImage(Bare(new))
    BY BareImage
  <2> QED
    BY <2>2, <2>3, <2>4, <2>5, <2>6, <2>7, Zenon DEF IsImage, SetsIn
<1>12. Bare(new) = Untimed!SetStatus(Bare(img), r, "cancelled")
  BY <1>11, BareImage, UntimedStatusIs
<1>13. Untimed!IsDescendant(Bare(img).status[r], Bare(new).status[r])
  BY <1>10 DEF Untimed!IsDescendant, Untimed!Terminal
<1> QED
  BY <1>3, <1>10, <1>12, <1>13 DEF IsUntimedEnd

(* What StepsAreUntimedSteps says of a step.                               *)
IsUntimedStep(old, new) ==
  \/ new = old
  \/ \E id \in Id : IsUntimedArrival(old, id, new)
  \/ \E r \in RunIds, s \in SessionId : IsUntimedClaim(old, r, s, new.input[r], new)
  \/ \E r \in RunIds : IsUntimedEnd(old, r, new.status[r], new)

LEMMA StepIsUntimed ==
  ASSUME IInv, [Next]_vars
  PROVE  IsUntimedStep(Bare(file), Bare(file'))
<1>1. Sound(file) /\ now \in Nat
  BY DEF IInv
<1>2. CASE file' = file
  BY <1>2 DEF IsUntimedStep
<1>3. ASSUME NEW e \in Event, Arrived(file, e, now, file')
      PROVE  IsUntimedStep(Bare(file), Bare(file'))
  <2>1. IsUntimedArrival(Bare(file), e.id, Bare(file'))
    BY <1>1, <1>3, ArrivalIsUntimed
  <2>2. e.id \in Id
    BY DEF Id
  <2> QED
    BY <2>1, <2>2 DEF IsUntimedStep
<1>4. ASSUME NEW s, Claims(file, Len(file.runs) + 1, now, s, file')
      PROVE  IsUntimedStep(Bare(file), Bare(file'))
  <2>1. PICK r \in RunIds : r = Len(file.runs) + 1
    BY <1>1, <1>4, NextRunId
  <2>2. Claims(file, r, now, s, file')
    BY <1>4, <2>1
  <2>3. IsUntimedClaim(Bare(file), r, s, Bare(file').input[r], Bare(file'))
    BY <1>1, <2>2, ClaimIsUntimed
  <2>4. s \in SessionId
    BY <1>4 DEF Claims
  <2> QED
    BY <2>3, <2>4 DEF IsUntimedStep
<1>5. ASSUME NEW id \in RunIds, NEW old, NEW done, old.id = id, Ends(file, now, old, done, file')
      PROVE  IsUntimedStep(Bare(file), Bare(file'))
  <2>1. IsUntimedEnd(Bare(file), old.id, Bare(file').status[old.id], Bare(file'))
    BY <1>1, <1>5, EndIsUntimed
  <2> QED
    BY <1>5, <2>1 DEF IsUntimedStep
<1> QED
  BY <1>2, <1>3, <1>4, <1>5, FileSteps

(* Without its times, the file goes through the transitions of the image   *)
(* MessageHandoff works on, and no others: an arrival is a RecordEvent, a  *)
(* claim takes a batch that image allows from a session no unfinished run  *)
(* owns, and a cancellation is a transition of a run.                      *)
THEOREM StepsAreUntimed ==
  Spec => StepsAreUntimedSteps
<1>1. IInv /\ [Next]_vars =>
        [LET old == Bare(file)
             new == Bare(file')
         IN \/ new = old
            \/ \E id \in {e.id : e \in Event} :
                 id \notin Untimed!Recorded(old) /\ new = Untimed!RecordEvent(old, id)
            \/ \E r \in RunIds, s \in SessionId :
                 /\ ~Untimed!Owned(old, s)
                 /\ Untimed!IsBatch(old, s, new.input[r])
                 /\ new = Untimed!ClaimBatch(old, r, s, new.input[r])
            \/ \E r \in RunIds :
                 /\ Untimed!IsDescendant(old.status[r], new.status[r])
                 /\ new = Untimed!SetStatus(old, r, new.status[r])]_file
  BY StepIsUntimed DEF IsUntimedStep, IsUntimedArrival, IsUntimedClaim, IsUntimedEnd, Id
<1> QED
  BY <1>1, Invariance, PTL DEF Spec, StepsAreUntimedSteps

=============================================================================
