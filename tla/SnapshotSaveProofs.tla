--------------------------- MODULE SnapshotSaveProofs ---------------------------
(***************************************************************************)
(* Proofs about SnapshotSave, for any copies, edits, operations and files: *)
(* what the store writes it can read, and what it cannot read it keeps.    *)
(*                                                                         *)
(* The argument.  Every operation that changes the file starts from an     *)
(* image it has read and writes one that it has validated (Replaces).      *)
(* Encoding such an image and reading it again gives its parts, and valid  *)
(* is a matter of the parts.                                               *)
(*                                                                         *)
(* For the rest the state is typed and each step has one of a few shapes    *)
(* (StepShape): a merge extends the file it was made with, so that nothing     *)
(* stored is lost and what the file confirmed stays; a valid copy is valid *)
(* after the edits an embedder makes of it, and so is its merge with any   *)
(* valid file; and a copy that was not edited is a past of the file, which *)
(* every write keeps it.                                                   *)
(***************************************************************************)
EXTENDS SnapshotSave, OperatorProofs

(* The file is replaced by a valid image, and it could be read.            *)
Stores(img) == Valid(img) /\ file' = {Encode(img)}

Replaces == LoadForMerge(file) # {} /\ \E img : Stores(img)

(* There is at most one file.                                              *)
OneFile == \A v, w \in file : v = w

(* Each write is of an image that the file then holds in full.             *)
WrittenFilesAreRead ==
  [][file' # file => \A wire \in file' : \E img \in Parse(wire) : wire = Encode(img)]_vars

(* Two images with the same parts.                                         *)
SameParts(a, b) ==
  /\ a.sessions = b.sessions /\ a.runs = b.runs /\ a.inputs = b.inputs
  /\ a.ledger = b.ledger /\ a.queue = b.queue /\ a.outbox = b.outbox
  /\ a.updated = b.updated

-----------------------------------------------------------------------------
(* The operations.                                                         *)
LEMMA LoadIsForMerge == Load(file) # {} => LoadForMerge(file) # {}
BY DEF Load, LoadForMerge

LEMMA SavedIsValid ==
  ASSUME NEW existing, NEW s, NEW img \in Save(existing, s)
  PROVE  Valid(img)
BY DEF Save, Accept

LEMMA EmbedderStep ==
  ASSUME NEW m \in Embedder, EmbedderNext(m)
  PROVE  Replaces \/ file' = file
<1>1. CASE SaveSnapshot(m)
  BY <1>1, SavedIsValid DEF SaveSnapshot, Replaces, Stores
<1>2. CASE ~SaveSnapshot(m)
  BY <1>2 DEF EmbedderNext, LoadSnapshot, Edit, EditSession, EditAddRun, EditEvent,
     EditDelivery, EditRun, EditStart, EditInterrupt, EditComplete, EditEnd
<1> QED
  BY <1>1, <1>2

LEMMA UpdateBySaveReplaces ==
  ASSUME NEW e, PersistEvent(e) \/ EnqueueDelivery(e)
  PROVE  Replaces
BY SavedIsValid DEF PersistEvent, EnqueueDelivery, UpdateBySave, Replaces, Stores

LEMMA RunUpdateReplaces ==
  ASSUME NEW id, NEW messages,
         \/ ClaimMessages(id) \/ StartAgentRun(id) \/ CompleteAgentRun(id, messages)
         \/ FailAgentRun(id) \/ InterruptAgentRun(id)
  PROVE  Replaces
<1>1. CASE ClaimMessages(id)
  BY <1>1, LoadIsForMerge DEF ClaimMessages, Update, Replaces, Stores, Write
<1>2. CASE StartAgentRun(id)
  BY <1>2, LoadIsForMerge DEF StartAgentRun, Update, Replaces, Stores, Write
<1>3. CASE CompleteAgentRun(id, messages)
  BY <1>3, LoadIsForMerge DEF CompleteAgentRun, Update, Replaces, Stores, Write
<1>4. CASE FailAgentRun(id)
  BY <1>4, LoadIsForMerge DEF FailAgentRun, StopAgentRun, Update, Replaces, Stores, Write
<1>5. CASE InterruptAgentRun(id)
  BY <1>5, LoadIsForMerge DEF InterruptAgentRun, StopAgentRun, Update, Replaces, Stores, Write
<1> QED
  BY <1>1, <1>2, <1>3, <1>4, <1>5

LEMMA OutboxUpdateReplaces ==
  ASSUME NEW status, ClaimDelivery \/ SettleDelivery(status) \/ ResolveDelivery(status)
  PROVE  Replaces
BY LoadIsForMerge DEF ClaimDelivery, SettleDelivery, ResolveDelivery, OnOutbox, Update,
   Replaces, Stores, Write

LEMMA RecoverReplaces ==
  ASSUME Recover PROVE Replaces
BY LoadIsForMerge DEF Recover, Update, Replaces, Stores, Write

LEMMA EveryStep ==
  ASSUME [Next]_vars
  PROVE  Replaces \/ file' = file
<1>1. CASE StoreNext
  BY <1>1, UpdateBySaveReplaces, RunUpdateReplaces, OutboxUpdateReplaces, RecoverReplaces
     DEF StoreNext
<1>2. CASE Tick \/ UNCHANGED vars
  BY <1>2 DEF Tick, vars
<1> QED
  BY <1>1, <1>2, EmbedderStep DEF Next

-----------------------------------------------------------------------------
(* The format.                                                             *)
LEMMA TheCollections ==
  /\ Collections = {"runs", "ledger", "outbox", "queue", "inputs"}
  /\ IntroducedIn["runs"] = 2 /\ IntroducedIn["ledger"] = 3 /\ IntroducedIn["outbox"] = 4
  /\ IntroducedIn["queue"] = 5 /\ IntroducedIn["inputs"] = 6
BY DEF Collections, IntroducedIn

(* What is decoded is what the file holds.                                 *)
LEMMA DecodedParts ==
  ASSUME NEW wire, wire.version \in 1..CurrentVersion
  PROVE  /\ Decoded(wire).sessions = wire.sessions
         /\ wire.version >= 3 => Decoded(wire).updated = wire.updated
         /\ \A c \in Collections : Decoded(wire)[c] =
              IF wire.version >= IntroducedIn[c] THEN RecordsOf(wire.fields[c]) ELSE <<>>
<1>1. PICK img : img = AsWritten(wire)
  OBVIOUS
<1>2. /\ img.sessions = wire.sessions /\ img.updated = wire.updated
      /\ DOMAIN img = {"sessions", "updated"} \cup Collections
      /\ \A c \in Collections : img[c] =
           IF wire.version >= IntroducedIn[c] THEN RecordsOf(wire.fields[c]) ELSE <<>>
  BY <1>1, TheCollections DEF AsWritten
<1>3. Decoded(wire) = IF wire.version < 3 THEN [img EXCEPT !.updated = LatestOfAll(img)]
                                          ELSE img
  BY <1>1 DEF Decoded
<1> QED
  BY <1>2, <1>3, TheCollections DEF CurrentVersion

-----------------------------------------------------------------------------
(* Validity is a matter of the parts.                                      *)
LEMMA SamePlaces ==
  ASSUME NEW a, NEW b, SameParts(a, b)
  PROVE  /\ \A id : Position(a, id) = Position(b, id)
         /\ \A m : MatchesLedger(a, m) <=> MatchesLedger(b, m)
         /\ \A s : OwnershipOf(a, s) = OwnershipOf(b, s)
<1>1. a.ledger = b.ledger /\ a.inputs = b.inputs /\ a.queue = b.queue
  BY DEF SameParts
<1>2. ASSUME NEW id PROVE Position(a, id) = Position(b, id)
  <2> DEFINE Place(ledger) == CHOOSE i \in DOMAIN ledger : ledger[i].id = id
  <2>1. Position(a, id) = Place(a.ledger) /\ Position(b, id) = Place(b.ledger)
    BY DEF Position
  <2> HIDE DEF Place
  <2> QED
    BY <1>1, <2>1
<1>3. ASSUME NEW m PROVE MatchesLedger(a, m) <=> MatchesLedger(b, m)
  BY <1>1 DEF MatchesLedger
<1>4. ASSUME NEW s PROVE OwnershipOf(a, s) = OwnershipOf(b, s)
  <2> DEFINE Owned(inputs, queue) ==
        MessagesOf(FlattenSeq([i \in DOMAIN inputs |-> inputs[i].messages]) \o queue, s)
  <2>1. OwnershipOf(a, s) = Owned(a.inputs, a.queue) /\ OwnershipOf(b, s) = Owned(b.inputs, b.queue)
    BY DEF OwnershipOf
  <2> HIDE DEF Owned
  <2> QED
    BY <1>1, <2>1
<1> QED
  BY <1>2, <1>3, <1>4

LEMMA SamePartsValid ==
  ASSUME NEW a, NEW b, SameParts(a, b), Valid(a)
  PROVE  Valid(b)
<1>1. SessionsValid(b)
  BY DEF Valid, SameParts, SessionsValid
<1>2. RunsValid(b)
  BY DEF Valid, SameParts, RunsValid
<1>3. LedgerValid(b)
  BY DEF Valid, SameParts, LedgerValid
<1>4. OutboxValid(b)
  BY DEF Valid, SameParts, OutboxValid
<1>5. OutputsValid(b)
  BY DEF Valid, SameParts, OutputsValid
<1>6. QueueValid(b)
  <2>1. QueueValid(a) /\ a.queue = b.queue /\ a.sessions = b.sessions /\ a.updated = b.updated
    BY DEF Valid, SameParts
  <2>2. [i \in DOMAIN a.queue |-> Position(a, a.queue[i].id)]
          = [i \in DOMAIN b.queue |-> Position(b, b.queue[i].id)]
    BY <2>1, SamePlaces
  <2> QED
    BY <2>1, <2>2, SamePlaces DEF QueueValid
<1>7. InputsValid(b)
  <2>1. InputsValid(a) /\ a.inputs = b.inputs /\ a.queue = b.queue /\ a.runs = b.runs /\ a.updated = b.updated
    BY DEF Valid, SameParts
  <2>2. ClaimedOnce(b)
    BY <2>1 DEF InputsValid, ClaimedOnce, Claimed
  <2> QED
    BY <2>1, <2>2, SamePlaces DEF InputsValid
<1>8. OwnershipValid(b)
  <2>1. OwnershipValid(a) /\ a.queue = b.queue /\ a.inputs = b.inputs
    BY DEF Valid, SameParts
  <2>2. SUFFICES ASSUME NEW s \in SessionsIn(b.queue) \cup {b.inputs[i].session : i \in DOMAIN b.inputs}
                 PROVE  LET owned == OwnershipOf(b, s)
                        IN /\ NonDecreasing([i \in DOMAIN owned |-> owned[i].enqueued])
                           /\ Increasing([i \in DOMAIN owned |-> Position(b, owned[i].id)])
    BY DEF OwnershipValid
  <2>3. PICK owned : owned = OwnershipOf(a, s) /\ owned = OwnershipOf(b, s)
    BY SamePlaces
  <2>4. /\ NonDecreasing([i \in DOMAIN owned |-> owned[i].enqueued])
        /\ Increasing([i \in DOMAIN owned |-> Position(a, owned[i].id)])
    BY <2>1, <2>3 DEF OwnershipValid
  <2>5. [i \in DOMAIN owned |-> Position(a, owned[i].id)]
          = [i \in DOMAIN owned |-> Position(b, owned[i].id)]
    BY SamePlaces
  <2> QED
    BY <2>3, <2>4, <2>5
<1> QED
  BY <1>1, <1>2, <1>3, <1>4, <1>5, <1>6, <1>7, <1>8 DEF Valid

(* A valid image that was encoded is read again, as an image of the same   *)
(* parts, which encodes to the same file.                                  *)
LEMMA EncodedIsRead ==
  ASSUME NEW img, Valid(img)
  PROVE  \E read \in Parse(Encode(img)) : SameParts(img, read) /\ Encode(read) = Encode(img)
<1>1. PICK wire : wire = Encode(img)
  OBVIOUS
<1>2. /\ wire.version = 8 /\ wire.unlisted = FALSE
      /\ wire.sessions = img.sessions /\ wire.updated = img.updated
      /\ \A c \in Collections : wire.fields[c] = Value(img[c])
  BY <1>1 DEF Encode, CurrentVersion
<1>3. \A x : Value(x).tag = "value" /\ RecordsOf(Value(x)) = x
  BY DEF Value, RecordsOf
<1>4. PICK read : read = Decoded(wire)
  OBVIOUS
<1>5. wire.version \in 1..CurrentVersion
  BY <1>2 DEF CurrentVersion
<1>6. /\ read.sessions = img.sessions /\ read.updated = img.updated
      /\ \A c \in Collections : read[c] = img[c]
  <2>1. \A c \in Collections : wire.version >= IntroducedIn[c]
    BY <1>2, TheCollections
  <2> QED
    BY <1>2, <1>3, <1>4, <1>5, <2>1, DecodedParts
<1>7. SameParts(img, read)
  BY <1>6, TheCollections DEF SameParts
<1>8. RunsReadable(wire)
  BY <1>2, <1>3, TheCollections DEF RunsReadable, Valid, RunsValid
<1>9. Decodable(wire)
  BY <1>2, <1>3, <1>5, TheCollections DEF Decodable
<1>10. Valid(read)
  BY <1>7, SamePartsValid
<1>11. Parse(wire) = {read}
  BY <1>4, <1>8, <1>9, <1>10 DEF Parse, Accept
<1>12. Encode(read) = Encode(img)
  BY <1>6 DEF Encode
<1> QED
  BY <1>1, <1>7, <1>11, <1>12

-----------------------------------------------------------------------------
(* The steps, with what is known of the file.                              *)
LEMMA OneFileStays ==
  /\ Init => OneFile
  /\ OneFile /\ [Next]_vars => OneFile'
<1>1. ASSUME Init PROVE OneFile
  BY <1>1, SnapshotAssumption DEF Init, OneFile
<1>2. ASSUME OneFile, [Next]_vars PROVE OneFile'
  <2>1. CASE Replaces
    BY <2>1 DEF Replaces, Stores, OneFile
  <2>2. CASE file' = file
    BY <1>2, <2>2 DEF OneFile
  <2> QED
    BY <1>2, <2>1, <2>2, EveryStep
<1> QED
  BY <1>1, <1>2

(* What was refused when it was read was not replaced.                     *)
LEMMA UnreadableStays ==
  ASSUME OneFile, [Next]_vars, NEW wire \in file, Parse(wire) = {}
  PROVE  file' = file
<1>1. file = {wire}
  BY DEF OneFile
<1>2. LoadForMerge(file) = {}
  BY <1>1 DEF LoadForMerge
<1> QED
  BY <1>2, EveryStep DEF Replaces

(* A write leaves one file, of an image that is read from it.              *)
LEMMA WrittenIsRead ==
  ASSUME [Next]_vars, file' # file, NEW wire \in file'
  PROVE  \E img \in Parse(wire) : wire = Encode(img)
<1>1. PICK img : Stores(img)
  BY EveryStep DEF Replaces
<1>2. Valid(img) /\ wire = Encode(img)
  BY <1>1 DEF Stores
<1> QED
  BY <1>2, EncodedIsRead

(* What Parse accepts it holds in full.                                    *)
LEMMA ReadIsInFull ==
  ASSUME NEW wire, NEW img \in Parse(wire)
  PROVE  /\ img.sessions = wire.sessions
         /\ \A c \in Collections :
              IF wire.fields[c].tag = "value" THEN img[c] = wire.fields[c].records
                                              ELSE wire.fields[c].tag = "missing" /\ img[c] = <<>>
<1>1. Decodable(wire) /\ img = Decoded(wire)
  BY DEF Parse, Accept
<1>2. wire.version \in 1..CurrentVersion
  BY <1>1 DEF Decodable
<1>3. ASSUME NEW c \in Collections
      PROVE  IF wire.fields[c].tag = "value" THEN img[c] = wire.fields[c].records
                                             ELSE wire.fields[c].tag = "missing" /\ img[c] = <<>>
  <2>1. img[c] = IF wire.version >= IntroducedIn[c] THEN RecordsOf(wire.fields[c]) ELSE <<>>
    BY <1>1, <1>2, DecodedParts
  <2>2. wire.fields[c].tag = IF wire.version >= IntroducedIn[c] THEN "value" ELSE "missing"
    BY <1>1 DEF Decodable
  <2> QED
    BY <2>1, <2>2 DEF RecordsOf
<1> QED
  BY <1>1, <1>2, <1>3, DecodedParts

-----------------------------------------------------------------------------
(* The operations keep the types, and what else they keep.                 *)
LEMMA TouchIs ==
  ASSUME NEW img \in ImageType, NEW t \in Nat
  PROVE  /\ Touch(img, t) \in ImageType
         /\ Touch(img, t) = [sessions |-> img.sessions, runs |-> img.runs,
              inputs |-> img.inputs, ledger |-> img.ledger, queue |-> img.queue,
              outbox |-> img.outbox, updated |-> Larger(img.updated, t)]
         /\ Touch(img, t).updated >= img.updated /\ Touch(img, t).updated >= t
<1>1. img.updated \in Nat
  BY DEF ImageType
<1>2. PICK u \in Nat : u = Larger(img.updated, t) /\ u >= img.updated /\ u >= t
  BY <1>1, LargerIs
<1>3. Touch(img, t) = [sessions |-> img.sessions, runs |-> img.runs, inputs |-> img.inputs,
                       ledger |-> img.ledger, queue |-> img.queue, outbox |-> img.outbox,
                       updated |-> u]
  <2>1. Touch(img, t) = [img EXCEPT !.updated = u]
    BY <1>2 DEF Touch
  <2> QED
    BY <2>1 DEF ImageType
<1> QED
  BY <1>2, <1>3 DEF ImageType

(* What Put makes of records.                                              *)
IsPut(changed, records, x) ==
  /\ DOMAIN changed = DOMAIN records
  /\ \A i \in DOMAIN records :
       changed[i] = IF records[i].id = x.id THEN x ELSE records[i]

LEMMA PutIs ==
  ASSUME NEW X, NEW records \in Seq(X), NEW x \in X
  PROVE  Put(records, x) \in Seq(X) /\ IsPut(Put(records, x), records, x)
<1>1. PICK n \in Nat : n = Len(records) /\ DOMAIN records = 1..n
  BY LenProperties
<1>2. \A i \in 1..n : records[i] \in X
  BY <1>1, ElementOfSeq
<1>3. PICK p : p = Put(records, x)
  OBVIOUS
<1>4. p \in [1..n -> X]
  BY <1>1, <1>2, <1>3 DEF Put
<1>5. p \in Seq(X)
  BY <1>4, SeqDef
<1>6. IsPut(p, records, x)
  BY <1>3 DEF Put, IsPut
<1> QED
  BY <1>3, <1>5, <1>6

(* One of the runs goes on.                                                *)
RunGoesOn(img, t, old, run, new) ==
  /\ old \in ToSet(img.runs) /\ old \in RunType /\ run \in RunType /\ run.id = old.id
  /\ new \in ImageType
  /\ new.runs = Put(img.runs, run)
  /\ new.sessions = img.sessions /\ new.inputs = img.inputs /\ new.ledger = img.ledger
  /\ new.queue = img.queue /\ new.outbox = img.outbox
  /\ new.updated >= img.updated /\ new.updated >= t

LEMMA RunPut ==
  ASSUME NEW img \in ImageType, NEW id, NEW old \in Find(img.runs, id), NEW run \in RunType,
         run.id = old.id, NEW t \in Nat,
         NEW new, new = Touch([img EXCEPT !.runs = Put(@, run)], Larger(t, t))
  PROVE  RunGoesOn(img, t, old, run, new)
<1>1. PICK runs : runs = Put(img.runs, run)
  OBVIOUS
<1>2. /\ img.sessions \in Seq(SessionType) /\ img.runs \in Seq(RunType)
      /\ img.inputs \in Seq(InputType) /\ img.ledger \in Seq(EntryType)
      /\ img.queue \in Seq(MessageType) /\ img.outbox \in Seq(DeliveryType)
      /\ img.updated \in Nat
  BY DEF ImageType
<1>3. runs \in Seq(RunType)
  BY <1>1, <1>2, PutIs
<1>4. PICK base : base = [img EXCEPT !.runs = runs]
  OBVIOUS
<1>5. base = [sessions |-> img.sessions, runs |-> runs, inputs |-> img.inputs,
              ledger |-> img.ledger, queue |-> img.queue, outbox |-> img.outbox,
              updated |-> img.updated]
  BY <1>4 DEF ImageType
<1>6. base \in ImageType
  BY <1>2, <1>3, <1>5 DEF ImageType
<1>7. Larger(t, t) = t
  BY DEF Larger
<1>8. new = Touch(base, t)
  BY <1>1, <1>4, <1>7
<1>9. /\ new \in ImageType
      /\ new = [sessions |-> base.sessions, runs |-> base.runs,
              inputs |-> base.inputs, ledger |-> base.ledger, queue |-> base.queue,
              outbox |-> base.outbox, updated |-> Larger(base.updated, t)]
      /\ new.updated >= base.updated /\ new.updated >= t
  BY <1>6, <1>8, TouchIs
<1>10. old \in ToSet(img.runs) /\ old \in RunType
  BY <1>2, ElementsType DEF Find
<1> QED
  BY <1>1, <1>5, <1>9, <1>10 DEF RunGoesOn

(* The steps of a run.                                                     *)
NextRun(old, run, t) ==
  /\ run \in RunType
  /\ IsDescendant(run, old)
  /\ run.updated = Larger(old.updated, t)
  /\ run.status # "completed" => run.outputs = old.outputs
  /\ RunWellFormed(old) /\ run.outputs = <<>> => RunWellFormed(run)

LEMMA StartIs ==
  ASSUME NEW old \in RunType, NEW t \in Nat, NEW run \in Start(old, t)
  PROVE  NextRun(old, run, t)
<1>1. PICK u \in Nat : u = Larger(old.updated, t) /\ u >= old.updated /\ u >= t
  <2>1. old.updated \in Nat
    BY DEF RunType
  <2> QED
    BY <2>1, LargerIs
<1>2. /\ old.status = "pending" /\ t >= old.created
      /\ run = [id |-> old.id, session |-> old.session, created |-> old.created, updated |-> u,
                status |-> "running", started |-> {t}, finished |-> old.finished,
                outputs |-> old.outputs]
  BY <1>1 DEF Start, Accept, RunType
<1>3. run \in RunType
  BY <1>1, <1>2 DEF RunType
<1>4. IsDescendant(run, old)
  BY <1>1, <1>2 DEF IsDescendant
<1>5. ASSUME RunWellFormed(old) PROVE RunWellFormed(run)
  <2>1. old.created \in Nat /\ old.updated \in Nat
    BY DEF RunType
  <2> QED
    BY <1>1, <1>2, <1>5, <2>1 DEF RunWellFormed, NotBefore
<1> QED
  BY <1>1, <1>2, <1>3, <1>4, <1>5 DEF NextRun

LEMMA InterruptIs ==
  ASSUME NEW old \in RunType, NEW t \in Nat, NEW run \in Interrupt(old, t)
  PROVE  NextRun(old, run, t)
<1>1. PICK u \in Nat : u = Larger(old.updated, t) /\ u >= old.updated /\ u >= t
  <2>1. old.updated \in Nat
    BY DEF RunType
  <2> QED
    BY <2>1, LargerIs
<1>2. /\ old.status \in {"pending", "running"} /\ NotBefore(old, t)
      /\ run = [id |-> old.id, session |-> old.session, created |-> old.created, updated |-> u,
                status |-> "interrupted", started |-> old.started, finished |-> old.finished,
                outputs |-> old.outputs]
  BY <1>1 DEF Interrupt, Accept, RunType
<1>3. run \in RunType
  BY <1>1, <1>2 DEF RunType
<1>4. IsDescendant(run, old)
  BY <1>1, <1>2 DEF IsDescendant
<1>5. ASSUME RunWellFormed(old) PROVE RunWellFormed(run)
  <2>1. old.created \in Nat /\ old.updated \in Nat /\ old.started \subseteq Nat
    BY DEF RunType
  <2> QED
    BY <1>1, <1>2, <1>5, <2>1 DEF RunWellFormed, NotBefore
<1> QED
  BY <1>1, <1>2, <1>3, <1>4, <1>5 DEF NextRun

LEMMA CompleteIs ==
  ASSUME NEW old \in RunType, NEW t \in Nat, NEW outputs \in Seq(DeliveryKey),
         NEW run \in Complete(old, t, outputs)
  PROVE  /\ NextRun(old, run, t)
         /\ old.status = "running" /\ run.status = "completed" /\ run.finished = {t}
         /\ run.outputs = outputs /\ run.session = old.session /\ run.id = old.id
<1>1. PICK u \in Nat : u = Larger(old.updated, t) /\ u >= old.updated /\ u >= t
  <2>1. old.updated \in Nat
    BY DEF RunType
  <2> QED
    BY <2>1, LargerIs
<1>2. /\ old.status = "running" /\ NotBefore(old, t) /\ IsInjective(outputs)
      /\ run = [id |-> old.id, session |-> old.session, created |-> old.created, updated |-> u,
                status |-> "completed", started |-> old.started, finished |-> {t},
                outputs |-> outputs]
  BY <1>1 DEF Complete, Accept, RunType
<1>3. run \in RunType
  BY <1>1, <1>2 DEF RunType
<1>4. IsDescendant(run, old)
  BY <1>1, <1>2 DEF IsDescendant
<1>5. ASSUME RunWellFormed(old) PROVE RunWellFormed(run)
  <2>1. old.created \in Nat /\ old.updated \in Nat /\ old.started \subseteq Nat
    BY DEF RunType
  <2> QED
    BY <1>1, <1>2, <1>5, <2>1 DEF RunWellFormed, NotBefore
<1> QED
  BY <1>1, <1>2, <1>3, <1>4, <1>5 DEF NextRun

LEMMA EndIs ==
  ASSUME NEW old \in RunType, NEW t \in Nat, NEW status \in {"failed", "cancelled"},
         NEW run \in End(old, status, t)
  PROVE  NextRun(old, run, t)
<1>1. PICK u \in Nat : u = Larger(old.updated, t) /\ u >= old.updated /\ u >= t
  <2>1. old.updated \in Nat
    BY DEF RunType
  <2> QED
    BY <2>1, LargerIs
<1>2. /\ ~IsTerminal(old) /\ NotBefore(old, t)
      /\ run = [id |-> old.id, session |-> old.session, created |-> old.created, updated |-> u,
                status |-> status, started |-> old.started, finished |-> {t},
                outputs |-> old.outputs]
  BY <1>1 DEF End, Accept, RunType
<1>3. run \in RunType
  BY <1>1, <1>2 DEF RunType
<1>4. old.status \in {"pending", "running", "interrupted"}
  BY <1>2 DEF IsTerminal, RunType
<1>5. IsDescendant(run, old)
  BY <1>1, <1>2, <1>4 DEF IsDescendant
<1>6. ASSUME RunWellFormed(old) PROVE RunWellFormed(run)
  <2>1. old.created \in Nat /\ old.updated \in Nat /\ old.started \subseteq Nat
    BY DEF RunType
  <2>2. old.outputs = <<>>
    BY <1>4, <1>6 DEF RunWellFormed
  <2> QED
    BY <1>1, <1>2, <1>6, <2>1, <2>2 DEF RunWellFormed, NotBefore
<1> QED
  BY <1>1, <1>2, <1>3, <1>5, <1>6 DEF NextRun

(* The parts of an image.                                                  *)
LEMMA ImageParts ==
  ASSUME NEW img \in ImageType
  PROVE  /\ img.sessions \in Seq(SessionType) /\ img.runs \in Seq(RunType)
         /\ img.inputs \in Seq(InputType) /\ img.ledger \in Seq(EntryType)
         /\ img.queue \in Seq(MessageType) /\ img.outbox \in Seq(DeliveryType)
         /\ img.updated \in Nat
BY DEF ImageType

(* A session is added, or is refreshed.                                    *)
SessionKept(img, new) ==
  /\ new \in ImageType
  /\ new.runs = img.runs /\ new.inputs = img.inputs /\ new.ledger = img.ledger
  /\ new.queue = img.queue /\ new.outbox = img.outbox
  /\ new.updated >= img.updated
  /\ \A id : Has(img.sessions, id) => Has(new.sessions, id)
  /\ SessionsValid(img) => SessionsValid(new)

LEMMA SessionAppended ==
  ASSUME NEW img \in ImageType, NEW s \in SessionType, s.created <= s.updated, ~Has(img.sessions, s.id),
         NEW t \in Nat, t >= s.updated,
         NEW new, new = Touch([img EXCEPT !.sessions = Append(@, s)], t)
  PROVE  SessionKept(img, new)
<1>1. PICK sessions : sessions = Append(img.sessions, s)
  OBVIOUS
<1>2. /\ img.sessions \in Seq(SessionType) /\ sessions \in Seq(SessionType)
      /\ ToSet(sessions) = ToSet(img.sessions) \cup {s}
  BY <1>1, ImageParts, AppendProperties, ElementsAppend
<1>3. PICK base : base = [img EXCEPT !.sessions = sessions]
  OBVIOUS
<1>4. base = [sessions |-> sessions, runs |-> img.runs, inputs |-> img.inputs,
              ledger |-> img.ledger, queue |-> img.queue, outbox |-> img.outbox,
              updated |-> img.updated]
  BY <1>3 DEF ImageType
<1>5. base \in ImageType
  BY <1>2, <1>4, ImageParts DEF ImageType
<1>6. /\ new \in ImageType
      /\ new = [sessions |-> base.sessions, runs |-> base.runs,
              inputs |-> base.inputs, ledger |-> base.ledger, queue |-> base.queue,
              outbox |-> base.outbox, updated |-> Larger(base.updated, t)]
      /\ new.updated >= base.updated /\ new.updated >= t
  BY <1>1, <1>3, <1>5, TouchIs
<1>7. new.sessions = sessions /\ new.updated >= img.updated /\ new.updated >= t
      /\ new.updated \in Nat /\ img.updated \in Nat
  BY <1>4, <1>6, ImageParts
<1>8. \A id : Has(img.sessions, id) => Has(new.sessions, id)
  BY <1>2, <1>7, HasIs
<1>9. ASSUME SessionsValid(img) PROVE SessionsValid(new)
  <2>1. DistinctIds(sessions)
    BY <1>1, <1>2, <1>9, DistinctIdsAppend DEF SessionsValid
  <2>2. ASSUME NEW x \in ToSet(sessions) PROVE x.created <= x.updated /\ x.updated <= new.updated
    <3>1. CASE x = s
      <4>1. s.updated \in Nat
        BY DEF SessionType
      <4> QED
        BY <1>7, <3>1, <4>1
    <3>2. CASE x \in ToSet(img.sessions)
      <4>1. x \in SessionType
        BY <1>2, <3>2, ElementsType
      <4>2. x.updated \in Nat
        BY <4>1 DEF SessionType
      <4>3. x.created <= x.updated /\ x.updated <= img.updated
        BY <1>9, <3>2 DEF SessionsValid
      <4> QED
        BY <1>7, <4>2, <4>3
    <3> QED
      BY <1>2, <3>1, <3>2
  <2> QED
    BY <1>7, <2>1, <2>2 DEF SessionsValid
<1>10. /\ new.runs = img.runs /\ new.inputs = img.inputs /\ new.ledger = img.ledger
       /\ new.queue = img.queue /\ new.outbox = img.outbox
  BY <1>4, <1>6
<1> QED
  BY <1>6, <1>7, <1>8, <1>9, <1>10 DEF SessionKept

LEMMA SessionRefreshed ==
  ASSUME NEW img \in ImageType, NEW old \in ToSet(img.sessions), NEW u \in Nat,
         NEW x, x = [old EXCEPT !.updated = u], u >= old.updated,
         NEW t \in Nat, t >= u,
         NEW new, new = Touch([img EXCEPT !.sessions = Put(@, x)], t)
  PROVE  SessionKept(img, new)
<1>1. PICK sessions : sessions = Put(img.sessions, x)
  OBVIOUS
<1>2. img.sessions \in Seq(SessionType) /\ old \in SessionType
  BY ImageParts, ElementsType
<1>3. x \in SessionType /\ x.id = old.id /\ x.created = old.created /\ x.updated = u
  BY <1>2 DEF SessionType
<1>4. sessions \in Seq(SessionType) /\ IsPut(sessions, img.sessions, x)
  BY <1>1, <1>2, <1>3, PutIs
<1>5. PICK base : base = [img EXCEPT !.sessions = sessions]
  OBVIOUS
<1>6. base = [sessions |-> sessions, runs |-> img.runs, inputs |-> img.inputs,
              ledger |-> img.ledger, queue |-> img.queue, outbox |-> img.outbox,
              updated |-> img.updated]
  BY <1>5 DEF ImageType
<1>7. base \in ImageType
  BY <1>4, <1>6, ImageParts DEF ImageType
<1>8. /\ new \in ImageType
      /\ new = [sessions |-> base.sessions, runs |-> base.runs,
              inputs |-> base.inputs, ledger |-> base.ledger, queue |-> base.queue,
              outbox |-> base.outbox, updated |-> Larger(base.updated, t)]
      /\ new.updated >= base.updated /\ new.updated >= t
  BY <1>1, <1>5, <1>7, TouchIs
<1>9. new.sessions = sessions /\ new.updated >= img.updated /\ new.updated >= t
      /\ new.updated \in Nat /\ img.updated \in Nat
  BY <1>6, <1>8, ImageParts
<1>10. \A i \in DOMAIN img.sessions : sessions[i].id = img.sessions[i].id
  BY <1>4 DEF IsPut
<1>11. \A id : Has(img.sessions, id) => Has(new.sessions, id)
  BY <1>4, <1>9, <1>10 DEF Has, IsPut
<1>12. ASSUME SessionsValid(img) PROVE SessionsValid(new)
  <2>1. DistinctIds(sessions)
    BY <1>4, <1>10, <1>12 DEF SessionsValid, DistinctIds, IsPut
  <2>2. ASSUME NEW y \in ToSet(sessions) PROVE y.created <= y.updated /\ y.updated <= new.updated
    <3>1. old.created <= old.updated /\ old.created \in Nat /\ old.updated \in Nat
      BY <1>2, <1>12 DEF SessionsValid, SessionType
    <3>2. CASE y = x
      BY <1>3, <1>9, <3>1, <3>2
    <3>3. CASE y \in ToSet(img.sessions)
      <4>1. y \in SessionType
        BY <1>2, <3>3, ElementsType
      <4>2. y.updated \in Nat
        BY <4>1 DEF SessionType
      <4>3. y.created <= y.updated /\ y.updated <= img.updated
        BY <1>12, <3>3 DEF SessionsValid
      <4> QED
        BY <1>9, <4>2, <4>3
    <3> QED
      BY <1>4, <3>2, <3>3 DEF ToSet, IsPut
  <2> QED
    BY <1>9, <2>1, <2>2 DEF SessionsValid
<1> QED
  BY <1>6, <1>8, <1>9, <1>11, <1>12 DEF SessionKept

LEMMA UpsertIs ==
  ASSUME NEW img \in ImageType, NEW s \in Nat, NEW t \in Nat,
         NEW new \in UpsertSession(img, NewSession(s, t), t)
  PROVE  SessionKept(img, new)
<1>1. PICK x : x = NewSession(s, t)
  OBVIOUS
<1>2. x \in SessionType /\ x.id = s /\ x.created = t /\ x.updated = t
  BY <1>1 DEF NewSession, SessionType
<1>3. PICK refreshed : refreshed = {[old EXCEPT !.updated = Larger(@, x.updated)] :
                                      old \in Find(img.sessions, x.id)}
  OBVIOUS
<1>4. PICK y \in IF refreshed = {} THEN {x} ELSE refreshed :
        new = Touch([img EXCEPT !.sessions = IF refreshed = {} THEN Append(@, x) ELSE Put(@, y)],
                    Larger(y.updated, t))
  BY <1>1, <1>3 DEF UpsertSession
<1>5. CASE refreshed = {}
  <2>1. ~Has(img.sessions, x.id)
    BY <1>3, <1>5, HasIs DEF Find
  <2>2. y = x /\ Larger(y.updated, t) = t
    BY <1>2, <1>4, <1>5 DEF Larger
  <2>3. new = Touch([img EXCEPT !.sessions = Append(@, x)], t)
    BY <1>4, <1>5, <2>2
  <2> QED
    BY <1>2, <2>1, <2>3, SessionAppended
<1>6. CASE refreshed # {}
  <2>1. PICK old \in ToSet(img.sessions) : y = [old EXCEPT !.updated = Larger(@, x.updated)]
    BY <1>3, <1>4, <1>6 DEF Find
  <2>2. old \in SessionType
    BY ImageParts, ElementsType
  <2>3. PICK u \in Nat : u = Larger(old.updated, t) /\ u >= old.updated /\ u >= t
    <3>1. old.updated \in Nat
      BY <2>2 DEF SessionType
    <3> QED
      BY <3>1, LargerIs
  <2>4. y = [old EXCEPT !.updated = u]
    BY <1>2, <2>1, <2>3
  <2>5. y.updated = u /\ Larger(y.updated, t) = u
    BY <2>2, <2>3, <2>4 DEF SessionType, Larger
  <2>6. new = Touch([img EXCEPT !.sessions = Put(@, y)], u)
    BY <1>4, <1>6, <2>5
  <2> QED
    BY <2>3, <2>4, <2>6, SessionRefreshed
<1> QED
  BY <1>5, <1>6

(* A run is added.                                                         *)
RunAdded(img, t, run, new) ==
  /\ run \in RunType
  /\ Has(img.sessions, run.session)
  /\ ~Has(img.runs, run.id)
  /\ \A old \in ToSet(img.runs) : old.session = run.session => IsTerminal(old)
  /\ new \in ImageType
  /\ new.runs = Append(img.runs, run)
  /\ new.sessions = img.sessions /\ new.inputs = img.inputs /\ new.ledger = img.ledger
  /\ new.queue = img.queue /\ new.outbox = img.outbox
  /\ new.updated >= img.updated /\ new.updated >= t

LEMMA AddRunIs ==
  ASSUME NEW img \in ImageType, NEW id \in RunKey, NEW s \in Nat, NEW t \in Nat,
         NEW new \in AddRun(img, NewRun(id, s, t), t)
  PROVE  RunAdded(img, t, NewRun(id, s, t), new)
<1>1. PICK run : run = NewRun(id, s, t)
  OBVIOUS
<1>2. run \in RunType /\ run.updated = t /\ run.status = "pending"
  BY <1>1 DEF NewRun, RunType
<1>3. /\ Has(img.sessions, run.session) /\ ~Has(img.runs, run.id)
      /\ \A old \in ToSet(img.runs) : old.session = run.session => IsTerminal(old)
      /\ new = Touch([img EXCEPT !.runs = Append(@, run)], Larger(t, t))
  BY <1>1, <1>2 DEF AddRun, Accept, IsTerminal
<1>4. PICK runs : runs = Append(img.runs, run)
  OBVIOUS
<1>5. runs \in Seq(RunType)
  BY <1>2, <1>4, ImageParts, AppendProperties
<1>6. PICK base : base = [img EXCEPT !.runs = runs]
  OBVIOUS
<1>7. base = [sessions |-> img.sessions, runs |-> runs, inputs |-> img.inputs,
              ledger |-> img.ledger, queue |-> img.queue, outbox |-> img.outbox,
              updated |-> img.updated]
  BY <1>6 DEF ImageType
<1>8. base \in ImageType
  BY <1>5, <1>7, ImageParts DEF ImageType
<1>9. new = Touch(base, t)
  <2>1. Larger(t, t) = t
    BY DEF Larger
  <2> QED
    BY <1>3, <1>4, <1>6, <2>1
<1>10. /\ new \in ImageType
       /\ new = [sessions |-> base.sessions, runs |-> base.runs,
              inputs |-> base.inputs, ledger |-> base.ledger, queue |-> base.queue,
              outbox |-> base.outbox, updated |-> Larger(base.updated, t)]
       /\ new.updated >= base.updated /\ new.updated >= t
  BY <1>8, <1>9, TouchIs
<1>11. /\ new.sessions = img.sessions /\ new.runs = runs /\ new.inputs = img.inputs
       /\ new.ledger = img.ledger /\ new.queue = img.queue /\ new.outbox = img.outbox
       /\ new \in ImageType /\ new.updated >= img.updated /\ new.updated >= t
  BY <1>7, <1>10
<1> QED
  BY <1>1, <1>2, <1>3, <1>4, <1>11 DEF RunAdded

(* A delivery is put into the outbox.                                      *)
DeliveryAdded(img, d, new) ==
  /\ d \in DeliveryType /\ d.status = "pending"
  /\ DeliveryWellFormed(d)
  /\ Has(img.sessions, d.session)
  /\ ~Has(img.outbox, d.id)
  /\ new \in ImageType
  /\ new.outbox = Append(img.outbox, d)
  /\ new.sessions = img.sessions /\ new.runs = img.runs /\ new.inputs = img.inputs
  /\ new.ledger = img.ledger /\ new.queue = img.queue
  /\ new.updated >= img.updated /\ new.updated >= d.updated

LEMMA EnqueueIs ==
  ASSUME NEW img \in ImageType, NEW d \in Delivery, NEW t \in Nat,
         NEW x \in NewDelivery(d.id, d.session, "system", d.body, t), NEW new \in Enqueue(img, x, t)
  PROVE  x.id = d.id /\ (new = img \/ DeliveryAdded(img, x, new))
<1>1. /\ x = [id |-> d.id, session |-> d.session, author |-> "system", body |-> d.body,
              status |-> "pending", created |-> t, updated |-> t,
              attempts |-> 0, delivered |-> {}, error |-> FALSE]
  BY DEF NewDelivery, Accept
<1>2. CASE Has(img.outbox, x.id)
  BY <1>1, <1>2 DEF Enqueue, Accept
<1>3. CASE ~Has(img.outbox, x.id)
  <2>1. /\ DeliveryWellFormed(x) /\ Has(img.sessions, x.session)
        /\ new = Touch([img EXCEPT !.outbox = Append(@, x)], Larger(x.updated, t))
    BY <1>3 DEF Enqueue
  <2>2. x.session \in Nat
    <3>1. PICK s \in ToSet(img.sessions) : s.id = x.session
      BY <2>1 DEF Has, ToSet
    <3>2. s \in SessionType
      BY ImageParts, ElementsType
    <3> QED
      BY <3>1, <3>2 DEF SessionType
  <2>3. x.id \in DeliveryKey /\ x.body \in Body
    BY <1>1 DEF DeliveryKey, OtherDelivery, Body
  <2>4. x \in DeliveryType /\ Larger(x.updated, t) = t /\ x.updated = t
    BY <1>1, <2>2, <2>3 DEF DeliveryType, Larger
  <2>5. PICK outbox : outbox = Append(img.outbox, x)
    OBVIOUS
  <2>6. outbox \in Seq(DeliveryType)
    BY <2>4, <2>5, ImageParts, AppendProperties
  <2>7. PICK base : base = [img EXCEPT !.outbox = outbox]
    OBVIOUS
  <2>8. base = [sessions |-> img.sessions, runs |-> img.runs, inputs |-> img.inputs,
                ledger |-> img.ledger, queue |-> img.queue, outbox |-> outbox,
                updated |-> img.updated]
    BY <2>7 DEF ImageType
  <2>9. base \in ImageType
    BY <2>6, <2>8, ImageParts DEF ImageType
  <2>10. new = Touch(base, t)
    BY <2>1, <2>4, <2>5, <2>7
  <2>11. /\ new \in ImageType
         /\ new = [sessions |-> base.sessions, runs |-> base.runs,
              inputs |-> base.inputs, ledger |-> base.ledger, queue |-> base.queue,
              outbox |-> base.outbox, updated |-> Larger(base.updated, t)]
         /\ new.updated >= base.updated /\ new.updated >= t
    BY <2>9, <2>10, TouchIs
  <2>12. x.status = "pending" /\ x.id = d.id
    BY <1>1
  <2>13. /\ new.sessions = img.sessions /\ new.runs = img.runs /\ new.inputs = img.inputs
         /\ new.ledger = img.ledger /\ new.queue = img.queue /\ new.outbox = outbox
         /\ new \in ImageType /\ new.updated >= img.updated /\ new.updated >= t
    BY <2>8, <2>11
  <2> QED
    BY <1>3, <2>1, <2>4, <2>5, <2>12, <2>13 DEF DeliveryAdded
<1> QED
  BY <1>1, <1>2, <1>3

LEMMA SessionIsKnown ==
  ASSUME NEW img \in ImageType, NEW s, Has(img.sessions, s)
  PROVE  s \in Nat
<1>1. PICK x \in ToSet(img.sessions) : x.id = s
  BY HasIs
<1>2. x \in SessionType
  BY ImageParts, ElementsType
<1> QED
  BY <1>1, <1>2 DEF SessionType

(* The messages, claimed and waiting, with the types of the files.         *)
LEMMA TypesHold ==
  Carries(InputType, MessageType)
BY DEF Carries, InputType, MessageType

LEMMA TakenIs ==
  ASSUME NEW img, img.inputs \in Seq(InputType)
  PROVE  Taken(img) \in Seq(MessageType) /\ ToSet(Taken(img)) = Claimed(img)
BY TypesHold, TakenListed

LEMMA OwnershipIs ==
  ASSUME NEW img, img.inputs \in Seq(InputType), img.queue \in Seq(MessageType), NEW s
  PROVE  /\ MessagesOf(Taken(img), s) \in Seq(MessageType)
         /\ MessagesOf(img.queue, s) \in Seq(MessageType)
         /\ OwnershipOf(img, s) \in Seq(MessageType)
         /\ OwnershipOf(img, s) = MessagesOf(Taken(img), s) \o MessagesOf(img.queue, s)
         /\ ToSet(OwnershipOf(img, s)) =
              {m \in ToSet(img.queue) \cup Claimed(img) : m.session = s}
BY TypesHold, OwnershipListed

(* A message that joins the queue comes last of its session.               *)
LEMMA OwnershipAfterArrival ==
  ASSUME NEW img, img.inputs \in Seq(InputType), img.queue \in Seq(MessageType),
         NEW new, new.inputs = img.inputs, NEW m \in MessageType,
         new.queue = Append(img.queue, m), NEW s
  PROVE  OwnershipOf(new, s) = IF m.session = s THEN Append(OwnershipOf(img, s), m)
                               ELSE OwnershipOf(img, s)
BY TypesHold, OwnershipGrows

(* A batch that is claimed is taken from the one half into the other.      *)
LEMMA OwnershipAfterClaim ==
  ASSUME NEW img, img.inputs \in Seq(InputType), img.queue \in Seq(MessageType),
         IsInjective(img.queue), NEW s, NEW n \in Nat, NEW new, NEW input \in InputType,
         input.messages = Prefix(MessagesOf(img.queue, s), n),
         new.inputs = Append(img.inputs, input),
         new.queue = Select(img.queue, ToSet(img.queue) \ ToSet(input.messages))
  PROVE  SameOwners(img, new)
BY TypesHold, OwnershipMoves

LEMMA LastEnqueuedIs ==
  ASSUME NEW img, img.inputs \in Seq(InputType), img.queue \in Seq(MessageType), NEW s
  PROVE  LET owned == OwnershipOf(img, s)
         IN /\ LastEnqueued(img, s) \in Nat
            /\ \A i \in DOMAIN owned : owned[i].enqueued <= LastEnqueued(img, s)
            /\ \/ LastEnqueued(img, s) = 0
               \/ \E i \in DOMAIN owned : LastEnqueued(img, s) = owned[i].enqueued
BY TypesHold, LastEnqueuedListed

(* An event that is not in the ledger.                                     *)
Arrived(img, e, t, new) ==
  /\ ~Has(img.ledger, e.id)
  /\ new \in ImageType
  /\ new.sessions = img.sessions /\ new.runs = img.runs /\ new.outbox = img.outbox
  /\ new.inputs = img.inputs
  /\ new.ledger = Append(img.ledger, Entry(e, t)) /\ Entry(e, t) \in EntryType
  /\ new.updated >= img.updated /\ new.updated >= Entry(e, t).recorded
  /\ \/ new.queue = img.queue
     \/ /\ Has(img.sessions, e.session) /\ e.session # None
        /\ Queued(img, e, t) \in MessageType
        /\ new.queue = Append(img.queue, Queued(img, e, t))
        /\ new.updated >= Queued(img, e, t).enqueued

LEMMA EntryIs ==
  ASSUME NEW e \in Event, NEW t \in Nat
  PROVE  Entry(e, t) \in EntryType /\ Entry(e, t).recorded = Larger(t, e.received)
<1>1. e.id \in EventKey /\ e.received \in Nat
  BY SnapshotAssumption DEF EventKey, Body
<1>2. Larger(t, e.received) \in Nat
  BY <1>1, LargerIs
<1> QED
  BY <1>1, <1>2 DEF Entry, EntryType

LEMMA QueuedIs ==
  ASSUME NEW img \in ImageType, NEW e \in Event, NEW t \in Nat, Has(img.sessions, e.session)
  PROVE  /\ Queued(img, e, t) \in MessageType
         /\ Queued(img, e, t).id = e.id
         /\ Queued(img, e, t).session = e.session
         /\ Queued(img, e, t).received = e.received
         /\ Queued(img, e, t).enqueued =
              Larger(Larger(t, LastEnqueued(img, e.session)), e.received)
         /\ Queued(img, e, t).enqueued >= Entry(e, t).recorded
         /\ Queued(img, e, t).enqueued >= LastEnqueued(img, e.session)
         /\ Queued(img, e, t).enqueued \in {Entry(e, t).recorded, LastEnqueued(img, e.session)}
<1>1. e.id \in EventKey /\ e.received \in Nat /\ e.body \in Body
  BY SnapshotAssumption DEF EventKey, Body
<1>2. PICK last \in Nat : last = LastEnqueued(img, e.session)
  <2>1. img.inputs \in Seq(InputType) /\ img.queue \in Seq(MessageType)
    BY DEF ImageType
  <2> QED
    BY <2>1, LastEnqueuedIs
<1>3. PICK x \in Nat : x = Larger(Larger(t, last), e.received)
  BY <1>1, LargerIs
<1>4. x >= Larger(t, e.received) /\ x >= last /\ x \in {Larger(t, e.received), last}
  BY <1>1, <1>3 DEF Larger
<1>7. e.session \in Nat
  BY SessionIsKnown
<1>5. Queued(img, e, t) = [id |-> e.id, session |-> e.session, received |-> e.received,
                           body |-> e.body, enqueued |-> x]
  BY <1>2, <1>3 DEF Queued
<1>6. Entry(e, t).recorded = Larger(t, e.received)
  BY EntryIs
<1> QED
  BY <1>1, <1>2, <1>3, <1>4, <1>5, <1>6, <1>7 DEF MessageType

LEMMA RecordIs ==
  ASSUME NEW img \in ImageType, NEW e \in Event, NEW t \in Nat, NEW new \in RecordEvent(img, e, t)
  PROVE  new = img \/ Arrived(img, e, t, new)
<1>1. PICK entry \in EntryType : entry = Entry(e, t)
  BY EntryIs
<1>2. PICK queued : queued = IF e.kind = "message" THEN {Queued(img, e, t)} ELSE {}
  OBVIOUS
<1>3. PICK added : added = [img EXCEPT !.ledger = Append(@, entry), !.queue = @ \o SetToSeq(queued)]
  OBVIOUS
<1>4. PICK u : u = Max({entry.recorded} \cup {q.enqueued : q \in queued})
  OBVIOUS
<1>5. CASE Has(img.ledger, e.id)
  BY <1>5 DEF RecordEvent, Accept
<1>6. CASE ~Has(img.ledger, e.id)
  <2>1. new = Touch(added, u) /\ (e.kind = "message" => Has(img.sessions, e.session))
    BY <1>1, <1>2, <1>3, <1>4, <1>6 DEF RecordEvent
  <2>4. PICK q \in Seq(MessageType), l \in Seq(EntryType) : q = img.queue /\ l = img.ledger
    BY DEF ImageType
  <2>5. PICK o, m : o = q \o SetToSeq(queued) /\ m = Append(l, entry)
    OBVIOUS
  <2>6. m \in Seq(EntryType)
    BY <2>5, AppendProperties
  <2>7. /\ o \in Seq(MessageType) /\ u \in Nat /\ u >= entry.recorded
        /\ \/ o = q
           \/ /\ Has(img.sessions, e.session) /\ e.session # None
              /\ Queued(img, e, t) \in MessageType
              /\ o = Append(q, Queued(img, e, t))
              /\ u >= Queued(img, e, t).enqueued
    <3>1. CASE e.kind = "message"
      <4>1. PICK x \in MessageType : x = Queued(img, e, t) /\ x.enqueued >= entry.recorded
        BY <1>1, <2>1, <3>1, QueuedIs
      <4>2. queued = {x}
        BY <1>2, <3>1, <4>1
      <4>3. o = Append(q, x) /\ o \in Seq(MessageType)
        <5>1. SetToSeq(queued) = <<x>>
          BY <4>2, ListsOne
        <5> QED
          BY <2>5, <5>1, AppendIsConcat, AppendProperties
      <4>4. u = x.enqueued /\ u \in Nat /\ entry.recorded \in Nat
        <5>1. entry.recorded \in Nat /\ x.enqueued \in Nat
          BY DEF EntryType, MessageType
        <5>2. {entry.recorded} \cup {y.enqueued : y \in queued} = {entry.recorded, x.enqueued}
          BY <4>2
        <5>3. Max({entry.recorded, x.enqueued}) = x.enqueued
          BY <4>1, <5>1, MaxIs
        <5> QED
          BY <1>4, <5>1, <5>2, <5>3
      <4>5. e.session # None
        BY <3>1, SnapshotAssumption
      <4> QED
        BY <2>1, <3>1, <4>1, <4>3, <4>4, <4>5
    <3>2. CASE e.kind # "message"
      <4>1. queued = {}
        BY <1>2, <3>2
      <4>2. o = q
        <5>1. SetToSeq(queued) = <<>>
          BY <4>1, ListsNone
        <5> QED
          BY <2>5, <5>1, ConcatEmptySeq
      <4>3. u = entry.recorded /\ u \in Nat
        <5>1. entry.recorded \in Nat
          BY DEF EntryType
        <5>2. {entry.recorded} \cup {y.enqueued : y \in queued} = {entry.recorded}
          BY <4>1
        <5>3. Max({entry.recorded}) = entry.recorded
          BY <5>1, MaxIs
        <5> QED
          BY <1>4, <5>1, <5>2, <5>3
      <4> QED
        BY <4>2, <4>3
    <3> QED
      BY <3>1, <3>2
  <2>8. PICK v \in Nat : v = Larger(img.updated, u) /\ v >= img.updated /\ v >= u
    <3>1. img.updated \in Nat
      BY DEF ImageType
    <3> QED
      BY <2>7, <3>1, LargerIs
  <2>9. new = [sessions |-> img.sessions, runs |-> img.runs, inputs |-> img.inputs,
               ledger |-> m, queue |-> o, outbox |-> img.outbox, updated |-> v]
    BY <1>3, <2>1, <2>4, <2>5, <2>8 DEF Touch, ImageType
  <2>10. new \in ImageType
    BY <2>6, <2>7, <2>9 DEF ImageType
  <2>11. img.updated \in Nat /\ entry.recorded \in Nat
    BY DEF ImageType, EntryType
  <2>12. v >= entry.recorded
    BY <2>7, <2>8, <2>11
  <2>13. new.queue = img.queue \/ (/\ Has(img.sessions, e.session) /\ e.session # None
                                   /\ Queued(img, e, t) \in MessageType
                                   /\ new.queue = Append(img.queue, Queued(img, e, t))
                                   /\ new.updated >= Queued(img, e, t).enqueued)
    <3>1. CASE o = q
      BY <2>4, <2>9, <3>1
    <3>2. CASE /\ Has(img.sessions, e.session) /\ e.session # None
               /\ Queued(img, e, t) \in MessageType
               /\ o = Append(q, Queued(img, e, t))
               /\ u >= Queued(img, e, t).enqueued
      <4>1. Queued(img, e, t).enqueued \in Nat
        BY <3>2 DEF MessageType
      <4>2. v >= Queued(img, e, t).enqueued
        BY <2>7, <2>8, <3>2, <4>1
      <4> QED
        BY <2>4, <2>9, <3>2, <4>2
    <3> QED
      BY <2>7, <3>1, <3>2
  <2> QED
    BY <1>1, <1>6, <2>4, <2>5, <2>8, <2>9, <2>10, <2>12, <2>13 DEF Arrived
<1> QED
  BY <1>5, <1>6

LEMMA TypesTimed ==
  Timed(MessageType)
BY DEF Timed, MessageType

(* A claim of a batch of s, as run id at time t.                           *)
ClaimedInput(img, id, t, s) ==
  [id |-> id, session |-> s, messages |-> Prefix(MessagesOf(img.queue, s), MaxBatch),
   ready |-> ReadyAt(MessagesOf(img.queue, s)), claimed |-> t]

Claims(img, id, t, s, new) ==
  LET input == ClaimedInput(img, id, t, s)
  IN /\ s \in FreeSessions(img) /\ s \in Nat
     /\ input \in InputType /\ InputWellFormed(input)
     /\ NewRun(id, s, t) \in RunType
     /\ ~Has(img.runs, id)
     /\ \A old \in ToSet(img.runs) : old.session = s => IsTerminal(old)
     /\ new \in ImageType
     /\ new.sessions = img.sessions /\ new.outbox = img.outbox
     /\ new.runs = Append(img.runs, NewRun(id, s, t))
     /\ new.inputs = Append(img.inputs, input)
     /\ new.ledger = img.ledger
     /\ new.queue = Select(img.queue, ToSet(img.queue) \ ToSet(input.messages))
     /\ new.updated >= img.updated /\ new.updated >= t

LEMMA ClaimIs ==
  ASSUME NEW img \in ImageType, NEW id \in RunKey, NEW t \in Nat, NEW new \in ClaimBatch(img, id, t)
  PROVE  \E s : Claims(img, id, t, s, new)
<1>1. /\ img.queue \in Seq(MessageType) /\ img.inputs \in Seq(InputType)
      /\ img.runs \in Seq(RunType) /\ img.updated \in Nat
  BY DEF ImageType
<1>2. PICK ready : ready = ReadySessions(img.queue, t, FreeSessions(img))
  OBVIOUS
<1>3. PICK s : s = FirstOf(img.queue, ready)
  OBVIOUS
<1>4. PICK input : input = ClaimedInput(img, id, t, s)
  OBVIOUS
<1>5. PICK kept : kept = Select(img.queue, ToSet(img.queue) \ ToSet(input.messages))
  OBVIOUS
<1>6. /\ ready # {} /\ InputWellFormed(input)
      /\ \E added \in AddRun(img, NewRun(id, s, t), t) :
           new = Touch([added EXCEPT !.queue = Select(@, ToSet(@) \ ToSet(input.messages)),
                                     !.inputs = Append(@, input)], t)
  <2>1. PICK b \in ReadyBatch(img.queue, t, FreeSessions(img)) :
          new \in LET i == [id |-> id, session |-> b.session, messages |-> b.messages,
                            ready |-> b.ready, claimed |-> t]
                  IN {Touch([added EXCEPT
                               !.queue = Select(@, ToSet(@) \ ToSet(b.messages)),
                               !.inputs = Append(@, i)], t) :
                        added \in IF InputWellFormed(i)
                                  THEN AddRun(img, NewRun(id, b.session, t), t)
                                  ELSE {}}
    BY DEF ClaimBatch
  <2>2. /\ ready # {}
        /\ b = [session |-> s, messages |-> Prefix(MessagesOf(img.queue, s), MaxBatch),
                ready |-> ReadyAt(MessagesOf(img.queue, s))]
    BY <1>2, <1>3 DEF ReadyBatch
  <2>3. /\ b.session = s /\ b.messages = input.messages
        /\ input = [id |-> id, session |-> b.session, messages |-> b.messages,
                    ready |-> b.ready, claimed |-> t]
    BY <1>4, <2>2 DEF ClaimedInput
  <2> QED
    BY <2>1, <2>2, <2>3
<1>7. s \in ready /\ s \in SessionsIn(img.queue) /\ s \in FreeSessions(img)
  <2>1. ready \subseteq SessionsIn(img.queue) \cap FreeSessions(img)
    BY <1>2 DEF ReadySessions
  <2> QED
    BY <1>1, <1>3, <1>6, <2>1, FirstIsReady, TypesTimed
<1>8. s \in Nat /\ ReadyAt(MessagesOf(img.queue, s)) \in Nat
  BY <1>1, <1>7, SessionReadyAtIs, TypesTimed
<1>9. input \in InputType /\ input.messages = Prefix(MessagesOf(img.queue, s), MaxBatch)
  <2>1. MessagesOf(img.queue, s) \in Seq(MessageType)
    BY <1>1, MessagesType
  <2>2. Prefix(MessagesOf(img.queue, s), MaxBatch) \in Seq(MessageType)
    BY <2>1, PrefixSplit, PolicyAssumption
  <2> QED
    BY <1>4, <1>8, <2>2 DEF ClaimedInput, InputType
<1>10. kept \in Seq(MessageType)
  BY <1>1, <1>5, SelectType
<1>11. PICK run \in RunType : run = NewRun(id, s, t) /\ run.session = s /\ run.id = id
                              /\ run.updated = t /\ run.status = "pending"
  <2>1. PICK run : run = NewRun(id, s, t)
    OBVIOUS
  <2>2. run \in RunType /\ run.session = s /\ run.id = id /\ run.updated = t /\ run.status = "pending"
    BY <1>8, <2>1 DEF NewRun, RunType
  <2> QED
    BY <2>1, <2>2
<1>12. PICK added \in AddRun(img, run, t) :
         new = Touch([added EXCEPT !.queue = Select(@, ToSet(@) \ ToSet(input.messages)),
                                   !.inputs = Append(@, input)], t)
  BY <1>6, <1>11
<1>13. /\ ~Has(img.runs, id)
       /\ \A old \in ToSet(img.runs) : old.session = s => IsTerminal(old)
       /\ added = Touch([img EXCEPT !.runs = Append(@, run)], Larger(t, t))
  <2>1. ~IsTerminal(run)
    BY <1>11 DEF IsTerminal
  <2> QED
    BY <1>11, <2>1 DEF AddRun, Accept
<1>14. PICK u \in Nat : u = Larger(Larger(img.updated, Larger(t, t)), t) /\ u >= img.updated /\ u >= t
  <2>1. PICK u : u = Larger(Larger(img.updated, Larger(t, t)), t)
    OBVIOUS
  <2>2. u \in Nat /\ u >= img.updated /\ u >= t
    BY <1>1, <2>1 DEF Larger
  <2> QED
    BY <2>1, <2>2
<1>15. PICK runs, inputs : runs = Append(img.runs, run) /\ inputs = Append(img.inputs, input)
  OBVIOUS
<1>16. added = [sessions |-> img.sessions, runs |-> runs, inputs |-> img.inputs,
                ledger |-> img.ledger, queue |-> img.queue, outbox |-> img.outbox,
                updated |-> Larger(img.updated, Larger(t, t))]
  BY <1>13, <1>15 DEF Touch, ImageType
<1>17. new = [sessions |-> img.sessions, runs |-> runs, inputs |-> inputs,
              ledger |-> img.ledger, queue |-> kept, outbox |-> img.outbox, updated |-> u]
  BY <1>5, <1>12, <1>14, <1>15, <1>16 DEF Touch
<1>18. runs \in Seq(RunType) /\ inputs \in Seq(InputType)
  BY <1>1, <1>9, <1>11, <1>15, AppendProperties
<1>19. new \in ImageType
  BY <1>10, <1>14, <1>17, <1>18 DEF ImageType
<1>20. /\ new.sessions = img.sessions /\ new.outbox = img.outbox /\ new.runs = Append(img.runs, run)
       /\ new.inputs = Append(img.inputs, input) /\ new.ledger = img.ledger
       /\ new.queue = kept /\ new.updated >= img.updated /\ new.updated >= t
  BY <1>14, <1>15, <1>17
<1> QED
  BY <1>4, <1>5, <1>6, <1>7, <1>8, <1>9, <1>11, <1>13, <1>19, <1>20 DEF Claims

(* A delivery goes on.                                                     *)
DeliveryGoesOn(img, d, e, new) ==
  /\ d \in ToSet(img.outbox) /\ d \in DeliveryType /\ e \in DeliveryType
  /\ SameEnqueue(e, d)
  /\ new \in ImageType
  /\ new.outbox = Put(img.outbox, e)
  /\ new.sessions = img.sessions /\ new.runs = img.runs /\ new.inputs = img.inputs
  /\ new.ledger = img.ledger /\ new.queue = img.queue

LEMMA DeliveryPut ==
  ASSUME NEW img \in ImageType, NEW id, NEW d \in Find(img.outbox, id), NEW e \in DeliveryType,
         SameEnqueue(e, d), NEW t \in Nat,
         NEW new, new = Touch([img EXCEPT !.outbox = Put(@, e)], Larger(e.updated, t))
  PROVE  DeliveryGoesOn(img, d, e, new)
<1>1. PICK outbox : outbox = Put(img.outbox, e)
  OBVIOUS
<1>2. outbox \in Seq(DeliveryType)
  BY <1>1, ImageParts, PutIs
<1>3. PICK base : base = [img EXCEPT !.outbox = outbox]
  OBVIOUS
<1>4. base = [sessions |-> img.sessions, runs |-> img.runs, inputs |-> img.inputs,
              ledger |-> img.ledger, queue |-> img.queue, outbox |-> outbox,
              updated |-> img.updated]
  BY <1>3 DEF ImageType
<1>5. base \in ImageType
  BY <1>2, <1>4, ImageParts DEF ImageType
<1>6. PICK u \in Nat : u = Larger(e.updated, t)
  <2>1. e.updated \in Nat
    BY DEF DeliveryType
  <2> QED
    BY <2>1, LargerIs
<1>7. new = Touch(base, u)
  BY <1>1, <1>3, <1>6
<1>8. /\ new \in ImageType
      /\ new = [sessions |-> base.sessions, runs |-> base.runs,
              inputs |-> base.inputs, ledger |-> base.ledger, queue |-> base.queue,
              outbox |-> base.outbox, updated |-> Larger(base.updated, u)]
  BY <1>5, <1>7, TouchIs
<1>9. /\ new.sessions = img.sessions /\ new.runs = img.runs /\ new.inputs = img.inputs
      /\ new.ledger = img.ledger /\ new.queue = img.queue /\ new.outbox = outbox
  BY <1>4, <1>8
<1>10. d \in ToSet(img.outbox) /\ d \in DeliveryType
  BY ImageParts, ElementsType DEF Find
<1> QED
  BY <1>1, <1>8, <1>9, <1>10 DEF DeliveryGoesOn

LEMMA BeginIs ==
  ASSUME NEW d \in DeliveryType, NEW t \in Nat, NEW e \in BeginDelivery(d, t)
  PROVE  e \in DeliveryType /\ SameEnqueue(e, d)
<1>1. e = [id |-> d.id, session |-> d.session, author |-> d.author, body |-> d.body,
           status |-> "delivering", created |-> d.created, updated |-> t,
           attempts |-> d.attempts + 1, delivered |-> {}, error |-> FALSE]
  BY DEF BeginDelivery, Accept, DeliveryType
<1> QED
  BY <1>1 DEF DeliveryType, SameEnqueue

LEMMA OutcomeIs ==
  ASSUME NEW d \in DeliveryType, NEW t \in Nat, NEW status \in {"delivered", "failed", "uncertain"}
  PROVE  Outcome(d, status, t) \in DeliveryType /\ SameEnqueue(Outcome(d, status, t), d)
<1>1. PICK e : e = Outcome(d, status, t)
  OBVIOUS
<1>2. PICK at \in SUBSET Nat : at = IF status = "delivered" THEN {t} ELSE {}
  OBVIOUS
<1>3. PICK error \in BOOLEAN : error = (status # "delivered")
  OBVIOUS
<1>4. e = [d EXCEPT !.status = status, !.delivered = at, !.error = error, !.updated = t]
  BY <1>1, <1>2, <1>3 DEF Outcome
<1>5. e = [id |-> d.id, session |-> d.session, author |-> d.author, body |-> d.body,
           status |-> status, created |-> d.created, updated |-> t,
           attempts |-> d.attempts, delivered |-> at, error |-> error]
  BY <1>4 DEF DeliveryType
<1> QED
  BY <1>1, <1>5 DEF DeliveryType, SameEnqueue

LEMMA SettleIs ==
  ASSUME NEW d \in DeliveryType, NEW t \in Nat, NEW status \in {"delivered", "failed", "uncertain"},
         NEW e \in Settle(d, status, t)
  PROVE  e \in DeliveryType /\ SameEnqueue(e, d)
BY OutcomeIs DEF Settle, Accept

LEMMA ResolveIs ==
  ASSUME NEW d \in DeliveryType, NEW t \in Nat, NEW status \in {"delivered", "failed", "uncertain"},
         NEW e \in Resolve(d, status, t)
  PROVE  e \in DeliveryType /\ SameEnqueue(e, d)
BY OutcomeIs DEF Resolve, Accept

(* What an agent may answer.                                               *)
AnswerType == [author : {"agent", "user"}, session : SessionId, body : {"answer", "more"}]

LEMMA OutputsType ==
  ASSUME NEW messages \in Outputs
  PROVE  messages \in Seq(AnswerType)
<1> DEFINE message(author, s, body) == [author |-> author, session |-> s, body |-> body]
<1>1. ASSUME NEW author \in {"agent", "user"}, NEW s \in SessionId, NEW body \in {"answer", "more"}
      PROVE  message(author, s, body) \in AnswerType
  BY DEF AnswerType
<1> HIDE DEF message
<1>2. \/ messages = <<>>
      \/ \E s \in SessionId :
           messages \in {<<message("agent", s, "answer")>>,
             <<message("agent", s, "answer"), message("agent", s, "more")>>,
             <<message("agent", s, "answer"), message("user", s, "more")>>}
  BY DEF Outputs, message
<1>3. CASE messages = <<>>
  BY <1>3
<1>4. ASSUME NEW s \in SessionId,
             messages \in {<<message("agent", s, "answer")>>,
               <<message("agent", s, "answer"), message("agent", s, "more")>>,
               <<message("agent", s, "answer"), message("user", s, "more")>>}
      PROVE  messages \in Seq(AnswerType)
  <2>1. PICK a \in AnswerType, b \in AnswerType, c \in AnswerType :
          /\ a = message("agent", s, "answer") /\ b = message("agent", s, "more")
          /\ c = message("user", s, "more")
    BY <1>1
  <2>2. messages \in {<<a>>, <<a, b>>, <<a, c>>}
    BY <1>4, <2>1
  <2>3. <<a>> \in Seq(AnswerType)
    OBVIOUS
  <2>4. <<a, b>> \in Seq(AnswerType)
    OBVIOUS
  <2>5. <<a, c>> \in Seq(AnswerType)
    OBVIOUS
  <2> QED
    BY <2>2, <2>3, <2>4, <2>5
<1> QED
  BY <1>2, <1>3, <1>4

(* The deliveries of an output.                                            *)
IsOutputDelivery(d, key, session, message, t) ==
  d = [id |-> key, session |-> session, author |-> "agent", body |-> message.body,
       status |-> "pending", created |-> t, updated |-> t,
       attempts |-> 0, delivered |-> {}, error |-> FALSE]

LEMMA OutputDeliveriesAre ==
  ASSUME NEW id \in AgentRun, NEW session \in Nat, NEW messages \in Outputs, NEW t \in Nat
  PROVE  /\ OutputDeliveries(id, session, messages, t) \in Seq(DeliveryType)
         /\ Len(OutputDeliveries(id, session, messages, t)) = Len(messages)
         /\ DOMAIN OutputDeliveries(id, session, messages, t) = DOMAIN messages
         /\ \A i \in DOMAIN messages :
              IsOutputDelivery(OutputDeliveries(id, session, messages, t)[i], <<id, i>>,
                               session, messages[i], t)
<1>1. PICK all : all = OutputDeliveries(id, session, messages, t)
  OBVIOUS
<1>2. PICK n \in Nat : n = Len(messages) /\ DOMAIN messages = 1..n
  BY OutputsType, LenProperties
<1>3. \A i \in 1..n : messages[i] \in AnswerType
  BY <1>2, OutputsType, ElementOfSeq
<1>4. ASSUME NEW i \in 1..n
      PROVE  /\ all[i] \in DeliveryType
             /\ IsOutputDelivery(all[i], <<id, i>>, session, messages[i], t)
  <2>1. PICK d : IsOutputDelivery(d, <<id, i>>, session, messages[i], t)
    BY DEF IsOutputDelivery
  <2>2. NewDelivery(<<id, i>>, session, "agent", messages[i].body, t) = {d}
    BY <2>1 DEF NewDelivery, Accept, IsOutputDelivery
  <2>3. all[i] = CHOOSE x \in NewDelivery(<<id, i>>, session, "agent", messages[i].body, t) : TRUE
    BY <1>1, <1>2 DEF OutputDeliveries
  <2>4. all[i] = d
    BY <2>2, <2>3
  <2>5. messages[i].body \in Body /\ <<id, i>> \in DeliveryKey
    <3>1. messages[i].body \in {"answer", "more"}
      BY <1>3 DEF AnswerType
    <3>2. i \in Nat
      OBVIOUS
    <3>3. messages[i].body \in Body
      BY <3>1 DEF Body
    <3>4. <<id, i>> \in AgentRun \X Nat
      BY <3>2
    <3> QED
      BY <3>3, <3>4 DEF DeliveryKey
  <2>6. d \in DeliveryType
    BY <2>1, <2>5 DEF IsOutputDelivery, DeliveryType
  <2> QED
    BY <2>1, <2>4, <2>6
<1>5. DOMAIN all = 1..n
  BY <1>1, <1>2 DEF OutputDeliveries
<1>6. all \in [1..n -> DeliveryType]
  <2>1. all = [i \in 1..n |-> all[i]]
    BY <1>1, <1>2 DEF OutputDeliveries
  <2> QED
    BY <1>4, <2>1
<1>7. all \in Seq(DeliveryType) /\ Len(all) = n
  BY <1>5, <1>6, SeqDef, LenProperties
<1> QED
  BY <1>1, <1>2, <1>4, <1>5, <1>7

(* A run is completed, with its outputs.                                   *)
RunCompleted(img, t, old, run, deliveries, new) ==
  /\ old \in ToSet(img.runs) /\ old \in RunType
  /\ NextRun(old, run, t) /\ run.status = "completed" /\ run.finished = {t}
  /\ run.outputs = [i \in DOMAIN deliveries |-> deliveries[i].id]
  /\ \A d \in ToSet(deliveries) : ~Has(img.outbox, d.id)
  /\ DistinctIds(deliveries)
  /\ new \in ImageType
  /\ new.runs = Put(img.runs, run)
  /\ new.outbox = img.outbox \o deliveries
  /\ new.sessions = img.sessions /\ new.inputs = img.inputs /\ new.ledger = img.ledger
  /\ new.queue = img.queue

LEMMA CompletionIs ==
  ASSUME NEW img \in ImageType, NEW id, NEW deliveries \in Seq(DeliveryType), NEW t \in Nat,
         NEW new \in CompleteWithOutputs(img, id, deliveries, t, t)
  PROVE  \E old \in Find(img.runs, id) : \E run : RunCompleted(img, t, old, run, deliveries, new)
<1>1. PICK keys : keys = [i \in DOMAIN deliveries |-> deliveries[i].id]
  OBVIOUS
<1>2. keys \in Seq(DeliveryKey)
  <2>1. PICK n \in Nat : n = Len(deliveries) /\ DOMAIN deliveries = 1..n
    BY LenProperties
  <2>2. \A i \in 1..n : deliveries[i] \in DeliveryType
    BY <2>1, ElementOfSeq
  <2>3. keys \in [1..n -> DeliveryKey]
    BY <1>1, <2>1, <2>2 DEF DeliveryType
  <2> QED
    BY <2>3, SeqDef
<1>0. PICK old \in Find(img.runs, id) : \E run \in Complete(old, t, keys) :
        /\ DistinctIds(deliveries)
        /\ \A d \in ToSet(deliveries) : ~Has(img.outbox, d.id)
        /\ new = Touch([img EXCEPT !.runs = Put(@, run), !.outbox = @ \o deliveries], Larger(t, t))
  BY <1>1 DEF CompleteWithOutputs
<1>3. PICK run \in Complete(old, t, keys) :
        /\ DistinctIds(deliveries)
        /\ \A d \in ToSet(deliveries) : ~Has(img.outbox, d.id)
        /\ new = Touch([img EXCEPT !.runs = Put(@, run), !.outbox = @ \o deliveries], Larger(t, t))
  BY <1>0
<1>4. old \in ToSet(img.runs) /\ old \in RunType
  BY ImageParts, ElementsType DEF Find
<1>5. /\ NextRun(old, run, t) /\ run.status = "completed" /\ run.finished = {t}
      /\ run.outputs = keys /\ run \in RunType
  BY <1>2, <1>4, CompleteIs DEF NextRun
<1>6. PICK runs, outbox : runs = Put(img.runs, run) /\ outbox = img.outbox \o deliveries
  OBVIOUS
<1>7. runs \in Seq(RunType) /\ outbox \in Seq(DeliveryType)
  BY <1>5, <1>6, ImageParts, PutIs, ConcatProperties
<1>8. PICK base : base = [img EXCEPT !.runs = runs, !.outbox = outbox]
  OBVIOUS
<1>9. base = [sessions |-> img.sessions, runs |-> runs, inputs |-> img.inputs,
              ledger |-> img.ledger, queue |-> img.queue, outbox |-> outbox,
              updated |-> img.updated]
  BY <1>8 DEF ImageType
<1>10. base \in ImageType
  BY <1>7, <1>9, ImageParts DEF ImageType
<1>11. new = Touch(base, t)
  <2>1. Larger(t, t) = t
    BY DEF Larger
  <2> QED
    BY <1>3, <1>6, <1>8, <2>1
<1>12. /\ new \in ImageType
       /\ new = [sessions |-> base.sessions, runs |-> base.runs,
              inputs |-> base.inputs, ledger |-> base.ledger, queue |-> base.queue,
              outbox |-> base.outbox, updated |-> Larger(base.updated, t)]
  BY <1>10, <1>11, TouchIs
<1>13. /\ new.sessions = img.sessions /\ new.runs = runs /\ new.inputs = img.inputs
       /\ new.ledger = img.ledger /\ new.queue = img.queue /\ new.outbox = outbox
  BY <1>9, <1>12
<1> QED
  BY <1>1, <1>3, <1>4, <1>5, <1>6, <1>12, <1>13 DEF RunCompleted

(* Startup recovery stops the runs nobody carries on.                      *)
RunsRecovered(img, new) ==
  /\ new \in ImageType
  /\ DOMAIN new.runs = DOMAIN img.runs
  /\ \A i \in DOMAIN img.runs :
       new.runs[i] = img.runs[i] \/ IsDescendant(new.runs[i], img.runs[i])
  /\ new.sessions = img.sessions /\ new.inputs = img.inputs /\ new.ledger = img.ledger
  /\ new.queue = img.queue /\ new.outbox = img.outbox

LEMMA ReconcileRunsIs ==
  ASSUME NEW img \in ImageType, RunsValid(img), NEW t \in Nat
  PROVE  RunsRecovered(img, ReconcileRuns(img, t))
<1> DEFINE lost(run) == run.status = "running" \/ (run.status = "pending" /\ ~Has(img.inputs, run.id))
           stopped(run) == CHOOSE r \in Interrupt(run, Larger(t, run.updated)) : TRUE
           all == [i \in DOMAIN img.runs |->
                     IF lost(img.runs[i]) THEN stopped(img.runs[i]) ELSE img.runs[i]]
<1>1. PICK n \in Nat : n = Len(img.runs) /\ DOMAIN img.runs = 1..n
  BY ImageParts, LenProperties
<1>2. \A i \in 1..n : img.runs[i] \in RunType /\ img.runs[i] \in ToSet(img.runs)
  BY <1>1, ImageParts, ElementOfSeq DEF ToSet
<1>3. ASSUME NEW run \in RunType, RunWellFormed(run), lost(run)
      PROVE  stopped(run) \in RunType /\ IsDescendant(stopped(run), run)
  <2>1. PICK u \in Nat : u = Larger(t, run.updated) /\ u >= run.updated
    <3>1. run.updated \in Nat
      BY DEF RunType
    <3> QED
      BY <3>1, LargerIs
  <2>2. NotBefore(run, u)
    <3>1. run.created \in Nat /\ run.updated \in Nat /\ run.started \subseteq Nat
      BY DEF RunType
    <3> QED
      BY <1>3, <2>1, <3>1 DEF RunWellFormed, NotBefore
  <2>3. Interrupt(run, u) # {}
    BY <1>3, <2>2 DEF Interrupt, Accept
  <2>4. PICK r \in Interrupt(run, u) : r = stopped(run)
    BY <2>1, <2>3
  <2> QED
    BY <2>4, InterruptIs DEF NextRun
<1>4. PICK runs : runs = all
  OBVIOUS
<1>5. ASSUME NEW i \in 1..n
      PROVE  /\ runs[i] \in RunType
             /\ runs[i] = img.runs[i] \/ IsDescendant(runs[i], img.runs[i])
  <2>1. runs[i] = IF lost(img.runs[i]) THEN stopped(img.runs[i]) ELSE img.runs[i]
    BY <1>1, <1>4
  <2>2. img.runs[i] \in RunType /\ RunWellFormed(img.runs[i])
    BY <1>2 DEF RunsValid
  <2> HIDE DEF lost, stopped
  <2> QED
    BY <1>3, <2>1, <2>2
<1>6. DOMAIN runs = 1..n
  BY <1>1, <1>4
<1>7. runs \in Seq(RunType)
  <2>1. runs \in [1..n -> RunType]
    <3>1. runs = [i \in 1..n |-> runs[i]]
      BY <1>1, <1>4
    <3> QED
      BY <1>5, <3>1
  <2> QED
    BY <2>1, SeqDef
<1> DEFINE dom == {j \in DOMAIN runs : lost(img.runs[j])}
           times == {runs[i].updated : i \in dom}
<1>8. PICK last \in Nat : last = Max({img.updated} \cup times)
  <2>1. IsFiniteSet(dom)
    <3>1. IsFiniteSet(1..n) /\ dom \subseteq 1..n
      BY <1>6, FS_Interval
    <3> HIDE DEF dom
    <3> QED
      BY <3>1, FS_Subset
  <2>2. PICK g : g = [i \in dom |-> runs[i].updated]
    OBVIOUS
  <2>3. \A i \in dom : runs[i].updated \in Nat
    BY <1>5, <1>6 DEF RunType
  <2>4. g \in [dom -> Nat] /\ times = {g[i] : i \in dom}
    <3> HIDE DEF dom
    <3> QED
      BY <2>2, <2>3
  <2> HIDE DEF times, dom
  <2>5. times \in SUBSET Nat /\ IsFiniteSet(times)
    BY <2>1, <2>4, TimesAre
  <2> QED
    BY <2>5, ImageParts, LatestIs
<1>9. PICK base : base = [img EXCEPT !.runs = runs]
  OBVIOUS
<1>10. base = [sessions |-> img.sessions, runs |-> runs, inputs |-> img.inputs,
              ledger |-> img.ledger, queue |-> img.queue, outbox |-> img.outbox,
              updated |-> img.updated]
  BY <1>9 DEF ImageType
<1>11. base \in ImageType
  BY <1>7, <1>10, ImageParts DEF ImageType
<1>12. PICK new : new = ReconcileRuns(img, t)
  OBVIOUS
<1>13. new = Touch(base, last)
  BY <1>4, <1>8, <1>9, <1>12 DEF ReconcileRuns
<1>14. /\ new \in ImageType
       /\ new = [sessions |-> base.sessions, runs |-> base.runs,
              inputs |-> base.inputs, ledger |-> base.ledger, queue |-> base.queue,
              outbox |-> base.outbox, updated |-> Larger(base.updated, last)]
  BY <1>11, <1>13, TouchIs
<1>15. /\ new.sessions = img.sessions /\ new.runs = runs /\ new.inputs = img.inputs
       /\ new.ledger = img.ledger /\ new.queue = img.queue /\ new.outbox = img.outbox
  BY <1>10, <1>14
<1>16. RunsRecovered(img, new)
  BY <1>1, <1>5, <1>6, <1>14, <1>15 DEF RunsRecovered
<1> QED
  BY <1>12, <1>16

(* And it doubts the deliveries that were being made.                      *)
OutboxRecovered(img, new) ==
  /\ new \in ImageType
  /\ DOMAIN new.outbox = DOMAIN img.outbox
  /\ \A i \in DOMAIN img.outbox : SameEnqueue(new.outbox[i], img.outbox[i])
  /\ new.sessions = img.sessions /\ new.inputs = img.inputs /\ new.ledger = img.ledger
  /\ new.queue = img.queue /\ new.runs = img.runs

LEMMA ReconcileOutboxIs ==
  ASSUME NEW img \in ImageType, NEW t \in Nat
  PROVE  OutboxRecovered(img, ReconcileOutbox(img, t))
<1> DEFINE lost(d) == d.status = "delivering"
           doubted(d) == CHOOSE x \in Settle(d, "uncertain", Larger(t, d.updated)) : TRUE
           all == [i \in DOMAIN img.outbox |->
                     IF lost(img.outbox[i]) THEN doubted(img.outbox[i]) ELSE img.outbox[i]]
<1>1. PICK n \in Nat : n = Len(img.outbox) /\ DOMAIN img.outbox = 1..n
  BY ImageParts, LenProperties
<1>2. \A i \in 1..n : img.outbox[i] \in DeliveryType
  BY <1>1, ImageParts, ElementOfSeq
<1>3. ASSUME NEW d \in DeliveryType, lost(d)
      PROVE  doubted(d) \in DeliveryType /\ SameEnqueue(doubted(d), d)
  <2>1. PICK u \in Nat : u = Larger(t, d.updated) /\ u >= d.updated
    <3>1. d.updated \in Nat
      BY DEF DeliveryType
    <3> QED
      BY <3>1, LargerIs
  <2>2. Settle(d, "uncertain", u) # {}
    BY <1>3, <2>1 DEF Settle, Accept
  <2>3. PICK e \in Settle(d, "uncertain", u) : e = doubted(d)
    BY <2>1, <2>2
  <2> QED
    BY <2>3, SettleIs
<1>4. PICK outbox : outbox = all
  OBVIOUS
<1>5. ASSUME NEW i \in 1..n
      PROVE  outbox[i] \in DeliveryType /\ SameEnqueue(outbox[i], img.outbox[i])
  <2>1. outbox[i] = IF lost(img.outbox[i]) THEN doubted(img.outbox[i]) ELSE img.outbox[i]
    BY <1>1, <1>4
  <2>2. SameEnqueue(img.outbox[i], img.outbox[i])
    BY DEF SameEnqueue
  <2> HIDE DEF lost, doubted
  <2> QED
    BY <1>2, <1>3, <2>1, <2>2
<1>6. DOMAIN outbox = 1..n
  BY <1>1, <1>4
<1>7. outbox \in Seq(DeliveryType)
  <2>1. outbox \in [1..n -> DeliveryType]
    <3>1. outbox = [i \in 1..n |-> outbox[i]]
      BY <1>1, <1>4
    <3> QED
      BY <1>5, <3>1
  <2> QED
    BY <2>1, SeqDef
<1> DEFINE dom == {j \in DOMAIN outbox : lost(img.outbox[j])}
           times == {outbox[i].updated : i \in dom}
<1>8. PICK last \in Nat : last = Max({img.updated} \cup times)
  <2>1. IsFiniteSet(dom)
    <3>1. IsFiniteSet(1..n) /\ dom \subseteq 1..n
      BY <1>6, FS_Interval
    <3> HIDE DEF dom
    <3> QED
      BY <3>1, FS_Subset
  <2>2. PICK g : g = [i \in dom |-> outbox[i].updated]
    OBVIOUS
  <2>3. \A i \in dom : outbox[i].updated \in Nat
    BY <1>5, <1>6 DEF DeliveryType
  <2>4. g \in [dom -> Nat] /\ times = {g[i] : i \in dom}
    <3> HIDE DEF dom
    <3> QED
      BY <2>2, <2>3
  <2> HIDE DEF times, dom
  <2>5. times \in SUBSET Nat /\ IsFiniteSet(times)
    BY <2>1, <2>4, TimesAre
  <2> QED
    BY <2>5, ImageParts, LatestIs
<1>9. PICK base : base = [img EXCEPT !.outbox = outbox]
  OBVIOUS
<1>10. base = [sessions |-> img.sessions, runs |-> img.runs, inputs |-> img.inputs,
              ledger |-> img.ledger, queue |-> img.queue, outbox |-> outbox,
              updated |-> img.updated]
  BY <1>9 DEF ImageType
<1>11. base \in ImageType
  BY <1>7, <1>10, ImageParts DEF ImageType
<1>12. PICK new : new = ReconcileOutbox(img, t)
  OBVIOUS
<1>13. new = Touch(base, last)
  BY <1>4, <1>8, <1>9, <1>12 DEF ReconcileOutbox
<1>14. /\ new \in ImageType
       /\ new = [sessions |-> base.sessions, runs |-> base.runs,
              inputs |-> base.inputs, ledger |-> base.ledger, queue |-> base.queue,
              outbox |-> base.outbox, updated |-> Larger(base.updated, last)]
  BY <1>11, <1>13, TouchIs
<1>15. /\ new.sessions = img.sessions /\ new.runs = img.runs /\ new.inputs = img.inputs
       /\ new.ledger = img.ledger /\ new.queue = img.queue /\ new.outbox = outbox
  BY <1>10, <1>14
<1>16. OutboxRecovered(img, new)
  BY <1>1, <1>5, <1>6, <1>14, <1>15 DEF OutboxRecovered
<1> QED
  BY <1>12, <1>16

-----------------------------------------------------------------------------
(* The parts of a merge.                                                   *)

(* The runs: those of the file, or later versions of them, and new ones.   *)
LaterOf(runs, old) == {run \in Find(runs, old.id) : IsDescendant(run, old)}

LEMMA MergedRunsAre ==
  ASSUME NEW existing \in Seq(RunType), NEW runs \in Seq(RunType)
  PROVE  \E kept \in Seq(RunType) :
           /\ MergedRuns(existing, runs) = Union(kept, runs)
           /\ DOMAIN kept = DOMAIN existing
           /\ \A i \in DOMAIN existing :
                \/ kept[i] = existing[i] /\ LaterOf(runs, existing[i]) = {}
                \/ kept[i] \in LaterOf(runs, existing[i])
<1> DEFINE all == [i \in DOMAIN existing |->
                     LET newer == {run \in Find(runs, existing[i].id) : IsDescendant(run, existing[i])}
                     IN IF newer = {} THEN existing[i] ELSE CHOOSE run \in newer : TRUE]
<1>1. PICK n \in Nat : n = Len(existing) /\ DOMAIN existing = 1..n
  BY LenProperties
<1>2. \A i \in 1..n : existing[i] \in RunType
  BY <1>1, ElementOfSeq
<1>3. PICK kept : kept = all
  OBVIOUS
<1>4. DOMAIN kept = 1..n /\ kept = [i \in 1..n |-> kept[i]]
  BY <1>1, <1>3
<1>5. ASSUME NEW i \in 1..n
      PROVE  /\ kept[i] \in RunType
             /\ \/ kept[i] = existing[i] /\ LaterOf(runs, existing[i]) = {}
                \/ kept[i] \in LaterOf(runs, existing[i])
  <2>1. PICK newer : newer = LaterOf(runs, existing[i])
    OBVIOUS
  <2>2. kept[i] = IF newer = {} THEN existing[i] ELSE CHOOSE run \in newer : TRUE
    BY <1>1, <1>3, <2>1 DEF LaterOf
  <2>3. newer \subseteq RunType
    BY <2>1, ElementsType DEF LaterOf, Find
  <2> QED
    BY <1>2, <2>1, <2>2, <2>3
<1>6. kept \in Seq(RunType)
  <2>1. kept \in [1..n -> RunType]
    BY <1>4, <1>5
  <2> QED
    BY <2>1, SeqDef
<1>7. MergedRuns(existing, runs) = Union(kept, runs)
  BY <1>3 DEF MergedRuns
<1> QED
  BY <1>1, <1>4, <1>5, <1>6, <1>7

(* The queue: a message that is added gets the time of the last one of its *)
(* session before it, if that is later.                                    *)
Before(inputs, queue, m) == MessagesOf(FlattenSeq(BatchesOf(inputs)) \o queue, m.session)

RebasedAfter(inputs, queue, m) ==
  IF Before(inputs, queue, m) = <<>> THEN m
  ELSE [m EXCEPT !.enqueued = Larger(@, Last(Before(inputs, queue, m)).enqueued)]

SameButTime(m, n) ==
  m.id = n.id /\ m.session = n.session /\ m.received = n.received /\ m.body = n.body

LEMMA BeforeIs ==
  ASSUME NEW inputs \in Seq(InputType), NEW queue \in Seq(MessageType), NEW m
  PROVE  /\ Before(inputs, queue, m) \in Seq(MessageType)
         /\ Before(inputs, queue, m) # <<>> =>
              Last(Before(inputs, queue, m)) \in ToSet(Before(inputs, queue, m)) \cap MessageType
<1>1. BatchesOf(inputs) \in Seq(Seq(MessageType))
  BY TypesHold, BatchesListed
<1>2. FlattenSeq(BatchesOf(inputs)) \in Seq(MessageType)
  BY <1>1, FlattenElements
<1>3. PICK all \in Seq(MessageType) : all = FlattenSeq(BatchesOf(inputs)) \o queue
  BY <1>2, ConcatProperties
<1>4. PICK b : b = Before(inputs, queue, m)
  OBVIOUS
<1>5. b \in Seq(MessageType)
  BY <1>3, <1>4, MessagesType DEF Before
<1>6. ASSUME b # <<>> PROVE Last(b) \in ToSet(b) \cap MessageType
  <2>1. Len(b) \in Nat \ {0} /\ DOMAIN b = 1..Len(b)
    BY <1>5, <1>6, LenProperties, EmptySeq
  <2>2. Len(b) \in 1..Len(b)
    BY <2>1
  <2>3. b[Len(b)] \in ToSet(b)
    BY <2>1, <2>2 DEF ToSet
  <2>4. ToSet(b) \subseteq MessageType
    BY <1>5, ElementsType
  <2> QED
    BY <2>3, <2>4 DEF Last
<1> QED
  BY <1>4, <1>5, <1>6

LEMMA RebasedIs ==
  ASSUME NEW inputs \in Seq(InputType), NEW queue \in Seq(MessageType), NEW m \in MessageType
  PROVE  /\ RebasedAfter(inputs, queue, m) \in MessageType
         /\ SameButTime(RebasedAfter(inputs, queue, m), m)
         /\ RebasedAfter(inputs, queue, m).enqueued >= m.enqueued
         /\ Before(inputs, queue, m) # <<>> =>
              RebasedAfter(inputs, queue, m).enqueued >= Last(Before(inputs, queue, m)).enqueued
<1>1. PICK r : r = RebasedAfter(inputs, queue, m)
  OBVIOUS
<1>2. CASE Before(inputs, queue, m) = <<>>
  <2>1. r = m
    BY <1>1, <1>2 DEF RebasedAfter
  <2>2. m.enqueued \in Nat
    BY DEF MessageType
  <2> QED
    BY <1>1, <1>2, <2>1, <2>2 DEF SameButTime
<1>3. CASE Before(inputs, queue, m) # <<>>
  <2>1. PICK last \in MessageType : last = Last(Before(inputs, queue, m))
    BY <1>3, BeforeIs
  <2>2. PICK t \in Nat : t = Larger(m.enqueued, last.enqueued) /\ t >= m.enqueued /\ t >= last.enqueued
    <3>1. m.enqueued \in Nat /\ last.enqueued \in Nat
      BY DEF MessageType
    <3> QED
      BY <3>1, LargerIs
  <2>3. r = [m EXCEPT !.enqueued = t]
    BY <1>1, <1>3, <2>1, <2>2 DEF RebasedAfter
  <2>4. r = [id |-> m.id, session |-> m.session, received |-> m.received, body |-> m.body,
             enqueued |-> t]
    BY <2>3 DEF MessageType
  <2> QED
    BY <1>1, <2>1, <2>2, <2>4 DEF MessageType, SameButTime
<1> QED
  BY <1>2, <1>3

RebasesUpTo(f, inputs, queue, new) ==
  /\ f \in [0..Len(new) -> Seq(MessageType)]
  /\ f[0] = queue
  /\ \A i \in 1..Len(new) : f[i] = Append(f[i - 1], RebasedAfter(inputs, f[i - 1], new[i]))
  /\ AppendRebased(inputs, queue, new) = f[Len(new)]

LEMMA RebaseScan ==
  ASSUME NEW inputs \in Seq(InputType), NEW queue \in Seq(MessageType),
         NEW new \in Seq(MessageType)
  PROVE  \E f : RebasesUpTo(f, inputs, queue, new)
<1>1. PICK n \in Nat : n = Len(new) /\ \A i \in 1..n : new[i] \in MessageType
  BY LenProperties, ElementOfSeq
<1> DEFINE V == Seq(MessageType)
           Step(f, i) == Append(f[i - 1], RebasedAfter(inputs, f[i - 1], new[i]))
           IsUpTo(f) == f = [i \in 0..n |-> IF i = 0 THEN queue ELSE Step(f, i)]
<1>2. PICK next : next = [p \in (1..n) \X V |-> Append(p[2], RebasedAfter(inputs, p[2], new[p[1]]))]
  OBVIOUS
<1>3. next \in [(1..n) \X V -> V]
  <2>1. \A i \in 1..n : \A q \in V : Append(q, RebasedAfter(inputs, q, new[i])) \in V
    BY <1>1, RebasedIs, AppendProperties
  <2> HIDE DEF V
  <2> QED
    BY <1>2, <2>1
<1>4. PICK f \in [0..n -> V] : f[0] = queue /\ \A i \in 1..n : f[i] = next[<<i, f[i - 1]>>]
  <2>1. queue \in V
    OBVIOUS
  <2> HIDE DEF V
  <2>2. Scans(n, V, queue, next) # {}
    BY <1>3, <2>1, ScanExists
  <2> QED
    BY <2>2 DEF Scans
<1>5. \A i \in 1..n : f[i] = Step(f, i)
  <2>1. \A i \in 1..n : f[i - 1] \in V
    OBVIOUS
  <2> HIDE DEF V
  <2> QED
    BY <1>2, <1>4, <2>1
<1>6. IsUpTo(f)
  <2> HIDE DEF Step
  <2>1. \A i \in 0..n : i # 0 => i \in 1..n
    OBVIOUS
  <2>2. \A i \in 0..n : f[i] = IF i = 0 THEN queue ELSE Step(f, i)
    BY <1>4, <1>5, <2>1
  <2> QED
    BY <2>2
<1>7. PICK g : g = CHOOSE h : IsUpTo(h)
  OBVIOUS
<1>8. IsUpTo(g)
  BY <1>6, <1>7
<1>9. AppendRebased(inputs, queue, new) = g[n]
  BY <1>1, <1>7 DEF AppendRebased, RebasedAfter, Before, BatchesOf
<1>10. g[0] = queue /\ \A i \in 1..n : g[i] = Step(g, i)
  <2> HIDE DEF Step
  <2>1. \A i \in 1..n : i \in 0..n /\ i # 0
    OBVIOUS
  <2>2. \A i \in 0..n : g[i] = IF i = 0 THEN queue ELSE Step(g, i)
    BY <1>8
  <2> QED
    BY <2>1, <2>2
<1>11. \A i \in 0..n : g[i] = f[i]
  <2>1. SameSteps(f, g, n)
    BY <1>4, <1>5, <1>10 DEF SameSteps
  <2> HIDE DEF Step, IsUpTo, V
  <2> QED
    BY <2>1, ScanUnique
<1>12. n \in 0..n
  OBVIOUS
<1> QED
  BY <1>1, <1>4, <1>5, <1>9, <1>11, <1>12 DEF RebasesUpTo

(* All of a queue that is rebased is new in time alone.                    *)
Rebased(queue, new, result) ==
  /\ result \in Seq(MessageType)
  /\ Grows(result, queue)
  /\ Len(result) = Len(queue) + Len(new)
  /\ \A k \in 1..Len(new) : SameButTime(result[Len(queue) + k], new[k])

LEMMA AppendRebasedIs ==
  ASSUME NEW inputs \in Seq(InputType), NEW queue \in Seq(MessageType),
         NEW new \in Seq(MessageType)
  PROVE  Rebased(queue, new, AppendRebased(inputs, queue, new))
<1>1. PICK f : RebasesUpTo(f, inputs, queue, new)
  BY RebaseScan
<1>2. PICK n \in Nat, q \in Nat : n = Len(new) /\ q = Len(queue) /\ DOMAIN queue = 1..q
  BY LenProperties
<1> DEFINE Holds(i, r) == /\ r \in Seq(MessageType)
                          /\ Len(r) = q + i /\ DOMAIN r = 1..(q + i)
                          /\ \A j \in 1..q : r[j] = queue[j]
                          /\ \A k \in 1..i : SameButTime(r[q + k], new[k])
           V == {p \in (0..n) \X Seq(MessageType) : Holds(p[1], p[2])}
<1>3. Holds(0, f[0])
  BY <1>1, <1>2 DEF RebasesUpTo
<1>4. ASSUME NEW i \in 1..n, Holds(i - 1, f[i - 1]) PROVE Holds(i, f[i])
  <2>1. PICK r \in Seq(MessageType) : r = f[i - 1] /\ Holds(i - 1, r)
    BY <1>4
  <2>2. PICK m \in MessageType : m = RebasedAfter(inputs, r, new[i]) /\ SameButTime(m, new[i])
    <3>1. new[i] \in MessageType
      BY <1>2, ElementOfSeq
    <3> QED
      BY <3>1, RebasedIs
  <2>3. f[i] = Append(r, m)
    BY <1>1, <1>2, <2>1, <2>2 DEF RebasesUpTo
  <2>4. /\ Append(r, m) \in Seq(MessageType) /\ Len(Append(r, m)) = Len(r) + 1
        /\ DOMAIN Append(r, m) = 1..(Len(r) + 1)
        /\ Append(r, m)[Len(r) + 1] = m
        /\ \A j \in 1..Len(r) : Append(r, m)[j] = r[j]
    BY PositionsAppend, AppendProperties
  <2>5. Len(r) + 1 = q + i /\ Len(r) = q + i - 1
    BY <1>2, <2>1
  <2>6. f[i] \in Seq(MessageType) /\ Len(f[i]) = q + i /\ DOMAIN f[i] = 1..(q + i)
    BY <2>3, <2>4, <2>5
  <2>7. \A j \in 1..q : f[i][j] = queue[j]
    BY <1>2, <2>1, <2>3, <2>4, <2>5
  <2>8. \A k \in 1..i : SameButTime(f[i][q + k], new[k])
    <3>1. SUFFICES ASSUME NEW k \in 1..i PROVE SameButTime(f[i][q + k], new[k])
      OBVIOUS
    <3>2. CASE k = i
      BY <2>2, <2>3, <2>4, <2>5, <3>2
    <3>3. CASE k # i
      <4>1. k \in 1..(i - 1) /\ q + k \in 1..Len(r)
        BY <1>2, <2>5, <3>3
      <4>2. f[i][q + k] = r[q + k]
        BY <2>3, <2>4, <4>1
      <4> QED
        BY <2>1, <4>1, <4>2
    <3> QED
      BY <3>2, <3>3
  <2> QED
    BY <2>6, <2>7, <2>8
<1>5. \A i \in 0..n : <<i, f[i]>> \in V
  <2> DEFINE g == [i \in 0..n |-> <<i, f[i]>>]
  <2>1. g[0] \in V
    BY <1>1, <1>2, <1>3 DEF RebasesUpTo
  <2>2. \A i \in 1..n : g[i - 1] \in V => g[i] \in V
    <3>1. SUFFICES ASSUME NEW i \in 1..n, g[i - 1] \in V PROVE g[i] \in V
      OBVIOUS
    <3>2. g[i - 1] = <<i - 1, f[i - 1]>> /\ g[i] = <<i, f[i]>>
      OBVIOUS
    <3> HIDE DEF g
    <3>3. Holds(i - 1, f[i - 1])
      BY <3>1, <3>2
    <3>4. Holds(i, f[i])
      BY <1>4, <3>3
    <3>5. i \in 0..n
      BY <1>2
    <3> HIDE DEF Holds
    <3>6. f[i] \in Seq(MessageType)
      BY <3>4 DEF Holds
    <3> QED
      BY <3>2, <3>4, <3>5, <3>6
  <2>3. \A i \in 0..n : g[i] = <<i, f[i]>>
    OBVIOUS
  <2> HIDE DEF V, g
  <2>4. \A i \in 0..n : g[i] \in V
    BY <2>1, <2>2, ScanType
  <2> QED
    BY <2>3, <2>4
<1>6. Holds(n, f[n])
  <2>1. n \in 0..n
    BY <1>2
  <2> HIDE DEF Holds
  <2> QED
    BY <1>5, <2>1
<1>7. AppendRebased(inputs, queue, new) = f[n]
  BY <1>1, <1>2 DEF RebasesUpTo
<1>8. Rebased(queue, new, f[n])
  BY <1>2, <1>6 DEF Rebased, Grows
<1> QED
  BY <1>7, <1>8

(* The time of an image that is merged is not before any of its records.   *)
AllBy(img, t) ==
  /\ \A run \in ToSet(img.runs) : run.updated <= t
  /\ \A input \in ToSet(img.inputs) : input.claimed <= t
  /\ \A e \in ToSet(img.ledger) : e.recorded <= t
  /\ \A m \in ToSet(img.queue) : m.enqueued <= t
  /\ \A d \in ToSet(img.outbox) : d.updated <= t

LEMMA LatestRecordIs ==
  ASSUME NEW img \in ImageType
  PROVE  LatestRecord(img) \in Nat /\ img.updated <= LatestRecord(img) /\ AllBy(img, LatestRecord(img))
<1> DEFINE R == {run.updated : run \in ToSet(img.runs)}
           I == {input.claimed : input \in ToSet(img.inputs)}
           L == {e.recorded : e \in ToSet(img.ledger)}
           Q == {m.enqueued : m \in ToSet(img.queue)}
           D == {d.updated : d \in ToSet(img.outbox)}
<1>1. R \in SUBSET Nat /\ IsFiniteSet(R)
  <2>1. ToSet(img.runs) \subseteq RunType /\ IsFiniteSet(ToSet(img.runs))
    BY ImageParts, ElementsType
  <2>2. PICK T, g : T = ToSet(img.runs) /\ g = [x \in T |-> x.updated]
    OBVIOUS
  <2>3. g \in [T -> Nat] /\ R = {g[x] : x \in T}
    BY <2>1, <2>2 DEF RunType
  <2> HIDE DEF R
  <2> QED
    BY <2>1, <2>2, <2>3, TimesAre
<1>2. I \in SUBSET Nat /\ IsFiniteSet(I)
  <2>1. ToSet(img.inputs) \subseteq InputType /\ IsFiniteSet(ToSet(img.inputs))
    BY ImageParts, ElementsType
  <2>2. PICK T, g : T = ToSet(img.inputs) /\ g = [x \in T |-> x.claimed]
    OBVIOUS
  <2>3. g \in [T -> Nat] /\ I = {g[x] : x \in T}
    BY <2>1, <2>2 DEF InputType
  <2> HIDE DEF I
  <2> QED
    BY <2>1, <2>2, <2>3, TimesAre
<1>3. L \in SUBSET Nat /\ IsFiniteSet(L)
  <2>1. ToSet(img.ledger) \subseteq EntryType /\ IsFiniteSet(ToSet(img.ledger))
    BY ImageParts, ElementsType
  <2>2. PICK T, g : T = ToSet(img.ledger) /\ g = [x \in T |-> x.recorded]
    OBVIOUS
  <2>3. g \in [T -> Nat] /\ L = {g[x] : x \in T}
    BY <2>1, <2>2 DEF EntryType
  <2> HIDE DEF L
  <2> QED
    BY <2>1, <2>2, <2>3, TimesAre
<1>4. Q \in SUBSET Nat /\ IsFiniteSet(Q)
  <2>1. ToSet(img.queue) \subseteq MessageType /\ IsFiniteSet(ToSet(img.queue))
    BY ImageParts, ElementsType
  <2>2. PICK T, g : T = ToSet(img.queue) /\ g = [x \in T |-> x.enqueued]
    OBVIOUS
  <2>3. g \in [T -> Nat] /\ Q = {g[x] : x \in T}
    BY <2>1, <2>2 DEF MessageType
  <2> HIDE DEF Q
  <2> QED
    BY <2>1, <2>2, <2>3, TimesAre
<1>5. D \in SUBSET Nat /\ IsFiniteSet(D)
  <2>1. ToSet(img.outbox) \subseteq DeliveryType /\ IsFiniteSet(ToSet(img.outbox))
    BY ImageParts, ElementsType
  <2>2. PICK T, g : T = ToSet(img.outbox) /\ g = [x \in T |-> x.updated]
    OBVIOUS
  <2>3. g \in [T -> Nat] /\ D = {g[x] : x \in T}
    BY <2>1, <2>2 DEF DeliveryType
  <2> HIDE DEF D
  <2> QED
    BY <2>1, <2>2, <2>3, TimesAre
<1>6. PICK t : t = LatestRecord(img)
  OBVIOUS
<1>7. t \in Nat /\ \A y \in {img.updated} \cup (R \cup I \cup L \cup Q \cup D) : y <= t
  <2>1. t = Max({img.updated} \cup R \cup I \cup L \cup Q \cup D)
    BY <1>6 DEF LatestRecord
  <2> HIDE DEF R, I, L, Q, D
  <2>2. PICK S : S = R \cup I \cup L \cup Q \cup D
    OBVIOUS
  <2>3. S \in SUBSET Nat /\ IsFiniteSet(S)
    BY <1>1, <1>2, <1>3, <1>4, <1>5, <2>2, FS_Union
  <2>4. {img.updated} \cup R \cup I \cup L \cup Q \cup D = {img.updated} \cup S
    BY <2>2
  <2>5. img.updated \in Nat
    BY ImageParts
  <2> QED
    BY <2>1, <2>2, <2>3, <2>4, <2>5, LatestIs
<1>8. img.updated <= t
  BY <1>7
<1>9. AllBy(img, t)
  BY <1>7 DEF AllBy
<1> QED
  BY <1>6, <1>7, <1>8, <1>9

(* What a merge is made of.                                                *)
Merges(existing, s, new) ==
  /\ new \in ImageType
  /\ new.sessions = s.sessions
  /\ new.runs = MergedRuns(existing.runs, s.runs)
  /\ new.inputs = Union(existing.inputs, s.inputs)
  /\ new.ledger = Union(existing.ledger, s.ledger)
  /\ new.queue = MergedQueue(new.inputs, existing.queue, s.queue)
  /\ new.outbox = Union(existing.outbox, s.outbox)
  /\ new.updated >= s.updated
  /\ AllBy(new, new.updated)

ClaimedIn(inputs) == UNION {ToSet(inputs[i].messages) : i \in DOMAIN inputs}

(* The messages that stay in the queue of the file, and those that come    *)
(* from the snapshot.                                                      *)
Waiting(inputs, existing) ==
  Select(existing, {m \in ToSet(existing) : ~\E c \in ClaimedIn(inputs) : c.id = m.id})

Brought(inputs, existing, queue) ==
  Select(queue, {m \in ToSet(queue) : /\ ~\E c \in ClaimedIn(inputs) : c.id = m.id
                                      /\ ~Has(existing, m.id)})

LEMMA MergedQueueIs ==
  ASSUME NEW inputs \in Seq(InputType), NEW existing \in Seq(MessageType),
         NEW queue \in Seq(MessageType)
  PROVE  /\ Waiting(inputs, existing) \in Seq(MessageType)
         /\ Brought(inputs, existing, queue) \in Seq(MessageType)
         /\ MergedQueue(inputs, existing, queue) =
              AppendRebased(inputs, Waiting(inputs, existing), Brought(inputs, existing, queue))
         /\ Rebased(Waiting(inputs, existing), Brought(inputs, existing, queue),
                    MergedQueue(inputs, existing, queue))
<1>1. Waiting(inputs, existing) \in Seq(MessageType)
  BY SelectType DEF Waiting
<1>2. Brought(inputs, existing, queue) \in Seq(MessageType)
  BY SelectType DEF Brought
<1>3. MergedQueue(inputs, existing, queue) =
        AppendRebased(inputs, Waiting(inputs, existing), Brought(inputs, existing, queue))
  BY DEF MergedQueue, Waiting, Brought, ClaimedIn
<1> QED
  BY <1>1, <1>2, <1>3, AppendRebasedIs

LEMMA MergedIs ==
  ASSUME NEW existing \in ImageType, NEW s \in ImageType
  PROVE  Merges(existing, s, Merged(existing, s))
<1>1. PICK inputs \in Seq(InputType) : inputs = Union(existing.inputs, s.inputs)
  BY ImageParts, UnionIs
<1>2. PICK ledger \in Seq(EntryType) : ledger = Union(existing.ledger, s.ledger)
  BY ImageParts, UnionIs
<1>3. PICK outbox \in Seq(DeliveryType) : outbox = Union(existing.outbox, s.outbox)
  BY ImageParts, UnionIs
<1>4. PICK runs \in Seq(RunType) : runs = MergedRuns(existing.runs, s.runs)
  <2>1. existing.runs \in Seq(RunType) /\ s.runs \in Seq(RunType)
    BY ImageParts
  <2>2. PICK kept \in Seq(RunType) : MergedRuns(existing.runs, s.runs) = Union(kept, s.runs)
    BY <2>1, MergedRunsAre
  <2> QED
    BY <2>1, <2>2, UnionIs
<1>5. PICK queue \in Seq(MessageType) : queue = MergedQueue(inputs, existing.queue, s.queue)
  <2>1. existing.queue \in Seq(MessageType) /\ s.queue \in Seq(MessageType)
    BY ImageParts
  <2> QED
    BY <2>1, MergedQueueIs DEF Rebased
<1>6. PICK base : base = [sessions |-> s.sessions, runs |-> runs, inputs |-> inputs,
                          ledger |-> ledger, queue |-> queue, outbox |-> outbox,
                          updated |-> s.updated]
  OBVIOUS
<1>7. base \in ImageType
  BY <1>6, ImageParts DEF ImageType
<1>8. [s EXCEPT !.runs = runs, !.inputs = inputs, !.ledger = ledger,
                !.queue = queue, !.outbox = outbox] = base
  <2>1. s = [sessions |-> s.sessions, runs |-> s.runs, inputs |-> s.inputs,
             ledger |-> s.ledger, queue |-> s.queue, outbox |-> s.outbox,
             updated |-> s.updated]
    BY DEF ImageType
  <2>2. PICK a : a = [s EXCEPT !.runs = runs]
    OBVIOUS
  <2>3. a = [sessions |-> s.sessions, runs |-> runs, inputs |-> s.inputs, ledger |-> s.ledger,
               queue |-> s.queue, outbox |-> s.outbox, updated |-> s.updated]
    BY <2>1, <2>2
  <2>4. PICK b : b = [a EXCEPT !.inputs = inputs]
    OBVIOUS
  <2>5. b = [sessions |-> s.sessions, runs |-> runs, inputs |-> inputs, ledger |-> s.ledger,
               queue |-> s.queue, outbox |-> s.outbox, updated |-> s.updated]
    BY <2>3, <2>4
  <2>6. PICK c : c = [b EXCEPT !.ledger = ledger]
    OBVIOUS
  <2>7. c = [sessions |-> s.sessions, runs |-> runs, inputs |-> inputs, ledger |-> ledger,
               queue |-> s.queue, outbox |-> s.outbox, updated |-> s.updated]
    BY <2>5, <2>6
  <2>8. PICK d : d = [c EXCEPT !.queue = queue]
    OBVIOUS
  <2>9. d = [sessions |-> s.sessions, runs |-> runs, inputs |-> inputs, ledger |-> ledger,
               queue |-> queue, outbox |-> s.outbox, updated |-> s.updated]
    BY <2>7, <2>8
  <2>10. PICK e : e = [d EXCEPT !.outbox = outbox]
    OBVIOUS
  <2>11. e = base
    BY <1>6, <2>9, <2>10
  <2>12. [s EXCEPT !.runs = runs, !.inputs = inputs, !.ledger = ledger,
                   !.queue = queue, !.outbox = outbox] = e
    BY <2>2, <2>4, <2>6, <2>8, <2>10
  <2> QED
    BY <2>11, <2>12
<1>9. PICK new : new = Merged(existing, s)
  OBVIOUS
<1>10. new = [base EXCEPT !.updated = LatestRecord(base)]
  BY <1>1, <1>2, <1>3, <1>4, <1>5, <1>8, <1>9 DEF Merged, MergedOutbox
<1>11. new = [sessions |-> s.sessions, runs |-> runs, inputs |-> inputs, ledger |-> ledger,
              queue |-> queue, outbox |-> outbox, updated |-> LatestRecord(base)]
  BY <1>6, <1>10
<1>12. /\ LatestRecord(base) \in Nat /\ base.updated <= LatestRecord(base)
       /\ AllBy(base, LatestRecord(base))
  BY <1>7, LatestRecordIs
<1>13. new \in ImageType
  BY <1>11, <1>12, ImageParts DEF ImageType
<1>14. AllBy(new, new.updated)
  BY <1>6, <1>11, <1>12 DEF AllBy
<1>15. s.updated \in Nat /\ new.updated \in Nat /\ new.updated >= s.updated
  BY <1>6, <1>11, <1>12, ImageParts
<1>16. /\ new.sessions = s.sessions
       /\ new.runs = MergedRuns(existing.runs, s.runs)
       /\ new.inputs = Union(existing.inputs, s.inputs)
       /\ new.ledger = Union(existing.ledger, s.ledger)
       /\ new.queue = MergedQueue(new.inputs, existing.queue, s.queue)
       /\ new.outbox = Union(existing.outbox, s.outbox)
  BY <1>1, <1>2, <1>3, <1>4, <1>5, <1>11
<1>17. Merges(existing, s, new)
  BY <1>13, <1>14, <1>15, <1>16 DEF Merges
<1> QED
  BY <1>9, <1>17

(* An image that is read again is what was written.                        *)
LEMMA RoundTrip ==
  ASSUME NEW img \in ImageType, Valid(img)
  PROVE  Parse(Encode(img)) = {img}
<1>1. PICK read \in Parse(Encode(img)) : SameParts(img, read)
  BY EncodedIsRead
<1>2. Parse(Encode(img)) = {read} /\ read = Decoded(Encode(img))
  BY <1>1 DEF Parse, Accept
<1>3. read = AsWritten(Encode(img))
  BY <1>2 DEF Decoded, Encode, CurrentVersion
<1>4. read = [sessions |-> read.sessions, updated |-> read.updated, runs |-> read.runs,
              inputs |-> read.inputs, ledger |-> read.ledger, queue |-> read.queue,
              outbox |-> read.outbox]
  BY <1>3 DEF AsWritten
<1>5. read = [sessions |-> img.sessions, updated |-> img.updated, runs |-> img.runs,
              inputs |-> img.inputs, ledger |-> img.ledger, queue |-> img.queue,
              outbox |-> img.outbox]
  BY <1>1, <1>4 DEF SameParts
<1>6. img = [sessions |-> img.sessions, updated |-> img.updated, runs |-> img.runs,
              inputs |-> img.inputs, ledger |-> img.ledger, queue |-> img.queue,
              outbox |-> img.outbox]
  BY DEF ImageType
<1> QED
  BY <1>2, <1>5, <1>6

-----------------------------------------------------------------------------
(* The steps by what they make of an image.  An edit of a snapshot:        *)
RunMoves(img, t, old, run, new) ==
  /\ RunGoesOn(img, t, old, run, new)
  /\ NextRun(old, run, t)
  /\ run.outputs \in {old.outputs, <<>>}

Edited(img, new) ==
  \/ SessionKept(img, new)
  \/ \E id \in RunKey, s \in Nat, t \in Nat : RunAdded(img, t, NewRun(id, s, t), new)
  \/ \E e \in Event, t \in Nat : Arrived(img, e, t, new)
  \/ \E d : d.id \in OtherDelivery /\ DeliveryAdded(img, d, new)
  \/ \E t \in Nat : \E old, run : RunMoves(img, t, old, run, new)

(* A change that the store makes and validates itself.                     *)
Updated(img, new) ==
  \/ \E id \in AgentRun, t \in Nat : \E s : Claims(img, id, t, s, new)
  \/ \E t \in Nat : \E old, run : RunMoves(img, t, old, run, new)
  \/ \E d, e : DeliveryGoesOn(img, d, e, new)
  \/ RunsRecovered(img, new)
  \/ OutboxRecovered(img, new)

(* A completion with outputs.                                              *)
CompletedBy(img, id, messages, t, new) ==
  \E old \in Find(img.runs, id) : \E run :
    /\ RunCompleted(img, t, old, run, OutputDeliveries(id, SessionOfRun(img, id), messages, t), new)
    /\ IsOutput(SessionOfRun(img, id), messages)

Passes ==
  /\ file' = file /\ snapshot' = snapshot /\ edits' = edits /\ confirmed' = confirmed
  /\ now' \in Nat

Loads(m, img) ==
  /\ img \in Load(file)
  /\ snapshot[m] = {} /\ snapshot' = [snapshot EXCEPT ![m] = {img}]
  /\ file' = file /\ edits' = edits /\ confirmed' = confirmed /\ now' = now

Edits(m, old, new) ==
  /\ old \in snapshot[m] /\ Edited(old, new)
  /\ snapshot' = [snapshot EXCEPT ![m] = {new}]
  /\ edits' = [edits EXCEPT ![m] = @ + 1]
  /\ file' = file /\ confirmed' = confirmed /\ now' = now

Stays == snapshot' = snapshot /\ edits' = edits /\ now' = now

Saves(m, s, existing) ==
  /\ s \in snapshot[m] /\ existing \in LoadForMerge(file)
  /\ Mergeable(existing, s) /\ Stores(Merged(existing, s))
  /\ Stays /\ confirmed' = confirmed

Updates(img, new) ==
  /\ img \in Load(file) /\ Updated(img, new) /\ Stores(new)
  /\ Stays /\ confirmed' = confirmed

Completes(img, id, messages, new) ==
  /\ img \in Load(file) /\ id \in AgentRun /\ messages \in Outputs
  /\ CompletedBy(img, id, messages, now, new) /\ Stores(new)
  /\ Stays
  /\ confirmed' = confirmed \cup {[run |-> id, messages |-> messages, at |-> now]}

Receives(img, new, existing) ==
  /\ img \in Load(file) /\ Edited(img, new) /\ existing \in LoadForMerge(file)
  /\ Mergeable(existing, new) /\ Stores(Merged(existing, new))
  /\ Stays /\ confirmed' = confirmed

Typed ==
  /\ now \in Nat
  /\ OneFile
  /\ \A img \in Load(file) : img \in ImageType
  /\ snapshot = [m \in Embedder |-> snapshot[m]]
  /\ \A m \in Embedder : \A s \in snapshot[m] : s \in ImageType

(* A transition of a run, of an edit or of the store.                      *)
LEMMA StepOfRun ==
  ASSUME NEW img \in ImageType, NEW id, NEW old \in Find(img.runs, id), NEW t \in Nat,
         NEW run, run \in RunType, NextRun(old, run, t), run.outputs \in {old.outputs, <<>>},
         NEW new, new = Touch([img EXCEPT !.runs = Put(@, run)], Larger(t, t))
  PROVE  RunMoves(img, t, old, run, new)
<1>1. run.id = old.id
  BY DEF NextRun, IsDescendant
<1>2. RunGoesOn(img, t, old, run, new)
  BY <1>1, RunPut
<1> QED
  BY <1>2 DEF RunMoves

LEMMA FoundRun ==
  ASSUME NEW img \in ImageType, NEW id, NEW old \in Find(img.runs, id)
  PROVE  old \in RunType /\ old.id = id
<1>1. ToSet(img.runs) \subseteq RunType
  BY ImageParts, ElementsType
<1> QED
  BY <1>1 DEF Find

LEMMA RunSteps ==
  ASSUME NEW img \in ImageType, NEW id, NEW t \in Nat, NEW new,
         \/ new \in OnRun(img, id, LAMBDA run : Start(run, t), t, t)
         \/ new \in OnRun(img, id, LAMBDA run : Interrupt(run, t), t, t)
         \/ new \in OnRun(img, id, LAMBDA run : Complete(run, t, <<>>), t, t)
  PROVE  \E old, run : RunMoves(img, t, old, run, new)
<1> DEFINE Result(run) == Touch([img EXCEPT !.runs = Put(@, run)], Larger(t, t))
<1>1. CASE new \in OnRun(img, id, LAMBDA run : Start(run, t), t, t)
  <2>1. PICK old \in Find(img.runs, id) : \E run \in Start(old, t) : new = Result(run)
    BY <1>1 DEF OnRun
  <2>2. PICK run \in Start(old, t) : new = Result(run)
    BY <2>1
  <2>3. NextRun(old, run, t)
    BY FoundRun, StartIs
  <2>4. run.status = "running"
    <3>1. old \in RunType
      BY FoundRun
    <3> QED
      BY <3>1 DEF Start, Accept, RunType
  <2>5. run \in RunType /\ run.outputs = old.outputs
    BY <2>3, <2>4 DEF NextRun
  <2> QED
    BY <2>2, <2>3, <2>5, StepOfRun
<1>2. CASE new \in OnRun(img, id, LAMBDA run : Interrupt(run, t), t, t)
  <2>1. PICK old \in Find(img.runs, id) : \E run \in Interrupt(old, t) : new = Result(run)
    BY <1>2 DEF OnRun
  <2>2. PICK run \in Interrupt(old, t) : new = Result(run)
    BY <2>1
  <2>3. NextRun(old, run, t)
    BY FoundRun, InterruptIs
  <2>4. run.status = "interrupted"
    <3>1. old \in RunType
      BY FoundRun
    <3> QED
      BY <3>1 DEF Interrupt, Accept, RunType
  <2>5. run \in RunType /\ run.outputs = old.outputs
    BY <2>3, <2>4 DEF NextRun
  <2> QED
    BY <2>2, <2>3, <2>5, StepOfRun
<1>3. CASE new \in OnRun(img, id, LAMBDA run : Complete(run, t, <<>>), t, t)
  <2>1. PICK old \in Find(img.runs, id) : \E run \in Complete(old, t, <<>>) : new = Result(run)
    BY <1>3 DEF OnRun
  <2>2. PICK run \in Complete(old, t, <<>>) : new = Result(run)
    BY <2>1
  <2>3. PICK outputs \in Seq(DeliveryKey) : outputs = <<>>
    BY EmptySeq
  <2>4. NextRun(old, run, t) /\ run.outputs = <<>>
    <3>1. old \in RunType /\ run \in Complete(old, t, outputs)
      BY <2>3, FoundRun
    <3>2. NextRun(old, run, t) /\ run.outputs = outputs
      BY <3>1, CompleteIs
    <3> QED
      BY <2>3, <3>2
  <2>5. run \in RunType
    BY <2>4 DEF NextRun
  <2> QED
    BY <2>2, <2>4, <2>5, StepOfRun
<1> QED
  BY <1>1, <1>2, <1>3

LEMMA EndSteps ==
  ASSUME NEW img \in ImageType, NEW id, NEW t \in Nat, NEW status \in {"failed", "cancelled"},
         NEW new \in OnRun(img, id, LAMBDA run : End(run, status, t), t, t)
  PROVE  \E old, run : RunMoves(img, t, old, run, new)
<1> DEFINE Result(run) == Touch([img EXCEPT !.runs = Put(@, run)], Larger(t, t))
<1>1. PICK old \in Find(img.runs, id) : \E run \in End(old, status, t) : new = Result(run)
  BY DEF OnRun
<1>2. PICK run \in End(old, status, t) : new = Result(run)
  BY <1>1
<1>3. NextRun(old, run, t)
  BY FoundRun, EndIs
<1>4. run.status = status
  <2>1. old \in RunType
    BY FoundRun
  <2> QED
    BY <2>1 DEF End, Accept, RunType
<1>5. run \in RunType /\ run.outputs = old.outputs
  BY <1>3, <1>4 DEF NextRun
<1> QED
  BY <1>2, <1>3, <1>5, StepOfRun

(* What an embedder's edit comes to.                                       *)
LEMMA EditIs ==
  ASSUME Typed, NEW m \in Embedder, NEW new, NEW old \in snapshot[m],
         \/ \E s \in SessionId : new \in UpsertSession(old, NewSession(s, now), now)
         \/ \E id \in EmbedderRun, s \in SessionId : new \in AddRun(old, NewRun(id, s, now), now)
         \/ \E e \in Event : new \in RecordEvent(old, e, now) \ {old}
         \/ \E d \in Delivery : \E x \in NewDelivery(d.id, d.session, "system", d.body, now) :
              new \in Enqueue(old, x, now) \ {old}
         \/ \E id :
              \/ new \in OnRun(old, id, LAMBDA run : Start(run, now), now, now)
              \/ new \in OnRun(old, id, LAMBDA run : Interrupt(run, now), now, now)
              \/ new \in OnRun(old, id, LAMBDA run : Complete(run, now, <<>>), now, now)
  PROVE  Edited(old, new)
<1>1. old \in ImageType /\ now \in Nat
  BY DEF Typed
<1>2. ASSUME NEW s \in SessionId, new \in UpsertSession(old, NewSession(s, now), now)
      PROVE  Edited(old, new)
  <2>1. s \in Nat
    BY SnapshotAssumption
  <2> QED
    BY <1>1, <1>2, <2>1, UpsertIs DEF Edited
<1>3. ASSUME NEW id \in EmbedderRun, NEW s \in SessionId, new \in AddRun(old, NewRun(id, s, now), now)
      PROVE  Edited(old, new)
  <2>1. s \in Nat /\ id \in RunKey
    BY SnapshotAssumption DEF RunKey
  <2>2. RunAdded(old, now, NewRun(id, s, now), new)
    BY <1>1, <1>3, <2>1, AddRunIs
  <2> QED
    BY <1>1, <2>1, <2>2 DEF Edited
<1>4. ASSUME NEW e \in Event, new \in RecordEvent(old, e, now) \ {old}
      PROVE  Edited(old, new)
  <2>1. Arrived(old, e, now, new)
    BY <1>1, <1>4, RecordIs
  <2> QED
    BY <1>1, <2>1 DEF Edited
<1>5. ASSUME NEW d \in Delivery, NEW x \in NewDelivery(d.id, d.session, "system", d.body, now),
             new \in Enqueue(old, x, now) \ {old}
      PROVE  Edited(old, new)
  <2>1. x.id = d.id /\ DeliveryAdded(old, x, new)
    BY <1>1, <1>5, EnqueueIs
  <2>2. x.id \in OtherDelivery
    BY <2>1 DEF OtherDelivery
  <2> QED
    BY <1>1, <2>1, <2>2 DEF Edited
<1>6. ASSUME NEW id,
             \/ new \in OnRun(old, id, LAMBDA run : Start(run, now), now, now)
             \/ new \in OnRun(old, id, LAMBDA run : Interrupt(run, now), now, now)
             \/ new \in OnRun(old, id, LAMBDA run : Complete(run, now, <<>>), now, now)
      PROVE  Edited(old, new)
  <2>1. \E a, b : RunMoves(old, now, a, b, new)
    BY <1>1, <1>6, RunSteps
  <2> QED
    BY <1>1, <2>1 DEF Edited
<1> QED
  BY <1>2, <1>3, <1>4, <1>5, <1>6

LEMMA EditEndIs ==
  ASSUME Typed, NEW m \in Embedder, NEW new, NEW old \in snapshot[m],
         NEW id, NEW status \in {"failed", "cancelled"},
         new \in OnRun(old, id, LAMBDA run : End(run, status, now), now, now)
  PROVE  Edited(old, new)
<1>1. old \in ImageType /\ now \in Nat
  BY DEF Typed
<1>2. \E a, b : RunMoves(old, now, a, b, new)
  BY <1>1, EndSteps
<1> QED
  BY <1>1, <1>2 DEF Edited

LEMMA SaveShape ==
  ASSUME NEW m \in Embedder, SaveSnapshot(m)
  PROVE  \E s, existing : Saves(m, s, existing)
<1>1. PICK s \in snapshot[m], existing \in LoadForMerge(file) :
        \E img \in Save(existing, s) : file' = {Encode(img)}
  BY DEF SaveSnapshot
<1>2. /\ Mergeable(existing, s) /\ Valid(Merged(existing, s))
      /\ file' = {Encode(Merged(existing, s))}
  BY <1>1 DEF Save, Accept
<1> QED
  BY <1>1, <1>2 DEF SaveSnapshot, Saves, Stores, Stays

LEMMA EmbedderShape ==
  ASSUME Typed, NEW m \in Embedder, EmbedderNext(m)
  PROVE  \/ \E img : Loads(m, img)
         \/ \E old, new : Edits(m, old, new)
         \/ \E s, existing : Saves(m, s, existing)
<1>1. CASE LoadSnapshot(m)
  BY <1>1 DEF LoadSnapshot, Loads
<1>2. ASSUME NEW s \in SessionId, EditSession(m, s) PROVE \E old, new : Edits(m, old, new)
  <2>1. PICK old \in snapshot[m] : \E new \in UpsertSession(old, NewSession(s, now), now) :
          snapshot' = [snapshot EXCEPT ![m] = {new}]
    BY <1>2 DEF EditSession, Edit
  <2>2. PICK new \in UpsertSession(old, NewSession(s, now), now) :
          snapshot' = [snapshot EXCEPT ![m] = {new}]
    BY <2>1
  <2>3. Edited(old, new)
    BY <2>2, EditIs
  <2> QED
    BY <1>2, <2>2, <2>3 DEF EditSession, Edit, Edits
<1>3. ASSUME NEW id \in EmbedderRun, NEW s \in SessionId, EditAddRun(m, id, s)
      PROVE  \E old, new : Edits(m, old, new)
  <2>1. PICK old \in snapshot[m] : \E new \in AddRun(old, NewRun(id, s, now), now) :
          snapshot' = [snapshot EXCEPT ![m] = {new}]
    BY <1>3 DEF EditAddRun, Edit
  <2>2. PICK new \in AddRun(old, NewRun(id, s, now), now) :
          snapshot' = [snapshot EXCEPT ![m] = {new}]
    BY <2>1
  <2>3. Edited(old, new)
    BY <2>2, EditIs
  <2> QED
    BY <1>3, <2>2, <2>3 DEF EditAddRun, Edit, Edits
<1>4. ASSUME NEW e \in Event, EditEvent(m, e) PROVE \E old, new : Edits(m, old, new)
  <2>1. PICK old \in snapshot[m] : \E new \in RecordEvent(old, e, now) \ {old} :
          snapshot' = [snapshot EXCEPT ![m] = {new}]
    BY <1>4 DEF EditEvent, Edit
  <2>2. PICK new \in RecordEvent(old, e, now) \ {old} :
          snapshot' = [snapshot EXCEPT ![m] = {new}]
    BY <2>1
  <2>3. Edited(old, new)
    BY <2>2, EditIs
  <2> QED
    BY <1>4, <2>2, <2>3 DEF EditEvent, Edit, Edits
<1>5. ASSUME NEW d \in Delivery, EditDelivery(m, d) PROVE \E old, new : Edits(m, old, new)
  <2>1. PICK old \in snapshot[m] :
          \E x \in NewDelivery(d.id, d.session, "system", d.body, now) :
            \E new \in Enqueue(old, x, now) \ {old} : snapshot' = [snapshot EXCEPT ![m] = {new}]
    BY <1>5 DEF EditDelivery, Edit
  <2>2. PICK x \in NewDelivery(d.id, d.session, "system", d.body, now) :
            \E new \in Enqueue(old, x, now) \ {old} : snapshot' = [snapshot EXCEPT ![m] = {new}]
    BY <2>1
  <2>3. PICK new \in Enqueue(old, x, now) \ {old} : snapshot' = [snapshot EXCEPT ![m] = {new}]
    BY <2>2
  <2>4. Edited(old, new)
    BY <2>3, EditIs
  <2> QED
    BY <1>5, <2>3, <2>4 DEF EditDelivery, Edit, Edits
<1>6. ASSUME NEW id, EditStart(m, id) PROVE \E old, new : Edits(m, old, new)
  <2>1. PICK old \in snapshot[m] :
          \E new \in OnRun(old, id, LAMBDA run : Start(run, now), now, now) :
            snapshot' = [snapshot EXCEPT ![m] = {new}]
    BY <1>6 DEF EditStart, EditRun, Edit
  <2>2. PICK new \in OnRun(old, id, LAMBDA run : Start(run, now), now, now) :
          snapshot' = [snapshot EXCEPT ![m] = {new}]
    BY <2>1
  <2>3. Edited(old, new)
    BY <2>2, EditIs
  <2> QED
    BY <1>6, <2>2, <2>3 DEF EditStart, EditRun, Edit, Edits
<1>7. ASSUME NEW id, EditInterrupt(m, id) PROVE \E old, new : Edits(m, old, new)
  <2>1. PICK old \in snapshot[m] :
          \E new \in OnRun(old, id, LAMBDA run : Interrupt(run, now), now, now) :
            snapshot' = [snapshot EXCEPT ![m] = {new}]
    BY <1>7 DEF EditInterrupt, EditRun, Edit
  <2>2. PICK new \in OnRun(old, id, LAMBDA run : Interrupt(run, now), now, now) :
          snapshot' = [snapshot EXCEPT ![m] = {new}]
    BY <2>1
  <2>3. Edited(old, new)
    BY <2>2, EditIs
  <2> QED
    BY <1>7, <2>2, <2>3 DEF EditInterrupt, EditRun, Edit, Edits
<1>8. ASSUME NEW id, EditComplete(m, id) PROVE \E old, new : Edits(m, old, new)
  <2>1. PICK old \in snapshot[m] :
          \E new \in OnRun(old, id, LAMBDA run : Complete(run, now, <<>>), now, now) :
            snapshot' = [snapshot EXCEPT ![m] = {new}]
    BY <1>8 DEF EditComplete, EditRun, Edit
  <2>2. PICK new \in OnRun(old, id, LAMBDA run : Complete(run, now, <<>>), now, now) :
          snapshot' = [snapshot EXCEPT ![m] = {new}]
    BY <2>1
  <2>3. Edited(old, new)
    BY <2>2, EditIs
  <2> QED
    BY <1>8, <2>2, <2>3 DEF EditComplete, EditRun, Edit, Edits
<1>9. ASSUME NEW id, NEW status \in {"failed", "cancelled"}, EditEnd(m, id, status)
      PROVE  \E old, new : Edits(m, old, new)
  <2>1. PICK old \in snapshot[m] :
          \E new \in OnRun(old, id, LAMBDA run : End(run, status, now), now, now) :
            snapshot' = [snapshot EXCEPT ![m] = {new}]
    BY <1>9 DEF EditEnd, EditRun, Edit
  <2>2. PICK new \in OnRun(old, id, LAMBDA run : End(run, status, now), now, now) :
          snapshot' = [snapshot EXCEPT ![m] = {new}]
    BY <2>1
  <2>3. Edited(old, new)
    BY <2>2, EditEndIs
  <2> QED
    BY <1>9, <2>2, <2>3 DEF EditEnd, EditRun, Edit, Edits
<1>10. CASE SaveSnapshot(m)
  BY <1>10, SaveShape
<1> QED
  BY <1>1, <1>2, <1>3, <1>4, <1>5, <1>6, <1>7, <1>8, <1>9, <1>10 DEF EmbedderNext

(* What an operation of the store comes to.                                *)
LEMMA LoadedIs ==
  ASSUME Typed
  PROVE  /\ \A img \in Load(file) : img \in ImageType
         /\ \A img \in LoadForMerge(file) : img \in ImageType
<1>1. EmptyImage(0) \in ImageType
  BY EmptySeq DEF EmptyImage, ImageType
<1> QED
  BY <1>1 DEF Typed, Load, LoadForMerge

(* The completion of a run with the outputs that its messages make.        *)
LEMMA CompletedIs ==
  ASSUME NEW img \in ImageType, NEW id \in AgentRun, NEW messages \in Outputs, NEW t \in Nat,
         Has(img.runs, id), IsOutput(SessionOfRun(img, id), messages),
         NEW new \in CompleteWithOutputs(img, id,
                       OutputDeliveries(id, SessionOfRun(img, id), messages, t), t, t)
  PROVE  CompletedBy(img, id, messages, t, new)
<1>1. PICK run \in Find(img.runs, id) : SessionOfRun(img, id) = run.session
  <2>1. Find(img.runs, id) # {}
    BY HasIs DEF Find
  <2> QED
    BY <2>1 DEF SessionOfRun
<1>2. PICK s \in Nat : s = SessionOfRun(img, id)
  BY <1>1, FoundRun DEF RunType
<1>3. PICK deliveries \in Seq(DeliveryType) : deliveries = OutputDeliveries(id, s, messages, t)
  BY OutputDeliveriesAre
<1>4. \E old \in Find(img.runs, id) : \E r : RunCompleted(img, t, old, r, deliveries, new)
  BY <1>2, <1>3, CompletionIs
<1> QED
  BY <1>2, <1>3, <1>4 DEF CompletedBy

LEMMA EventStepShape ==
  ASSUME Typed, NEW e \in Event, PersistEvent(e)
  PROVE  \E img, new, existing : Receives(img, new, existing)
<1>1. PICK img \in Load(file), existing \in LoadForMerge(file) :
        \E new \in RecordEvent(img, e, now) \ {img} :
          \E merged \in Save(existing, new) : file' = {Encode(merged)}
  BY DEF PersistEvent, UpdateBySave
<1>2. PICK new \in RecordEvent(img, e, now) \ {img} :
          \E merged \in Save(existing, new) : file' = {Encode(merged)}
  BY <1>1
<1>3. PICK merged \in Save(existing, new) : file' = {Encode(merged)}
  BY <1>2
<1>4. Edited(img, new)
  <2>1. img \in ImageType /\ now \in Nat
    BY LoadedIs DEF Typed
  <2>2. Arrived(img, e, now, new)
    BY <1>2, <2>1, RecordIs
  <2> QED
    BY <2>1, <2>2 DEF Edited
<1> QED
  BY <1>3, <1>4 DEF PersistEvent, UpdateBySave, Save, Accept, Receives, Stores, Stays

LEMMA DeliveryStepShape ==
  ASSUME Typed, NEW d \in Delivery, EnqueueDelivery(d)
  PROVE  \E img, new, existing : Receives(img, new, existing)
<1>1. PICK img \in Load(file), existing \in LoadForMerge(file) :
        \E x \in NewDelivery(d.id, d.session, "system", d.body, now) :
          \E new \in Enqueue(img, x, now) \ {img} :
            \E merged \in Save(existing, new) : file' = {Encode(merged)}
  BY DEF EnqueueDelivery, UpdateBySave
<1>2. PICK x \in NewDelivery(d.id, d.session, "system", d.body, now) :
          \E new \in Enqueue(img, x, now) \ {img} :
            \E merged \in Save(existing, new) : file' = {Encode(merged)}
  BY <1>1
<1>3. PICK new \in Enqueue(img, x, now) \ {img} :
            \E merged \in Save(existing, new) : file' = {Encode(merged)}
  BY <1>2
<1>4. PICK merged \in Save(existing, new) : file' = {Encode(merged)}
  BY <1>3
<1>5. Edited(img, new)
  <2>1. img \in ImageType /\ now \in Nat
    BY LoadedIs DEF Typed
  <2>2. x.id = d.id /\ DeliveryAdded(img, x, new)
    BY <1>3, <2>1, EnqueueIs
  <2>3. x.id \in OtherDelivery
    BY <2>2 DEF OtherDelivery
  <2> QED
    BY <2>2, <2>3 DEF Edited
<1> QED
  BY <1>4, <1>5 DEF EnqueueDelivery, UpdateBySave, Save, Accept, Receives, Stores, Stays

LEMMA RunUpdateShape ==
  ASSUME Typed, NEW id \in AgentRun,
         ClaimMessages(id) \/ StartAgentRun(id) \/ FailAgentRun(id) \/ InterruptAgentRun(id)
  PROVE  \E img, new : Updates(img, new)
<1>1. \A img \in Load(file) : img \in ImageType
  BY LoadedIs
<1>2. now \in Nat /\ id \in RunKey
  BY DEF Typed, RunKey
<1>3. CASE ClaimMessages(id)
  <2>1. PICK img \in Load(file) : \E new \in ClaimBatch(img, id, now) : Write(new)
    BY <1>3 DEF ClaimMessages, Update
  <2>2. PICK new \in ClaimBatch(img, id, now) : Write(new)
    BY <2>1
  <2>3. \E s : Claims(img, id, now, s, new)
    BY <1>1, <1>2, <2>2, ClaimIs
  <2>4. Updated(img, new)
    BY <1>2, <2>3 DEF Updated
  <2> QED
    BY <1>3, <2>2, <2>4 DEF ClaimMessages, Update, Write, Updates, Stores, Stays
<1>4. CASE StartAgentRun(id)
  <2>1. PICK img \in Load(file) :
          \E new \in OnRun(img, id, LAMBDA run : IF now >= run.updated THEN Start(run, now) ELSE {},
                           now, now) : Write(new)
    BY <1>4 DEF StartAgentRun, Update
  <2>2. PICK new \in OnRun(img, id, LAMBDA run : IF now >= run.updated THEN Start(run, now) ELSE {},
                           now, now) : Write(new)
    BY <2>1
  <2>3. new \in OnRun(img, id, LAMBDA run : Start(run, now), now, now)
    BY <2>2 DEF OnRun
  <2>4. \E a, b : RunMoves(img, now, a, b, new)
    BY <1>1, <1>2, <2>3, RunSteps
  <2>5. Updated(img, new)
    BY <1>2, <2>4 DEF Updated
  <2> QED
    BY <1>4, <2>2, <2>5 DEF StartAgentRun, Update, Write, Updates, Stores, Stays
<1>5. CASE FailAgentRun(id)
  <2>1. PICK img \in Load(file) :
          \E new \in OnRun(img, id, LAMBDA run : IF run.status = "running" /\ NotBeforeUpdate(run, now)
                                                 THEN End(run, "failed", now) ELSE {}, now, now) :
            Write(new)
    BY <1>5 DEF FailAgentRun, StopAgentRun, Update
  <2>2. PICK new \in OnRun(img, id, LAMBDA run : IF run.status = "running" /\ NotBeforeUpdate(run, now)
                                                 THEN End(run, "failed", now) ELSE {}, now, now) :
            Write(new)
    BY <2>1
  <2>3. new \in OnRun(img, id, LAMBDA run : End(run, "failed", now), now, now)
    BY <2>2 DEF OnRun
  <2>4. \E a, b : RunMoves(img, now, a, b, new)
    BY <1>1, <1>2, <2>3, EndSteps
  <2>5. Updated(img, new)
    BY <1>2, <2>4 DEF Updated
  <2> QED
    BY <1>5, <2>2, <2>5 DEF FailAgentRun, StopAgentRun, Update, Write, Updates, Stores, Stays
<1>6. CASE InterruptAgentRun(id)
  <2>1. PICK img \in Load(file) :
          \E new \in OnRun(img, id, LAMBDA run : IF run.status = "running" /\ NotBeforeUpdate(run, now)
                                                 THEN Interrupt(run, now) ELSE {}, now, now) :
            Write(new)
    BY <1>6 DEF InterruptAgentRun, StopAgentRun, Update
  <2>2. PICK new \in OnRun(img, id, LAMBDA run : IF run.status = "running" /\ NotBeforeUpdate(run, now)
                                                 THEN Interrupt(run, now) ELSE {}, now, now) :
            Write(new)
    BY <2>1
  <2>3. new \in OnRun(img, id, LAMBDA run : Interrupt(run, now), now, now)
    BY <2>2 DEF OnRun
  <2>4. \E a, b : RunMoves(img, now, a, b, new)
    BY <1>1, <1>2, <2>3, RunSteps
  <2>5. Updated(img, new)
    BY <1>2, <2>4 DEF Updated
  <2> QED
    BY <1>6, <2>2, <2>5 DEF InterruptAgentRun, StopAgentRun, Update, Write, Updates, Stores, Stays
<1> QED
  BY <1>3, <1>4, <1>5, <1>6

LEMMA CompletionShape ==
  ASSUME Typed, NEW id \in AgentRun, NEW messages \in Outputs, CompleteAgentRun(id, messages)
  PROVE  \E img, new : Completes(img, id, messages, new)
<1>1. PICK img \in Load(file) :
        \E new \in IF Has(img.runs, id) /\ IsOutput(SessionOfRun(img, id), messages)
                   THEN CompleteWithOutputs(img, id,
                          OutputDeliveries(id, SessionOfRun(img, id), messages, now), now, now)
                   ELSE {} : Write(new)
  BY DEF CompleteAgentRun, Update
<1>2. /\ Has(img.runs, id) /\ IsOutput(SessionOfRun(img, id), messages)
      /\ \E new \in CompleteWithOutputs(img, id,
                      OutputDeliveries(id, SessionOfRun(img, id), messages, now), now, now) : Write(new)
  BY <1>1
<1>3. PICK new \in CompleteWithOutputs(img, id,
                     OutputDeliveries(id, SessionOfRun(img, id), messages, now), now, now) : Write(new)
  BY <1>2
<1>4. img \in ImageType /\ now \in Nat
  BY LoadedIs DEF Typed
<1>5. CompletedBy(img, id, messages, now, new)
  BY <1>2, <1>3, <1>4, CompletedIs
<1> QED
  BY <1>3, <1>5 DEF CompleteAgentRun, Update, Write, Completes, Stores, Stays

LEMMA EmptyIsValid ==
  ASSUME NEW t \in Nat
  PROVE  EmptyImage(t) \in ImageType /\ Valid(EmptyImage(t))
<1>1. PICK img : img = EmptyImage(t)
  OBVIOUS
<1>2. /\ img.sessions = <<>> /\ img.runs = <<>> /\ img.inputs = <<>> /\ img.ledger = <<>>
      /\ img.queue = <<>> /\ img.outbox = <<>> /\ img.updated = t
  BY <1>1 DEF EmptyImage
<1>3. DOMAIN <<>> = {} /\ ToSet(<<>>) = {}
  BY EmptySeq, ElementsEmpty
<1>4. SessionsValid(img) /\ RunsValid(img) /\ LedgerValid(img) /\ OutboxValid(img) /\ OutputsValid(img)
  BY <1>2, <1>3 DEF SessionsValid, RunsValid, LedgerValid, OutboxValid, OutputsValid, DistinctIds
<1>5. QueueValid(img)
  BY <1>2, <1>3 DEF QueueValid, DistinctIds, Increasing
<1>6. InputsValid(img)
  BY <1>2, <1>3 DEF InputsValid, DistinctIds, ClaimedOnce, Claimed
<1>7. OwnershipValid(img)
  <2>1. SessionsIn(img.queue) = {} /\ {img.inputs[i].session : i \in DOMAIN img.inputs} = {}
    BY <1>2, <1>3 DEF SessionsIn
  <2> QED
    BY <2>1 DEF OwnershipValid
<1>8. img \in ImageType
  BY <1>1, EmptySeq DEF EmptyImage, ImageType
<1> QED
  BY <1>1, <1>4, <1>5, <1>6, <1>7, <1>8 DEF Valid

(* What is read from the file is valid.                                    *)
LEMMA ReadIsValid ==
  ASSUME now \in Nat
  PROVE  /\ \A img \in Load(file) : Valid(img)
         /\ \A img \in LoadForMerge(file) : Valid(img)
<1>1. \A wire : \A img \in Parse(wire) : Valid(img)
  BY DEF Parse, Accept
<1> QED
  BY <1>1, EmptyIsValid DEF Load, LoadForMerge

LEMMA OutboxUpdateShape ==
  ASSUME Typed, NEW status,
         \/ ClaimDelivery
         \/ status \in {"delivered", "failed", "uncertain"} /\ SettleDelivery(status)
         \/ status \in {"delivered", "failed"} /\ ResolveDelivery(status)
  PROVE  \E img, new : Updates(img, new)
<1>1. \A img \in Load(file) : img \in ImageType
  BY LoadedIs
<1>2. now \in Nat
  BY DEF Typed
<1> DEFINE Result(img, e) == Touch([img EXCEPT !.outbox = Put(@, e)], Larger(e.updated, now))
<1>3. ASSUME NEW img \in Load(file), NEW d \in ToSet(img.outbox), NEW old \in Find(img.outbox, d.id),
             NEW e, e \in DeliveryType, SameEnqueue(e, old), Write(Result(img, e)),
             Stays, confirmed' = confirmed
      PROVE  \E new : Updates(img, new)
  <2>1. PICK new : new = Result(img, e)
    OBVIOUS
  <2>2. DeliveryGoesOn(img, old, e, new)
    BY <1>1, <1>2, <1>3, <2>1, DeliveryPut
  <2> QED
    BY <1>3, <2>1, <2>2 DEF Updates, Updated, Write, Stores
<1>4. ASSUME NEW img \in Load(file), NEW d \in ToSet(img.outbox), NEW old \in Find(img.outbox, d.id)
      PROVE  old \in DeliveryType
  <2>1. ToSet(img.outbox) \subseteq DeliveryType
    BY <1>1, ImageParts, ElementsType
  <2> QED
    BY <2>1 DEF Find
<1>5. CASE ClaimDelivery
  <2>1. PICK img \in Load(file) :
          \E new \in UNION {OnDelivery(img, d.id, LAMBDA x : BeginDelivery(x, now), now) :
                               d \in ToSet(img.outbox)} :
            Write(new)
    BY <1>5 DEF ClaimDelivery, OnOutbox, Update
  <2>2. PICK d \in ToSet(img.outbox) :
          \E new \in OnDelivery(img, d.id, LAMBDA x : BeginDelivery(x, now), now) : Write(new)
    BY <2>1
  <2>3. PICK old \in Find(img.outbox, d.id) : \E e \in BeginDelivery(old, now) : Write(Result(img, e))
    BY <2>2 DEF OnDelivery
  <2>4. PICK e \in BeginDelivery(old, now) : Write(Result(img, e))
    BY <2>3
  <2>5. Stays /\ confirmed' = confirmed
    BY <1>5 DEF ClaimDelivery, OnOutbox, Update, Stays
  <2>6. old \in DeliveryType
    BY <1>4
  <2>7. e \in DeliveryType /\ SameEnqueue(e, old)
    BY <1>2, <2>6, BeginIs
  <2> HIDE DEF Result
  <2> QED
    BY <1>3, <2>4, <2>5, <2>7
<1>6. ASSUME status \in {"delivered", "failed", "uncertain"}, SettleDelivery(status)
      PROVE  \E img, new : Updates(img, new)
  <2>1. PICK img \in Load(file) :
          \E new \in UNION {OnDelivery(img, d.id, LAMBDA x : Settle(x, status, now), now) :
                               d \in ToSet(img.outbox)} :
            Write(new)
    BY <1>6 DEF SettleDelivery, OnOutbox, Update
  <2>2. PICK d \in ToSet(img.outbox) :
          \E new \in OnDelivery(img, d.id, LAMBDA x : Settle(x, status, now), now) : Write(new)
    BY <2>1
  <2>3. PICK old \in Find(img.outbox, d.id) : \E e \in Settle(old, status, now) : Write(Result(img, e))
    BY <2>2 DEF OnDelivery
  <2>4. PICK e \in Settle(old, status, now) : Write(Result(img, e))
    BY <2>3
  <2>5. Stays /\ confirmed' = confirmed
    BY <1>6 DEF SettleDelivery, OnOutbox, Update, Stays
  <2>6. old \in DeliveryType
    BY <1>4
  <2>7. e \in DeliveryType /\ SameEnqueue(e, old)
    BY <1>2, <1>6, <2>6, SettleIs
  <2> HIDE DEF Result
  <2> QED
    BY <1>3, <2>4, <2>5, <2>7
<1>7. ASSUME status \in {"delivered", "failed"}, ResolveDelivery(status)
      PROVE  \E img, new : Updates(img, new)
  <2>1. PICK img \in Load(file) :
          \E new \in UNION {OnDelivery(img, d.id, LAMBDA x : Resolve(x, status, now), now) :
                               d \in ToSet(img.outbox)} :
            Write(new)
    BY <1>7 DEF ResolveDelivery, OnOutbox, Update
  <2>2. PICK d \in ToSet(img.outbox) :
          \E new \in OnDelivery(img, d.id, LAMBDA x : Resolve(x, status, now), now) : Write(new)
    BY <2>1
  <2>3. PICK old \in Find(img.outbox, d.id) : \E e \in Resolve(old, status, now) : Write(Result(img, e))
    BY <2>2 DEF OnDelivery
  <2>4. PICK e \in Resolve(old, status, now) : Write(Result(img, e))
    BY <2>3
  <2>5. Stays /\ confirmed' = confirmed
    BY <1>7 DEF ResolveDelivery, OnOutbox, Update, Stays
  <2>6. old \in DeliveryType
    BY <1>4
  <2>7. e \in DeliveryType /\ SameEnqueue(e, old)
    BY <1>2, <1>7, <2>6, ResolveIs
  <2> HIDE DEF Result
  <2> QED
    BY <1>3, <2>4, <2>5, <2>7
<1> QED
  BY <1>5, <1>6, <1>7

LEMMA RecoverShape ==
  ASSUME Typed, Recover
  PROVE  \E img, new : Updates(img, new)
<1>1. PICK img \in Load(file) :
        \E new \in {ReconcileRuns(img, now), ReconcileOutbox(img, now)} \ {img} : Write(new)
  BY DEF Recover, Update
<1>2. PICK new \in {ReconcileRuns(img, now), ReconcileOutbox(img, now)} \ {img} : Write(new)
  BY <1>1
<1>3. img \in ImageType /\ now \in Nat /\ RunsValid(img)
  BY LoadedIs, ReadIsValid DEF Typed, Valid
<1>4. RunsRecovered(img, new) \/ OutboxRecovered(img, new)
  BY <1>2, <1>3, ReconcileRunsIs, ReconcileOutboxIs
<1>5. Updated(img, new)
  BY <1>4 DEF Updated
<1> QED
  BY <1>2, <1>5 DEF Recover, Update, Write, Updates, Stores, Stays

(* Every step.                                                             *)
LEMMA StepShape ==
  ASSUME Typed, [Next]_vars
  PROVE  \/ Passes
         \/ \E m \in Embedder : \/ \E img : Loads(m, img)
                                \/ \E old, new : Edits(m, old, new)
                                \/ \E s, existing : Saves(m, s, existing)
         \/ \E img, new : Updates(img, new)
         \/ \E img, id, messages, new : Completes(img, id, messages, new)
         \/ \E img, new, existing : Receives(img, new, existing)
<1>1. CASE \E m \in Embedder : EmbedderNext(m)
  BY <1>1, EmbedderShape
<1>2. CASE StoreNext
  <2>1. ASSUME NEW e \in Event, PersistEvent(e)
        PROVE  \E img, new, existing : Receives(img, new, existing)
    BY <2>1, EventStepShape
  <2>2. ASSUME NEW d \in Delivery, EnqueueDelivery(d)
        PROVE  \E img, new, existing : Receives(img, new, existing)
    BY <2>2, DeliveryStepShape
  <2> QED
    BY <1>2, <2>1, <2>2, RunUpdateShape, CompletionShape, OutboxUpdateShape, RecoverShape
       DEF StoreNext
<1>3. CASE Tick \/ UNCHANGED vars
  BY <1>3 DEF Tick, vars, Passes, Typed
<1> QED
  BY <1>1, <1>2, <1>3 DEF Next

-----------------------------------------------------------------------------
(* The types.                                                              *)
LEMMA WrittenIs ==
  ASSUME NEW img \in ImageType, Stores(img)
  PROVE  /\ Load(file') = {img} /\ Load(file)' = {img}
         /\ LoadForMerge(file') = {img}
         /\ OneFile'
<1>1. Parse(Encode(img)) = {img}
  BY RoundTrip DEF Stores
<1>2. LoadForMerge(file') = {img} /\ file' # {}
  BY <1>1 DEF LoadForMerge, Stores
<1> QED
  BY <1>2 DEF Load, LoadForMerge, OneFile, Stores

LEMMA EditedType ==
  ASSUME NEW img, NEW new, Edited(img, new) \/ Updated(img, new)
  PROVE  new \in ImageType
BY DEF Edited, Updated, SessionKept, RunAdded, Arrived, DeliveryAdded, RunMoves, RunGoesOn,
   Claims, DeliveryGoesOn, RunsRecovered, OutboxRecovered

(* What a step writes, and what it reads after that.                       *)
StoresTyped == \E img \in ImageType : Stores(img)

LEMMA StepStores ==
  ASSUME Typed,
         \/ \E m \in Embedder : \E s, existing : Saves(m, s, existing)
         \/ \E img, new : Updates(img, new)
         \/ \E img, id, messages, new : Completes(img, id, messages, new)
         \/ \E img, new, existing : Receives(img, new, existing)
  PROVE  StoresTyped
<1>1. ASSUME NEW m \in Embedder, NEW s, NEW existing, Saves(m, s, existing) PROVE StoresTyped
  <2>1. s \in ImageType /\ existing \in ImageType
    BY <1>1, LoadedIs DEF Saves, Typed
  <2>2. Merged(existing, s) \in ImageType
    BY <2>1, MergedIs DEF Merges
  <2> QED
    BY <1>1, <2>2 DEF Saves, StoresTyped
<1>2. ASSUME NEW img, NEW new, Updates(img, new) PROVE StoresTyped
  BY <1>2, EditedType DEF Updates, StoresTyped
<1>3. ASSUME NEW img, NEW id, NEW messages, NEW new, Completes(img, id, messages, new)
      PROVE  StoresTyped
  BY <1>3 DEF Completes, CompletedBy, RunCompleted, StoresTyped
<1>4. ASSUME NEW img, NEW new, NEW existing, Receives(img, new, existing) PROVE StoresTyped
  <2>1. new \in ImageType /\ existing \in ImageType
    BY <1>4, EditedType, LoadedIs DEF Receives
  <2>2. Merged(existing, new) \in ImageType
    BY <2>1, MergedIs DEF Merges
  <2> QED
    BY <1>4, <2>2 DEF Receives, StoresTyped
<1> QED
  BY <1>1, <1>2, <1>3, <1>4

LEMMA InitTyped ==
  ASSUME Init
  PROVE  Typed
<1>1. now \in Nat
  BY DEF Init
<1>2. OneFile
  BY OneFileStays
<1>3. ASSUME NEW img \in Load(file) PROVE img \in ImageType
  <2>1. CASE file = {}
    BY <1>1, <2>1, EmptyIsValid DEF Load
  <2>2. CASE file # {}
    <3>1. PICK wire \in file : img \in Parse(wire)
      BY <2>2 DEF Load, LoadForMerge
    <3>2. wire \in Wires
      BY <3>1 DEF Init, Wires
    <3> QED
      BY <3>1, <3>2, SnapshotAssumption
  <2> QED
    BY <2>1, <2>2
<1> QED
  BY <1>1, <1>2, <1>3 DEF Init, Typed

LEMMA TypedStays ==
  ASSUME Typed, [Next]_vars
  PROVE  Typed'
<1>1. CASE Passes
  <2>1. OneFile'
    BY <1>1 DEF Passes, Typed, OneFile
  <2>2. ASSUME NEW img \in Load(file)' PROVE img \in ImageType
    <3>1. CASE file = {}
      BY <1>1, <3>1, EmptyIsValid DEF Load, Passes
    <3>2. CASE file # {}
      BY <1>1, <3>2 DEF Load, Passes, Typed
    <3> QED
      BY <3>1, <3>2
  <2> QED
    BY <1>1, <2>1, <2>2 DEF Passes, Typed
<1>2. ASSUME NEW m \in Embedder, NEW img, Loads(m, img) PROVE Typed'
  <2>1. OneFile' /\ Load(file)' = Load(file)
    BY <1>2 DEF Loads, Typed, OneFile, Load
  <2>2. snapshot' = [k \in Embedder |-> snapshot'[k]]
        /\ \A k \in Embedder : snapshot'[k] = IF k = m THEN {img} ELSE snapshot[k]
    BY <1>2 DEF Loads, Typed
  <2>3. img \in ImageType
    BY <1>2 DEF Loads, Typed
  <2> QED
    BY <1>2, <2>1, <2>2, <2>3 DEF Loads, Typed
<1>3. ASSUME NEW m \in Embedder, NEW old, NEW new, Edits(m, old, new) PROVE Typed'
  <2>1. OneFile' /\ Load(file)' = Load(file)
    BY <1>3 DEF Edits, Typed, OneFile, Load
  <2>2. snapshot' = [k \in Embedder |-> snapshot'[k]]
        /\ \A k \in Embedder : snapshot'[k] = IF k = m THEN {new} ELSE snapshot[k]
    BY <1>3 DEF Edits, Typed
  <2>3. new \in ImageType
    BY <1>3, EditedType DEF Edits
  <2> QED
    BY <1>3, <2>1, <2>2, <2>3 DEF Edits, Typed
<1>4. ASSUME StoresTyped, Stays PROVE Typed'
  <2>1. PICK img \in ImageType : Stores(img)
    BY <1>4 DEF StoresTyped
  <2>2. Load(file)' = {img} /\ OneFile'
    BY <2>1, WrittenIs
  <2> QED
    BY <1>4, <2>1, <2>2 DEF Stays, Typed
<1>5. ASSUME NEW m \in Embedder, NEW s, NEW existing, Saves(m, s, existing) PROVE Typed'
  <2>1. StoresTyped
    BY <1>5, StepStores
  <2> QED
    BY <1>4, <1>5, <2>1 DEF Saves
<1>6. ASSUME \/ \E img, new : Updates(img, new)
             \/ \E img, id, messages, new : Completes(img, id, messages, new)
             \/ \E img, new, existing : Receives(img, new, existing)
      PROVE  Typed'
  <2>1. StoresTyped
    BY <1>6, StepStores
  <2> QED
    BY <1>4, <1>6, <2>1 DEF Updates, Completes, Receives
<1> QED
  BY <1>1, <1>2, <1>3, <1>5, <1>6, StepShape

-----------------------------------------------------------------------------
(* SaveOnlyAdds.  No run is a later version of a later version of itself.  *)
LEMMA DescendantIsLater ==
  ASSUME NEW run, NEW old, IsDescendant(run, old)
  PROVE  /\ run # old /\ ~IsDescendant(old, run)
         /\ run.status # "pending" /\ ~IsTerminal(old)
BY DEF IsDescendant, IsTerminal

LEMMA SameRecord ==
  ASSUME NEW records, DistinctIds(records), NEW x \in ToSet(records),
         NEW y \in Find(records, x.id)
  PROVE  x = y
BY DEF DistinctIds, Find, ToSet

(* Runs go on in their place; of a run with an input only the end comes    *)
(* from a snapshot.                                                        *)
LEMMA MergedRunsFollow ==
  ASSUME NEW existing \in ImageType, NEW s \in ImageType,
         DistinctIds(existing.runs), MayIntroduce(existing, s),
         NEW new, Merges(existing, s, new), NEW i \in DOMAIN existing.runs
  PROVE  /\ i \in DOMAIN new.runs
         /\ \/ new.runs[i] = existing.runs[i]
            \/ /\ IsDescendant(new.runs[i], existing.runs[i])
               /\ new.runs[i] \in ToSet(s.runs)
               /\ Has(existing.inputs, existing.runs[i].id) =>
                    new.runs[i].status \in {"interrupted", "failed", "cancelled"}
<1>1. existing.runs \in Seq(RunType) /\ s.runs \in Seq(RunType)
  BY ImageParts
<1>2. PICK kept \in Seq(RunType) :
        /\ MergedRuns(existing.runs, s.runs) = Union(kept, s.runs)
        /\ DOMAIN kept = DOMAIN existing.runs
        /\ \A j \in DOMAIN existing.runs :
             \/ kept[j] = existing.runs[j] /\ LaterOf(s.runs, existing.runs[j]) = {}
             \/ kept[j] \in LaterOf(s.runs, existing.runs[j])
  BY <1>1, MergedRunsAre
<1>3. PICK runs \in Seq(RunType) : runs = new.runs /\ runs = Union(kept, s.runs)
  BY <1>1, <1>2, UnionIs DEF Merges
<1>4. Grows(runs, kept)
  BY <1>1, <1>2, <1>3, UnionIs
<1>5. i \in DOMAIN runs /\ runs[i] = kept[i]
  BY <1>2, <1>4 DEF Grows
<1>6. PICK was : was = existing.runs[i] /\ was \in ToSet(existing.runs)
  BY DEF ToSet
<1>7. PICK run : run = kept[i]
  OBVIOUS
<1>8. CASE run \in LaterOf(s.runs, was)
  <2>1. run \in ToSet(s.runs) /\ IsDescendant(run, was) /\ run.id = was.id
    BY <1>8 DEF LaterOf, Find
  <2>2. ASSUME Has(existing.inputs, was.id)
        PROVE  run.status \in {"interrupted", "failed", "cancelled"}
    <3>1. \/ run.status \notin {"running", "completed"}
          \/ \E old \in Find(existing.runs, run.id) : run = old \/ IsDescendant(old, run)
      BY <2>1, <2>2 DEF MayIntroduce
    <3>2. run.status \notin {"running", "completed"}
      BY <1>6, <2>1, <3>1, SameRecord, DescendantIsLater
    <3>3. run \in RunType /\ run.status # "pending"
      BY <1>1, <2>1, ElementsType, DescendantIsLater
    <3> QED
      BY <3>2, <3>3 DEF RunType
  <2> QED
    BY <1>3, <1>5, <1>6, <1>7, <2>1, <2>2
<1> QED
  BY <1>2, <1>3, <1>5, <1>6, <1>7, <1>8

LEMMA InputsKept ==
  ASSUME NEW existing \in ImageType, NEW s \in ImageType, MayIntroduce(existing, s),
         NEW new, Merges(existing, s, new)
  PROVE  new.inputs = existing.inputs
BY ImageParts, UnionOfKnown DEF MayIntroduce, Merges

LEMMA QueueKept ==
  ASSUME NEW existing \in ImageType, NEW s \in ImageType, ClaimedOnce(existing),
         MayIntroduce(existing, s), NEW new, Merges(existing, s, new)
  PROVE  /\ Waiting(new.inputs, existing.queue) = existing.queue
         /\ Rebased(existing.queue, Brought(new.inputs, existing.queue, s.queue), new.queue)
<1>1. /\ existing.queue \in Seq(MessageType) /\ s.queue \in Seq(MessageType)
      /\ existing.inputs \in Seq(InputType)
  BY ImageParts
<1>2. new.inputs = existing.inputs
  BY InputsKept
<1>3. ClaimedIn(new.inputs) = Claimed(existing)
  BY <1>2 DEF ClaimedIn, Claimed
<1>4. \A m \in ToSet(existing.queue) : ~\E c \in ClaimedIn(new.inputs) : c.id = m.id
  BY <1>3, HasIs DEF ClaimedOnce
<1>5. Waiting(new.inputs, existing.queue) = existing.queue
  BY <1>1, <1>4, SelectAll DEF Waiting
<1>6. Rebased(Waiting(new.inputs, existing.queue), Brought(new.inputs, existing.queue, s.queue),
              MergedQueue(new.inputs, existing.queue, s.queue))
  BY <1>1, <1>2, MergedQueueIs
<1> QED
  BY <1>5, <1>6 DEF Merges

LEMMA MergeExtends ==
  ASSUME NEW existing \in ImageType, NEW s \in ImageType, Valid(existing), Mergeable(existing, s)
  PROVE  Extends(Merged(existing, s), existing)
<1>1. PICK new : new = Merged(existing, s) /\ Merges(existing, s, new)
  BY MergedIs
<1>2. MayIntroduce(existing, s)
  BY DEF Mergeable
<1>3. DistinctIds(existing.runs) /\ ClaimedOnce(existing)
  BY DEF Valid, RunsValid, InputsValid
<1>4. IsPrefix(existing.ledger, new.ledger)
  <2>1. existing.ledger \in Seq(EntryType) /\ s.ledger \in Seq(EntryType) /\ new.ledger \in Seq(EntryType)
    BY <1>1, ImageParts DEF Merges
  <2>2. Grows(new.ledger, existing.ledger)
    BY <1>1, <2>1, UnionIs DEF Merges
  <2> QED
    BY <2>1, <2>2, GrowsIsPrefix
<1>5. IsPrefix(existing.outbox, new.outbox)
  <2>1. existing.outbox \in Seq(DeliveryType) /\ s.outbox \in Seq(DeliveryType)
        /\ new.outbox \in Seq(DeliveryType)
    BY <1>1, ImageParts DEF Merges
  <2>2. Grows(new.outbox, existing.outbox)
    BY <1>1, <2>1, UnionIs DEF Merges
  <2> QED
    BY <2>1, <2>2, GrowsIsPrefix
<1>6. IsPrefix(existing.queue, new.queue)
  <2>1. existing.queue \in Seq(MessageType) /\ new.queue \in Seq(MessageType)
    BY <1>1, ImageParts DEF Merges
  <2>2. Grows(new.queue, existing.queue)
    BY <1>1, <1>2, <1>3, QueueKept DEF Rebased
  <2> QED
    BY <2>1, <2>2, GrowsIsPrefix
<1>7. new.inputs = existing.inputs
  BY <1>1, <1>2, InputsKept
<1>8. ASSUME NEW i \in DOMAIN existing.runs
      PROVE  LET was == existing.runs[i]
                 is == new.runs[i]
             IN \/ is = was
                \/ /\ IsDescendant(is, was)
                   /\ Has(existing.inputs, was.id) => is.status \in {"interrupted", "failed", "cancelled"}
  BY <1>1, <1>2, <1>3, MergedRunsFollow
<1>9. Extends(new, existing)
  BY <1>4, <1>5, <1>6, <1>7, <1>8 DEF Extends
<1> QED
  BY <1>1, <1>9

(* Whatever is read of the file has the same records.                      *)
SameRecords(a, b) ==
  /\ a.sessions = b.sessions /\ a.runs = b.runs /\ a.inputs = b.inputs
  /\ a.ledger = b.ledger /\ a.queue = b.queue /\ a.outbox = b.outbox

LEMMA ReadIsOne ==
  ASSUME OneFile, NEW img \in Load(file), NEW existing \in LoadForMerge(file)
  PROVE  SameRecords(img, existing)
<1>1. CASE file = {}
  BY <1>1 DEF Load, LoadForMerge, EmptyImage, SameRecords
<1>2. CASE file # {}
  <2>1. PICK wire : file = {wire}
    BY <1>2 DEF OneFile
  <2>2. img \in Parse(wire) /\ existing \in Parse(wire)
    BY <2>1 DEF Load, LoadForMerge
  <2>3. img = existing
    BY <2>2 DEF Parse, Accept
  <2> QED
    BY <2>3 DEF SameRecords
<1> QED
  BY <1>1, <1>2

LEMMA SaveExtends ==
  ASSUME Typed, NEW m \in Embedder, SaveSnapshot(m),
         NEW old \in Load(file), NEW new \in Load(file')
  PROVE  Extends(new, old)
<1>1. PICK s, existing : Saves(m, s, existing)
  BY SaveShape
<1>2. s \in ImageType /\ existing \in ImageType /\ Valid(existing)
  BY <1>1, LoadedIs, ReadIsValid DEF Saves, Typed
<1>3. Extends(Merged(existing, s), existing)
  BY <1>1, <1>2, MergeExtends DEF Saves
<1>4. new = Merged(existing, s)
  <2>1. Merged(existing, s) \in ImageType
    BY <1>2, MergedIs DEF Merges
  <2> QED
    BY <1>1, <2>1, WrittenIs DEF Saves
<1>5. SameRecords(old, existing)
  BY <1>1, ReadIsOne DEF Saves, Typed
<1> QED
  BY <1>3, <1>4, <1>5 DEF Extends, SameRecords

-----------------------------------------------------------------------------
(* ConfirmedCompletionStands.  Runs and deliveries stay in their places:   *)
(* a run is what it was or a later version of it, and of a delivery the    *)
(* part that was enqueued does not change.                                 *)
RunsFollow(new, old) ==
  /\ DOMAIN old \subseteq DOMAIN new
  /\ \A i \in DOMAIN old : new[i] = old[i] \/ IsDescendant(new[i], old[i])

OutboxFollows(new, old) ==
  /\ DOMAIN old \subseteq DOMAIN new
  /\ \A i \in DOMAIN old : SameEnqueue(new[i], old[i])

GoesOn(img, new) == RunsFollow(new.runs, img.runs) /\ OutboxFollows(new.outbox, img.outbox)

LEMMA SameGoesOn ==
  /\ \A runs : RunsFollow(runs, runs)
  /\ \A outbox : OutboxFollows(outbox, outbox)
BY DEF RunsFollow, OutboxFollows, SameEnqueue

LEMMA GrownGoesOn ==
  ASSUME NEW old, NEW new, Grows(new, old)
  PROVE  RunsFollow(new, old) /\ OutboxFollows(new, old)
BY DEF Grows, RunsFollow, OutboxFollows, SameEnqueue

LEMMA AppendGrows ==
  ASSUME NEW X, NEW a \in Seq(X), NEW x \in X
  PROVE  Grows(Append(a, x), a)
<1>1. /\ Len(a) \in Nat /\ DOMAIN a = 1..Len(a) /\ DOMAIN Append(a, x) = 1..(Len(a) + 1)
      /\ \A i \in 1..Len(a) : Append(a, x)[i] = a[i]
  BY PositionsAppend
<1> QED
  BY <1>1 DEF Grows

LEMMA PutRunGoesOn ==
  ASSUME NEW runs \in Seq(RunType), DistinctIds(runs), NEW old \in ToSet(runs),
         NEW run \in RunType, IsDescendant(run, old)
  PROVE  RunsFollow(Put(runs, run), runs)
<1>1. IsPut(Put(runs, run), runs, run)
  BY PutIs
<1>2. run.id = old.id
  BY DEF IsDescendant
<1>3. PICK j \in DOMAIN runs : runs[j] = old
  BY DEF ToSet
<1>4. \A i \in DOMAIN runs : runs[i].id = run.id => runs[i] = old
  BY <1>2, <1>3 DEF DistinctIds
<1> QED
  BY <1>1, <1>4 DEF IsPut, RunsFollow

LEMMA PutDeliveryGoesOn ==
  ASSUME NEW outbox \in Seq(DeliveryType), DistinctIds(outbox), NEW old \in ToSet(outbox),
         NEW d \in DeliveryType, SameEnqueue(d, old)
  PROVE  OutboxFollows(Put(outbox, d), outbox)
<1>1. IsPut(Put(outbox, d), outbox, d)
  BY PutIs
<1>2. d.id = old.id
  BY DEF SameEnqueue
<1>3. PICK j \in DOMAIN outbox : outbox[j] = old
  BY DEF ToSet
<1>4. \A i \in DOMAIN outbox : outbox[i].id = d.id => outbox[i] = old
  BY <1>2, <1>3 DEF DistinctIds
<1>5. \A x : SameEnqueue(x, x)
  BY DEF SameEnqueue
<1> QED
  BY <1>1, <1>4, <1>5 DEF IsPut, OutboxFollows

(* Where the deliveries of an outbox come from.                            *)
Keys(outbox) == {d.id : d \in ToSet(outbox)}

LEMMA EditedGoesOn ==
  ASSUME NEW img \in ImageType, DistinctIds(img.runs), NEW new, Edited(img, new)
  PROVE  GoesOn(img, new)
<1>1. img.runs \in Seq(RunType) /\ img.outbox \in Seq(DeliveryType)
  BY ImageParts
<1>2. CASE SessionKept(img, new)
  BY <1>2, SameGoesOn DEF SessionKept, GoesOn
<1>3. ASSUME NEW id \in RunKey, NEW s \in Nat, NEW t \in Nat, RunAdded(img, t, NewRun(id, s, t), new)
      PROVE  GoesOn(img, new)
  <2>1. Grows(new.runs, img.runs)
    BY <1>1, <1>3, AppendGrows DEF RunAdded
  <2> QED
    BY <1>3, <2>1, GrownGoesOn, SameGoesOn DEF RunAdded, GoesOn
<1>4. ASSUME NEW e \in Event, NEW t \in Nat, Arrived(img, e, t, new)
      PROVE  GoesOn(img, new)
  BY <1>4, SameGoesOn DEF Arrived, GoesOn
<1>5. ASSUME NEW d, d.id \in OtherDelivery, DeliveryAdded(img, d, new)
      PROVE  GoesOn(img, new)
  <2>1. d \in DeliveryType /\ new.outbox = Append(img.outbox, d) /\ new.runs = img.runs
    BY <1>5 DEF DeliveryAdded
  <2>2. Grows(new.outbox, img.outbox)
    BY <1>1, <2>1, AppendGrows
  <2> QED
    BY <2>1, <2>2, GrownGoesOn, SameGoesOn DEF GoesOn
<1>6. ASSUME NEW t \in Nat, NEW old, NEW run, RunMoves(img, t, old, run, new)
      PROVE  GoesOn(img, new)
  <2>1. RunsFollow(new.runs, img.runs)
    BY <1>1, <1>6, PutRunGoesOn DEF RunMoves, RunGoesOn, NextRun
  <2> QED
    BY <1>6, <2>1, SameGoesOn DEF RunMoves, RunGoesOn, GoesOn
<1> QED
  BY <1>2, <1>3, <1>4, <1>5, <1>6 DEF Edited

LEMMA EditedKeys ==
  ASSUME NEW img \in ImageType, NEW new, Edited(img, new)
  PROVE  Keys(new.outbox) \subseteq Keys(img.outbox) \cup OtherDelivery
<1>1. ASSUME NEW d, d.id \in OtherDelivery, DeliveryAdded(img, d, new)
      PROVE  Keys(new.outbox) \subseteq Keys(img.outbox) \cup OtherDelivery
  <2>1. d \in DeliveryType /\ new.outbox = Append(img.outbox, d) /\ img.outbox \in Seq(DeliveryType)
    BY <1>1, ImageParts DEF DeliveryAdded
  <2>2. ToSet(new.outbox) = ToSet(img.outbox) \cup {d}
    BY <2>1, ElementsAppend
  <2> QED
    BY <1>1, <2>2 DEF Keys
<1>2. CASE new.outbox = img.outbox
  BY <1>2
<1> QED
  BY <1>1, <1>2 DEF Edited, SessionKept, RunAdded, Arrived, RunMoves, RunGoesOn

LEMMA UpdatedGoesOn ==
  ASSUME NEW img \in ImageType, DistinctIds(img.runs), DistinctIds(img.outbox),
         NEW new, Updated(img, new)
  PROVE  GoesOn(img, new) /\ Keys(new.outbox) \subseteq Keys(img.outbox)
<1>1. img.runs \in Seq(RunType) /\ img.outbox \in Seq(DeliveryType)
  BY ImageParts
<1>2. ASSUME NEW id \in AgentRun, NEW t \in Nat, NEW s, Claims(img, id, t, s, new)
      PROVE  GoesOn(img, new) /\ Keys(new.outbox) \subseteq Keys(img.outbox)
  <2>1. NewRun(id, s, t) \in RunType /\ new.runs = Append(img.runs, NewRun(id, s, t))
        /\ new.outbox = img.outbox
    BY <1>2 DEF Claims
  <2>2. Grows(new.runs, img.runs)
    BY <1>1, <2>1, AppendGrows
  <2> QED
    BY <2>1, <2>2, GrownGoesOn, SameGoesOn DEF GoesOn
<1>3. ASSUME NEW t \in Nat, NEW old, NEW run, RunMoves(img, t, old, run, new)
      PROVE  GoesOn(img, new) /\ Keys(new.outbox) \subseteq Keys(img.outbox)
  <2>1. RunsFollow(new.runs, img.runs)
    BY <1>1, <1>3, PutRunGoesOn DEF RunMoves, RunGoesOn, NextRun
  <2> QED
    BY <1>3, <2>1, SameGoesOn DEF RunMoves, RunGoesOn, GoesOn
<1>4. ASSUME NEW d, NEW e, DeliveryGoesOn(img, d, e, new)
      PROVE  GoesOn(img, new) /\ Keys(new.outbox) \subseteq Keys(img.outbox)
  <2>1. OutboxFollows(new.outbox, img.outbox)
    BY <1>1, <1>4, PutDeliveryGoesOn DEF DeliveryGoesOn
  <2>2. IsPut(new.outbox, img.outbox, e)
    BY <1>1, <1>4, PutIs DEF DeliveryGoesOn
  <2>3. Keys(new.outbox) \subseteq Keys(img.outbox)
    BY <2>1, <2>2 DEF OutboxFollows, SameEnqueue, IsPut, Keys, ToSet
  <2> QED
    BY <1>4, <2>1, <2>3, SameGoesOn DEF DeliveryGoesOn, GoesOn
<1>5. CASE RunsRecovered(img, new)
  BY <1>5, SameGoesOn DEF RunsRecovered, GoesOn, RunsFollow
<1>6. CASE OutboxRecovered(img, new)
  <2>1. Keys(new.outbox) \subseteq Keys(img.outbox)
    BY <1>6 DEF OutboxRecovered, SameEnqueue, Keys, ToSet
  <2> QED
    BY <1>6, <2>1, SameGoesOn DEF OutboxRecovered, GoesOn, OutboxFollows
<1> QED
  BY <1>2, <1>3, <1>4, <1>5, <1>6 DEF Updated

LEMMA MergeGoesOn ==
  ASSUME NEW existing \in ImageType, NEW s \in ImageType, Valid(existing), Mergeable(existing, s)
  PROVE  /\ GoesOn(existing, Merged(existing, s))
         /\ Keys(Merged(existing, s).outbox) \subseteq Keys(existing.outbox) \cup Keys(s.outbox)
<1>1. PICK new : new = Merged(existing, s) /\ Merges(existing, s, new)
  BY MergedIs
<1>2. MayIntroduce(existing, s) /\ DistinctIds(existing.runs)
  BY DEF Mergeable, Valid, RunsValid
<1>3. RunsFollow(new.runs, existing.runs)
  <2>1. \A i \in DOMAIN existing.runs :
          /\ i \in DOMAIN new.runs
          /\ new.runs[i] = existing.runs[i] \/ IsDescendant(new.runs[i], existing.runs[i])
    BY <1>1, <1>2, MergedRunsFollow
  <2> QED
    BY <2>1 DEF RunsFollow
<1>4. existing.outbox \in Seq(DeliveryType) /\ s.outbox \in Seq(DeliveryType)
      /\ new.outbox = Union(existing.outbox, s.outbox)
  BY <1>1, ImageParts DEF Merges
<1>5. /\ ToSet(new.outbox) = ToSet(existing.outbox) \cup {x \in ToSet(s.outbox) : ~Has(existing.outbox, x.id)}
      /\ Grows(new.outbox, existing.outbox)
  BY <1>4, UnionIs
<1>6. OutboxFollows(new.outbox, existing.outbox)
  BY <1>5, GrownGoesOn
<1>7. Keys(new.outbox) \subseteq Keys(existing.outbox) \cup Keys(s.outbox)
  BY <1>5 DEF Keys
<1> QED
  BY <1>1, <1>3, <1>6, <1>7 DEF GoesOn

(* A completion has its outputs, and they are new.                         *)
LEMMA CompletionGoesOn ==
  ASSUME NEW img \in ImageType, DistinctIds(img.runs), NEW id \in AgentRun, NEW messages \in Outputs,
         NEW t \in Nat, NEW new, CompletedBy(img, id, messages, t, new)
  PROVE  /\ GoesOn(img, new)
         /\ VerifiesReplay(new, [run |-> id, messages |-> messages, at |-> t])
         /\ \A key \in Keys(new.outbox) : key \in Keys(img.outbox) \/ key[1] = id
<1>1. PICK old \in Find(img.runs, id) : \E run :
        /\ RunCompleted(img, t, old, run, OutputDeliveries(id, SessionOfRun(img, id), messages, t), new)
        /\ IsOutput(SessionOfRun(img, id), messages)
  BY DEF CompletedBy
<1>2. PICK run :
        /\ RunCompleted(img, t, old, run, OutputDeliveries(id, SessionOfRun(img, id), messages, t), new)
        /\ IsOutput(SessionOfRun(img, id), messages)
  BY <1>1
<1>3. old \in RunType /\ old.id = id /\ old \in ToSet(img.runs)
  BY FoundRun DEF Find
<1>4. SessionOfRun(img, id) = old.session
  <2>1. \A x \in Find(img.runs, id) : x = old
    BY <1>3, SameRecord DEF Find
  <2> QED
    BY <2>1 DEF SessionOfRun
<1>5. PICK s \in Nat : s = old.session
  BY <1>3 DEF RunType
<1>6. PICK deliveries \in Seq(DeliveryType) :
        /\ deliveries = OutputDeliveries(id, s, messages, t)
        /\ DOMAIN deliveries = DOMAIN messages
        /\ \A i \in DOMAIN messages : IsOutputDelivery(deliveries[i], <<id, i>>, s, messages[i], t)
  BY OutputDeliveriesAre
<1>7. RunCompleted(img, t, old, run, deliveries, new) /\ IsOutput(s, messages)
  BY <1>2, <1>4, <1>5, <1>6
<1>8. img.runs \in Seq(RunType) /\ img.outbox \in Seq(DeliveryType)
  BY ImageParts
<1>9. /\ new.runs = Put(img.runs, run) /\ new.outbox = img.outbox \o deliveries
      /\ run \in RunType /\ IsDescendant(run, old)
      /\ run.status = "completed" /\ run.finished = {t}
      /\ run.outputs = [i \in DOMAIN deliveries |-> deliveries[i].id]
  BY <1>7 DEF RunCompleted, NextRun
<1>10. GoesOn(img, new)
  <2>1. RunsFollow(new.runs, img.runs)
    BY <1>3, <1>8, <1>9, PutRunGoesOn
  <2>2. Grows(new.outbox, img.outbox)
    BY <1>8, <1>9, ConcatGrows
  <2> QED
    BY <2>1, <2>2, GrownGoesOn DEF GoesOn
<1>11. ToSet(new.outbox) = ToSet(img.outbox) \cup ToSet(deliveries)
  BY <1>8, <1>9, ElementsConcat
<1>12. \A key \in Keys(new.outbox) : key \in Keys(img.outbox) \/ key[1] = id
  <2>1. SUFFICES ASSUME NEW d \in ToSet(deliveries) PROVE d.id[1] = id
    BY <1>11 DEF Keys
  <2>2. PICK i \in DOMAIN messages : d = deliveries[i]
    BY <1>6 DEF ToSet
  <2>3. d.id = <<id, i>>
    BY <1>6, <2>2 DEF IsOutputDelivery
  <2> QED
    BY <2>3
<1>13. VerifiesReplay(new, [run |-> id, messages |-> messages, at |-> t])
  <2>1. run.session = s /\ run.id = id
    BY <1>3, <1>5, <1>9 DEF IsDescendant
  <2>2. run \in Find(new.runs, id)
    <3>1. IsPut(new.runs, img.runs, run)
      BY <1>8, <1>9, PutIs
    <3>2. PICK j \in DOMAIN img.runs : img.runs[j] = old
      BY <1>3 DEF ToSet
    <3>3. j \in DOMAIN new.runs /\ new.runs[j] = run
      BY <1>3, <2>1, <3>1, <3>2 DEF IsPut
    <3> QED
      BY <2>1, <3>3 DEF Find, ToSet
  <2>3. \A e \in ToSet(deliveries) : \E d \in Find(new.outbox, e.id) : SameEnqueue(d, e)
    BY <1>11 DEF Find, SameEnqueue
  <2> QED
    BY <1>6, <1>7, <1>9, <2>1, <2>2, <2>3 DEF VerifiesReplay
<1> QED
  BY <1>10, <1>12, <1>13

(* A completion that is held is held by what follows.                      *)
LEMMA ReplayStands ==
  ASSUME NEW img, NEW new, GoesOn(img, new), NEW c, VerifiesReplay(img, c)
  PROVE  VerifiesReplay(new, c)
<1> DEFINE Expected(run) == OutputDeliveries(c.run, run.session, c.messages, c.at)
           Matches(image, run) ==
             /\ IsOutput(run.session, c.messages)
             /\ run.status = "completed"
             /\ run.finished = {c.at}
             /\ run.outputs = [i \in DOMAIN Expected(run) |-> Expected(run)[i].id]
             /\ \A e \in ToSet(Expected(run)) : \E d \in Find(image.outbox, e.id) : SameEnqueue(d, e)
<1>1. PICK run \in Find(img.runs, c.run) : Matches(img, run)
  BY DEF VerifiesReplay
<1>2. run \in Find(new.runs, c.run)
  <2>1. PICK i \in DOMAIN img.runs : img.runs[i] = run
    BY DEF Find, ToSet
  <2>2. i \in DOMAIN new.runs /\ (new.runs[i] = run \/ IsDescendant(new.runs[i], run))
    BY <2>1 DEF GoesOn, RunsFollow
  <2>3. IsTerminal(run)
    BY <1>1 DEF IsTerminal
  <2>4. new.runs[i] = run
    BY <2>2, <2>3, DescendantIsLater
  <2> QED
    BY <2>2, <2>4 DEF Find, ToSet
<1>3. ASSUME NEW e \in ToSet(Expected(run))
      PROVE  \E d \in Find(new.outbox, e.id) : SameEnqueue(d, e)
  <2>1. PICK d \in Find(img.outbox, e.id) : SameEnqueue(d, e)
    BY <1>1, <1>3
  <2>2. PICK i \in DOMAIN img.outbox : img.outbox[i] = d
    BY DEF Find, ToSet
  <2>3. i \in DOMAIN new.outbox /\ SameEnqueue(new.outbox[i], d)
    BY <2>2 DEF GoesOn, OutboxFollows
  <2>4. SameEnqueue(new.outbox[i], e)
    BY <2>1, <2>3 DEF SameEnqueue
  <2>5. new.outbox[i] \in Find(new.outbox, e.id)
    BY <2>3, <2>4 DEF Find, ToSet, SameEnqueue
  <2> QED
    BY <2>4, <2>5
<1>4. Matches(new, run)
  BY <1>1, <1>3
<1> QED
  BY <1>2, <1>4 DEF VerifiesReplay

(* What was confirmed is held, and nobody else speaks for the agent.       *)
Backed(key) == key[1] \in AgentRun => \E c \in confirmed : c.run = key[1]

OutputsConfirmed(img) == \A key \in Keys(img.outbox) : Backed(key)

Promises(img) == OutputsConfirmed(img) /\ \A c \in confirmed : VerifiesReplay(img, c)

Confirmation == [run : AgentRun, messages : Outputs, at : Nat]

PromisesKept ==
  /\ Typed
  /\ confirmed \subseteq Confirmation
  /\ \A img \in Load(file) : Promises(img)
  /\ \A m \in Embedder : \A s \in snapshot[m] : OutputsConfirmed(s)

LEMMA InitPromises ==
  ASSUME Init
  PROVE  PromisesKept
<1>1. Typed
  BY InitTyped
<1>2. confirmed = {} /\ \A m \in Embedder : snapshot[m] = {}
  BY DEF Init
<1>3. ASSUME NEW img \in Load(file), NEW d \in ToSet(img.outbox) PROVE d.id[1] \notin AgentRun
  <2>1. CASE file = {}
    <3>1. img.outbox = <<>>
      BY <2>1 DEF Load, EmptyImage
    <3> QED
      BY <3>1, ElementsEmpty
  <2>2. CASE file # {}
    <3>1. PICK wire \in file : img \in Parse(wire)
      BY <2>2 DEF Load, LoadForMerge
    <3>2. wire \in Wires
      BY <3>1 DEF Init, Wires
    <3>3. "outbox" \in Collections
      BY TheCollections
    <3>4. IF wire.fields["outbox"].tag = "value" THEN img["outbox"] = wire.fields["outbox"].records
          ELSE img["outbox"] = <<>>
      BY <3>1, <3>3, ReadIsInFull
    <3>5. img.outbox = RecordsOf(wire.fields["outbox"])
      BY <3>4 DEF RecordsOf
    <3>6. d \in Filed("outbox")
      BY <3>2, <3>5 DEF Filed
    <3>7. d.id \in OtherDelivery
      BY <3>6 DEF OtherDelivery
    <3> QED
      BY <3>7, SnapshotAssumption
  <2> QED
    BY <2>1, <2>2
<1> QED
  BY <1>1, <1>2, <1>3 DEF PromisesKept, Promises, OutputsConfirmed, Backed, Keys

(* An image that goes on from another, with the same or more confirmed.    *)
LEMMA PromisesGoOn ==
  ASSUME NEW img, Promises(img), confirmed' = confirmed, NEW new, GoesOn(img, new),
         \A key \in Keys(new.outbox) : Backed(key)
  PROVE  Promises(new)'
BY ReplayStands DEF Promises, OutputsConfirmed, Backed

LEMMA OthersAreBacked ==
  \A key \in OtherDelivery : Backed(key)
BY SnapshotAssumption DEF Backed

LEMMA WrittenPromises ==
  ASSUME PromisesKept, [Next]_vars, NEW new \in ImageType, Stores(new), snapshot' = snapshot,
         confirmed \subseteq confirmed', confirmed' \subseteq Confirmation, Promises(new)'
  PROVE  PromisesKept'
<1>1. Typed'
  BY TypedStays DEF PromisesKept
<1>2. Load(file)' = {new}
  BY WrittenIs
<1>3. ASSUME NEW m \in Embedder, NEW s \in snapshot[m] PROVE OutputsConfirmed(s)'
  BY <1>3 DEF PromisesKept, OutputsConfirmed, Backed
<1> QED
  BY <1>1, <1>2, <1>3 DEF PromisesKept

LEMMA PromisesStay ==
  ASSUME PromisesKept, [Next]_vars
  PROVE  PromisesKept'
<1>1. Typed /\ Typed' /\ now \in Nat
  BY TypedStays DEF PromisesKept, Typed
<1>2. ASSUME NEW img \in Load(file) PROVE img \in ImageType /\ Valid(img) /\ Promises(img)
                                          /\ DistinctIds(img.runs) /\ DistinctIds(img.outbox)
  BY <1>1, LoadedIs, ReadIsValid DEF PromisesKept, Valid, RunsValid, OutboxValid
<1>3. ASSUME NEW existing \in LoadForMerge(file)
      PROVE  existing \in ImageType /\ Valid(existing)
  BY <1>1, LoadedIs, ReadIsValid
<1>4. CASE Passes
  <2>1. ASSUME NEW img \in Load(file)' PROVE Promises(img)'
    <3>1. PICK old \in Load(file) : SameRecords(old, img)
      <4>1. CASE file = {}
        BY <1>4, <4>1 DEF Passes, Load, EmptyImage, SameRecords
      <4>2. CASE file # {}
        BY <1>4, <4>2 DEF Passes, Load, SameRecords
      <4> QED
        BY <4>1, <4>2
    <3>2. GoesOn(old, img) /\ Keys(img.outbox) = Keys(old.outbox)
      BY <3>1, SameGoesOn DEF SameRecords, GoesOn
    <3>3. \A key \in Keys(img.outbox) : Backed(key)
      BY <1>2, <3>2 DEF Promises, OutputsConfirmed
    <3> QED
      BY <1>2, <1>4, <3>2, <3>3, PromisesGoOn DEF Passes
  <2> QED
    BY <1>1, <1>4, <2>1 DEF Passes, PromisesKept, OutputsConfirmed, Backed
<1>5. ASSUME NEW m \in Embedder, NEW img, Loads(m, img) PROVE PromisesKept'
  <2>1. Load(file)' = Load(file)
    BY <1>5 DEF Loads, Load
  <2>2. \A k \in Embedder : snapshot'[k] = IF k = m THEN {img} ELSE snapshot[k]
    BY <1>1, <1>5 DEF Loads, Typed
  <2>3. OutputsConfirmed(img)'
    BY <1>2, <1>5 DEF Loads, Promises, OutputsConfirmed, Backed
  <2>4. \A k \in Embedder : \A s \in snapshot'[k] : OutputsConfirmed(s)'
    BY <1>5, <2>2, <2>3 DEF Loads, PromisesKept, OutputsConfirmed, Backed
  <2>5. \A x \in Load(file)' : Promises(x)'
    BY <1>2, <1>5, <2>1 DEF Loads, Promises, OutputsConfirmed, Backed
  <2> QED
    BY <1>1, <1>5, <2>4, <2>5 DEF Loads, PromisesKept
<1>6. ASSUME NEW m \in Embedder, NEW old, NEW new, Edits(m, old, new) PROVE PromisesKept'
  <2>1. Load(file)' = Load(file)
    BY <1>6 DEF Edits, Load
  <2>2. \A k \in Embedder : snapshot'[k] = IF k = m THEN {new} ELSE snapshot[k]
    BY <1>1, <1>6 DEF Edits, Typed
  <2>3. OutputsConfirmed(new)
    <3>1. old \in ImageType /\ OutputsConfirmed(old)
      BY <1>1, <1>6 DEF Edits, Typed, PromisesKept
    <3>2. Keys(new.outbox) \subseteq Keys(old.outbox) \cup OtherDelivery
      BY <1>6, <3>1, EditedKeys DEF Edits
    <3> QED
      BY <3>1, <3>2, OthersAreBacked DEF OutputsConfirmed
  <2>4. \A k \in Embedder : \A s \in snapshot'[k] : OutputsConfirmed(s)'
    BY <1>6, <2>2, <2>3 DEF Edits, PromisesKept, OutputsConfirmed, Backed
  <2>5. \A x \in Load(file)' : Promises(x)'
    BY <1>2, <1>6, <2>1 DEF Edits, Promises, OutputsConfirmed, Backed
  <2> QED
    BY <1>1, <1>6, <2>4, <2>5 DEF Edits, PromisesKept
<1>7. ASSUME NEW img \in Load(file), NEW existing \in LoadForMerge(file), NEW s \in ImageType,
             OutputsConfirmed(s), Mergeable(existing, s), Stores(Merged(existing, s)),
             Stays, confirmed' = confirmed
      PROVE  PromisesKept'
  <2>1. PICK new \in ImageType : new = Merged(existing, s)
    BY <1>3, MergedIs DEF Merges
  <2>2. GoesOn(existing, new) /\ Keys(new.outbox) \subseteq Keys(existing.outbox) \cup Keys(s.outbox)
    BY <1>3, <1>7, <2>1, MergeGoesOn
  <2>3. SameRecords(img, existing)
    BY <1>1, ReadIsOne DEF Typed
  <2>4. GoesOn(img, new) /\ Keys(new.outbox) \subseteq Keys(img.outbox) \cup Keys(s.outbox)
    BY <2>2, <2>3 DEF GoesOn, SameRecords
  <2>5. \A key \in Keys(new.outbox) : Backed(key)
    BY <1>2, <1>7, <2>4 DEF Promises, OutputsConfirmed
  <2>6. Promises(new)'
    BY <1>2, <1>7, <2>4, <2>5, PromisesGoOn
  <2> QED
    BY <1>7, <2>1, <2>6, WrittenPromises DEF Stays, PromisesKept
<1>8. ASSUME NEW existing \in LoadForMerge(file) PROVE \E img \in Load(file) : TRUE
  BY DEF Load
<1>9. ASSUME NEW m \in Embedder, NEW s, NEW existing, Saves(m, s, existing) PROVE PromisesKept'
  <2>1. s \in ImageType /\ OutputsConfirmed(s) /\ existing \in LoadForMerge(file)
    BY <1>1, <1>9 DEF Saves, Typed, PromisesKept
  <2>2. PICK img \in Load(file) : TRUE
    BY <1>8, <2>1
  <2> QED
    BY <1>7, <1>9, <2>1, <2>2 DEF Saves
<1>10. ASSUME NEW img, NEW new, NEW existing, Receives(img, new, existing) PROVE PromisesKept'
  <2>1. img \in Load(file) /\ existing \in LoadForMerge(file) /\ Edited(img, new)
    BY <1>10 DEF Receives
  <2>2. new \in ImageType
    BY <2>1, EditedType
  <2>3. Keys(new.outbox) \subseteq Keys(img.outbox) \cup OtherDelivery
    BY <1>2, <2>1, EditedKeys
  <2>4. OutputsConfirmed(new)
    BY <1>2, <2>1, <2>3, OthersAreBacked DEF Promises, OutputsConfirmed
  <2> QED
    BY <1>7, <1>10, <2>1, <2>2, <2>4 DEF Receives
<1>11. ASSUME NEW img, NEW new, Updates(img, new) PROVE PromisesKept'
  <2>1. img \in Load(file) /\ Updated(img, new) /\ confirmed' = confirmed
    BY <1>11 DEF Updates
  <2>2. new \in ImageType
    BY <2>1, EditedType
  <2>3. GoesOn(img, new) /\ Keys(new.outbox) \subseteq Keys(img.outbox)
    BY <1>2, <2>1, UpdatedGoesOn
  <2>4. \A key \in Keys(new.outbox) : Backed(key)
    BY <1>2, <2>1, <2>3 DEF Promises, OutputsConfirmed
  <2>5. Promises(new)'
    BY <1>2, <2>1, <2>3, <2>4, PromisesGoOn
  <2> QED
    BY <1>11, <2>2, <2>5, WrittenPromises DEF Updates, Stays, PromisesKept
<1>12. ASSUME NEW img, NEW id, NEW messages, NEW new, Completes(img, id, messages, new)
       PROVE  PromisesKept'
  <2> DEFINE c == [run |-> id, messages |-> messages, at |-> now]
  <2>1. /\ img \in Load(file) /\ id \in AgentRun /\ messages \in Outputs
        /\ CompletedBy(img, id, messages, now, new) /\ confirmed' = confirmed \cup {c}
    BY <1>12 DEF Completes
  <2>2. new \in ImageType
    BY <2>1 DEF CompletedBy, RunCompleted
  <2>3. /\ GoesOn(img, new) /\ VerifiesReplay(new, c)
        /\ \A key \in Keys(new.outbox) : key \in Keys(img.outbox) \/ key[1] = id
    BY <1>1, <1>2, <2>1, CompletionGoesOn
  <2>4. OutputsConfirmed(new)'
    <3>1. SUFFICES ASSUME NEW key \in Keys(new.outbox), key[1] \in AgentRun
                   PROVE  \E x \in confirmed' : x.run = key[1]
      BY DEF OutputsConfirmed, Backed
    <3>2. CASE key[1] = id
      <4>1. c \in confirmed' /\ c.run = id
        BY <2>1
      <4> HIDE DEF c
      <4> QED
        BY <3>2, <4>1
    <3>3. CASE key \in Keys(img.outbox)
      BY <1>2, <2>1, <3>1, <3>3 DEF Promises, OutputsConfirmed, Backed
    <3> QED
      BY <2>3, <3>2, <3>3
  <2>5. \A x \in confirmed' : VerifiesReplay(new, x)
    BY <1>2, <2>1, <2>3, ReplayStands DEF Promises
  <2>6. Promises(new)'
    BY <2>4, <2>5 DEF Promises
  <2>7. confirmed' \subseteq Confirmation
    BY <1>1, <2>1 DEF PromisesKept, Confirmation
  <2> HIDE DEF c
  <2> QED
    BY <1>12, <2>1, <2>2, <2>6, <2>7, WrittenPromises DEF Completes, Stays
<1> QED
  BY <1>1, <1>4, <1>5, <1>6, <1>9, <1>10, <1>11, <1>12, StepShape

(* The outputs of a run determine the completion that was called.          *)
LEMMA SameCompletion ==
  ASSUME NEW img \in ImageType, Valid(img), NEW c \in Confirmation, NEW messages \in Outputs,
         VerifiesReplay(img, c), VerifiesReplay(img, [c EXCEPT !.messages = messages])
  PROVE  messages = c.messages
<1>1. PICK d : d = [c EXCEPT !.messages = messages]
  OBVIOUS
<1>2. d.run = c.run /\ d.at = c.at /\ d.messages = messages
  BY <1>1 DEF Confirmation
<1>3. c.run \in AgentRun /\ c.messages \in Outputs /\ c.at \in Nat
  BY DEF Confirmation
<1>4. PICK run \in Find(img.runs, c.run) :
        LET expected == OutputDeliveries(c.run, run.session, c.messages, c.at)
        IN /\ IsOutput(run.session, c.messages)
           /\ run.outputs = [i \in DOMAIN expected |-> expected[i].id]
           /\ \A e \in ToSet(expected) : \E x \in Find(img.outbox, e.id) : SameEnqueue(x, e)
  BY DEF VerifiesReplay
<1>5. PICK other \in Find(img.runs, c.run) :
        LET expected == OutputDeliveries(c.run, other.session, messages, c.at)
        IN /\ IsOutput(other.session, messages)
           /\ other.outputs = [i \in DOMAIN expected |-> expected[i].id]
           /\ \A e \in ToSet(expected) : \E x \in Find(img.outbox, e.id) : SameEnqueue(x, e)
  <2>1. VerifiesReplay(img, d)
    BY <1>1
  <2>2. PICK other \in Find(img.runs, d.run) :
          LET expected == OutputDeliveries(d.run, other.session, d.messages, d.at)
          IN /\ IsOutput(other.session, d.messages)
             /\ other.outputs = [i \in DOMAIN expected |-> expected[i].id]
             /\ \A e \in ToSet(expected) : \E x \in Find(img.outbox, e.id) : SameEnqueue(x, e)
    BY <2>1 DEF VerifiesReplay
  <2> QED
    BY <1>2, <2>2
<1>6. run = other
  BY SameRecord DEF Find, Valid, RunsValid
<1>7. PICK s \in Nat : s = run.session
  <2>1. run \in RunType
    BY FoundRun
  <2> QED
    BY <2>1 DEF RunType
<1>8. PICK a \in Seq(DeliveryType) :
        /\ a = OutputDeliveries(c.run, s, c.messages, c.at)
        /\ DOMAIN a = DOMAIN c.messages
        /\ \A i \in DOMAIN c.messages : IsOutputDelivery(a[i], <<c.run, i>>, s, c.messages[i], c.at)
  BY <1>3, OutputDeliveriesAre
<1>9. PICK b \in Seq(DeliveryType) :
        /\ b = OutputDeliveries(c.run, s, messages, c.at)
        /\ DOMAIN b = DOMAIN messages
        /\ \A i \in DOMAIN messages : IsOutputDelivery(b[i], <<c.run, i>>, s, messages[i], c.at)
  BY <1>3, OutputDeliveriesAre
<1>10. /\ IsOutput(s, c.messages) /\ run.outputs = [i \in DOMAIN a |-> a[i].id]
       /\ \A e \in ToSet(a) : \E x \in Find(img.outbox, e.id) : SameEnqueue(x, e)
  BY <1>4, <1>7, <1>8
<1>11. /\ IsOutput(s, messages) /\ run.outputs = [i \in DOMAIN b |-> b[i].id]
       /\ \A e \in ToSet(b) : \E x \in Find(img.outbox, e.id) : SameEnqueue(x, e)
  BY <1>5, <1>6, <1>7, <1>9
<1>12. DOMAIN a = DOMAIN b
  BY <1>10, <1>11
<1>13. ASSUME NEW i \in DOMAIN messages PROVE messages[i] = c.messages[i]
  <2>1. i \in DOMAIN a /\ i \in DOMAIN b
    BY <1>8, <1>9, <1>12
  <2>2. a[i].id = <<c.run, i>> /\ b[i].id = <<c.run, i>>
        /\ a[i].body = c.messages[i].body /\ b[i].body = messages[i].body
    <3>1. a[i] = [id |-> <<c.run, i>>, session |-> s, author |-> "agent", body |-> c.messages[i].body,
                  status |-> "pending", created |-> c.at, updated |-> c.at,
                  attempts |-> 0, delivered |-> {}, error |-> FALSE]
      BY <1>8, <2>1 DEF IsOutputDelivery
    <3>2. b[i] = [id |-> <<c.run, i>>, session |-> s, author |-> "agent", body |-> messages[i].body,
                  status |-> "pending", created |-> c.at, updated |-> c.at,
                  attempts |-> 0, delivered |-> {}, error |-> FALSE]
      BY <1>9, <2>1 DEF IsOutputDelivery
    <3> QED
      BY <3>1, <3>2
  <2>3. PICK x \in Find(img.outbox, a[i].id) : SameEnqueue(x, a[i])
    BY <1>10, <2>1 DEF ToSet
  <2>4. PICK y \in Find(img.outbox, b[i].id) : SameEnqueue(y, b[i])
    BY <1>11, <2>1 DEF ToSet
  <2>5. x = y
    <3>1. x \in ToSet(img.outbox) /\ x.id = <<c.run, i>>
      BY <2>2 DEF Find
    <3>2. y \in ToSet(img.outbox) /\ y.id = <<c.run, i>>
      BY <2>2 DEF Find
    <3>3. y \in Find(img.outbox, x.id)
      BY <3>1, <3>2 DEF Find
    <3>4. DistinctIds(img.outbox)
      BY DEF Valid, OutboxValid
    <3> QED
      BY <3>1, <3>3, <3>4, SameRecord
  <2>6. messages[i].body = c.messages[i].body
    BY <2>2, <2>3, <2>4, <2>5 DEF SameEnqueue
  <2>7. messages \in Seq(AnswerType) /\ c.messages \in Seq(AnswerType)
    BY <1>3, OutputsType
  <2>8. messages[i] \in AnswerType /\ c.messages[i] \in AnswerType
    BY <1>8, <2>1, <2>7, ElementOfSeq, LenProperties
  <2>9. /\ messages[i].author = "agent" /\ messages[i].session = s
        /\ c.messages[i].author = "agent" /\ c.messages[i].session = s
    BY <1>8, <1>9, <1>10, <1>11, <2>1 DEF IsOutput, ToSet
  <2> QED
    BY <2>6, <2>8, <2>9 DEF AnswerType
<1>14. messages \in Seq(AnswerType) /\ c.messages \in Seq(AnswerType)
  BY <1>3, OutputsType
<1>15. DOMAIN messages = DOMAIN c.messages
  BY <1>8, <1>9, <1>12
<1>16. Len(messages) = Len(c.messages)
  BY <1>14, <1>15, LenProperties
<1> QED
  BY <1>13, <1>14, <1>15, <1>16, SeqEqual

LEMMA PromisesImply ==
  ASSUME PromisesKept
  PROVE  ConfirmedCompletionStands
<1>1. SUFFICES ASSUME NEW img \in Load(file)
               PROVE  /\ \A c \in confirmed : VerifiesReplay(img, c)
                      /\ \A c \in confirmed, messages \in Outputs :
                           VerifiesReplay(img, [c EXCEPT !.messages = messages]) => messages = c.messages
                      /\ \A d \in ToSet(img.outbox) :
                           d.id[1] \in AgentRun => \E c \in confirmed : c.run = d.id[1]
  BY DEF ConfirmedCompletionStands
<1>2. img \in ImageType /\ Valid(img) /\ Promises(img) /\ confirmed \subseteq Confirmation
  BY LoadedIs, ReadIsValid DEF PromisesKept, Typed
<1>3. \A c \in confirmed : VerifiesReplay(img, c)
  BY <1>2 DEF Promises
<1>4. \A c \in confirmed, messages \in Outputs :
        VerifiesReplay(img, [c EXCEPT !.messages = messages]) => messages = c.messages
  BY <1>2, <1>3, SameCompletion
<1>5. \A d \in ToSet(img.outbox) : d.id[1] \in AgentRun => \E c \in confirmed : c.run = d.id[1]
  BY <1>2 DEF Promises, OutputsConfirmed, Backed, Keys
<1> QED
  BY <1>3, <1>4, <1>5

-----------------------------------------------------------------------------
(* Validity, by what the operations and the merge have in common: the      *)
(* ledger and the outbox grow at their ends, messages join the queue.      *)
LEMMA LedgerGrown ==
  ASSUME NEW img, NEW new, Grows(new.ledger, img.ledger), DistinctIds(new.ledger),
         NEW id, Has(img.ledger, id)
  PROVE  Has(new.ledger, id) /\ Position(new, id) = Position(img, id)
<1>1. PICK i \in DOMAIN img.ledger : i = Position(img, id) /\ img.ledger[i].id = id
  BY PositionOf
<1>2. i \in DOMAIN new.ledger /\ new.ledger[i].id = id
  BY <1>1 DEF Grows
<1> QED
  BY <1>1, <1>2, PositionIs DEF Has

LEMMA MatchIsKept ==
  ASSUME NEW img, NEW new, Grows(new.ledger, img.ledger), NEW m, MatchesLedger(img, m)
  PROVE  MatchesLedger(new, m)
<1>1. PICK e \in Find(img.ledger, m.id) : m.received = e.received /\ m.enqueued >= e.recorded
  BY DEF MatchesLedger
<1>2. e \in Find(new.ledger, m.id)
  BY <1>1 DEF Find, ToSet, Grows
<1> QED
  BY <1>1, <1>2 DEF MatchesLedger

LEMMA MatchIsFiled ==
  ASSUME NEW img, NEW m, MatchesLedger(img, m)
  PROVE  Has(img.ledger, m.id)
BY DEF MatchesLedger, Find, Has, ToSet

(* Times do not go back along seq, nor places in the ledger.               *)
InOrder(img, seq) ==
  \A i, j \in DOMAIN seq : i < j =>
    /\ seq[i].enqueued <= seq[j].enqueued
    /\ Position(img, seq[i].id) < Position(img, seq[j].id)

(* What validation asks of the messages, waiting and claimed, except that  *)
(* none joined the queue after the image was changed last.                 *)
Lined(img) ==
  /\ DistinctIds(img.queue)
  /\ \A m \in ToSet(img.queue) : MessageWellFormed(m) /\ Has(img.sessions, m.session)
  /\ \A m \in ToSet(img.queue) \cup Claimed(img) : MatchesLedger(img, m)
  /\ Increasing([i \in DOMAIN img.queue |-> Position(img, img.queue[i].id)])
  /\ ClaimedOnce(img)
  /\ \A s : InOrder(img, OwnershipOf(img, s))

LEMMA OwnerIsListed ==
  ASSUME NEW img \in ImageType, InputsValid(img), NEW s, NEW i \in DOMAIN OwnershipOf(img, s)
  PROVE  s \in SessionsIn(img.queue) \cup {img.inputs[k].session : k \in DOMAIN img.inputs}
<1>1. PICK m : m = OwnershipOf(img, s)[i]
  OBVIOUS
<1>2. m \in ToSet(img.queue) \cup Claimed(img) /\ m.session = s
  <2>1. img.inputs \in Seq(InputType) /\ img.queue \in Seq(MessageType)
    BY ImageParts
  <2>2. ToSet(OwnershipOf(img, s)) = {n \in ToSet(img.queue) \cup Claimed(img) : n.session = s}
    BY <2>1, OwnershipIs
  <2>3. m \in ToSet(OwnershipOf(img, s))
    BY <1>1 DEF ToSet
  <2> QED
    BY <2>2, <2>3
<1>3. CASE m \in ToSet(img.queue)
  BY <1>2, <1>3 DEF ToSet, SessionsIn
<1>4. CASE m \in Claimed(img)
  <2>1. PICK k \in DOMAIN img.inputs : m \in ToSet(img.inputs[k].messages)
    BY <1>4 DEF Claimed
  <2>2. img.inputs[k] \in ToSet(img.inputs)
    BY DEF ToSet
  <2>3. m.session = img.inputs[k].session
    BY <2>1, <2>2 DEF InputsValid, InputWellFormed
  <2> QED
    BY <1>2, <2>3
<1> QED
  BY <1>2, <1>3, <1>4

LEMMA ValidIsLined ==
  ASSUME NEW img \in ImageType, Valid(img)
  PROVE  Lined(img)
<1>1. QueueValid(img) /\ InputsValid(img) /\ OwnershipValid(img)
  BY DEF Valid
<1>2. ASSUME NEW s PROVE InOrder(img, OwnershipOf(img, s))
  <2>1. PICK owned : owned = OwnershipOf(img, s)
    OBVIOUS
  <2>2. ASSUME NEW i \in DOMAIN owned, NEW j \in DOMAIN owned, i < j
        PROVE  /\ owned[i].enqueued <= owned[j].enqueued
               /\ Position(img, owned[i].id) < Position(img, owned[j].id)
    <3>1. s \in SessionsIn(img.queue) \cup {img.inputs[k].session : k \in DOMAIN img.inputs}
      BY <1>1, <2>1, OwnerIsListed
    <3>2. /\ NonDecreasing([k \in DOMAIN owned |-> owned[k].enqueued])
          /\ Increasing([k \in DOMAIN owned |-> Position(img, owned[k].id)])
      BY <1>1, <2>1, <3>1 DEF OwnershipValid
    <3> QED
      BY <2>2, <3>2 DEF NonDecreasing, Increasing
  <2> QED
    BY <2>1, <2>2 DEF InOrder
<1>3. ASSUME NEW m \in Claimed(img) PROVE MatchesLedger(img, m)
  BY <1>1, <1>3 DEF Claimed, InputsValid, ToSet
<1> QED
  BY <1>1, <1>2, <1>3 DEF Lined, QueueValid, InputsValid

LEMMA LinedIsValid ==
  ASSUME NEW img \in ImageType, Lined(img), \A m \in ToSet(img.queue) : m.enqueued <= img.updated
  PROVE  QueueValid(img) /\ OwnershipValid(img)
<1>1. QueueValid(img)
  BY DEF Lined, QueueValid
<1>2. ASSUME NEW s, NEW owned, owned = OwnershipOf(img, s)
      PROVE  /\ NonDecreasing([i \in DOMAIN owned |-> owned[i].enqueued])
             /\ Increasing([i \in DOMAIN owned |-> Position(img, owned[i].id)])
  <2>1. InOrder(img, owned)
    BY <1>2 DEF Lined
  <2> QED
    BY <2>1 DEF InOrder, NonDecreasing, Increasing
<1> QED
  BY <1>1, <1>2 DEF OwnershipValid

(* The places of the messages do not depend on the entries behind.         *)
LEMMA LinedGrows ==
  ASSUME NEW img \in ImageType, Lined(img), NEW new \in ImageType,
         new.queue = img.queue, new.inputs = img.inputs,
         Grows(new.ledger, img.ledger), DistinctIds(new.ledger),
         \A id : Has(img.sessions, id) => Has(new.sessions, id)
  PROVE  Lined(new)
<1>1. Claimed(new) = Claimed(img) /\ \A s : OwnershipOf(new, s) = OwnershipOf(img, s)
  BY DEF Claimed, OwnershipOf
<1>2. ASSUME NEW m \in ToSet(img.queue) \cup Claimed(img)
      PROVE  MatchesLedger(new, m) /\ Position(new, m.id) = Position(img, m.id)
  <2>1. MatchesLedger(img, m)
    BY DEF Lined
  <2> QED
    BY <2>1, MatchIsKept, MatchIsFiled, LedgerGrown
<1>3. ASSUME NEW s PROVE InOrder(new, OwnershipOf(new, s))
  <2>1. PICK owned : owned = OwnershipOf(img, s) /\ owned = OwnershipOf(new, s)
    BY <1>1
  <2>2. ASSUME NEW i \in DOMAIN owned PROVE owned[i] \in ToSet(img.queue) \cup Claimed(img)
    <3>1. img.inputs \in Seq(InputType) /\ img.queue \in Seq(MessageType)
      BY ImageParts
    <3>2. ToSet(owned) \subseteq ToSet(img.queue) \cup Claimed(img)
      BY <2>1, <3>1, OwnershipIs
    <3> QED
      BY <3>2 DEF ToSet
  <2>3. InOrder(img, owned)
    BY <2>1 DEF Lined
  <2>4. InOrder(new, owned)
    BY <1>2, <2>2, <2>3 DEF InOrder
  <2> QED
    BY <2>1, <2>4
<1>4. Increasing([i \in DOMAIN new.queue |-> Position(new, new.queue[i].id)])
  <2>1. \A i \in DOMAIN img.queue : img.queue[i] \in ToSet(img.queue)
    BY DEF ToSet
  <2> QED
    BY <1>2, <2>1 DEF Lined, Increasing
<1>5. ClaimedOnce(new)
  BY SameClaims DEF Lined
<1> QED
  BY <1>1, <1>2, <1>3, <1>4, <1>5 DEF Lined

(* A message that joins the queue comes behind all that are there.         *)
LEMMA LinedJoins ==
  ASSUME NEW img \in ImageType, Lined(img), NEW new \in ImageType,
         new.inputs = img.inputs, new.ledger = img.ledger, new.sessions = img.sessions,
         NEW m \in MessageType, new.queue = Append(img.queue, m),
         MessageWellFormed(m), Has(img.sessions, m.session), MatchesLedger(img, m),
         \A x \in ToSet(img.queue) \cup Claimed(img) : Position(img, x.id) < Position(img, m.id),
         \A x \in ToSet(OwnershipOf(img, m.session)) : x.enqueued <= m.enqueued
  PROVE  Lined(new)
<1>1. img.inputs \in Seq(InputType) /\ img.queue \in Seq(MessageType) /\ img.ledger \in Seq(EntryType)
  BY ImageParts
<1> DEFINE n == Len(img.queue)
           q == new.queue
<1>2. /\ n \in Nat /\ DOMAIN img.queue = 1..n /\ DOMAIN q = 1..(n + 1)
      /\ q[n + 1] = m /\ \A i \in 1..n : q[i] = img.queue[i]
  BY <1>1, PositionsAppend
<1>3. ToSet(q) = ToSet(img.queue) \cup {m} /\ Claimed(new) = Claimed(img)
  BY <1>1, <1>2, ElementsAppend DEF Claimed
<1>4. \A id : Position(new, id) = Position(img, id)
  BY DEF Position
<1>5. \A x : MatchesLedger(new, x) <=> MatchesLedger(img, x)
  BY DEF MatchesLedger
<1>6. \A x \in ToSet(img.queue) \cup Claimed(img) :
        Position(img, x.id) \in Nat /\ Position(img, m.id) \in Nat /\ x.id # m.id
  <2>1. ASSUME NEW x, MatchesLedger(img, x) PROVE Position(img, x.id) \in Nat
    <3>1. Position(img, x.id) \in DOMAIN img.ledger
      BY <2>1, MatchIsFiled, PositionOf
    <3> QED
      BY <1>1, <3>1, LenProperties
  <2>2. \A x \in ToSet(img.queue) \cup Claimed(img) : Position(img, x.id) \in Nat
    BY <2>1 DEF Lined
  <2>3. Position(img, m.id) \in Nat
    BY <2>1
  <2> QED
    BY <2>2, <2>3
<1>7. \A i \in 1..n : img.queue[i] \in ToSet(img.queue)
  BY <1>2 DEF ToSet
<1>8. DistinctIds(q)
  <2>1. ASSUME NEW i \in 1..(n + 1), NEW j \in 1..(n + 1), q[i].id = q[j].id PROVE i = j
    <3>1. CASE i \in 1..n /\ j \in 1..n
      BY <1>2, <2>1, <3>1 DEF Lined, DistinctIds
    <3>2. CASE i = n + 1 /\ j \in 1..n
      BY <1>2, <1>6, <1>7, <2>1, <3>2
    <3>3. CASE i \in 1..n /\ j = n + 1
      BY <1>2, <1>6, <1>7, <2>1, <3>3
    <3>4. CASE i = n + 1 /\ j = n + 1
      BY <3>4
    <3> QED
      BY <3>1, <3>2, <3>3, <3>4
  <2> QED
    BY <1>2, <2>1 DEF DistinctIds
<1>9. Increasing([i \in DOMAIN q |-> Position(new, q[i].id)])
  <2>1. ASSUME NEW i \in 1..(n + 1), NEW j \in 1..(n + 1), i < j
        PROVE  Position(img, q[i].id) < Position(img, q[j].id)
    <3>1. i \in 1..n
      BY <2>1
    <3>2. CASE j = n + 1
      BY <1>2, <1>7, <3>1, <3>2
    <3>3. CASE j # n + 1
      <4>1. j \in 1..n
        BY <3>3
      <4> QED
        BY <1>2, <2>1, <3>1, <4>1 DEF Lined, Increasing
    <3> QED
      BY <3>2, <3>3
  <2> QED
    BY <1>2, <1>4, <2>1 DEF Increasing
<1>10. ClaimedOnce(new)
  <2>1. ClaimedOnce(img)
    BY DEF Lined
  <2>2. \A x \in Claimed(img) : ~Has(q, x.id)
    <3>1. ASSUME NEW x \in Claimed(img), NEW i \in 1..(n + 1), q[i].id = x.id PROVE FALSE
      <4>1. CASE i = n + 1
        BY <1>2, <1>6, <3>1, <4>1
      <4>2. CASE i \in 1..n
        BY <1>2, <2>1, <3>1, <4>2 DEF ClaimedOnce, Has
      <4> QED
        BY <4>1, <4>2
    <3> QED
      BY <1>2, <3>1 DEF Has
  <2> QED
    BY <1>2, <1>3, <2>1, <2>2 DEF ClaimedOnce
<1>11. ASSUME NEW s PROVE InOrder(new, OwnershipOf(new, s))
  <2>1. PICK owned : owned = OwnershipOf(img, s) /\ owned \in Seq(MessageType)
    BY <1>1, OwnershipIs
  <2>2. InOrder(img, owned)
    BY <2>1 DEF Lined
  <2>3. OwnershipOf(new, s) = IF m.session = s THEN Append(owned, m) ELSE owned
    <3>1. OwnershipOf(new, s) = IF m.session = s THEN Append(OwnershipOf(img, s), m)
                                ELSE OwnershipOf(img, s)
      <4>1. img.inputs \in Seq(InputType) /\ img.queue \in Seq(MessageType)
        BY <1>1
      <4>2. new.queue = Append(img.queue, m) /\ new.inputs = img.inputs
        OBVIOUS
      <4> HIDE DEF n, q
      <4> QED
        BY <4>1, <4>2, OwnershipAfterArrival
    <3> QED
      BY <2>1, <3>1
  <2>4. CASE m.session # s
    BY <1>4, <2>2, <2>3, <2>4 DEF InOrder
  <2>5. CASE m.session = s
    <3> DEFINE k == Len(owned)
               longer == Append(owned, m)
    <3>1. /\ k \in Nat /\ DOMAIN owned = 1..k /\ DOMAIN longer = 1..(k + 1)
          /\ longer[k + 1] = m /\ \A i \in 1..k : longer[i] = owned[i]
      BY <2>1, PositionsAppend
    <3> HIDE DEF k, longer
    <3>2. ASSUME NEW i \in 1..k
          PROVE  owned[i].enqueued <= m.enqueued /\ Position(img, owned[i].id) < Position(img, m.id)
      <4>1. owned[i] \in ToSet(owned)
        BY <3>1 DEF ToSet
      <4>2. ToSet(owned) \subseteq ToSet(img.queue) \cup Claimed(img)
        BY <1>1, <2>1, OwnershipIs
      <4> QED
        BY <2>1, <2>5, <4>1, <4>2
    <3>3. ASSUME NEW i \in 1..(k + 1), NEW j \in 1..(k + 1), i < j
          PROVE  /\ longer[i].enqueued <= longer[j].enqueued
                 /\ Position(img, longer[i].id) < Position(img, longer[j].id)
      <4>1. i \in 1..k
        BY <3>1, <3>3
      <4>2. CASE j = k + 1
        BY <3>1, <3>2, <4>1, <4>2
      <4>3. CASE j # k + 1
        <5>1. j \in 1..k
          BY <3>1, <4>3
        <5> QED
          BY <2>2, <3>1, <3>3, <4>1, <5>1 DEF InOrder
      <4> QED
        BY <4>2, <4>3
    <3>4. InOrder(new, longer)
      BY <1>4, <3>1, <3>3 DEF InOrder
    <3> QED
      BY <2>3, <2>5, <3>4 DEF longer
  <2> QED
    BY <2>4, <2>5
<1>12. \A x \in ToSet(q) : MessageWellFormed(x) /\ Has(new.sessions, x.session)
  BY <1>3 DEF Lined
<1>13. \A x \in ToSet(q) \cup Claimed(new) : MatchesLedger(new, x)
  BY <1>3, <1>5 DEF Lined
<1> QED
  BY <1>2, <1>8, <1>9, <1>10, <1>11, <1>12, <1>13 DEF Lined

-----------------------------------------------------------------------------
(* What an operation has to see to, so that a valid image stays valid.     *)

(* The parts that it does not touch.                                       *)
LEMMA PartsGoOn ==
  ASSUME NEW img \in ImageType, Valid(img), NEW new \in ImageType, new.updated >= img.updated,
         \A id : Has(img.sessions, id) => Has(new.sessions, id)
  PROVE  /\ new.sessions = img.sessions => SessionsValid(new)
         /\ new.runs = img.runs => RunsValid(new)
         /\ new.ledger = img.ledger => LedgerValid(new)
         /\ new.outbox = img.outbox => OutboxValid(new)
<1>1. /\ img.sessions \in Seq(SessionType) /\ img.runs \in Seq(RunType)
      /\ img.ledger \in Seq(EntryType) /\ img.outbox \in Seq(DeliveryType)
      /\ img.updated \in Nat /\ new.updated \in Nat
  BY ImageParts
<1>2. /\ \A x \in ToSet(img.sessions) : x.updated \in Nat
      /\ \A x \in ToSet(img.runs) : x.updated \in Nat
      /\ \A x \in ToSet(img.ledger) : x.recorded \in Nat
      /\ \A x \in ToSet(img.outbox) : x.updated \in Nat
  <2>1. /\ ToSet(img.sessions) \subseteq SessionType /\ ToSet(img.runs) \subseteq RunType
        /\ ToSet(img.ledger) \subseteq EntryType /\ ToSet(img.outbox) \subseteq DeliveryType
    BY <1>1, ElementsType
  <2> QED
    BY <2>1 DEF SessionType, RunType, EntryType, DeliveryType
<1>3. new.sessions = img.sessions => SessionsValid(new)
  BY <1>1, <1>2 DEF Valid, SessionsValid
<1>4. ASSUME new.runs = img.runs PROVE RunsValid(new)
  <2>1. \A x \in ToSet(img.runs) :
          RunWellFormed(x) /\ Has(img.sessions, x.session) /\ x.updated <= img.updated
    BY DEF Valid, RunsValid
  <2>2. \A x \in ToSet(new.runs) :
          RunWellFormed(x) /\ Has(new.sessions, x.session) /\ x.updated <= new.updated
    BY <1>1, <1>2, <1>4, <2>1
  <2> QED
    BY <1>4, <2>2 DEF Valid, RunsValid
<1>5. new.ledger = img.ledger => LedgerValid(new)
  BY <1>1, <1>2 DEF Valid, LedgerValid
<1>6. new.outbox = img.outbox => OutboxValid(new)
  BY <1>1, <1>2 DEF Valid, OutboxValid
<1> QED
  BY <1>3, <1>4, <1>5, <1>6

(* Runs that bring no outputs.                                             *)
LEMMA RunsGoOn ==
  ASSUME NEW img, RunsValid(img), NEW new, DistinctIds(new.runs),
         \A run \in ToSet(new.runs) :
           /\ RunWellFormed(run) /\ Has(new.sessions, run.session) /\ run.updated <= new.updated
           /\ run \in ToSet(img.runs) \/ run.outputs = <<>>,
         \A q, r \in ToSet(new.runs) :
           q.session = r.session /\ ~IsTerminal(q) /\ ~IsTerminal(r) => q = r
  PROVE  RunsValid(new)
<1>1. ASSUME NEW q \in ToSet(new.runs), NEW r \in ToSet(new.runs), q # r
      PROVE  ToSet(q.outputs) \cap ToSet(r.outputs) = {}
  <2>1. CASE q.outputs = <<>> \/ r.outputs = <<>>
    BY <2>1, ElementsEmpty
  <2>2. CASE q \in ToSet(img.runs) /\ r \in ToSet(img.runs)
    BY <1>1, <2>2 DEF RunsValid
  <2> QED
    BY <2>1, <2>2
<1> QED
  BY <1>1 DEF RunsValid

LEMMA OutputsGoOn ==
  ASSUME NEW img, OutputsValid(img), NEW new,
         \A run \in ToSet(new.runs) : run \in ToSet(img.runs) \/ run.outputs = <<>>,
         ToSet(img.outbox) \subseteq ToSet(new.outbox)
  PROVE  OutputsValid(new)
<1>1. ASSUME NEW run \in ToSet(new.runs), NEW id \in ToSet(run.outputs)
      PROVE  \E d \in Find(new.outbox, id) :
               d.session = run.session /\ d.author = "agent" /\ run.finished = {d.created}
  <2>1. run \in ToSet(img.runs)
    BY <1>1, ElementsEmpty
  <2>2. PICK d \in Find(img.outbox, id) :
               d.session = run.session /\ d.author = "agent" /\ run.finished = {d.created}
    BY <1>1, <2>1 DEF OutputsValid
  <2>3. d \in Find(new.outbox, id)
    BY <2>2 DEF Find
  <2> QED
    BY <2>2, <2>3
<1> QED
  BY <1>1 DEF OutputsValid

(* The run of an input may go on, and the ledger grow.                     *)
LEMMA InputsGoOn ==
  ASSUME NEW img, InputsValid(img), NEW new, new.inputs = img.inputs,
         Grows(new.ledger, img.ledger), ClaimedOnce(new),
         \A input \in ToSet(img.inputs) : input.claimed <= new.updated,
         \A x \in ToSet(img.runs) : \E run \in Find(new.runs, x.id) :
           run.session = x.session /\ run.created = x.created
  PROVE  InputsValid(new)
<1>1. ASSUME NEW input \in ToSet(new.inputs)
      PROVE  /\ InputWellFormed(input) /\ input.claimed <= new.updated
             /\ \E run \in Find(new.runs, input.id) :
                  run.session = input.session /\ run.created = input.claimed
             /\ \A m \in ToSet(input.messages) : MatchesLedger(new, m)
  <2>1. PICK x \in Find(img.runs, input.id) :
               x.session = input.session /\ x.created = input.claimed
    BY <1>1 DEF InputsValid
  <2>2. \E run \in Find(new.runs, input.id) :
               run.session = input.session /\ run.created = input.claimed
    BY <2>1 DEF Find
  <2>3. \A m \in ToSet(input.messages) : MatchesLedger(new, m)
    BY <1>1, MatchIsKept DEF InputsValid
  <2> QED
    BY <1>1, <2>2, <2>3 DEF InputsValid
<1>2. DistinctIds(new.inputs)
  BY DEF InputsValid
<1> QED
  BY <1>1, <1>2 DEF InputsValid

LEMMA InputsAreBy ==
  ASSUME NEW img \in ImageType, InputsValid(img), NEW t \in Nat, t >= img.updated
  PROVE  \A input \in ToSet(img.inputs) : input.claimed <= t
<1>1. ToSet(img.inputs) \subseteq InputType /\ img.updated \in Nat
  BY ImageParts, ElementsType
<1> QED
  BY <1>1 DEF InputsValid, InputType

LEMMA QueueIsBy ==
  ASSUME NEW img \in ImageType, QueueValid(img), NEW t \in Nat, t >= img.updated
  PROVE  \A m \in ToSet(img.queue) : m.enqueued <= t
<1>1. ToSet(img.queue) \subseteq MessageType /\ img.updated \in Nat
  BY ImageParts, ElementsType
<1> QED
  BY <1>1 DEF QueueValid, MessageType

(* The ledger, the inputs and the queue stay: so do their validities.      *)
LEMMA MessagesGoOn ==
  ASSUME NEW img \in ImageType, Valid(img), NEW new \in ImageType, new.updated >= img.updated,
         \A id : Has(img.sessions, id) => Has(new.sessions, id),
         new.ledger = img.ledger, new.inputs = img.inputs, new.queue = img.queue,
         \A x \in ToSet(img.runs) : \E run \in Find(new.runs, x.id) :
           run.session = x.session /\ run.created = x.created
  PROVE  LedgerValid(new) /\ InputsValid(new) /\ QueueValid(new) /\ OwnershipValid(new)
<1>1. Grows(new.ledger, img.ledger) /\ DistinctIds(new.ledger)
  BY DEF Grows, Valid, LedgerValid
<1>2. LedgerValid(new)
  BY PartsGoOn
<1>3. new.updated \in Nat
  BY ImageParts
<1>4. \A input \in ToSet(img.inputs) : input.claimed <= new.updated
  BY <1>3, InputsAreBy DEF Valid
<1>5. ClaimedOnce(new)
  BY SameClaims DEF Valid, InputsValid
<1>6. InputsValid(new)
  BY <1>1, <1>4, <1>5, InputsGoOn DEF Valid
<1>7. Lined(new)
  BY <1>1, ValidIsLined, LinedGrows
<1>8. \A m \in ToSet(new.queue) : m.enqueued <= new.updated
  BY <1>3, QueueIsBy DEF Valid
<1> QED
  BY <1>2, <1>6, <1>7, <1>8, LinedIsValid

LEMMA SameRuns ==
  ASSUME NEW img, NEW new, new.runs = img.runs, NEW x \in ToSet(img.runs)
  PROVE  \E run \in Find(new.runs, x.id) : run.session = x.session /\ run.created = x.created
  BY DEF Find

-----------------------------------------------------------------------------
(* The edits of a valid copy leave it valid.                               *)

LEMMA SessionKeptValid ==
  ASSUME NEW img \in ImageType, Valid(img), NEW new, SessionKept(img, new)
  PROVE  Valid(new)
<1>1. /\ new \in ImageType /\ new.updated >= img.updated
      /\ \A id : Has(img.sessions, id) => Has(new.sessions, id)
      /\ new.runs = img.runs /\ new.inputs = img.inputs /\ new.ledger = img.ledger
      /\ new.queue = img.queue /\ new.outbox = img.outbox
      /\ SessionsValid(new)
  BY DEF SessionKept, Valid
<1>2. RunsValid(new) /\ OutboxValid(new)
  BY <1>1, PartsGoOn
<1>3. OutputsValid(new)
  BY <1>1, OutputsGoOn DEF Valid
<1>4. LedgerValid(new) /\ InputsValid(new) /\ QueueValid(new) /\ OwnershipValid(new)
  BY <1>1, SameRuns, MessagesGoOn
<1> QED
  BY <1>1, <1>2, <1>3, <1>4 DEF Valid

LEMMA NewRunIsWellFormed ==
  ASSUME NEW id, NEW s, NEW t \in Nat
  PROVE  /\ RunWellFormed(NewRun(id, s, t)) /\ ~IsTerminal(NewRun(id, s, t))
         /\ NewRun(id, s, t).outputs = <<>> /\ NewRun(id, s, t).session = s
         /\ NewRun(id, s, t).updated = t /\ NewRun(id, s, t).id = id
  BY DEF NewRun, RunWellFormed, IsTerminal, IsInjective, NotBefore

LEMMA RunAddedValid ==
  ASSUME NEW img \in ImageType, Valid(img), NEW id, NEW s, NEW t \in Nat,
         NEW new, RunAdded(img, t, NewRun(id, s, t), new)
  PROVE  Valid(new)
<1>1. PICK run : run = NewRun(id, s, t)
  OBVIOUS
<1>2. /\ RunWellFormed(run) /\ ~IsTerminal(run) /\ run.outputs = <<>> /\ run.updated = t
  BY <1>1, NewRunIsWellFormed
<1>3. /\ new \in ImageType /\ new.updated >= img.updated /\ new.updated >= t
      /\ run \in RunType /\ Has(img.sessions, run.session) /\ ~Has(img.runs, run.id)
      /\ \A old \in ToSet(img.runs) : old.session = run.session => IsTerminal(old)
      /\ new.runs = Append(img.runs, run)
      /\ new.sessions = img.sessions /\ new.inputs = img.inputs /\ new.ledger = img.ledger
      /\ new.queue = img.queue /\ new.outbox = img.outbox
  BY <1>1 DEF RunAdded
<1>4. /\ img.runs \in Seq(RunType) /\ img.updated \in Nat /\ new.updated \in Nat
      /\ ToSet(img.runs) \subseteq RunType
  BY <1>3, ImageParts, ElementsType
<1>5. ToSet(new.runs) = ToSet(img.runs) \cup {run}
  BY <1>3, <1>4, ElementsAppend
<1>6. DistinctIds(new.runs)
  BY <1>3, <1>4, DistinctIdsAppend DEF Valid, RunsValid
<1>7. SessionsValid(new) /\ OutboxValid(new)
  BY <1>3, PartsGoOn
<1>8. RunsValid(new)
  <2>1. \A x \in ToSet(new.runs) :
           /\ RunWellFormed(x) /\ Has(new.sessions, x.session) /\ x.updated <= new.updated
           /\ x \in ToSet(img.runs) \/ x.outputs = <<>>
    <3>1. \A x \in ToSet(img.runs) :
            /\ RunWellFormed(x) /\ Has(new.sessions, x.session)
            /\ x.updated <= img.updated /\ x.updated \in Nat
      BY <1>3, <1>4 DEF Valid, RunsValid, RunType
    <3>2. \A x \in ToSet(img.runs) : x.updated <= new.updated
      BY <1>3, <1>4, <3>1
    <3> QED
      BY <1>2, <1>3, <1>5, <3>1, <3>2
  <2>2. \A q, r \in ToSet(new.runs) :
           q.session = r.session /\ ~IsTerminal(q) /\ ~IsTerminal(r) => q = r
    BY <1>3, <1>5 DEF Valid, RunsValid
  <2>3. RunsValid(img)
    BY DEF Valid
  <2> QED
    BY <1>6, <2>1, <2>2, <2>3, RunsGoOn
<1>9. OutputsValid(new)
  BY <1>2, <1>3, <1>5, OutputsGoOn DEF Valid
<1>10. \A x \in ToSet(img.runs) : \E r \in Find(new.runs, x.id) :
         r.session = x.session /\ r.created = x.created
  BY <1>5 DEF Find
<1>11. LedgerValid(new) /\ InputsValid(new) /\ QueueValid(new) /\ OwnershipValid(new)
  BY <1>3, <1>10, MessagesGoOn
<1> QED
  BY <1>7, <1>8, <1>9, <1>11 DEF Valid

LEMMA DeliveryAddedValid ==
  ASSUME NEW img \in ImageType, Valid(img), NEW d, NEW new, DeliveryAdded(img, d, new)
  PROVE  Valid(new)
<1>1. /\ new \in ImageType /\ new.updated >= img.updated /\ new.updated >= d.updated
      /\ d \in DeliveryType /\ DeliveryWellFormed(d) /\ Has(img.sessions, d.session)
      /\ ~Has(img.outbox, d.id)
      /\ new.outbox = Append(img.outbox, d)
      /\ new.sessions = img.sessions /\ new.runs = img.runs /\ new.inputs = img.inputs
      /\ new.ledger = img.ledger /\ new.queue = img.queue
  BY DEF DeliveryAdded
<1>2. /\ img.outbox \in Seq(DeliveryType) /\ img.updated \in Nat /\ new.updated \in Nat
      /\ ToSet(img.outbox) \subseteq DeliveryType
  BY <1>1, ImageParts, ElementsType
<1>3. ToSet(new.outbox) = ToSet(img.outbox) \cup {d}
  BY <1>1, <1>2, ElementsAppend
<1>4. DistinctIds(new.outbox)
  BY <1>1, <1>2, DistinctIdsAppend DEF Valid, OutboxValid
<1>5. OutboxValid(new)
  <2>1. \A x \in ToSet(img.outbox) :
          /\ DeliveryWellFormed(x) /\ Has(new.sessions, x.session)
          /\ x.updated <= img.updated /\ x.updated \in Nat
    BY <1>1, <1>2 DEF Valid, OutboxValid, DeliveryType
  <2>2. \A x \in ToSet(img.outbox) : x.updated <= new.updated
    BY <1>1, <1>2, <2>1
  <2>3. d.updated <= new.updated
    BY <1>1, <1>2 DEF DeliveryType
  <2> QED
    BY <1>1, <1>3, <1>4, <2>1, <2>2, <2>3 DEF OutboxValid
<1>6. SessionsValid(new) /\ RunsValid(new)
  BY <1>1, PartsGoOn
<1>7. OutputsValid(new)
  BY <1>1, <1>3, OutputsGoOn DEF Valid
<1>8. LedgerValid(new) /\ InputsValid(new) /\ QueueValid(new) /\ OwnershipValid(new)
  BY <1>1, SameRuns, MessagesGoOn
<1> QED
  BY <1>5, <1>6, <1>7, <1>8 DEF Valid

LEMMA RunMovesValid ==
  ASSUME NEW img \in ImageType, Valid(img), NEW t \in Nat, NEW old, NEW run, NEW new,
         RunMoves(img, t, old, run, new)
  PROVE  Valid(new)
<1>1. /\ old \in ToSet(img.runs) /\ old \in RunType /\ run \in RunType /\ run.id = old.id
      /\ new \in ImageType /\ new.runs = Put(img.runs, run)
      /\ new.sessions = img.sessions /\ new.inputs = img.inputs /\ new.ledger = img.ledger
      /\ new.queue = img.queue /\ new.outbox = img.outbox
      /\ new.updated >= img.updated /\ new.updated >= t
  BY DEF RunMoves, RunGoesOn
<1>2. /\ IsDescendant(run, old) /\ run.updated = Larger(old.updated, t)
      /\ RunWellFormed(old) /\ run.outputs = <<>> => RunWellFormed(run)
      /\ run.outputs \in {old.outputs, <<>>}
  BY DEF RunMoves, NextRun
<1>3. /\ img.runs \in Seq(RunType) /\ img.updated \in Nat /\ new.updated \in Nat
      /\ ToSet(img.runs) \subseteq RunType
  BY <1>1, ImageParts, ElementsType
<1>4. /\ RunWellFormed(old) /\ Has(img.sessions, old.session) /\ old.updated <= img.updated
      /\ DistinctIds(img.runs)
  BY <1>1 DEF Valid, RunsValid
<1>5. ~IsTerminal(old) /\ run.session = old.session /\ run.created = old.created
  BY <1>2, DescendantIsLater DEF IsDescendant
<1>6. run.outputs = <<>>
  BY <1>2, <1>4, <1>5 DEF RunWellFormed, IsTerminal
<1>7. RunWellFormed(run) /\ run.updated <= new.updated
  <2>1. old.updated \in Nat
    BY <1>1 DEF RunType
  <2> QED
    BY <1>1, <1>2, <1>3, <1>4, <1>6, <2>1 DEF Larger
<1>8. IsPut(new.runs, img.runs, run)
  BY <1>1, <1>3, PutIs
<1>9. DistinctIds(new.runs)
  BY <1>4, <1>8 DEF IsPut, DistinctIds
<1>10. /\ \A x \in ToSet(new.runs) : x = run \/ (x \in ToSet(img.runs) /\ x.id # old.id)
       /\ \A x \in ToSet(img.runs) : x = old \/ x \in ToSet(new.runs)
       /\ run \in ToSet(new.runs)
  <2>1. \A i \in DOMAIN img.runs : img.runs[i].id = old.id => img.runs[i] = old
    BY <1>1, <1>4 DEF DistinctIds, ToSet
  <2>2. \A x \in ToSet(new.runs) : x = run \/ (x \in ToSet(img.runs) /\ x.id # old.id)
    BY <1>1, <1>8 DEF IsPut, ToSet
  <2>3. \A x \in ToSet(img.runs) : x = old \/ x \in ToSet(new.runs)
    BY <1>1, <1>8, <2>1 DEF IsPut, ToSet
  <2>4. run \in ToSet(new.runs)
    BY <1>1, <1>8 DEF IsPut, ToSet
  <2> QED
    BY <2>2, <2>3, <2>4
<1>11. RunsValid(new)
  <2>1. \A x \in ToSet(new.runs) :
           /\ RunWellFormed(x) /\ Has(new.sessions, x.session) /\ x.updated <= new.updated
           /\ x \in ToSet(img.runs) \/ x.outputs = <<>>
    <3>1. \A x \in ToSet(img.runs) :
            /\ RunWellFormed(x) /\ Has(new.sessions, x.session)
            /\ x.updated <= img.updated /\ x.updated \in Nat
      BY <1>1, <1>3 DEF Valid, RunsValid, RunType
    <3>2. \A x \in ToSet(img.runs) : x.updated <= new.updated
      BY <1>1, <1>3, <3>1
    <3> QED
      BY <1>1, <1>4, <1>5, <1>6, <1>7, <1>10, <3>1, <3>2
  <2>2. \A q, r \in ToSet(new.runs) :
           q.session = r.session /\ ~IsTerminal(q) /\ ~IsTerminal(r) => q = r
    <3>1. \A r \in ToSet(img.runs) :
            r.session = old.session /\ ~IsTerminal(r) => r = old
      BY <1>1, <1>5 DEF Valid, RunsValid
    <3>2. \A q, r \in ToSet(img.runs) :
            q.session = r.session /\ ~IsTerminal(q) /\ ~IsTerminal(r) => q = r
      BY DEF Valid, RunsValid
    <3>3. ASSUME NEW q \in ToSet(new.runs), NEW r \in ToSet(new.runs),
                 q.session = r.session, ~IsTerminal(q), ~IsTerminal(r)
          PROVE  q = r
      <4>1. CASE q = run
        BY <1>5, <1>10, <3>1, <3>3, <4>1
      <4>2. CASE r = run
        BY <1>5, <1>10, <3>1, <3>3, <4>2
      <4>3. CASE q # run /\ r # run
        BY <1>10, <3>2, <3>3, <4>3
      <4> QED
        BY <4>1, <4>2, <4>3
    <3> QED
      BY <3>3
  <2>3. RunsValid(img)
    BY DEF Valid
  <2> QED
    BY <1>9, <2>1, <2>2, <2>3, RunsGoOn
<1>12. SessionsValid(new) /\ OutboxValid(new)
  BY <1>1, PartsGoOn
<1>13. OutputsValid(new)
  BY <1>1, <1>6, <1>10, OutputsGoOn DEF Valid
<1>14. \A x \in ToSet(img.runs) : \E r \in Find(new.runs, x.id) :
         r.session = x.session /\ r.created = x.created
  <2>1. run \in Find(new.runs, old.id)
    BY <1>1, <1>10 DEF Find
  <2>2. \A x \in ToSet(new.runs) : x \in Find(new.runs, x.id)
    BY DEF Find
  <2> QED
    BY <1>5, <1>10, <2>1, <2>2
<1>15. LedgerValid(new) /\ InputsValid(new) /\ QueueValid(new) /\ OwnershipValid(new)
  BY <1>1, <1>14, MessagesGoOn
<1> QED
  BY <1>11, <1>12, <1>13, <1>15 DEF Valid

LEMMA ArrivedValid ==
  ASSUME NEW img \in ImageType, Valid(img), NEW e \in Event, NEW t \in Nat,
         NEW new, Arrived(img, e, t, new)
  PROVE  Valid(new)
<1>1. PICK entry \in EntryType : entry = Entry(e, t)
  BY DEF Arrived
<1>2. /\ ~Has(img.ledger, e.id) /\ entry.id = e.id
      /\ entry.received = e.received /\ e.received \in Nat /\ entry.recorded = Larger(t, e.received)
      /\ new \in ImageType /\ new.updated >= img.updated /\ new.updated >= entry.recorded
      /\ new.sessions = img.sessions /\ new.runs = img.runs /\ new.outbox = img.outbox
      /\ new.inputs = img.inputs /\ new.ledger = Append(img.ledger, entry)
  BY <1>1, SnapshotAssumption DEF Arrived, Entry
<1>3. /\ img.ledger \in Seq(EntryType) /\ img.queue \in Seq(MessageType)
      /\ img.inputs \in Seq(InputType) /\ img.updated \in Nat /\ new.updated \in Nat
      /\ ToSet(img.ledger) \subseteq EntryType
  BY <1>2, ImageParts, ElementsType
<1>4. ToSet(new.ledger) = ToSet(img.ledger) \cup {entry}
  BY <1>2, <1>3, ElementsAppend
<1>5. DistinctIds(new.ledger)
  BY <1>2, <1>3, DistinctIdsAppend DEF Valid, LedgerValid
<1>6. Grows(new.ledger, img.ledger)
  BY <1>2, <1>3, AppendGrows
<1>7. LedgerValid(new)
  <2>1. \A x \in ToSet(img.ledger) :
          x.received <= x.recorded /\ x.recorded <= img.updated /\ x.recorded \in Nat
    BY <1>3 DEF Valid, LedgerValid, EntryType
  <2>2. \A x \in ToSet(img.ledger) : x.recorded <= new.updated
    BY <1>2, <1>3, <2>1
  <2>3. entry.received <= entry.recorded
    BY <1>2 DEF Larger
  <2> QED
    BY <1>2, <1>4, <1>5, <2>1, <2>2, <2>3 DEF LedgerValid
<1>8. SessionsValid(new) /\ RunsValid(new) /\ OutboxValid(new)
  BY <1>2, PartsGoOn
<1>9. OutputsValid(new)
  BY <1>2, OutputsGoOn DEF Valid
<1>10. PICK mid \in ImageType :
         /\ mid.sessions = new.sessions /\ mid.inputs = new.inputs /\ mid.ledger = new.ledger
         /\ mid.queue = img.queue /\ mid.updated = new.updated
  <2>1. [new EXCEPT !.queue = img.queue] \in ImageType
    BY <1>2, <1>3 DEF ImageType
  <2>2. /\ [new EXCEPT !.queue = img.queue].sessions = new.sessions
        /\ [new EXCEPT !.queue = img.queue].inputs = new.inputs
        /\ [new EXCEPT !.queue = img.queue].ledger = new.ledger
        /\ [new EXCEPT !.queue = img.queue].queue = img.queue
        /\ [new EXCEPT !.queue = img.queue].updated = new.updated
    BY <1>2 DEF ImageType
  <2> QED
    BY <2>1, <2>2
<1>11. Lined(mid)
  BY <1>2, <1>5, <1>6, <1>10, ValidIsLined, LinedGrows
<1>12. \A m \in ToSet(img.queue) : m.enqueued <= new.updated
  BY <1>2, <1>3, QueueIsBy DEF Valid
<1>13. Lined(new) /\ \A m \in ToSet(new.queue) : m.enqueued <= new.updated
  <2>1. CASE new.queue = img.queue
    <3>1. \A id : Has(mid.sessions, id) => Has(new.sessions, id)
      BY <1>10
    <3>2. Grows(new.ledger, mid.ledger)
      BY <1>10 DEF Grows
    <3>3. Lined(new)
      BY <1>2, <1>5, <1>10, <1>11, <2>1, <3>1, <3>2, LinedGrows
    <3> QED
      BY <1>12, <2>1, <3>3
  <2>2. CASE /\ Has(img.sessions, e.session) /\ e.session # None
             /\ Queued(img, e, t) \in MessageType
             /\ new.queue = Append(img.queue, Queued(img, e, t))
             /\ new.updated >= Queued(img, e, t).enqueued
    <3>1. PICK m \in MessageType : m = Queued(img, e, t)
      BY <2>2
    <3>2. /\ m.id = e.id /\ m.session = e.session /\ m.received = e.received
          /\ m.enqueued >= entry.recorded /\ m.enqueued >= LastEnqueued(img, e.session)
      BY <1>1, <2>2, <3>1, QueuedIs
    <3>3. MessageWellFormed(m)
      <4>1. m.enqueued \in Nat /\ entry.recorded \in Nat /\ entry.recorded >= e.received
        BY <1>2 DEF MessageType, EntryType, Larger
      <4> QED
        BY <1>2, <2>2, <3>2, <4>1 DEF MessageWellFormed
    <3>4. MatchesLedger(mid, m)
      <4>1. entry \in Find(mid.ledger, m.id)
        BY <1>2, <1>4, <1>10, <3>2 DEF Find
      <4> QED
        BY <1>2, <3>2, <4>1 DEF MatchesLedger
    <3>5. \A x \in ToSet(mid.queue) \cup Claimed(mid) : Position(mid, x.id) < Position(mid, m.id)
      <4>1. Claimed(mid) = Claimed(img)
        BY <1>2, <1>10 DEF Claimed
      <4>2. /\ Len(img.ledger) \in Nat /\ DOMAIN img.ledger = 1..Len(img.ledger)
            /\ DOMAIN new.ledger = 1..(Len(img.ledger) + 1)
            /\ new.ledger[Len(img.ledger) + 1] = entry
        BY <1>2, <1>3, PositionsAppend
      <4>3. Position(mid, m.id) = Len(img.ledger) + 1
        <5>1. /\ Len(img.ledger) + 1 \in DOMAIN mid.ledger
              /\ mid.ledger[Len(img.ledger) + 1].id = m.id
              /\ DistinctIds(mid.ledger)
          BY <1>2, <1>5, <1>10, <3>2, <4>2
        <5> QED
          BY <5>1, PositionIs
      <4>4. ASSUME NEW x \in ToSet(img.queue) \cup Claimed(img)
            PROVE  Position(mid, x.id) \in 1..Len(img.ledger)
        <5>1. MatchesLedger(img, x)
          BY ValidIsLined DEF Lined
        <5>2. Has(img.ledger, x.id)
          BY <5>1, MatchIsFiled
        <5>3. Position(img, x.id) \in DOMAIN img.ledger
          BY <5>2, PositionOf
        <5>4. Position(mid, x.id) = Position(img, x.id)
          BY <1>5, <1>6, <1>10, <5>2, LedgerGrown
        <5> QED
          BY <4>2, <5>3, <5>4
      <4> QED
        BY <1>10, <4>1, <4>2, <4>3, <4>4
    <3>6. \A x \in ToSet(OwnershipOf(mid, m.session)) : x.enqueued <= m.enqueued
      <4>1. PICK owned \in Seq(MessageType) : owned = OwnershipOf(img, m.session)
        BY <1>3, OwnershipIs
      <4>2. OwnershipOf(mid, m.session) = owned
        BY <1>2, <1>10, <4>1 DEF OwnershipOf
      <4>3. PICK last \in Nat : /\ last = LastEnqueued(img, m.session)
                                /\ \A i \in DOMAIN owned : owned[i].enqueued <= last
        BY <1>3, <4>1, LastEnqueuedIs
      <4>4. \A i \in DOMAIN owned : owned[i].enqueued \in Nat
        <5>1. ToSet(owned) \subseteq MessageType
          BY <4>1, ElementsType
        <5> QED
          BY <5>1 DEF MessageType, ToSet
      <4>5. m.enqueued \in Nat /\ m.enqueued >= last
        BY <3>2, <4>3 DEF MessageType
      <4>6. \A i \in DOMAIN owned : owned[i].enqueued <= m.enqueued
        BY <4>3, <4>4, <4>5
      <4> QED
        BY <4>2, <4>6 DEF ToSet
    <3>7. new.queue = Append(mid.queue, m) /\ Has(mid.sessions, m.session)
      BY <1>2, <1>10, <2>2, <3>1, <3>2
    <3>8. Lined(new)
      BY <1>2, <1>10, <1>11, <3>3, <3>4, <3>5, <3>6, <3>7, LinedJoins
    <3>9. ToSet(new.queue) = ToSet(img.queue) \cup {m}
      BY <1>3, <2>2, <3>1, ElementsAppend
    <3> QED
      BY <1>12, <2>2, <3>1, <3>8, <3>9
  <2> QED
    BY <2>1, <2>2 DEF Arrived
<1>14. QueueValid(new) /\ OwnershipValid(new)
  BY <1>2, <1>13, LinedIsValid
<1>15. InputsValid(new)
  <2>1. \A input \in ToSet(img.inputs) : input.claimed <= new.updated
    BY <1>2, <1>3, InputsAreBy DEF Valid
  <2>2. ClaimedOnce(new)
    BY <1>13 DEF Lined
  <2>3. \A x \in ToSet(img.runs) : \E run \in Find(new.runs, x.id) :
          run.session = x.session /\ run.created = x.created
    BY <1>2, SameRuns
  <2> QED
    BY <1>2, <1>6, <2>1, <2>2, <2>3, InputsGoOn DEF Valid
<1> QED
  BY <1>7, <1>8, <1>9, <1>14, <1>15 DEF Valid

LEMMA EditedValid ==
  ASSUME NEW img \in ImageType, Valid(img), NEW new, Edited(img, new)
  PROVE  Valid(new)
<1>1. CASE SessionKept(img, new)
  BY <1>1, SessionKeptValid
<1>2. CASE \E id \in RunKey, s \in Nat, t \in Nat : RunAdded(img, t, NewRun(id, s, t), new)
  BY <1>2, RunAddedValid
<1>3. CASE \E e \in Event, t \in Nat : Arrived(img, e, t, new)
  BY <1>3, ArrivedValid
<1>4. CASE \E d : d.id \in OtherDelivery /\ DeliveryAdded(img, d, new)
  BY <1>4, DeliveryAddedValid
<1>5. CASE \E t \in Nat : \E old, run : RunMoves(img, t, old, run, new)
  BY <1>5, RunMovesValid
<1> QED
  BY <1>1, <1>2, <1>3, <1>4, <1>5 DEF Edited

-----------------------------------------------------------------------------
(* MergesAreValid: a merge of a valid snapshot into a valid file.          *)
Merging(existing, s, new) ==
  /\ existing \in ImageType /\ s \in ImageType /\ Valid(existing) /\ Valid(s)
  /\ MayIntroduce(existing, s) /\ SameEvents(existing, s)
  /\ Merges(existing, s, new)

KeepsSessions(existing, new) == \A id : Has(existing.sessions, id) => Has(new.sessions, id)

LEMMA MergedLedgerIs ==
  ASSUME NEW existing, NEW s, NEW new, Merging(existing, s, new)
  PROVE  /\ new.ledger = Union(existing.ledger, s.ledger)
         /\ existing.ledger \in Seq(EntryType) /\ s.ledger \in Seq(EntryType)
         /\ new.ledger \in Seq(EntryType)
         /\ DistinctIds(existing.ledger) /\ DistinctIds(s.ledger) /\ DistinctIds(new.ledger)
         /\ Grows(new.ledger, existing.ledger)
         /\ ToSet(new.ledger) = ToSet(existing.ledger)
              \cup {e \in ToSet(s.ledger) : ~Has(existing.ledger, e.id)}
<1>1. /\ existing.ledger \in Seq(EntryType) /\ s.ledger \in Seq(EntryType)
      /\ new.ledger = Union(existing.ledger, s.ledger)
  BY ImageParts DEF Merging, Merges
<1>2. DistinctIds(existing.ledger) /\ DistinctIds(s.ledger)
  BY DEF Merging, Valid, LedgerValid
<1>3. DistinctIds(new.ledger)
  BY <1>1, <1>2, UnionDistinct
<1>4. /\ new.ledger \in Seq(EntryType)
      /\ ToSet(new.ledger) = ToSet(existing.ledger)
           \cup {e \in ToSet(s.ledger) : ~Has(existing.ledger, e.id)}
      /\ Grows(new.ledger, existing.ledger)
  BY <1>1, UnionIs
<1> QED
  BY <1>1, <1>2, <1>3, <1>4

(* The messages that come from the snapshot are new to the file.           *)
Arrives(existing, s, new, b) ==
  /\ b \in MessageType /\ b \in ToSet(s.queue)
  /\ MessageWellFormed(b) /\ Has(new.sessions, b.session) /\ MatchesLedger(new, b)
  /\ ~Has(existing.ledger, b.id)

LEMMA BroughtArrives ==
  ASSUME NEW existing, NEW s, NEW new, Merging(existing, s, new),
         NEW b \in ToSet(Brought(new.inputs, existing.queue, s.queue))
  PROVE  Arrives(existing, s, new, b)
<1>1. /\ s.queue \in Seq(MessageType) /\ new.inputs = existing.inputs /\ new.sessions = s.sessions
  BY ImageParts, InputsKept DEF Merging, Merges
<1>2. ToSet(Brought(new.inputs, existing.queue, s.queue)) =
        ToSet(s.queue) \cap {m \in ToSet(s.queue) :
                               /\ ~\E c \in ClaimedIn(new.inputs) : c.id = m.id
                               /\ ~Has(existing.queue, m.id)}
  BY <1>1, SelectType DEF Brought
<1>3. /\ b \in ToSet(s.queue) /\ ~Has(existing.queue, b.id)
      /\ ~\E c \in Claimed(existing) : c.id = b.id
  BY <1>1, <1>2 DEF ClaimedIn, Claimed
<1>4. b \in MessageType
  BY <1>1, <1>3, ElementsType
<1>5. MessageWellFormed(b) /\ Has(new.sessions, b.session) /\ MatchesLedger(s, b)
  BY <1>1, <1>3 DEF Merging, Valid, QueueValid
<1>6. PICK e \in Find(s.ledger, b.id) : b.received = e.received /\ b.enqueued >= e.recorded
  BY <1>5 DEF MatchesLedger
<1>7. ~Has(existing.ledger, b.id)
  <2>1. SUFFICES ASSUME Has(existing.ledger, e.id) PROVE FALSE
    BY <1>6 DEF Find
  <2>2. {[m EXCEPT !.enqueued = 0] : m \in MessageOf(existing, e.id)}
          = {[m EXCEPT !.enqueued = 0] : m \in MessageOf(s, e.id)}
    BY <1>6, <2>1 DEF Merging, SameEvents, Find
  <2>3. b \in MessageOf(s, e.id)
    BY <1>3, <1>6 DEF MessageOf, Find
  <2>4. MessageOf(existing, e.id) # {}
    BY <2>2, <2>3
  <2> QED
    BY <1>3, <1>6, <2>4, HasIs DEF MessageOf, Find
<1>8. MatchesLedger(new, b)
  <2>1. e \in Find(new.ledger, b.id)
    BY <1>6, <1>7, MergedLedgerIs DEF Find
  <2> QED
    BY <1>6, <2>1 DEF MatchesLedger
<1> QED
  BY <1>3, <1>4, <1>5, <1>7, <1>8 DEF Arrives

(* They come behind those of the file ...                                  *)
LEMMA BroughtBehind ==
  ASSUME NEW existing, NEW s, NEW new, Merging(existing, s, new),
         NEW b, Arrives(existing, s, new, b),
         NEW x \in ToSet(existing.queue) \cup Claimed(existing)
  PROVE  Position(new, x.id) < Position(new, b.id)
<1>1. MatchesLedger(existing, x)
  BY ValidIsLined DEF Lined, Merging
<1>2. /\ Has(existing.ledger, x.id) /\ Has(new.ledger, b.id)
      /\ Position(existing, x.id) \in DOMAIN existing.ledger
      /\ Position(new, b.id) \in DOMAIN new.ledger
      /\ new.ledger[Position(new, b.id)].id = b.id
  BY <1>1, MatchIsFiled, PositionOf DEF Arrives
<1>3. Position(new, x.id) = Position(existing, x.id)
  BY <1>2, LedgerGrown, MergedLedgerIs
<1>4. Position(new, b.id) \notin DOMAIN existing.ledger
  BY <1>2, MergedLedgerIs DEF Grows, Arrives, Has
<1>5. PICK n \in Nat, k \in Nat : DOMAIN existing.ledger = 1..n /\ DOMAIN new.ledger = 1..k
  BY MergedLedgerIs, LenProperties
<1> QED
  BY <1>2, <1>3, <1>4, <1>5

(* ... and in the order they had.                                          *)
LEMMA BroughtPlace ==
  ASSUME NEW existing, NEW s, NEW new, Merging(existing, s, new),
         NEW b, Arrives(existing, s, new, b)
  PROVE  /\ Position(new, b.id) \in DOMAIN new.ledger \ DOMAIN existing.ledger
         /\ Position(s, b.id) \in DOMAIN s.ledger
         /\ new.ledger[Position(new, b.id)] = s.ledger[Position(s, b.id)]
<1>1. /\ Has(new.ledger, b.id)
      /\ Position(new, b.id) \in DOMAIN new.ledger
      /\ new.ledger[Position(new, b.id)].id = b.id
  BY MatchIsFiled, PositionOf DEF Arrives
<1>2. Position(new, b.id) \notin DOMAIN existing.ledger
  BY <1>1, MergedLedgerIs DEF Grows, Arrives, Has
<1>3. MatchesLedger(s, b)
  BY DEF Arrives, Merging, Valid, QueueValid
<1>4. /\ Position(s, b.id) \in DOMAIN s.ledger
      /\ s.ledger[Position(s, b.id)].id = b.id
  BY <1>3, MatchIsFiled, PositionOf
<1>5. new.ledger[Position(new, b.id)] \in ToSet(s.ledger)
  <2>1. new.ledger[Position(new, b.id)] \in ToSet(new.ledger)
    BY <1>1 DEF ToSet
  <2>2. new.ledger[Position(new, b.id)] \notin ToSet(existing.ledger)
    BY <1>1, HasIs DEF Arrives
  <2> QED
    BY <2>1, <2>2, MergedLedgerIs
<1>6. new.ledger[Position(new, b.id)] = s.ledger[Position(s, b.id)]
  BY <1>1, <1>4, <1>5, MergedLedgerIs DEF DistinctIds, ToSet
<1> QED
  BY <1>1, <1>2, <1>4, <1>6

LEMMA BroughtOrdered ==
  ASSUME NEW existing, NEW s, NEW new, Merging(existing, s, new),
         NEW brought, brought = Brought(new.inputs, existing.queue, s.queue),
         NEW j \in DOMAIN brought, NEW k \in DOMAIN brought, j < k
  PROVE  Position(new, brought[j].id) < Position(new, brought[k].id)
<1>1. s.queue \in Seq(MessageType)
  BY ImageParts DEF Merging
<1>2. PICK g : Embeds(g, brought, s.queue)
  BY <1>1, SelectOrder DEF Brought
<1>3. /\ g[j] \in DOMAIN s.queue /\ g[k] \in DOMAIN s.queue /\ g[j] < g[k]
      /\ brought[j] = s.queue[g[j]] /\ brought[k] = s.queue[g[k]]
  BY <1>2 DEF Embeds
<1>4. Position(s, brought[j].id) < Position(s, brought[k].id)
  BY <1>3 DEF Merging, Valid, QueueValid, Increasing
<1>5. Arrives(existing, s, new, brought[j]) /\ Arrives(existing, s, new, brought[k])
  BY BroughtArrives DEF ToSet
<1>6. PICK p, q : p = Position(new, brought[j].id) /\ q = Position(new, brought[k].id)
  OBVIOUS
<1>7. PICK u, v : u = Position(s, brought[j].id) /\ v = Position(s, brought[k].id)
  OBVIOUS
<1>8. /\ p \in DOMAIN new.ledger /\ p \notin DOMAIN existing.ledger
      /\ u \in DOMAIN s.ledger /\ new.ledger[p] = s.ledger[u]
  BY <1>5, <1>6, <1>7, BroughtPlace
<1>9. /\ q \in DOMAIN new.ledger /\ q \notin DOMAIN existing.ledger
      /\ v \in DOMAIN s.ledger /\ new.ledger[q] = s.ledger[v]
  BY <1>5, <1>6, <1>7, BroughtPlace
<1>10. /\ new.ledger = Union(existing.ledger, s.ledger)
       /\ existing.ledger \in Seq(EntryType) /\ s.ledger \in Seq(EntryType)
       /\ DistinctIds(s.ledger)
  BY MergedLedgerIs
<1>11. u < v
  BY <1>4, <1>7
<1>12. p < q
  BY <1>8, <1>9, <1>10, <1>11, UnionOrder
<1> QED
  BY <1>6, <1>12

(* The merge while it appends them: n of them stand in the queue.          *)
WithQueue(img, queue) == [img EXCEPT !.queue = queue]

AppendedSoFar(existing, new, brought, n, queue) ==
  /\ Lined(WithQueue(new, queue))
  /\ \A x \in ToSet(queue) : \/ x \in ToSet(existing.queue)
                             \/ \E k \in 1..n : x.id = brought[k].id

LEMMA WithQueueIs ==
  ASSUME NEW img \in ImageType, NEW queue \in Seq(MessageType)
  PROVE  /\ WithQueue(img, queue) \in ImageType
         /\ WithQueue(img, queue).queue = queue
         /\ WithQueue(img, queue).sessions = img.sessions
         /\ WithQueue(img, queue).inputs = img.inputs
         /\ WithQueue(img, queue).ledger = img.ledger
BY DEF WithQueue, ImageType

LEMMA SameLedgerPlaces ==
  ASSUME NEW a, NEW b, a.ledger = b.ledger
  PROVE  /\ \A id : Position(a, id) = Position(b, id)
         /\ \A m : MatchesLedger(a, m) <=> MatchesLedger(b, m)
BY DEF Position, MatchesLedger

LEMMA RebasedIsLast ==
  ASSUME NEW img \in ImageType, Lined(img), NEW b \in MessageType,
         NEW x \in ToSet(OwnershipOf(img, b.session))
  PROVE  x.enqueued <= RebasedAfter(img.inputs, img.queue, b).enqueued
<1>1. img.inputs \in Seq(InputType) /\ img.queue \in Seq(MessageType)
  BY ImageParts
<1>2. Before(img.inputs, img.queue, b) = OwnershipOf(img, b.session)
  BY DEF Before, OwnershipOf, BatchesOf
<1>3. PICK owned \in Seq(MessageType) : owned = OwnershipOf(img, b.session)
  BY <1>1, OwnershipIs
<1>4. PICK n \in Nat : n = Len(owned) /\ DOMAIN owned = 1..n
  BY <1>3, LenProperties
<1>5. PICK i \in 1..n : x = owned[i]
  BY <1>3, <1>4 DEF ToSet
<1>6. owned # <<>> /\ n \in 1..n /\ Last(owned) = owned[n]
  BY <1>4, <1>5, EmptySeq DEF Last
<1>7. owned[i].enqueued <= owned[n].enqueued
  <2>1. CASE i = n
    <3>1. ToSet(owned) \subseteq MessageType
      BY <1>3, ElementsType
    <3>2. owned[n] \in MessageType
      BY <1>4, <1>6, <3>1 DEF ToSet
    <3> QED
      BY <2>1, <3>2 DEF MessageType
  <2>2. CASE i # n
    BY <1>3, <1>4, <1>6, <2>2 DEF Lined, InOrder
  <2> QED
    BY <2>1, <2>2
<1>8. RebasedAfter(img.inputs, img.queue, b).enqueued >= owned[n].enqueued
  BY <1>1, <1>2, <1>3, <1>6, RebasedIs
<1>9. owned[n].enqueued \in Nat /\ owned[i].enqueued \in Nat
      /\ RebasedAfter(img.inputs, img.queue, b).enqueued \in Nat
  <2>1. ToSet(owned) \subseteq MessageType
    BY <1>3, ElementsType
  <2>2. owned[n] \in MessageType /\ owned[i] \in MessageType
    BY <1>4, <1>6, <2>1 DEF ToSet
  <2>3. RebasedAfter(img.inputs, img.queue, b) \in MessageType
    BY <1>1, RebasedIs
  <2> QED
    BY <2>2, <2>3 DEF MessageType
<1> QED
  BY <1>5, <1>7, <1>8, <1>9

LEMMA BroughtJoins ==
  ASSUME NEW existing, NEW s, NEW new, Merging(existing, s, new),
         NEW brought, brought = Brought(new.inputs, existing.queue, s.queue),
         NEW n \in Nat, n + 1 \in DOMAIN brought, 1..n \subseteq DOMAIN brought,
         NEW queue \in Seq(MessageType), AppendedSoFar(existing, new, brought, n, queue),
         NEW longer, longer = Append(queue, RebasedAfter(new.inputs, queue, brought[n + 1]))
  PROVE  AppendedSoFar(existing, new, brought, n + 1, longer)
<1>1. PICK b : b = brought[n + 1] /\ Arrives(existing, s, new, b)
  BY BroughtArrives DEF ToSet
<1>2. /\ new \in ImageType /\ new.inputs \in Seq(InputType) /\ new.inputs = existing.inputs
      /\ b \in MessageType
  BY <1>1, ImageParts, InputsKept DEF Merging, Merges, Arrives
<1>3. PICK m \in MessageType : m = RebasedAfter(new.inputs, queue, b)
  BY <1>2, RebasedIs
<1>4. m.id = b.id /\ m.session = b.session /\ m.received = b.received /\ m.enqueued >= b.enqueued
  <2>1. SameButTime(m, b) /\ m.enqueued >= b.enqueued
    BY <1>2, <1>3, RebasedIs
  <2> QED
    BY <2>1 DEF SameButTime
<1>5. longer = Append(queue, m) /\ longer \in Seq(MessageType)
      /\ ToSet(longer) = ToSet(queue) \cup {m}
  <2>1. longer = Append(queue, m)
    BY <1>1, <1>3
  <2>2. ToSet(Append(queue, m)) = ToSet(queue) \cup {m} /\ Append(queue, m) \in Seq(MessageType)
    BY ElementsAppend, AppendProperties
  <2> QED
    BY <2>1, <2>2
<1>6. PICK img \in ImageType :
        /\ img = WithQueue(new, queue) /\ img.queue = queue /\ img.sessions = new.sessions
        /\ img.inputs = new.inputs /\ img.ledger = new.ledger
  BY <1>2, WithQueueIs
<1>7. PICK grown \in ImageType :
        /\ grown = WithQueue(new, longer) /\ grown.queue = longer /\ grown.sessions = new.sessions
        /\ grown.inputs = new.inputs /\ grown.ledger = new.ledger
  BY <1>2, <1>5, WithQueueIs
<1>8. Lined(img)
  BY <1>6 DEF AppendedSoFar
<1>9. MessageWellFormed(m)
  <2>1. m.enqueued \in Nat /\ b.enqueued \in Nat /\ b.received \in Nat
    BY <1>2 DEF MessageType
  <2> QED
    BY <1>1, <1>4, <2>1 DEF Arrives, MessageWellFormed
<1>10. MatchesLedger(img, m)
  <2>1. MatchesLedger(new, b)
    BY <1>1 DEF Arrives
  <2>2. PICK e \in Find(new.ledger, b.id) : b.received = e.received /\ b.enqueued >= e.recorded
    BY <2>1 DEF MatchesLedger
  <2>3. m.enqueued \in Nat /\ b.enqueued \in Nat /\ e.recorded \in Nat
    <3>1. ToSet(new.ledger) \subseteq EntryType
      BY MergedLedgerIs, ElementsType
    <3>2. e \in EntryType
      BY <3>1 DEF Find
    <3> QED
      BY <1>2, <3>2 DEF MessageType, EntryType
  <2>4. m.enqueued >= e.recorded
    BY <1>4, <2>2, <2>3
  <2> QED
    BY <1>4, <1>6, <2>2, <2>4 DEF MatchesLedger
<1>11. ASSUME NEW x \in ToSet(img.queue) \cup Claimed(img)
       PROVE  Position(img, x.id) < Position(img, m.id)
  <2>1. Position(img, x.id) = Position(new, x.id) /\ Position(img, m.id) = Position(new, b.id)
    BY <1>4, <1>6, SameLedgerPlaces
  <2>2. CASE x \in ToSet(existing.queue) \cup Claimed(existing)
    BY <1>1, <2>1, <2>2, BroughtBehind
  <2>3. CASE \E k \in 1..n : x.id = brought[k].id
    <3>1. PICK k \in 1..n : x.id = brought[k].id
      BY <2>3
    <3>2. k \in DOMAIN brought /\ k < n + 1
      BY <3>1
    <3> QED
      BY <1>1, <2>1, <3>1, <3>2, BroughtOrdered
  <2>4. Claimed(img) = Claimed(existing)
    BY <1>2, <1>6 DEF Claimed
  <2> QED
    BY <1>6, <2>2, <2>3, <2>4 DEF AppendedSoFar
<1>12. ASSUME NEW x \in ToSet(OwnershipOf(img, m.session)) PROVE x.enqueued <= m.enqueued
  BY <1>2, <1>3, <1>4, <1>6, <1>8, RebasedIsLast
<1>13. grown.queue = Append(img.queue, m) /\ grown.inputs = img.inputs
       /\ grown.ledger = img.ledger /\ grown.sessions = img.sessions
       /\ Has(img.sessions, m.session)
  BY <1>1, <1>4, <1>5, <1>6, <1>7 DEF Arrives
<1>14. Lined(grown)
  BY <1>8, <1>9, <1>10, <1>11, <1>12, <1>13, LinedJoins
<1>15. ASSUME NEW x \in ToSet(longer)
       PROVE  x \in ToSet(existing.queue) \/ \E k \in 1..(n + 1) : x.id = brought[k].id
  <2>1. CASE x = m
    BY <1>1, <1>4, <2>1
  <2>2. CASE x \in ToSet(queue)
    BY <2>2 DEF AppendedSoFar
  <2> QED
    BY <1>5, <2>1, <2>2
<1> QED
  BY <1>7, <1>14, <1>15 DEF AppendedSoFar

LEMMA MergedLined ==
  ASSUME NEW existing, NEW s, NEW new, Merging(existing, s, new), KeepsSessions(existing, new)
  PROVE  Lined(new)
<1>1. /\ new \in ImageType /\ new.inputs \in Seq(InputType) /\ new.inputs = existing.inputs
      /\ existing \in ImageType /\ existing.queue \in Seq(MessageType)
      /\ s.queue \in Seq(MessageType) /\ ClaimedOnce(existing)
  BY ImageParts, InputsKept DEF Merging, Merges, Valid, InputsValid
<1>2. PICK brought \in Seq(MessageType) :
        brought = Brought(new.inputs, existing.queue, s.queue)
  BY <1>1, MergedQueueIs
<1>3. new.queue = AppendRebased(new.inputs, existing.queue, brought)
  <2>1. new.queue = AppendRebased(new.inputs, Waiting(new.inputs, existing.queue), brought)
    BY <1>1, <1>2, MergedQueueIs DEF Merging, Merges
  <2>2. Waiting(new.inputs, existing.queue) = existing.queue
    BY <1>1, QueueKept DEF Merging
  <2> QED
    BY <2>1, <2>2
<1>4. PICK f : RebasesUpTo(f, new.inputs, existing.queue, brought)
  BY <1>1, <1>2, RebaseScan
<1>5. PICK len \in Nat : len = Len(brought) /\ DOMAIN brought = 1..len
  BY <1>2, LenProperties
<1>6. /\ f \in [0..len -> Seq(MessageType)] /\ f[0] = existing.queue
      /\ \A i \in 1..len : f[i] = Append(f[i - 1], RebasedAfter(new.inputs, f[i - 1], brought[i]))
      /\ new.queue = f[len]
  BY <1>3, <1>4, <1>5 DEF RebasesUpTo
<1> DEFINE T == {n \in Nat : n <= len => AppendedSoFar(existing, new, brought, n, f[n])}
<1>7. 0 \in T
  <2>1. PICK img \in ImageType :
          /\ img = WithQueue(new, existing.queue) /\ img.queue = existing.queue
          /\ img.sessions = new.sessions /\ img.inputs = new.inputs /\ img.ledger = new.ledger
    BY <1>1, WithQueueIs
  <2>2. Lined(existing)
    BY ValidIsLined DEF Merging
  <2>3. Grows(img.ledger, existing.ledger) /\ DistinctIds(img.ledger)
    BY <2>1, MergedLedgerIs
  <2>4. \A id : Has(existing.sessions, id) => Has(img.sessions, id)
    BY <2>1 DEF KeepsSessions
  <2>5. Lined(img)
    BY <1>1, <2>1, <2>2, <2>3, <2>4, LinedGrows
  <2> QED
    BY <1>6, <2>1, <2>5 DEF AppendedSoFar
<1>8. ASSUME NEW n \in Nat, n \in T PROVE n + 1 \in T
  <2>1. SUFFICES ASSUME n + 1 <= len PROVE AppendedSoFar(existing, new, brought, n + 1, f[n + 1])
    OBVIOUS
  <2>2. AppendedSoFar(existing, new, brought, n, f[n])
    BY <1>8, <2>1
  <2>3. /\ n + 1 \in DOMAIN brought /\ 1..n \subseteq DOMAIN brought
        /\ f[n] \in Seq(MessageType)
        /\ f[n + 1] = Append(f[n], RebasedAfter(new.inputs, f[n], brought[n + 1]))
    <3>1. n + 1 \in 1..len /\ (n + 1) - 1 = n /\ n \in 0..len
      BY <2>1
    <3> QED
      BY <1>5, <1>6, <3>1
  <2> QED
    BY <1>2, <2>2, <2>3, BroughtJoins
<1>9. len \in T
  <2> HIDE DEF T
  <2> QED
    BY <1>7, <1>8, NatInduct
<1>10. Lined(WithQueue(new, new.queue))
  BY <1>6, <1>9 DEF AppendedSoFar
<1>11. WithQueue(new, new.queue) = new
  BY <1>1 DEF WithQueue, ImageType
<1> QED
  BY <1>10, <1>11

(* The runs of a merge are those of the file or later versions of them, or *)
(* new ones, which have no outputs.                                        *)
MergedRun(existing, s, x) ==
  \/ x \in ToSet(existing.runs)
  \/ \E old \in ToSet(existing.runs) : x \in ToSet(s.runs) /\ IsDescendant(x, old)
  \/ x \in ToSet(s.runs) /\ ~Has(existing.runs, x.id)

LEMMA MergedRunsList ==
  ASSUME NEW existing, NEW s, NEW new, Merging(existing, s, new)
  PROVE  /\ DistinctIds(new.runs)
         /\ \A x \in ToSet(new.runs) : MergedRun(existing, s, x)
         /\ \A x \in ToSet(existing.runs) : \E run \in Find(new.runs, x.id) :
              run.session = x.session /\ run.created = x.created
<1>1. /\ existing.runs \in Seq(RunType) /\ s.runs \in Seq(RunType)
      /\ DistinctIds(existing.runs) /\ DistinctIds(s.runs)
      /\ new.runs = MergedRuns(existing.runs, s.runs)
  BY ImageParts DEF Merging, Merges, Valid, RunsValid
<1>2. PICK kept \in Seq(RunType) :
        /\ new.runs = Union(kept, s.runs)
        /\ DOMAIN kept = DOMAIN existing.runs
        /\ \A j \in DOMAIN existing.runs :
             \/ kept[j] = existing.runs[j] /\ LaterOf(s.runs, existing.runs[j]) = {}
             \/ kept[j] \in LaterOf(s.runs, existing.runs[j])
  BY <1>1, MergedRunsAre
<1>3. \A j \in DOMAIN existing.runs :
        \/ kept[j] = existing.runs[j]
        \/ kept[j] \in ToSet(s.runs) /\ IsDescendant(kept[j], existing.runs[j])
  BY <1>2 DEF LaterOf, Find
<1>4. \A j \in DOMAIN existing.runs : kept[j].id = existing.runs[j].id
  BY <1>3 DEF IsDescendant
<1>5. DistinctIds(kept)
  BY <1>1, <1>2, <1>4 DEF DistinctIds
<1>6. DistinctIds(new.runs)
  BY <1>1, <1>2, <1>5, UnionDistinct
<1>7. ToSet(new.runs) = ToSet(kept) \cup {x \in ToSet(s.runs) : ~Has(kept, x.id)}
  BY <1>1, <1>2, UnionIs
<1>8. \A id : Has(kept, id) <=> Has(existing.runs, id)
  BY <1>2, <1>4 DEF Has
<1>9. ASSUME NEW x \in ToSet(new.runs) PROVE MergedRun(existing, s, x)
  <2>1. CASE x \in ToSet(kept)
    <3>1. PICK j \in DOMAIN existing.runs : x = kept[j]
      BY <1>2, <2>1 DEF ToSet
    <3>2. existing.runs[j] \in ToSet(existing.runs)
      BY DEF ToSet
    <3> QED
      BY <1>3, <3>1, <3>2 DEF MergedRun
  <2>2. CASE x \in ToSet(s.runs) /\ ~Has(kept, x.id)
    BY <1>8, <2>2 DEF MergedRun
  <2> QED
    BY <1>7, <2>1, <2>2
<1>10. ASSUME NEW x \in ToSet(existing.runs)
       PROVE  \E run \in Find(new.runs, x.id) : run.session = x.session /\ run.created = x.created
  <2>1. PICK j \in DOMAIN existing.runs : x = existing.runs[j]
    BY DEF ToSet
  <2>2. kept[j] \in ToSet(new.runs)
    BY <1>2, <1>7 DEF ToSet
  <2>3. kept[j].id = x.id /\ kept[j].session = x.session /\ kept[j].created = x.created
    BY <1>3, <2>1 DEF IsDescendant
  <2> QED
    BY <2>2, <2>3 DEF Find
<1> QED
  BY <1>6, <1>9, <1>10

LEMMA MergedRunIs ==
  ASSUME NEW existing, NEW s, NEW new, Merging(existing, s, new), KeepsSessions(existing, new),
         NEW x, MergedRun(existing, s, x)
  PROVE  /\ RunWellFormed(x) /\ Has(new.sessions, x.session)
         /\ x \in ToSet(existing.runs) \/ x.outputs = <<>>
<1>1. /\ \A r \in ToSet(existing.runs) : RunWellFormed(r) /\ Has(existing.sessions, r.session)
      /\ \A r \in ToSet(s.runs) : RunWellFormed(r) /\ Has(s.sessions, r.session)
      /\ DistinctIds(existing.runs)
  BY DEF Merging, Valid, RunsValid
<1>2. /\ \A id : Has(existing.sessions, id) => Has(new.sessions, id)
      /\ new.sessions = s.sessions
  BY DEF Merging, Merges, KeepsSessions
<1>3. \A r \in ToSet(s.runs) :
        r.outputs = <<>> \/ \E old \in Find(existing.runs, r.id) : old.outputs = r.outputs
  BY DEF Merging, MayIntroduce
<1>4. CASE x \in ToSet(existing.runs)
  BY <1>1, <1>2, <1>4
<1>5. CASE \E old \in ToSet(existing.runs) : x \in ToSet(s.runs) /\ IsDescendant(x, old)
  <2>1. PICK old \in ToSet(existing.runs) : x \in ToSet(s.runs) /\ IsDescendant(x, old)
    BY <1>5
  <2>2. old.outputs = <<>>
    <3>1. ~IsTerminal(old)
      BY <2>1, DescendantIsLater
    <3> QED
      BY <1>1, <3>1 DEF RunWellFormed, IsTerminal
  <2>3. x.outputs = <<>>
    <3>1. ASSUME NEW other \in Find(existing.runs, x.id) PROVE other = old
      <4>1. other \in Find(existing.runs, old.id)
        BY <2>1 DEF IsDescendant
      <4> QED
        BY <1>1, <4>1, SameRecord
    <3> QED
      BY <1>3, <2>1, <2>2, <3>1
  <2> QED
    BY <1>1, <1>2, <2>1, <2>3
<1>6. CASE x \in ToSet(s.runs) /\ ~Has(existing.runs, x.id)
  <2>1. x.outputs = <<>>
    BY <1>3, <1>6, HasIs DEF Find
  <2> QED
    BY <1>1, <1>2, <1>6, <2>1
<1> QED
  BY <1>4, <1>5, <1>6 DEF MergedRun

(* No session has two unfinished runs.                                     *)
OneOwner(runs) ==
  \A q, r \in ToSet(runs) : q.session = r.session /\ ~IsTerminal(q) /\ ~IsTerminal(r) => q = r

LEMMA MergingIsValid ==
  ASSUME NEW existing, NEW s, NEW new, Merging(existing, s, new), KeepsSessions(existing, new),
         OneOwner(new.runs)
  PROVE  Valid(new)
<1>1. /\ new \in ImageType /\ existing \in ImageType /\ s \in ImageType
      /\ Valid(existing) /\ Valid(s)
      /\ new.sessions = s.sessions /\ new.updated >= s.updated /\ AllBy(new, new.updated)
      /\ new.outbox = Union(existing.outbox, s.outbox)
      /\ \A id : Has(existing.sessions, id) => Has(new.sessions, id)
  BY DEF Merging, Merges, KeepsSessions
<1>2. /\ existing.outbox \in Seq(DeliveryType) /\ s.outbox \in Seq(DeliveryType)
  BY <1>1, ImageParts
<1>3. SessionsValid(new)
  BY <1>1, PartsGoOn
<1>4. RunsValid(new)
  <2>1. \A x \in ToSet(new.runs) :
           /\ RunWellFormed(x) /\ Has(new.sessions, x.session) /\ x.updated <= new.updated
           /\ x \in ToSet(existing.runs) \/ x.outputs = <<>>
    BY <1>1, MergedRunsList, MergedRunIs DEF AllBy
  <2>2. DistinctIds(new.runs)
    BY MergedRunsList
  <2>3. RunsValid(existing)
    BY <1>1 DEF Valid
  <2> QED
    BY <2>1, <2>2, <2>3, RunsGoOn DEF OneOwner
<1>5. LedgerValid(new)
  <2>1. \A e \in ToSet(existing.ledger) \cup ToSet(s.ledger) : e.received <= e.recorded
    BY <1>1 DEF Valid, LedgerValid
  <2>2. \A e \in ToSet(new.ledger) : e.received <= e.recorded /\ e.recorded <= new.updated
    BY <1>1, <2>1, MergedLedgerIs DEF AllBy
  <2> QED
    BY <2>2, MergedLedgerIs DEF LedgerValid
<1>6. ToSet(new.outbox) = ToSet(existing.outbox) \cup {d \in ToSet(s.outbox) : ~Has(existing.outbox, d.id)}
  BY <1>1, <1>2, UnionIs
<1>7. OutboxValid(new)
  <2>1. DistinctIds(new.outbox)
    BY <1>1, <1>2, UnionDistinct DEF Valid, OutboxValid
  <2>2. \A d \in ToSet(existing.outbox) : DeliveryWellFormed(d) /\ Has(new.sessions, d.session)
    BY <1>1 DEF Valid, OutboxValid
  <2>3. \A d \in ToSet(s.outbox) : DeliveryWellFormed(d) /\ Has(new.sessions, d.session)
    BY <1>1 DEF Valid, OutboxValid
  <2>4. \A d \in ToSet(new.outbox) :
          DeliveryWellFormed(d) /\ Has(new.sessions, d.session) /\ d.updated <= new.updated
    BY <1>1, <1>6, <2>2, <2>3 DEF AllBy
  <2> QED
    BY <2>1, <2>4 DEF OutboxValid
<1>8. OutputsValid(new)
  <2>1. \A x \in ToSet(new.runs) : x \in ToSet(existing.runs) \/ x.outputs = <<>>
    BY MergedRunsList, MergedRunIs
  <2> QED
    BY <1>1, <1>6, <2>1, OutputsGoOn DEF Valid
<1>9. QueueValid(new) /\ OwnershipValid(new)
  BY <1>1, MergedLined, LinedIsValid DEF AllBy
<1>10. InputsValid(new)
  <2>1. new.inputs = existing.inputs
    BY <1>1, InputsKept DEF Merging
  <2>2. ClaimedOnce(new)
    BY MergedLined DEF Lined
  <2>3. \A input \in ToSet(existing.inputs) : input.claimed <= new.updated
    BY <1>1, <2>1 DEF AllBy
  <2>4. InputsValid(existing) /\ Grows(new.ledger, existing.ledger)
    BY <1>1, MergedLedgerIs DEF Valid
  <2>5. \A x \in ToSet(existing.runs) : \E run \in Find(new.runs, x.id) :
           run.session = x.session /\ run.created = x.created
    BY MergedRunsList
  <2> QED
    BY <2>1, <2>2, <2>3, <2>4, <2>5, InputsGoOn
<1> QED
  BY <1>3, <1>4, <1>5, <1>7, <1>8, <1>9, <1>10 DEF Valid

(* As many unfinished runs as sessions that have one.                      *)
LEMMA CountedOwners ==
  ASSUME NEW runs \in Seq(RunType),
         NEW active, active = {run \in ToSet(runs) : ~IsTerminal(run)},
         Cardinality(active) = Cardinality({run.session : run \in active})
  PROVE  OneOwner(runs)
<1>1. IsFiniteSet(active)
  <2>1. IsFiniteSet(ToSet(runs))
    BY ElementsType
  <2> QED
    BY <2>1, FS_Subset
<1>2. PICK sessions : sessions = {run.session : run \in active}
  OBVIOUS
<1>3. PICK f : f = [run \in active |-> run.session]
  OBVIOUS
<1>4. f \in Surjection(active, sessions)
  BY <1>2, <1>3 DEF Surjection
<1>5. /\ IsFiniteSet(sessions)
      /\ (Cardinality(sessions) = Cardinality(active)) <=> f \in Injection(active, sessions)
  BY <1>1, <1>4, FS_Surjection
<1>6. f \in Injection(active, sessions)
  BY <1>2, <1>5
<1>7. \A q, r \in active : q.session = r.session => q = r
  BY <1>3, <1>6 DEF Injection, IsInjective
<1> QED
  BY <1>7 DEF OneOwner

-----------------------------------------------------------------------------
(* What the file and the copies hold is valid.                             *)
CopiesValid ==
  /\ Typed
  /\ \A m \in Embedder : \A s \in snapshot[m] : Valid(s)

LEMMA InitCopies ==
  ASSUME Init
  PROVE  CopiesValid
<1>1. Typed
  BY InitTyped
<1> QED
  BY <1>1 DEF Init, CopiesValid

LEMMA CopiesStay ==
  ASSUME CopiesValid, [Next]_vars
  PROVE  CopiesValid'
<1>1. Typed /\ Typed'
  BY TypedStays DEF CopiesValid
<1>2. CASE snapshot' = snapshot
  BY <1>1, <1>2 DEF CopiesValid
<1>3. ASSUME NEW m \in Embedder, NEW img, Loads(m, img) PROVE CopiesValid'
  <2>1. Valid(img)
    BY <1>1, <1>3, ReadIsValid DEF Loads, Typed
  <2>2. \A k \in Embedder : snapshot'[k] = IF k = m THEN {img} ELSE snapshot[k]
    BY <1>1, <1>3 DEF Loads, Typed
  <2> QED
    BY <1>1, <2>1, <2>2 DEF CopiesValid
<1>4. ASSUME NEW m \in Embedder, NEW old, NEW new, Edits(m, old, new) PROVE CopiesValid'
  <2>1. old \in ImageType /\ Valid(old) /\ Edited(old, new)
    BY <1>1, <1>4 DEF Edits, Typed, CopiesValid
  <2>2. Valid(new)
    BY <2>1, EditedValid
  <2>3. \A k \in Embedder : snapshot'[k] = IF k = m THEN {new} ELSE snapshot[k]
    BY <1>1, <1>4 DEF Edits, Typed
  <2> QED
    BY <1>1, <2>2, <2>3 DEF CopiesValid
<1>5. \/ snapshot' = snapshot
      \/ \E m \in Embedder : (\E img : Loads(m, img)) \/ \E old, new : Edits(m, old, new)
  BY <1>1, StepShape DEF Passes, Saves, Updates, Completes, Receives, Stays
<1> QED
  BY <1>2, <1>3, <1>4, <1>5

LEMMA CopiesImply ==
  ASSUME CopiesValid
  PROVE  MergesAreValid
<1>1. ASSUME NEW m \in Embedder, NEW s \in snapshot[m], NEW old \in Load(file),
             NEW new, new = Merged(old, s),
             NEW active, active = {run \in ToSet(new.runs) : ~IsTerminal(run)},
             Mergeable(old, s), \A x \in ToSet(old.sessions) : Has(s.sessions, x.id),
             Cardinality(active) = Cardinality({run.session : run \in active})
      PROVE  Valid(new)
  <2>1. s \in ImageType /\ old \in ImageType /\ Valid(s) /\ Valid(old)
    BY ReadIsValid DEF CopiesValid, Typed
  <2>2. Merges(old, s, new)
    BY <1>1, <2>1, MergedIs
  <2>3. Merging(old, s, new)
    BY <1>1, <2>1, <2>2 DEF Merging, Mergeable
  <2>4. KeepsSessions(old, new)
    BY <1>1, <2>2, HasIs DEF KeepsSessions, Merges
  <2>5. new.runs \in Seq(RunType)
    BY <2>2, ImageParts DEF Merges
  <2>6. OneOwner(new.runs)
    BY <1>1, <2>5, CountedOwners
  <2> QED
    BY <2>3, <2>4, <2>6, MergingIsValid
<1> QED
  BY <1>1 DEF MergesAreValid

-----------------------------------------------------------------------------
(* StaleSaveChangesNothing: how the file goes on from what a copy was      *)
(* loaded from.  What was recorded stays in its place, runs and deliveries *)
(* go on, and a recorded message keeps its words and its time, whether it  *)
(* waits or was claimed.                                                   *)
Continues(old, new) ==
  /\ Grows(new.ledger, old.ledger) /\ Grows(new.inputs, old.inputs)
  /\ GoesOn(old, new)
  /\ \A id : Has(old.ledger, id) => MessageOf(new, id) = MessageOf(old, id)

LEMMA SameContinues ==
  ASSUME NEW a, NEW b, a.ledger = b.ledger, a.inputs = b.inputs, a.queue = b.queue, GoesOn(a, b)
  PROVE  Continues(a, b)
BY DEF Continues, Grows, MessageOf, Claimed

LEMMA DescendantOfDescendant ==
  ASSUME NEW old \in RunType, NEW run \in RunType, NEW last \in RunType,
         IsDescendant(run, old), IsDescendant(last, run)
  PROVE  IsDescendant(last, old)
<1>1. /\ last.id = old.id /\ last.session = old.session /\ last.created = old.created
      /\ ~IsTerminal(run) /\ ~IsTerminal(old)
  BY DescendantIsLater DEF IsDescendant
<1>2. last.updated >= old.updated
  BY DEF IsDescendant, RunType
<1>3. last.status = "completed" \/ last.outputs = old.outputs
  BY <1>1 DEF IsDescendant, IsTerminal
<1>4. CASE old.status = "pending"
  <2>1. last.status # "pending"
    BY DescendantIsLater
  <2> QED
    BY <1>1, <1>2, <1>3, <1>4, <2>1 DEF IsDescendant
<1>5. CASE old.status = "running"
  <2>1. run.status = "interrupted" /\ run.started = old.started
    BY <1>1, <1>5 DEF IsDescendant, IsTerminal, RunType
  <2>2. last.status \in {"failed", "cancelled"} /\ last.started = old.started
    BY <2>1 DEF IsDescendant
  <2> QED
    BY <1>1, <1>2, <1>3, <1>5, <2>2 DEF IsDescendant
<1>6. old.status # "interrupted"
  BY <1>1 DEF IsDescendant, IsTerminal
<1> QED
  BY <1>1, <1>4, <1>5, <1>6 DEF IsTerminal, RunType

LEMMA ContinuesOn ==
  ASSUME NEW a \in ImageType, NEW b \in ImageType, NEW c \in ImageType,
         Continues(a, b), Continues(b, c)
  PROVE  Continues(a, c)
<1>1. Grows(c.ledger, a.ledger) /\ Grows(c.inputs, a.inputs)
  BY DEF Continues, Grows
<1>2. OutboxFollows(c.outbox, a.outbox)
  BY DEF Continues, GoesOn, OutboxFollows, SameEnqueue
<1>3. RunsFollow(c.runs, a.runs)
  <2>1. /\ DOMAIN a.runs \subseteq DOMAIN b.runs /\ DOMAIN b.runs \subseteq DOMAIN c.runs
    BY DEF Continues, GoesOn, RunsFollow
  <2>2. ASSUME NEW i \in DOMAIN a.runs
        PROVE  c.runs[i] = a.runs[i] \/ IsDescendant(c.runs[i], a.runs[i])
    <3>1. /\ ToSet(a.runs) \subseteq RunType /\ ToSet(b.runs) \subseteq RunType
          /\ ToSet(c.runs) \subseteq RunType
      BY ImageParts, ElementsType
    <3>2. a.runs[i] \in RunType /\ b.runs[i] \in RunType /\ c.runs[i] \in RunType
      BY <2>1, <3>1 DEF ToSet
    <3>3. b.runs[i] = a.runs[i] \/ IsDescendant(b.runs[i], a.runs[i])
      BY DEF Continues, GoesOn, RunsFollow
    <3>4. c.runs[i] = b.runs[i] \/ IsDescendant(c.runs[i], b.runs[i])
      BY <2>1 DEF Continues, GoesOn, RunsFollow
    <3> QED
      BY <3>2, <3>3, <3>4, DescendantOfDescendant
  <2> QED
    BY <2>1, <2>2 DEF RunsFollow
<1>4. ASSUME NEW id, Has(a.ledger, id) PROVE MessageOf(c, id) = MessageOf(a, id)
  <2>1. Has(b.ledger, id)
    BY <1>4 DEF Continues, Grows, Has
  <2> QED
    BY <1>4, <2>1 DEF Continues
<1> QED
  BY <1>1, <1>2, <1>3, <1>4 DEF Continues, GoesOn

(* The store's own transitions: a claim moves messages, and that is all.   *)
LEMMA UpdatedContinues ==
  ASSUME NEW img \in ImageType, Valid(img), NEW new, Updated(img, new)
  PROVE  Continues(img, new)
<1>1. /\ DistinctIds(img.runs) /\ DistinctIds(img.outbox) /\ DistinctIds(img.queue)
  BY DEF Valid, RunsValid, OutboxValid, QueueValid
<1>2. GoesOn(img, new)
  BY <1>1, UpdatedGoesOn
<1>3. ASSUME NEW id \in AgentRun, NEW t \in Nat, NEW s, Claims(img, id, t, s, new)
      PROVE  Continues(img, new)
  <2>1. PICK input \in InputType : input = ClaimedInput(img, id, t, s)
    BY <1>3 DEF Claims
  <2>2. /\ new \in ImageType /\ new.ledger = img.ledger /\ new.inputs = Append(img.inputs, input)
        /\ new.queue = Select(img.queue, ToSet(img.queue) \ ToSet(input.messages))
    BY <1>3, <2>1 DEF Claims
  <2>3. input.messages = Prefix(MessagesOf(img.queue, s), MaxBatch)
    BY <2>1 DEF ClaimedInput
  <2>4. /\ img.inputs \in Seq(InputType) /\ img.queue \in Seq(MessageType)
        /\ new.inputs \in Seq(InputType) /\ new.queue \in Seq(MessageType)
    BY <2>2, ImageParts
  <2>5. SameOwners(img, new)
    <3>1. IsInjective(img.queue) /\ MaxBatch \in Nat
      BY <1>1, DistinctIsInjective, PolicyAssumption
    <3> QED
      BY <2>2, <2>3, <2>4, <3>1, OwnershipAfterClaim
  <2>6. ToSet(new.queue) \cup Claimed(new) = ToSet(img.queue) \cup Claimed(img)
    <3>1. ASSUME NEW m
          PROVE  m \in ToSet(img.queue) \cup Claimed(img) <=> m \in ToSet(OwnershipOf(img, m.session))
      BY <2>4, OwnershipIs
    <3>2. ASSUME NEW m
          PROVE  m \in ToSet(new.queue) \cup Claimed(new) <=> m \in ToSet(OwnershipOf(new, m.session))
      BY <2>4, OwnershipIs
    <3>3. \A x : OwnershipOf(new, x) = OwnershipOf(img, x)
      BY <2>5 DEF SameOwners
    <3> QED
      BY <3>1, <3>2, <3>3
  <2>7. Grows(new.inputs, img.inputs)
    BY <2>2, <2>4, AppendGrows
  <2> QED
    BY <1>2, <2>2, <2>6, <2>7 DEF Continues, MessageOf, Grows
<1>4. ASSUME NEW t \in Nat, NEW old, NEW run, RunMoves(img, t, old, run, new)
      PROVE  Continues(img, new)
  BY <1>2, <1>4, SameContinues DEF RunMoves, RunGoesOn
<1>5. ASSUME NEW d, NEW e, DeliveryGoesOn(img, d, e, new)
      PROVE  Continues(img, new)
  BY <1>2, <1>5, SameContinues DEF DeliveryGoesOn
<1>6. CASE RunsRecovered(img, new)
  BY <1>2, <1>6, SameContinues DEF RunsRecovered
<1>7. CASE OutboxRecovered(img, new)
  BY <1>2, <1>7, SameContinues DEF OutboxRecovered
<1> QED
  BY <1>3, <1>4, <1>5, <1>6, <1>7 DEF Updated

LEMMA CompletionContinues ==
  ASSUME NEW img \in ImageType, Valid(img), NEW id \in AgentRun, NEW messages \in Outputs,
         NEW t \in Nat, NEW new, CompletedBy(img, id, messages, t, new)
  PROVE  Continues(img, new)
<1>1. GoesOn(img, new)
  BY CompletionGoesOn DEF Valid, RunsValid
<1>2. new.ledger = img.ledger /\ new.inputs = img.inputs /\ new.queue = img.queue
  BY DEF CompletedBy, RunCompleted
<1> QED
  BY <1>1, <1>2, SameContinues

(* A merge brings messages, but none that was recorded.                    *)
LEMMA MergeContinues ==
  ASSUME NEW existing \in ImageType, NEW s \in ImageType, Valid(existing), Valid(s),
         Mergeable(existing, s), NEW new, new = Merged(existing, s)
  PROVE  Continues(existing, new)
<1>1. Merges(existing, s, new)
  BY MergedIs
<1>2. Merging(existing, s, new)
  BY <1>1 DEF Merging, Mergeable
<1>3. GoesOn(existing, new)
  BY MergeGoesOn
<1>4. Grows(new.ledger, existing.ledger)
  BY <1>2, MergedLedgerIs
<1>5. new.inputs = existing.inputs /\ ClaimedOnce(existing)
  BY <1>1, InputsKept DEF Mergeable, Valid, InputsValid
<1>6. PICK brought : brought = Brought(new.inputs, existing.queue, s.queue)
  OBVIOUS
<1>7. Rebased(existing.queue, brought, new.queue)
  BY <1>1, <1>5, <1>6, QueueKept DEF Mergeable
<1>8. /\ existing.queue \in Seq(MessageType) /\ new.queue \in Seq(MessageType)
      /\ new.inputs \in Seq(InputType) /\ s.queue \in Seq(MessageType)
      /\ brought \in Seq(MessageType)
  BY <1>1, <1>6, ImageParts, MergedQueueIs DEF Merges
<1>9. ToSet(existing.queue) \subseteq ToSet(new.queue)
  BY <1>7 DEF Rebased, Grows, ToSet
<1>10. ASSUME NEW x \in ToSet(new.queue), Has(existing.ledger, x.id)
       PROVE  x \in ToSet(existing.queue)
  <2>1. PICK n \in Nat, k \in Nat :
          /\ n = Len(existing.queue) /\ k = Len(brought)
          /\ DOMAIN existing.queue = 1..n /\ DOMAIN brought = 1..k
    BY <1>8, LenProperties
  <2>2. DOMAIN new.queue = 1..(n + k)
    BY <1>7, <1>8, <2>1, LenProperties DEF Rebased
  <2>3. PICK i \in 1..(n + k) : x = new.queue[i]
    BY <2>2 DEF ToSet
  <2>4. CASE i \in 1..n
    BY <1>7, <2>1, <2>3, <2>4 DEF Rebased, Grows, ToSet
  <2>5. CASE i \notin 1..n
    <3>1. i - n \in 1..k /\ i = n + (i - n)
      BY <2>5
    <3>2. PICK j \in 1..k : i = n + j
      BY <3>1
    <3>3. SameButTime(x, brought[j])
      BY <1>7, <2>1, <2>3, <3>2 DEF Rebased
    <3>4. Arrives(existing, s, new, brought[j])
      BY <1>2, <1>6, <2>1, <3>2, BroughtArrives DEF ToSet
    <3> QED
      BY <1>10, <3>3, <3>4 DEF SameButTime, Arrives
  <2> QED
    BY <2>4, <2>5
<1>11. Claimed(new) = Claimed(existing)
  BY <1>5 DEF Claimed
<1>12. ASSUME NEW id, Has(existing.ledger, id) PROVE MessageOf(new, id) = MessageOf(existing, id)
  BY <1>9, <1>10, <1>11, <1>12 DEF MessageOf
<1> QED
  BY <1>3, <1>4, <1>5, <1>12 DEF Continues, Grows

(* A copy that was not edited has nothing that the file has not.           *)
LEMMA StaleRecords ==
  ASSUME NEW s \in ImageType, NEW old \in ImageType, Valid(s), Valid(old), Continues(s, old)
  PROVE  /\ MayIntroduce(old, s) /\ SameEvents(old, s) /\ RunsAgree(old.runs, s.runs)
         /\ Agree(old.inputs, s.inputs)
         /\ \A x \in ToSet(s.ledger) : Has(old.ledger, x.id)
         /\ \A x \in ToSet(s.runs) : Has(old.runs, x.id)
         /\ \A x \in ToSet(s.outbox) : Has(old.outbox, x.id)
<1>1. /\ Grows(old.ledger, s.ledger) /\ Grows(old.inputs, s.inputs)
      /\ RunsFollow(old.runs, s.runs) /\ OutboxFollows(old.outbox, s.outbox)
      /\ \A id : Has(s.ledger, id) => MessageOf(old, id) = MessageOf(s, id)
  BY DEF Continues, GoesOn
<1>2. /\ DistinctIds(old.ledger) /\ DistinctIds(old.inputs) /\ DistinctIds(old.runs)
      /\ \A run \in ToSet(s.runs) : RunWellFormed(run)
  BY DEF Valid, LedgerValid, InputsValid, RunsValid
<1>3. ASSUME NEW x \in ToSet(s.ledger) PROVE x \in ToSet(old.ledger)
  BY <1>1 DEF Grows, ToSet
<1>4. ASSUME NEW x \in ToSet(s.inputs) PROVE x \in ToSet(old.inputs)
  BY <1>1 DEF Grows, ToSet
<1>5. ASSUME NEW x \in ToSet(s.runs)
      PROVE  \E run \in ToSet(old.runs) : run.id = x.id /\ (run = x \/ IsDescendant(run, x))
  <2>1. PICK i \in DOMAIN s.runs : x = s.runs[i]
    BY DEF ToSet
  <2>2. i \in DOMAIN old.runs /\ (old.runs[i] = x \/ IsDescendant(old.runs[i], x))
    BY <1>1, <2>1 DEF RunsFollow
  <2>3. old.runs[i] \in ToSet(old.runs) /\ old.runs[i].id = x.id
    BY <2>2 DEF ToSet, IsDescendant
  <2> QED
    BY <2>2, <2>3
<1>6. ASSUME NEW x \in ToSet(s.outbox) PROVE Has(old.outbox, x.id)
  <2>1. PICK i \in DOMAIN s.outbox : x = s.outbox[i]
    BY DEF ToSet
  <2>2. i \in DOMAIN old.outbox /\ old.outbox[i].id = x.id
    BY <1>1, <2>1 DEF OutboxFollows, SameEnqueue
  <2> QED
    BY <2>2 DEF Has
<1>7. MayIntroduce(old, s)
  <2>1. \A input \in ToSet(s.inputs) : Has(old.inputs, input.id)
    BY <1>4, HasIs
  <2>2. ASSUME NEW x \in ToSet(s.runs)
        PROVE  /\ \E run \in Find(old.runs, x.id) : x = run \/ IsDescendant(run, x)
               /\ x.outputs = <<>> \/ \E run \in Find(old.runs, x.id) : run.outputs = x.outputs
    <3>1. PICK run \in ToSet(old.runs) : run.id = x.id /\ (run = x \/ IsDescendant(run, x))
      BY <1>5
    <3>2. run \in Find(old.runs, x.id)
      BY <3>1 DEF Find
    <3>3. CASE run = x
      BY <3>2, <3>3
    <3>4. CASE IsDescendant(run, x)
      <4>1. x.outputs = <<>>
        BY <1>2, <3>4, DescendantIsLater DEF RunWellFormed, IsTerminal
      <4> QED
        BY <3>2, <3>4, <4>1
    <3> QED
      BY <3>1, <3>3, <3>4
  <2> QED
    BY <1>6, <2>1, <2>2 DEF MayIntroduce
<1>8. SameEvents(old, s)
  <2>1. ASSUME NEW e \in ToSet(s.ledger)
        PROVE  Find(old.ledger, e.id) = {e} /\ MessageOf(old, e.id) = MessageOf(s, e.id)
    <3>1. e \in Find(old.ledger, e.id)
      BY <1>3 DEF Find
    <3>2. \A x \in Find(old.ledger, e.id) : x = e
      BY <1>2, <1>3, SameRecord
    <3>3. Has(s.ledger, e.id)
      BY HasIs
    <3> QED
      BY <1>1, <3>1, <3>2, <3>3
  <2> QED
    BY <2>1 DEF SameEvents
<1>9. RunsAgree(old.runs, s.runs)
  <2>1. ASSUME NEW x \in ToSet(s.runs), NEW run \in Find(old.runs, x.id)
        PROVE  x = run \/ IsDescendant(x, run) \/ IsDescendant(run, x)
    <3>1. PICK r \in ToSet(old.runs) : r.id = x.id /\ (r = x \/ IsDescendant(r, x))
      BY <1>5
    <3>2. r = run
      BY <1>2, <3>1, SameRecord DEF Find
    <3> QED
      BY <3>1, <3>2
  <2> QED
    BY <2>1 DEF RunsAgree
<1>10. Agree(old.inputs, s.inputs)
  <2>1. ASSUME NEW x \in ToSet(s.inputs) PROVE Find(old.inputs, x.id) = {x}
    <3>1. x \in Find(old.inputs, x.id)
      BY <1>4 DEF Find
    <3>2. \A y \in Find(old.inputs, x.id) : y = x
      BY <1>2, <1>4, SameRecord
    <3> QED
      BY <3>1, <3>2
  <2> QED
    BY <2>1 DEF Agree
<1>11. (\A x \in ToSet(s.ledger) : Has(old.ledger, x.id)) /\ \A x \in ToSet(s.runs) : Has(old.runs, x.id)
  BY <1>3, <1>5, HasIs
<1> QED
  BY <1>6, <1>7, <1>8, <1>9, <1>10, <1>11

LEMMA StaleMerge ==
  ASSUME NEW s \in ImageType, NEW old \in ImageType, Valid(s), Valid(old), Continues(s, old),
         NEW new, new = Merged(old, s)
  PROVE  /\ new.runs = old.runs /\ new.inputs = old.inputs /\ new.ledger = old.ledger
         /\ new.queue = old.queue /\ new.outbox = old.outbox
<1>1. Merges(old, s, new)
  BY MergedIs
<1>2. /\ MayIntroduce(old, s)
      /\ \A x \in ToSet(s.ledger) : Has(old.ledger, x.id)
      /\ \A x \in ToSet(s.runs) : Has(old.runs, x.id)
      /\ \A x \in ToSet(s.outbox) : Has(old.outbox, x.id)
  BY StaleRecords
<1>3. /\ old.ledger \in Seq(EntryType) /\ s.ledger \in Seq(EntryType)
      /\ old.outbox \in Seq(DeliveryType) /\ s.outbox \in Seq(DeliveryType)
      /\ old.runs \in Seq(RunType) /\ s.runs \in Seq(RunType)
      /\ old.queue \in Seq(MessageType) /\ s.queue \in Seq(MessageType)
      /\ old.inputs \in Seq(InputType)
  BY ImageParts
<1>4. new.ledger = old.ledger /\ new.outbox = old.outbox
  BY <1>1, <1>2, <1>3, UnionOfKnown DEF Merges
<1>5. new.inputs = old.inputs
  BY <1>1, <1>2, InputsKept
<1>6. new.runs = old.runs
  <2>1. PICK kept \in Seq(RunType) :
          /\ new.runs = Union(kept, s.runs)
          /\ DOMAIN kept = DOMAIN old.runs
          /\ \A j \in DOMAIN old.runs :
               \/ kept[j] = old.runs[j] /\ LaterOf(s.runs, old.runs[j]) = {}
               \/ kept[j] \in LaterOf(s.runs, old.runs[j])
    BY <1>1, <1>3, MergedRunsAre DEF Merges
  <2>2. ASSUME NEW j \in DOMAIN old.runs, NEW x \in LaterOf(s.runs, old.runs[j]) PROVE FALSE
    <3>1. x \in ToSet(s.runs) /\ x.id = old.runs[j].id /\ IsDescendant(x, old.runs[j])
      BY <2>2 DEF LaterOf, Find
    <3>2. PICK i \in DOMAIN s.runs : x = s.runs[i]
      BY <3>1 DEF ToSet
    <3>3. i \in DOMAIN old.runs /\ (old.runs[i] = x \/ IsDescendant(old.runs[i], x))
      BY <3>2 DEF Continues, GoesOn, RunsFollow
    <3>4. old.runs[i].id = x.id
      BY <3>3 DEF IsDescendant
    <3>5. i = j
      BY <3>1, <3>3, <3>4 DEF Valid, RunsValid, DistinctIds
    <3> QED
      BY <3>1, <3>3, <3>5, DescendantIsLater
  <2>3. \A j \in DOMAIN old.runs : kept[j] = old.runs[j]
    BY <2>1, <2>2
  <2>4. kept = old.runs
    <3>1. PICK n \in Nat : n = Len(old.runs) /\ DOMAIN old.runs = 1..n
      BY <1>3, LenProperties
    <3>2. Len(kept) \in Nat /\ DOMAIN kept = 1..Len(kept)
      BY LenProperties
    <3>3. Len(kept) = n
      BY <2>1, <3>1, <3>2
    <3>4. \A i \in 1..Len(kept) : kept[i] = old.runs[i]
      BY <2>3, <3>1, <3>3
    <3> QED
      BY <1>3, <3>1, <3>3, <3>4, SeqEqual
  <2> QED
    BY <1>2, <1>3, <2>1, <2>4, UnionOfKnown
<1>7. new.queue = old.queue
  <2>1. ClaimedOnce(old)
    BY DEF Valid, InputsValid
  <2>2. PICK brought \in Seq(MessageType) :
          brought = Brought(new.inputs, old.queue, s.queue)
    BY <1>3, <1>5, MergedQueueIs
  <2>3. Rebased(old.queue, brought, new.queue)
    BY <1>1, <1>2, <2>1, <2>2, QueueKept
  <2>4. ToSet(brought) = ToSet(s.queue) \cap {m \in ToSet(s.queue) :
                               /\ ~\E c \in ClaimedIn(new.inputs) : c.id = m.id
                               /\ ~Has(old.queue, m.id)}
    BY <1>3, <2>2, SelectType DEF Brought
  <2>5. ASSUME NEW b \in ToSet(brought) PROVE FALSE
    <3>1. /\ b \in ToSet(s.queue) /\ ~Has(old.queue, b.id)
          /\ ~\E c \in Claimed(old) : c.id = b.id
      BY <1>5, <2>4, <2>5 DEF ClaimedIn, Claimed
    <3>2. MatchesLedger(s, b)
      BY <3>1 DEF Valid, QueueValid
    <3>3. MessageOf(old, b.id) = MessageOf(s, b.id)
      BY <3>2, MatchIsFiled DEF Continues
    <3>4. b \in MessageOf(old, b.id)
      BY <3>1, <3>3 DEF MessageOf
    <3> QED
      BY <3>1, <3>4, HasIs DEF MessageOf
  <2>6. brought = <<>>
    <3>1. ToSet(brought) = {}
      BY <2>5
    <3> QED
      BY <3>1, ElementsEmpty
  <2>7. PICK n \in Nat : n = Len(old.queue) /\ DOMAIN old.queue = 1..n
    BY <1>3, LenProperties
  <2>8. new.queue \in Seq(MessageType) /\ Len(new.queue) = n + 0
        /\ \A i \in 1..n : new.queue[i] = old.queue[i]
    <3>1. Len(brought) = 0
      BY <2>6, EmptySeq
    <3> QED
      BY <2>3, <2>7, <3>1 DEF Rebased, Grows
  <2>9. Len(new.queue) = n
    BY <2>7, <2>8
  <2>10. \A i \in 1..Len(new.queue) : new.queue[i] = old.queue[i]
    BY <2>8, <2>9
  <2> QED
    BY <1>3, <2>7, <2>8, <2>9, <2>10, SeqEqual
<1> QED
  BY <1>4, <1>5, <1>6, <1>7

(* A copy that was not edited lags behind the file.                        *)
Lags(s) == \A img \in LoadForMerge(file) : Continues(s, img)

CopiesLag ==
  /\ CopiesValid
  /\ edits \in [Embedder -> Nat]
  /\ \A m \in Embedder : edits[m] = 0 => \A s \in snapshot[m] : Lags(s)

LEMMA InitLags ==
  ASSUME Init
  PROVE  CopiesLag
<1>1. CopiesValid
  BY InitCopies
<1>2. edits \in [Embedder -> Nat] /\ \A m \in Embedder : snapshot[m] = {}
  BY DEF Init
<1> QED
  BY <1>1, <1>2 DEF CopiesLag

(* What is written continues the file, hence every copy that lags.         *)
LEMMA WrittenLags ==
  ASSUME CopiesLag, [Next]_vars, NEW existing \in LoadForMerge(file), NEW new \in ImageType,
         Continues(existing, new), Stores(new), Stays
  PROVE  CopiesLag'
<1>1. CopiesValid'
  BY CopiesStay DEF CopiesLag
<1>2. LoadForMerge(file)' = {new}
  BY WrittenIs DEF LoadForMerge
<1>3. existing \in ImageType
  BY LoadedIs DEF CopiesLag, CopiesValid
<1>4. ASSUME NEW m \in Embedder, edits[m] = 0, NEW s \in snapshot[m] PROVE Continues(s, new)
  <2>1. s \in ImageType /\ Continues(s, existing)
    BY <1>4 DEF CopiesLag, CopiesValid, Typed, Lags
  <2> QED
    BY <1>3, <2>1, ContinuesOn
<1>5. snapshot' = snapshot /\ edits' = edits
  BY DEF Stays
<1>6. \A m \in Embedder : edits[m] = 0 => \A s \in snapshot[m] : Lags(s)'
  BY <1>2, <1>4 DEF Lags
<1> QED
  BY <1>1, <1>5, <1>6 DEF CopiesLag

LEMMA LagsStay ==
  ASSUME CopiesLag, [Next]_vars
  PROVE  CopiesLag'
<1>1. Typed /\ CopiesValid' /\ now \in Nat
  BY CopiesStay DEF CopiesLag, CopiesValid, Typed
<1>2. ASSUME NEW img \in Load(file) PROVE img \in ImageType /\ Valid(img)
  BY <1>1, LoadedIs, ReadIsValid
<1>3. ASSUME NEW img \in LoadForMerge(file) PROVE img \in ImageType /\ Valid(img)
  BY <1>1, LoadedIs, ReadIsValid
<1>4. ASSUME NEW img \in Load(file), NEW existing \in LoadForMerge(file)
      PROVE  Continues(img, existing) /\ Continues(existing, img)
  <2>1. SameRecords(img, existing)
    BY <1>1, ReadIsOne DEF Typed
  <2> QED
    BY <2>1, SameContinues, SameGoesOn DEF SameRecords, GoesOn
<1>5. ASSUME NEW img \in Load(file) PROVE \E existing \in LoadForMerge(file) : TRUE
  BY DEF Load, LoadForMerge
<1>6. CASE Passes
  <2>1. LoadForMerge(file)' = LoadForMerge(file)
    BY <1>6 DEF Passes, LoadForMerge
  <2> QED
    BY <1>1, <1>6, <2>1 DEF Passes, CopiesLag, Lags
<1>7. ASSUME NEW m \in Embedder, NEW img, Loads(m, img) PROVE CopiesLag'
  <2>1. LoadForMerge(file)' = LoadForMerge(file) /\ edits' = edits
    BY <1>7 DEF Loads, LoadForMerge
  <2>2. Lags(img)
    BY <1>4, <1>7 DEF Loads, Lags
  <2>3. \A k \in Embedder : snapshot'[k] = IF k = m THEN {img} ELSE snapshot[k]
    BY <1>1, <1>7 DEF Loads, Typed
  <2>4. \A k \in Embedder : edits[k] = 0 => \A s \in snapshot'[k] : Lags(s)
    BY <2>2, <2>3 DEF CopiesLag
  <2> QED
    BY <1>1, <2>1, <2>4 DEF CopiesLag, Lags
<1>8. ASSUME NEW m \in Embedder, NEW old, NEW new, Edits(m, old, new) PROVE CopiesLag'
  <2>1. LoadForMerge(file)' = LoadForMerge(file)
    BY <1>8 DEF Edits, LoadForMerge
  <2>2. /\ edits' \in [Embedder -> Nat] /\ edits'[m] # 0
        /\ \A k \in Embedder \ {m} : edits'[k] = edits[k]
    BY <1>8 DEF Edits, CopiesLag
  <2>3. \A k \in Embedder \ {m} : snapshot'[k] = snapshot[k]
    BY <1>1, <1>8 DEF Edits, Typed
  <2>4. \A k \in Embedder : edits'[k] = 0 => \A s \in snapshot'[k] : Lags(s)
    BY <2>2, <2>3 DEF CopiesLag
  <2> QED
    BY <1>1, <2>1, <2>2, <2>4 DEF CopiesLag, Lags
<1>9. ASSUME NEW existing \in LoadForMerge(file), NEW s \in ImageType, Valid(s),
             Mergeable(existing, s), Stores(Merged(existing, s)), Stays
      PROVE  CopiesLag'
  <2>1. PICK new \in ImageType : new = Merged(existing, s)
    BY <1>3, <1>9, MergedIs DEF Merges
  <2>2. Continues(existing, new)
    BY <1>3, <1>9, <2>1, MergeContinues
  <2> QED
    BY <1>9, <2>1, <2>2, WrittenLags
<1>10. ASSUME NEW img \in Load(file), NEW new \in ImageType, Continues(img, new), Stores(new), Stays
       PROVE  CopiesLag'
  <2>1. PICK existing \in LoadForMerge(file) : TRUE
    BY <1>5
  <2>2. Continues(existing, new)
    BY <1>2, <1>3, <1>4, <1>10, ContinuesOn
  <2> QED
    BY <1>10, <2>1, <2>2, WrittenLags
<1>11. ASSUME NEW m \in Embedder, NEW s, NEW existing, Saves(m, s, existing) PROVE CopiesLag'
  <2>1. s \in ImageType /\ Valid(s)
    BY <1>11 DEF Saves, CopiesLag, CopiesValid, Typed
  <2> QED
    BY <1>9, <1>11, <2>1 DEF Saves
<1>12. ASSUME NEW img, NEW new, NEW existing, Receives(img, new, existing) PROVE CopiesLag'
  <2>1. img \in Load(file) /\ Edited(img, new)
    BY <1>12 DEF Receives
  <2>2. new \in ImageType /\ Valid(new)
    BY <1>2, <2>1, EditedType, EditedValid
  <2> QED
    BY <1>9, <1>12, <2>2 DEF Receives
<1>13. ASSUME NEW img, NEW new, Updates(img, new) PROVE CopiesLag'
  <2>1. img \in Load(file) /\ Updated(img, new)
    BY <1>13 DEF Updates
  <2>2. new \in ImageType /\ Continues(img, new)
    BY <1>2, <2>1, EditedType, UpdatedContinues
  <2> QED
    BY <1>10, <1>13, <2>1, <2>2 DEF Updates
<1>14. ASSUME NEW img, NEW id, NEW messages, NEW new, Completes(img, id, messages, new)
       PROVE  CopiesLag'
  <2>1. /\ img \in Load(file) /\ id \in AgentRun /\ messages \in Outputs
        /\ CompletedBy(img, id, messages, now, new)
    BY <1>14 DEF Completes
  <2>2. new \in ImageType
    BY <2>1 DEF CompletedBy, RunCompleted
  <2>3. Continues(img, new)
    BY <1>1, <1>2, <2>1, CompletionContinues
  <2> QED
    BY <1>10, <1>14, <2>1, <2>2, <2>3 DEF Completes
<1> QED
  BY <1>1, <1>6, <1>7, <1>8, <1>11, <1>12, <1>13, <1>14, StepShape

(* Such a copy is merged without effect, and only what is said there       *)
(* stands in the way of it.                                                *)
LEMMA LagsImply ==
  ASSUME CopiesLag
  PROVE  StaleSaveChangesNothing
<1>1. ASSUME NEW m \in Embedder, edits[m] = 0, NEW s \in snapshot[m], NEW old \in Load(file),
             NEW saved, saved = Save(old, s)
      PROVE  /\ \A new \in saved : [c \in Collections |-> new[c]] = [c \in Collections |-> old[c]]
             /\ saved = {} =>
                  ~Agree(old.outbox, s.outbox) \/ \E x \in ToSet(old.sessions) : ~Has(s.sessions, x.id)
  <2>1. /\ Typed /\ now \in Nat
        /\ s \in ImageType /\ old \in ImageType /\ Valid(s) /\ Valid(old)
    BY <1>1, ReadIsValid DEF CopiesLag, CopiesValid, Typed
  <2>2. PICK existing \in LoadForMerge(file) : TRUE
    BY <1>1 DEF Load, LoadForMerge
  <2>3. SameRecords(old, existing)
    BY <1>1, <2>1, <2>2, ReadIsOne DEF Typed
  <2>4. existing \in ImageType /\ Continues(s, existing)
    BY <1>1, <2>1, <2>2, LoadedIs DEF CopiesLag, Lags
  <2>5. Continues(existing, old)
    BY <2>3, SameContinues, SameGoesOn DEF SameRecords, GoesOn
  <2>6. Continues(s, old)
    BY <2>1, <2>4, <2>5, ContinuesOn
  <2>7. PICK new : new = Merged(old, s)
    OBVIOUS
  <2>8. /\ new.runs = old.runs /\ new.inputs = old.inputs /\ new.ledger = old.ledger
        /\ new.queue = old.queue /\ new.outbox = old.outbox
    BY <2>1, <2>6, <2>7, StaleMerge
  <2>9. saved = IF Mergeable(old, s) THEN Accept(Valid(new), new) ELSE {}
    BY <1>1, <2>7 DEF Save
  <2>10. \A c \in Collections : new[c] = old[c]
    BY <2>8, TheCollections
  <2>11. ASSUME Agree(old.outbox, s.outbox), \A x \in ToSet(old.sessions) : Has(s.sessions, x.id)
         PROVE  saved # {}
    <3>1. Mergeable(old, s)
      BY <2>1, <2>6, <2>11, StaleRecords DEF Mergeable
    <3>2. Merges(old, s, new)
      BY <2>1, <2>7, MergedIs
    <3>3. Merging(old, s, new)
      BY <2>1, <3>1, <3>2 DEF Merging, Mergeable
    <3>4. KeepsSessions(old, new)
      BY <2>11, <3>2, HasIs DEF KeepsSessions, Merges
    <3>5. OneOwner(new.runs)
      BY <2>1, <2>8 DEF OneOwner, Valid, RunsValid
    <3>6. Valid(new)
      BY <3>3, <3>4, <3>5, MergingIsValid
    <3> QED
      BY <2>9, <3>1, <3>6 DEF Accept
  <2>12. ASSUME NEW x \in saved PROVE x = new
    BY <2>9, <2>12 DEF Accept
  <2> QED
    BY <2>10, <2>11, <2>12
<1> QED
  BY <1>1 DEF StaleSaveChangesNothing

-----------------------------------------------------------------------------
(* UnreadableFileIsKept: no operation replaces a file it cannot read.      *)
THEOREM UnreadableKept == Spec => UnreadableFileIsKept
<1>1. OneFile /\ [Next]_vars => [\A wire \in file : Parse(wire) = {} => file' = file]_file
  BY UnreadableStays
<1> QED
  BY <1>1, OneFileStays, PTL DEF Spec, UnreadableFileIsKept

(* WrittenFilesAreRead: no operation writes a file that the next one would *)
(* refuse, or not read in full.                                            *)
THEOREM WrittenAreRead == Spec => WrittenFilesAreRead
<1>1. [Next]_vars =>
        [file' # file => \A wire \in file' : \E img \in Parse(wire) : wire = Encode(img)]_vars
  BY WrittenIsRead
<1> QED
  BY <1>1, PTL DEF Spec, WrittenFilesAreRead

(* FilesAreReadInFull: of no file that is read is a part left out; and     *)
(* when the files of the released versions can be read, as TLC checks of   *)
(* each version, then so can every file that comes of one of them by       *)
(* operations of the store and by saves.                                   *)
THEOREM ReadInFull ==
  (\A f \in ReleasedFiles : LoadForMerge(f) # {}) => (Spec => []FilesAreReadInFull)
<1> SUFFICES ASSUME \A f \in ReleasedFiles : LoadForMerge(f) # {}
             PROVE  Spec => []FilesAreReadInFull
  OBVIOUS
<1> DEFINE Read == file \notin OddFiles => LoadForMerge(file) # {}
<1>1. Init => Read
  BY DEF Init
<1>2. Read /\ [Next]_vars => Read'
  <2>1. SUFFICES ASSUME Read, [Next]_vars PROVE Read'
    OBVIOUS
  <2>2. CASE Replaces
    <3>1. PICK img : Stores(img)
      BY <2>2 DEF Replaces
    <3>2. file' = {Encode(img)} /\ Parse(Encode(img)) # {}
      BY <3>1, EncodedIsRead DEF Stores
    <3> QED
      BY <3>2 DEF LoadForMerge
  <2>3. CASE file' = file
    BY <2>1, <2>3
  <2> QED
    BY <2>1, <2>2, <2>3, EveryStep
<1>3. Read => FilesAreReadInFull
  BY ReadIsInFull DEF FilesAreReadInFull, Load
<1> QED
  BY <1>1, <1>2, <1>3, PTL DEF Spec

(* SaveOnlyAdds: whatever a snapshot holds and however old it is, saving   *)
(* it removes nothing from the file: not an entry of the ledger, a message *)
(* that waits, a delivery or a run input.  A run of the file only goes on, *)
(* and one that has an input is not started or completed this way.         *)
THEOREM SavesOnlyAdd == Spec => SaveOnlyAdds
<1>1. Typed /\ [Next]_vars =>
        [\A m \in Embedder : SaveSnapshot(m) =>
           \A old \in Load(file), new \in Load(file') : Extends(new, old)]_vars
  BY SaveExtends
<1>2. Typed /\ [Next]_vars => Typed'
  BY TypedStays
<1> QED
  BY <1>1, <1>2, InitTyped, PTL DEF Spec, SaveOnlyAdds

(* ConfirmedCompletionStands: what was confirmed to whoever completed a    *)
(* run is still there, and alone, after any operations of the store and    *)
(* saves of any snapshots.                                                 *)
THEOREM CompletionsStand == Spec => []ConfirmedCompletionStands
<1>1. Init => PromisesKept
  BY InitPromises
<1>2. PromisesKept /\ [Next]_vars => PromisesKept'
  BY PromisesStay
<1>3. PromisesKept => ConfirmedCompletionStands
  BY PromisesImply
<1> QED
  BY <1>1, <1>2, <1>3, PTL DEF Spec

(* MergesAreValid: the validation that ends a save never finds fault with  *)
(* a merge that met no conflict, kept the sessions of the file and gave no *)
(* session two owners: sequence, times and promises are the merge's own    *)
(* work, however the file and the copy have gone on.                       *)
THEOREM MergesNeedNoValidation == Spec => []MergesAreValid
<1>1. Init => CopiesValid
  BY InitCopies
<1>2. CopiesValid /\ [Next]_vars => CopiesValid'
  BY CopiesStay
<1>3. CopiesValid => MergesAreValid
  BY CopiesImply
<1> QED
  BY <1>1, <1>2, <1>3, PTL DEF Spec

(* StaleSaveChangesNothing: a copy that was not edited since it was loaded *)
(* is saved, however late, without a change to a record of the file, and   *)
(* nothing but a delivery that went on or a session that came since keeps  *)
(* it from being saved.                                                    *)
THEOREM StaleSavesChangeNothing == Spec => []StaleSaveChangesNothing
<1>1. Init => CopiesLag
  BY InitLags
<1>2. CopiesLag /\ [Next]_vars => CopiesLag'
  BY LagsStay
<1>3. CopiesLag => StaleSaveChangesNothing
  BY LagsImply
<1> QED
  BY <1>1, <1>2, <1>3, PTL DEF Spec

=============================================================================
