-------------------------- MODULE MessageHandoffProofs --------------------------
(***************************************************************************)
(* Proofs about RuntimeState and MessageHandoff.                           *)
(*                                                                         *)
(* What each transition of an image changes, and that it leads from valid  *)
(* images to valid ones, for any number of events, sessions, runs and any  *)
(* batch size.  The code has two ways to know this: validate() after the   *)
(* fact, and the guards of its transitions before it.  The lemmas say that *)
(* the guards are enough.                                                  *)
(*                                                                         *)
(* The inductive invariant of MessageHandoff then says that both the       *)
(* visible and the durable image back what has been done and said outside  *)
(* of the file: every message handed out, every execution that may be      *)
(* alive, every outcome confirmed and every acknowledgement of a recorded  *)
(* event.                                                                  *)
(***************************************************************************)
EXTENDS MessageHandoff, TLAPS

(* The image record is typed field by field, and each transition of an     *)
(* image is typed and changes the fields the code changes.                 *)
LEMMA EmptyTyped == EmptyImage \in RuntimeImage
BY StateAssumption DEF EmptyImage, RuntimeImage

LEMMA RecordEventFacts ==
  ASSUME NEW st \in RuntimeImage, NEW e \in Event
  PROVE  /\ RecordEvent(st, e) \in RuntimeImage
         /\ RecordEvent(st, e).ledger = Append(st.ledger, e)
         /\ Recorded(RecordEvent(st, e)) = Recorded(st) \cup {e}
         /\ RecordEvent(st, e).queue \subseteq st.queue \cup {e}
         /\ RecordEvent(st, e).status = st.status
         /\ RecordEvent(st, e).scope = st.scope
         /\ RecordEvent(st, e).input = st.input
<1>1. st.ledger \in Seq(Event) /\ st.queue \in SUBSET Event
  BY DEF RuntimeImage
<1> DEFINE joined == IF SessionOf[e] = NoSession THEN st.queue ELSE st.queue \cup {e}
<1>2. joined \in SUBSET Event /\ Append(st.ledger, e) \in Seq(Event)
  BY <1>1
<1> HIDE DEF joined
<1>3. ASSUME NEW l \in Seq(Event), NEW k \in SUBSET Event
      PROVE  [st EXCEPT !.ledger = l, !.queue = k] \in RuntimeImage
  BY DEF RuntimeImage
<1>4. RecordEvent(st, e) \in RuntimeImage
  BY <1>2, <1>3 DEF RecordEvent, joined
<1>5. /\ RecordEvent(st, e).ledger = Append(st.ledger, e)
      /\ RecordEvent(st, e).queue = joined
      /\ RecordEvent(st, e).status = st.status
      /\ RecordEvent(st, e).scope = st.scope
      /\ RecordEvent(st, e).input = st.input
  BY DEF RecordEvent, RuntimeImage, joined
<1>6. Recorded(RecordEvent(st, e)) = Recorded(st) \cup {e}
  BY <1>1, <1>5 DEF Recorded
<1> QED
  BY <1>4, <1>5, <1>6 DEF joined

LEMMA ClaimFacts ==
  ASSUME NEW st \in RuntimeImage, NEW r \in RunId, NEW s \in Session,
         NEW b \in SUBSET st.queue
  PROVE  /\ ClaimBatch(st, r, s, b) \in RuntimeImage
         /\ ClaimBatch(st, r, s, b).ledger = st.ledger
         /\ ClaimBatch(st, r, s, b).queue = st.queue \ b
         /\ ClaimBatch(st, r, s, b).status = [st.status EXCEPT ![r] = "pending"]
         /\ ClaimBatch(st, r, s, b).scope = [st.scope EXCEPT ![r] = s]
         /\ ClaimBatch(st, r, s, b).input = [st.input EXCEPT ![r] = b]
BY DEF ClaimBatch, RuntimeImage, Active

LEMMA AddRunFacts ==
  ASSUME NEW st \in RuntimeImage, NEW r \in RunId, NEW s \in Session
  PROVE  /\ AddRun(st, r, s) \in RuntimeImage
         /\ AddRun(st, r, s).ledger = st.ledger
         /\ AddRun(st, r, s).queue = st.queue
         /\ AddRun(st, r, s).status = [st.status EXCEPT ![r] = "pending"]
         /\ AddRun(st, r, s).scope = [st.scope EXCEPT ![r] = s]
         /\ AddRun(st, r, s).input = st.input
BY DEF AddRun, RuntimeImage, Active

LEMMA SetStatusFacts ==
  ASSUME NEW st \in RuntimeImage, NEW r \in RunId,
         NEW new \in Active \cup Terminal
  PROVE  /\ SetStatus(st, r, new) \in RuntimeImage
         /\ SetStatus(st, r, new).ledger = st.ledger
         /\ SetStatus(st, r, new).queue = st.queue
         /\ SetStatus(st, r, new).status = [st.status EXCEPT ![r] = new]
         /\ SetStatus(st, r, new).scope = st.scope
         /\ SetStatus(st, r, new).input = st.input
BY DEF SetStatus, RuntimeImage

LEMMA ReconciledFacts ==
  ASSUME NEW st \in RuntimeImage
  PROVE  /\ Reconciled(st) \in RuntimeImage
         /\ Reconciled(st).ledger = st.ledger
         /\ Reconciled(st).queue = st.queue
         /\ \A r \in RunId :
              Reconciled(st).status[r] =
                IF \/ st.status[r] = "running"
                   \/ st.status[r] = "pending" /\ st.input[r] = {}
                THEN "interrupted" ELSE st.status[r]
         /\ Reconciled(st).scope = st.scope
         /\ Reconciled(st).input = st.input
BY DEF Reconciled, RuntimeImage, Active

-----------------------------------------------------------------------------
LEMMA EmptyValid == Valid(EmptyImage)
<1>1. /\ EmptyImage.ledger = <<>> /\ EmptyImage.queue = {}
      /\ EmptyImage.status = [r \in RunId |-> Absent]
      /\ EmptyImage.input = [r \in RunId |-> {}]
  BY DEF EmptyImage
<1> QED
  BY <1>1 DEF Valid, LedgerUnique, OneActiveRun, OwnedOnce, OwnedInOrder, Active, Absent

(* The ledger only grows at its end: what was before something else stays  *)
(* before it, and everything recorded is before the new event.             *)
LEMMA LedgerGrows ==
  ASSUME NEW st \in RuntimeImage, NEW e \in Event
  PROVE  /\ \A x, y : Before(st, x, y) => Before(RecordEvent(st, e), x, y)
         /\ \A x \in Recorded(st) : Before(RecordEvent(st, e), x, e)
         /\ LedgerUnique(st) /\ e \notin Recorded(st) => LedgerUnique(RecordEvent(st, e))
<1> DEFINE img == RecordEvent(st, e)
           n == Len(st.ledger)
<1>1. st.ledger \in Seq(Event) /\ n \in Nat /\ DOMAIN st.ledger = 1..n
  BY DEF RuntimeImage
<1>2. img.ledger = Append(st.ledger, e)
  BY RecordEventFacts
<1>3. /\ DOMAIN img.ledger = 1..(n + 1)
      /\ \A i \in 1..n : img.ledger[i] = st.ledger[i]
      /\ img.ledger[n + 1] = e
  BY <1>1, <1>2
<1> HIDE DEF img, n
<1>4. ASSUME NEW x, NEW y, Before(st, x, y) PROVE Before(img, x, y)
  BY <1>1, <1>3, <1>4 DEF Before
<1>5. ASSUME NEW x \in Recorded(st) PROVE Before(img, x, e)
  <2>1. PICK i \in 1..n : st.ledger[i] = x
    BY <1>1 DEF Recorded
  <2>2. /\ i \in DOMAIN img.ledger /\ n + 1 \in DOMAIN img.ledger /\ i < n + 1
        /\ img.ledger[i] = x /\ img.ledger[n + 1] = e
    BY <1>1, <1>3, <2>1
  <2> QED
    BY <2>2 DEF Before
<1>6. ASSUME LedgerUnique(st), e \notin Recorded(st) PROVE LedgerUnique(img)
  <2>1. \A i \in 1..n : st.ledger[i] # e
    BY <1>1, <1>6 DEF Recorded
  <2> QED
    BY <1>1, <1>3, <1>6, <2>1 DEF LedgerUnique
<1> QED
  BY <1>4, <1>5, <1>6 DEF img

(* A new event is recorded behind everything that is owned.                *)
LEMMA RecordEventValid ==
  ASSUME NEW st \in RuntimeImage, NEW e \in Event, Valid(st), e \notin Recorded(st)
  PROVE  Valid(RecordEvent(st, e))
<1> DEFINE img == RecordEvent(st, e)
<1>1. /\ Recorded(img) = Recorded(st) \cup {e}
      /\ img.queue \subseteq st.queue \cup {e}
      /\ img.status = st.status
      /\ img.scope = st.scope
      /\ img.input = st.input
  BY RecordEventFacts
<1>2. /\ LedgerUnique(img)
      /\ \A x, y : Before(st, x, y) => Before(img, x, y)
      /\ \A x \in Recorded(st) : Before(img, x, e)
  BY LedgerGrows DEF Valid
<1> HIDE DEF img
<1>3. OneActiveRun(img)
  BY <1>1 DEF Valid, OneActiveRun
<1>4. OwnedOnce(img)
  BY <1>1 DEF Valid, OwnedOnce
<1>5. ASSUME NEW r \in RunId, NEW x \in img.input[r], NEW y \in QueueOf(img, img.scope[r])
      PROVE  Before(img, x, y)
  <2>1. x \in Recorded(st) /\ x \in st.input[r]
    BY <1>1 DEF Valid, OwnedOnce
  <2>2. y = e \/ y \in QueueOf(st, st.scope[r])
    BY <1>1 DEF QueueOf
  <2> QED
    BY <1>2, <2>1, <2>2 DEF Valid, OwnedInOrder
<1>6. ASSUME NEW q \in RunId, NEW r \in RunId, q # r, img.scope[q] = img.scope[r]
      PROVE  \/ \A x \in img.input[q], y \in img.input[r] : Before(img, x, y)
             \/ \A x \in img.input[q], y \in img.input[r] : Before(img, y, x)
  BY <1>1, <1>2, <1>6 DEF Valid, OwnedInOrder
<1>7. Valid(img)
  BY <1>2, <1>3, <1>4, <1>5, <1>6 DEF Valid, OwnedInOrder
<1> QED
  BY <1>7 DEF img

(* The batch is behind every input of its session, which was claimed       *)
(* before, and in front of everything that stays queued.                   *)
LEMMA ClaimValid ==
  ASSUME NEW st \in RuntimeImage, NEW r \in RunId, NEW s \in Session,
         NEW b \in SUBSET st.queue, Valid(st),
         st.status[r] = Absent, ~Owned(st, s), IsBatch(st, s, b)
  PROVE  Valid(ClaimBatch(st, r, s, b))
<1> DEFINE img == ClaimBatch(st, r, s, b)
<1>1. /\ img.ledger = st.ledger
      /\ img.queue = st.queue \ b
      /\ img.status = [st.status EXCEPT ![r] = "pending"]
      /\ img.scope = [st.scope EXCEPT ![r] = s]
      /\ img.input = [st.input EXCEPT ![r] = b]
  BY ClaimFacts
<1> HIDE DEF img
<1>2. /\ img.status[r] = "pending" /\ img.scope[r] = s /\ img.input[r] = b
      /\ \A q \in RunId \ {r} : /\ img.status[q] = st.status[q]
                                /\ img.scope[q] = st.scope[q]
                                /\ img.input[q] = st.input[q]
  BY <1>1 DEF RuntimeImage
<1>3. /\ Recorded(img) = Recorded(st) /\ LedgerUnique(img)
      /\ \A x, y : Before(st, x, y) => Before(img, x, y)
  BY <1>1 DEF Recorded, Before, LedgerUnique, Valid
<1>4. OneActiveRun(img)
  BY <1>2 DEF Valid, OneActiveRun, Owned, Active
<1>5. /\ b \subseteq QueueOf(st, s) /\ st.input[r] = {}
      /\ \A x \in b, y \in QueueOf(st, s) \ b : Before(st, x, y)
  BY DEF IsBatch, Valid, OwnedOnce
<1>6. OwnedOnce(img)
  <2>1. \A e \in b : SessionOf[e] = s /\ e \in Recorded(st)
    BY <1>5 DEF QueueOf, Valid, OwnedOnce
  <2>2. \A q \in RunId \ {r} : b \cap st.input[q] = {}
    BY DEF Valid, OwnedOnce
  <2>3. img.queue \subseteq Recorded(img)
    BY <1>1, <1>3 DEF Valid, OwnedOnce
  <2>4. ASSUME NEW q \in RunId
        PROVE  /\ img.input[q] \subseteq Recorded(img) \ img.queue
               /\ img.input[q] # {} => img.status[q] # Absent
               /\ \A e \in img.input[q] : SessionOf[e] = img.scope[q]
    BY <1>1, <1>2, <1>3, <2>1 DEF Valid, OwnedOnce, Absent
  <2>5. \A p, q \in RunId : p # q => img.input[p] \cap img.input[q] = {}
    BY <1>2, <2>2 DEF Valid, OwnedOnce
  <2> QED
    BY <2>3, <2>4, <2>5 DEF OwnedOnce
<1>7. ASSUME NEW q \in RunId, NEW x \in img.input[q], NEW y \in QueueOf(img, img.scope[q])
      PROVE  Before(img, x, y)
  <2>1. y \in QueueOf(st, img.scope[q]) \ b
    BY <1>1 DEF QueueOf
  <2> QED
    BY <1>2, <1>3, <1>5, <2>1 DEF Valid, OwnedInOrder
<1>8. ASSUME NEW p \in RunId, NEW q \in RunId, p # q, img.scope[p] = img.scope[q]
      PROVE  \/ \A x \in img.input[p], y \in img.input[q] : Before(img, x, y)
             \/ \A x \in img.input[p], y \in img.input[q] : Before(img, y, x)
  <2>1. ASSUME NEW t \in RunId \ {r}, st.scope[t] = s
        PROVE  \A x \in st.input[t], y \in b : Before(img, x, y)
    BY <1>3, <1>5, <2>1 DEF Valid, OwnedInOrder
  <2>2. CASE p = r
    BY <1>2, <1>8, <2>1, <2>2
  <2>3. CASE q = r
    BY <1>2, <1>8, <2>1, <2>3
  <2>4. CASE p # r /\ q # r
    BY <1>2, <1>3, <1>8, <2>4 DEF Valid, OwnedInOrder
  <2> QED
    BY <2>2, <2>3, <2>4
<1>9. Valid(img)
  BY <1>3, <1>4, <1>6, <1>7, <1>8 DEF Valid, OwnedInOrder
<1> QED
  BY <1>9 DEF img

(* An image with the ledger, the queue and the inputs of a valid one is    *)
(* valid when a run with an input keeps its scope and its record, and no   *)
(* two active runs share a session.                                        *)
LEMMA SameOwnersValid ==
  ASSUME NEW st \in RuntimeImage, NEW img \in RuntimeImage, Valid(st),
         img.ledger = st.ledger, img.queue = st.queue, img.input = st.input,
         \A r \in RunId : st.input[r] # {} =>
           img.scope[r] = st.scope[r] /\ img.status[r] # Absent,
         OneActiveRun(img)
  PROVE  Valid(img)
<1>1. /\ Recorded(img) = Recorded(st) /\ LedgerUnique(img)
      /\ \A x, y : Before(st, x, y) => Before(img, x, y)
      /\ \A s : QueueOf(img, s) = QueueOf(st, s)
  BY DEF Recorded, Before, QueueOf, LedgerUnique, Valid
<1>2. OwnedOnce(img)
  BY <1>1 DEF Valid, OwnedOnce
<1>3. OwnedInOrder(img)
  BY <1>1 DEF Valid, OwnedInOrder
<1> QED
  BY <1>1, <1>2, <1>3 DEF Valid

LEMMA AddRunValid ==
  ASSUME NEW st \in RuntimeImage, NEW r \in RunId, NEW s \in Session, Valid(st),
         st.status[r] = Absent, ~Owned(st, s)
  PROVE  Valid(AddRun(st, r, s))
<1> DEFINE img == AddRun(st, r, s)
<1>1. /\ img \in RuntimeImage
      /\ img.ledger = st.ledger
      /\ img.queue = st.queue
      /\ img.status = [st.status EXCEPT ![r] = "pending"]
      /\ img.scope = [st.scope EXCEPT ![r] = s]
      /\ img.input = st.input
  BY AddRunFacts
<1> HIDE DEF img
<1>2. OneActiveRun(img)
  BY <1>1 DEF Valid, OneActiveRun, Owned, RuntimeImage, Active
<1>3. \A q \in RunId : st.input[q] # {} =>
        img.scope[q] = st.scope[q] /\ img.status[q] # Absent
  BY <1>1 DEF Valid, OwnedOnce, RuntimeImage
<1>4. Valid(img)
  BY <1>1, <1>2, <1>3, SameOwnersValid
<1> QED
  BY <1>4 DEF img

LEMMA SetStatusValid ==
  ASSUME NEW st \in RuntimeImage, NEW r \in RunId, NEW new \in Active \cup Terminal,
         Valid(st), IsDescendant(st.status[r], new)
  PROVE  Valid(SetStatus(st, r, new))
<1> DEFINE img == SetStatus(st, r, new)
<1>1. /\ img \in RuntimeImage
      /\ img.ledger = st.ledger
      /\ img.queue = st.queue
      /\ img.status = [st.status EXCEPT ![r] = new]
      /\ img.scope = st.scope
      /\ img.input = st.input
  BY SetStatusFacts
<1> HIDE DEF img
<1>2. OneActiveRun(img)
  BY <1>1 DEF Valid, OneActiveRun, RuntimeImage, Active, Terminal, IsDescendant
<1>3. \A q \in RunId : st.input[q] # {} =>
        img.scope[q] = st.scope[q] /\ img.status[q] # Absent
  BY <1>1 DEF Valid, OwnedOnce, RuntimeImage, Active, Terminal, Absent
<1>4. Valid(img)
  BY <1>1, <1>2, <1>3, SameOwnersValid
<1> QED
  BY <1>4 DEF img

LEMMA ReconciledValid ==
  ASSUME NEW st \in RuntimeImage, Valid(st)
  PROVE  Valid(Reconciled(st))
<1> DEFINE img == Reconciled(st)
<1>1. /\ img \in RuntimeImage
      /\ img.ledger = st.ledger
      /\ img.queue = st.queue
      /\ \A r \in RunId :
           img.status[r] = IF \/ st.status[r] = "running"
                              \/ st.status[r] = "pending" /\ st.input[r] = {}
                           THEN "interrupted" ELSE st.status[r]
      /\ img.scope = st.scope
      /\ img.input = st.input
  BY ReconciledFacts
<1> HIDE DEF img
<1>2. OneActiveRun(img)
  BY <1>1 DEF Valid, OneActiveRun, Active
<1>3. \A q \in RunId : st.input[q] # {} =>
        img.scope[q] = st.scope[q] /\ img.status[q] # Absent
  BY <1>1 DEF Valid, OwnedOnce, Absent
<1>4. Valid(img)
  BY <1>1, <1>2, <1>3, SameOwnersValid
<1> QED
  BY <1>4 DEF img

-----------------------------------------------------------------------------
(* The invariant of MessageHandoff.                                        *)

(* The image st backs the messages given to agents, the live executions,   *)
(* the confirmed outcomes t and the events promised to be recorded.        *)
Backs(st, given, live, t, promised) ==
  /\ Valid(st)
  /\ \A e \in given : \E r \in RunId :
       e \in st.input[r] /\ st.status[r] \notin {Absent, "pending"}
  /\ CarefulEmbedder => \A r \in live : st.status[r] \in {"running", "interrupted"}
  /\ \A r \in RunId :
       /\ t[r] \in Terminal => st.status[r] = t[r]
       /\ t[r] = "interrupted" => st.status[r] \in {"interrupted", "failed",
                                                    "cancelled"}
  /\ promised \subseteq Recorded(st)

Given == {e \in Event : handed[e] # 0}
Live == {r \in RunId : exec[r] = "live"}
Promised == {e \in Event : acked[e] = "recorded" \/ receipt[e] = "recorded"}

(* A thread that reports an outcome has seen the execution end.            *)
OutcomesAreOver ==
  \A r \in RunId : control[r] \in {"completed", "failed"} => exec[r] # "live"

IInv ==
  /\ TypeOK
  /\ Backs(file, Given, Live, told, Promised)
  /\ Backs(disk, Given, Live, told, Promised)
  /\ HandedOnce
  /\ OutcomesAreOver

-----------------------------------------------------------------------------
(* Every transition leaves an image that backs what the old one backed, or *)
(* what the operation adds to it.                                          *)
LEMMA BacksLess ==
  ASSUME NEW st, NEW given, NEW live, NEW t, NEW promised,
         NEW fewer \in SUBSET live, NEW less \in SUBSET promised,
         Backs(st, given, live, t, promised)
  PROVE  Backs(st, given, fewer, t, less)
BY DEF Backs

LEMMA RecordEventBacks ==
  ASSUME NEW st \in RuntimeImage, NEW e \in Event,
         NEW given, NEW live, NEW t, NEW promised,
         Backs(st, given, live, t, promised),
         e \notin Recorded(st)
  PROVE  /\ Backs(RecordEvent(st, e), given, live, t, promised)
         /\ Backs(RecordEvent(st, e), given, live, t, promised \cup {e})
<1> DEFINE img == RecordEvent(st, e)
<1>0. /\ Recorded(img) = Recorded(st) \cup {e}
      /\ img.queue \subseteq st.queue \cup {e}
      /\ img.status = st.status
      /\ img.scope = st.scope
      /\ img.input = st.input
  BY RecordEventFacts
<1> HIDE DEF img
<1>1. Valid(img)
  BY RecordEventValid DEF Backs, img
<1>2. /\ Backs(img, given, live, t, promised)
      /\ Backs(img, given, live, t, promised \cup {e})
  BY <1>0, <1>1 DEF Backs
<1> QED
  BY <1>2 DEF img

LEMMA ClaimBacks ==
  ASSUME NEW st \in RuntimeImage, NEW r \in RunId, NEW s \in Session,
         NEW b \in SUBSET st.queue,
         NEW given, NEW live \in SUBSET RunId, NEW t, NEW promised,
         Backs(st, given, live, t, promised),
         st.status[r] = Absent, ~Owned(st, s), IsBatch(st, s, b)
  PROVE  Backs(ClaimBatch(st, r, s, b), given, live, t, promised)
<1> DEFINE img == ClaimBatch(st, r, s, b)
<1>0. /\ img.ledger = st.ledger
      /\ img.queue = st.queue \ b
      /\ img.status = [st.status EXCEPT ![r] = "pending"]
      /\ img.scope = [st.scope EXCEPT ![r] = s]
      /\ img.input = [st.input EXCEPT ![r] = b]
      /\ Recorded(img) = Recorded(st)
  BY ClaimFacts DEF Recorded
<1> HIDE DEF img
<1>1. Valid(img)
  BY ClaimValid DEF Backs, img
<1>2. st.input[r] = {}
  BY DEF Backs, Valid, OwnedOnce
<1>3. \A e \in given : \E q \in RunId :
        e \in img.input[q] /\ img.status[q] \notin {Absent, "pending"}
  BY <1>0, <1>2 DEF Backs, RuntimeImage
<1>4. /\ CarefulEmbedder => \A q \in live : img.status[q] \in {"running", "interrupted"}
      /\ \A q \in RunId :
           /\ t[q] \in Terminal => img.status[q] = t[q]
           /\ t[q] = "interrupted" => img.status[q] \in {"interrupted", "failed",
                                                         "cancelled"}
  BY <1>0 DEF Backs, RuntimeImage, Terminal, Absent
<1>5. Backs(img, given, live, t, promised)
  BY <1>0, <1>1, <1>3, <1>4 DEF Backs
<1> QED
  BY <1>5 DEF img

LEMMA AddRunBacks ==
  ASSUME NEW st \in RuntimeImage, NEW r \in RunId, NEW s \in Session,
         NEW given, NEW live \in SUBSET RunId, NEW t, NEW promised,
         Backs(st, given, live, t, promised),
         st.status[r] = Absent, ~Owned(st, s)
  PROVE  Backs(AddRun(st, r, s), given, live, t, promised)
<1> DEFINE img == AddRun(st, r, s)
<1>0. /\ img.ledger = st.ledger
      /\ img.queue = st.queue
      /\ img.status = [st.status EXCEPT ![r] = "pending"]
      /\ img.scope = [st.scope EXCEPT ![r] = s]
      /\ img.input = st.input
      /\ Recorded(img) = Recorded(st)
  BY AddRunFacts DEF Recorded
<1> HIDE DEF img
<1>1. Valid(img)
  BY AddRunValid DEF Backs, img
<1>2. st.input[r] = {}
  BY DEF Backs, Valid, OwnedOnce
<1>3. \A e \in given : \E q \in RunId :
        e \in img.input[q] /\ img.status[q] \notin {Absent, "pending"}
  BY <1>0, <1>2 DEF Backs, RuntimeImage
<1>4. /\ CarefulEmbedder => \A q \in live : img.status[q] \in {"running", "interrupted"}
      /\ \A q \in RunId :
           /\ t[q] \in Terminal => img.status[q] = t[q]
           /\ t[q] = "interrupted" => img.status[q] \in {"interrupted", "failed",
                                                         "cancelled"}
  BY <1>0 DEF Backs, RuntimeImage, Terminal, Absent
<1>5. Backs(img, given, live, t, promised)
  BY <1>0, <1>1, <1>3, <1>4 DEF Backs
<1> QED
  BY <1>5 DEF img

(* A status change the code allows: from pending to running it also backs  *)
(* the messages and the execution handed out, and to an outcome that       *)
(* outcome.                                                                *)
LEMMA SetStatusBacks ==
  ASSUME NEW st \in RuntimeImage, NEW r \in RunId,
         NEW new \in {"running", "interrupted", "completed", "failed", "cancelled"},
         NEW given, NEW live \in SUBSET RunId, NEW t, NEW promised,
         Backs(st, given, live, t, promised),
         IsDescendant(st.status[r], new),
         CarefulEmbedder /\ new \in Terminal => r \notin live
  PROVE  /\ Backs(SetStatus(st, r, new), given, live, t, promised)
         /\ new = "running" =>
              Backs(SetStatus(st, r, new), given \cup st.input[r], live \cup {r},
                    t, promised)
         /\ \A u : /\ u[r] \in Terminal \cup {"interrupted"} => u[r] = new
                   /\ \A q \in RunId \ {r} : u[q] = t[q]
                   => Backs(SetStatus(st, r, new), given, live, u, promised)
<1> DEFINE img == SetStatus(st, r, new)
<1>0. new \in Active \cup Terminal
  BY DEF Active, Terminal
<1>1. /\ img \in RuntimeImage
      /\ img.ledger = st.ledger
      /\ img.queue = st.queue
      /\ img.status = [st.status EXCEPT ![r] = new]
      /\ img.scope = st.scope
      /\ img.input = st.input
  BY <1>0, SetStatusFacts
<1> HIDE DEF img
<1>2. Valid(img)
  BY <1>0, SetStatusValid DEF Backs, img
<1>3. Recorded(img) = Recorded(st)
  BY <1>1 DEF Recorded
<1>4. \A e \in given : \E q \in RunId :
        e \in img.input[q] /\ img.status[q] \notin {Absent, "pending"}
  BY <1>1 DEF Backs, RuntimeImage, Absent
<1>5. CarefulEmbedder =>
        \A q \in live : img.status[q] \in {"running", "interrupted"}
  BY <1>1 DEF Backs, RuntimeImage, Terminal
<1>6. \A q \in RunId :
        /\ t[q] \in Terminal => img.status[q] = t[q]
        /\ t[q] = "interrupted" => img.status[q] \in {"interrupted", "failed",
                                                      "cancelled"}
  BY <1>1 DEF Backs, RuntimeImage, Terminal, IsDescendant, Active
<1>7. Backs(img, given, live, t, promised)
  BY <1>2, <1>3, <1>4, <1>5, <1>6 DEF Backs
<1>8. new = "running" => Backs(img, given \cup st.input[r], live \cup {r}, t, promised)
  BY <1>1, <1>2, <1>3, <1>4, <1>5, <1>6 DEF Backs, RuntimeImage, Absent
<1>9. ASSUME NEW u,
             u[r] \in Terminal \cup {"interrupted"} => u[r] = new,
             \A q \in RunId \ {r} : u[q] = t[q]
      PROVE  Backs(img, given, live, u, promised)
  <2>1. ASSUME NEW q \in RunId
        PROVE  /\ u[q] \in Terminal => img.status[q] = u[q]
               /\ u[q] = "interrupted" => img.status[q] \in {"interrupted", "failed",
                                                             "cancelled"}
    <3>1. CASE q = r
      BY <1>1, <1>9, <3>1 DEF RuntimeImage, Terminal
    <3>2. CASE q # r
      BY <1>6, <1>9, <3>2
    <3> QED
      BY <3>1, <3>2
  <2> QED
    BY <1>2, <1>3, <1>4, <1>5, <2>1 DEF Backs
<1> QED
  BY <1>7, <1>8, <1>9 DEF img

LEMMA ReconciledBacks ==
  ASSUME NEW st \in RuntimeImage,
         NEW given, NEW live \in SUBSET RunId, NEW t, NEW promised,
         Backs(st, given, live, t, promised)
  PROVE  Backs(Reconciled(st), given, live, t, promised)
<1> DEFINE img == Reconciled(st)
<1>0. /\ img.queue = st.queue
      /\ \A r \in RunId :
           img.status[r] = IF \/ st.status[r] = "running"
                              \/ st.status[r] = "pending" /\ st.input[r] = {}
                           THEN "interrupted" ELSE st.status[r]
      /\ img.scope = st.scope
      /\ img.input = st.input
      /\ Recorded(img) = Recorded(st)
  BY ReconciledFacts DEF Recorded
<1> HIDE DEF img
<1>1. Valid(img)
  BY ReconciledValid DEF Backs, img
<1>2. \A e \in given : \E q \in RunId :
        e \in img.input[q] /\ img.status[q] \notin {Absent, "pending"}
  BY <1>0 DEF Backs, Absent
<1>3. /\ CarefulEmbedder => \A q \in live : img.status[q] \in {"running", "interrupted"}
      /\ \A q \in RunId :
           /\ t[q] \in Terminal => img.status[q] = t[q]
           /\ t[q] = "interrupted" => img.status[q] \in {"interrupted", "failed",
                                                         "cancelled"}
  BY <1>0 DEF Backs, Terminal
<1>4. Backs(img, given, live, t, promised)
  BY <1>0, <1>1, <1>2, <1>3 DEF Backs
<1> QED
  BY <1>4 DEF img

-----------------------------------------------------------------------------
(* The store operations of DurableFile, as what they do to an invariant of *)
(* both images: it is enough to know it of the image written.              *)
LEMMA StoreCases ==
  /\ \A new : Store!Written(new) => file' = new /\ disk' = new
  /\ \A new : WriteFails(new) => file' \in {file, new} /\ disk' = disk
  /\ Store!Synced => file' = file /\ disk' = file
  /\ Store!NotReplaced => file' = file /\ disk' = disk
  /\ Store!Writeback => file' = file /\ disk' = file
  /\ Store!PowerLoss => file' = disk /\ disk' = disk
BY DEF WriteFails, Store!Written, Store!NotReplaced, Store!ReplacedUnsynced,
       Store!Synced, Store!Writeback, Store!PowerLoss, Store!fileVars

(* An action that leaves the history alone, and whose images are old ones  *)
(* or back as much, keeps the part of the invariant about the images.      *)
LEMMA ImagesKept ==
  ASSUME IInv, NEW new \in RuntimeImage,
         file' \in {file, disk, new}, disk' \in {file, disk, new},
         Backs(new, Given, Live, told, Promised),
         Given' = Given, Live' \subseteq Live, told' = told, Promised' \subseteq Promised
  PROVE  /\ Backs(file', Given', Live', told', Promised')
         /\ Backs(disk', Given', Live', told', Promised')
         /\ file' \in RuntimeImage
         /\ disk' \in RuntimeImage
<1>1. \A st \in {file, disk, new} : Backs(st, Given, Live, told, Promised)
  BY DEF IInv
<1>2. \A st \in {file, disk, new} : Backs(st, Given, Live', told, Promised')
  BY <1>1, BacksLess
<1> QED
  BY <1>2 DEF IInv, TypeOK

(* TypeOK, HandedOnce and OutcomesAreOver hold in the initial state, and   *)
(* nothing has been promised.                                              *)
LEMMA InitIInv == Init => IInv
<1> SUFFICES ASSUME Init PROVE IInv
  OBVIOUS
<1>1. TypeOK
  BY EmptyTyped DEF Init, TypeOK, None
<1>2. Backs(EmptyImage, {}, {}, told, {})
  <2>1. /\ EmptyImage.queue = {}
        /\ EmptyImage.status = [r \in RunId |-> Absent]
        /\ EmptyImage.input = [r \in RunId |-> {}]
    BY DEF EmptyImage
  <2> QED
    BY <2>1, EmptyValid DEF Init, Backs, Absent, Terminal, None
<1>3. Given = {} /\ Live = {} /\ Promised = {}
  BY DEF Init, Given, Live, Promised, None
<1> QED
  BY <1>1, <1>2, <1>3 DEF Init, IInv, HandedOnce, OutcomesAreOver, None

(* What IInv says of the visible image, for the actions that read it.      *)
LEMMA FileFacts ==
  ASSUME IInv
  PROVE  /\ file \in RuntimeImage
         /\ disk \in RuntimeImage
         /\ Backs(file, Given, Live, told, Promised)
         /\ Backs(disk, Given, Live, told, Promised)
         /\ Live \in SUBSET RunId
         /\ Given \in SUBSET Event
         /\ Promised \in SUBSET Event
BY DEF IInv, TypeOK, Live, Given, Promised

-----------------------------------------------------------------------------
(* One lemma per action that writes the state.                             *)
LEMMA PersistStep ==
  ASSUME IInv, NEW e \in Event, PersistInboundEvent(e)
  PROVE  IInv'
<1> DEFINE new == RecordEvent(file, e)
<1>1. /\ Given' = Given /\ Live' = Live /\ told' = told
      /\ control' = control /\ exec' = exec /\ handed' = handed /\ acked' = acked
      /\ mode' = mode
  BY DEF PersistInboundEvent, Given, Live, history
<1>2. CASE e \in Recorded(file) /\ receipt' = [receipt EXCEPT ![e] = "duplicate"]
           /\ UNCHANGED <<storeVars, bounds>>
  <2>1. Promised' \subseteq Promised
    BY <1>1, <1>2 DEF Promised, IInv, TypeOK
  <2>2. Backs(file, Given, Live, told, Promised') /\ Backs(disk, Given, Live, told, Promised')
    BY <2>1, FileFacts, BacksLess
  <2>3. TypeOK'
    BY <1>1, <1>2 DEF IInv, TypeOK, storeVars, bounds
  <2> QED
    BY <1>1, <1>2, <2>2, <2>3 DEF IInv, HandedOnce, OutcomesAreOver, storeVars
<1>3. CASE e \notin Recorded(file) /\ WriteSucceeds(new)
           /\ receipt' = [receipt EXCEPT ![e] = "recorded"]
  <2>1. Promised' = Promised \cup {e}
    BY <1>1, <1>3 DEF Promised, IInv, TypeOK
  <2>2. Backs(new, Given, Live, told, Promised \cup {e}) /\ new \in RuntimeImage
    BY <1>3, FileFacts, RecordEventBacks, RecordEventFacts
  <2>3. file' = new /\ disk' = new /\ UNCHANGED bounds
    BY <1>3, StoreCases DEF WriteSucceeds
  <2> HIDE DEF new
  <2>4. TypeOK'
    BY <1>1, <1>3, <2>2, <2>3 DEF IInv, TypeOK, bounds
  <2> QED
    BY <1>1, <2>1, <2>2, <2>3, <2>4 DEF IInv, HandedOnce, OutcomesAreOver
<1>4. CASE e \notin Recorded(file) /\ WriteFails(new) /\ UNCHANGED receipt
  <2>1. Promised' = Promised
    BY <1>1, <1>4 DEF Promised
  <2>2. Backs(new, Given, Live, told, Promised) /\ new \in RuntimeImage
    BY <1>4, FileFacts, RecordEventBacks, RecordEventFacts
  <2>3. file' \in {file, new} /\ disk' = disk /\ faults' = faults + 1 /\ crashes' = crashes
    BY <1>4, StoreCases DEF WriteFails, Fault
  <2> HIDE DEF new
  <2>4. /\ Backs(file', Given', Live', told', Promised')
        /\ Backs(disk', Given', Live', told', Promised')
        /\ file' \in RuntimeImage /\ disk' \in RuntimeImage
    BY <1>1, <2>1, <2>2, <2>3, ImagesKept
  <2>5. TypeOK'
    BY <1>1, <1>4, <2>3, <2>4 DEF IInv, TypeOK
  <2> QED
    BY <1>1, <2>4, <2>5 DEF IInv, HandedOnce, OutcomesAreOver
<1> QED
  BY <1>2, <1>3, <1>4 DEF PersistInboundEvent

(* A write of an image that backs as much, by an action that changes       *)
(* nothing else.                                                           *)
LEMMA PlainWrite ==
  ASSUME IInv, NEW new \in RuntimeImage,
         Backs(new, Given, Live, told, Promised),
         WriteSucceeds(new) \/ WriteFails(new),
         UNCHANGED <<adapterVars, history>>,
         mode' \in {"recovering", "up"}
  PROVE  IInv'
<1>1. /\ Given' = Given /\ Live' = Live /\ told' = told /\ Promised' = Promised
      /\ receipt' = receipt /\ control' = control /\ exec' = exec
      /\ handed' = handed /\ acked' = acked
  BY DEF Given, Live, Promised, adapterVars, history
<1>2. /\ file' \in {file, new} /\ disk' \in {disk, new}
      /\ faults' \in {faults, faults + 1} /\ crashes' = crashes
  BY StoreCases DEF WriteSucceeds, WriteFails, Fault, bounds
<1>3. /\ Backs(file', Given', Live', told', Promised')
      /\ Backs(disk', Given', Live', told', Promised')
      /\ file' \in RuntimeImage /\ disk' \in RuntimeImage
  BY <1>1, <1>2, ImagesKept
<1>4. TypeOK'
  BY <1>1, <1>2, <1>3 DEF IInv, TypeOK
<1> QED
  BY <1>1, <1>3, <1>4 DEF IInv, HandedOnce, OutcomesAreOver

LEMMA ClaimStep ==
  ASSUME IInv, NEW r \in RunId, ClaimMessageBatch(r)
  PROVE  IInv'
<1>1. PICK s \in Session, b \in SUBSET file.queue :
        /\ ~Owned(file, s)
        /\ IsBatch(file, s, b)
        /\ \/ WriteSucceeds(ClaimBatch(file, r, s, b))
           \/ WriteFails(ClaimBatch(file, r, s, b))
  BY DEF ClaimMessageBatch
<1>2. file.status[r] = Absent /\ mode' \in {"recovering", "up"}
      /\ UNCHANGED <<adapterVars, history>>
  BY DEF ClaimMessageBatch
<1>3. /\ ClaimBatch(file, r, s, b) \in RuntimeImage
      /\ Backs(ClaimBatch(file, r, s, b), Given, Live, told, Promised)
  BY <1>1, <1>2, FileFacts, ClaimFacts, ClaimBacks
<1> QED
  BY <1>1, <1>2, <1>3, PlainWrite

LEMMA AddRunStep ==
  ASSUME IInv, NEW r \in RunId, AddRunBySave(r)
  PROVE  IInv'
<1>1. PICK s \in Session :
        /\ ~Owned(file, s)
        /\ WriteSucceeds(AddRun(file, r, s)) \/ WriteFails(AddRun(file, r, s))
  BY DEF AddRunBySave
<1>2. file.status[r] = Absent /\ mode' \in {"recovering", "up"}
      /\ UNCHANGED <<adapterVars, history>>
  BY DEF AddRunBySave
<1>3. /\ AddRun(file, r, s) \in RuntimeImage
      /\ Backs(AddRun(file, r, s), Given, Live, told, Promised)
  BY <1>1, <1>2, FileFacts, AddRunFacts, AddRunBacks
<1> QED
  BY <1>1, <1>2, <1>3, PlainWrite

LEMMA ResolveStep ==
  ASSUME IInv, NEW r \in RunId, SaveRunStatus(r)
  PROVE  IInv'
<1>1. PICK new \in {"running", "interrupted", "completed", "failed", "cancelled"} :
        /\ IsDescendant(file.status[r], new)
        /\ CarefulEmbedder /\ new \in Terminal => exec[r] # "live"
        /\ \/ WriteSucceeds(SetStatus(file, r, new))
           \/ WriteFails(SetStatus(file, r, new))
  BY DEF SaveRunStatus
<1>2. mode' \in {"recovering", "up"} /\ UNCHANGED <<adapterVars, history>>
  BY DEF SaveRunStatus
<1>3. /\ SetStatus(file, r, new) \in RuntimeImage
      /\ Backs(SetStatus(file, r, new), Given, Live, told, Promised)
  BY <1>1, FileFacts, SetStatusFacts, SetStatusBacks DEF Live, Terminal, Active
<1> QED
  BY <1>1, <1>2, <1>3, PlainWrite

LEMMA ReconcileStep ==
  ASSUME IInv, ReconcileRunsAtStartup
  PROVE  IInv'
<1>1. mode' \in {"recovering", "up"} /\ UNCHANGED <<adapterVars, history>>
  BY DEF ReconcileRunsAtStartup
<1>2. CASE WriteSucceeds(Reconciled(file)) \/ WriteFails(Reconciled(file))
  <2>1. /\ Reconciled(file) \in RuntimeImage
        /\ Backs(Reconciled(file), Given, Live, told, Promised)
    BY FileFacts, ReconciledFacts, ReconciledBacks
  <2> QED
    BY <1>1, <1>2, <2>1, PlainWrite
<1>3. CASE \/ Store!Synced /\ UNCHANGED bounds
           \/ Store!NotReplaced /\ Fault
  <2>1. WriteSucceeds(file) \/ WriteFails(file)
    BY <1>3 DEF WriteSucceeds, WriteFails, Store!Synced, Store!Written
  <2> QED
    BY <1>1, <2>1, FileFacts, PlainWrite
<1> QED
  BY <1>2, <1>3 DEF ReconcileRunsAtStartup

LEMMA StartStep ==
  ASSUME IInv, NEW r \in RunId, StartAgentRun(r)
  PROVE  IInv'
<1> DEFINE new == SetStatus(file, r, "running")
<1>1. /\ file.input[r] # {} /\ file.status[r] = "pending"
      /\ mode' = mode /\ receipt' = receipt /\ acked' = acked /\ told' = told
      /\ Promised' = Promised
  BY DEF StartAgentRun, RequestMessages, Promised
<1>2. file.status[r] = "pending" /\ file.input[r] \in SUBSET Event
  BY <1>1, FileFacts DEF RuntimeImage
<1>3. /\ new \in RuntimeImage
      /\ Backs(new, Given, Live, told, Promised)
      /\ Backs(new, Given \cup file.input[r], Live \cup {r}, told, Promised)
  BY <1>1, FileFacts, SetStatusFacts, SetStatusBacks DEF Active, Terminal, IsDescendant
<1> HIDE DEF new
<1>4. CASE /\ WriteSucceeds(new)
           /\ control' = [control EXCEPT ![r] = "executing"]
           /\ exec' = [exec EXCEPT ![r] = "live"]
           /\ handed' = [e \in Event |->
                IF e \in file.input[r] THEN handed[e] + 1 ELSE handed[e]]
  <2>1. Given' = Given \cup file.input[r]
    BY <1>2, <1>4 DEF Given, IInv, TypeOK
  <2>2. Live' = Live \cup {r}
    BY <1>4 DEF Live, IInv, TypeOK
  <2>3. file' = new /\ disk' = new /\ UNCHANGED bounds
    BY <1>4, StoreCases DEF WriteSucceeds
  <2>4. \A e \in file.input[r] : handed[e] = 0
    <3>1. SUFFICES ASSUME NEW e \in file.input[r], e \in Given PROVE FALSE
      BY <1>2 DEF Given
    <3>2. PICK q \in RunId : e \in file.input[q] /\ file.status[q] \notin {Absent, "pending"}
      BY <3>1, FileFacts DEF Backs
    <3>3. q # r
      BY <3>2, <1>2
    <3> QED
      BY <3>1, <3>2, <3>3, FileFacts DEF Backs, Valid, OwnedOnce
  <2>5. HandedOnce'
    BY <1>4, <2>4 DEF IInv, HandedOnce, TypeOK
  <2>6. OutcomesAreOver'
    BY <1>4 DEF IInv, OutcomesAreOver, TypeOK
  <2>7. TypeOK'
    BY <1>1, <1>3, <1>4, <2>3 DEF IInv, TypeOK, bounds
  <2> QED
    BY <1>1, <1>3, <2>1, <2>2, <2>3, <2>5, <2>6, <2>7 DEF IInv
<1>5. CASE WriteFails(new) /\ UNCHANGED <<control, exec, handed>>
  <2>1. UNCHANGED <<adapterVars, history>> /\ mode' \in {"recovering", "up"}
    BY <1>1, <1>5 DEF adapterVars, history, IInv, TypeOK
  <2> QED
    BY <1>3, <1>5, <2>1, PlainWrite
<1> QED
  BY <1>4, <1>5 DEF StartAgentRun, RequestMessages, new

LEMMA RecordOutcomeStep ==
  ASSUME IInv, NEW r \in RunId, RecordOutcome(r)
  PROVE  IInv'
<1> DEFINE outcome == control[r]
           new == SetStatus(file, r, outcome)
<1>1. /\ outcome \in {"completed", "failed", "interrupted"}
      /\ mode' = mode /\ receipt' = receipt /\ exec' = exec /\ acked' = acked
      /\ handed' = handed
      /\ Given' = Given /\ Live' = Live /\ Promised' = Promised
  BY DEF RecordOutcome, Given, Live, Promised
<1>2. outcome \in Terminal => r \notin Live
  BY <1>1 DEF IInv, OutcomesAreOver, Live, Terminal
<1>3. CASE file.status[r] = "running"
  <2>1. IsDescendant(file.status[r], outcome) /\ outcome \in Active \cup Terminal
    BY <1>1, <1>3 DEF IsDescendant, Active, Terminal
  <2>2. new \in RuntimeImage /\ Backs(new, Given, Live, told, Promised)
    BY <1>1, <1>2, <2>1, FileFacts, SetStatusFacts, SetStatusBacks
  <2>3. CASE /\ WriteSucceeds(new)
             /\ control' = [control EXCEPT ![r] = None]
             /\ told' = [told EXCEPT ![r] = outcome]
    <3>1. Backs(new, Given, Live, told', Promised)
      <4>1. told'[r] = outcome /\ \A q \in RunId \ {r} : told'[q] = told[q]
        BY <2>3 DEF IInv, TypeOK
      <4> QED
        BY <1>1, <1>2, <2>1, <4>1, FileFacts, SetStatusBacks
    <3>2. file' = new /\ disk' = new /\ UNCHANGED bounds
      BY <2>3, StoreCases DEF WriteSucceeds
    <3> HIDE DEF new
    <3>3. TypeOK' /\ OutcomesAreOver'
      BY <1>1, <2>2, <2>3, <3>2 DEF IInv, TypeOK, bounds, OutcomesAreOver, None
    <3> QED
      BY <1>1, <3>1, <3>2, <3>3 DEF IInv, HandedOnce
  <2>4. CASE WriteFails(new) /\ UNCHANGED <<control, told>>
    <3>1. UNCHANGED <<adapterVars, history>> /\ mode' \in {"recovering", "up"}
      BY <1>1, <2>4 DEF adapterVars, history, IInv, TypeOK
    <3> QED
      BY <2>2, <2>4, <3>1, PlainWrite
  <2> QED
    BY <1>1, <1>3, <2>3, <2>4 DEF RecordOutcome
<1>4. CASE file.status[r] = outcome
  <2>1. CASE /\ Store!Synced /\ UNCHANGED bounds
             /\ control' = [control EXCEPT ![r] = None]
             /\ told' = [told EXCEPT ![r] = outcome]
    <3>1. Backs(file, Given, Live, told', Promised)
      BY <1>1, <1>4, <2>1, FileFacts DEF Backs, IInv, TypeOK, Terminal
    <3>2. file' = file /\ disk' = file
      BY <2>1, StoreCases
    <3>3. TypeOK' /\ OutcomesAreOver'
      BY <1>1, <2>1, <3>2 DEF IInv, TypeOK, bounds, OutcomesAreOver, None
    <3> QED
      BY <1>1, <3>1, <3>2, <3>3 DEF IInv, HandedOnce
  <2>2. CASE Store!NotReplaced /\ Fault /\ UNCHANGED <<control, told>>
    <3>1. UNCHANGED <<adapterVars, history>> /\ mode' \in {"recovering", "up"}
      BY <1>1, <2>2 DEF adapterVars, history, IInv, TypeOK
    <3> QED
      BY <2>2, <3>1, FileFacts, PlainWrite DEF WriteFails
  <2> QED
    BY <1>1, <1>4, <2>1, <2>2 DEF RecordOutcome
<1> QED
  BY <1>3, <1>4 DEF RecordOutcome

(* The actions that leave the file alone.                                  *)
LEMMA OutsideStep ==
  ASSUME IInv, UNCHANGED storeVars, TypeOK', HandedOnce', OutcomesAreOver',
         Given' = Given, told' = told, Live' \subseteq Live,
         Promised' \subseteq Promised
  PROVE  IInv'
BY FileFacts, ImagesKept DEF IInv, storeVars

LEMMA AcknowledgementSteps ==
  ASSUME IInv, NEW e \in Event, AcknowledgeInbound(e) \/ AcknowledgeFails(e)
  PROVE  IInv'
<1>1. CASE AcknowledgeInbound(e)
  <2>1. /\ UNCHANGED storeVars /\ told' = told /\ Given' = Given /\ Live' = Live
        /\ Promised' \subseteq Promised
    BY <1>1 DEF AcknowledgeInbound, Given, Live, Promised, IInv, TypeOK, None
  <2>2. TypeOK' /\ HandedOnce' /\ OutcomesAreOver'
    BY <1>1 DEF AcknowledgeInbound, IInv, TypeOK, HandedOnce, OutcomesAreOver,
                storeVars, bounds
  <2> QED
    BY <2>1, <2>2, OutsideStep
<1>2. CASE AcknowledgeFails(e)
  <2>1. /\ UNCHANGED storeVars /\ told' = told /\ Given' = Given /\ Live' = Live
        /\ Promised' \subseteq Promised
    BY <1>2 DEF AcknowledgeFails, Given, Live, Promised, IInv, TypeOK, None, history
  <2>2. TypeOK' /\ HandedOnce' /\ OutcomesAreOver'
    BY <1>2 DEF AcknowledgeFails, IInv, TypeOK, HandedOnce, OutcomesAreOver,
                storeVars, history, Fault
  <2> QED
    BY <2>1, <2>2, OutsideStep
<1> QED
  BY <1>1, <1>2

LEMMA ExecutionSteps ==
  ASSUME IInv, NEW r \in RunId, AgentReturns(r) \/ ExecutionEnds(r)
  PROVE  IInv'
<1>1. CASE AgentReturns(r)
  <2>1. /\ UNCHANGED storeVars /\ told' = told /\ Given' = Given /\ Live' = Live
        /\ Promised' = Promised
    BY <1>1 DEF AgentReturns, Given, Live, Promised, history
  <2>2. TypeOK' /\ HandedOnce' /\ OutcomesAreOver'
    BY <1>1 DEF AgentReturns, IInv, TypeOK, HandedOnce, OutcomesAreOver,
                storeVars, bounds, history
  <2> QED
    BY <2>1, <2>2, OutsideStep
<1>2. CASE ExecutionEnds(r)
  <2>1. /\ UNCHANGED storeVars /\ told' = told /\ Given' = Given
        /\ Live' \subseteq Live /\ Promised' = Promised
    BY <1>2 DEF ExecutionEnds, Given, Live, Promised, history, IInv, TypeOK
  <2>2. TypeOK' /\ HandedOnce' /\ OutcomesAreOver'
    BY <1>2 DEF ExecutionEnds, IInv, TypeOK, HandedOnce, OutcomesAreOver,
                storeVars, bounds, history
  <2> QED
    BY <2>1, <2>2, OutsideStep
<1> QED
  BY <1>1, <1>2

(* A write-back, a crash and a power loss.                                 *)
LEMMA EnvironmentSteps ==
  ASSUME IInv, Writeback \/ Crash \/ PowerLoss
  PROVE  IInv'
<1>1. CASE Writeback
  <2>1. WriteSucceeds(file) /\ UNCHANGED <<adapterVars, history>>
        /\ mode' \in {"recovering", "up"}
    BY <1>1, StoreCases DEF Writeback, WriteSucceeds, Store!Written, IInv, TypeOK
  <2> QED
    BY <2>1, FileFacts, PlainWrite
<1>2. CASE Crash \/ PowerLoss
  <2>1. /\ file' \in {file, disk} /\ disk' = disk
        /\ faults' = faults /\ crashes' = crashes + 1
        /\ mode' = "recovering"
        /\ receipt' = [e \in Event |-> None]
        /\ control' = [r \in RunId |-> None]
        /\ exec' \in {exec, [r \in RunId |-> IF exec[r] = "live" THEN "ended" ELSE exec[r]]}
        /\ acked' = acked /\ handed' = handed /\ told' = told
    BY <1>2, StoreCases DEF Crash, PowerLoss, ProcessGone, storeVars, history
  <2>2. /\ Given' = Given /\ Promised' \subseteq Promised /\ Live' \subseteq Live
    BY <2>1 DEF Given, Promised, Live, None, IInv, TypeOK
  <2>3. /\ Backs(file', Given', Live', told', Promised')
        /\ Backs(disk', Given', Live', told', Promised')
        /\ file' \in RuntimeImage /\ disk' \in RuntimeImage
    BY <2>1, <2>2, FileFacts, ImagesKept
  <2>4. TypeOK' /\ HandedOnce' /\ OutcomesAreOver'
    BY <2>1, <2>3 DEF IInv, TypeOK, HandedOnce, OutcomesAreOver, None
  <2> QED
    BY <2>3, <2>4 DEF IInv
<1> QED
  BY <1>1, <1>2

-----------------------------------------------------------------------------
(* Every step of the specification keeps the inductive invariant.          *)
LEMMA NextIInv == IInv /\ [Next]_vars => IInv'
<1> SUFFICES ASSUME IInv, [Next]_vars PROVE IInv'
  OBVIOUS
<1>1. ASSUME NEW e \in Event, PersistInboundEvent(e) PROVE IInv'
  BY <1>1, PersistStep
<1>2. ASSUME NEW e \in Event, AcknowledgeInbound(e) \/ AcknowledgeFails(e) PROVE IInv'
  BY <1>2, AcknowledgementSteps
<1>3. ASSUME NEW r \in RunId, ClaimMessageBatch(r) PROVE IInv'
  BY <1>3, ClaimStep
<1>4. ASSUME NEW r \in RunId, AddRunBySave(r) PROVE IInv'
  BY <1>4, AddRunStep
<1>5. ASSUME NEW r \in RunId, StartAgentRun(r) PROVE IInv'
  BY <1>5, StartStep
<1>6. ASSUME NEW r \in RunId, AgentReturns(r) \/ ExecutionEnds(r) PROVE IInv'
  BY <1>6, ExecutionSteps
<1>7. ASSUME NEW r \in RunId, RecordOutcome(r) PROVE IInv'
  BY <1>7, RecordOutcomeStep
<1>8. ASSUME NEW r \in RunId, SaveRunStatus(r) PROVE IInv'
  BY <1>8, ResolveStep
<1>9. CASE ReconcileRunsAtStartup
  BY <1>9, ReconcileStep
<1>10. CASE Writeback \/ Crash \/ PowerLoss
  BY <1>10, EnvironmentSteps
<1>11. CASE UNCHANGED vars
  <2>1. /\ UNCHANGED <<storeVars, mode, bounds>> /\ UNCHANGED <<adapterVars, history>>
    BY <1>11 DEF vars
  <2>2. Given' = Given /\ Live' = Live /\ Promised' = Promised /\ told' = told
    BY <2>1 DEF Given, Live, Promised, adapterVars, history
  <2>3. TypeOK' /\ HandedOnce' /\ OutcomesAreOver'
    BY <2>1 DEF IInv, TypeOK, HandedOnce, OutcomesAreOver, adapterVars, history,
                storeVars, bounds
  <2> QED
    BY <2>1, <2>2, <2>3, OutsideStep
<1> QED
  BY <1>1, <1>2, <1>3, <1>4, <1>5, <1>6, <1>7, <1>8, <1>9, <1>10, <1>11 DEF Next

LEMMA InvariantHolds == Spec => []IInv
BY InitIInv, NextIInv, PTL DEF Spec

(* Type correctness: every variable stays within the states of the code.   *)
THEOREM TypeCorrect == Spec => []TypeOK
<1>1. IInv => TypeOK
  BY DEF IInv
<1> QED
  BY <1>1, InvariantHolds, PTL

(* A message is handed to an agent at most once, ever, however many writes *)
(* fail, processes crash and machines lose power.                          *)
THEOREM HandedAtMostOnce == Spec => []HandedOnce
<1>1. IInv => HandedOnce
  BY DEF IInv
<1> QED
  BY <1>1, InvariantHolds, PTL

(* Under an embedder that resolves a run only when its execution is over,  *)
(* no two executions ever overlap in one scope.                            *)
THEOREM ExecutionIsExclusive ==
  ASSUME CarefulEmbedder
  PROVE  Spec => []ExclusiveExecution
<1>1. IInv => ExclusiveExecution
  <2> SUFFICES ASSUME IInv, NEW q \in RunId, NEW r \in RunId,
                      q # r, exec[q] = "live", exec[r] = "live"
               PROVE  file.scope[q] # file.scope[r]
    BY DEF ExclusiveExecution
  <2>1. file.status[q] \in Active /\ file.status[r] \in Active
    BY FileFacts DEF Backs, Live, Active
  <2> QED
    BY <2>1, FileFacts DEF Backs, Valid, OneActiveRun
<1> QED
  BY <1>1, InvariantHolds, PTL

(* An outcome confirmed with Ok is on the disk for good, also when the Ok  *)
(* answered the replay of a write that had failed.                         *)
THEOREM ConfirmedOutcomesSurvive == Spec => []ConfirmedOutcomeDurable
<1>1. IInv => ConfirmedOutcomeDurable
  BY FileFacts DEF Backs, ConfirmedOutcomeDurable
<1> QED
  BY <1>1, InvariantHolds, PTL

(* An event acknowledged as Recorded is in the durable ledger for good.    *)
THEOREM RecordedAcksSurvive == Spec => []RecordedAckDurable
<1>1. IInv => RecordedAckDurable
  BY FileFacts DEF Backs, RecordedAckDurable, Promised
<1> QED
  BY <1>1, InvariantHolds, PTL

(* Neither the visible nor the durable image is ever one that validate()   *)
(* would reject: a message is owned by the queue or by one run, in ledger  *)
(* order, and a session by one unfinished run at most.                     *)
THEOREM ImagesAreValid == Spec => []ImagesValid
<1>1. IInv => ImagesValid
  BY FileFacts DEF Backs, ImagesValid
<1> QED
  BY <1>1, InvariantHolds, PTL

(* Startup reconciliation reports only what a power loss would restore,    *)
(* and leaves no run that looks as if it were being executed.              *)
THEOREM ReportsAreDurable == Spec => ReportIsDurable
<1> DEFINE Durable ==
             mode = "recovering" /\ mode' = "up" =>
               /\ \A r \in RunId : file'.status[r] # "running"
               /\ disk' = file'
<1>1. ASSUME IInv, [Next]_vars PROVE Durable
  <2> SUFFICES ASSUME mode = "recovering", mode' = "up"
               PROVE  (\A r \in RunId : file'.status[r] # "running") /\ disk' = file'
    OBVIOUS
  <2>1. ReconcileRunsAtStartup
    BY <1>1 DEF Next, vars, PersistInboundEvent, AcknowledgeInbound, AcknowledgeFails,
       ClaimMessageBatch, AddRunBySave, StartAgentRun, AgentReturns, ExecutionEnds,
       RecordOutcome, SaveRunStatus, Writeback, Crash, PowerLoss, ProcessGone
  <2>2. file' = Reconciled(file) /\ disk' = file'
    BY <2>1, StoreCases DEF ReconcileRunsAtStartup, WriteSucceeds
  <2>3. \A r \in RunId : Reconciled(file).status[r] # "running"
    BY <1>1, FileFacts, ReconciledFacts
  <2> QED
    BY <2>2, <2>3
<1>2. IInv /\ [Next]_vars => [Durable]_vars
  BY <1>1
<1> QED
  BY <1>2, InvariantHolds, PTL DEF Spec, ReportIsDurable

=============================================================================
