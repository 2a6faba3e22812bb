------------------------------ MODULE MCSnapshotSave ------------------------------
(* Two sessions, two messages of the first, one of them also with other      *)
(* content; one agent run, one run and one delivery of the embedder.  The    *)
(* process starts without a file, with one a released version wrote, or with *)
(* an odd one: it lacks parts, has those of a later version or null in their *)
(* place, or is of an unknown version.                                       *)
EXTENDS SnapshotSave

MessageTo(s, id, body) ==
  [id |-> id, kind |-> "message", session |-> s, received |-> 0, body |-> body]

Message(id, body) == MessageTo(1, id, body)

MCEvent == {Message(2, "a"), Message(2, "b"), Message(3, "a")}

MCDelivery == {[id |-> <<0, 1>>, session |-> 1, body |-> "a"]}

Started == (CHOOSE run \in Start(NewRun(8, 1, 0), 0) : TRUE)

Ended(status) == CHOOSE run \in End(Started, status, 0) : TRUE

(* The image of a version-v state with a session, a run, an event, a       *)
(* delivery and a queued message, as far as the version knows them.        *)
Notice == [id |-> 9, received |-> 0, recorded |-> 0]

ImageWith(run) ==
  LET base == [EmptyImage(0) EXCEPT !.sessions = <<NewSession(1, 0)>>, !.runs = <<run>>,
                                    !.ledger = <<Notice>>]
  IN CHOOSE img \in RecordEvent(base, Message(1, "a"), 0) : TRUE

WireOf(v, img, tags) ==
  [version |-> v, sessions |-> img.sessions, updated |-> img.updated, unlisted |-> FALSE,
   fields |-> [c \in Collections |->
                 CASE tags[c] = "value" -> Value(img[c])
                   [] tags[c] = "null" -> Null
                   [] OTHER -> Missing]]

Released(v) ==
  {WireOf(v, img, [c \in Collections |-> IF v >= IntroducedIn[c] THEN "value" ELSE "missing"]) :
     img \in {ImageWith(run) :
                run \in {Ended("failed")} \cup (IF v >= 7 THEN Interrupt(Started, 0) ELSE {})}}

(* The released versions 1 and 2 could write an image that lags behind.    *)
Lagging(v) == {[w EXCEPT !.sessions[1].updated = 1] : w \in Released(v)}

(* A current file with an agent run at work in the first session, a        *)
(* message waiting in the second, and a delivery being made.               *)
AtWork ==
  LET pick(S) == CHOOSE x \in S : TRUE
      both == pick(UpsertSession(ImageWith(Ended("failed")), NewSession(2, 0), 0))
      claimed == pick(RecordEvent(pick(ClaimBatch(both, 1, 0)), MessageTo(2, 4, "a"), 0))
      running == pick(OnRun(claimed, 1, LAMBDA r : Start(r, 0), 0, 0))
      d == pick(NewDelivery(<<0, 1>>, 1, "system", "a", 0))
  IN pick(OnDelivery(pick(Enqueue(running, d, 0)), <<0, 1>>, LAMBDA x : BeginDelivery(x, 0), 0))

MCReleasedFiles ==
  {{}, {Encode(AtWork)}} \cup {{w} : w \in Lagging(1) \cup Lagging(2) \cup UNION {Released(v) : v \in 1..8}}

MCBusyFiles == {{}, {Encode(AtWork)}}

MCOddFiles ==
  LET any == [Collections -> {"value", "null", "missing"}]
      all == [c \in Collections |-> "value"]
  IN {{w} : w \in {WireOf(v, ImageWith(run), tags) :
                    v \in {2, 5, 8},
                    run \in {Ended("failed")} \cup Interrupt(Started, 0),
                    tags \in any}
                 \cup {WireOf(v, ImageWith(Ended("failed")), all) : v \in {0, 9}}
                 \cup {[w EXCEPT !.unlisted = TRUE] : w \in Released(8)}} \ MCReleasedFiles

=============================================================================
