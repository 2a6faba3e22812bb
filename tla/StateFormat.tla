------------------------------- MODULE StateFormat -------------------------------
(***************************************************************************)
(* The state file as written and read (runtime/state/format): the current  *)
(* version, the seven before it, and what each of them must and must not   *)
(* hold.  A file is the version, the sessions, the time of the image and    *)
(* for every other collection a WireField.                                 *)
(***************************************************************************)
EXTENDS StateImage

CurrentVersion == 8                  \* RUNTIME_STATE_FILE_VERSION

(* WireField: a key that is not there, one that is null, and a value.      *)
Missing == [tag |-> "missing"]
Null == [tag |-> "null"]
Value(records) == [tag |-> "value", records |-> records]

(* The version of the format in which each collection appeared.            *)
IntroducedIn == [runs |-> 2, ledger |-> 3, outbox |-> 4, queue |-> 5, inputs |-> 6]

Collections == DOMAIN IntroducedIn

RecordsOf(field) == IF field.tag = "value" THEN field.records ELSE <<>>

(* Wrong: what a version did not have yet is skipped.                      *)
HasRequired(wire) ==
  /\ wire.version \in 1..CurrentVersion
  /\ \A c \in Collections : wire.version >= IntroducedIn[c] => wire.fields[c].tag = "value"

(* decode_persisted_collections: every collection of the version, none of  *)
(* a later one (null counts as there, not as a value).  Interrupted runs   *)
(* came with version 7, output deliveries with version 8, which asks every *)
(* run to list them.                                                       *)
Decodable(wire) ==
  LET runs == ToSet(RecordsOf(wire.fields.runs))
  IN /\ wire.version \in 1..CurrentVersion
     /\ \A c \in Collections :
          wire.fields[c].tag = IF wire.version >= IntroducedIn[c] THEN "value" ELSE "missing"
     /\ wire.version < 7 => \A run \in runs : run.status # "interrupted"
     /\ wire.version < 8 => \A run \in runs : run.outputs = <<>>
     /\ wire.version = 8 => ~wire.unlisted

(* normalize_migrated_aggregate_updated_at                                 *)
LatestOfAll(img) == Max({LatestRecord(img)} \cup {s.updated : s \in ToSet(img.sessions)})

(* The collections of the file, those it is too old for being empty.       *)
AsWritten(wire) ==
  LET part(c) ==
        IF wire.version >= IntroducedIn[c] THEN RecordsOf(wire.fields[c]) ELSE <<>>
  IN [sessions |-> wire.sessions, updated |-> wire.updated, runs |-> part("runs"),
      inputs |-> part("inputs"), ledger |-> part("ledger"), queue |-> part("queue"),
      outbox |-> part("outbox")]

(* Wrong: old files are taken as they are.                                 *)
DecodedAsIs(wire) == AsWritten(wire)

(* into_state: the files of versions 1 and 2 could lag behind their        *)
(* records, the time of their image is made up for.                        *)
Decoded(wire) ==
  LET img == AsWritten(wire)
  IN IF wire.version < 3 THEN [img EXCEPT !.updated = LatestOfAll(img)] ELSE img

(* A run is checked for itself when it is read, before it is known what    *)
(* else there is.                                                          *)
RunsReadable(wire) == \A run \in ToSet(RecordsOf(wire.fields.runs)) : RunWellFormed(run)

(* parse_state_file and from_persisted_parts: {} when the file is refused. *)
Parse(wire) ==
  IF RunsReadable(wire) /\ Decodable(wire)
  THEN Accept(Valid(Decoded(wire)), Decoded(wire))
  ELSE {}

(* Wrong: an empty collection is left out.                                 *)
EncodeSparsely(img) ==
  [version |-> CurrentVersion, sessions |-> img.sessions, updated |-> img.updated,
   unlisted |-> FALSE,
   fields |-> [c \in Collections |-> IF img[c] = <<>> THEN Missing ELSE Value(img[c])]]

(* RuntimeStateFile::from_state                                            *)
Encode(img) ==
  [version |-> CurrentVersion, sessions |-> img.sessions, updated |-> img.updated,
   unlisted |-> FALSE, fields |-> [c \in Collections |-> Value(img[c])]]
=============================================================================
