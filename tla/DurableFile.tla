------------------------------ MODULE DurableFile ------------------------------
(***************************************************************************)
(* What the runtime's state file promises its users (runtime/persistence.rs *)
(* seen from state/store/*.rs): one image that every reader sees, and one  *)
(* image that a power loss would leave behind.  write_json_atomic replaces *)
(* the visible image as a whole and then syncs the parent directory; an    *)
(* error before the replacement changes nothing, an error after it leaves  *)
(* the new image visible but not yet durable.  StateFileWrite.tla shows    *)
(* that the steps of the code implement this specification.                *)
(***************************************************************************)

CONSTANT Image      \* the values the file may hold

VARIABLES
  file,             \* the image a reader of the path gets now
  disk              \* the image the path holds after a power loss

fileVars == <<file, disk>>

(* write_json_atomic returned Ok: replaced and synced.                     *)
Written(new) == file' = new /\ disk' = new

(* write_json_atomic returned Err before the replacement.                  *)
NotReplaced == UNCHANGED fileVars

(* write_json_atomic returned Err from sync_parent: replaced, not synced.  *)
ReplacedUnsynced(new) == file' = new /\ UNCHANGED disk

(* confirm_existing_file_durable returned Ok.                              *)
Synced == disk' = file /\ UNCHANGED file

(* The operating system may write the directory entry back on its own.     *)
Writeback == disk # file /\ Synced

(* The machine loses power: only the durable image is left.                *)
PowerLoss == file' = disk /\ UNCHANGED disk

-----------------------------------------------------------------------------
(* The file on its own, as the specification other modules implement.      *)
Init == file \in Image /\ disk = file

Replace == \E new \in Image : ReplacedUnsynced(new)

Next == Replace \/ Synced \/ PowerLoss

Spec == Init /\ [][Next]_fileVars

=============================================================================
