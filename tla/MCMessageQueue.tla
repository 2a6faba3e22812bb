------------------------------ MODULE MCMessageQueue ------------------------------
(* Two sessions; a message dated in the future, one delivered again with    *)
(* other content, and one that is malformed.                               *)
EXTENDS MessageQueue

First == [id |-> 1, kind |-> "message", session |-> 1, received |-> 0, body |-> "a"]

MCBacklog == <<First>>

MCEvent ==
  {First,
   [id |-> 1, kind |-> "message", session |-> 1, received |-> 0, body |-> "b"],
   [id |-> 2, kind |-> "message", session |-> 1, received |-> 2, body |-> "a"],
   [id |-> 3, kind |-> "message", session |-> 1, received |-> 0, body |-> "a"],
   [id |-> 4, kind |-> "message", session |-> 2, received |-> 0, body |-> "a"],
   [id |-> 5, kind |-> "malformed", session |-> 2, received |-> 0, body |-> "a"]}
=============================================================================
