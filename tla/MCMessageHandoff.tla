---------------------------- MODULE MCMessageHandoff ----------------------------
(* Instances of MessageHandoff for TLC: messages e1 and e2 of session s1,  *)
(* e3 of session s2, n1 a notice of no session.                            *)
EXTENDS MessageHandoff, TLC

CONSTANTS e1, e2, e3, n1, s1, s2

MCSessionOf == [e \in Event |-> CASE e \in {e1, e2} -> s1
                                  [] e = e3 -> s2
                                  [] e = n1 -> NoSession]

(* Run ids are interchangeable: no definition names or orders one.         *)
RunSymmetry == Permutations(RunId)

=============================================================================
