---------------------------- MODULE MCOutboxDelivery ----------------------------
(* OutboxDelivery for TLC.  Workers are interchangeable.                   *)
EXTENDS OutboxDelivery, TLC

WorkerSymmetry == Permutations(Worker)

=============================================================================
