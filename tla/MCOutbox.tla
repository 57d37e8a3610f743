------------------------------ MODULE MCOutbox ------------------------------
(* Small instances of Outbox for TLC.                                      *)
EXTENDS Outbox, TLC

CONSTANT n1

(* Every consumer is bound to every event.                                 *)
AllSubscribe == [n \in Names |-> Consumers]

(* n1 is bound by every consumer, any other name by none.                  *)
OnlyFirst == [n \in Names |-> IF n = n1 THEN Consumers ELSE {}]

WorkerSymmetry == Permutations(Workers)

=============================================================================
