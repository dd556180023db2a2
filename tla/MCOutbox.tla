------------------------------ MODULE MCOutbox ------------------------------
(* Outbox on small instances. *)
EXTENDS Outbox, TLC

\* Dispatchers are interchangeable.
Symmetry == Permutations(Worker)
=============================================================================
