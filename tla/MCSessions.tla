----------------------------- MODULE MCSessions -----------------------------
(* Sessions on small instances. *)
EXTENDS Sessions, TLC

\* Session ids and request slots are interchangeable.
Symmetry == Permutations(SID) \cup Permutations(Req)
=============================================================================
