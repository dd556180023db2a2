----------------------------- MODULE MCIngress -----------------------------
(* Ingress on a small instance: the configured origin is https://example. *)
EXTENDS Ingress, TLC

MCDomain == <<"example">>

\* The proxies are not told apart.
Symmetry == Permutations(Proxy)
=============================================================================
