---------------------------- MODULE MCBootstrap -----------------------------
(* Bootstrap on a small instance. *)
EXTENDS Bootstrap

\* A plain role, a role with two permissions, and a role of the deployment.
MCBuiltin == <<[name |-> "user", rank |-> 0, perms |-> {}],
               [name |-> "superadmin", rank |-> 3, perms |-> {"users", "roles"}]>>
MCConfigured == <<[name |-> "support", rank |-> 1, perms |-> {"users"}]>>
=============================================================================
