--------------------------- MODULE SessionsClaims ---------------------------
(***************************************************************************)
(* The auth_time of access tokens, which sudo mode counts from.  It is     *)
(* derived from the created_at of session rows, which no statement of      *)
(* Sessions looks at, so both are added to it here: what a comment of the  *)
(* refresh grant says of auth_time is stated so that TLC can show the      *)
(* sequence of rotations that contradicts it.                              *)
(***************************************************************************)
EXTENDS MCSessions

VARIABLES
    created,   \* ga_sessions.created_at, by id
    auth       \* the auth_time claim of the access token signed with it

\* created_at is the database's now(): that of the INSERT, or of the BEGIN of the
\* rotation's transaction.
CreatedAt(r) == IF pc[r] = "issue" THEN clock ELSE loc[r].tx

\* A login counts from its own now, a rotation from the row it was presented.
AuthTime(r) == IF pc[r] = "issue" THEN loc[r].at ELSE created[loc[r].tok]

\* The request that takes this step.
Mover == CHOOSE r \in Req : pc'[r] # pc[r]

ClaimsInit == Init /\ created = [s \in {} |-> s] /\ auth = [s \in {} |-> s]

\* A step of Sessions, with the two times of the row it inserts, if any.
ClaimsNext ==
    /\ Next
    /\ created' = [s \in minted' |-> IF s \in minted THEN created[s] ELSE CreatedAt(Mover)]
    /\ auth' = [s \in minted' |-> IF s \in minted THEN auth[s] ELSE AuthTime(Mover)]

ClaimsSpec == ClaimsInit /\ [][ClaimsNext]_<<vars, created, auth>>

\* refreshGrant: "AuthTime is carried from the original login, not reset: [...]
\* sudo-mode must not be renewable without the password."  The auth_time of a
\* pair is never later than the login that started its family.
AuthTimeFromLogin == \A s \in minted : auth[s] <= created[sess[s].family]
=============================================================================
