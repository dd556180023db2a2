---------------------------- MODULE RefreshChain ----------------------------
(***************************************************************************)
(* What goauth promises about refresh tokens, without requests, locks,     *)
(* statements or a clock.  Every token belongs to the family of one login. *)
(* At any time some tokens are live, that is, can still be exchanged.      *)
(* Exchanging a live token makes it dead for good and puts exactly one     *)
(* fresh token of the same family in its place; logout, revocation, reuse  *)
(* detection and expiry can only take live tokens away.                    *)
(***************************************************************************)
CONSTANT Token

VARIABLES family,  \* the family of every token issued so far, named by its first token
          live     \* the tokens that can still be exchanged

chainVars == <<family, live>>

Issued == DOMAIN family

Extend(f, s, v) == [x \in DOMAIN f \cup {s} |-> IF x = s THEN v ELSE f[x]]

ChainInit == family = [s \in {} |-> s] /\ live = {}

\* A login, a registration or a password change starts a family.
Begin(s) ==
    /\ s \notin Issued
    /\ family' = Extend(family, s, s)
    /\ live' = live \cup {s}

\* A live token t is replaced by its one successor s.
Exchange(t, s) ==
    /\ t \in live
    /\ s \notin Issued
    /\ family' = Extend(family, s, family[t])
    /\ live' = (live \ {t}) \cup {s}

\* Live tokens die: logout, revocation, reuse detection, expiry sweep.
Destroy ==
    /\ live' \subseteq live
    /\ UNCHANGED family

ChainNext ==
    \/ \E s \in Token : Begin(s)
    \/ \E t, s \in Token : Exchange(t, s)
    \/ Destroy

ChainSpec == ChainInit /\ [][ChainNext]_chainVars
=============================================================================
