-------------------------- MODULE AuthClientProofs -------------------------
(***************************************************************************)
(* pkg/authclient for any number of concurrent calls, keys and limits: its *)
(* state has its type, the bound on remembered key ids included, and an    *)
(* outage of goauth does not refuse a token whose key is cached.           *)
(*                                                                         *)
(* OutageHarmless is not inductive: a call at "may" or "remember" could    *)
(* still be refused.  Spared says why a call with a cached key id is never *)
(* there: it looks its key id up in a cache that has it.                   *)
(***************************************************************************)
EXTENDS AuthClient, FiniteSetTheorems, TLAPS

\* The points of Verify that lead to acceptance without asking goauth for the
\* key id.
OnTheWay == {"fetch", "install", "has", "parse", "accepted"}

\* A call whose key id was cached all along still finds it there.
Spared == \A p \in Caller : known[p] => kid[p] \in keys /\ pc[p] \in OnTheWay

-----------------------------------------------------------------------------
(* Typing *)

\* rememberUnknown keeps the map of unexplained key ids within its bound, by
\* clearing it when it is full.
LEMMA RememberedBounded ==
    ASSUME NEW S \in SUBSET Kid, Cardinality(S) <= MaxUnknownKids, NEW k \in Kid
    PROVE  LET T == (IF Cardinality(S) >= MaxUnknownKids THEN {} ELSE S) \cup {k}
           IN  T \subseteq Kid /\ Cardinality(T) <= MaxUnknownKids
<1> DEFINE B == IF Cardinality(S) >= MaxUnknownKids THEN {} ELSE S
<1>1. MaxKey \in Nat /\ MaxUnknownKids \in Nat /\ MaxUnknownKids >= 1
  BY BoundsArePositive
<1>2. IsFiniteSet(Kid)
  BY <1>1, FS_Interval DEF Kid
<1>3. IsFiniteSet(B) /\ Cardinality(B) \in Nat
  BY <1>2, FS_Subset, FS_CardinalityType
<1>4. Cardinality(B) < MaxUnknownKids
  BY <1>1, <1>3, FS_EmptySet
<1>5. Cardinality(B \cup {k}) <= Cardinality(B) + 1
  BY <1>3, FS_AddElement
<1>6. IsFiniteSet(B \cup {k}) /\ Cardinality(B \cup {k}) \in Nat
  BY <1>3, FS_AddElement, FS_CardinalityType
<1> QED BY <1>1, <1>3, <1>4, <1>5, <1>6

\* The verifier starts with an empty cache.
LEMMA InitTyped == Init => TypeOK
<1> SUFFICES ASSUME Init PROVE TypeOK
  OBVIOUS
<1>1. Cardinality({}) = 0
  BY FS_EmptySet
<1> QED BY <1>1, BoundsArePositive DEF Init, TypeOK, PC, Kid, NoKeys

\* Every critical section of Verify and every event around it keeps the types.
LEMMA NextTyped == TypeOK /\ [Next]_vars => TypeOK'
<1> SUFFICES ASSUME TypeOK, [Next]_vars PROVE TypeOK'
  OBVIOUS
<1>0. {MaxRefreshPerMinute, MaxUnknownKids, MaxKey} \subseteq Nat \ {0}
  BY BoundsArePositive
<1> USE DEF TypeOK
<1>1. CASE UNCHANGED vars
  BY <1>1 DEF vars, verifier, calls, goauth
<1>2. CASE RotateKey
  BY <1>0, <1>2 DEF RotateKey, verifier, calls
<1>3. CASE RetireKey
  BY <1>0, <1>3 DEF RetireKey, verifier, calls
<1>4. CASE Age
  BY <1>4 DEF Age, calls, goauth
<1>5. CASE Minute
  BY <1>5 DEF Minute, calls, goauth
<1>6. ASSUME NEW p \in Caller, Fetch(p)
      PROVE  TypeOK'
  <2>1. Published \in SUBSET (1 .. MaxKey)
    BY <1>0 DEF Published
  <2> QED BY <1>6, <2>1 DEF Fetch, Goto, PC, verifier, goauth
<1>7. ASSUME NEW p \in Caller, FetchFails(p)
      PROVE  TypeOK'
  BY <1>7 DEF FetchFails, Goto, PC, verifier, goauth
<1>8. ASSUME NEW p \in Caller, Install(p)
      PROVE  TypeOK'
  <2>1. Cardinality({}) = 0
    BY FS_EmptySet
  <2>2. unknownKids' \subseteq Kid /\ Cardinality(unknownKids') <= MaxUnknownKids
    BY <1>0, <1>8, <2>1 DEF Install
  <2>3. answer' \in [Caller -> SUBSET (1 .. MaxKey)] /\ keys' \subseteq 1 .. MaxKey
    BY <1>8 DEF Install, NoKeys
  <2>4. known' \in [Caller -> BOOLEAN]
    BY <1>8 DEF Install
  <2>5. pc' \in [Caller -> PC]
    BY <1>8 DEF Install, Goto, PC
  <2> QED BY <1>8, <2>2, <2>3, <2>4, <2>5 DEF Install, goauth
<1>9. ASSUME NEW p \in Caller, HasKey(p)
      PROVE  TypeOK'
  BY <1>9 DEF HasKey, Goto, PC, verifier, goauth
<1>10. ASSUME NEW p \in Caller, mayRefreshFor(p)
       PROVE  TypeOK'
  <2>0. Spent \in 0 .. MaxRefreshPerMinute
    BY <1>0 DEF Spent
  <2>1. windowRefresh' \in 0 .. MaxRefreshPerMinute
    BY <1>0, <1>10, <2>0 DEF mayRefreshFor, BudgetLeft
  <2>3. windowOver' \in BOOLEAN
    BY <1>10 DEF mayRefreshFor
  <2>2. pc' \in [Caller -> PC]
    BY <1>10 DEF mayRefreshFor, Goto, PC
  <2> QED BY <1>10, <2>1, <2>2, <2>3 DEF mayRefreshFor, goauth
<1>11. ASSUME NEW p \in Caller, rememberUnknown(p)
       PROVE  TypeOK'
  <2>1. unknownKids' \subseteq Kid /\ Cardinality(unknownKids') <= MaxUnknownKids
    BY <1>11, RememberedBounded DEF rememberUnknown
  <2>2. pc' \in [Caller -> PC]
    BY <1>11 DEF rememberUnknown, Goto, PC
  <2> QED BY <1>11, <2>1, <2>2 DEF rememberUnknown, goauth
<1>12. ASSUME NEW p \in Caller, Parse(p)
       PROVE  TypeOK'
  BY <1>12 DEF Parse, Goto, PC, verifier, goauth
<1>13. ASSUME NEW p \in Caller, Return(p)
       PROVE  TypeOK'
  BY <1>0, <1>13 DEF Return, Goto, PC, Kid, verifier, goauth
<1>14. ASSUME NEW p \in Caller, NEW k \in Kid, Call(p, k)
       PROVE  TypeOK'
  BY <1>14 DEF Call, Goto, PC, verifier, goauth
<1> QED BY <1>1, <1>2, <1>3, <1>4, <1>5, <1>6, <1>7, <1>8, <1>9, <1>10, <1>11, <1>12, <1>13, <1>14
    DEF Next, Step

\* The cache, the window counter and the map of unexplained key ids stay within
\* their bounds, whatever calls, failures and rotations come together.
THEOREM VerifierTyped == Spec => []TypeOK
  BY InitTyped, NextTyped, PTL DEF Spec

-----------------------------------------------------------------------------
(* An outage is harmless *)

\* A step that moves one call and leaves the cache alone: what matters is where
\* it takes a call whose key id is cached.
LEMMA OneCallMoves ==
    ASSUME TypeOK, Spared, NEW p \in Caller, NEW label,
           pc' = [pc EXCEPT ![p] = label],
           known[p] => label \in OnTheWay,
           UNCHANGED <<keys, kid, known>>
    PROVE  Spared'
  BY DEF TypeOK, Spared

\* Every step keeps Spared.
LEMMA NextSpared == TypeOK /\ Spared /\ [Next]_vars => Spared'
<1> SUFFICES ASSUME TypeOK, Spared, [Next]_vars PROVE Spared'
  OBVIOUS
<1>1. CASE UNCHANGED vars
  BY <1>1 DEF vars, verifier, calls, Spared
<1>2. CASE RotateKey \/ RetireKey \/ Age \/ Minute
  BY <1>2 DEF RotateKey, RetireKey, Age, Minute, verifier, calls, Spared
<1>3. ASSUME NEW p \in Caller, Fetch(p)
      PROVE  Spared'
  BY <1>3, OneCallMoves DEF Fetch, Goto, verifier, Spared, OnTheWay
\* A cache that has the key id is not empty, so the failed fetch is hidden.
<1>4. ASSUME NEW p \in Caller, FetchFails(p)
      PROVE  Spared'
  <2>1. known[p] => hasAnyKey
    BY DEF Spared, hasAnyKey, NoKeys
  <2> QED BY <1>4, <2>1, OneCallMoves DEF FetchFails, Goto, verifier, Spared, OnTheWay
\* The history ends for calls whose key id the new key set lacks.
<1>5. ASSUME NEW p \in Caller, Install(p)
      PROVE  Spared'
  BY <1>5 DEF Install, Goto, TypeOK, Spared, OnTheWay
<1>6. ASSUME NEW p \in Caller, HasKey(p)
      PROVE  Spared'
  BY <1>6, OneCallMoves DEF HasKey, hasKey, Goto, verifier, Spared, OnTheWay
<1>7. ASSUME NEW p \in Caller, mayRefreshFor(p) \/ rememberUnknown(p)
      PROVE  Spared'
  <2>1. ~known[p]
    BY <1>7 DEF mayRefreshFor, rememberUnknown, Spared, OnTheWay
  <2> QED BY <1>7, <2>1, OneCallMoves DEF mayRefreshFor, rememberUnknown, Goto
<1>8. ASSUME NEW p \in Caller, Parse(p)
      PROVE  Spared'
  BY <1>8, OneCallMoves DEF Parse, hasKey, Goto, verifier, Spared, OnTheWay
<1>9. ASSUME NEW p \in Caller, Return(p)
      PROVE  Spared'
  BY <1>9 DEF Return, Goto, TypeOK, Spared, verifier
<1>10. ASSUME NEW p \in Caller, NEW k \in Kid, Call(p, k)
       PROVE  Spared'
  BY <1>10 DEF Call, Goto, TypeOK, Spared, OnTheWay, verifier
<1> QED BY <1>1, <1>2, <1>3, <1>4, <1>5, <1>6, <1>7, <1>8, <1>9, <1>10 DEF Next, Step

\* A call whose key id was in the cache ever since it began is not refused,
\* whether goauth is unreachable, the cache is replaced under it or other calls
\* use up the budget (Verify).
THEOREM OutageIsHarmless == Spec => []OutageHarmless
<1>1. Init => Spared
  BY DEF Init, Spared
<1>2. Spared => OutageHarmless
  BY DEF Spared, OutageHarmless, OnTheWay
<1> QED BY <1>1, <1>2, NextSpared, VerifierTyped, PTL DEF Spec
=============================================================================
