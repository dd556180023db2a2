----------------------------- MODULE AuthClient -----------------------------
(***************************************************************************)
(* pkg/authclient: the verifier a consuming service embeds.  It caches     *)
(* goauth's published keys by key id, fetches them again when the cache is *)
(* empty or aged, or when a token names a key id it does not know, and     *)
(* remembers the key ids that a fetch did not explain.                     *)
(*                                                                         *)
(* Calls of Verify run concurrently.  A step of a call is one critical     *)
(* section of the verifier's mutex, or the HTTP exchange between two: the  *)
(* answer is fixed when goauth sends it and installed some time later, so  *)
(* answers may be installed out of order.  Time is two flags, whether the  *)
(* cache has aged and whether the budget's minute is over.                 *)
(*                                                                         *)
(* Signing keys are numbered in the order goauth takes them into use; it   *)
(* publishes the one it signs with and the retired ones still configured.  *)
(* Key id 0 stands for ids that were never a key.                          *)
(***************************************************************************)
EXTENDS Naturals, FiniteSets

CONSTANTS
    Caller,               \* slots for concurrent calls of Verify
    MaxRefreshPerMinute,
    MaxUnknownKids,
    MaxKey                \* bound: signing keys goauth ever has

ASSUME BoundsArePositive ==
    {MaxRefreshPerMinute, MaxUnknownKids, MaxKey} \subseteq Nat \ {0}

VARIABLES
    oldest, newest,   \* goauth publishes the keys oldest .. newest
    keys,             \* v.keys
    aged,             \* time.Since(v.fetchedAt) >= RefreshInterval
    unknownKids,      \* v.unknownKids
    windowOver,       \* now.Sub(v.windowStart) >= time.Minute
    windowRefresh,    \* v.windowRefresh
    pc, kid,          \* where each call is, and the key id of its token
    answer,           \* the key set in an HTTP answer not yet installed
    known             \* history: the call's key id was cached ever since it began

verifier == <<keys, aged, unknownKids, windowOver, windowRefresh>>
calls == <<pc, kid, answer>>
goauth == <<oldest, newest>>
vars == <<verifier, calls, goauth, known>>

Kid == 0 .. MaxKey
NoKeys == {}

PC == {"idle", "fetch", "install",            \* cold or aged cache
       "has", "may", "ask", "replace",        \* unrecognised key id
       "recheck", "remember", "parse",
       "accepted", "refused"}

TypeOK ==
    /\ newest \in 1 .. MaxKey /\ oldest \in 1 .. newest
    /\ keys \subseteq 1 .. MaxKey
    /\ unknownKids \subseteq Kid /\ Cardinality(unknownKids) <= MaxUnknownKids
    /\ windowRefresh \in 0 .. MaxRefreshPerMinute
    /\ aged \in BOOLEAN /\ windowOver \in BOOLEAN
    /\ pc \in [Caller -> PC] /\ kid \in [Caller -> Kid]
    /\ answer \in [Caller -> SUBSET (1 .. MaxKey)]
    /\ known \in [Caller -> BOOLEAN]

\* authclient.New: fetchedAt and windowStart are the zero time.
Init ==
    /\ oldest = 1 /\ newest = 1
    /\ keys = NoKeys /\ unknownKids = {}
    /\ aged = TRUE /\ windowOver = TRUE /\ windowRefresh = 0
    /\ pc = [p \in Caller |-> "idle"] /\ kid = [p \in Caller |-> 0]
    /\ answer = [p \in Caller |-> NoKeys]
    /\ known = [p \in Caller |-> FALSE]

Goto(p, label) == pc' = [pc EXCEPT ![p] = label]

-----------------------------------------------------------------------------
(* goauth and time *)

\* token.New: the configured key and the previous public keys are published.
Published == oldest .. newest

\* A deploy signs with a new key and keeps the old one published ...
RotateKey ==
    /\ newest < MaxKey /\ newest' = newest + 1
    /\ UNCHANGED <<verifier, calls, oldest, known>>

\* ... and a later one drops the oldest.
RetireKey ==
    /\ oldest < newest /\ oldest' = oldest + 1
    /\ UNCHANGED <<verifier, calls, newest, known>>

Age ==
    /\ aged' = TRUE
    /\ UNCHANGED <<keys, unknownKids, windowOver, windowRefresh, calls, goauth, known>>

Minute ==
    /\ windowOver' = TRUE
    /\ UNCHANGED <<keys, aged, unknownKids, windowRefresh, calls, goauth, known>>

-----------------------------------------------------------------------------
(* Verify *)

OnlyWhenEmpty == keys = NoKeys   \* fault: the age is not looked at
needsInitialFetch == keys = NoKeys \/ aged

\* A token names a key that goauth has signed with by now, or none of them.
Call(p, k) ==
    /\ pc[p] = "idle" /\ k <= newest
    /\ kid' = [kid EXCEPT ![p] = k]
    /\ Goto(p, IF needsInitialFetch THEN "fetch" ELSE "has")
    /\ known' = [known EXCEPT ![p] = k \in keys]
    /\ UNCHANGED <<verifier, answer, goauth>>

\* goauth answers with the keys it publishes now.
Fetch(p) ==
    /\ \/ pc[p] = "fetch" /\ Goto(p, "install")
       \/ pc[p] = "ask" /\ Goto(p, "replace")
    /\ answer' = [answer EXCEPT ![p] = Published]
    /\ UNCHANGED <<verifier, kid, goauth, known>>

NeverHides == FALSE   \* fault: a failed fetch always fails the call
hasAnyKey == keys # NoKeys

\* No answer, a status other than 200, a body that does not parse, or the
\* caller's context is done.
FetchFails(p) ==
    /\ \/ pc[p] = "fetch" /\ hasAnyKey /\ Goto(p, "has")
       \/ pc[p] = "fetch" /\ ~hasAnyKey /\ Goto(p, "refused")
       \/ pc[p] = "ask" /\ Goto(p, "refused")
    /\ UNCHANGED <<verifier, kid, answer, goauth, known>>

\* The end of refresh, under the lock.
Install(p) ==
    /\ \/ pc[p] = "install" /\ Goto(p, "has")
       \/ pc[p] = "replace" /\ Goto(p, "recheck")
    /\ keys' = answer[p]
    /\ aged' = FALSE
    /\ unknownKids' = {}
    /\ answer' = [answer EXCEPT ![p] = NoKeys]
    /\ known' = [q \in Caller |-> known[q] /\ kid[q] \in keys']
    /\ UNCHANGED <<windowOver, windowRefresh, kid, goauth>>

hasKey(k) == k \in keys

HasKey(p) ==
    /\ \/ pc[p] = "has" /\ Goto(p, IF hasKey(kid[p]) THEN "parse" ELSE "may")
       \/ pc[p] = "recheck" /\ Goto(p, IF hasKey(kid[p]) THEN "parse" ELSE "remember")
    /\ UNCHANGED <<verifier, kid, answer, goauth, known>>

\* The refreshes counted so far in the minute that now falls into.
Spent == IF windowOver THEN 0 ELSE windowRefresh

BudgetNotChecked == TRUE   \* fault: the budget is counted and not enforced
BudgetLeft == Spent < MaxRefreshPerMinute

mayRefreshFor(p) ==
    /\ pc[p] = "may"
    /\ \/ /\ kid[p] \in unknownKids
          /\ Goto(p, "refused")
          /\ UNCHANGED <<windowOver, windowRefresh>>
       \/ /\ kid[p] \notin unknownKids /\ BudgetLeft
          /\ windowOver' = FALSE /\ windowRefresh' = Spent + 1
          /\ Goto(p, "ask")
       \/ /\ kid[p] \notin unknownKids /\ ~BudgetLeft
          /\ windowOver' = FALSE /\ windowRefresh' = Spent
          /\ Goto(p, "refused")
    /\ UNCHANGED <<keys, aged, unknownKids, kid, answer, goauth, known>>

rememberUnknown(p) ==
    /\ pc[p] = "remember"
    /\ unknownKids' = (IF Cardinality(unknownKids) >= MaxUnknownKids THEN {} ELSE unknownKids)
                         \cup {kid[p]}
    /\ Goto(p, "refused")
    /\ UNCHANGED <<keys, aged, windowOver, windowRefresh, kid, answer, goauth, known>>

\* parse asks keyFunc, which looks the key up once more.  Tokens under a real
\* key are taken to be genuine and in date.
Parse(p) ==
    /\ pc[p] = "parse"
    /\ Goto(p, IF hasKey(kid[p]) THEN "accepted" ELSE "refused")
    /\ UNCHANGED <<verifier, kid, answer, goauth, known>>

Return(p) ==
    /\ pc[p] \in {"accepted", "refused"}
    /\ Goto(p, "idle")
    /\ kid' = [kid EXCEPT ![p] = 0] /\ known' = [known EXCEPT ![p] = FALSE]
    /\ UNCHANGED <<verifier, answer, goauth>>

-----------------------------------------------------------------------------
Step(p) ==
    \/ Install(p) \/ HasKey(p) \/ mayRefreshFor(p) \/ rememberUnknown(p)
    \/ Parse(p) \/ Return(p)

Next ==
    \/ RotateKey \/ RetireKey \/ Age \/ Minute
    \/ \E p \in Caller : Fetch(p) \/ FetchFails(p) \/ Step(p) \/ \E k \in Kid : Call(p, k)

\* Calls go on and keep coming, time passes, and goauth is not unreachable for
\* ever: a fetch tried again and again is answered.
Spec ==
    /\ Init /\ [][Next]_vars
    /\ WF_vars(Age) /\ WF_vars(Minute)
    /\ \A p \in Caller : /\ WF_vars(Step(p)) /\ SF_vars(Fetch(p))
                         /\ WF_vars(\E k \in Kid : Call(p, k))

-----------------------------------------------------------------------------
(* Properties *)

\* An outage of goauth does not invalidate tokens already issued: a call whose
\* key id was cached all along is not refused, whether a refresh fails, an aged
\* cache is replaced or other calls give up on other key ids (Verify).
OutageHarmless == \A p \in Caller : known[p] => pc[p] # "refused"

\* Once goauth stops rotating, the cache ends up with exactly the published
\* keys: rotated-in keys arrive although an older answer may have been installed
\* over a newer one and their ids remembered as unknown, and retired keys go
\* (needsInitialFetch, refresh).
CatchesUp == <>[](keys = Published)
=============================================================================
