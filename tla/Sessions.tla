------------------------------ MODULE Sessions ------------------------------
(***************************************************************************)
(* Refresh-token sessions of goauth: the ga_sessions table, the status and *)
(* password of each account, and every request that reads or writes them   *)
(* (password and refresh grants, registration, logout, logout everywhere,  *)
(* password change, the administrator's edits, the expiry sweep).          *)
(*                                                                         *)
(* Requests run concurrently.  A step of a request is one SQL statement of *)
(* a READ COMMITTED transaction, or the commit that ends it:               *)
(*   - the conditional UPDATE of a rotation locks the presented row until  *)
(*     the transaction ends; a competing UPDATE or DELETE waits for it;    *)
(*   - a DELETE locks the rows of its statement snapshot one by one, in    *)
(*     any order, waiting for each that is locked, and removes them when   *)
(*     it commits; rows committed after it began are not part of it;       *)
(*   - an UPDATE of a user row locks it; a soft delete changes the unique  *)
(*     identifiers, so it also holds off the foreign-key check of an       *)
(*     INSERT into ga_sessions.                                            *)
(* A refresh token and the access token signed with it are both named by   *)
(* the session row they were issued with; a family is named by its first   *)
(* session.                                                                *)
(***************************************************************************)
EXTENDS Naturals, FiniteSets

CONSTANTS
    User,        \* accounts
    SID,         \* session ids
    Req,         \* slots for concurrent requests and sweeps
    None,        \* "no session" / "no user" in a request's locals
    RefreshTTL,  \* lifetime of a session row
    AccessTTL,   \* lifetime of an access token
    MaxTime,     \* bound: the clock stops here
    MaxPw        \* bound: password changes per account

ASSUME NoneIsNothing == None \notin SID \cup User
ASSUME TTLsArePositive == RefreshTTL \in Nat \ {0} /\ AccessTTL \in Nat \ {0}
ASSUME BoundsAreNaturals == MaxTime \in Nat /\ MaxPw \in Nat

VARIABLES
    status,   \* ga_users.status, "absent" before the row is inserted
    pw,       \* ga_users.password_hash, as the number of changes so far
    sess,     \* columns of every session row ever inserted, by id
    rows,     \* ids of the rows now in ga_sessions
    used,     \* ids whose used_at was set
    held,     \* ids whose token pair reached a client
    clock,    \* time, for the application and the database alike
    pc,       \* where each request is
    loc,      \* the locals of each request
    evicted   \* history: ids that existed when a finished DELETE covering them began

vars == <<status, pw, sess, rows, used, held, clock, pc, loc, evicted>>
tables == <<status, pw, sess, rows, used, evicted>>

Session == [user: User, family: SID, parent: SID,
            issued: Nat,    \* the request's own now, which the expiries count from
            pw: Nat]        \* the password version the family's login presented

minted == DOMAIN sess

Status == {"absent", "active", "blocked", "deleted"}

PC == {"idle",
       "issue", "touch", "reply",             \* mint a pair, answer with it
       "user", "begin", "spend", "successor", \* refresh grant
       "destroy", "destroying",               \* DELETE of one family
       "revoke", "revoking",                  \* DELETE of one user's sessions
       "set_status"}                          \* UPDATE without a DELETE

Goal == {"none", "login", "logout", "sweep",
         "password", "own_password", "blocked", "deleted", "active"}

Locals == [tok: SID \cup {None}, who: User \cup {None},
           at: Nat,                 \* now, taken when the request started
           tx: Nat,                 \* now(), taken when its transaction began
           row: [status: Status, pw: Nat],   \* the user row it read
           goal: Goal,
           snap: SUBSET SID,        \* rows in its DELETE's snapshot, not yet locked
           took: SUBSET SID,        \* rows its DELETE has locked
           seen: SUBSET SID]        \* history: ids its DELETE should cover

NoLocals == [tok |-> None, who |-> None, at |-> 0, tx |-> 0,
             row |-> [status |-> "absent", pw |-> 0],
             goal |-> "none", snap |-> {}, took |-> {}, seen |-> {}]

TypeOK ==
    /\ status \in [User -> Status]
    /\ pw \in [User -> Nat]
    /\ minted \subseteq SID /\ sess \in [minted -> Session]
    /\ rows \subseteq minted /\ used \subseteq minted
    /\ held \subseteq minted /\ evicted \subseteq minted
    /\ clock \in Nat
    /\ pc \in [Req -> PC]
    /\ loc \in [Req -> Locals]

Init ==
    /\ status = [u \in User |-> "absent"]
    /\ pw = [u \in User |-> 0]
    /\ sess = [s \in {} |-> s]
    /\ rows = {} /\ used = {} /\ held = {} /\ evicted = {}
    /\ clock = 0
    /\ pc = [r \in Req |-> "idle"]
    /\ loc = [r \in Req |-> NoLocals]

-----------------------------------------------------------------------------
(* Rows, locks, tokens *)

FamilyOf(f) == {s \in minted : sess[s].family = f}
UserSessions(u) == {s \in minted : sess[s].user = u}

ExpiresAt(s) == sess[s].issued + RefreshTTL

\* Session.Spent and Session.Expired, and the WHERE clause of SpendSession.
Spent(s) == s \in used
Expired(s, now) == now >= ExpiresAt(s)
SpendableAgain(s, now) == s \in rows /\ ~Expired(s, now)   \* fault: used_at not tested
Spendable(s, now) == s \in rows /\ ~Spent(s) /\ ~Expired(s, now)

\* A rotation's transaction holds the presented row, a DELETE the rows it has
\* come by, until they end.
HoldsRow(q, s) ==
    \/ pc[q] = "successor" /\ loc[q].tok = s
    \/ pc[q] \in {"destroying", "revoking"} /\ s \in loc[q].took
LockedByNobody(s) == FALSE   \* fault: the UPDATE is not conditional
Locked(s) == \E q \in Req : HoldsRow(q, s)

\* A transaction that updated the user row holds it; only a soft delete holds
\* it against the key-share lock of an INSERT into ga_sessions.
HoldsUser(q, u) == pc[q] = "revoking" /\ loc[q].who = u /\ loc[q].goal # "logout"
HoldsKey(q, u) == HoldsUser(q, u) /\ loc[q].goal = "deleted"
UserLocked(u) == \E q \in Req : HoldsUser(q, u)
KeyLocked(u) == \E q \in Req : HoldsKey(q, u)

\* middleware.Auth looks at the token alone, never at the session row.
AccessValid(t) == t \in held /\ clock < sess[t].issued + AccessTTL

UserRow(u) == [status |-> status[u], pw |-> pw[u]]

\* Bound: a request that will mint starts only while a free id is left for it.
IdsLeft == Cardinality({r \in Req : pc[r] # "idle"}) < Cardinality(SID \ minted)

Goto(r, label) == pc' = [pc EXCEPT ![r] = label]
Finish(r) == Goto(r, "idle") /\ loc' = [loc EXCEPT ![r] = NoLocals]
Start(r, label, locals) ==
    /\ pc[r] = "idle"
    /\ Goto(r, label)
    /\ loc' = [loc EXCEPT ![r] = locals]

InsertSession(s, row) ==
    /\ s \notin minted
    /\ sess' = [x \in minted \cup {s} |-> IF x = s THEN row ELSE sess[x]]
    /\ rows' = rows \cup {s}

MarkNothing(t) == UNCHANGED used   \* fault: the old token stays unspent
MarkSpent(t) == used' = used \cup {t}

\* The rows in the snapshot of a DELETE whose WHERE clause selects S.
LiveTargets(S) == (rows \ used) \cap S   \* fault: spent rows are kept
DeleteTargets(S) == rows \cap S

-----------------------------------------------------------------------------
(* Starting a family: register, password grant, and the pair they mint *)

\* auth_register: CreateUser commits, then now is taken and a pair is issued.
Register(r, u) ==
    /\ IdsLeft /\ status[u] = "absent"
    /\ status' = [status EXCEPT ![u] = "active"]
    /\ Start(r, "issue", [NoLocals EXCEPT !.who = u, !.at = clock,
                                          !.row = [status |-> "active", pw |-> pw[u]]])
    /\ UNCHANGED <<pw, sess, rows, used, held, clock, evicted>>

\* passwordGrant up to Issue: the row read verifies the presented password and
\* is active.  A wrong password, an unknown or a deleted identifier and a
\* blocked account are answered without a change to these tables.
PasswordGrant(r, u) ==
    /\ IdsLeft /\ status[u] = "active"
    /\ Start(r, "issue", [NoLocals EXCEPT !.who = u, !.at = clock, !.row = UserRow(u),
                                          !.goal = "login"])
    /\ UNCHANGED <<tables, held, clock>>

\* fault: the pair is answered although no row was stored
IssueUnstored(r) ==
    /\ pc[r] = "issue" /\ Goto(r, "reply")
    /\ UNCHANGED <<tables, loc, held, clock>>

\* Issuer.Issue: one INSERT, then the access token is signed.
Issue(r) ==
    /\ pc[r] = "issue" /\ ~KeyLocked(loc[r].who)
    /\ \E s \in SID :
         /\ InsertSession(s, [user |-> loc[r].who, family |-> s, parent |-> s,
                              issued |-> loc[r].at, pw |-> loc[r].row.pw])
         /\ IF loc[r].goal = "login"
              THEN /\ Goto(r, "touch")
                   /\ loc' = [loc EXCEPT ![r] = [NoLocals EXCEPT !.tok = s, !.who = loc[r].who]]
              ELSE /\ Goto(r, "reply")
                   /\ loc' = [loc EXCEPT ![r] = [NoLocals EXCEPT !.tok = s]]
    /\ UNCHANGED <<status, pw, used, held, clock, evicted>>

\* TouchUserLogin, an UPDATE of the user row that has to wait for other UPDATEs of
\* it.  When it fails the pair is dropped, as in Abort, and its session stays.
TouchUserLogin(r) ==
    /\ pc[r] = "touch" /\ ~UserLocked(loc[r].who)
    /\ Goto(r, "reply")
    /\ loc' = [loc EXCEPT ![r].who = None]
    /\ UNCHANGED <<tables, held, clock>>

\* The pair reaches the client.
Reply(r) ==
    /\ pc[r] = "reply"
    /\ held' = held \cup {loc[r].tok}
    /\ Finish(r)
    /\ UNCHANGED <<tables, clock>>

-----------------------------------------------------------------------------
(* refreshGrant *)

\* The presented row was already spent: the family is to be destroyed.
RefreshReused(r, t) ==
    /\ t \in held \cap rows /\ Spent(t)
    /\ Start(r, "destroy", [NoLocals EXCEPT !.tok = t])
    /\ UNCHANGED <<tables, held, clock>>

\* The presented row is live as of now.  A missing or an expired unspent row
\* is answered without a change.
RefreshLive(r, t) ==
    /\ IdsLeft /\ t \in held \cap rows /\ ~Spent(t) /\ ~Expired(t, clock)
    /\ Start(r, "user", [NoLocals EXCEPT !.tok = t, !.at = clock])
    /\ UNCHANGED <<tables, held, clock>>

\* GetUserByID and statusError: the owner is active.
LoadUser(r) ==
    LET u == sess[loc[r].tok].user IN
    /\ pc[r] = "user" /\ status[u] = "active"
    /\ Goto(r, "begin")
    /\ loc' = [loc EXCEPT ![r].who = u]
    /\ UNCHANGED <<tables, held, clock>>

RefuseUser(r) ==
    /\ pc[r] = "user" /\ status[sess[loc[r].tok].user] # "active"
    /\ Finish(r)
    /\ UNCHANGED <<tables, held, clock>>

\* BEGIN of RotateSession, which fixes now() for the transaction.
BeginRotation(r) ==
    /\ pc[r] = "begin"
    /\ Goto(r, "spend")
    /\ loc' = [loc EXCEPT ![r].tx = clock]
    /\ UNCHANGED <<tables, held, clock>>

\* SpendSession matched the row, and holds its lock until the commit.
Spend(r) ==
    /\ pc[r] = "spend" /\ ~Locked(loc[r].tok)
    /\ Spendable(loc[r].tok, loc[r].tx)
    /\ Goto(r, "successor")
    /\ UNCHANGED <<tables, loc, held, clock>>

\* fault: a row that a competing rotation holds counts as spent
SpendNoWait(r) ==
    /\ pc[r] = "spend" /\ (Locked(loc[r].tok) \/ ~Spendable(loc[r].tok, loc[r].tx))
    /\ Goto(r, "destroy")
    /\ loc' = [loc EXCEPT ![r] = [NoLocals EXCEPT !.tok = loc[r].tok]]
    /\ UNCHANGED <<tables, held, clock>>

\* SpendSession matched nothing, which the caller reads as reuse.
SpendNoRows(r) ==
    /\ pc[r] = "spend" /\ ~Locked(loc[r].tok)
    /\ ~Spendable(loc[r].tok, loc[r].tx)
    /\ Goto(r, "destroy")
    /\ loc' = [loc EXCEPT ![r] = [NoLocals EXCEPT !.tok = loc[r].tok]]
    /\ UNCHANGED <<tables, held, clock>>

\* CreateSession of the successor and COMMIT make both writes visible at once.
Rotate(r) ==
    LET t == loc[r].tok IN
    /\ pc[r] = "successor" /\ ~KeyLocked(loc[r].who)
    /\ MarkSpent(t)
    /\ \E s \in SID :
         /\ InsertSession(s, [user |-> loc[r].who, family |-> sess[t].family, parent |-> t,
                              issued |-> loc[r].at, pw |-> sess[t].pw])
         /\ loc' = [loc EXCEPT ![r] = [NoLocals EXCEPT !.tok = s]]
    /\ Goto(r, "reply")
    /\ UNCHANGED <<status, pw, held, clock, evicted>>

-----------------------------------------------------------------------------
(* DELETE of a family: reuse detection and auth_revoke *)

\* auth_revoke: the session of the access token is still there.
Revoke(r, t) ==
    /\ AccessValid(t) /\ t \in rows
    /\ Start(r, "destroy", [NoLocals EXCEPT !.tok = t, !.goal = "logout"])
    /\ UNCHANGED <<tables, held, clock>>

\* DeleteSessionFamily takes its snapshot ...
DestroyBegin(r) ==
    LET f == sess[loc[r].tok].family IN
    /\ pc[r] = "destroy"
    /\ Goto(r, "destroying")
    /\ loc' = [loc EXCEPT ![r].snap = DeleteTargets(FamilyOf(f)), ![r].took = {},
                          ![r].seen = FamilyOf(f)]
    /\ UNCHANGED <<tables, held, clock>>

\* fault: the DELETE does not wait for a rotation in flight
DeleteWithoutWaiting(r) ==
    /\ rows' = rows \ (loc[r].snap \cup loc[r].took)
    /\ evicted' = evicted \cup loc[r].seen

\* ... locks the rows in it one after the other, in the order of its scan, ...
DeleteRow(r) ==
    /\ pc[r] \in {"destroying", "revoking"}
    /\ \E s \in loc[r].snap \cap rows :
         /\ ~Locked(s)
         /\ loc' = [loc EXCEPT ![r].snap = (@ \cap rows) \ {s}, ![r].took = @ \cup {s}]
    /\ UNCHANGED <<tables, held, clock, pc>>

\* ... and removes those when nothing of it is left: rows that went meanwhile are
\* skipped.
DeleteSnapshot(r) ==
    /\ loc[r].snap \cap rows = {}
    /\ rows' = rows \ loc[r].took
    /\ evicted' = evicted \cup loc[r].seen

DestroyEnd(r) ==
    /\ pc[r] = "destroying"
    /\ DeleteSnapshot(r)
    /\ Finish(r)
    /\ UNCHANGED <<status, pw, sess, used, held, clock>>

-----------------------------------------------------------------------------
(* DELETE of all sessions of a user, alone or with an UPDATE of the user *)

StartRevoke(r, u, goal) ==
    /\ Start(r, "revoke", [NoLocals EXCEPT !.who = u, !.goal = goal])
    /\ UNCHANGED <<tables, held, clock>>

\* auth_logout_all, from a token that verifies.
LogoutAll(r, t) ==
    /\ AccessValid(t)
    /\ StartRevoke(r, sess[t].user, "logout")

\* admin_user_sessions_revoke.
AdminRevokeSessions(r, u) ==
    /\ status[u] # "absent"
    /\ StartRevoke(r, u, "logout")

\* auth_password_change: the row read verifies the current password; its
\* status is not looked at.
PasswordChange(r, t) ==
    /\ IdsLeft /\ AccessValid(t) /\ pw[sess[t].user] < MaxPw
    /\ StartRevoke(r, sess[t].user, "own_password")

\* admin_user_set_password.
AdminSetPassword(r, u) ==
    /\ status[u] # "absent" /\ pw[u] < MaxPw
    /\ StartRevoke(r, u, "password")

\* admin_user_update of the status: whether sessions go is decided from the
\* status it read.
AdminBlock(r, u) ==
    /\ status[u] = "active"
    /\ StartRevoke(r, u, "blocked")

\* Any other change of status leaves the sessions alone.  A deleted account has
\* lost its identifiers and can only be given a status together with a new one;
\* without it the UPDATE fails, as in Abort.
AdminSetStatus(r, u, st) ==
    /\ status[u] # "absent" /\ ~(status[u] = "active" /\ st = "blocked")
    /\ Start(r, "set_status", [NoLocals EXCEPT !.who = u, !.goal = st])
    /\ UNCHANGED <<tables, held, clock>>

\* admin_user_delete; a deleted account is left alone.
AdminDelete(r, u) ==
    /\ status[u] \notin {"absent", "deleted"}
    /\ StartRevoke(r, u, "deleted")

\* The UPDATE of the user row has its lock, the DELETE has its snapshot.
RevokeBegin(r) ==
    LET u == loc[r].who IN
    /\ pc[r] = "revoke"
    /\ loc[r].goal # "logout" => ~UserLocked(u)
    /\ Goto(r, "revoking")
    /\ loc' = [loc EXCEPT ![r].snap = DeleteTargets(UserSessions(u)), ![r].took = {},
                          ![r].seen = UserSessions(u)]
    /\ UNCHANGED <<tables, held, clock>>

LogoutEnd(r) ==
    /\ pc[r] = "revoking" /\ loc[r].goal = "logout"
    /\ DeleteSnapshot(r)
    /\ Finish(r)
    /\ UNCHANGED <<status, pw, sess, used, held, clock>>

\* Commit of UpdateUserAndRevokeSessions or SoftDeleteUser.
StatusEnd(r) ==
    /\ pc[r] = "revoking" /\ loc[r].goal \in {"blocked", "deleted"}
    /\ DeleteSnapshot(r)
    /\ status' = [status EXCEPT ![loc[r].who] = loc[r].goal]
    /\ Finish(r)
    /\ UNCHANGED <<pw, sess, used, held, clock>>

\* Commit of SetPasswordAndRevokeSessions; the account's own change goes on to
\* issue a pair for the updated row.
PasswordEnd(r) ==
    LET u == loc[r].who IN
    /\ pc[r] = "revoking" /\ loc[r].goal \in {"password", "own_password"}
    /\ DeleteSnapshot(r)
    /\ pw' = [pw EXCEPT ![u] = @ + 1]
    /\ IF loc[r].goal = "password"
         THEN Finish(r)
         ELSE /\ Goto(r, "issue")
              /\ loc' = [loc EXCEPT ![r] = [NoLocals EXCEPT
                    !.who = u, !.at = clock, !.row = [status |-> status[u], pw |-> pw[u] + 1]]]
    /\ UNCHANGED <<status, sess, used, held, clock>>

\* UpdateUser of a status that costs no sessions.
SetStatus(r) ==
    /\ pc[r] = "set_status" /\ ~UserLocked(loc[r].who)
    /\ status' = [status EXCEPT ![loc[r].who] = loc[r].goal]
    /\ Finish(r)
    /\ UNCHANGED <<pw, sess, rows, used, held, clock, evicted>>

-----------------------------------------------------------------------------
(* Failure, time, the sweep *)

\* A lost connection, a cancelled request or a crashed instance: the open
\* transaction, if any, is rolled back and the client gets nothing.
Abort(r) ==
    /\ pc[r] # "idle"
    /\ Finish(r)
    /\ UNCHANGED <<tables, held, clock>>

\* The next statement of r has to wait for a lock that the transaction of q holds.
\* (A DELETE waits when every row left to it is locked.)
WaitsFor(r, q) ==
    \/ pc[r] = "spend" /\ HoldsRow(q, loc[r].tok)
    \/ /\ pc[r] \in {"destroying", "revoking"}
       /\ \A s \in loc[r].snap \cap rows : Locked(s)
       /\ \E s \in loc[r].snap \cap rows : HoldsRow(q, s)
    \/ pc[r] \in {"issue", "successor"} /\ HoldsKey(q, loc[r].who)
    \/ pc[r] \in {"touch", "set_status"} /\ HoldsUser(q, loc[r].who)
    \/ pc[r] = "revoke" /\ loc[r].goal # "logout" /\ HoldsUser(q, loc[r].who)

\* Requests that wait for one another and for nobody else: a rotation whose INSERT
\* waits for the key of a soft delete that waits for the rotation's row, two DELETEs
\* that hold rows of each other's snapshots, or longer circles of these.
Deadlocked(C) ==
    \A r \in C :
        /\ \E q \in C : WaitsFor(r, q)
        /\ \E q \in C : WaitsFor(q, r)
        /\ \A q \in Req \ C : ~WaitsFor(r, q)

LetThemWait(r) == FALSE /\ UNCHANGED vars   \* fault: no deadlock detection

\* The database aborts one of them.
BreakDeadlock(r) ==
    /\ \E C \in SUBSET Req : r \in C /\ Deadlocked(C)
    /\ Finish(r)
    /\ UNCHANGED <<tables, held, clock>>

\* session_cleaner: one DELETE of the rows whose expires_at is past.
Sweep(r) ==
    LET past == {s \in rows : clock > ExpiresAt(s)} IN
    /\ past # {}
    /\ Start(r, "destroying", [NoLocals EXCEPT !.goal = "sweep", !.snap = past,
                                    !.seen = past])
    /\ UNCHANGED <<tables, held, clock>>

Tick ==
    /\ clock < MaxTime
    /\ clock' = clock + 1
    /\ UNCHANGED <<tables, held, pc, loc>>

-----------------------------------------------------------------------------

\* A request arrives and its first read is answered.
Arrive(r) ==
    \/ \E u \in User : Register(r, u) \/ PasswordGrant(r, u) \/ AdminRevokeSessions(r, u)
                       \/ AdminSetPassword(r, u) \/ AdminBlock(r, u) \/ AdminDelete(r, u)
    \/ \E u \in User, st \in {"active", "blocked"} : AdminSetStatus(r, u, st)
    \/ \E t \in SID : RefreshReused(r, t) \/ RefreshLive(r, t) \/ Revoke(r, t)
                       \/ LogoutAll(r, t) \/ PasswordChange(r, t)
    \/ Sweep(r)

\* A request takes its next step.
Proceed(r) ==
    \/ Issue(r) \/ TouchUserLogin(r) \/ Reply(r)
    \/ LoadUser(r) \/ RefuseUser(r) \/ BeginRotation(r) \/ Spend(r) \/ SpendNoRows(r) \/ Rotate(r)
    \/ DestroyBegin(r) \/ DeleteRow(r) \/ DestroyEnd(r)
    \/ RevokeBegin(r) \/ LogoutEnd(r) \/ StatusEnd(r) \/ PasswordEnd(r) \/ SetStatus(r)

Next ==
    \/ \E r \in Req : Arrive(r) \/ Proceed(r) \/ Abort(r) \/ BreakDeadlock(r)
    \/ Tick

Spec == Init /\ [][Next]_vars

\* A running handler goes on, row-lock queues are first come first served
\* (hence strong fairness where a step may have to wait), and the database
\* breaks deadlocks.
Fairness ==
    /\ \A r \in Req : SF_vars(Proceed(r))
    /\ \A r \in Req : WF_vars(BreakDeadlock(r))

FairSpec == Spec /\ Fairness
-----------------------------------------------------------------------------
(* Properties *)

\* The locals a request relies on at each of its steps name rows that exist.
Fits(label, l, ids) ==
    /\ label \in {"user", "begin", "spend", "successor", "destroy", "touch", "reply"}
          => l.tok \in ids
    /\ label \in {"issue", "touch", "begin", "spend", "successor", "revoke", "revoking",
                  "set_status"}
          => l.who \in User
    /\ label = "set_status" => l.goal \in Status
    /\ label \in {"destroying", "revoking"} => l.seen \subseteq ids
    /\ label = "destroying" /\ l.goal # "sweep" => l.tok \in ids

LocalsOK == \A r \in Req : Fits(pc[r], loc[r], minted)

\* What the row locks and the DELETE snapshots guarantee: a row being exchanged
\* is present and unspent, a locked row is held by one transaction and stays in the
\* table meanwhile; of the sessions a running DELETE is meant for, those still in
\* the table are locked by it or left in its snapshot.
LocksOK ==
    /\ \A r \in Req : pc[r] = "successor" => loc[r].tok \notin used
    /\ \A r \in Req, s \in SID : HoldsRow(r, s) => s \in rows
    /\ \A r, q \in Req, s \in SID : HoldsRow(r, s) /\ HoldsRow(q, s) => r = q
    /\ \A r \in Req : pc[r] \in {"destroying", "revoking"}
          => rows \cap loc[r].seen \subseteq loc[r].snap \cup loc[r].took

\* RotateSession: "Two requests racing with the same token therefore produce
\* exactly one winner".  No refresh token is ever exchanged for two successors,
\* whatever other rotations, deletions and rollbacks ran in between.
ExchangedOnce ==
    \A a, b \in minted :
        (a # sess[a].parent /\ b # sess[b].parent /\ sess[a].parent = sess[b].parent)
            => a = b

\* A row that has a successor is spent, and a spent row has a successor.
SpentIsExchanged ==
    \A t \in minted : Spent(t) <=> \E s \in minted \ {t} : sess[s].parent = t

\* refreshGrant destroys a family when the presented token "was already spent", or
\* "lost the race against a concurrent rotation".  The token it presented has then
\* really been exchanged for a successor, has been deleted or has expired: a
\* competing rotation that was rolled back, however late, costs nobody the family.
ReuseHasCause ==
    \A r \in Req : pc[r] \in {"destroy", "destroying"} /\ loc[r].goal = "none" =>
        LET t == loc[r].tok IN
        \/ \E s \in minted \ {t} : sess[s].parent = t
        \/ t \notin rows
        \/ Expired(t, clock)

\* A family is a chain: at most one of its rows can still be exchanged, so a
\* stolen token and its owner's token are never both good.
OneLiveToken ==
    \A a, b \in rows \ used : sess[a].family = sess[b].family => a = b

\* auth_revoke, logout_all, password change, block and delete: once the DELETE
\* is over, no session that existed when it began is in the table, or ever
\* comes back, or is being exchanged.
EvictedStaysOut ==
    /\ rows \cap evicted = {}
    /\ \A r \in Req : pc[r] = "successor" => loc[r].tok \notin evicted

\* The inductive invariant: the properties above, with what the locals, the
\* locks and the snapshots contribute, and families that name real sessions.
Lineage == \A s \in minted : sess[s].family \in minted /\ sess[s].parent \in minted

BeganBefore == \A r \in Req : loc[r].tx <= clock

SessionInv ==
    /\ LocalsOK /\ LocksOK /\ Lineage
    /\ ExchangedOnce /\ SpentIsExchanged /\ OneLiveToken /\ EvictedStaysOut
    /\ BeganBefore /\ ReuseHasCause

\* A family all of whose rows are gone is never continued: a rotation still in
\* flight cannot bring it back.
DeadFamilyStaysDead ==
    [][\A f \in minted : rows \cap FamilyOf(f) = {} => (rows \cap FamilyOf(f))' = {}]_vars

\* Sessions implements the abstract token chain.
Chain == INSTANCE RefreshChain WITH
            Token <- SID,
            family <- [s \in minted |-> sess[s].family],
            live <- rows \ used

ChainSpec == Chain!ChainSpec

\* Every request is answered: waiting for row locks ends, including the circular
\* waits of rotations, soft deletes and DELETEs of several rows.
RequestsEnd == \A r \in Req : pc[r] # "idle" ~> pc[r] = "idle"
=============================================================================
