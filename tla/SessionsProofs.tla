--------------------------- MODULE SessionsProofs ---------------------------
(***************************************************************************)
(* Theorems about Sessions for every set of users, sessions and requests   *)
(* and every value of the time-to-live constants and bounds.               *)
(***************************************************************************)
EXTENDS Sessions, TLAPS

-----------------------------------------------------------------------------
(* Types *)

\* A slot with no request in it is well typed.
LEMMA NoLocalsTyped == NoLocals \in Locals
  BY NoneIsNothing DEF NoLocals, Locals, Status, Goal

\* The database starts without sessions.
LEMMA TypeInit == Init => TypeOK /\ LocalsOK
  BY NoLocalsTyped DEF Init, TypeOK, LocalsOK, Fits, minted, Status, PC

\* A step changes the label and the locals of one request.
LEMMA OneRequestMoves ==
  ASSUME TypeOK, LocalsOK, NEW r \in Req, NEW label \in PC, NEW l \in Locals,
         pc' = [pc EXCEPT ![r] = label], loc' = [loc EXCEPT ![r] = l],
         minted \subseteq minted', Fits(label, l, minted')
  PROVE  pc' \in [Req -> PC] /\ loc' \in [Req -> Locals] /\ LocalsOK'
<1>1. \A q \in Req : q # r => pc'[q] = pc[q] /\ loc'[q] = loc[q]
  BY DEF TypeOK
<1>2. pc'[r] = label /\ loc'[r] = l
  BY DEF TypeOK
<1>3. \A q \in Req : Fits(pc[q], loc[q], minted) => Fits(pc[q], loc[q], minted')
  BY DEF Fits
<1> QED
  BY <1>1, <1>2, <1>3 DEF TypeOK, LocalsOK

\* A request that ends carries nothing.
LEMMA FinishTyped ==
  ASSUME TypeOK, LocalsOK, NEW r \in Req, Finish(r), minted' = minted
  PROVE  pc' \in [Req -> PC] /\ loc' \in [Req -> Locals] /\ LocalsOK'
<1>1. Fits("idle", NoLocals, minted')
  BY DEF Fits
<1> QED
  BY <1>1, OneRequestMoves, NoLocalsTyped DEF Finish, Goto, PC

\* A new session is the only change of the table.
LEMMA InsertTyped ==
  ASSUME TypeOK, NEW s \in SID, NEW row \in Session, InsertSession(s, row)
  PROVE  /\ minted' = minted \cup {s}
         /\ minted' \subseteq SID /\ sess' \in [minted' -> Session]
         /\ rows' \subseteq minted'
  BY DEF TypeOK, minted, InsertSession

\* A request or a sweep that begins holds no lock, has all of its snapshot left, and
\* destroys a family only for a spent token.
Fresh(label, l) ==
    /\ label \notin {"spend", "successor", "revoking"}
    /\ label = "destroying" => l.took = {} /\ l.seen = l.snap /\ l.goal = "sweep"
    /\ label = "destroy" /\ l.goal = "none" => Spent(l.tok)
    /\ l.tx = 0

\* A request arrives: the session table is left alone, and the request starts
\* with well-typed locals.
LEMMA ArrivalLocals ==
  ASSUME TypeOK, NEW r \in Req, Arrive(r)
  PROVE  /\ status' \in [User -> Status]
         /\ UNCHANGED <<pw, sess, rows, used, held, clock, evicted>>
         /\ \E label \in PC, l \in Locals :
              /\ Fits(label, l, minted)
              /\ Fresh(label, l)
              /\ pc' = [pc EXCEPT ![r] = label] /\ loc' = [loc EXCEPT ![r] = l]
<1> DEFINE Quiet(label, l) ==
              /\ status' \in [User -> Status]
              /\ UNCHANGED <<pw, sess, rows, used, held, clock, evicted>>
              /\ label \in PC /\ l \in Locals /\ Fits(label, l, minted)
              /\ Fresh(label, l)
              /\ pc' = [pc EXCEPT ![r] = label] /\ loc' = [loc EXCEPT ![r] = l]
<1> USE DEF Start, Goto, tables, PC, TypeOK, Fits, Fresh, Status
<1>1. ASSUME NEW u \in User, Register(r, u)
      PROVE  Quiet("issue", [NoLocals EXCEPT !.who = u, !.at = clock,
                                !.row = [status |-> "active", pw |-> pw[u]]])
  BY <1>1, NoLocalsTyped DEF Register, NoLocals, Locals
<1>2. ASSUME NEW u \in User, PasswordGrant(r, u)
      PROVE  Quiet("issue", [NoLocals EXCEPT !.who = u, !.at = clock, !.row = UserRow(u),
                                             !.goal = "login"])
  BY <1>2, NoLocalsTyped DEF PasswordGrant, UserRow, NoLocals, Locals, Goal
<1>3. ASSUME NEW u \in User, NEW goal \in {"logout", "password", "own_password", "blocked", "deleted"},
             StartRevoke(r, u, goal)
      PROVE  Quiet("revoke", [NoLocals EXCEPT !.who = u, !.goal = goal])
  BY <1>3, NoLocalsTyped DEF StartRevoke, NoLocals, Locals, Goal
<1>4. ASSUME NEW u \in User, NEW st \in {"active", "blocked"}, AdminSetStatus(r, u, st)
      PROVE  Quiet("set_status", [NoLocals EXCEPT !.who = u, !.goal = st])
  BY <1>4, NoLocalsTyped DEF AdminSetStatus, NoLocals, Locals, Goal
<1>5. ASSUME NEW t \in SID, RefreshReused(r, t)
      PROVE  Quiet("destroy", [NoLocals EXCEPT !.tok = t])
  BY <1>5, NoLocalsTyped DEF RefreshReused, NoLocals, Locals
<1>6. ASSUME NEW t \in SID, RefreshLive(r, t)
      PROVE  Quiet("user", [NoLocals EXCEPT !.tok = t, !.at = clock])
  BY <1>6, NoLocalsTyped DEF RefreshLive, NoLocals, Locals
<1>7. ASSUME NEW t \in SID, Revoke(r, t)
      PROVE  Quiet("destroy", [NoLocals EXCEPT !.tok = t, !.goal = "logout"])
  BY <1>7, NoLocalsTyped DEF Revoke, AccessValid, NoLocals, Locals, Goal
<1>8. ASSUME NEW t \in SID, AccessValid(t) PROVE sess[t].user \in User
  BY <1>8 DEF AccessValid, Session
<1>10. ASSUME Sweep(r)
       PROVE  Quiet("destroying", [NoLocals EXCEPT !.goal = "sweep",
                                      !.snap = {s \in rows : clock > ExpiresAt(s)},
                                      !.seen = {s \in rows : clock > ExpiresAt(s)}])
  BY <1>10, NoLocalsTyped DEF Sweep, NoLocals, Locals, Goal
<1>9. \E label, l : Quiet(label, l)
  <2> HIDE DEF Quiet
  <2> QED
    BY <1>1, <1>2, <1>3, <1>4, <1>5, <1>6, <1>7, <1>8, <1>10
       DEF Arrive, AdminRevokeSessions, AdminSetPassword, AdminBlock, AdminDelete,
           LogoutAll, PasswordChange
<1> HIDE DEF Start, Goto, tables, PC, TypeOK, Fits, Fresh, Status
<1> QED
  BY <1>9

\* A request that arrives carries what its handler needs.
LEMMA ArriveTyped ==
  ASSUME TypeOK, LocalsOK, NEW r \in Req, Arrive(r)
  PROVE  TypeOK' /\ LocalsOK'
<1>1. PICK label \in PC, l \in Locals :
         /\ Fits(label, l, minted)
         /\ pc' = [pc EXCEPT ![r] = label] /\ loc' = [loc EXCEPT ![r] = l]
  BY ArrivalLocals
<1>2. minted' = minted
  BY ArrivalLocals DEF minted
<1>3. pc' \in [Req -> PC] /\ loc' \in [Req -> Locals] /\ LocalsOK'
  BY <1>1, <1>2, OneRequestMoves
<1> QED
  BY <1>2, <1>3, ArrivalLocals DEF TypeOK

\* A request whose DELETE is over: the rows it removed and the ids it covered.
LEMMA DeleteTyped ==
  ASSUME TypeOK, LocalsOK, NEW r \in Req, pc[r] \in {"destroying", "revoking"},
         DeleteSnapshot(r), minted' = minted
  PROVE  rows' \subseteq minted' /\ evicted' \subseteq minted'
  BY DEF TypeOK, LocalsOK, Fits, DeleteSnapshot

\* The later steps of a request.
LEMMA ProceedTyped ==
  ASSUME TypeOK, LocalsOK, NEW r \in Req, Proceed(r)
  PROVE  TypeOK' /\ LocalsOK'
<1> USE DEF tables
<1> DEFINE Typed == pc' \in [Req -> PC] /\ loc' \in [Req -> Locals] /\ LocalsOK'
<1>0. loc[r] \in Locals /\ Fits(pc[r], loc[r], minted)
  BY DEF TypeOK, LocalsOK
<1>1. CASE Issue(r)
  <2>1. PICK s \in SID :
          /\ InsertSession(s, [user |-> loc[r].who, family |-> s, parent |-> s,
                              issued |-> loc[r].at, pw |-> loc[r].row.pw])
          /\ \/ /\ pc' = [pc EXCEPT ![r] = "reply"]
                /\ loc' = [loc EXCEPT ![r] = [NoLocals EXCEPT !.tok = s]]
             \/ /\ pc' = [pc EXCEPT ![r] = "touch"]
                /\ loc' = [loc EXCEPT ![r] = [NoLocals EXCEPT !.tok = s, !.who = loc[r].who]]
    BY <1>1 DEF Issue, Goto
  <2>2. [user |-> loc[r].who, family |-> s, parent |-> s, issued |-> loc[r].at,
         pw |-> loc[r].row.pw] \in Session
    BY <1>0, <1>1 DEF Issue, Fits, Locals, Session, TypeOK
  <2>3. /\ minted' = minted \cup {s} /\ minted' \subseteq SID
        /\ sess' \in [minted' -> Session] /\ rows' \subseteq minted'
    BY <2>1, <2>2, InsertTyped
  <2> DEFINE l == [NoLocals EXCEPT !.tok = s]
             k == [NoLocals EXCEPT !.tok = s, !.who = loc[r].who]
  <2>4. l \in Locals /\ Fits("reply", l, minted') /\ "reply" \in PC
    BY <2>3, NoLocalsTyped DEF Fits, PC, NoLocals, Locals
  <2>5. k \in Locals /\ Fits("touch", k, minted') /\ "touch" \in PC
    BY <1>0, <1>1, <2>3, NoLocalsTyped DEF Issue, Fits, PC, NoLocals, Locals
  <2>6. \/ pc' = [pc EXCEPT ![r] = "reply"] /\ loc' = [loc EXCEPT ![r] = l]
        \/ pc' = [pc EXCEPT ![r] = "touch"] /\ loc' = [loc EXCEPT ![r] = k]
    BY <2>1
  <2>7. Typed
    BY <2>3, <2>4, <2>5, <2>6, OneRequestMoves
  <2> QED
    BY <1>1, <2>3, <2>7 DEF TypeOK, Issue
<1>2. CASE Reply(r)
  <2>1. minted' = minted /\ Finish(r) /\ loc[r].tok \in minted
    BY <1>0, <1>2 DEF Reply, minted, Fits
  <2> QED
    BY <1>2, <2>1, FinishTyped DEF TypeOK, Reply
<1>3. CASE LoadUser(r)
  <2> DEFINE u == sess[loc[r].tok].user
             l == [loc[r] EXCEPT !.who = u]
  <2>1. loc[r].tok \in minted /\ u \in User
    BY <1>0, <1>3 DEF LoadUser, Fits, TypeOK, Session
  <2>2. l \in Locals /\ l.tok \in minted /\ l.who \in User
    BY <1>0, <2>1 DEF Locals, TypeOK
  <2>3. minted' = minted /\ pc' = [pc EXCEPT ![r] = "begin"] /\ loc' = [loc EXCEPT ![r] = l]
    BY <1>3 DEF LoadUser, Goto, minted, TypeOK
  <2>4. Fits("begin", l, minted') /\ "begin" \in PC
    BY <2>2, <2>3 DEF Fits, PC
  <2>5. Typed
    BY <2>2, <2>3, <2>4, OneRequestMoves
  <2> QED
    BY <1>3, <2>3, <2>5 DEF TypeOK, LoadUser
<1>4. CASE RefuseUser(r)
  <2>1. minted' = minted /\ Finish(r)
    BY <1>4 DEF RefuseUser, minted
  <2> QED
    BY <1>4, <2>1, FinishTyped DEF TypeOK, RefuseUser
<1>5. CASE Spend(r)
  <2>1. minted' = minted /\ pc' = [pc EXCEPT ![r] = "successor"]
        /\ loc' = [loc EXCEPT ![r] = loc[r]]
    BY <1>5 DEF Spend, Goto, minted, TypeOK
  <2>2. Fits("successor", loc[r], minted') /\ "successor" \in PC
    BY <1>0, <1>5, <2>1 DEF Spend, Fits, PC
  <2>3. Typed
    BY <1>0, <2>1, <2>2, OneRequestMoves
  <2> QED
    BY <1>5, <2>1, <2>3 DEF TypeOK, Spend
<1>6. CASE SpendNoRows(r)
  <2> DEFINE l == [NoLocals EXCEPT !.tok = loc[r].tok]
  <2>1. minted' = minted /\ pc' = [pc EXCEPT ![r] = "destroy"] /\ loc' = [loc EXCEPT ![r] = l]
    BY <1>6 DEF SpendNoRows, Goto, minted
  <2>2. l \in Locals /\ l.tok \in minted
    BY <1>0, <1>6, NoLocalsTyped DEF SpendNoRows, Fits, NoLocals, Locals
  <2>3. Fits("destroy", l, minted') /\ "destroy" \in PC
    BY <2>1, <2>2 DEF Fits, PC
  <2>4. Typed
    BY <2>1, <2>2, <2>3, OneRequestMoves
  <2> QED
    BY <1>6, <2>1, <2>4 DEF TypeOK, SpendNoRows
<1>7. CASE Rotate(r)
  <2> DEFINE t == loc[r].tok
             row == [user |-> loc[r].who, family |-> sess[t].family, parent |-> t,
                     issued |-> loc[r].at, pw |-> sess[t].pw]
  <2>1. PICK s \in SID : InsertSession(s, row)
                          /\ loc' = [loc EXCEPT ![r] = [NoLocals EXCEPT !.tok = s]]
    BY <1>7 DEF Rotate
  <2>2. t \in minted /\ sess[t] \in Session /\ loc[r].who \in User
    BY <1>0, <1>7 DEF Rotate, Fits, TypeOK
  <2>3. row \in Session
    BY <1>0, <2>2 DEF Locals, Session, TypeOK
  <2>4. /\ minted' = minted \cup {s} /\ minted' \subseteq SID
        /\ sess' \in [minted' -> Session] /\ rows' \subseteq minted'
    BY <2>1, <2>3, InsertTyped
  <2>5. [NoLocals EXCEPT !.tok = s] \in Locals
        /\ Fits("reply", [NoLocals EXCEPT !.tok = s], minted') /\ "reply" \in PC
    BY <2>4, NoLocalsTyped DEF Fits, PC, NoLocals, Locals
  <2>6. Typed
    BY <1>7, <2>1, <2>4, <2>5, OneRequestMoves DEF Rotate, Goto
  <2> QED
    BY <1>7, <2>2, <2>4, <2>6 DEF TypeOK, Rotate, MarkSpent
<1>8. CASE DestroyBegin(r)
  <2> DEFINE S == FamilyOf(sess[loc[r].tok].family)
             l == [loc[r] EXCEPT !.snap = DeleteTargets(S), !.took = {}, !.seen = S]
  <2>1. /\ minted' = minted /\ pc' = [pc EXCEPT ![r] = "destroying"]
        /\ loc' = [loc EXCEPT ![r] = l]
    BY <1>8 DEF DestroyBegin, Goto, minted, TypeOK
  <2>2. S \subseteq minted /\ DeleteTargets(S) \subseteq minted
    BY DEF FamilyOf, DeleteTargets
  <2>3. l \in Locals /\ l.tok = loc[r].tok /\ l.who = loc[r].who /\ l.seen = S
    BY <1>0, <2>2 DEF Locals, TypeOK
  <2>4. Fits("destroying", l, minted') /\ "destroying" \in PC
    BY <1>0, <1>8, <2>1, <2>2, <2>3 DEF DestroyBegin, Fits, PC
  <2>5. Typed
    BY <2>1, <2>3, <2>4, OneRequestMoves
  <2> QED
    BY <1>8, <2>1, <2>5 DEF TypeOK, DestroyBegin
<1>9. CASE DestroyEnd(r)
  <2>1. minted' = minted /\ Finish(r)
    BY <1>9 DEF DestroyEnd, minted
  <2>2. rows' \subseteq minted' /\ evicted' \subseteq minted'
    BY <1>9, <2>1, DeleteTyped DEF DestroyEnd
  <2>3. Typed
    BY <2>1, FinishTyped
  <2> QED
    BY <1>9, <2>1, <2>2, <2>3 DEF TypeOK, DestroyEnd
<1>10. CASE RevokeBegin(r)
  <2> DEFINE S == UserSessions(loc[r].who)
             l == [loc[r] EXCEPT !.snap = DeleteTargets(S), !.took = {}, !.seen = S]
  <2>1. /\ minted' = minted /\ pc' = [pc EXCEPT ![r] = "revoking"]
        /\ loc' = [loc EXCEPT ![r] = l]
    BY <1>10 DEF RevokeBegin, Goto, minted, TypeOK
  <2>2. S \subseteq minted /\ DeleteTargets(S) \subseteq minted
    BY DEF UserSessions, DeleteTargets
  <2>3. l \in Locals /\ l.tok = loc[r].tok /\ l.who = loc[r].who /\ l.seen = S
    BY <1>0, <2>2 DEF Locals, TypeOK
  <2>4. Fits("revoking", l, minted') /\ "revoking" \in PC
    BY <1>0, <1>10, <2>1, <2>2, <2>3 DEF RevokeBegin, Fits, PC
  <2>5. Typed
    BY <2>1, <2>3, <2>4, OneRequestMoves
  <2> QED
    BY <1>10, <2>1, <2>5 DEF TypeOK, RevokeBegin
<1>11. CASE LogoutEnd(r)
  <2>1. minted' = minted /\ Finish(r)
    BY <1>11 DEF LogoutEnd, minted
  <2>2. rows' \subseteq minted' /\ evicted' \subseteq minted'
    BY <1>11, <2>1, DeleteTyped DEF LogoutEnd
  <2>3. Typed
    BY <2>1, FinishTyped
  <2> QED
    BY <1>11, <2>1, <2>2, <2>3 DEF TypeOK, LogoutEnd
<1>12. CASE StatusEnd(r)
  <2>1. minted' = minted /\ Finish(r)
    BY <1>12 DEF StatusEnd, minted
  <2>2. rows' \subseteq minted' /\ evicted' \subseteq minted'
    BY <1>12, <2>1, DeleteTyped DEF StatusEnd
  <2>3. Typed
    BY <2>1, FinishTyped
  <2> QED
    BY <1>12, <2>1, <2>2, <2>3 DEF TypeOK, StatusEnd, Status
<1>13. CASE PasswordEnd(r)
  <2> DEFINE u == loc[r].who
             l == [NoLocals EXCEPT !.who = u, !.at = clock,
                                   !.row = [status |-> status[u], pw |-> pw[u] + 1]]
  <2>1. minted' = minted /\ u \in User
    BY <1>0, <1>13 DEF PasswordEnd, minted, Fits
  <2>2. rows' \subseteq minted' /\ evicted' \subseteq minted'
    BY <1>13, <2>1, DeleteTyped DEF PasswordEnd
  <2>3. l \in Locals /\ l.who = u
    <3>1. status[u] \in Status /\ pw[u] + 1 \in Nat /\ clock \in Nat
      BY <2>1 DEF TypeOK
    <3> QED
      BY <2>1, <3>1, NoLocalsTyped DEF NoLocals, Locals, Goal
  <2>4. Fits("issue", l, minted') /\ "issue" \in PC
    BY <2>1, <2>3 DEF Fits, PC
  <2>5. CASE Finish(r)
    <3>1. Typed
      BY <2>1, <2>5, FinishTyped
    <3> QED
      BY <1>13, <2>1, <2>2, <3>1 DEF TypeOK, PasswordEnd
  <2>6. CASE pc' = [pc EXCEPT ![r] = "issue"] /\ loc' = [loc EXCEPT ![r] = l]
    <3>1. Typed
      BY <2>1, <2>3, <2>4, <2>6, OneRequestMoves
    <3> QED
      BY <1>13, <2>1, <2>2, <3>1 DEF TypeOK, PasswordEnd
  <2> QED
    BY <1>13, <2>5, <2>6 DEF PasswordEnd, Goto
<1>14. CASE SetStatus(r)
  <2>1. minted' = minted /\ Finish(r) /\ loc[r].goal \in Status
    BY <1>0, <1>14 DEF SetStatus, minted, Fits
  <2> QED
    BY <1>14, <2>1, FinishTyped DEF TypeOK, SetStatus
<1>15. CASE TouchUserLogin(r)
  <2> DEFINE l == [loc[r] EXCEPT !.who = None]
  <2>1. minted' = minted /\ pc' = [pc EXCEPT ![r] = "reply"] /\ loc' = [loc EXCEPT ![r] = l]
    BY <1>15 DEF TouchUserLogin, Goto, minted, TypeOK
  <2>2. l \in Locals /\ l.tok = loc[r].tok
    BY <1>0 DEF Locals
  <2>3. Fits("reply", l, minted') /\ "reply" \in PC
    BY <1>0, <1>15, <2>1, <2>2 DEF TouchUserLogin, Fits, PC
  <2>4. Typed
    BY <2>1, <2>2, <2>3, OneRequestMoves
  <2> QED
    BY <1>15, <2>1, <2>4 DEF TypeOK, TouchUserLogin
<1>16. CASE BeginRotation(r)
  <2> DEFINE l == [loc[r] EXCEPT !.tx = clock]
  <2>1. minted' = minted /\ pc' = [pc EXCEPT ![r] = "spend"] /\ loc' = [loc EXCEPT ![r] = l]
    BY <1>16 DEF BeginRotation, Goto, minted, TypeOK
  <2>2. l \in Locals /\ l.tok = loc[r].tok /\ l.who = loc[r].who
    BY <1>0 DEF Locals, TypeOK
  <2>3. Fits("spend", l, minted') /\ "spend" \in PC
    BY <1>0, <1>16, <2>1, <2>2 DEF BeginRotation, Fits, PC
  <2>4. Typed
    BY <2>1, <2>2, <2>3, OneRequestMoves
  <2> QED
    BY <1>16, <2>1, <2>4 DEF TypeOK, BeginRotation
<1>17. CASE DeleteRow(r)
  <2>1. PICK s \in loc[r].snap \cap rows :
          loc' = [loc EXCEPT ![r].snap = (@ \cap rows) \ {s}, ![r].took = @ \cup {s}]
    BY <1>17 DEF DeleteRow
  <2> DEFINE l == [loc[r] EXCEPT !.snap = (@ \cap rows) \ {s}, !.took = @ \cup {s}]
  <2>2. minted' = minted /\ pc' = [pc EXCEPT ![r] = pc[r]] /\ loc' = [loc EXCEPT ![r] = l]
    BY <1>17, <2>1 DEF DeleteRow, minted, TypeOK
  <2>3. l \in Locals /\ l.who = loc[r].who /\ l.seen = loc[r].seen
    BY <1>0, <2>1 DEF Locals, TypeOK
  <2>4. Fits(pc[r], l, minted') /\ pc[r] \in PC
    BY <1>0, <1>17, <2>2, <2>3 DEF DeleteRow, Fits, TypeOK
  <2>5. Typed
    BY <2>2, <2>3, <2>4, OneRequestMoves
  <2> QED
    BY <1>17, <2>2, <2>5 DEF TypeOK, DeleteRow
<1> QED
  BY <1>1, <1>2, <1>3, <1>4, <1>5, <1>6, <1>7, <1>8, <1>9, <1>10, <1>11, <1>12, <1>13, <1>14,
     <1>15, <1>16, <1>17
     DEF Proceed

\* Every step.
LEMMA TypeNext == TypeOK /\ LocalsOK /\ [Next]_vars => TypeOK' /\ LocalsOK'
<1> SUFFICES ASSUME TypeOK, LocalsOK, [Next]_vars PROVE TypeOK' /\ LocalsOK'
  OBVIOUS
<1>1. ASSUME NEW r \in Req, Abort(r) PROVE TypeOK' /\ LocalsOK'
  BY <1>1, FinishTyped DEF Abort, TypeOK, tables, minted
<1>2. ASSUME NEW r \in Req, BreakDeadlock(r) PROVE TypeOK' /\ LocalsOK'
  BY <1>2, FinishTyped DEF BreakDeadlock, TypeOK, tables, minted
<1>4. CASE Tick
  BY <1>4 DEF Tick, TypeOK, LocalsOK, tables, minted
<1>5. CASE UNCHANGED vars
  BY <1>5 DEF vars, TypeOK, LocalsOK, minted
<1> QED
  BY ArriveTyped, ProceedTyped, <1>1, <1>2, <1>4, <1>5 DEF Next

\* Every reachable state is well typed, and a running request's locals name
\* sessions and users that exist.
THEOREM TypeCorrect == Spec => [](TypeOK /\ LocalsOK)
<1>1. Init => TypeOK /\ LocalsOK
  BY TypeInit
<1>2. TypeOK /\ LocalsOK /\ [Next]_vars => (TypeOK /\ LocalsOK)'
  BY TypeNext
<1> QED
  BY <1>1, <1>2, PTL DEF Spec

-----------------------------------------------------------------------------
(* What a step may do to the session table *)

\* Rows go, or nothing happens to the table.
Shrinks == rows' \subseteq rows /\ UNCHANGED <<sess, used>>

\* A row that starts a family is added.
Begins(s, row) ==
    /\ InsertSession(s, row) /\ row.family = s /\ row.parent = s
    /\ UNCHANGED <<used, evicted>>

\* The row a request holds is spent and its successor is added.
Exchanges(r, s, row) ==
    /\ pc[r] = "successor" /\ InsertSession(s, row)
    /\ row.parent = loc[r].tok /\ row.family = sess[loc[r].tok].family
    /\ used' = used \cup {loc[r].tok}
    /\ UNCHANGED evicted

\* What a step does to the table of sessions: it shrinks, a login begins a chain,
\* or a refresh exchanges a token.
LEMMA TableStep ==
  ASSUME TypeOK, LocalsOK, [Next]_vars
  PROVE  \/ Shrinks
         \/ \E s \in SID, row \in Session : Begins(s, row)
         \/ \E r \in Req, s \in SID, row \in Session : Exchanges(r, s, row)
<1> DEFINE Goal1 == \/ Shrinks
                    \/ \E s \in SID, row \in Session : Begins(s, row)
                    \/ \E r \in Req, s \in SID, row \in Session : Exchanges(r, s, row)
<1>1. ASSUME NEW r \in Req, Arrive(r) PROVE Shrinks
  BY <1>1 DEF Arrive, Register, PasswordGrant, AdminRevokeSessions, AdminSetPassword, AdminBlock,
              AdminDelete, AdminSetStatus, RefreshReused, RefreshLive, Revoke, LogoutAll,
              PasswordChange, StartRevoke, Sweep, Shrinks, tables
<1>2. ASSUME NEW r \in Req, Issue(r) PROVE Goal1
  <2> DEFINE row(s) == [user |-> loc[r].who, family |-> s, parent |-> s, issued |-> loc[r].at,
                        pw |-> loc[r].row.pw]
  <2>1. PICK s \in SID : InsertSession(s, row(s))
    BY <1>2 DEF Issue
  <2>2. row(s) \in Session
    BY <1>2 DEF Issue, LocalsOK, Fits, Locals, Session, TypeOK
  <2>3. row(s).family = s /\ row(s).parent = s /\ UNCHANGED <<used, evicted>>
    BY <1>2 DEF Issue
  <2> HIDE DEF row
  <2>4. Begins(s, row(s))
    BY <2>1, <2>3 DEF Begins
  <2> QED
    BY <2>2, <2>4
<1>3. ASSUME NEW r \in Req, Rotate(r) PROVE Goal1
  <2> DEFINE t == loc[r].tok
             row == [user |-> loc[r].who, family |-> sess[t].family, parent |-> t,
                     issued |-> loc[r].at, pw |-> sess[t].pw]
  <2>1. PICK s \in SID : InsertSession(s, row)
    BY <1>3 DEF Rotate
  <2>2. row \in Session
    BY <1>3 DEF Rotate, LocalsOK, Fits, Locals, Session, TypeOK
  <2>3. /\ row.family = sess[t].family /\ row.parent = t /\ used' = used \cup {t}
        /\ pc[r] = "successor" /\ UNCHANGED evicted
    BY <1>3 DEF Rotate, MarkSpent
  <2> HIDE DEF row
  <2>4. Exchanges(r, s, row)
    BY <2>1, <2>3 DEF Exchanges
  <2> QED
    BY <2>2, <2>4
<1>4. ASSUME NEW r \in Req, Proceed(r), ~Issue(r), ~Rotate(r) PROVE Shrinks
  BY <1>4 DEF Proceed, TouchUserLogin, Reply, LoadUser, RefuseUser, BeginRotation, Spend,
              SpendNoRows, DestroyBegin, DeleteRow, DestroyEnd, RevokeBegin, LogoutEnd, StatusEnd, PasswordEnd, SetStatus, DeleteSnapshot, Shrinks, tables
<1>5. ASSUME NEW r \in Req, Abort(r) \/ BreakDeadlock(r) PROVE Shrinks
  BY <1>5 DEF Abort, BreakDeadlock, Shrinks, tables
<1>6. CASE Tick \/ UNCHANGED vars
  BY <1>6 DEF Tick, vars, Shrinks, tables
<1> QED
  BY <1>1, <1>2, <1>3, <1>4, <1>5, <1>6 DEF Next

\* A new session is the only change of the table.
LEMMA Inserted ==
  ASSUME TypeOK, NEW s \in SID, NEW row \in Session, InsertSession(s, row)
  PROVE  /\ s \notin minted /\ minted' = minted \cup {s} /\ rows' = rows \cup {s}
         /\ sess'[s] = row
         /\ \A x \in minted : sess'[x] = sess[x]
  BY DEF TypeOK, minted, InsertSession

-----------------------------------------------------------------------------
(* Locks and snapshots *)

\* The rows a request at a label holds.
Grip(label, l, s) ==
    \/ label = "successor" /\ l.tok = s
    \/ label \in {"destroying", "revoking"} /\ s \in l.took

\* One request moves; the others keep their locks and their snapshots as long as
\* no row they hold goes or is spent and only fresh rows are added.
LEMMA LocksMove ==
  ASSUME TypeOK, LocalsOK, LocksOK,
         NEW r \in Req, NEW label \in PC, NEW l \in Locals,
         pc' = [pc EXCEPT ![r] = label], loc' = [loc EXCEPT ![r] = l],
         \A q \in Req \ {r} : pc[q] = "successor" => loc[q].tok \notin used',
         \A q \in Req \ {r}, s \in SID : HoldsRow(q, s) => s \in rows',
         \A s \in rows' : s \in rows \/ s \notin minted,
         label = "successor" => l.tok \notin used',
         \A s \in SID : Grip(label, l, s)
              => s \in rows' /\ \A q \in Req \ {r} : ~HoldsRow(q, s),
         label \in {"destroying", "revoking"} => rows' \cap l.seen \subseteq l.snap \cup l.took
  PROVE  LocksOK'
<1>1. \A q \in Req : q # r => pc'[q] = pc[q] /\ loc'[q] = loc[q]
  BY DEF TypeOK
<1>2. pc'[r] = label /\ loc'[r] = l
  BY DEF TypeOK
<1>3. ASSUME NEW q \in Req, pc'[q] \in {"destroying", "revoking"}
      PROVE  rows' \cap loc'[q].seen \subseteq loc'[q].snap \cup loc'[q].took
  <2>1. CASE q = r
    BY <1>2, <1>3, <2>1
  <2>2. CASE q # r
    BY <1>1, <1>3, <2>2 DEF LocksOK, LocalsOK, Fits
  <2> QED
    BY <2>1, <2>2
<1>4. \A q \in Req : pc'[q] = "successor" => loc'[q].tok \notin used'
  BY <1>1, <1>2
<1>5. /\ \A s \in SID : HoldsRow(r, s)' <=> Grip(label, l, s)
      /\ \A q \in Req \ {r}, s \in SID : HoldsRow(q, s)' <=> HoldsRow(q, s)
  BY <1>1, <1>2 DEF HoldsRow, Grip
<1>6. \A q \in Req, s \in SID : HoldsRow(q, s)' => s \in rows'
  BY <1>5
<1>7. ASSUME NEW q \in Req, NEW p \in Req, NEW s \in SID, HoldsRow(q, s)', HoldsRow(p, s)'
      PROVE  q = p
  <2>1. CASE q = r \/ p = r
    BY <1>5, <1>7, <2>1
  <2>2. CASE q # r /\ p # r
    BY <1>5, <1>7, <2>2 DEF LocksOK
  <2> QED
    BY <2>1, <2>2
<1> QED
  BY <1>3, <1>4, <1>6, <1>7 DEF LocksOK

\* A step that leaves the table alone and ends up without locks.
LEMMA LocksQuiet ==
  ASSUME TypeOK, LocalsOK, LocksOK,
         NEW r \in Req, NEW label \in PC, NEW l \in Locals,
         pc' = [pc EXCEPT ![r] = label], loc' = [loc EXCEPT ![r] = l],
         label \notin {"successor", "revoking"},
         label = "destroying" => l.took = {} /\ l.seen = l.snap,
         UNCHANGED <<rows, used>>
  PROVE  LocksOK'
<1>1. \A q \in Req \ {r} : pc[q] = "successor" => loc[q].tok \notin used'
  BY DEF LocksOK
<1>2. \A q \in Req \ {r}, s \in SID : HoldsRow(q, s) => s \in rows'
  BY DEF LocksOK
<1>3. \A s \in SID : ~Grip(label, l, s)
  BY DEF Grip
<1> QED
  BY <1>1, <1>2, <1>3, LocksMove

\* The end of a DELETE: the rows it removes are held by nobody else.
LEMMA LocksDelete ==
  ASSUME TypeOK, LocalsOK, LocksOK,
         NEW r \in Req, NEW label \in PC, NEW l \in Locals,
         pc[r] \in {"destroying", "revoking"},
         pc' = [pc EXCEPT ![r] = label], loc' = [loc EXCEPT ![r] = l],
         label \notin {"successor", "destroying", "revoking"},
         DeleteSnapshot(r), UNCHANGED used
  PROVE  LocksOK'
<1>1. \A q \in Req \ {r} : pc[q] = "successor" => loc[q].tok \notin used'
  BY DEF LocksOK
<1>2. \A s \in rows' : s \in rows
  BY DEF DeleteSnapshot
<1>3. \A s \in SID : s \in loc[r].took => HoldsRow(r, s)
  BY DEF HoldsRow
<1>4. \A q \in Req \ {r}, s \in SID : HoldsRow(q, s) => s \in rows'
  BY <1>3 DEF LocksOK, DeleteSnapshot
<1>5. \A s \in SID : ~Grip(label, l, s)
  BY DEF Grip
<1> QED
  BY <1>1, <1>2, <1>4, <1>5, LocksMove

\* The locks and the snapshots survive every step of a request.
LEMMA LocksProceed ==
  ASSUME TypeOK, LocalsOK, LocksOK, NEW r \in Req, Proceed(r), loc' \in [Req -> Locals]
  PROVE  LocksOK'
<1> USE DEF tables, Finish, Goto, PC
<1>0. loc[r] \in Locals /\ loc'[r] \in Locals /\ Fits(pc[r], loc[r], minted)
  BY DEF TypeOK, LocalsOK
<1> DEFINE To(label) == pc' = [pc EXCEPT ![r] = label] /\ loc' = [loc EXCEPT ![r] = loc'[r]]
<1>1. ASSUME NEW label \in PC \ {"successor", "destroying", "revoking"}, To(label),
             UNCHANGED <<rows, used>>
      PROVE  LocksOK'
  BY <1>0, <1>1, LocksQuiet
<1>2. ASSUME NEW label \in PC \ {"successor", "destroying", "revoking"}, To(label),
             pc[r] \in {"destroying", "revoking"}, DeleteSnapshot(r), UNCHANGED used
      PROVE  LocksOK'
  BY <1>0, <1>2, LocksDelete
<1>K. UNCHANGED <<rows, used>> =>
        /\ \A q \in Req \ {r} : pc[q] = "successor" => loc[q].tok \notin used'
        /\ \A q \in Req \ {r}, s \in SID : HoldsRow(q, s) => s \in rows'
  BY DEF LocksOK
<1>3. CASE Reply(r) \/ RefuseUser(r) \/ SetStatus(r)
  <2>1. To("idle") /\ UNCHANGED <<rows, used>>
    BY <1>3 DEF Reply, RefuseUser, SetStatus, TypeOK
  <2> QED
    BY <1>1, <2>1
<1>4. CASE LoadUser(r) \/ BeginRotation(r) \/ TouchUserLogin(r)
  <2>1. (To("begin") \/ To("spend") \/ To("reply")) /\ UNCHANGED <<rows, used>>
    BY <1>4 DEF LoadUser, BeginRotation, TouchUserLogin, TypeOK
  <2> QED
    BY <1>1, <2>1
<1>5. CASE SpendNoRows(r)
  <2>1. To("destroy") /\ UNCHANGED <<rows, used>>
    BY <1>5 DEF SpendNoRows, TypeOK
  <2> QED
    BY <1>1, <2>1
<1>6. CASE DestroyEnd(r) \/ LogoutEnd(r) \/ StatusEnd(r)
  <2>1. /\ To("idle") /\ pc[r] \in {"destroying", "revoking"}
        /\ DeleteSnapshot(r) /\ UNCHANGED used
    BY <1>6 DEF DestroyEnd, LogoutEnd, StatusEnd, TypeOK
  <2> QED
    BY <1>2, <2>1
<1>7. CASE PasswordEnd(r)
  <2>1. /\ To("idle") \/ To("issue")
        /\ pc[r] \in {"destroying", "revoking"} /\ DeleteSnapshot(r) /\ UNCHANGED used
    BY <1>7 DEF PasswordEnd, TypeOK
  <2> QED
    BY <1>2, <2>1
<1>8. CASE Spend(r)
  <2>1. To("successor") /\ UNCHANGED <<rows, used>> /\ loc'[r] = loc[r]
    BY <1>8 DEF Spend, TypeOK
  <2>2. loc[r].tok \in rows \ used /\ \A q \in Req : ~HoldsRow(q, loc[r].tok)
    BY <1>8 DEF Spend, Spendable, Spent, Locked
  <2>3. \A s \in SID : Grip("successor", loc[r], s)
              => s \in rows' /\ \A q \in Req \ {r} : ~HoldsRow(q, s)
    BY <2>1, <2>2 DEF Grip
  <2> QED
    BY <1>0, <1>K, <2>1, <2>2, <2>3, LocksMove
<1>9. CASE DestroyBegin(r) \/ RevokeBegin(r)
  <2>1. PICK label \in {"destroying", "revoking"} : To(label) /\ UNCHANGED <<rows, used>>
    BY <1>9 DEF DestroyBegin, RevokeBegin, TypeOK
  <2>2. rows \cap loc'[r].seen \subseteq loc'[r].snap /\ loc'[r].took = {}
    BY <1>0, <1>9 DEF DestroyBegin, RevokeBegin, DeleteTargets, TypeOK, Locals
  <2>3. \A s \in SID : ~Grip(label, loc'[r], s)
    BY <2>2 DEF Grip
  <2>4. label \in PC /\ label # "successor" /\ rows' = rows
    BY <2>1
  <2> HIDE DEF PC
  <2> QED
    BY <1>0, <1>K, <2>1, <2>2, <2>3, <2>4, LocksMove
<1>12. CASE DeleteRow(r)
  <2>1. PICK s \in loc[r].snap \cap rows :
          /\ ~Locked(s)
          /\ loc' = [loc EXCEPT ![r].snap = (@ \cap rows) \ {s}, ![r].took = @ \cup {s}]
    BY <1>12 DEF DeleteRow
  <2>2. To(pc[r]) /\ pc[r] \in {"destroying", "revoking"} /\ UNCHANGED <<rows, used>>
    BY <1>12, <2>1 DEF DeleteRow, TypeOK
  <2>3. /\ loc'[r].snap = (loc[r].snap \cap rows) \ {s}
        /\ loc'[r].took = loc[r].took \cup {s} /\ loc'[r].seen = loc[r].seen
    BY <1>0, <2>1 DEF TypeOK, Locals
  <2>4. rows' \cap loc'[r].seen \subseteq loc'[r].snap \cup loc'[r].took
    BY <2>2, <2>3 DEF LocksOK
  <2>5. ASSUME NEW x \in SID, Grip(pc[r], loc'[r], x)
        PROVE  x \in rows' /\ \A q \in Req \ {r} : ~HoldsRow(q, x)
    <3>1. CASE x = s
      BY <2>1, <2>2, <3>1 DEF Locked
    <3>2. CASE x # s
      <4>1. HoldsRow(r, x)
        BY <2>2, <2>3, <2>5, <3>2 DEF Grip, HoldsRow
      <4> QED
        BY <2>2, <4>1 DEF LocksOK
    <3> QED
      BY <3>1, <3>2
  <2>6. pc[r] \in PC /\ pc[r] # "successor" /\ rows' = rows
    BY <2>2
  <2> HIDE DEF PC
  <2> QED
    BY <1>0, <1>K, <2>2, <2>4, <2>5, <2>6, LocksMove
<1>10. CASE Issue(r)
  <2>1. PICK s \in SID : s \notin minted /\ rows' = rows \cup {s}
    BY <1>10 DEF Issue, InsertSession
  <2>2. PICK label \in {"reply", "touch"} : To(label) /\ UNCHANGED used
    BY <1>10 DEF Issue, TypeOK
  <2>3. /\ \A q \in Req \ {r} : pc[q] = "successor" => loc[q].tok \notin used'
        /\ \A q \in Req \ {r}, x \in SID : HoldsRow(q, x) => x \in rows'
    BY <2>1, <2>2 DEF LocksOK
  <2>4. \A x \in SID : ~Grip(label, loc'[r], x)
    BY DEF Grip
  <2>5. label \in PC /\ \A x \in rows' : x \in rows \/ x \notin minted
    BY <2>1
  <2> HIDE DEF PC
  <2> QED
    BY <1>0, <2>2, <2>3, <2>4, <2>5, LocksMove
<1>11. CASE Rotate(r)
  <2>1. PICK s \in SID : s \notin minted /\ rows' = rows \cup {s}
    BY <1>11 DEF Rotate, InsertSession
  <2>2. To("reply") /\ used' = used \cup {loc[r].tok}
    BY <1>11 DEF Rotate, MarkSpent, TypeOK
  <2>3. ASSUME NEW q \in Req \ {r}, pc[q] = "successor" PROVE loc[q].tok \notin used'
    <3>1. loc[q].tok \notin used
      BY <2>3 DEF LocksOK
    <3>2. loc[q].tok # loc[r].tok
      <4>1. loc[r].tok \in SID
        BY <1>0, <1>11 DEF Rotate, Fits, TypeOK
      <4> QED
        BY <1>11, <2>3, <4>1 DEF Rotate, LocksOK, HoldsRow
    <3> QED
      BY <2>2, <3>1, <3>2
  <2>4. \A x \in rows' : x \in rows \/ x \notin minted
    BY <2>1
  <2>5. \A q \in Req \ {r}, x \in SID : HoldsRow(q, x) => x \in rows'
    BY <2>1 DEF LocksOK
  <2>6. \A x \in SID : ~Grip("reply", loc'[r], x)
    BY DEF Grip
  <2>7. "reply" \in PC
    OBVIOUS
  <2> HIDE DEF PC
  <2> QED
    BY <1>0, <2>2, <2>3, <2>4, <2>5, <2>6, <2>7, LocksMove
<1> QED
  BY <1>3, <1>4, <1>5, <1>6, <1>7, <1>8, <1>9, <1>10, <1>11, <1>12 DEF Proceed

\* Every step.
LEMMA LocksNext ==
  ASSUME TypeOK, LocalsOK, LocksOK, [Next]_vars
  PROVE  LocksOK'
<1>0. TypeOK' /\ loc' \in [Req -> Locals]
  BY TypeNext DEF TypeOK
<1>1. ASSUME NEW r \in Req, Arrive(r) PROVE LocksOK'
  <2>1. PICK label \in PC, l \in Locals :
          /\ Fresh(label, l)
          /\ pc' = [pc EXCEPT ![r] = label] /\ loc' = [loc EXCEPT ![r] = l]
    BY <1>1, ArrivalLocals
  <2>2. UNCHANGED <<rows, used>>
    BY <1>1, ArrivalLocals
  <2> QED
    BY <2>1, <2>2, LocksQuiet DEF Fresh
<1>2. ASSUME NEW r \in Req, Proceed(r) PROVE LocksOK'
  BY <1>0, <1>2, LocksProceed
<1>3. ASSUME NEW r \in Req, Finish(r), UNCHANGED <<rows, used>> PROVE LocksOK'
  BY <1>3, LocksQuiet, NoLocalsTyped DEF Finish, Goto, PC
<1>4. CASE Tick \/ UNCHANGED vars
  BY <1>4 DEF Tick, vars, tables, LocksOK, HoldsRow
<1> QED
  BY <1>1, <1>2, <1>3, <1>4 DEF Next, Abort, BreakDeadlock, tables

-----------------------------------------------------------------------------
(* The chain of a family *)

\* There are no sessions at first.
LEMMA SessionInit == Init => SessionInv
<1> SUFFICES ASSUME Init PROVE SessionInv
  OBVIOUS
<1>1. LocksOK /\ ReuseHasCause /\ BeganBefore
  BY DEF Init, LocksOK, HoldsRow, ReuseHasCause, BeganBefore, NoLocals
<1> QED
  BY <1>1, TypeInit DEF Init, SessionInv, Lineage, ExchangedOnce, SpentIsExchanged,
                  OneLiveToken, EvictedStaysOut, minted

\* Deleting rows leaves the lineage of every session as it is.
LEMMA ChainShrinks ==
  ASSUME TypeOK, SessionInv, Shrinks
  PROVE  Lineage' /\ ExchangedOnce' /\ SpentIsExchanged' /\ OneLiveToken'
  BY DEF SessionInv, Shrinks, Lineage, ExchangedOnce, SpentIsExchanged, OneLiveToken, minted, Spent

\* A new family has a name no other session carries.
LEMMA ChainBegins ==
  ASSUME TypeOK, SessionInv, NEW s \in SID, NEW row \in Session, Begins(s, row)
  PROVE  Lineage' /\ ExchangedOnce' /\ SpentIsExchanged' /\ OneLiveToken'
<1>1. /\ s \notin minted /\ minted' = minted \cup {s} /\ rows' = rows \cup {s} /\ used' = used
      /\ sess'[s].family = s /\ sess'[s].parent = s
      /\ \A x \in minted : sess'[x] = sess[x]
      /\ rows \subseteq minted /\ used \subseteq minted
  BY Inserted DEF Begins, TypeOK
<1>2. Lineage'
  BY <1>1 DEF SessionInv, Lineage
<1>3. ExchangedOnce'
  BY <1>1 DEF SessionInv, Lineage, ExchangedOnce
<1>4. SpentIsExchanged'
  <2>1. ASSUME NEW t \in minted PROVE (\E x \in minted' \ {t} : sess'[x].parent = t)
                                     <=> \E x \in minted \ {t} : sess[x].parent = t
    BY <1>1, <2>1
  <2>2. ~(s \in used) /\ \A x \in minted' \ {s} : sess'[x].parent # s
    BY <1>1 DEF SessionInv, Lineage
  <2> QED
    BY <1>1, <2>1, <2>2 DEF SessionInv, SpentIsExchanged, Spent
<1>5. OneLiveToken'
  BY <1>1 DEF SessionInv, Lineage, OneLiveToken
<1> QED
  BY <1>2, <1>3, <1>4, <1>5

\* The row being exchanged is in the table and unspent.
LEMMA HeldRow ==
  ASSUME TypeOK, LocalsOK, LocksOK, NEW r \in Req, pc[r] = "successor"
  PROVE  loc[r].tok \in SID /\ loc[r].tok \in rows \ used
<1>1. loc[r].tok \in SID
  BY DEF LocalsOK, Fits, TypeOK
<1> QED
  BY <1>1 DEF LocksOK, HoldsRow

\* The successor takes the place of the one live row of its family.
LEMMA ChainExchanges ==
  ASSUME TypeOK, SessionInv, NEW r \in Req, NEW s \in SID, NEW row \in Session, Exchanges(r, s, row)
  PROVE  Lineage' /\ ExchangedOnce' /\ SpentIsExchanged' /\ OneLiveToken'
<1> DEFINE t == loc[r].tok
<1>1. /\ s \notin minted /\ minted' = minted \cup {s} /\ rows' = rows \cup {s}
      /\ used' = used \cup {t}
      /\ sess'[s].family = sess[t].family /\ sess'[s].parent = t
      /\ \A x \in minted : sess'[x] = sess[x]
      /\ rows \subseteq minted /\ used \subseteq minted
  BY Inserted DEF Exchanges, TypeOK
<1>2. t \in rows /\ t \notin used
  BY HeldRow DEF Exchanges, SessionInv
<1>3. Lineage'
  BY <1>1, <1>2 DEF SessionInv, Lineage
<1>4. ExchangedOnce'
  <2>1. \A x \in minted : x # sess[x].parent => sess[x].parent # t
    BY <1>1, <1>2 DEF SessionInv, Lineage, SpentIsExchanged, Spent
  <2> QED
    BY <1>1, <2>1 DEF SessionInv, Lineage, ExchangedOnce
<1>5. SpentIsExchanged'
  <2>1. ASSUME NEW x \in minted, x # t
        PROVE  (\E y \in minted' \ {x} : sess'[y].parent = x)
                  <=> \E y \in minted \ {x} : sess[y].parent = x
    BY <1>1, <2>1
  <2>2. s \notin used' /\ \A y \in minted' \ {s} : sess'[y].parent # s
    BY <1>1, <1>2 DEF SessionInv, Lineage
  <2>3. s \in minted' \ {t} /\ sess'[s].parent = t /\ t \in used'
    BY <1>1, <1>2
  <2>4. ASSUME NEW x \in minted'
        PROVE  x \in used' <=> \E y \in minted' \ {x} : sess'[y].parent = x
    <3>1. CASE x = t
      BY <2>3, <3>1
    <3>2. CASE x = s
      BY <2>2, <3>2
    <3>3. CASE x # t /\ x # s
      BY <1>1, <2>1, <3>3 DEF SessionInv, SpentIsExchanged, Spent
    <3> QED
      BY <3>1, <3>2, <3>3
  <2> QED
    BY <2>4 DEF SpentIsExchanged, Spent
<1>6. OneLiveToken'
  BY <1>1, <1>2 DEF SessionInv, OneLiveToken
<1> QED
  BY <1>3, <1>4, <1>5, <1>6

\* The ids that count as evicted only grow with a DELETE that removed their rows.
LEMMA EvictedNext ==
  ASSUME TypeOK, SessionInv, [Next]_vars
  PROVE  EvictedStaysOut'
<1>1. \A r \in Req : pc'[r] = "successor" => loc'[r].tok \in rows'
  <2>1. LocksOK' /\ LocalsOK' /\ TypeOK'
    BY LocksNext, TypeNext DEF SessionInv
  <2> QED
    BY <2>1 DEF LocksOK, HoldsRow, LocalsOK, Fits, TypeOK
<1>2. ASSUME NEW r \in Req, DeleteSnapshot(r), pc[r] \in {"destroying", "revoking"}
      PROVE  rows' \cap evicted' = {}
  BY <1>2 DEF DeleteSnapshot, SessionInv, LocksOK, EvictedStaysOut
<1>3. ASSUME evicted' = evicted, \A s \in rows' : s \in rows \/ s \notin minted
      PROVE  rows' \cap evicted' = {}
  BY <1>3 DEF SessionInv, EvictedStaysOut, TypeOK
<1>4. \/ \E r \in Req : DeleteSnapshot(r) /\ pc[r] \in {"destroying", "revoking"}
      \/ evicted' = evicted /\ \A s \in rows' : s \in rows \/ s \notin minted
  <2>1. ASSUME NEW r \in Req, Proceed(r)
        PROVE  \/ DeleteSnapshot(r) /\ pc[r] \in {"destroying", "revoking"}
               \/ evicted' = evicted /\ \A s \in rows' : s \in rows \/ s \notin minted
    BY <2>1 DEF Proceed, Issue, TouchUserLogin, Reply, LoadUser, RefuseUser, BeginRotation, Spend,
                SpendNoRows, Rotate, DestroyBegin, DeleteRow, DestroyEnd, RevokeBegin, LogoutEnd,
                StatusEnd, PasswordEnd, SetStatus, InsertSession, tables
  <2>2. ASSUME NEW r \in Req, Arrive(r) PROVE UNCHANGED <<evicted, rows>>
    BY <2>2, ArrivalLocals
  <2>3. ASSUME NEW r \in Req, Abort(r) \/ BreakDeadlock(r)
        PROVE  UNCHANGED <<evicted, rows>>
    BY <2>3 DEF Abort, BreakDeadlock, tables
  <2>4. CASE Tick \/ UNCHANGED vars
    BY <2>4 DEF Tick, vars, tables
  <2> QED
    BY <2>1, <2>2, <2>3, <2>4 DEF Next
<1> QED
  BY <1>1, <1>2, <1>3, <1>4 DEF EvictedStaysOut

\* Time does not run backwards.
LEMMA ClockAdvances ==
  ASSUME TypeOK, [Next]_vars
  PROVE  clock' \in Nat /\ clock \in Nat /\ clock <= clock'
<1>1. ASSUME NEW r \in Req, Arrive(r) PROVE clock' = clock
  BY <1>1, ArrivalLocals
<1>2. ASSUME NEW r \in Req, Proceed(r) PROVE clock' = clock
  BY <1>2 DEF Proceed, Issue, TouchUserLogin, Reply, LoadUser, RefuseUser, BeginRotation, Spend,
              SpendNoRows, Rotate, DestroyBegin, DeleteRow, DestroyEnd, RevokeBegin, LogoutEnd,
              StatusEnd, PasswordEnd, SetStatus
<1>3. clock' = clock \/ clock' = clock + 1
  BY <1>1, <1>2 DEF Next, Abort, BreakDeadlock, Tick, vars
<1> QED
  BY <1>3 DEF TypeOK

\* What counts as a cause for destroying the family of t, in terms of the table.
Cause(t) ==
    \/ \E s \in minted \ {t} : sess[s].parent = t
    \/ t \notin rows
    \/ Expired(t, clock)

\* A cause stays one: no row comes back, no successor is forgotten, time passes.
LEMMA CauseStays ==
  ASSUME TypeOK, LocalsOK, [Next]_vars, NEW t \in minted, Cause(t)
  PROVE  Cause(t)'
<1>1. /\ minted \subseteq minted' /\ \A s \in minted : sess'[s] = sess[s]
      /\ \A s \in rows' : s \in rows \/ s \notin minted
  <2>1. CASE Shrinks
    BY <2>1 DEF Shrinks, minted
  <2>2. ASSUME NEW s \in SID, NEW row \in Session, InsertSession(s, row)
        PROVE  /\ minted \subseteq minted' /\ \A x \in minted : sess'[x] = sess[x]
               /\ \A x \in rows' : x \in rows \/ x \notin minted
    BY <2>2, Inserted
  <2> QED
    BY <2>1, <2>2, TableStep DEF Begins, Exchanges
<1>2. clock' \in Nat /\ clock \in Nat /\ clock <= clock'
  BY ClockAdvances
<1>3. Expired(t, clock) => Expired(t, clock)'
  <2>1. sess[t].issued \in Nat /\ sess'[t] = sess[t]
    BY <1>1 DEF TypeOK, Session
  <2> QED
    BY <1>2, <2>1, TTLsArePositive DEF Expired, ExpiresAt
<1> QED
  BY <1>1, <1>3 DEF Cause

\* A request that destroys a family because of a reused token.
Reusing(label, l) == label \in {"destroy", "destroying"} /\ l.goal = "none"

\* A request that moves begins its transaction now at the latest, and comes to
\* destroy a family with a cause only.
LEMMA ReuseProceed ==
  ASSUME TypeOK, SessionInv, NEW r \in Req, Proceed(r)
  PROVE  /\ loc'[r].tx <= clock
         /\ Reusing(pc'[r], loc'[r]) => loc'[r].tok \in minted /\ Cause(loc'[r].tok)
<1> USE DEF tables, Goto, Finish, NoLocals
<1>0. /\ loc[r] \in Locals /\ Fits(pc[r], loc[r], minted) /\ clock \in Nat
      /\ loc[r].tx \in Nat /\ loc[r].tx <= clock
  BY DEF SessionInv, TypeOK, LocalsOK, BeganBefore, Locals
<1>1. CASE Issue(r) \/ Reply(r) \/ RefuseUser(r) \/ Rotate(r) \/ DestroyEnd(r) \/ LogoutEnd(r)
           \/ StatusEnd(r) \/ PasswordEnd(r) \/ SetStatus(r)
  <2> DEFINE Calm == loc'[r].tx = 0 /\ pc'[r] \in {"idle", "issue", "touch", "reply"}
  <2>1. Issue(r) => Calm
    BY DEF Issue, TypeOK
  <2>2. Rotate(r) => Calm
    BY DEF Rotate, TypeOK
  <2>3. ASSUME PasswordEnd(r) PROVE Calm
    <3>1. CASE Finish(r)
      BY <3>1 DEF TypeOK
    <3>2. CASE ~Finish(r)
      <4>1. pc' = [pc EXCEPT ![r] = "issue"] /\ loc' = [loc EXCEPT ![r] = [NoLocals EXCEPT
               !.who = loc[r].who, !.at = clock,
               !.row = [status |-> status[loc[r].who], pw |-> pw[loc[r].who] + 1]]]
        BY <2>3, <3>2 DEF PasswordEnd
      <4> QED
        BY <4>1 DEF TypeOK
    <3> QED
      BY <3>1, <3>2
  <2>4. Finish(r) => Calm
    BY DEF TypeOK
  <2>5. Calm
    BY <1>1, <2>1, <2>2, <2>3, <2>4 DEF Reply, RefuseUser, DestroyEnd, LogoutEnd, StatusEnd, SetStatus
  <2> QED
    BY <1>0, <2>5 DEF Reusing
<1>2. CASE TouchUserLogin(r) \/ LoadUser(r) \/ BeginRotation(r) \/ Spend(r) \/ RevokeBegin(r)
  <2>1. /\ loc'[r].tx \in {loc[r].tx, clock}
        /\ pc'[r] \in {"reply", "begin", "spend", "successor", "revoking"}
    BY <1>0, <1>2 DEF TouchUserLogin, LoadUser, BeginRotation, Spend, RevokeBegin, TypeOK, Locals
  <2> QED
    BY <1>0, <2>1 DEF Reusing
<1>3. CASE DestroyBegin(r) \/ DeleteRow(r)
  <2>1. /\ loc'[r].tx = loc[r].tx /\ loc'[r].tok = loc[r].tok /\ loc'[r].goal = loc[r].goal
        /\ Reusing(pc'[r], loc'[r]) => Reusing(pc[r], loc[r])
    <3>1. CASE DestroyBegin(r)
      BY <1>0, <3>1 DEF DestroyBegin, TypeOK, Locals, Reusing
    <3>2. CASE DeleteRow(r)
      <4>1. PICK s \in SID :
              loc' = [loc EXCEPT ![r].snap = (@ \cap rows) \ {s}, ![r].took = @ \cup {s}]
        BY <3>2 DEF DeleteRow, TypeOK
      <4>2. pc' = pc
        BY <3>2 DEF DeleteRow
      <4> QED
        BY <1>0, <4>1, <4>2 DEF TypeOK, Locals, Reusing
    <3> QED
      BY <1>3, <3>1, <3>2
  <2> QED
    BY <1>0, <2>1 DEF SessionInv, ReuseHasCause, Reusing, Cause, Fits
<1>4. CASE SpendNoRows(r)
  <2>1. loc'[r].tx = 0 /\ loc'[r].tok = loc[r].tok
    BY <1>4 DEF SpendNoRows, TypeOK
  <2>2. loc[r].tok \in minted /\ sess[loc[r].tok].issued \in Nat
    BY <1>0, <1>4 DEF SpendNoRows, Fits, TypeOK, Session
  <2>3. Expired(loc[r].tok, loc[r].tx) => Expired(loc[r].tok, clock)
    BY <1>0, <2>2, TTLsArePositive DEF Expired, ExpiresAt
  <2>4. Spent(loc[r].tok) => Cause(loc[r].tok)
    BY <2>2 DEF SessionInv, SpentIsExchanged, Cause
  <2> QED
    BY <1>0, <1>4, <2>1, <2>2, <2>3, <2>4 DEF SpendNoRows, Spendable, Cause
<1> QED
  BY <1>1, <1>2, <1>3, <1>4 DEF Proceed

\* A family is destroyed with a cause, and a transaction began before now.
LEMMA ReuseNext ==
  ASSUME TypeOK, SessionInv, [Next]_vars
  PROVE  BeganBefore' /\ ReuseHasCause'
<1> DEFINE Good(r) == /\ loc'[r].tx <= clock
                      /\ Reusing(pc'[r], loc'[r]) => loc'[r].tok \in minted /\ Cause(loc'[r].tok)
<1>0. TypeOK' /\ LocalsOK /\ clock <= clock' /\ clock \in Nat /\ clock' \in Nat
  BY TypeNext, ClockAdvances DEF SessionInv
<1>1. ASSUME NEW r \in Req, pc'[r] = pc[r], loc'[r] = loc[r] PROVE Good(r)
  BY <1>1 DEF SessionInv, BeganBefore, ReuseHasCause, Cause, Reusing, LocalsOK, Fits
<1>2. ASSUME NEW r \in Req, Proceed(r) PROVE Good(r)
  BY <1>2, ReuseProceed
<1>3. ASSUME NEW r \in Req, Finish(r) PROVE Good(r)
  BY <1>0, <1>3 DEF Finish, Goto, NoLocals, Reusing, TypeOK
<1>4. ASSUME NEW r \in Req, Arrive(r) PROVE Good(r)
  <2>1. PICK label \in PC, l \in Locals :
          /\ Fits(label, l, minted) /\ Fresh(label, l)
          /\ pc' = [pc EXCEPT ![r] = label] /\ loc' = [loc EXCEPT ![r] = l]
    BY <1>4, ArrivalLocals
  <2>2. pc'[r] = label /\ loc'[r] = l
    BY <2>1 DEF TypeOK
  <2> QED
    BY <1>0, <2>1, <2>2 DEF Fresh, Fits, Reusing, SessionInv, SpentIsExchanged, Cause
<1>5. ASSUME NEW r \in Req, Proceed(r) \/ Finish(r) \/ Arrive(r), NEW q \in Req, q # r
      PROVE  pc'[q] = pc[q] /\ loc'[q] = loc[q]
  <2>1. CASE Arrive(r)
    BY <2>1, <1>5, ArrivalLocals DEF TypeOK
  <2>2. CASE Proceed(r)
    BY <2>2, <1>5 DEF Proceed, Issue, TouchUserLogin, Reply, LoadUser, RefuseUser, BeginRotation,
                Spend, SpendNoRows, Rotate, DestroyBegin, DeleteRow, DestroyEnd, RevokeBegin,
                LogoutEnd, StatusEnd, PasswordEnd, SetStatus, Goto, Finish, TypeOK
  <2>3. CASE Finish(r)
    BY <2>3, <1>5 DEF Goto, Finish, TypeOK
  <2> QED
    BY <1>5, <2>1, <2>2, <2>3
<1>6. \/ \E r \in Req : Proceed(r) \/ Finish(r) \/ Arrive(r)
      \/ UNCHANGED <<pc, loc>>
  BY DEF Next, Abort, BreakDeadlock, Tick, vars
<1>7. \A r \in Req : Good(r)
  <2> HIDE DEF Good
  <2> QED
    BY <1>1, <1>2, <1>3, <1>4, <1>5, <1>6
<1>8. \A r \in Req : loc'[r].tx \in Nat
  BY <1>0 DEF TypeOK, Locals
<1>9. BeganBefore'
  BY <1>0, <1>7, <1>8 DEF BeganBefore
<1>10. ASSUME NEW r \in Req, Reusing(pc'[r], loc'[r]), NEW t, t = loc'[r].tok
       PROVE  Cause(t)'
  <2>1. t \in minted /\ Cause(t)
    BY <1>7, <1>10
  <2> QED
    BY <1>0, <2>1, CauseStays
<1>11. \A r \in Req : Reusing(pc'[r], loc'[r]) =>
          \/ \E s \in minted' \ {loc'[r].tok} : sess'[s].parent = loc'[r].tok
          \/ loc'[r].tok \notin rows'
          \/ clock' >= sess'[loc'[r].tok].issued + RefreshTTL
  BY <1>10 DEF Cause, Expired, ExpiresAt
<1> QED
  BY <1>9, <1>11 DEF ReuseHasCause, Reusing, Expired, ExpiresAt

\* Every step keeps it.
LEMMA SessionNext == TypeOK /\ SessionInv /\ [Next]_vars => SessionInv'
<1> SUFFICES ASSUME TypeOK, SessionInv, [Next]_vars PROVE SessionInv'
  OBVIOUS
<1>1. LocalsOK' /\ LocksOK'
  BY TypeNext, LocksNext DEF SessionInv
<1>2. Lineage' /\ ExchangedOnce' /\ SpentIsExchanged' /\ OneLiveToken'
  BY TableStep, ChainShrinks, ChainBegins, ChainExchanges DEF SessionInv
<1>3. EvictedStaysOut' /\ BeganBefore' /\ ReuseHasCause'
  BY EvictedNext, ReuseNext
<1> QED
  BY <1>1, <1>2, <1>3 DEF SessionInv

\* The inductive invariant holds in every reachable state.
THEOREM SessionSafety == Spec => []SessionInv
<1>1. Init => SessionInv
  BY SessionInit
<1>2. TypeOK /\ SessionInv /\ [Next]_vars => SessionInv'
  BY SessionNext
<1> QED
  BY <1>1, <1>2, TypeCorrect, PTL DEF Spec

\* No refresh token is ever exchanged twice, and the spent tokens are exactly those
\* that were exchanged, for any number of concurrent requests.
THEOREM RotationIsOneTime == Spec => [](ExchangedOnce /\ SpentIsExchanged /\ OneLiveToken)
<1>1. SessionInv => ExchangedOnce /\ SpentIsExchanged /\ OneLiveToken
  BY DEF SessionInv
<1> QED
  BY <1>1, SessionSafety, PTL

\* A family is a chain with at most one token that RotateSession still accepts.
THEOREM OneTokenPerFamily == Spec => []OneLiveToken
<1> QED
  BY RotationIsOneTime, PTL

\* refreshGrant destroys a family for a token that was exchanged, deleted or expired,
\* never because a competing rotation was in progress and then rolled back.
THEOREM FamiliesDieWithCause == Spec => []ReuseHasCause
<1>1. SessionInv => ReuseHasCause
  BY DEF SessionInv
<1> QED
  BY <1>1, SessionSafety, PTL

\* A logout, password change, block or delete that is over has put every
\* session that existed when its DELETE began out of use for good.
THEOREM RevocationIsFinal == Spec => []EvictedStaysOut
<1>1. SessionInv => EvictedStaysOut
  BY DEF SessionInv
<1> QED
  BY <1>1, SessionSafety, PTL

-----------------------------------------------------------------------------
(* Steps *)

\* A family without rows gets none: only an exchange adds a row to a family
\* that exists, and the row it replaces is still in the table.
LEMMA DeadFamilyStep ==
  ASSUME TypeOK, SessionInv, [Next]_vars
  PROVE  \A f \in minted : rows \cap FamilyOf(f) = {} => (rows \cap FamilyOf(f))' = {}
<1> SUFFICES ASSUME NEW f \in minted, rows \cap FamilyOf(f) = {},
                    NEW x \in rows', x \in minted', sess'[x].family = f
             PROVE  FALSE
  BY DEF FamilyOf
<1>0. rows \subseteq minted /\ \A y \in rows : sess[y].family # f
  BY DEF FamilyOf, TypeOK
<1>1. ~Shrinks
  BY <1>0 DEF Shrinks
<1>2. ASSUME NEW s \in SID, NEW row \in Session, Begins(s, row) PROVE FALSE
  <2>1. /\ s \notin minted /\ rows' = rows \cup {s} /\ sess'[s].family = s
        /\ \A y \in minted : sess'[y] = sess[y]
    BY <1>2, Inserted DEF Begins
  <2> QED
    BY <1>0, <2>1
<1>3. ASSUME NEW r \in Req, NEW s \in SID, NEW row \in Session, Exchanges(r, s, row) PROVE FALSE
  <2>1. /\ rows' = rows \cup {s} /\ sess'[s].family = sess[loc[r].tok].family
        /\ \A y \in minted : sess'[y] = sess[y]
    BY <1>3, Inserted DEF Exchanges
  <2>2. loc[r].tok \in rows
    BY <1>3, HeldRow DEF Exchanges, SessionInv
  <2> QED
    BY <1>0, <2>1, <2>2
<1> QED
  BY <1>1, <1>2, <1>3, TableStep DEF SessionInv

\* Destroying a family is final, whatever rotation was in flight.
THEOREM FamilyDeathIsFinal == Spec => DeadFamilyStaysDead
<1>1. TypeOK /\ SessionInv /\ [Next]_vars
        => [\A f \in minted : rows \cap FamilyOf(f) = {} => (rows \cap FamilyOf(f))' = {}]_vars
  BY DeadFamilyStep
<1> QED
  BY <1>1, TypeCorrect, SessionSafety, PTL DEF Spec, DeadFamilyStaysDead

-----------------------------------------------------------------------------
(* Refinement *)

\* Every step of the detailed specification is a step of the token chain.
LEMMA ChainStep ==
  ASSUME TypeOK, SessionInv, [Next]_vars
  PROVE  Chain!ChainNext
<1> DEFINE fam == [s \in minted |-> sess[s].family]
<1>1. CASE Shrinks
  <2>1. (rows \ used)' \subseteq rows \ used /\ fam' = fam
    BY <1>1 DEF Shrinks, minted
  <2> QED
    BY <2>1 DEF Chain!ChainNext, Chain!Destroy
<1>2. ASSUME NEW s \in SID, NEW row \in Session, Begins(s, row) PROVE Chain!Begin(s)
  <2>1. /\ s \notin minted /\ minted' = minted \cup {s} /\ rows' = rows \cup {s}
        /\ sess'[s].family = s /\ used' = used
        /\ \A y \in minted : sess'[y] = sess[y]
    BY <1>2, Inserted DEF Begins
  <2>2. (rows \ used)' = (rows \ used) \cup {s}
    BY <2>1 DEF TypeOK
  <2>3. DOMAIN fam = minted
    OBVIOUS
  <2>4. fam' = [x \in minted \cup {s} |-> IF x = s THEN s ELSE fam[x]]
    BY <2>1
  <2> QED
    BY <2>1, <2>2, <2>3, <2>4 DEF Chain!Begin, Chain!Issued, Chain!Extend
<1>3. ASSUME NEW r \in Req, NEW s \in SID, NEW row \in Session, Exchanges(r, s, row)
      PROVE  loc[r].tok \in SID /\ Chain!Exchange(loc[r].tok, s)
  <2> DEFINE t == loc[r].tok
  <2>1. /\ s \notin minted /\ minted' = minted \cup {s} /\ rows' = rows \cup {s}
        /\ sess'[s].family = sess[t].family /\ used' = used \cup {t}
        /\ \A y \in minted : sess'[y] = sess[y]
    BY <1>3, Inserted DEF Exchanges
  <2>2. t \in rows \ used /\ t \in minted /\ t \in SID
    BY <1>3, HeldRow DEF Exchanges, SessionInv, TypeOK
  <2>3. (rows \ used)' = ((rows \ used) \ {t}) \cup {s}
    BY <2>1, <2>2 DEF TypeOK
  <2>4. DOMAIN fam = minted /\ fam[t] = sess[t].family
    BY <2>2
  <2>5. fam' = [x \in minted \cup {s} |-> IF x = s THEN fam[t] ELSE fam[x]]
    BY <2>1, <2>4
  <2> QED
    BY <2>1, <2>2, <2>3, <2>4, <2>5 DEF Chain!Exchange, Chain!Issued, Chain!Extend
<1> QED
  BY <1>1, <1>2, <1>3, TableStep DEF SessionInv, Chain!ChainNext

\* The concurrent, locking implementation of sessions implements the token
\* chain it is meant to provide.
THEOREM ImplementsChain == Spec => ChainSpec
<1>1. Init => Chain!ChainInit
  BY DEF Init, Chain!ChainInit, minted
<1>2. TypeOK /\ SessionInv /\ [Next]_vars => [Chain!ChainNext]_(Chain!chainVars)
  BY ChainStep
<1> QED
  BY <1>1, <1>2, TypeCorrect, SessionSafety, PTL DEF Spec, ChainSpec, Chain!ChainSpec

=============================================================================
