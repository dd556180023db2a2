---------------------------- MODULE AdminProofs -----------------------------
(***************************************************************************)
(* Proofs about Admin, for any number of accounts, roles and permissions.  *)
(*                                                                         *)
(* A handler reads, checks and writes in statements of their own, so what  *)
(* it checked may have changed when it writes.  Three inductive invariants *)
(* say what survives that:                                                 *)
(*   Base      foreign keys and seeded roles, for any requests at once;     *)
(*   Ceiling   what actors who are low cannot reach together, for any      *)
(*             requests at once: a check against a stale rank is still a   *)
(*             check against a low one;                                    *)
(*   Guarded   that a superadmin remains, unless a write fell between the   *)
(*             count of another request and its write.                     *)
(***************************************************************************)
EXTENDS Admin, FiniteSetTheorems, TLAPS

-----------------------------------------------------------------------------
(* What a request carries *)

\* The operations on an account, and those on a role.
Edits == {"update_user", "delete_user", "replace_access"}   \* of an account
RoleEdits == {"update_role", "delete_role"}

\* A request asks for what its handler accepts, and is at a step of it.
Shape(p, l) ==
    /\ p # "idle" => l.actor \in Actor
    /\ p # "idle" /\ l.op \in Edits =>
         /\ l.user \in User
         /\ p \in {"user", "actor", "target", "assigned", "count", "write"}
    /\ p # "idle" /\ l.op = "create_user" =>
         /\ l.user \in User /\ l.name \in Name /\ l.st \in {"active", "blocked"}
         /\ p \in {"role", "actor", "write"}
    /\ p # "idle" /\ l.op = "create_role" =>
         /\ l.name \in Custom /\ l.rk \in 1..(Top - 1) /\ l.pm \in SUBSET Perm
         /\ p \in {"actor", "perms", "write"}
    /\ p # "idle" /\ l.op \in RoleEdits =>
         /\ l.name \in Name /\ l.rk \in 1..(Top - 1) \cup {None}
         /\ p \in {"role", "actor", "perms", "in_use", "write"}
         /\ p # "role" => l.name \notin System
         /\ p = "in_use" => l.op = "delete_role"

\* Of every request.
Shapes == \A r \in Req : Shape(pc[r], loc[r])

\* The foreign key from ga_users to ga_roles.
NoDanglingRole == \A u \in User : role[u] \in Roles

\* TypeOK of the tables and the requests.
Typed ==
    /\ status \in [User -> Status]
    /\ role \in [User -> Name]
    /\ Roles \subseteq Name /\ rank \in [Roles -> 0..Top] /\ perms \in [Roles -> SUBSET Perm]
    /\ pc \in [Req -> PC]
    /\ loc \in [Req -> Request]

\* TypeOK of the histories.
Recorded == stale \subseteq Req /\ raced \in BOOLEAN

\* The tables: seeded roles stay, and foreign keys hold.
Kept == System \subseteq Roles /\ NoDanglingRole

\* The inductive invariant under everything else: types, requests, foreign keys.
Base == Typed /\ Shapes /\ Kept

-----------------------------------------------------------------------------
(* Steps of one request *)

\* A slot with no request in it is well typed.
LEMMA NoRequestTyped == NoRequest \in Request
  BY TopIsPositive DEF NoRequest, Request, Op, Name, System, Status

\* Only r moves.
Others(r) == \A q \in Req \ {r} : pc'[q] = pc[q] /\ loc'[q] = loc[q]

\* One request goes to its next step; the others stay where they are.
LEMMA Moves ==
    ASSUME Typed, NEW r \in Req, NEW label \in PC, NEW l \in Request,
           Goto(r, label), loc' = [loc EXCEPT ![r] = l]
    PROVE  /\ pc' \in [Req -> PC] /\ loc' \in [Req -> Request]
           /\ pc'[r] = label /\ loc'[r] = l /\ Others(r)
  BY DEF Typed, Goto, Others

\* One request ends; the others stay where they are.
LEMMA Finishes ==
    ASSUME Typed, NEW r \in Req, Finish(r)
    PROVE  /\ pc' \in [Req -> PC] /\ loc' \in [Req -> Request]
           /\ pc'[r] = "idle" /\ loc'[r] = NoRequest /\ Others(r)
  BY NoRequestTyped, Moves DEF Finish, PC

\* A step that only reads keeps Base if the request keeps its shape.
LEMMA ReadKeepsBase ==
    ASSUME Base, NEW r \in Req, NEW label \in PC, NEW l \in Request,
           Goto(r, label), loc' = [loc EXCEPT ![r] = l], UNCHANGED tables,
           Shape(label, l)
    PROVE  Base'
<1>1. /\ pc' \in [Req -> PC] /\ loc' \in [Req -> Request]
      /\ pc'[r] = label /\ loc'[r] = l /\ Others(r)
  BY Moves DEF Base
<1>2. Shapes'
  BY <1>1 DEF Base, Shapes, Others
<1> QED BY <1>1, <1>2 DEF Base, Typed, Kept, NoDanglingRole, Roles, tables

\* A refusal keeps it.
LEMMA RefuseKeepsBase ==
    ASSUME Base, NEW r \in Req, Refuse(r)
    PROVE  Base'
<1>1. Shape("idle", NoRequest)
  BY DEF Shape
<1> QED BY <1>1, NoRequestTyped, ReadKeepsBase DEF Refuse, Finish, PC

\* A write that ends a request keeps it if the tables stay typed and the system
\* roles stay in them.
LEMMA WriteKeepsBase ==
    ASSUME Base, NEW r \in Req, Finish(r),
           status' \in [User -> Status], role' \in [User -> Roles'],
           Roles' \subseteq Name, rank' \in [Roles' -> 0..Top], perms' \in [Roles' -> SUBSET Perm],
           System \subseteq Roles'
    PROVE  Base'
<1>1. /\ pc' \in [Req -> PC] /\ loc' \in [Req -> Request]
      /\ pc'[r] = "idle" /\ loc'[r] = NoRequest /\ Others(r)
  BY Finishes DEF Base
<1>2. Shapes'
  BY <1>1 DEF Base, Shapes, Others, Shape
<1>3. role' \in [User -> Name]
  OBVIOUS
<1> QED BY <1>1, <1>2, <1>3 DEF Base, Typed, Kept, NoDanglingRole
-----------------------------------------------------------------------------
(* Typing *)

\* Every request that a handler accepts has the shape of its operation.
LEMMA ArriveKeepsBase ==
    ASSUME Base, NEW r \in Req, NEW a \in Actor, Arrive(r, a)
    PROVE  Base'
<1>0. a \in User \cup {Machine}
  BY ActorsAreKnown
<1>1. Roles \subseteq Name
  BY DEF Base, Typed
<1> USE DEF PC, Start
<1>2. ASSUME NEW u \in User, NEW n \in Roles, NEW st \in {"active", "blocked"},
             CreateUser(r, a, u, n, st)
      PROVE  Base'
  <2> DEFINE l == [NoRequest EXCEPT !.op = "create_user", !.actor = a, !.user = u,
                                    !.name = n, !.st = st]
  <2>1. l \in Request
    BY <1>0, <1>1, NoRequestTyped DEF Request, Op, Status
  <2>2. l.op = "create_user" /\ l.actor = a /\ l.user = u /\ l.name = n /\ l.st = st
    BY DEF NoRequest
  <2> HIDE DEF l
  <2>3. Shape("role", l)
    BY <1>1, <2>2 DEF Shape, Edits, RoleEdits
  <2> QED BY <1>2, <2>1, <2>3, ReadKeepsBase DEF CreateUser, l
<1>3. ASSUME NEW u \in User, NEW n \in Roles \cup {None},
             NEW st \in {"active", "blocked", None}, UpdateUser(r, a, u, n, st)
      PROVE  Base'
  <2> DEFINE l == [NoRequest EXCEPT !.op = "update_user", !.actor = a, !.user = u,
                                    !.name = n, !.st = st]
  <2>1. l \in Request
    BY <1>0, <1>1, NoRequestTyped DEF Request, Op, Status
  <2>2. l.op = "update_user" /\ l.actor = a /\ l.user = u
    BY DEF NoRequest
  <2> HIDE DEF l
  <2>3. Shape("user", l)
    BY <2>2 DEF Shape, Edits, RoleEdits
  <2> QED BY <1>3, <2>1, <2>3, ReadKeepsBase DEF UpdateUser, l
<1>4. ASSUME NEW u \in User, DeleteUser(r, a, u)
      PROVE  Base'
  <2> DEFINE l == [NoRequest EXCEPT !.op = "delete_user", !.actor = a, !.user = u]
  <2>1. l \in Request
    BY <1>0, NoRequestTyped DEF Request, Op
  <2>2. l.op = "delete_user" /\ l.actor = a /\ l.user = u
    BY DEF NoRequest
  <2> HIDE DEF l
  <2>3. Shape("user", l)
    BY <2>2 DEF Shape, Edits, RoleEdits
  <2> QED BY <1>4, <2>1, <2>3, ReadKeepsBase DEF DeleteUser, l
<1>5. ASSUME NEW u \in User, ReplaceAccess(r, a, u)
      PROVE  Base'
  <2> DEFINE l == [NoRequest EXCEPT !.op = "replace_access", !.actor = a, !.user = u]
  <2>1. l \in Request
    BY <1>0, NoRequestTyped DEF Request, Op
  <2>2. l.op = "replace_access" /\ l.actor = a /\ l.user = u
    BY DEF NoRequest
  <2> HIDE DEF l
  <2>3. Shape("user", l)
    BY <2>2 DEF Shape, Edits, RoleEdits
  <2> QED BY <1>5, <2>1, <2>3, ReadKeepsBase DEF ReplaceAccess, l
<1>6. ASSUME NEW n \in Custom, NEW rk \in 1..(Top - 1), NEW pm \in SUBSET Perm,
             CreateRole(r, a, n, rk, pm)
      PROVE  Base'
  <2> DEFINE l == [NoRequest EXCEPT !.op = "create_role", !.actor = a, !.name = n,
                                    !.rk = rk, !.pm = pm]
  <2>1. rk \in 0..Top
    BY TopIsPositive
  <2>2. l \in Request
    BY <1>0, <2>1, NoRequestTyped DEF Request, Op, Name
  <2>3. l.op = "create_role" /\ l.actor = a /\ l.name = n /\ l.rk = rk /\ l.pm = pm
    BY DEF NoRequest
  <2> HIDE DEF l
  <2>4. Shape("actor", l)
    BY <2>3 DEF Shape, Edits, RoleEdits
  <2> QED BY <1>6, <2>2, <2>4, ReadKeepsBase DEF CreateRole, l
<1>7. ASSUME NEW n \in Name, NEW rk \in 1..(Top - 1) \cup {None},
             NEW pm \in (SUBSET Perm) \cup {None}, UpdateRole(r, a, n, rk, pm)
      PROVE  Base'
  <2> DEFINE l == [NoRequest EXCEPT !.op = "update_role", !.actor = a, !.name = n,
                                    !.rk = rk, !.pm = pm]
  <2>1. rk \in (0..Top) \cup {None}
    BY TopIsPositive
  <2>2. l \in Request
    BY <1>0, <2>1, NoRequestTyped DEF Request, Op
  <2>3. l.op = "update_role" /\ l.actor = a /\ l.name = n /\ l.rk = rk
    BY DEF NoRequest
  <2> HIDE DEF l
  <2>4. Shape("role", l)
    BY <2>3 DEF Shape, Edits, RoleEdits
  <2> QED BY <1>7, <2>2, <2>4, ReadKeepsBase DEF UpdateRole, l
<1>8. ASSUME NEW n \in Name, DeleteRole(r, a, n)
      PROVE  Base'
  <2> DEFINE l == [NoRequest EXCEPT !.op = "delete_role", !.actor = a, !.name = n]
  <2>1. l \in Request
    BY <1>0, NoRequestTyped DEF Request, Op
  <2>2. l.op = "delete_role" /\ l.actor = a /\ l.name = n /\ l.rk = None
    BY DEF NoRequest
  <2> HIDE DEF l
  <2>3. Shape("role", l)
    BY <2>2 DEF Shape, Edits, RoleEdits
  <2> QED BY <1>8, <2>1, <2>3, ReadKeepsBase DEF DeleteRole, l
<1> QED BY <1>2, <1>3, <1>4, <1>5, <1>6, <1>7, <1>8 DEF Arrive

\* Each of the reads before the write, refusals among them.
LEMMA ReadsKeepBase ==
    ASSUME Base, NEW r \in Req, Read(r)
    PROVE  Base'
<1> DEFINE l == loc[r]
<1>0. /\ l \in Request /\ Shape(pc[r], l)
      /\ \A u \in User : status[u] \in Status /\ role[u] \in Roles
      /\ \A n \in Roles : n \in Name /\ rank[n] \in 0..Top
      /\ l.op \in Op
  BY DEF Base, Typed, Shapes, Kept, NoDanglingRole, Request
<1> USE DEF Continue, PC
<1>1. CASE ReadUser(r)
  <2> DEFINE m == [l EXCEPT !.cur = [role |-> role[l.user], status |-> status[l.user]]]
  <2>1. CASE Refuse(r)
    BY <2>1, RefuseKeepsBase
  <2>2. CASE Continue(r, "actor", m)
    <3>1. l.op \in Edits /\ l.user \in User
      BY <1>0, <1>1 DEF ReadUser, Shape, Edits, RoleEdits, Op
    <3>2. m \in Request
      <4>1. [role |-> role[l.user], status |-> status[l.user]] \in [role: Name, status: Status]
        BY <1>0, <3>1
      <4> QED BY <1>0, <4>1 DEF Request
    <3>3. m.op = l.op /\ m.actor = l.actor /\ m.user = l.user
      BY <1>0 DEF Request
    <3> HIDE DEF m
    <3>4. Shape("actor", m)
      BY <1>0, <1>1, <3>1, <3>3 DEF ReadUser, Shape, Edits, RoleEdits
    <3> QED BY <2>2, <3>2, <3>4, ReadKeepsBase
  <2> QED BY <1>1, <2>1, <2>2 DEF ReadUser
<1>2. CASE ReadRole(r)
  <2> DEFINE m == [l EXCEPT !.trank = rank[l.name]]
  <2>1. CASE Refuse(r)
    BY <2>1, RefuseKeepsBase
  <2>2. CASE ~Refuse(r)
    <3>1. /\ Continue(r, "actor", m) /\ pc[r] = "role"
          /\ l.name \in Roles /\ (l.op # "create_user" => l.name \notin System)
      BY <1>2, <2>2 DEF ReadRole
    <3>2. m \in Request
      BY <1>0, <3>1 DEF Request
    <3>3. /\ m.op = l.op /\ m.actor = l.actor /\ m.user = l.user /\ m.name = l.name
          /\ m.rk = l.rk /\ m.st = l.st /\ m.pm = l.pm
      BY <1>0 DEF Request
    <3> HIDE DEF m
    <3>4. Shape("actor", m)
      BY <1>0, <3>1, <3>3 DEF Shape, Edits, RoleEdits
    <3> QED BY <3>1, <3>2, <3>4, ReadKeepsBase
  <2> QED BY <2>1, <2>2
<1>3. CASE ReadActor(r)
  <2> DEFINE k == IF l.actor = Machine THEN Top ELSE rank[role[l.actor]]
             m == [l EXCEPT !.arank = k]
  <2>1. CASE Refuse(r)
    BY <2>1, RefuseKeepsBase
  <2>2. CASE ~Refuse(r)
    <3>1. Continue(r, AfterActor[l.op], m) /\ pc[r] = "actor"
      BY <1>3, <2>2 DEF ReadActor
    <3>2. l.actor \in User \cup {Machine}
      BY <1>0, <3>1, ActorsAreKnown DEF Shape
    <3>3. k \in 0..Top
      BY <1>0, <3>2, TopIsPositive
    <3> HIDE DEF k
    <3>4. m \in Request
      BY <1>0, <3>3 DEF Request
    <3>5. /\ m.op = l.op /\ m.actor = l.actor /\ m.user = l.user /\ m.name = l.name
          /\ m.rk = l.rk /\ m.st = l.st /\ m.pm = l.pm
      BY <1>0 DEF Request
    <3> HIDE DEF m
    <3>6. /\ AfterActor[l.op] \in PC
          /\ l.op = "create_user" => AfterActor[l.op] = "write"
          /\ l.op \in Edits => AfterActor[l.op] = "target"
          /\ l.op \in RoleEdits \cup {"create_role"} => AfterActor[l.op] = "perms"
      BY <1>0 DEF AfterActor, Edits, RoleEdits, Op
    <3>7. Shape(AfterActor[l.op], m)
      BY <1>0, <3>1, <3>5, <3>6 DEF Shape, Edits, RoleEdits
    <3> QED BY <3>1, <3>4, <3>6, <3>7, ReadKeepsBase
  <2> QED BY <2>1, <2>2
\* The other reads keep what the request carries.
<1>4. ASSUME NEW label \in PC, Continue(r, label, l), Shape(label, l)
      PROVE  Base'
  BY <1>0, <1>4, ReadKeepsBase
<1>5. CASE ReadPerms(r)
  BY <1>0, <1>4, <1>5, RefuseKeepsBase DEF ReadPerms, Shape, Edits, RoleEdits
<1>6. CASE ReadTarget(r)
  BY <1>0, <1>4, <1>6, RefuseKeepsBase DEF ReadTarget, Shape, Edits, RoleEdits
<1>7. CASE ReadAssigned(r)
  BY <1>0, <1>4, <1>7, RefuseKeepsBase DEF ReadAssigned, Shape, Edits, RoleEdits
<1>8. CASE CountAdmins(r)
  BY <1>0, <1>4, <1>8, RefuseKeepsBase DEF CountAdmins, Shape, Edits, RoleEdits
<1>9. CASE CountHolders(r)
  BY <1>0, <1>4, <1>9, RefuseKeepsBase DEF CountHolders, Shape, Edits, RoleEdits
<1> QED BY <1>1, <1>2, <1>3, <1>5, <1>6, <1>7, <1>8, <1>9 DEF Read

\* Every write leaves the tables typed, the seeded roles in place and each
\* account with a role that exists: the foreign key from ga_users to ga_roles.
LEMMA WritesKeepBase ==
    ASSUME Base, NEW r \in Req, Write(r)
    PROVE  Base'
<1> DEFINE l == loc[r]
<1>0. /\ l \in Request /\ Shape(pc[r], l)
      /\ status \in [User -> Status] /\ role \in [User -> Roles]
      /\ Roles \subseteq Name /\ rank \in [Roles -> 0..Top] /\ perms \in [Roles -> SUBSET Perm]
      /\ System \subseteq Roles
  BY DEF Base, Typed, Shapes, Kept, NoDanglingRole
<1>1. ASSUME Finish(r), status' \in [User -> Status], role' \in [User -> Roles],
             UNCHANGED <<rank, perms>>
      PROVE  Base'
  BY <1>0, <1>1, WriteKeepsBase DEF Roles
<1>2. CASE WriteCreateUser(r)
  <2>1. l.op = "create_user" /\ pc[r] = "write" /\ Finish(r)
    BY <1>2 DEF WriteCreateUser, At
  <2>2. l.st \in Status
    BY <1>0, <2>1 DEF Shape, Status
  <2>3. status' \in [User -> Status] /\ role' \in [User -> Roles]
    BY <1>0, <1>2, <2>2 DEF WriteCreateUser
  <2> QED BY <1>1, <1>2, <2>1, <2>3 DEF WriteCreateUser
<1>3. CASE WriteUpdateUser(r)
  <2>1. Finish(r) /\ UNCHANGED <<rank, perms>>
    BY <1>3 DEF WriteUpdateUser
  <2>2. l.st \in Status \cup {None}
    BY <1>0 DEF Request
  <2>3. status' \in [User -> Status] /\ role' \in [User -> Roles]
    BY <1>0, <1>3, <2>2 DEF WriteUpdateUser
  <2> QED BY <1>1, <2>1, <2>3
<1>4. CASE WriteDeleteUser(r)
  <2>1. status' \in [User -> Status] /\ role' \in [User -> Roles]
    BY <1>0, <1>4 DEF WriteDeleteUser, Status, System
  <2> QED BY <1>1, <1>4, <2>1 DEF WriteDeleteUser
<1>5. CASE WriteReplaceAccess(r)
  BY <1>5, RefuseKeepsBase DEF WriteReplaceAccess, Refuse
<1>6. CASE WriteCreateRole(r)
  <2>1. l.op = "create_role" /\ pc[r] = "write" /\ Finish(r) /\ UNCHANGED <<status, role>>
    BY <1>6 DEF WriteCreateRole, At
  <2>2. l.name \in Name /\ l.rk \in 0..Top /\ l.pm \in SUBSET Perm
    BY <1>0, <2>1, TopIsPositive DEF Shape, Name
  <2>3. CASE UNCHANGED <<rank, perms>>
    BY <1>0, <1>1, <2>1, <2>3
  <2>4. CASE ~UNCHANGED <<rank, perms>>
    <3>1. /\ rank' = [n \in Roles \cup {l.name} |-> IF n = l.name THEN l.rk ELSE rank[n]]
          /\ perms' = [n \in Roles \cup {l.name} |-> IF n = l.name THEN l.pm ELSE perms[n]]
      BY <1>6, <2>4 DEF WriteCreateRole
    <3>2. Roles' = Roles \cup {l.name}
      BY <3>1 DEF Roles
    <3>3. rank' \in [Roles' -> 0..Top] /\ perms' \in [Roles' -> SUBSET Perm]
      BY <1>0, <2>2, <3>1, <3>2
    <3>4. /\ status' \in [User -> Status] /\ role' \in [User -> Roles']
          /\ Roles' \subseteq Name /\ System \subseteq Roles'
      BY <1>0, <2>1, <2>2, <3>2
    <3> QED BY <2>1, <3>3, <3>4, WriteKeepsBase
  <2> QED BY <2>3, <2>4
<1>7. CASE WriteUpdateRole(r)
  <2>1. Finish(r) /\ UNCHANGED <<status, role>>
    BY <1>7 DEF WriteUpdateRole
  <2>2. CASE UNCHANGED <<rank, perms>>
    BY <1>0, <1>1, <2>1, <2>2
  <2>3. CASE ~UNCHANGED <<rank, perms>>
    <3>1. /\ rank' = [rank EXCEPT ![l.name] = IF l.rk = None THEN @ ELSE l.rk]
          /\ perms' = [perms EXCEPT ![l.name] = IF l.pm = None THEN @ ELSE l.pm]
      BY <1>7, <2>3 DEF WriteUpdateRole
    <3>2. l.rk \in (0..Top) \cup {None} /\ l.pm \in (SUBSET Perm) \cup {None}
      BY <1>0 DEF Request
    <3>3. rank' \in [Roles -> 0..Top] /\ perms' \in [Roles -> SUBSET Perm]
      BY <1>0, <3>1, <3>2
    <3>4. Roles' = Roles
      BY <1>0, <3>3 DEF Roles
    <3> QED BY <1>0, <2>1, <3>3, <3>4, WriteKeepsBase
  <2> QED BY <2>2, <2>3
<1>8. CASE WriteDeleteRole(r)
  <2>1. Finish(r) /\ UNCHANGED <<status, role>> /\ pc[r] = "write" /\ l.op = "delete_role"
    BY <1>8 DEF WriteDeleteRole, At
  <2>2. CASE UNCHANGED <<rank, perms>>
    BY <1>0, <1>1, <2>1, <2>2
  <2>3. CASE ~UNCHANGED <<rank, perms>>
    <3>1. /\ rank' = [m \in Roles \ {l.name} |-> rank[m]]
          /\ perms' = [m \in Roles \ {l.name} |-> perms[m]]
          /\ \A u \in User : role[u] # l.name
      BY <1>8, <2>3 DEF WriteDeleteRole, Unreferenced
    <3>2. Roles' = Roles \ {l.name}
      BY <3>1 DEF Roles
    <3>3. rank' \in [Roles' -> 0..Top] /\ perms' \in [Roles' -> SUBSET Perm]
      BY <1>0, <3>1, <3>2
    <3>4. l.name \notin System
      BY <1>0, <2>1 DEF Shape, RoleEdits
    <3>5. /\ status' \in [User -> Status] /\ role' \in [User -> Roles']
          /\ Roles' \subseteq Name /\ System \subseteq Roles'
      BY <1>0, <2>1, <3>1, <3>2, <3>4
    <3> QED BY <2>1, <3>3, <3>5, WriteKeepsBase
  <2> QED BY <2>2, <2>3
<1>9. CASE WriteFails(r)
  BY <1>9, RefuseKeepsBase DEF WriteFails
<1> QED BY <1>2, <1>3, <1>4, <1>5, <1>6, <1>7, <1>8, <1>9 DEF Write

\* The seeded tables have the shape the invariant asks for.
LEMMA InitBase == Init => Base
<1> SUFFICES ASSUME Init PROVE Base
  OBVIOUS
<1>1. Roles = DOMAIN RankOf /\ "user" \in Roles
  BY SeededRoles DEF Init, Roles, System
<1>2. status \in [User -> Status]
  BY DEF Init, Status
<1>3. role \in [User -> Roles]
  BY <1>1, SeededRoles DEF Init
<1>4. rank \in [Roles -> 0..Top] /\ perms \in [Roles -> SUBSET Perm] /\ Roles \subseteq Name
  BY <1>1, SeededRoles DEF Init
<1>5. pc \in [Req -> PC] /\ loc \in [Req -> Request]
  BY NoRequestTyped DEF Init, PC
<1>6. Shapes
  BY DEF Init, Shapes, Shape
<1> QED BY <1>1, <1>2, <1>3, <1>4, <1>5, <1>6, SeededRoles
        DEF Base, Typed, Kept, NoDanglingRole

\* Every step.
LEMMA NextBase == Base /\ [Next]_vars => Base'
<1> SUFFICES ASSUME Base, [Next]_vars PROVE Base'
  OBVIOUS
<1>1. CASE Next
  BY <1>1, ArriveKeepsBase, ReadsKeepBase, WritesKeepBase DEF Next
<1>2. CASE UNCHANGED vars
  BY <1>2 DEF vars, Base, Typed, Shapes, Kept, NoDanglingRole, Roles
<1> QED BY <1>1, <1>2

\* The histories grow, or are left alone.
LEMMA NextRecorded == Recorded /\ [Next]_vars => Recorded'
<1> SUFFICES ASSUME Recorded, [Next]_vars PROVE Recorded'
  OBVIOUS
<1>1. ASSUME NEW r \in Req, Finish(r) PROVE Recorded'
  BY <1>1, Zenon DEF Finish, Recorded
<1>2. ASSUME UNCHANGED history PROVE Recorded'
  BY <1>2 DEF history, Recorded
<1>3. ASSUME NEW r \in Req, NEW a \in Actor, Arrive(r, a) PROVE Recorded'
  BY <1>2, <1>3, Zenon DEF Arrive, CreateUser, UpdateUser, DeleteUser, ReplaceAccess, CreateRole,
     UpdateRole, DeleteRole, Start, history
<1>4. ASSUME NEW r \in Req, Read(r) PROVE Recorded'
  BY <1>1, <1>2, <1>4, Zenon DEF Read, ReadUser, ReadRole, ReadActor, ReadPerms, ReadTarget,
     ReadAssigned, CountAdmins, CountHolders, Continue, Refuse, history
<1>5. ASSUME NEW r \in Req, Write(r) PROVE Recorded'
  BY <1>1, <1>5, Zenon DEF Write, WriteCreateUser, WriteUpdateUser, WriteDeleteUser,
     WriteReplaceAccess, WriteCreateRole, WriteUpdateRole, WriteDeleteRole, WriteFails, Refuse
<1>6. CASE UNCHANGED vars
  BY <1>2, <1>6 DEF vars, history
<1> QED BY <1>3, <1>4, <1>5, <1>6 DEF Next

\* TypeOK of Admin, for any accounts, actors, request slots and seeded roles.
THEOREM AdminTyped == Spec => []TypeOK
<1>1. Base /\ Recorded => TypeOK
  BY DEF Base, Typed, Recorded, TypeOK
<1>2. Init => Recorded
  BY DEF Init, Recorded
<1> QED BY <1>1, <1>2, InitBase, NextBase, NextRecorded, PTL DEF Spec

-----------------------------------------------------------------------------
(* The ceiling *)

\* Nobody at work is a superadmin or the machine caller; an actor has an account or
\* is yet to get one, and one of them is above the bottom.
LowActors ==
    /\ Machine \notin Actor
    /\ \A a \in Actor : RoleOf[a] \in (DOMAIN RankOf \ {"superadmin"}) \cup {None}
    /\ \E a \in Actor : RoleOf[a] \notin {"user", None}

\* A role beyond the actors is as it was, and so are its holders.
Untouched ==
    \A n \in Beyond :
        /\ n \in Roles /\ rank[n] = RankOf[n] /\ perms[n] = PermsOf[n]
        /\ \A u \in User : /\ role[u] = n <=> RoleOf[u] = n
                           /\ role[u] = n => status[u] = "active"

\* Every other role, also one that was made or moved since, is below them.
Below == \A m \in Roles \ Beyond, n \in Beyond : rank[m] < RankOf[n]

\* A rank that manages nothing beyond.
Low(k) == k < Top /\ \A n \in Beyond : k <= RankOf[n]

\* What a request has established by the time it is at p.
Restrained(p, l) ==
    /\ p \notin {"idle", "user", "role", "actor"} => Low(l.arank)
    /\ p \notin {"idle", "user"} /\ l.op \in Edits => (RoleOf[l.user] \in Beyond => l.cur.role \in Beyond)
    /\ p \in {"assigned", "count", "write"} /\ l.op \in Edits => l.cur.role \notin Beyond
    /\ p \in {"count", "write"} /\ l.op \in Edits => l.name \notin Beyond
    /\ p \in {"actor", "perms"} /\ l.op \in RoleEdits \cup {"create_user"} =>
         (l.name \in Beyond => l.trank = RankOf[l.name])
    /\ p \in {"in_use", "write"} /\ l.op \in RoleEdits \cup {"create_user"} => l.name \notin Beyond
    /\ p = "write" /\ l.op \in {"create_role", "update_role"} /\ l.rk # None =>
         \A n \in Beyond : l.rk < RankOf[n]
    /\ p = "write" /\ l.op \in {"create_role", "update_role"} /\ l.pm # None =>
         \E m \in DOMAIN PermsOf \ {"superadmin"} : l.pm \subseteq PermsOf[m]

\* Of every request.
Restraints == \A r \in Req : Restrained(pc[r], loc[r])

\* The inductive invariant of the ceiling.
Ceiling == Untouched /\ Below /\ NoNewPowers /\ Restraints

\* The constants are numbers the provers can compare.
LEMMA BeyondTyped ==
    ASSUME LowActors
    PROVE  /\ Top \in Nat \ {0}
           /\ Beyond \subseteq DOMAIN RankOf /\ "superadmin" \in Beyond /\ "user" \notin Beyond
           /\ None \notin Beyond
           /\ \A n \in Beyond : RankOf[n] \in 0..Top
           /\ \A n \in Beyond \ {"superadmin"} : RankOf[n] < Top
           /\ Actor \subseteq User
           /\ \A a \in Actor, n \in Beyond : RoleOf[a] # None => RankOf[RoleOf[a]] <= RankOf[n]
<1>1. Top \in Nat \ {0} /\ Actor \subseteq User
  BY TopIsPositive, ActorsAreKnown DEF LowActors
<1>2. Beyond \subseteq DOMAIN RankOf /\ \A n \in DOMAIN RankOf : RankOf[n] \in 0..Top
  BY SeededRoles DEF Beyond
<1>3. "superadmin" \in Beyond
  BY <1>1, <1>2, SeededRoles DEF Beyond, System, LowActors
<1>4. "user" \notin Beyond
  <2>1. PICK a \in Actor : RoleOf[a] \notin {"user", None}
    BY DEF LowActors
  <2>2. RoleOf[a] \in DOMAIN RankOf \ {"user", "superadmin"}
    BY <2>1 DEF LowActors
  <2>3. RankOf[RoleOf[a]] \in 1..(Top - 1)
    BY <2>2, SeededRoles
  <2>4. ~(RankOf[RoleOf[a]] <= RankOf["user"])
    BY <1>1, <2>3, SeededRoles
  <2>5. a \in Actor \ {Machine}
    BY <2>2, NoneIsNothing DEF LowActors
  <2> QED BY <2>1, <2>4, <2>5 DEF Beyond
<1>5. None \notin Beyond
  BY <1>2, SeededRoles, NoneIsNothing
<1>6. \A n \in Beyond \ {"superadmin"} : RankOf[n] < Top
  BY <1>1, <1>2, <1>4, SeededRoles
<1>7. \A a \in Actor, n \in Beyond : RoleOf[a] # None => RankOf[RoleOf[a]] <= RankOf[n]
  BY DEF Beyond, LowActors
<1> QED BY <1>1, <1>2, <1>3, <1>4, <1>5, <1>6, <1>7

\* Guard.Actor: whatever role an actor has been given since, the rank read for
\* it manages nothing beyond, and the role is not superadmin.
LEMMA ActorIsLow ==
    ASSUME LowActors, Base, Ceiling, NEW a \in Actor
    PROVE  role[a] \in Roles \ {"superadmin"} /\ Low(rank[role[a]])
<1>1. role[a] \in Roles /\ rank[role[a]] \in 0..Top /\ a \in User
  BY BeyondTyped DEF Base, Typed, Kept, NoDanglingRole
<1>2. role[a] # "superadmin"
  BY <1>1, BeyondTyped DEF LowActors, Ceiling, Untouched
<1>3. CASE role[a] \in Beyond
  <2>1. role[a] = RoleOf[a] /\ rank[role[a]] = RankOf[RoleOf[a]]
    BY <1>1, <1>3 DEF Ceiling, Untouched
  <2> QED BY <1>1, <1>2, <1>3, <2>1, BeyondTyped DEF Low
<1>4. CASE role[a] \notin Beyond
  <2>1. \A n \in Beyond : rank[role[a]] < RankOf[n] /\ RankOf[n] \in 0..Top
    BY <1>1, <1>4, BeyondTyped DEF Ceiling, Below
  <2> QED BY <1>1, <1>2, <2>1, BeyondTyped DEF Low
<1> QED BY <1>3, <1>4

\* CanManage of such a rank is strict, and never holds of a role beyond.
LEMMA LowManages ==
    ASSUME LowActors, NEW k \in 0..Top, Low(k), NEW j \in 0..Top, CanManage(k, j)
    PROVE  \A n \in Beyond : j < RankOf[n]
  BY BeyondTyped DEF Low, CanManage

\* Restrained is about one request and constants: a read of r keeps the ceiling
\* when r is restrained where it goes.
LEMMA ReadKeepsCeiling ==
    ASSUME Base, Ceiling, NEW r \in Req, NEW label \in PC, NEW l \in Request,
           Goto(r, label), loc' = [loc EXCEPT ![r] = l], UNCHANGED tables,
           Restrained(label, l)
    PROVE  Ceiling'
<1>1. pc'[r] = label /\ loc'[r] = l /\ Others(r)
  BY Moves DEF Base
<1>2. Restraints'
  BY <1>1 DEF Ceiling, Restraints, Others
<1> QED BY <1>2 DEF Ceiling, Untouched, Below, NoNewPowers, Roles, tables

\* A refusal changes no table.
LEMMA RefuseKeepsCeiling ==
    ASSUME Base, Ceiling, NEW r \in Req, Refuse(r)
    PROVE  Ceiling'
<1>1. Restrained("idle", NoRequest)
  BY DEF Restrained
<1> QED BY <1>1, NoRequestTyped, ReadKeepsCeiling DEF Refuse, Finish, PC

\* A request that ends has nothing left to be restrained.
LEMMA FinishKeepsRestraints ==
    ASSUME Base, Ceiling, NEW r \in Req, Finish(r)
    PROVE  Restraints'
<1>1. pc'[r] = "idle" /\ loc'[r] = NoRequest /\ Others(r)
  BY Finishes DEF Base
<1> QED BY <1>1 DEF Ceiling, Restraints, Restrained, Others

\* A request that arrives has established nothing and claims nothing.
LEMMA ArriveKeepsCeiling ==
    ASSUME LowActors, Base, Ceiling, NEW r \in Req, NEW a \in Actor, Arrive(r, a)
    PROVE  Ceiling'
<1>1. Base'
  BY ArriveKeepsBase
<1>2. ASSUME NEW l, Start(r, "user", l) \/ Start(r, "role", l)
      PROVE  Ceiling'
  <2>1. ASSUME NEW label \in {"user", "role"}, Goto(r, label),
               loc' = [loc EXCEPT ![r] = l], UNCHANGED tables
        PROVE  Ceiling'
    <3>1. pc'[r] = label /\ loc'[r] = l /\ label \in PC
      BY <2>1 DEF Base, Typed, Goto, PC
    <3>2. l \in Request /\ Shape(label, l)
      BY <1>1, <3>1 DEF Base, Typed, Shapes
    <3>3. Restrained(label, l)
      BY <2>1, <3>2 DEF Restrained, Shape, Edits, RoleEdits
    <3> QED BY <2>1, <3>1, <3>2, <3>3, ReadKeepsCeiling
  <2> QED BY <1>2, <2>1 DEF Start
<1>3. ASSUME NEW u \in User, NEW n, NEW st, CreateUser(r, a, u, n, st)
      PROVE  Ceiling'
  BY <1>2, <1>3, Zenon DEF CreateUser
<1>4. ASSUME NEW u \in User, NEW n, NEW st, UpdateUser(r, a, u, n, st)
      PROVE  Ceiling'
  BY <1>2, <1>4, Zenon DEF UpdateUser
<1>5. ASSUME NEW u \in User, DeleteUser(r, a, u) \/ ReplaceAccess(r, a, u)
      PROVE  Ceiling'
  BY <1>2, <1>5, Zenon DEF DeleteUser, ReplaceAccess
<1>6. ASSUME NEW n, NEW rk, NEW pm, CreateRole(r, a, n, rk, pm)
      PROVE  Ceiling'
  <2> DEFINE l == [NoRequest EXCEPT !.op = "create_role", !.actor = a, !.name = n,
                                    !.rk = rk, !.pm = pm]
  <2>1. Start(r, "actor", l) /\ l.op = "create_role"
    BY <1>6 DEF CreateRole, NoRequest
  <2> HIDE DEF l
  <2>2. loc'[r] = l
    BY <2>1 DEF Base, Typed, Start
  <2>3. l \in Request
    BY <1>1, <2>2 DEF Base, Typed
  <2>4. Restrained("actor", l)
    BY <2>1 DEF Restrained, Edits, RoleEdits
  <2> QED BY <2>1, <2>3, <2>4, ReadKeepsCeiling DEF Start, PC
<1>7. ASSUME NEW n, NEW rk, NEW pm, UpdateRole(r, a, n, rk, pm) \/ DeleteRole(r, a, n)
      PROVE  Ceiling'
  BY <1>2, <1>7, Zenon DEF UpdateRole, DeleteRole
<1> QED BY <1>3, <1>4, <1>5, <1>6, <1>7 DEF Arrive

\* Each check of a handler establishes what Restrained says of the steps after it.
LEMMA ReadsKeepCeiling ==
    ASSUME LowActors, Base, Ceiling, NEW r \in Req, Read(r)
    PROVE  Ceiling'
<1> DEFINE l == loc[r]
<1>0. /\ l \in Request /\ Shape(pc[r], l) /\ Restrained(pc[r], l)
      /\ \A u \in User : role[u] \in Roles
      /\ \A n \in Roles : n \in Name /\ rank[n] \in 0..Top
      /\ l.op \in Op /\ l.arank \in 0..Top /\ l.trank \in 0..Top
  BY DEF Base, Typed, Shapes, Kept, NoDanglingRole, Request, Ceiling, Restraints
<1>1. \A n \in Beyond : /\ n \in Roles /\ rank[n] = RankOf[n] /\ RankOf[n] \in 0..Top
                        /\ \A u \in User : role[u] = n <=> RoleOf[u] = n
  BY BeyondTyped DEF Ceiling, Untouched
<1> USE DEF Continue, PC
<1>2. CASE ReadUser(r)
  <2> DEFINE m == [l EXCEPT !.cur = [role |-> role[l.user], status |-> status[l.user]]]
  <2>1. CASE Refuse(r)
    BY <2>1, RefuseKeepsCeiling
  <2>2. CASE ~Refuse(r)
    <3>1. pc[r] = "user" /\ Continue(r, "actor", m)
      BY <1>2, <2>2 DEF ReadUser
    <3>2. l.op \in Edits /\ l.user \in User
      BY <1>0, <3>1 DEF Shape, Edits, RoleEdits, Op
    <3>3. m.op = l.op /\ m.user = l.user /\ m.cur.role = role[l.user]
      BY <1>0 DEF Request
    <3>4. m \in Request
      <4>1. pc'[r] = "actor" /\ loc'[r] = m
        BY <3>1 DEF Base, Typed, Goto
      <4>2. Base'
        BY ReadsKeepBase
      <4> QED BY <4>1, <4>2 DEF Base, Typed
    <3> HIDE DEF m
    <3>5. Restrained("actor", m)
      BY <1>1, <3>2, <3>3 DEF Restrained, Edits, RoleEdits
    <3> QED BY <3>1, <3>4, <3>5, ReadKeepsCeiling
  <2> QED BY <2>1, <2>2
<1>3. CASE ReadRole(r)
  <2> DEFINE m == [l EXCEPT !.trank = rank[l.name]]
  <2>1. CASE Refuse(r)
    BY <2>1, RefuseKeepsCeiling
  <2>2. CASE ~Refuse(r)
    <3>1. pc[r] = "role" /\ Continue(r, "actor", m) /\ l.name \in Roles
      BY <1>3, <2>2 DEF ReadRole
    <3>2. l.op \notin Edits
      BY <1>0, <3>1 DEF Shape
    <3>3. m \in Request
      BY <1>0, <3>1 DEF Request
    <3>4. m.op = l.op /\ m.name = l.name /\ m.trank = rank[l.name]
      BY <1>0 DEF Request
    <3> HIDE DEF m
    <3>5. Restrained("actor", m)
      BY <1>1, <3>2, <3>4 DEF Restrained
    <3> QED BY <3>1, <3>3, <3>5, ReadKeepsCeiling
  <2> QED BY <2>1, <2>2
<1>4. CASE ReadActor(r)
  <2> DEFINE k == IF l.actor = Machine THEN Top ELSE rank[role[l.actor]]
             m == [l EXCEPT !.arank = k]
  <2>1. CASE Refuse(r)
    BY <2>1, RefuseKeepsCeiling
  <2>2. CASE ~Refuse(r)
    <3>1. /\ Continue(r, AfterActor[l.op], m) /\ pc[r] = "actor"
          /\ l.op = "create_user" => CanManage(k, l.trank)
      BY <1>4, <2>2 DEF ReadActor
    <3>2. l.actor \in Actor /\ l.actor # Machine
      BY <1>0, <3>1 DEF Shape, LowActors
    <3>3. k \in 0..Top /\ Low(k)
      BY <1>0, <3>2, ActorIsLow, BeyondTyped
    <3> HIDE DEF k
    <3>4. m \in Request
      BY <1>0, <3>3 DEF Request
    <3>5. /\ m.op = l.op /\ m.user = l.user /\ m.name = l.name /\ m.trank = l.trank
          /\ m.cur = l.cur /\ m.arank = k
      BY <1>0 DEF Request
    <3> HIDE DEF m
    <3>6. AfterActor[l.op] = IF l.op = "create_user" THEN "write"
                             ELSE IF l.op \in Edits THEN "target" ELSE "perms"
      BY <1>0 DEF AfterActor, Edits, Op
    <3>7. l.op = "create_user" => l.name \notin Beyond
      <4>1. SUFFICES ASSUME l.op = "create_user", l.name \in Beyond PROVE FALSE
        OBVIOUS
      <4>2. l.trank < RankOf[l.name]
        BY <1>0, <3>1, <3>3, <4>1, LowManages
      <4>3. l.trank = RankOf[l.name]
        BY <1>0, <3>1, <4>1 DEF Restrained
      <4> QED BY <1>0, <4>2, <4>3
    <3>8. Restrained(AfterActor[l.op], m)
      <4>1. CASE l.op = "create_user"
        BY <3>3, <3>5, <3>6, <3>7, <4>1 DEF Restrained, Edits, RoleEdits
      <4>2. CASE l.op \in Edits
        BY <1>0, <3>1, <3>3, <3>5, <3>6, <4>2 DEF Restrained, Edits, RoleEdits
      <4>3. CASE l.op \notin Edits \cup {"create_user"}
        BY <1>0, <3>1, <3>3, <3>5, <3>6, <4>3 DEF Restrained, Edits, RoleEdits
      <4> QED BY <4>1, <4>2, <4>3
    <3> QED BY <3>1, <3>4, <3>6, <3>8, ReadKeepsCeiling
  <2> QED BY <2>1, <2>2
\* The other reads keep what the request carries.
<1>5. ASSUME NEW label \in PC, Continue(r, label, l), Restrained(label, l)
      PROVE  Ceiling'
  BY <1>0, <1>5, ReadKeepsCeiling
<1>6. CASE ReadPerms(r)
  <2> DEFINE held == perms[role[l.actor]]
             next == IF l.op = "delete_role" THEN "in_use" ELSE "write"
  <2>1. CASE Refuse(r)
    BY <2>1, RefuseKeepsCeiling
  <2>2. CASE ~Refuse(r)
    <3>1. pc[r] = "perms"
      BY <1>6 DEF ReadPerms
    <3>2. l.actor \in Actor /\ l.actor # Machine /\ l.op \in RoleEdits \cup {"create_role"}
      BY <1>0, <3>1 DEF Shape, LowActors, Op, Edits, RoleEdits
    <3>3. /\ Continue(r, next, l)
          /\ l.op # "create_role" => CanManage(l.arank, l.trank)
          /\ l.rk # None => CanManage(l.arank, l.rk)
          /\ l.pm # None => l.pm \subseteq held
      BY <1>6, <2>2, <3>2 DEF ReadPerms, HoldsAll
    <3>4. Low(l.arank)
      BY <1>0, <3>1 DEF Restrained
    <3>5. l.op \in RoleEdits => l.name \notin Beyond
      <4>1. SUFFICES ASSUME l.op \in RoleEdits, l.name \in Beyond PROVE FALSE
        OBVIOUS
      <4>2. l.trank < RankOf[l.name]
        BY <1>0, <3>3, <3>4, <4>1, LowManages DEF RoleEdits
      <4>3. l.trank = RankOf[l.name]
        BY <1>0, <3>1, <4>1 DEF Restrained
      <4> QED BY <1>0, <4>2, <4>3
    <3>6. l.rk # None => \A n \in Beyond : l.rk < RankOf[n]
      <4>1. l.rk \in (0..Top) \cup {None}
        BY <1>0 DEF Request
      <4> QED BY <1>0, <3>3, <3>4, <4>1, LowManages
    <3>7. l.pm # None => \E m \in DOMAIN PermsOf \ {"superadmin"} : l.pm \subseteq PermsOf[m]
      <4>1. role[l.actor] \in Roles \ {"superadmin"}
        BY <3>2, ActorIsLow
      <4>2. \E m \in DOMAIN PermsOf \ {"superadmin"} : held \subseteq PermsOf[m]
        BY <4>1 DEF Ceiling, NoNewPowers
      <4> QED BY <3>3, <4>2
    <3>8. Restrained(next, l)
      BY <3>2, <3>4, <3>5, <3>6, <3>7 DEF Restrained, Edits, RoleEdits
    <3> QED BY <1>5, <3>3, <3>8
  <2> QED BY <2>1, <2>2
<1>7. CASE ReadTarget(r)
  <2>1. CASE Refuse(r)
    BY <2>1, RefuseKeepsCeiling
  <2>2. CASE ~Refuse(r)
    <3>1. pc[r] = "target" /\ l.cur.role \in Roles /\ CanManage(l.arank, rank[l.cur.role])
      BY <1>7, <2>2 DEF ReadTarget
    <3>2. l.op \in Edits /\ Low(l.arank)
      BY <1>0, <3>1 DEF Shape, Restrained, Op, Edits, RoleEdits
    <3>3. l.cur.role \notin Beyond
      <4>1. SUFFICES ASSUME l.cur.role \in Beyond PROVE FALSE
        OBVIOUS
      <4>2. rank[l.cur.role] < RankOf[l.cur.role]
        BY <1>0, <3>1, <3>2, <4>1, LowManages
      <4> QED BY <1>1, <4>1, <4>2
    <3>4. Restrained("assigned", l)
      BY <1>0, <3>1, <3>2, <3>3 DEF Restrained, Edits, RoleEdits
    <3>5. ~RoleChanges(l) => l.name \notin Beyond
      BY <3>3, BeyondTyped DEF RoleChanges
    <3>6. ~RoleChanges(l) => Restrained("count", l) /\ Restrained("write", l)
      BY <1>0, <3>1, <3>2, <3>3, <3>5 DEF Restrained, Edits, RoleEdits
    <3> QED BY <1>5, <1>7, <2>2, <3>4, <3>6 DEF ReadTarget
  <2> QED BY <2>1, <2>2
<1>8. CASE ReadAssigned(r)
  <2>1. CASE Refuse(r)
    BY <2>1, RefuseKeepsCeiling
  <2>2. CASE ~Refuse(r)
    <3>1. pc[r] = "assigned" /\ l.name \in Roles /\ CanManage(l.arank, rank[l.name])
      BY <1>8, <2>2 DEF ReadAssigned
    <3>2. l.op \in Edits /\ Low(l.arank)
      BY <1>0, <3>1 DEF Shape, Restrained, Op, Edits, RoleEdits
    <3>3. l.name \notin Beyond
      <4>1. SUFFICES ASSUME l.name \in Beyond PROVE FALSE
        OBVIOUS
      <4>2. rank[l.name] < RankOf[l.name]
        BY <1>0, <3>1, <3>2, <4>1, LowManages
      <4> QED BY <1>1, <4>1, <4>2
    <3>4. Restrained("count", l) /\ Restrained("write", l)
      BY <1>0, <3>1, <3>2, <3>3 DEF Restrained, Edits, RoleEdits
    <3> QED BY <1>5, <1>8, <2>2, <3>4 DEF ReadAssigned
  <2> QED BY <2>1, <2>2
<1>9. CASE CountAdmins(r)
  <2>1. pc[r] = "count" => l.op \in Edits
    BY <1>0 DEF Shape, Op, Edits, RoleEdits
  <2>2. pc[r] = "count" => Restrained("write", l)
    BY <1>0, <2>1 DEF Restrained, Edits, RoleEdits
  <2> QED BY <1>5, <1>9, <2>2, RefuseKeepsCeiling DEF CountAdmins
<1>10. CASE CountHolders(r)
  <2>1. pc[r] = "in_use" => l.op \in RoleEdits /\ l.op # "update_role"
    BY <1>0 DEF Shape, Op, Edits, RoleEdits
  <2>2. pc[r] = "in_use" => Restrained("write", l)
    BY <1>0, <2>1 DEF Restrained, Edits, RoleEdits
  <2> QED BY <1>5, <1>10, <2>2, RefuseKeepsCeiling DEF CountHolders
<1> QED BY <1>2, <1>3, <1>4, <1>6, <1>7, <1>8, <1>9, <1>10 DEF Read

\* A write to ga_users keeps the ceiling when it neither takes an account from a
\* role beyond nor gives it one.
LEMMA UserWriteKeepsCeiling ==
    ASSUME Base, Ceiling, NEW r \in Req, Finish(r), UNCHANGED <<rank, perms>>,
           \A u \in User : role[u] \in Beyond \/ role'[u] \in Beyond =>
                               role'[u] = role[u] /\ status'[u] = status[u]
    PROVE  Ceiling'
<1>1. Restraints'
  BY FinishKeepsRestraints
<1>2. Untouched'
  BY DEF Ceiling, Untouched, Roles
<1>3. Below' /\ NoNewPowers'
  BY DEF Ceiling, Below, NoNewPowers, Roles
<1> QED BY <1>1, <1>2, <1>3 DEF Ceiling

\* A write to ga_roles keeps it when roles beyond stay and any other role is
\* ranked below them and granted no more than some role had.
LEMMA RoleWriteKeepsCeiling ==
    ASSUME Base, Ceiling, NEW r \in Req, Finish(r), UNCHANGED <<status, role>>,
           \A n \in Beyond : n \in Roles' /\ rank'[n] = rank[n] /\ perms'[n] = perms[n],
           \A m \in Roles' \ Beyond : \/ m \in Roles /\ rank'[m] = rank[m]
                                      \/ \A n \in Beyond : rank'[m] < RankOf[n],
           \A m \in Roles' : \/ m \in Roles /\ perms'[m] = perms[m]
                             \/ \E k \in DOMAIN PermsOf \ {"superadmin"} : perms'[m] \subseteq PermsOf[k]
    PROVE  Ceiling'
<1>1. Restraints'
  BY FinishKeepsRestraints
<1>2. Untouched'
  BY DEF Ceiling, Untouched
<1>3. Below'
  BY DEF Ceiling, Below
<1>4. NoNewPowers'
  BY DEF Ceiling, NoNewPowers
<1> QED BY <1>1, <1>2, <1>3, <1>4 DEF Ceiling

\* No write repeats a check: what the request established earlier still bounds
\* what it writes.
LEMMA WritesKeepCeiling ==
    ASSUME LowActors, Base, Ceiling, NEW r \in Req, Write(r)
    PROVE  Ceiling'
<1> DEFINE l == loc[r]
<1>0. /\ l \in Request /\ Shape(pc[r], l) /\ Restrained(pc[r], l)
      /\ status \in [User -> Status] /\ role \in [User -> Roles]
      /\ rank \in [Roles -> 0..Top] /\ perms \in [Roles -> SUBSET Perm]
  BY DEF Base, Typed, Shapes, Kept, NoDanglingRole, Ceiling, Restraints
<1>1. \A n \in Beyond : /\ n \in Roles
                        /\ \A u \in User : /\ role[u] = n <=> RoleOf[u] = n
                                           /\ role[u] = n => status[u] = "active"
  BY DEF Ceiling, Untouched
\* An account edit that is about to be written is about nobody beyond.
<1>2. l.op \in Edits /\ pc[r] = "write" =>
         l.user \in User /\ role[l.user] \notin Beyond /\ l.name \notin Beyond
  BY <1>0, <1>1 DEF Restrained, Shape
<1>3. CASE WriteCreateUser(r)
  <2>1. l.op = "create_user" /\ pc[r] = "write" /\ Finish(r) /\ UNCHANGED <<rank, perms>>
    BY <1>3 DEF WriteCreateUser, At
  <2>2. l.user \in User /\ l.name \notin Beyond
    BY <1>0, <2>1 DEF Shape, Restrained
  <2>3. status[l.user] = "absent" => role[l.user] \notin Beyond
    BY <1>1, <2>2
  <2>4. \A u \in User : role[u] \in Beyond \/ role'[u] \in Beyond =>
                           role'[u] = role[u] /\ status'[u] = status[u]
    BY <1>0, <1>3, <2>2, <2>3 DEF WriteCreateUser
  <2> QED BY <2>1, <2>4, UserWriteKeepsCeiling
<1>4. CASE WriteUpdateUser(r)
  <2>1. l.op = "update_user" /\ pc[r] = "write" /\ Finish(r) /\ UNCHANGED <<rank, perms>>
    BY <1>4 DEF WriteUpdateUser, At
  <2>2. \A u \in User : role[u] \in Beyond \/ role'[u] \in Beyond =>
                           role'[u] = role[u] /\ status'[u] = status[u]
    BY <1>0, <1>2, <1>4, <2>1 DEF WriteUpdateUser, Edits
  <2> QED BY <2>1, <2>2, UserWriteKeepsCeiling
<1>5. CASE WriteDeleteUser(r)
  <2>1. l.op = "delete_user" /\ pc[r] = "write" /\ Finish(r) /\ UNCHANGED <<rank, perms>>
    BY <1>5 DEF WriteDeleteUser, At
  <2>2. \A u \in User : role[u] \in Beyond \/ role'[u] \in Beyond =>
                           role'[u] = role[u] /\ status'[u] = status[u]
    BY <1>0, <1>2, <1>5, <2>1, BeyondTyped DEF WriteDeleteUser, Edits
  <2> QED BY <2>1, <2>2, UserWriteKeepsCeiling
<1>6. CASE WriteReplaceAccess(r) \/ WriteFails(r)
  BY <1>6, RefuseKeepsCeiling DEF WriteReplaceAccess, WriteFails, Refuse
\* A role write that the unique keys refuse changes nothing.
<1>7. ASSUME Finish(r), UNCHANGED <<status, role>>, UNCHANGED <<rank, perms>>
      PROVE  Ceiling'
  BY <1>7, RefuseKeepsCeiling DEF Refuse, tables
<1>8. CASE WriteCreateRole(r)
  <2>1. l.op = "create_role" /\ pc[r] = "write" /\ Finish(r) /\ UNCHANGED <<status, role>>
    BY <1>8 DEF WriteCreateRole, At
  <2>2. CASE UNCHANGED <<rank, perms>>
    BY <1>7, <2>1, <2>2
  <2>3. CASE ~UNCHANGED <<rank, perms>>
    <3>1. /\ rank' = [n \in Roles \cup {l.name} |-> IF n = l.name THEN l.rk ELSE rank[n]]
          /\ perms' = [n \in Roles \cup {l.name} |-> IF n = l.name THEN l.pm ELSE perms[n]]
          /\ l.name \notin Roles
      BY <1>8, <2>3 DEF WriteCreateRole
    <3>2. Roles' = Roles \cup {l.name} /\ l.name \notin Beyond
      BY <1>1, <3>1 DEF Roles
    <3>3. \A n \in Beyond : l.rk < RankOf[n]
      <4>1. l.rk # None
        BY <1>0, <2>1, TopIsPositive, NoneIsNothing DEF Shape
      <4> QED BY <1>0, <2>1, <4>1 DEF Restrained
    <3>4. \E k \in DOMAIN PermsOf \ {"superadmin"} : l.pm \subseteq PermsOf[k]
      <4>1. l.pm # None
        BY <1>0, <2>1, NoneIsNothing DEF Shape
      <4> QED BY <1>0, <2>1, <4>1 DEF Restrained
    <3>5. \A n \in Beyond : n \in Roles' /\ rank'[n] = rank[n] /\ perms'[n] = perms[n]
      BY <1>1, <3>1, <3>2
    <3>6. \A m \in Roles' \ Beyond : \/ m \in Roles /\ rank'[m] = rank[m]
                                     \/ \A n \in Beyond : rank'[m] < RankOf[n]
      BY <3>1, <3>2, <3>3
    <3>7. \A m \in Roles' : \/ m \in Roles /\ perms'[m] = perms[m]
                            \/ \E k \in DOMAIN PermsOf \ {"superadmin"} : perms'[m] \subseteq PermsOf[k]
      BY <3>1, <3>2, <3>4
    <3> QED BY <2>1, <3>5, <3>6, <3>7, RoleWriteKeepsCeiling
  <2> QED BY <2>2, <2>3
<1>9. CASE WriteUpdateRole(r)
  <2>1. l.op = "update_role" /\ pc[r] = "write" /\ Finish(r) /\ UNCHANGED <<status, role>>
    BY <1>9 DEF WriteUpdateRole, At
  <2>2. CASE UNCHANGED <<rank, perms>>
    BY <1>7, <2>1, <2>2
  <2>3. CASE ~UNCHANGED <<rank, perms>>
    <3>1. /\ rank' = [rank EXCEPT ![l.name] = IF l.rk = None THEN @ ELSE l.rk]
          /\ perms' = [perms EXCEPT ![l.name] = IF l.pm = None THEN @ ELSE l.pm]
          /\ l.name \in Roles
      BY <1>9, <2>3 DEF WriteUpdateRole
    <3>2. Roles' = Roles /\ l.name \notin Beyond
      BY <1>0, <2>1, <3>1 DEF Roles, Restrained, RoleEdits
    <3>3. /\ l.rk # None => \A n \in Beyond : l.rk < RankOf[n]
          /\ l.pm # None => \E k \in DOMAIN PermsOf \ {"superadmin"} : l.pm \subseteq PermsOf[k]
      BY <1>0, <2>1 DEF Restrained
    <3>4. \A m \in Roles \ {l.name} : rank'[m] = rank[m] /\ perms'[m] = perms[m]
      BY <1>0, <3>1
    <3>5. /\ rank'[l.name] = IF l.rk = None THEN rank[l.name] ELSE l.rk
          /\ perms'[l.name] = IF l.pm = None THEN perms[l.name] ELSE l.pm
      BY <1>0, <3>1
    <3>6. \A n \in Beyond : n \in Roles' /\ rank'[n] = rank[n] /\ perms'[n] = perms[n]
      BY <1>1, <3>2, <3>4
    <3>7. \A m \in Roles' \ Beyond : \/ m \in Roles /\ rank'[m] = rank[m]
                                     \/ \A n \in Beyond : rank'[m] < RankOf[n]
      BY <3>2, <3>3, <3>4, <3>5
    <3>8. \A m \in Roles' : \/ m \in Roles /\ perms'[m] = perms[m]
                            \/ \E k \in DOMAIN PermsOf \ {"superadmin"} : perms'[m] \subseteq PermsOf[k]
      BY <3>1, <3>2, <3>3, <3>4, <3>5
    <3> QED BY <2>1, <3>6, <3>7, <3>8, RoleWriteKeepsCeiling
  <2> QED BY <2>2, <2>3
<1>10. CASE WriteDeleteRole(r)
  <2>1. l.op = "delete_role" /\ pc[r] = "write" /\ Finish(r) /\ UNCHANGED <<status, role>>
    BY <1>10 DEF WriteDeleteRole, At
  <2>2. CASE UNCHANGED <<rank, perms>>
    BY <1>7, <2>1, <2>2
  <2>3. CASE ~UNCHANGED <<rank, perms>>
    <3>1. /\ rank' = [m \in Roles \ {l.name} |-> rank[m]]
          /\ perms' = [m \in Roles \ {l.name} |-> perms[m]]
      BY <1>10, <2>3 DEF WriteDeleteRole
    <3>2. Roles' = Roles \ {l.name} /\ l.name \notin Beyond
      BY <1>0, <2>1, <3>1 DEF Roles, Restrained, RoleEdits
    <3>3. \A m \in Roles' : m \in Roles /\ rank'[m] = rank[m] /\ perms'[m] = perms[m]
      BY <3>1, <3>2
    <3>4. \A n \in Beyond : n \in Roles'
      BY <1>1, <3>2
    <3> QED BY <2>1, <3>3, <3>4, RoleWriteKeepsCeiling
  <2> QED BY <2>2, <2>3
<1> QED BY <1>3, <1>4, <1>5, <1>6, <1>8, <1>9, <1>10 DEF Write

\* The ceiling holds of the seeded tables.
LEMMA InitCeiling ==
    ASSUME LowActors, Init
    PROVE  Ceiling
<1>1. Roles = DOMAIN RankOf /\ rank = RankOf /\ perms = PermsOf
  BY DEF Init, Roles
<1>2. Untouched
  BY <1>1, BeyondTyped, SeededRoles DEF Init, Untouched
<1>3. Below
  <2>1. SUFFICES ASSUME NEW m \in DOMAIN RankOf, m \notin Beyond, NEW n \in Beyond
                 PROVE  RankOf[m] < RankOf[n]
    BY <1>1 DEF Below
  <2>2. PICK a \in Actor : RoleOf[a] # None /\ ~(RankOf[RoleOf[a]] <= RankOf[m])
    BY <2>1 DEF Beyond
  <2>3. RankOf[RoleOf[a]] \in 0..Top /\ RankOf[m] \in 0..Top /\ RankOf[n] \in 0..Top
    BY <2>2, BeyondTyped, SeededRoles DEF LowActors
  <2> QED BY <2>2, <2>3, BeyondTyped
<1>4. NoNewPowers
  BY <1>1, SeededRoles DEF NoNewPowers
<1>5. Restraints
  BY DEF Init, Restraints, Restrained
<1> QED BY <1>2, <1>3, <1>4, <1>5 DEF Ceiling

\* Every step of actors that are low keeps the ceiling.
LEMMA NextCeiling ==
    ASSUME LowActors, Base, Ceiling, [Next]_vars
    PROVE  Ceiling'
<1>1. CASE Next
  BY <1>1, ArriveKeepsCeiling, ReadsKeepCeiling, WritesKeepCeiling DEF Next
<1>2. CASE UNCHANGED vars
  BY <1>2 DEF vars, Ceiling, Untouched, Below, NoNewPowers, Restraints, Roles
<1> QED BY <1>1, <1>2

\* BeyondIsOutOfReach, for any accounts, roles, actors below the top and number
\* of concurrent requests: CanManage is checked once, on ranks that may change
\* before the write, and still no role at or above the highest actor, and no
\* holder of one, is ever changed.
THEOREM CeilingHolds ==
    ASSUME LowActors
    PROVE  Spec => []BeyondIsOutOfReach
<1>1. Init => Ceiling
  BY InitCeiling
<1>2. Base /\ Ceiling /\ [Next]_vars => Ceiling'
  BY NextCeiling
<1>3. Base /\ Ceiling => BeyondIsOutOfReach
  <2> SUFFICES ASSUME Base, Ceiling PROVE BeyondIsOutOfReach
    OBVIOUS
  <2>1. ASSUME NEW n \in Beyond, NEW r \in Req, At(r, "replace_access")
        PROVE  role[loc[r].user] # n
    <3>1. /\ pc[r] = "write" /\ loc[r].op = "replace_access"
          /\ Shape(pc[r], loc[r]) /\ Restrained(pc[r], loc[r])
      BY <2>1 DEF At, Base, Shapes, Ceiling, Restraints
    <3>2. loc[r].user \in User /\ RoleOf[loc[r].user] \notin Beyond
      BY <3>1 DEF Shape, Restrained, Edits
    <3> QED BY <3>2 DEF Ceiling, Untouched
  <2> QED BY <2>1 DEF Ceiling, Untouched, BeyondIsOutOfReach
<1> QED BY <1>1, <1>2, <1>3, InitBase, NextBase, PTL DEF Spec

\* NoNewPowers, likewise: HoldsAll compares a grant with the permissions the
\* actor's role had at the time of the check; roles edited since, also by other
\* actors, never add up to permissions no role below the top had at the start.
THEOREM PowersDoNotAddUp ==
    ASSUME LowActors
    PROVE  Spec => []NoNewPowers
<1>1. Init => Ceiling
  BY InitCeiling
<1>2. Base /\ Ceiling /\ [Next]_vars => Ceiling'
  BY NextCeiling
<1>3. Ceiling => NoNewPowers
  BY DEF Ceiling
<1> QED BY <1>1, <1>2, <1>3, InitBase, NextBase, PTL DEF Spec

-----------------------------------------------------------------------------
(* The last superadmin *)

\* Accounts are finitely many and a superadmin exists.
Founded == IsFiniteSet(User) /\ \E u \in User : RoleOf[u] = "superadmin"

\* What a request that is not stale knows: if its account is an active superadmin
\* then the row it read says so, and its count, if it made one, still holds.
Fresh(p, l) ==
    /\ p \notin {"idle", "user"} /\ l.op \in Edits /\ l.user \in ActiveSuperAdmins =>
         l.cur = [role |-> "superadmin", status |-> "active"]
    /\ p = "write" /\ l.op \in Edits /\ NeedsCount(l) => NotTheLast

\* The inductive invariant of LastSuperadminStays.
Guarded ==
    /\ ~raced => CountActiveSuperAdmins > 0
    /\ \A r \in Req \ stale : Fresh(pc[r], loc[r])

\* Superadmins that lost at most one account still have one, unless that account
\* was all of them.
LEMMA OneRemains ==
    ASSUME Founded, CountActiveSuperAdmins > 0, NEW v,
           ActiveSuperAdmins \subseteq ActiveSuperAdmins' \cup {v},
           v \in ActiveSuperAdmins \ ActiveSuperAdmins' => NotTheLast
    PROVE  CountActiveSuperAdmins' > 0
<1> DEFINE S == ActiveSuperAdmins
<1>1. IsFiniteSet(S) /\ IsFiniteSet(S')
  BY FS_Subset DEF ActiveSuperAdmins, Founded
<1>2. Cardinality(S) \in Nat /\ Cardinality(S) > 0 /\ (NotTheLast => Cardinality(S) > 1)
  BY <1>1, FS_CardinalityType DEF NotTheLast, CountActiveSuperAdmins
<1>3. S' # {}
  <2>1. CASE v \notin S
    BY <1>1, <1>2, <2>1, FS_EmptySet
  <2>2. CASE v \in S /\ v \in S'
    BY <2>2
  <2>3. CASE v \in S /\ v \notin S'
    <3>1. IsFiniteSet(S \ {v}) /\ Cardinality(S \ {v}) = Cardinality(S) - 1
      BY <1>1, <2>3, FS_RemoveElement
    <3>2. S \ {v} # {}
      <4>1. Cardinality(S \ {v}) # 0
        BY <1>2, <2>3, <3>1
      <4> QED BY <3>1, <4>1, FS_EmptySet
    <3> QED BY <3>2
  <2> QED BY <2>1, <2>2, <2>3
<1>4. Cardinality(S') \in Nat /\ Cardinality(S') # 0
  BY <1>1, <1>3, FS_CardinalityType, FS_EmptySet
<1>5. Cardinality(S') > 0
  BY <1>4
<1> QED BY <1>5 DEF CountActiveSuperAdmins

\* More superadmins: a count of more than one still holds.
LEMMA CountGrows ==
    ASSUME Founded, NotTheLast, ActiveSuperAdmins \subseteq ActiveSuperAdmins'
    PROVE  NotTheLast'
<1> DEFINE S == ActiveSuperAdmins
<1>1. IsFiniteSet(S) /\ IsFiniteSet(S')
  BY FS_Subset DEF ActiveSuperAdmins, Founded
<1>2. Cardinality(S) <= Cardinality(S') /\ Cardinality(S) \in Nat /\ Cardinality(S') \in Nat
  BY <1>1, FS_Subset, FS_CardinalityType
<1>3. Cardinality(S) > 1
  BY DEF NotTheLast, CountActiveSuperAdmins
<1>4. Cardinality(S') > 1
  BY <1>2, <1>3
<1> QED BY <1>4 DEF NotTheLast, CountActiveSuperAdmins

\* A step that reads keeps the guard when the request is fresh where it goes.
LEMMA ReadKeepsGuard ==
    ASSUME Base, Guarded, NEW r \in Req, NEW label \in PC, NEW l \in Request,
           Goto(r, label), loc' = [loc EXCEPT ![r] = l], UNCHANGED <<tables, history>>,
           r \notin stale => Fresh(label, l)
    PROVE  Guarded'
<1>1. pc'[r] = label /\ loc'[r] = l /\ Others(r)
  BY Moves DEF Base
<1>2. ActiveSuperAdmins' = ActiveSuperAdmins /\ stale' = stale /\ raced' = raced
  BY DEF tables, history, ActiveSuperAdmins
<1>3. CountActiveSuperAdmins' = CountActiveSuperAdmins /\ (NotTheLast' <=> NotTheLast)
  BY <1>2 DEF CountActiveSuperAdmins, NotTheLast
<1>4. ASSUME NEW q \in Req \ stale, NEW p, p = pc'[q], NEW k, k = loc'[q]
      PROVE  Fresh(p, k)'
  <2>1. Fresh(p, k)
    BY <1>1, <1>4 DEF Guarded, Others
  <2> QED BY <1>2, <1>3, <2>1 DEF Fresh
<1>5. \A q \in Req \ stale' : Fresh(pc[q], loc[q])'
  BY <1>2, <1>4 DEF Fresh
<1> QED BY <1>2, <1>3, <1>5 DEF Guarded

\* The request ends with a write that takes at most v away, and only after a count
\* that still holds, or without a write.
LEMMA FinishKeepsGuard ==
    ASSUME Founded, Base, Guarded, NEW r \in Req, Finish(r), NEW v,
           ActiveSuperAdmins \subseteq ActiveSuperAdmins' \cup {v},
           r \notin stale /\ v \in ActiveSuperAdmins \ ActiveSuperAdmins' => NotTheLast
    PROVE  Guarded'
<1> DEFINE S == ActiveSuperAdmins
<1>1. pc'[r] = "idle" /\ loc'[r] = NoRequest /\ Others(r)
  BY Finishes DEF Base
<1>2. /\ stale' = (stale \cup {q \in Req : Outdated(q)}) \ {r}
      /\ raced' = (raced \/ (r \in stale /\ ~(S \subseteq S')))
  BY DEF Finish
<1>3. ASSUME ~raced' PROVE CountActiveSuperAdmins' > 0
  <2>1. ~raced /\ (r \notin stale \/ S \subseteq S')
    BY <1>2, <1>3, Zenon
  <2>2. v \in S \ S' => NotTheLast
    BY <2>1
  <2>3. CountActiveSuperAdmins > 0
    BY <2>1 DEF Guarded
  <2> QED BY <2>2, <2>3, OneRemains
<1>4. ASSUME NEW q \in Req, q \notin stale', q # r, NEW p, p = pc[q], NEW l, l = loc[q]
      PROVE  Fresh(p, l)'
  <2>1. q \notin stale /\ ~Outdated(q)
    BY <1>2, <1>4
  <2>2. Fresh(p, l)
    BY <1>4, <2>1 DEF Guarded
  <2>3. /\ p \notin {"idle", "user"} /\ l.user \in S' => l.user \in S
        /\ p = "write" => S \subseteq S'
    BY <1>4, <2>1 DEF Outdated
  <2>4. p = "write" /\ NotTheLast => NotTheLast'
    BY <2>3, CountGrows
  <2> QED BY <2>2, <2>3, <2>4 DEF Fresh
<1>5. ASSUME NEW q \in Req \ stale' PROVE Fresh(pc[q], loc[q])'
  <2>1. CASE q = r
    BY <1>1, <2>1 DEF Fresh
  <2>2. CASE q # r
    <3>1. pc'[q] = pc[q] /\ loc'[q] = loc[q]
      BY <1>1, <2>2 DEF Others
    <3> QED BY <1>4, <2>2, <3>1 DEF Fresh
  <2> QED BY <2>1, <2>2
<1> QED BY <1>3, <1>5 DEF Guarded

\* A refusal changes no table.
LEMMA RefuseKeepsGuard ==
    ASSUME Founded, Base, Guarded, NEW r \in Req, Refuse(r)
    PROVE  Guarded'
<1>1. Finish(r) /\ ActiveSuperAdmins' = ActiveSuperAdmins
  BY DEF Refuse, tables, ActiveSuperAdmins
<1> QED BY <1>1, FinishKeepsGuard

\* A request that arrives has read nothing yet.
LEMMA ArriveKeepsGuard ==
    ASSUME Base, Guarded, NEW r \in Req, NEW a \in Actor, Arrive(r, a)
    PROVE  Guarded'
<1>1. Base'
  BY ArriveKeepsBase
<1>2. ASSUME NEW l, Start(r, "user", l) \/ Start(r, "role", l)
      PROVE  Guarded'
  <2>1. ASSUME NEW label \in {"user", "role"}, Goto(r, label),
               loc' = [loc EXCEPT ![r] = l], UNCHANGED <<tables, history>>
        PROVE  Guarded'
    <3>1. pc'[r] = label /\ loc'[r] = l /\ label \in PC
      BY <2>1 DEF Base, Typed, Goto, PC
    <3>2. l \in Request /\ Shape(label, l)
      BY <1>1, <3>1 DEF Base, Typed, Shapes
    <3>3. Fresh(label, l)
      BY <2>1, <3>2 DEF Fresh, Shape
    <3> QED BY <2>1, <3>1, <3>2, <3>3, ReadKeepsGuard
  <2> QED BY <1>2, <2>1 DEF Start
<1>3. ASSUME NEW u \in User, NEW n, NEW st, CreateUser(r, a, u, n, st)
      PROVE  Guarded'
  BY <1>2, <1>3, Zenon DEF CreateUser
<1>4. ASSUME NEW u \in User, NEW n, NEW st, UpdateUser(r, a, u, n, st)
      PROVE  Guarded'
  BY <1>2, <1>4, Zenon DEF UpdateUser
<1>5. ASSUME NEW u \in User, DeleteUser(r, a, u) \/ ReplaceAccess(r, a, u)
      PROVE  Guarded'
  BY <1>2, <1>5, Zenon DEF DeleteUser, ReplaceAccess
<1>6. ASSUME NEW n, NEW rk, NEW pm, CreateRole(r, a, n, rk, pm)
      PROVE  Guarded'
  <2> DEFINE l == [NoRequest EXCEPT !.op = "create_role", !.actor = a, !.name = n,
                                    !.rk = rk, !.pm = pm]
  <2>1. Start(r, "actor", l) /\ l.op = "create_role"
    BY <1>6 DEF CreateRole, NoRequest
  <2> HIDE DEF l
  <2>2. loc'[r] = l
    BY <2>1 DEF Base, Typed, Start
  <2>3. l \in Request
    BY <1>1, <2>2 DEF Base, Typed
  <2>4. Fresh("actor", l)
    BY <2>1 DEF Fresh, Edits
  <2> QED BY <2>1, <2>3, <2>4, ReadKeepsGuard DEF Start, PC
<1>7. ASSUME NEW n, NEW rk, NEW pm, UpdateRole(r, a, n, rk, pm) \/ DeleteRole(r, a, n)
      PROVE  Guarded'
  BY <1>2, <1>7, Zenon DEF UpdateRole, DeleteRole
<1> QED BY <1>3, <1>4, <1>5, <1>6, <1>7 DEF Arrive

\* A read outdates nobody, and what it reads is true.
LEMMA ReadsKeepGuard ==
    ASSUME Founded, Base, Guarded, NEW r \in Req, Read(r)
    PROVE  Guarded'
<1> DEFINE l == loc[r]
<1>0. l \in Request /\ Shape(pc[r], l) /\ l.op \in Op /\ (r \notin stale => Fresh(pc[r], l))
  BY DEF Base, Typed, Shapes, Request, Guarded
<1>1. Base'
  BY ReadsKeepBase
<1>4. CASE Refuse(r)
  BY <1>4, RefuseKeepsGuard
<1>5. CASE ~Refuse(r)
  <2>1. CASE ReadUser(r)
    <3> DEFINE m == [l EXCEPT !.cur = [role |-> role[l.user], status |-> status[l.user]]]
    <3>1. Continue(r, "actor", m)
      BY <1>5, <2>1 DEF ReadUser
    <3>2. /\ m.user = l.user /\ m.op = l.op
          /\ m.cur = [role |-> role[l.user], status |-> status[l.user]]
      BY <1>0 DEF Request
    <3> HIDE DEF m
    <3>3. Fresh("actor", m)
      BY <3>2 DEF Fresh, ActiveSuperAdmins
    <3>4. m \in Request
      <4>1. loc'[r] = m
        BY <3>1 DEF Base, Typed, Continue
      <4> QED BY <1>1, <4>1 DEF Base, Typed
    <3> QED BY <3>1, <3>3, <3>4, ReadKeepsGuard DEF Continue, PC
  <2>2. CASE ReadRole(r)
    <3> DEFINE m == [l EXCEPT !.trank = rank[l.name]]
    <3>1. Continue(r, "actor", m) /\ pc[r] = "role"
      BY <1>5, <2>2 DEF ReadRole
    <3>2. m.op = l.op /\ l.op \notin Edits
      BY <1>0, <3>1 DEF Request, Shape
    <3> HIDE DEF m
    <3>3. Fresh("actor", m)
      BY <3>2 DEF Fresh
    <3>4. m \in Request
      <4>1. loc'[r] = m
        BY <3>1 DEF Base, Typed, Continue
      <4> QED BY <1>1, <4>1 DEF Base, Typed
    <3> QED BY <3>1, <3>3, <3>4, ReadKeepsGuard DEF Continue, PC
  <2>3. CASE ReadActor(r)
    <3> DEFINE k == IF l.actor = Machine THEN Top ELSE rank[role[l.actor]]
               m == [l EXCEPT !.arank = k]
    <3>1. Continue(r, AfterActor[l.op], m) /\ pc[r] = "actor"
      BY <1>5, <2>3 DEF ReadActor
    <3>2. m.op = l.op /\ m.user = l.user /\ m.cur = l.cur
      BY <1>0 DEF Request
    <3> HIDE DEF m
    <3>3. AfterActor[l.op] \in PC /\ (l.op \in Edits => AfterActor[l.op] = "target")
      BY <1>0 DEF AfterActor, Edits, Op, PC
    <3>4. r \notin stale => Fresh(AfterActor[l.op], m)
      BY <1>0, <3>1, <3>2, <3>3 DEF Fresh
    <3>5. m \in Request
      <4>1. loc'[r] = m
        BY <3>1 DEF Base, Typed, Continue
      <4> QED BY <1>1, <4>1 DEF Base, Typed
    <3> QED BY <3>1, <3>3, <3>4, <3>5, ReadKeepsGuard DEF Continue
  \* The other reads keep what the request carries.
  <2>4. ASSUME NEW label \in PC, Continue(r, label, l), pc[r] \notin {"idle", "user"},
               label = "write" /\ l.op \in Edits /\ NeedsCount(l) => NotTheLast
        PROVE  Guarded'
    <3>1. r \notin stale => Fresh(label, l)
      BY <1>0, <2>4 DEF Fresh
    <3> QED BY <1>0, <2>4, <3>1, ReadKeepsGuard DEF Continue
  <2>5. CASE ReadPerms(r)
    <3>1. pc[r] = "perms" /\ Continue(r, IF l.op = "delete_role" THEN "in_use" ELSE "write", l)
      BY <1>5, <2>5 DEF ReadPerms
    <3>2. l.op \notin Edits
      BY <1>0, <3>1 DEF Shape
    <3> QED BY <2>4, <3>1, <3>2 DEF PC
  <2>6. CASE ReadTarget(r)
    <3>1. pc[r] = "target" /\ Continue(r, IF RoleChanges(l) THEN "assigned"
                                          ELSE IF NeedsCount(l) THEN "count" ELSE "write", l)
      BY <1>5, <2>6 DEF ReadTarget
    <3> QED BY <2>4, <3>1 DEF PC
  <2>7. CASE ReadAssigned(r)
    <3>1. pc[r] = "assigned" /\ Continue(r, IF NeedsCount(l) THEN "count" ELSE "write", l)
      BY <1>5, <2>7 DEF ReadAssigned
    <3> QED BY <2>4, <3>1 DEF PC
  <2>8. CASE CountAdmins(r)
    <3>1. pc[r] = "count" /\ NotTheLast /\ Continue(r, "write", l)
      BY <1>5, <2>8 DEF CountAdmins
    <3> QED BY <2>4, <3>1 DEF PC
  <2>9. CASE CountHolders(r)
    <3>1. pc[r] = "in_use" /\ Continue(r, "write", l)
      BY <1>5, <2>9 DEF CountHolders
    <3>2. l.op \notin Edits
      BY <1>0, <3>1 DEF Shape
    <3> QED BY <2>4, <3>1, <3>2 DEF PC
  <2> QED BY <2>1, <2>2, <2>3, <2>5, <2>6, <2>7, <2>8, <2>9 DEF Read
<1> QED BY <1>4, <1>5

\* A write takes at most one superadmin away, and that one only after a count.
LEMMA WritesKeepGuard ==
    ASSUME Founded, Base, Guarded, NEW r \in Req, Write(r)
    PROVE  Guarded'
<1> DEFINE l == loc[r]
           S == ActiveSuperAdmins
<1>0. /\ l \in Request /\ Shape(pc[r], l)
      /\ status \in [User -> Status] /\ role \in [User -> Roles]
  BY DEF Base, Typed, Shapes, Kept, NoDanglingRole
<1>1. r \notin stale /\ l.op \in Edits /\ pc[r] = "write" =>
         /\ l.user \in S => l.cur = [role |-> "superadmin", status |-> "active"]
         /\ NeedsCount(l) => NotTheLast
  BY DEF Fresh, Guarded
<1>2. ASSUME NEW u, u = l.user, Finish(r),
             \A w \in User \ {u} : role'[w] = role[w] /\ status'[w] = status[w],
             r \notin stale /\ u \in S \ S' => NotTheLast
      PROVE  Guarded'
  <2>1. S \subseteq S' \cup {u}
    BY <1>2 DEF ActiveSuperAdmins
  <2> QED BY <1>2, <2>1, FinishKeepsGuard
<1>3. CASE WriteCreateUser(r)
  <2>1. Finish(r) /\ l.user \in User
    BY <1>0, <1>3 DEF WriteCreateUser, At, Shape
  <2>2. \A u \in S : role'[u] = role[u] /\ status'[u] = status[u]
    BY <1>0, <1>3, <2>1 DEF WriteCreateUser, ActiveSuperAdmins
  <2>3. S \subseteq S'
    BY <2>2 DEF ActiveSuperAdmins
  <2> QED BY <2>1, <2>3, FinishKeepsGuard
<1>4. CASE WriteUpdateUser(r)
  <2>1. Finish(r) /\ l.op \in Edits /\ l.op = "update_user" /\ pc[r] = "write"
    BY <1>4 DEF WriteUpdateUser, At, Edits
  <2>2. \A u \in User \ {l.user} : role'[u] = role[u] /\ status'[u] = status[u]
    BY <1>0, <1>4 DEF WriteUpdateUser
  <2>3. ASSUME r \notin stale, l.user \in S \ S', ~NeedsCount(l)
        PROVE  FALSE
    <3>1. ~RoleChanges(l) /\ ~LosesActive(l) /\ l.cur.role = "superadmin" /\ l.cur.status = "active"
      BY <1>1, <2>1, <2>3 DEF NeedsCount
    <3>2. l.name \in {None, "superadmin"} /\ l.st \in {None, "active"}
      BY <3>1 DEF RoleChanges, LosesActive
    <3>3. role[l.user] = "superadmin" /\ status[l.user] = "active" /\ l.user \in User
      BY <2>3 DEF ActiveSuperAdmins
    <3>4. role'[l.user] = "superadmin" /\ status'[l.user] = "active"
      BY <1>0, <1>4, <3>2, <3>3 DEF WriteUpdateUser
    <3> QED BY <2>3, <3>3, <3>4 DEF ActiveSuperAdmins
  <2>4. r \notin stale /\ l.user \in S \ S' => NotTheLast
    BY <1>1, <2>1, <2>3
  <2> QED BY <1>2, <2>1, <2>2, <2>4
<1>5. CASE WriteDeleteUser(r)
  <2>1. Finish(r) /\ l.op = "delete_user" /\ l.op \in Edits /\ pc[r] = "write"
    BY <1>5 DEF WriteDeleteUser, At, Edits
  <2>2. \A u \in User \ {l.user} : role'[u] = role[u] /\ status'[u] = status[u]
    BY <1>0, <1>5 DEF WriteDeleteUser
  <2>3. r \notin stale /\ l.user \in S => NotTheLast
    BY <1>1, <2>1 DEF NeedsCount
  <2> QED BY <1>2, <2>1, <2>2, <2>3
<1>6. CASE WriteReplaceAccess(r) \/ WriteFails(r)
  BY <1>6, RefuseKeepsGuard DEF WriteReplaceAccess, WriteFails
<1>7. CASE WriteCreateRole(r) \/ WriteUpdateRole(r) \/ WriteDeleteRole(r)
  <2>1. Finish(r) /\ UNCHANGED <<status, role>>
    BY <1>7 DEF WriteCreateRole, WriteUpdateRole, WriteDeleteRole
  <2>2. S' = S
    BY <2>1 DEF ActiveSuperAdmins
  <2> QED BY <2>1, <2>2, FinishKeepsGuard
<1> QED BY <1>3, <1>4, <1>5, <1>6, <1>7 DEF Write

\* The database starts with a superadmin and no request.
LEMMA InitGuarded ==
    ASSUME Founded, Init
    PROVE  Guarded
<1>1. PICK u \in User : RoleOf[u] = "superadmin"
  BY DEF Founded
<1>2. u \in ActiveSuperAdmins
  <2>1. RoleOf[u] # None
    BY <1>1, NoneIsNothing DEF Name, System
  <2> QED BY <1>1, <2>1 DEF Init, ActiveSuperAdmins
<1>3. IsFiniteSet(ActiveSuperAdmins)
  BY FS_Subset DEF ActiveSuperAdmins, Founded
<1>4. Cardinality(ActiveSuperAdmins) \in Nat /\ Cardinality(ActiveSuperAdmins) # 0
  BY <1>2, <1>3, FS_CardinalityType, FS_EmptySet
<1>5. CountActiveSuperAdmins > 0
  BY <1>4 DEF CountActiveSuperAdmins
<1> QED BY <1>5 DEF Init, Guarded, Fresh

\* Every step keeps it.
LEMMA NextGuarded ==
    ASSUME Founded, Base, Guarded, [Next]_vars
    PROVE  Guarded'
<1>1. CASE Next
  BY <1>1, ArriveKeepsGuard, ReadsKeepGuard, WritesKeepGuard DEF Next
<1>2. CASE UNCHANGED vars
  BY <1>2 DEF vars, Guarded, Fresh, NotTheLast, CountActiveSuperAdmins, ActiveSuperAdmins
<1> QED BY <1>1, <1>2

\* LastSuperadminStays, for any number of accounts, roles and requests at once: the
\* checks of the update and delete handlers let the last active superadmin go only
\* where another request wrote between the count, or the read of the row, and the
\* write.
THEOREM LockOutTakesARace ==
    ASSUME Founded
    PROVE  Spec => []LastSuperadminStays
<1>1. Init => Guarded
  BY InitGuarded
<1>2. Base /\ Guarded /\ [Next]_vars => Guarded'
  BY NextGuarded
<1>3. Guarded => LastSuperadminStays
  BY DEF Guarded, LastSuperadminStays
<1> QED BY <1>1, <1>2, <1>3, InitBase, NextBase, PTL DEF Spec
=============================================================================
