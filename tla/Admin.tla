------------------------------- MODULE Admin --------------------------------
(***************************************************************************)
(* The administration hierarchy of goauth: accounts with one role each,    *)
(* roles with a rank and permissions, and the admin requests that change   *)
(* them.  A request authorises itself by a series of separate reads (the   *)
(* target, the actor's rank, the actor's permissions, the ranks involved,  *)
(* the number of superadmins) and then issues one write that repeats none  *)
(* of those checks.  Requests of several administrators interleave between *)
(* any two of these statements.                                            *)
(*                                                                         *)
(* The scopes for accounts, their passwords and their sessions are one     *)
(* permission, "users"; roles:manage is "roles".  Ranks keep their order   *)
(* and their two reserved ends, 0 and Top.                                 *)
(***************************************************************************)
EXTENDS Naturals, FiniteSets

CONSTANTS
    User,       \* accounts
    Machine,    \* the caller with the static token, who is no account
    Actor,      \* who sends requests: accounts, or Machine
    Req,        \* slots for concurrent requests
    Custom,     \* names of custom roles
    None,       \* a field that was not supplied
    Top,        \* RankSuperAdmin
    RoleOf,     \* the role each account starts with, None for no account
    RankOf,     \* rank of each role that exists at the start
    PermsOf     \* permissions of each role that exists at the start

Perm == {"users", "roles"}
System == {"user", "admin", "superadmin"}   \* seeded, protected from edits
Name == System \cup Custom

ASSUME ActorsAreKnown == Machine \notin User /\ Actor \subseteq User \cup {Machine}
ASSUME TopIsPositive == Top \in Nat \ {0}
ASSUME NoneIsNothing ==
    /\ None \notin User \cup Name \cup {Machine} /\ None \notin 0..Top
    /\ \A S \in SUBSET Perm : None # S
ASSUME SeededRoles ==
    /\ System \subseteq DOMAIN RankOf /\ DOMAIN RankOf \subseteq Name
    /\ RankOf \in [DOMAIN RankOf -> 0..Top] /\ PermsOf \in [DOMAIN RankOf -> SUBSET Perm]
    /\ RankOf["user"] = 0 /\ RankOf["superadmin"] = Top
    /\ PermsOf["superadmin"] = Perm
    /\ \A n \in DOMAIN RankOf \ {"user", "superadmin"} : RankOf[n] \in 1..(Top - 1)
    /\ \A m, n \in DOMAIN RankOf : RankOf[m] = RankOf[n] => m = n
    /\ \A u \in User : RoleOf[u] \in DOMAIN RankOf \cup {None}

VARIABLES
    status,   \* ga_users.status, "absent" before the row is inserted
    role,     \* ga_users.role
    rank,     \* ga_roles.rank, by name
    perms,    \* ga_role_permissions, by name
    pc,       \* where each request is
    loc,      \* what each request asks for and has read so far
    stale,    \* history: requests whose count, or whose account's row, was outdated
              \* by the write of another
    raced     \* history: a request took a superadmin away on such a count or row

vars == <<status, role, rank, perms, pc, loc, stale, raced>>
tables == <<status, role, rank, perms>>
history == <<stale, raced>>

Roles == DOMAIN rank
Status == {"absent", "active", "blocked", "deleted"}

Op == {"create_user", "update_user", "delete_user", "replace_access",
       "create_role", "update_role", "delete_role"}

PC == {"idle", "user", "role", "actor", "perms", "target", "assigned", "count", "in_use", "write"}

Request == [op: Op, actor: User \cup {Machine},
            user: User \cup {None},           \* the account it is about
            name: Name \cup {None},           \* the role it is about, or assigns
            st: Status \cup {None},           \* the status it sets
            rk: (0..Top) \cup {None},         \* the rank it gives a role
            pm: (SUBSET Perm) \cup {None},    \* the permissions it gives a role
            cur: [role: Name, status: Status],  \* the user row it read
            trank: 0..Top,                    \* the rank of the role it read
            arank: 0..Top]                    \* the actor's rank it read

NoRequest == [op |-> "update_user", actor |-> Machine, user |-> None, name |-> None, st |-> None,
              rk |-> None, pm |-> None,
              cur |-> [role |-> "user", status |-> "absent"],
              trank |-> 0, arank |-> 0]

TypeOK ==
    /\ status \in [User -> Status]
    /\ role \in [User -> Name]
    /\ Roles \subseteq Name /\ rank \in [Roles -> 0..Top] /\ perms \in [Roles -> SUBSET Perm]
    /\ pc \in [Req -> PC]
    /\ loc \in [Req -> Request]
    /\ stale \subseteq Req /\ raced \in BOOLEAN

Init ==
    /\ status = [u \in User |-> IF RoleOf[u] = None THEN "absent" ELSE "active"]
    /\ role = [u \in User |-> IF RoleOf[u] = None THEN "user" ELSE RoleOf[u]]
    /\ rank = RankOf
    /\ perms = PermsOf
    /\ pc = [r \in Req |-> "idle"]
    /\ loc = [r \in Req |-> NoRequest]
    /\ stale = {} /\ raced = FALSE

-----------------------------------------------------------------------------
(* The rules *)

EqualIsEnough(arank, trank) == arank >= trank   \* fault: peers may act on each other
CanManage(arank, trank) == arank >= Top \/ arank > trank

ValidCustomRank(rk) == rk \in 1..(Top - 1)

GrantAnything(held, granted) == TRUE   \* fault: the grants are not compared
HoldsAll(held, granted) == granted \subseteq held

ActiveSuperAdmins == {u \in User : role[u] = "superadmin" /\ status[u] = "active"}
CountActiveSuperAdmins == Cardinality(ActiveSuperAdmins)

TwoAreEnough == CountActiveSuperAdmins >= 1   \* fault: off by one
NotTheLast == CountActiveSuperAdmins > 1

\* RequireScope on the public listener re-reads the actor's row; the machine
\* caller holds every scope.
HasScope(a, p) == a # Machine => (status[a] = "active" /\ p \in perms[role[a]])

Goto(r, label) == pc' = [pc EXCEPT ![r] = label]
Start(r, label, l) ==
    /\ pc[r] = "idle"
    /\ Goto(r, label)
    /\ loc' = [loc EXCEPT ![r] = l]
    /\ UNCHANGED <<tables, history>>

\* A step that reads, and goes on at a label that depends on what it read.
Continue(r, label, l) ==
    Goto(r, label) /\ loc' = [loc EXCEPT ![r] = l] /\ UNCHANGED <<tables, history>>

\* The step takes a superadmin away from a request that is about to write, or
\* makes one of the account whose row the request has read.
Outdated(q) ==
    \/ pc[q] = "write" /\ ~(ActiveSuperAdmins \subseteq ActiveSuperAdmins')
    \/ pc[q] \notin {"idle", "user"} /\ loc[q].user \in ActiveSuperAdmins' \ ActiveSuperAdmins

\* The request ends, with a write or without.
Finish(r) ==
    /\ Goto(r, "idle") /\ loc' = [loc EXCEPT ![r] = NoRequest]
    /\ stale' = (stale \cup {q \in Req : Outdated(q)}) \ {r}
    /\ raced' = (raced \/ (r \in stale /\ ~(ActiveSuperAdmins \subseteq ActiveSuperAdmins')))

Refuse(r) == UNCHANGED tables /\ Finish(r)

-----------------------------------------------------------------------------
(* Requests arrive *)

CreateUser(r, a, u, n, st) ==
    /\ HasScope(a, "users") /\ status[u] = "absent"
    /\ Start(r, "role", [NoRequest EXCEPT !.op = "create_user", !.actor = a, !.user = u,
                                          !.name = n, !.st = st])

\* At least one of role and status is supplied.
UpdateUser(r, a, u, n, st) ==
    /\ HasScope(a, "users") /\ status[u] # "absent" /\ ~(n = None /\ st = None)
    /\ Start(r, "user", [NoRequest EXCEPT !.op = "update_user", !.actor = a, !.user = u,
                                          !.name = n, !.st = st])

DeleteUser(r, a, u) ==
    /\ HasScope(a, "users") /\ status[u] # "absent"
    /\ Start(r, "user", [NoRequest EXCEPT !.op = "delete_user", !.actor = a, !.user = u])

\* A new password for the account, or the end of its sessions: the two requests
\* authorise themselves alike.
ReplaceAccess(r, a, u) ==
    /\ HasScope(a, "users") /\ status[u] # "absent"
    /\ Start(r, "user", [NoRequest EXCEPT !.op = "replace_access", !.actor = a, !.user = u])

\* Names of seeded roles are reserved.
CreateRole(r, a, n, rk, pm) ==
    /\ HasScope(a, "roles") /\ n \in Custom /\ ValidCustomRank(rk)
    /\ Start(r, "actor", [NoRequest EXCEPT !.op = "create_role", !.actor = a, !.name = n,
                                           !.rk = rk, !.pm = pm])

\* At least one of rank and permissions is supplied.
UpdateRole(r, a, n, rk, pm) ==
    /\ HasScope(a, "roles") /\ ~(rk = None /\ pm = None)
    /\ rk # None => ValidCustomRank(rk)
    /\ Start(r, "role", [NoRequest EXCEPT !.op = "update_role", !.actor = a, !.name = n,
                                          !.rk = rk, !.pm = pm])

DeleteRole(r, a, n) ==
    /\ HasScope(a, "roles")
    /\ Start(r, "role", [NoRequest EXCEPT !.op = "delete_role", !.actor = a, !.name = n])

-----------------------------------------------------------------------------
(* Reads and checks *)

\* GetUserByID.  Deleting an account that is already deleted changes nothing,
\* deleting one's own is refused.
ReadUser(r) ==
    LET l == loc[r] IN
    /\ pc[r] = "user"
    /\ IF l.op = "delete_user" /\ (status[l.user] = "deleted" \/ l.user = l.actor)
         THEN Refuse(r)
         ELSE Continue(r, "actor",
                 [l EXCEPT !.cur = [role |-> role[l.user], status |-> status[l.user]]])

\* GetRole of the role a request is about; system roles are protected from
\* edits, not from being assigned.
ReadRole(r) ==
    LET l == loc[r] IN
    /\ pc[r] = "role"
    /\ IF l.name \notin Roles \/ (l.op # "create_user" /\ l.name \in System)
         THEN Refuse(r)
         ELSE Continue(r, "actor", [l EXCEPT !.trank = rank[l.name]])

RoleChanges(l) == l.name # None /\ l.name # l.cur.role

AfterActor == [create_user |-> "write", update_user |-> "target", delete_user |-> "target",
               replace_access |-> "target",
               create_role |-> "perms", update_role |-> "perms", delete_role |-> "perms"]

\* Guard.Actor, first query: the rank of an account that is still active.
\* Changing one's own role is refused, and so is a new account in a role that
\* is not below the actor.
ReadActor(r) ==
    LET l == loc[r]
        k == IF l.actor = Machine THEN Top ELSE rank[role[l.actor]]
        refused == \/ l.actor # Machine /\ status[l.actor] # "active"
                   \/ l.op = "update_user" /\ RoleChanges(l) /\ l.user = l.actor
                   \/ l.op = "create_user" /\ ~CanManage(k, l.trank) IN
    /\ pc[r] = "actor"
    /\ IF refused THEN Refuse(r)
       ELSE Continue(r, AfterActor[l.op], [l EXCEPT !.arank = k])

\* Guard.Actor, second query, and the rules for editing roles.
ReadPerms(r) ==
    LET l == loc[r]
        held == IF l.actor = Machine THEN Perm ELSE perms[role[l.actor]]
        allowed == /\ l.op # "create_role" => CanManage(l.arank, l.trank)
                   /\ l.rk # None => CanManage(l.arank, l.rk)
                   /\ l.pm # None => HoldsAll(held, l.pm) IN
    /\ pc[r] = "perms"
    /\ IF allowed THEN Continue(r, IF l.op = "delete_role" THEN "in_use" ELSE "write", l)
       ELSE Refuse(r)

LosesActive(l) == l.cur.status = "active" /\ (l.op = "delete_user" \/ l.st \notin {None, "active"})

\* The last-superadmin guard applies to an active superadmin who would stop
\* being one.
NeedsCount(l) ==
    /\ l.cur = [role |-> "superadmin", status |-> "active"]
    /\ l.op = "delete_user" \/ RoleChanges(l) \/ LosesActive(l)

\* The target's rank is below the actor's.
ReadTarget(r) ==
    LET l == loc[r] IN
    /\ pc[r] = "target"
    /\ IF l.cur.role \notin Roles \/ ~CanManage(l.arank, rank[l.cur.role])
         THEN Refuse(r)
         ELSE Continue(r, IF RoleChanges(l) THEN "assigned"
                          ELSE IF NeedsCount(l) THEN "count" ELSE "write", l)

\* The role to be assigned exists and is below the actor's.
ReadAssigned(r) ==
    LET l == loc[r] IN
    /\ pc[r] = "assigned"
    /\ IF l.name \notin Roles \/ ~CanManage(l.arank, rank[l.name])
         THEN Refuse(r)
         ELSE Continue(r, IF NeedsCount(l) THEN "count" ELSE "write", l)

CountAdmins(r) ==
    /\ pc[r] = "count"
    /\ IF NotTheLast THEN Continue(r, "write", loc[r]) ELSE Refuse(r)

\* CountUsersWithRole.
CountHolders(r) ==
    /\ pc[r] = "in_use"
    /\ IF \E u \in User : status[u] # "absent" /\ role[u] = loc[r].name
         THEN Refuse(r) ELSE Continue(r, "write", loc[r])

-----------------------------------------------------------------------------
(* Writes *)

At(r, op) == pc[r] = "write" /\ loc[r].op = op

\* Unique identifiers and the foreign key to ga_roles may refuse the INSERT.
WriteCreateUser(r) ==
    LET l == loc[r] IN
    /\ At(r, "create_user")
    /\ IF status[l.user] = "absent" /\ l.name \in Roles
         THEN /\ status' = [status EXCEPT ![l.user] = l.st]
              /\ role' = [role EXCEPT ![l.user] = l.name]
         ELSE UNCHANGED <<status, role>>
    /\ Finish(r)
    /\ UNCHANGED <<rank, perms>>

\* UpdateUser: every supplied field is written, also a role that equalled the
\* one read.  The request may carry identifiers too; a deleted account has none
\* left, so ga_users_identifier_present lets it change status only with one.
WriteUpdateUser(r) ==
    LET l == loc[r] IN
    /\ At(r, "update_user")
    /\ IF l.name \in Roles \cup {None}
         THEN /\ status' = [status EXCEPT ![l.user] = IF l.st = None THEN @ ELSE l.st]
              /\ role' = [role EXCEPT ![l.user] = IF l.name = None THEN @ ELSE l.name]
         ELSE UNCHANGED <<status, role>>
    /\ Finish(r)
    /\ UNCHANGED <<rank, perms>>

\* fault: the role is cleared like the identifiers
DeleteClearsRole(r) ==
    LET l == loc[r] IN
    /\ At(r, "delete_user")
    /\ status' = [status EXCEPT ![l.user] = "deleted"]
    /\ role' = [role EXCEPT ![l.user] = None]
    /\ Finish(r)
    /\ UNCHANGED <<rank, perms>>

\* SoftDeleteUser.
WriteDeleteUser(r) ==
    LET l == loc[r] IN
    /\ At(r, "delete_user")
    /\ status' = [status EXCEPT ![l.user] = "deleted"]
    /\ role' = [role EXCEPT ![l.user] = "user"]
    /\ Finish(r)
    /\ UNCHANGED <<rank, perms>>

\* SetPasswordAndRevokeSessions or DeleteUserSessions, whose tables are those of
\* Sessions.
WriteReplaceAccess(r) == At(r, "replace_access") /\ Refuse(r)

RankTaken(n, rk) == \E m \in Roles \ {n} : rank[m] = rk

\* Name and rank are unique in ga_roles.
WriteCreateRole(r) ==
    LET l == loc[r] IN
    /\ At(r, "create_role")
    /\ IF l.name \notin Roles /\ ~RankTaken(l.name, l.rk)
         THEN /\ rank' = [n \in Roles \cup {l.name} |-> IF n = l.name THEN l.rk ELSE rank[n]]
              /\ perms' = [n \in Roles \cup {l.name} |-> IF n = l.name THEN l.pm ELSE perms[n]]
         ELSE UNCHANGED <<rank, perms>>
    /\ UNCHANGED <<status, role>>
    /\ Finish(r)

WriteUpdateRole(r) ==
    LET l == loc[r] IN
    /\ At(r, "update_role")
    /\ IF l.name \in Roles /\ (l.rk # None => ~RankTaken(l.name, l.rk))
         THEN /\ rank' = [rank EXCEPT ![l.name] = IF l.rk = None THEN @ ELSE l.rk]
              /\ perms' = [perms EXCEPT ![l.name] = IF l.pm = None THEN @ ELSE l.pm]
         ELSE UNCHANGED <<rank, perms>>
    /\ UNCHANGED <<status, role>>
    /\ Finish(r)

Unreferenced(n) == \A u \in User : role[u] # n

\* The foreign key refuses the DELETE of a role that was assigned meanwhile.
WriteDeleteRole(r) ==
    LET n == loc[r].name IN
    /\ At(r, "delete_role")
    /\ IF Unreferenced(n)
         THEN /\ rank' = [m \in Roles \ {n} |-> rank[m]]
              /\ perms' = [m \in Roles \ {n} |-> perms[m]]
         ELSE UNCHANGED <<rank, perms>>
    /\ UNCHANGED <<status, role>>
    /\ Finish(r)

\* A constraint on columns left out here (identifiers, the one that a change of
\* status needs), or a lost connection: the transaction is rolled back.
WriteFails(r) == pc[r] = "write" /\ Refuse(r)

-----------------------------------------------------------------------------

Arrive(r, a) ==
    /\ pc[r] = "idle"
    /\ \/ \E u \in User :
            \/ \E n \in Roles, st \in {"active", "blocked"} : CreateUser(r, a, u, n, st)
            \/ \E n \in Roles \cup {None}, st \in {"active", "blocked", None} :
                    UpdateUser(r, a, u, n, st)
            \/ DeleteUser(r, a, u)
            \/ ReplaceAccess(r, a, u)
       \/ \E n \in Custom, rk \in 1..(Top - 1), pm \in SUBSET Perm : CreateRole(r, a, n, rk, pm)
       \/ \E n \in Name, rk \in 1..(Top - 1) \cup {None}, pm \in (SUBSET Perm) \cup {None} :
                UpdateRole(r, a, n, rk, pm)
       \/ \E n \in Name : DeleteRole(r, a, n)

Read(r) == ReadUser(r) \/ ReadRole(r) \/ ReadActor(r) \/ ReadPerms(r) \/ ReadTarget(r)
           \/ ReadAssigned(r) \/ CountAdmins(r) \/ CountHolders(r)

Write(r) == WriteCreateUser(r) \/ WriteUpdateUser(r) \/ WriteDeleteUser(r)
            \/ WriteReplaceAccess(r) \/ WriteCreateRole(r) \/ WriteUpdateRole(r) \/ WriteDeleteRole(r)
            \/ WriteFails(r)

Next == \E r \in Req : (\E a \in Actor : Arrive(r, a)) \/ Read(r) \/ Write(r)

Spec == Init /\ [][Next]_vars
-----------------------------------------------------------------------------
(* Properties *)

\* ErrLastAdmin keeps "an installation from being locked out of its own admin
\* surface", for requests that interleave in any way but two: an active superadmin
\* remains unless a request took one away although another had done so since its
\* count, or had made a superadmin of its account since the row was read.
LastSuperadminStays == ~raced => CountActiveSuperAdmins > 0

\* Roles that start at or above every actor (one yet to be created has no role).
Beyond ==
    {n \in DOMAIN RankOf :
        \A a \in Actor \ {Machine} : RoleOf[a] # None => RankOf[RoleOf[a]] <= RankOf[n]}

\* CanManage, "the one rule the whole hierarchy reduces to": whatever the
\* administrators below the top do together, in any order and interleaving, a
\* role at or above the highest of them keeps its rank and its permissions, and
\* its holders stay as they are, with no new peer among them, their password
\* and their sessions out of reach of every request that passed its checks.
BeyondIsOutOfReach ==
    \A n \in Beyond :
        /\ n \in Roles /\ rank[n] = RankOf[n] /\ perms[n] = PermsOf[n]
        /\ {u \in User : role[u] = n} = {u \in User : RoleOf[u] = n}
        /\ \A u \in User : role[u] = n => status[u] = "active"
        /\ \A r \in Req : At(r, "replace_access") => role[loc[r].user] # n

\* HoldsAll, "you cannot grant a permission you do not hold yourself": without a
\* superadmin at work no role, and so no account, ever combines permissions that
\* no single role below the top had to begin with.
NoNewPowers ==
    \A n \in Roles \ {"superadmin"} :
        \E m \in DOMAIN PermsOf \ {"superadmin"} : perms[n] \subseteq PermsOf[m]
=============================================================================
