------------------------------ MODULE Bootstrap -----------------------------
(***************************************************************************)
(* How instances of goauth start against one database: create it, apply    *)
(* the schema under an advisory lock, seed the floor of roles, create the  *)
(* first administrator, open the listeners.  Several instances start,      *)
(* fail and restart at any time, and operators change roles and accounts   *)
(* through those that already serve.                                       *)
(*                                                                         *)
(* One action is one SQL statement.  The schema file is one batch of the   *)
(* simple query protocol, which PostgreSQL runs as one transaction.  Every *)
(* setting (auto_create, auto_schema, seed.username) is asked for once in  *)
(* a boot, and may differ from one boot to the next.                       *)
(***************************************************************************)
EXTENDS Naturals, Sequences

CONSTANTS
    Inst,        \* instances
    Builtin,     \* domain.DefaultRoles in order: [name, rank, perms]
    Configured,  \* seed.roles without is_system, which makes a role like a built-in one
    Spare,       \* names of roles that only operators create
    MaxRank,     \* bound: ranks of custom roles are 1..MaxRank
    Perm,        \* permissions
    Attempts,    \* createAttempts
    MaxOthers,   \* bound: active superadmins besides the configured name
    None         \* nobody

Seeds == Builtin \o Configured
RoleSet(s) == {s[k] : k \in DOMAIN s}
Names(s) == {r.name : r \in RoleSet(s)}
Name == Names(Seeds) \cup Spare
Floor(n) == CHOOSE r \in RoleSet(Seeds) : r.name = n

ASSUME SeedsAreRoles ==
    /\ Builtin # << >>
    /\ {Builtin, Configured} \subseteq Seq([name: Name, rank: Nat, perms: SUBSET Perm])
    /\ \A j, k \in DOMAIN Seeds : Seeds[j].name = Seeds[k].name => j = k
    /\ \A r \in RoleSet(Configured) : r.rank \in 1..MaxRank
    /\ Spare \cap Names(Seeds) = {}
ASSUME SizesAreNaturals == MaxRank \in Nat /\ Attempts \in Nat \ {0} /\ MaxOthers \in Nat
ASSUME NoneIsNoInstance == None \notin Inst /\ "present" \notin Inst \cup {None}

VARIABLES
    db,       \* None, the instance that is creating the database, or "present"
    schema,   \* whether the tables exist
    lock,     \* who holds the advisory lock
    roles,    \* ga_roles with ga_role_permissions, by name
    named,    \* the account with the configured name: "absent", "admin" or "plain"
    others,   \* other active superadmins
    pc,       \* where each instance is
    tries,    \* its attempts to create the database
    at,       \* its position in Seeds
    todo,     \* the permissions it has yet to insert
    torn,     \* history: built-in roles whose seeding was cut short
    edited    \* history: configured roles as operators left them

vars == <<db, schema, lock, roles, named, others, pc, tries, at, todo, torn, edited>>
shared == <<db, schema, lock, roles, named, others>>
locals == <<tries, at, todo>>
history == <<torn, edited>>

PC == {"down", "open", "create", "creating", "exists", "reopen", "lock", "apply", "unlock",
       "roles", "perms", "count", "admin", "serving"}

TypeOK ==
    /\ db \in Inst \cup {None, "present"}
    /\ schema \in BOOLEAN /\ (schema => db = "present")
    /\ lock \in Inst \cup {None}
    /\ DOMAIN roles \subseteq Name
    /\ roles \in [DOMAIN roles -> [rank: Nat, perms: SUBSET Perm]]
    /\ named \in {"absent", "admin", "plain"} /\ others \in 0..MaxOthers
    /\ pc \in [Inst -> PC]
    /\ tries \in [Inst -> 0..(Attempts - 1)]
    /\ at \in [Inst -> 1..(Len(Seeds) + 1)]
    /\ todo \in [Inst -> SUBSET Perm]
    /\ torn \subseteq Name /\ edited \subseteq Name

\* An empty server, or one where the operator has made the database, or the
\* tables too.
Init ==
    /\ db \in {None, "present"} /\ schema \in {FALSE, db = "present"}
    /\ lock = None
    /\ roles = [n \in {} |-> n]
    /\ named = "absent" /\ others = 0
    /\ pc = [i \in Inst |-> "down"]
    /\ tries = [i \in Inst |-> 0]
    /\ at = [i \in Inst |-> 1]
    /\ todo = [i \in Inst |-> {}]
    /\ torn = {} /\ edited = {}

Goto(i, label) == pc' = [pc EXCEPT ![i] = label]

\* The role whose permissions an instance is inserting.
Making(i) == IF pc[i] = "perms" /\ todo[i] # {} THEN {Seeds[at[i]].name} ELSE {}

\* The process ends: what it had in memory is gone, its connections are closed,
\* which rolls back, releases the advisory lock, and keeps what was committed.
End(i) ==
    /\ Goto(i, "down")
    /\ tries' = [tries EXCEPT ![i] = 0]
    /\ at' = [at EXCEPT ![i] = 1]
    /\ todo' = [todo EXCEPT ![i] = {}]
    /\ db' = IF db = i THEN None ELSE db
    /\ lock' = IF lock = i THEN None ELSE lock
    /\ torn' = torn \cup (Making(i) \cap Names(Builtin))
    /\ UNCHANGED <<schema, roles, named, others, edited>>

-----------------------------------------------------------------------------
(* postgres.New *)

Start(i) ==
    /\ pc[i] = "down"
    /\ Goto(i, "open")
    /\ UNCHANGED <<shared, locals, history>>

\* Connected: the schema is next, unless auto_schema is off.
Connected(i) ==
    /\ db = "present"
    /\ \E label \in {"lock", "roles"} : Goto(i, label)
    /\ UNCHANGED <<shared, locals, history>>

Open(i) == pc[i] = "open" /\ Connected(i)

\* Only a missing database is created, and with auto_create only.
OpenMissing(i) ==
    /\ pc[i] = "open" /\ db # "present"
    /\ \/ Goto(i, "create") /\ UNCHANGED <<shared, locals, history>>
       \/ End(i)

\* CREATE DATABASE, which others do not see before it is done.
CreateBegin(i) ==
    /\ pc[i] = "create" /\ db = None
    /\ db' = i
    /\ Goto(i, "creating")
    /\ UNCHANGED <<schema, lock, roles, named, others, locals, history>>

CreateEnd(i) ==
    /\ pc[i] = "creating"
    /\ db' = "present"
    /\ Goto(i, "reopen")
    /\ UNCHANGED <<schema, lock, roles, named, others, locals, history>>

\* It fails at once or half-way: another instance creates the database, or has
\* created it, or something else was in the way and may not be the next time.
CreateFails(i) ==
    /\ pc[i] \in {"create", "creating"}
    /\ db' = IF db = i THEN None ELSE db
    /\ Goto(i, "exists")
    /\ UNCHANGED <<schema, lock, roles, named, others, locals, history>>

\* fault: one attempt too many
CheckExistsOnceMore(i) ==
    /\ pc[i] = "exists"
    /\ IF db = "present"
         THEN Goto(i, "reopen") /\ UNCHANGED <<shared, locals, history>>
         ELSE /\ tries[i] < Attempts
              /\ Goto(i, "create")
              /\ tries' = [tries EXCEPT ![i] = @ + 1]
              /\ UNCHANGED <<shared, at, todo, history>>

\* databaseExists decides; a missing database is worth another attempt.
CheckExists(i) ==
    /\ pc[i] = "exists"
    /\ IF db = "present"
         THEN Goto(i, "reopen") /\ UNCHANGED <<shared, locals, history>>
         ELSE IF tries[i] + 1 < Attempts
         THEN /\ Goto(i, "create")
              /\ tries' = [tries EXCEPT ![i] = @ + 1]
              /\ UNCHANGED <<shared, at, todo, history>>
         ELSE End(i)

Reopen(i) == pc[i] = "reopen" /\ Connected(i)

-----------------------------------------------------------------------------
(* Bootstrap.Run *)

LockIgnored(i) == TRUE   \* fault: the schema is applied without the lock
LockFree(i) == lock = None

\* dbschema.Ensure.
Lock(i) ==
    /\ pc[i] = "lock" /\ LockFree(i)
    /\ lock' = i
    /\ Goto(i, "apply")
    /\ UNCHANGED <<db, schema, roles, named, others, locals, history>>

Apply(i) ==
    /\ pc[i] = "apply"
    /\ schema' = TRUE
    /\ Goto(i, "unlock")
    /\ UNCHANGED <<db, lock, roles, named, others, locals, history>>

\* fault: the connection goes back to the pool still holding the lock
ReturnLocked(i) ==
    /\ pc[i] = "unlock"
    /\ Goto(i, "roles")
    /\ UNCHANGED <<shared, locals, history>>

Unlock(i) ==
    /\ pc[i] = "unlock"
    /\ lock' = None
    /\ Goto(i, "roles")
    /\ UNCHANGED <<db, schema, roles, named, others, locals, history>>

RankTaken(rk) == \E n \in DOMAIN roles : roles[n].rank = rk

\* fault: the first role that exists is taken for the whole floor
SeedOnce(i) ==
    LET r == Seeds[at[i]] IN
    /\ pc[i] = "roles" /\ at[i] <= Len(Seeds) /\ schema
    /\ IF r.name \in DOMAIN roles
         THEN at' = [at EXCEPT ![i] = Len(Seeds) + 1] /\ UNCHANGED <<roles, pc, todo>>
         ELSE /\ roles' = [n \in DOMAIN roles \cup {r.name} |->
                             IF n = r.name THEN [rank |-> r.rank, perms |-> {}] ELSE roles[n]]
              /\ Goto(i, "perms")
              /\ todo' = [todo EXCEPT ![i] = r.perms]
              /\ UNCHANGED at
    /\ UNCHANGED <<db, schema, lock, named, others, tries, history>>

\* fault: DO UPDATE
SeedOverwrites(i) ==
    LET r == Seeds[at[i]] IN
    /\ pc[i] = "roles" /\ at[i] <= Len(Seeds) /\ schema
    /\ roles' = [n \in DOMAIN roles \cup {r.name} |->
                   IF n = r.name THEN [rank |-> r.rank, perms |-> {}] ELSE roles[n]]
    /\ Goto(i, "perms")
    /\ todo' = [todo EXCEPT ![i] = r.perms]
    /\ UNCHANGED <<db, schema, lock, named, others, tries, at, history>>

\* INSERT ... ON CONFLICT (name) DO NOTHING: a role that exists is left alone, a
\* rank that another role has is an error and ends the boot.
SeedRole(i) ==
    LET r == Seeds[at[i]] IN
    /\ pc[i] = "roles" /\ at[i] <= Len(Seeds)
    /\ IF ~schema \/ (r.name \notin DOMAIN roles /\ RankTaken(r.rank))
         THEN End(i)
         ELSE /\ IF r.name \in DOMAIN roles
                   THEN /\ at' = [at EXCEPT ![i] = @ + 1]
                        /\ UNCHANGED <<roles, pc, todo>>
                   ELSE /\ roles' = [n \in DOMAIN roles \cup {r.name} |->
                                       IF n = r.name THEN [rank |-> r.rank, perms |-> {}]
                                       ELSE roles[n]]
                        /\ Goto(i, "perms")
                        /\ todo' = [todo EXCEPT ![i] = r.perms]
                        /\ UNCHANGED at
              /\ UNCHANGED <<db, schema, lock, named, others, tries, history>>

\* fault: an INSERT that fails is skipped
SeedPermissionLossy(i) ==
    /\ pc[i] = "perms"
    /\ \E p \in todo[i] : todo' = [todo EXCEPT ![i] = @ \ {p}]
    /\ UNCHANGED <<shared, pc, tries, at, history>>

\* One INSERT for each permission.  The role may be gone by then.
SeedPermission(i) ==
    LET n == Seeds[at[i]].name IN
    /\ pc[i] = "perms" /\ todo[i] # {}
    /\ IF n \notin DOMAIN roles
         THEN End(i)
         ELSE \E p \in todo[i] :
                /\ roles' = [roles EXCEPT ![n].perms = @ \cup {p}]
                /\ todo' = [todo EXCEPT ![i] = @ \ {p}]
                /\ UNCHANGED <<db, schema, lock, named, others, pc, tries, at, history>>

NextRole(i) ==
    /\ pc[i] = "perms" /\ todo[i] = {}
    /\ at' = [at EXCEPT ![i] = @ + 1]
    /\ Goto(i, "roles")
    /\ UNCHANGED <<shared, tries, todo, history>>

RolesDone(i) ==
    /\ pc[i] = "roles" /\ at[i] = Len(Seeds) + 1
    /\ Goto(i, "count")
    /\ UNCHANGED <<shared, locals, history>>

CountActiveSuperAdmins == others + IF named = "admin" THEN 1 ELSE 0

\* Listening: the boot is over, and nothing of it is remembered.
Listen(i) ==
    /\ Goto(i, "serving")
    /\ tries' = [tries EXCEPT ![i] = 0]
    /\ at' = [at EXCEPT ![i] = 1]

\* seed_super_admin is done when it is not configured, or somebody is there.
CountAdmins(i) ==
    /\ pc[i] = "count"
    /\ \/ CountActiveSuperAdmins = 0 /\ Goto(i, "admin") /\ UNCHANGED <<tries, at>>
       \/ Listen(i)
    /\ UNCHANGED <<shared, todo, history>>

\* The INSERT, whose unique violation counts as success.
CreateAdmin(i) ==
    /\ pc[i] = "admin"
    /\ named' = IF named = "absent" THEN "admin" ELSE named
    /\ Listen(i)
    /\ UNCHANGED <<db, schema, lock, roles, others, todo, history>>

\* A crash, an error of any statement, the 30 seconds of the boot run out, a
\* listener that cannot bind; or a shutdown of an instance that serves.
Stop(i) == pc[i] # "down" /\ End(i)

-----------------------------------------------------------------------------
(* Operators, through the instances that serve *)

Custom == Name \ Names(Builtin)

Operate == /\ \E i \in Inst : pc[i] = "serving"
           /\ UNCHANGED <<db, schema, lock, pc, locals, torn>>

\* admin_role_create and admin_role_update, one transaction each.
OperatorRole(n, rk, pm) ==
    /\ Operate
    /\ \A m \in DOMAIN roles \ {n} : roles[m].rank # rk
    /\ roles' = [m \in DOMAIN roles \cup {n} |->
                   IF m = n THEN [rank |-> rk, perms |-> pm] ELSE roles[m]]
    /\ edited' = edited \cup ({n} \cap Names(Configured))
    /\ UNCHANGED <<named, others>>

OperatorDeleteRole(n) ==
    /\ Operate
    /\ n \in DOMAIN roles
    /\ roles' = [m \in DOMAIN roles \ {n} |-> roles[m]]
    /\ edited' = edited \ {n}
    /\ UNCHANGED <<named, others>>

\* Accounts come and go, are promoted, demoted and blocked.  Two requests at once
\* can remove the last administrator (Admin).
OperatorAccounts ==
    /\ Operate
    /\ \/ named' \in {"absent", "plain", "admin"} /\ UNCHANGED others
       \/ others' \in 0..MaxOthers /\ UNCHANGED named
    /\ UNCHANGED <<roles, edited>>

\* The first administrator takes another name.
OperatorRename ==
    /\ Operate
    /\ named = "admin" /\ others < MaxOthers
    /\ named' = "absent" /\ others' = others + 1
    /\ UNCHANGED <<roles, edited>>

-----------------------------------------------------------------------------

Boot(i) == \/ Open(i) \/ OpenMissing(i) \/ CreateBegin(i) \/ CreateEnd(i) \/ CreateFails(i) \/ CheckExists(i)
           \/ Reopen(i) \/ Lock(i) \/ Apply(i) \/ Unlock(i)
           \/ SeedRole(i) \/ SeedPermission(i) \/ NextRole(i) \/ RolesDone(i)
           \/ CountAdmins(i) \/ CreateAdmin(i)

\* What a role that is never seeded permits makes no difference here.
Operator == \/ \E n \in Names(Configured), rk \in 1..MaxRank, pm \in SUBSET Perm :
                    OperatorRole(n, rk, pm)
            \/ \E n \in Spare, rk \in 1..MaxRank : OperatorRole(n, rk, {})
            \/ \E n \in Custom : OperatorDeleteRole(n)
            \/ OperatorAccounts \/ OperatorRename

Next == \/ \E i \in Inst : Start(i) \/ Boot(i) \/ Stop(i)
        \/ Operator

Spec == Init /\ [][Next]_vars

\* A booting process goes on; PostgreSQL serves the waiters for an advisory lock
\* in their order.
FairSpec == Spec /\ \A i \in Inst : WF_vars(Boot(i)) /\ SF_vars(Lock(i))
-----------------------------------------------------------------------------
(* Properties *)

\* schemaLockKey "guards the apply against concurrent replicas": two instances
\* never run the schema file at the same time, whatever crashes or restarts.
OneApplier == \A i, j \in Inst : pc[i] = "apply" /\ pc[j] = "apply" => i = j

\* "Roles before users": an instance that looks for administrators or answers
\* requests finds every built-in role, also when others were seeding, or failed.
FloorBeforeTraffic ==
    \A i \in Inst : pc[i] \in {"count", "admin", "serving"} => Names(Builtin) \subseteq DOMAIN roles

\* SeedRole inserts a role and its permissions in separate statements: a
\* built-in role lacks permissions only while the one instance that inserted it
\* has them still to do, or after that instance was cut short.
FloorComplete ==
    \A n \in Names(Builtin) \cap DOMAIN roles :
        \/ n \in torn
        \/ roles[n].perms = Floor(n).perms
        \/ \E i \in Inst : n \in Making(i) /\ roles[n].perms = Floor(n).perms \ todo[i]

\* "Never overwrites": a step of a boot leaves a role that operators have set as
\* it is, unless that very role is still being seeded.
RuntimeChangesStand ==
    [][\A n \in edited :
          \/ UNCHANGED <<pc, locals>>
          \/ \E i \in Inst : n \in Making(i)
          \/ n \in DOMAIN roles' /\ roles'[n] = roles[n]]_vars

\* A boot comes to an end: no instance waits for ever for the advisory lock, for
\* another one's CREATE DATABASE or in a retry.
BootEnds == \A i \in Inst : pc[i] # "down" ~> pc[i] \in {"serving", "down"}
=============================================================================
