--------------------------- MODULE BootstrapProofs --------------------------
(***************************************************************************)
(* What Bootstrap promises, for any number of instances that start, fail   *)
(* and restart, any built-in and configured roles and any edits of the     *)
(* operators: the schema has one applier at a time, traffic finds every    *)
(* built-in role, a role lacks permissions only for a known reason, and    *)
(* seeding leaves the operators' roles alone.                              *)
(***************************************************************************)
EXTENDS Bootstrap, TLAPS

-----------------------------------------------------------------------------
(* The inductive invariant *)

\* Before the seeding an instance is at its first role.
Early == {"down", "open", "create", "creating", "exists", "reopen", "lock", "apply", "unlock"}

\* What an instance knows of where it is.
Placed(i) ==
    /\ pc[i] \in {"lock", "apply"} => db = "present"
    /\ pc[i] \in Early => at[i] = 1
    /\ pc[i] = "perms" => at[i] <= Len(Seeds) /\ todo[i] \subseteq Seeds[at[i]].perms

\* Of every instance.
Places == \A i \in Inst : Placed(i)

\* The advisory lock belongs to the one who applies the schema.
Locked == \A i \in Inst : pc[i] \in {"apply", "unlock"} => lock = i

\* An instance has seen or made the built-in role at k.
Passed(i, k) ==
    \/ pc[i] = "roles" /\ k < at[i]
    \/ pc[i] = "perms" /\ k <= at[i]
    \/ pc[i] \in {"count", "admin", "serving"}

\* Built-in roles that an instance has passed exist: nobody deletes them.
Laid == \A i \in Inst, k \in 1..Len(Builtin) : Passed(i, k) => Builtin[k].name \in DOMAIN roles

\* A built-in role is inserted once, so one instance inserts its permissions.
OneMaker ==
    \A i, j \in Inst :
        pc[i] = "perms" /\ pc[j] = "perms" /\ at[i] = at[j] /\ at[i] <= Len(Builtin) => i = j

\* A role edited at runtime is in the table.
EditsExist == edited \subseteq DOMAIN roles

\* The inductive invariant.
Inv == TypeOK /\ Places /\ Locked /\ Laid /\ OneMaker /\ FloorComplete /\ EditsExist

-----------------------------------------------------------------------------
(* The seeds *)

\* Built-in roles come first, names are unique, and a name finds its seed.
LEMMA SeedFacts ==
    /\ Len(Builtin) \in Nat /\ Len(Seeds) \in Nat /\ Len(Builtin) <= Len(Seeds)
    /\ \A k \in 1..Len(Seeds) :
          /\ Seeds[k].name \in Name /\ Seeds[k].rank \in Nat /\ Seeds[k].perms \subseteq Perm
          /\ Floor(Seeds[k].name) = Seeds[k]
          /\ Seeds[k].name \in Names(Builtin) <=> k <= Len(Builtin)
    /\ \A j, k \in 1..Len(Seeds) : Seeds[j].name = Seeds[k].name => j = k
    /\ \A k \in 1..Len(Builtin) : Builtin[k] = Seeds[k]
    /\ \A n \in Names(Builtin) : \E k \in 1..Len(Builtin) : n = Builtin[k].name
    /\ Names(Builtin) \cup Names(Configured) \cup Spare \subseteq Name
    /\ Names(Builtin) \cap (Names(Configured) \cup Spare) = {}
<1> DEFINE R == [name: Name, rank: Nat, perms: SUBSET Perm]
<1>1. Builtin \in Seq(R) /\ Configured \in Seq(R)
  BY SeedsAreRoles
<1>2. /\ Seeds \in Seq(R) /\ Len(Seeds) = Len(Builtin) + Len(Configured)
      /\ \A k \in 1..Len(Builtin) : Seeds[k] = Builtin[k]
      /\ \A k \in 1..Len(Configured) : Seeds[Len(Builtin) + k] = Configured[k]
      /\ DOMAIN Seeds = 1..Len(Seeds)
      /\ DOMAIN Builtin = 1..Len(Builtin) /\ DOMAIN Configured = 1..Len(Configured)
      /\ Len(Builtin) \in Nat /\ Len(Configured) \in Nat /\ Len(Seeds) \in Nat
  <2> HIDE DEF R
  <2> QED BY <1>1 DEF Seeds
<1>3. \A k \in 1..Len(Seeds) : Seeds[k] \in R
  <2> HIDE DEF R
  <2> QED BY <1>2
<1>4. \A j, k \in 1..Len(Seeds) : Seeds[j].name = Seeds[k].name => j = k
  BY <1>2, SeedsAreRoles
<1>5. \A n \in Names(Builtin) : \E k \in 1..Len(Builtin) : n = Builtin[k].name
  BY <1>2 DEF Names, RoleSet
<1>6. \A n \in Names(Configured) : \E k \in 1..Len(Configured) : n = Configured[k].name
  BY <1>2 DEF Names, RoleSet
<1>7. \A k \in 1..Len(Builtin) : k \in 1..Len(Seeds) /\ Builtin[k].name \in Names(Builtin)
  BY <1>2 DEF Names, RoleSet
<1>8. \A k \in 1..Len(Seeds) : Seeds[k].name \in Names(Builtin) <=> k <= Len(Builtin)
  <2>1. ASSUME NEW k \in 1..Len(Seeds), k <= Len(Builtin)
        PROVE  Seeds[k].name \in Names(Builtin)
    BY <1>2, <1>7, <2>1
  <2>2. ASSUME NEW k \in 1..Len(Seeds), Seeds[k].name \in Names(Builtin)
        PROVE  k <= Len(Builtin)
    <3>1. PICK j \in 1..Len(Builtin) : Seeds[k].name = Builtin[j].name
      BY <1>5, <2>2
    <3>2. j \in 1..Len(Seeds) /\ Seeds[j].name = Seeds[k].name
      BY <1>2, <1>7, <3>1
    <3>3. j = k
      BY <1>4, <3>2
    <3> QED BY <1>2, <3>1, <3>3
  <2> QED BY <2>1, <2>2
<1>9. \A k \in 1..Len(Seeds) : Floor(Seeds[k].name) = Seeds[k]
  <2> SUFFICES ASSUME NEW k \in 1..Len(Seeds) PROVE Floor(Seeds[k].name) = Seeds[k]
    OBVIOUS
  <2>1. Seeds[k] \in RoleSet(Seeds)
    BY <1>2 DEF RoleSet
  <2>2. \A r \in RoleSet(Seeds) : r.name = Seeds[k].name => r = Seeds[k]
    BY <1>2, <1>4 DEF RoleSet
  <2> QED BY <2>1, <2>2 DEF Floor
<1>10. Names(Builtin) \cup Names(Configured) \subseteq Names(Seeds)
  <2>1. \A k \in 1..Len(Seeds) : Seeds[k].name \in Names(Seeds)
    BY <1>2 DEF Names, RoleSet
  <2>2. \A k \in 1..Len(Configured) :
          Len(Builtin) + k \in 1..Len(Seeds) /\ Seeds[Len(Builtin) + k].name = Configured[k].name
    BY <1>2
  <2>3. Names(Builtin) \subseteq Names(Seeds)
    BY <1>2, <1>5, <1>7, <2>1
  <2>4. Names(Configured) \subseteq Names(Seeds)
    BY <1>6, <2>1, <2>2
  <2> QED BY <2>3, <2>4
<1>11. Names(Builtin) \cap Names(Configured) = {}
  <2> SUFFICES ASSUME NEW j \in 1..Len(Configured), Configured[j].name \in Names(Builtin)
               PROVE  FALSE
    BY <1>6
  <2>1. Len(Builtin) + j \in 1..Len(Seeds) /\ Seeds[Len(Builtin) + j].name = Configured[j].name
    BY <1>2
  <2>2. Len(Builtin) + j <= Len(Builtin)
    BY <1>8, <2>1
  <2> QED BY <1>2, <2>2
<1>12. Names(Builtin) \cap Spare = {}
  BY <1>10, SeedsAreRoles
<1> QED BY <1>2, <1>3, <1>4, <1>5, <1>8, <1>9, <1>10, <1>11, <1>12 DEF Name

-----------------------------------------------------------------------------
(* Steps of one instance that leave the roles alone *)

\* What instance i leaves behind, when it was in the middle of a built-in role, is
\* recorded; every other instance is where it was.
LEMMA FloorStays ==
    ASSUME Inv, NEW i \in Inst, UNCHANGED roles,
           torn' = torn \cup (Making(i) \cap Names(Builtin)),
           \A j \in Inst \ {i} : pc'[j] = pc[j] /\ at'[j] = at[j] /\ todo'[j] = todo[j]
    PROVE  FloorComplete'
<1> SUFFICES ASSUME NEW n \in Names(Builtin) \cap DOMAIN roles
             PROVE  \/ n \in torn'
                    \/ roles[n].perms = Floor(n).perms
                    \/ \E j \in Inst : n \in Making(j)' /\ roles[n].perms = Floor(n).perms \ todo'[j]
  BY DEF FloorComplete
<1>1. \/ n \in torn
      \/ roles[n].perms = Floor(n).perms
      \/ \E j \in Inst : n \in Making(j) /\ roles[n].perms = Floor(n).perms \ todo[j]
  BY DEF Inv, FloorComplete
<1>2. ASSUME NEW j \in Inst, n \in Making(j), roles[n].perms = Floor(n).perms \ todo[j]
      PROVE  \/ n \in torn'
             \/ n \in Making(j)' /\ roles[n].perms = Floor(n).perms \ todo'[j]
  <2>1. CASE j = i
    BY <1>2, <2>1
  <2>2. CASE j # i
    BY <1>2, <2>2 DEF Making
  <2> QED BY <2>1, <2>2
<1> QED BY <1>1, <1>2

\* Such a step keeps the invariant when it is well placed afterwards and claims no
\* built-in role that does not exist.
LEMMA OwnStep ==
    ASSUME Inv, NEW i \in Inst, NEW label \in PC \ {"perms"}, Goto(i, label),
           UNCHANGED <<roles, edited>>, torn' = torn \cup (Making(i) \cap Names(Builtin)),
           tries' \in [Inst -> 0..(Attempts - 1)], at' \in [Inst -> 1..(Len(Seeds) + 1)],
           todo' \in [Inst -> SUBSET Perm],
           \A j \in Inst \ {i} : at'[j] = at[j] /\ todo'[j] = todo[j],
           db' \in Inst \cup {None, "present"}, db = "present" => db' = "present",
           schema' \in BOOLEAN, schema' => schema \/ pc[i] = "apply",
           lock' \in Inst \cup {None}, Locked',
           named' \in {"absent", "admin", "plain"}, others' \in 0..MaxOthers,
           label \in {"lock", "apply"} => db' = "present",
           label \in Early => at'[i] = 1,
           \A k \in 1..Len(Builtin) :
               Passed(i, k)' => Passed(i, k) \/ Builtin[k].name \in DOMAIN roles
    PROVE  Inv'
<1>1. pc' \in [Inst -> PC] /\ pc'[i] = label /\ \A j \in Inst \ {i} : pc'[j] = pc[j]
  BY DEF Inv, TypeOK, Goto
<1>2. torn' \subseteq Name
  BY SeedFacts DEF Inv, TypeOK
<1>3. schema' => db' = "present"
  BY DEF Inv, TypeOK, Places, Placed
<1>4. TypeOK'
  BY <1>1, <1>2, <1>3 DEF Inv, TypeOK
<1>5. Places'
  <2>1. Placed(i)'
    BY <1>1 DEF Placed
  <2>2. ASSUME NEW j \in Inst \ {i} PROVE Placed(j)'
    BY <1>1, <2>2 DEF Inv, Places, Placed
  <2> QED BY <2>1, <2>2 DEF Places
<1>6. Laid'
  <2> SUFFICES ASSUME NEW j \in Inst, NEW k \in 1..Len(Builtin), Passed(j, k)'
               PROVE  Builtin[k].name \in DOMAIN roles
    BY DEF Laid
  <2>1. CASE j = i
    BY <2>1 DEF Inv, Laid
  <2>2. CASE j # i
    BY <1>1, <2>2 DEF Inv, Laid, Passed
  <2> QED BY <2>1, <2>2
<1>7. OneMaker'
  BY <1>1 DEF Inv, OneMaker
<1>8. FloorComplete'
  BY <1>1, FloorStays
<1>9. EditsExist'
  BY DEF Inv, EditsExist
<1> QED BY <1>4, <1>5, <1>6, <1>7, <1>8, <1>9 DEF Inv

\* End: the locals are forgotten and the lock is released.
LEMMA EndKeeps ==
    ASSUME Inv, NEW i \in Inst, End(i)
    PROVE  Inv'
<1>1. /\ tries' \in [Inst -> 0..(Attempts - 1)] /\ at' \in [Inst -> 1..(Len(Seeds) + 1)]
      /\ todo' \in [Inst -> SUBSET Perm]
      /\ \A j \in Inst \ {i} : at'[j] = at[j] /\ todo'[j] = todo[j]
      /\ at'[i] = 1
  BY SeedFacts, SizesAreNaturals DEF End, Inv, TypeOK
<1>2. /\ db' \in Inst \cup {None, "present"} /\ db = "present" => db' = "present"
      /\ lock' \in Inst \cup {None}
  BY NoneIsNoInstance DEF End, Inv, TypeOK
<1>3. Locked'
  BY NoneIsNoInstance DEF End, Goto, Inv, TypeOK, Locked
<1>4. \A k \in 1..Len(Builtin) : ~Passed(i, k)'
  BY DEF End, Goto, Passed, Inv, TypeOK
<1> QED BY <1>1, <1>2, <1>3, <1>4, OwnStep DEF End, PC, Inv, TypeOK

\* A step within postgres.New or dbschema.Ensure, before the seeding.
LEMMA EarlyStep ==
    ASSUME Inv, NEW i \in Inst, pc[i] \in Early, NEW label \in Early \cup {"roles"},
           Goto(i, label), UNCHANGED <<roles, named, others, at, todo, history>>,
           tries' \in [Inst -> 0..(Attempts - 1)],
           db' \in Inst \cup {None, "present"}, db = "present" => db' = "present",
           schema' \in BOOLEAN, schema' => schema \/ pc[i] = "apply",
           lock' \in Inst \cup {None}, Locked',
           label \in {"lock", "apply"} => db' = "present"
    PROVE  Inv'
<1>1. at[i] = 1 /\ Making(i) = {}
  BY DEF Inv, Places, Placed, Making, Early
<1>2. pc'[i] = label
  BY DEF Goto, Inv, TypeOK
<1>3. \A k \in 1..Len(Builtin) : ~Passed(i, k)'
  BY <1>1, <1>2 DEF Passed, Early
<1>4. label \in PC \ {"perms"}
  BY DEF PC, Early
<1>5. torn' = torn \cup (Making(i) \cap Names(Builtin)) /\ UNCHANGED <<roles, edited>>
  BY <1>1 DEF history
<1> QED BY <1>1, <1>3, <1>4, <1>5, OwnStep DEF Inv, TypeOK

\* Locks survive a step that leaves the lock alone and enters no critical section.
LEMMA LockStays ==
    ASSUME Inv, NEW i \in Inst, NEW label, Goto(i, label), lock' = lock,
           label \notin {"apply", "unlock"} \/ (label = "unlock" /\ pc[i] = "apply")
    PROVE  Locked'
  BY DEF Inv, TypeOK, Locked, Goto

\* postgres.New and dbschema.Ensure.
LEMMA EarlyKeeps ==
    ASSUME Inv, NEW i \in Inst,
           \/ Start(i) \/ Open(i) \/ OpenMissing(i) \/ CreateBegin(i) \/ CreateEnd(i)
           \/ CreateFails(i) \/ CheckExists(i) \/ Reopen(i) \/ Lock(i) \/ Apply(i) \/ Unlock(i)
    PROVE  Inv'
<1> USE DEF shared, locals
<1>1. /\ db \in Inst \cup {None, "present"} /\ schema \in BOOLEAN /\ lock \in Inst \cup {None}
      /\ tries \in [Inst -> 0..(Attempts - 1)]
  BY DEF Inv, TypeOK
\* Steps that only move.
<1>2. ASSUME pc[i] \in Early, NEW label \in Early \cup {"roles"}, Goto(i, label),
             UNCHANGED <<shared, locals, history>>,
             label \notin {"apply", "unlock"}, label = "lock" => db = "present"
      PROVE  Inv'
  BY <1>1, <1>2, LockStays, EarlyStep
<1>3. CASE Start(i)
  BY <1>2, <1>3 DEF Start, Early
<1>4. CASE Open(i) \/ Reopen(i)
  BY <1>2, <1>4 DEF Open, Reopen, Connected, Early
<1>5. CASE OpenMissing(i)
  BY <1>2, <1>5, EndKeeps DEF OpenMissing, Early
<1>6. CASE CreateFails(i)
  <2>1. Locked'
    BY <1>6, LockStays DEF CreateFails
  <2>2. db' \in Inst \cup {None, "present"} /\ (db = "present" => db' = "present")
    BY <1>1, <1>6, NoneIsNoInstance DEF CreateFails
  <2>3. pc[i] \in Early /\ "exists" \in Early
    BY <1>6 DEF CreateFails, Early
  <2> QED BY <1>1, <1>6, <2>1, <2>2, <2>3, EarlyStep DEF CreateFails
<1>7. CASE CheckExists(i)
  <2>1. CASE End(i)
    BY <2>1, EndKeeps
  <2>2. CASE Goto(i, "reopen") /\ UNCHANGED <<shared, locals, history>>
    BY <1>2, <1>7, <2>2 DEF CheckExists, Early
  <2>3. CASE /\ tries[i] + 1 < Attempts /\ Goto(i, "create")
             /\ tries' = [tries EXCEPT ![i] = @ + 1] /\ UNCHANGED <<shared, at, todo, history>>
    <3>1. tries' \in [Inst -> 0..(Attempts - 1)]
      BY <1>1, <2>3, SizesAreNaturals
    <3>2. Locked' /\ pc[i] \in Early
      BY <1>7, <2>3, LockStays DEF CheckExists, Early
    <3> QED BY <1>1, <2>3, <3>1, <3>2, EarlyStep DEF Early
  <2> QED BY <1>7, <2>1, <2>2, <2>3 DEF CheckExists
<1>8. CASE CreateBegin(i)
  <2>1. Locked' /\ db # "present"
    BY <1>8, LockStays, NoneIsNoInstance DEF CreateBegin
  <2> QED BY <1>1, <1>8, <2>1, EarlyStep DEF CreateBegin, Early
<1>9. CASE CreateEnd(i)
  <2>1. Locked'
    BY <1>9, LockStays DEF CreateEnd
  <2> QED BY <1>1, <1>9, <2>1, EarlyStep DEF CreateEnd, Early
<1>10. CASE Lock(i)
  <2>1. Locked'
    BY <1>10, NoneIsNoInstance DEF Lock, LockFree, Goto, Inv, TypeOK, Locked
  <2>2. db = "present"
    BY <1>10 DEF Lock, Inv, Places, Placed
  <2> QED BY <1>1, <1>10, <2>1, <2>2, EarlyStep DEF Lock, Early
<1>11. CASE Apply(i)
  <2>1. Locked'
    BY <1>11, LockStays DEF Apply
  <2> QED BY <1>1, <1>11, <2>1, EarlyStep DEF Apply, Early
<1>12. CASE Unlock(i)
  <2>1. Locked'
    BY <1>12 DEF Unlock, Goto, Inv, TypeOK, Locked
  <2> QED BY <1>1, <1>12, <2>1, EarlyStep DEF Unlock, Early
<1> QED BY <1>3, <1>4, <1>5, <1>6, <1>7, <1>8, <1>9, <1>10, <1>11, <1>12

-----------------------------------------------------------------------------
(* Seeding *)

\* The INSERT of a role: the instance that makes it is the only one to do so.
LEMMA InsertKeeps ==
    ASSUME Inv, NEW i \in Inst, NEW r, r = Seeds[at[i]], pc[i] = "roles", at[i] <= Len(Seeds),
           r.name \notin DOMAIN roles,
           roles' = [n \in DOMAIN roles \cup {r.name} |->
                       IF n = r.name THEN [rank |-> r.rank, perms |-> {}] ELSE roles[n]],
           Goto(i, "perms"), todo' = [todo EXCEPT ![i] = r.perms],
           UNCHANGED <<at, db, schema, lock, named, others, tries, history>>
    PROVE  Inv'
<1>1. /\ pc' \in [Inst -> PC] /\ pc'[i] = "perms" /\ \A j \in Inst \ {i} : pc'[j] = pc[j]
  BY DEF Inv, TypeOK, Goto, PC
<1>2. at[i] \in 1..Len(Seeds)
  BY SeedFacts DEF Inv, TypeOK
<1>3. /\ r.name \in Name /\ r.rank \in Nat /\ r.perms \subseteq Perm /\ Floor(r.name) = r
      /\ r.name \in Names(Builtin) <=> at[i] <= Len(Builtin)
  BY <1>2, SeedFacts
<1>4. DOMAIN roles' = DOMAIN roles \cup {r.name}
  OBVIOUS
<1>5. todo' \in [Inst -> SUBSET Perm] /\ todo'[i] = r.perms /\ \A j \in Inst \ {i} : todo'[j] = todo[j]
  BY <1>3 DEF Inv, TypeOK
<1>6. roles' \in [DOMAIN roles' -> [rank: Nat, perms: SUBSET Perm]]
  <2>1. [rank |-> r.rank, perms |-> {}] \in [rank: Nat, perms: SUBSET Perm]
    BY <1>3
  <2> QED BY <1>4, <2>1 DEF Inv, TypeOK
<1>7. TypeOK'
  BY <1>1, <1>3, <1>4, <1>5, <1>6 DEF Inv, TypeOK, history
<1>8. Places'
  BY <1>1, <1>2, <1>5 DEF Inv, Places, Placed, Early
<1>9. Locked'
  BY <1>1 DEF Inv, Locked
<1>10. Laid'
  <2> SUFFICES ASSUME NEW j \in Inst, NEW k \in 1..Len(Builtin), Passed(j, k)'
               PROVE  Builtin[k].name \in DOMAIN roles'
    BY DEF Laid
  <2>1. CASE j # i
    BY <1>1, <1>4, <2>1 DEF Inv, Laid, Passed
  <2>2. CASE j = i /\ k < at[i]
    BY <1>4, <2>2 DEF Inv, Laid, Passed
  <2>3. CASE j = i /\ ~(k < at[i])
    <3>1. k = at[i]
      BY <1>1, <1>2, <2>3, SeedFacts DEF Passed
    <3> QED BY <1>4, <3>1, SeedFacts
  <2> QED BY <2>1, <2>2, <2>3
\* Another instance at this role would have seen it inserted.
<1>11. \A j \in Inst \ {i} : pc[j] = "perms" /\ at[j] = at[i] => at[i] > Len(Builtin)
  <2> SUFFICES ASSUME NEW j \in Inst \ {i}, pc[j] = "perms", at[j] = at[i], at[i] <= Len(Builtin)
               PROVE  FALSE
    BY <1>2, SeedFacts
  <2>1. at[i] \in 1..Len(Builtin) /\ Passed(j, at[i])
    BY <1>2, SeedFacts DEF Passed
  <2>2. Builtin[at[i]].name \in DOMAIN roles /\ Builtin[at[i]] = r
    BY <2>1, SeedFacts DEF Inv, Laid
  <2> QED BY <2>2
<1>12. OneMaker'
  BY <1>1, <1>2, <1>11, SeedFacts DEF Inv, OneMaker
<1>13. FloorComplete'
  <2> SUFFICES ASSUME NEW n \in Names(Builtin) \cap DOMAIN roles'
               PROVE  \/ n \in torn
                      \/ roles'[n].perms = Floor(n).perms
                      \/ \E j \in Inst : n \in Making(j)' /\ roles'[n].perms = Floor(n).perms \ todo'[j]
    BY DEF FloorComplete, history
  <2>1. CASE n = r.name
    <3>1. roles'[n].perms = {}
      BY <1>4, <2>1
    <3>2. r.perms # {} => n \in Making(i)'
      BY <1>1, <1>5, <2>1 DEF Making
    <3> QED BY <1>3, <1>5, <2>1, <3>1, <3>2
  <2>2. CASE n # r.name
    <3>1. n \in DOMAIN roles /\ roles'[n] = roles[n]
      BY <1>4, <2>2
    <3>2. \A j \in Inst : n \in Making(j) => j # i /\ n \in Making(j)' /\ todo'[j] = todo[j]
      BY <1>1, <1>5 DEF Making
    <3> QED BY <3>1, <3>2 DEF Inv, FloorComplete
  <2> QED BY <2>1, <2>2
<1>14. EditsExist'
  BY <1>4 DEF Inv, EditsExist, history
<1> QED BY <1>7, <1>8, <1>9, <1>10, <1>12, <1>13, <1>14 DEF Inv

\* The INSERT of one permission.
LEMMA GrantKeeps ==
    ASSUME Inv, NEW i \in Inst, NEW n, n = Seeds[at[i]].name, pc[i] = "perms",
           n \in DOMAIN roles, NEW p \in todo[i],
           roles' = [roles EXCEPT ![n].perms = @ \cup {p}],
           todo' = [todo EXCEPT ![i] = @ \ {p}],
           UNCHANGED <<db, schema, lock, named, others, pc, tries, at, history>>
    PROVE  Inv'
<1>1. at[i] \in 1..Len(Seeds) /\ todo[i] \subseteq Seeds[at[i]].perms
  BY SeedFacts DEF Inv, TypeOK, Places, Placed
<1>2. /\ Seeds[at[i]].perms \subseteq Perm /\ Floor(n) = Seeds[at[i]]
      /\ n \in Names(Builtin) <=> at[i] <= Len(Builtin)
  BY <1>1, SeedFacts
<1>3. /\ todo' \in [Inst -> SUBSET Perm] /\ todo'[i] = todo[i] \ {p}
      /\ \A j \in Inst \ {i} : todo'[j] = todo[j]
  BY DEF Inv, TypeOK
<1>4. /\ DOMAIN roles' = DOMAIN roles
      /\ \A m \in DOMAIN roles \ {n} : roles'[m] = roles[m]
      /\ roles'[n] = [roles[n] EXCEPT !.perms = @ \cup {p}]
  BY DEF Inv, TypeOK
<1>5. /\ roles[n] \in [rank: Nat, perms: SUBSET Perm]
      /\ roles'[n].perms = roles[n].perms \cup {p}
  BY <1>4 DEF Inv, TypeOK
<1>6. roles' \in [DOMAIN roles' -> [rank: Nat, perms: SUBSET Perm]]
  <2>1. roles'[n] \in [rank: Nat, perms: SUBSET Perm]
    BY <1>1, <1>2, <1>4, <1>5
  <2>2. \A m \in DOMAIN roles : roles'[m] \in [rank: Nat, perms: SUBSET Perm]
    BY <1>4, <2>1 DEF Inv, TypeOK
  <2>3. roles' = [m \in DOMAIN roles |-> roles'[m]]
    BY <1>4 DEF Inv, TypeOK
  <2> QED BY <1>4, <2>2, <2>3
<1>7. TypeOK'
  BY <1>3, <1>4, <1>6 DEF Inv, TypeOK, history
<1>8. Places'
  BY <1>3 DEF Inv, Places, Placed
<1>9. Locked' /\ OneMaker'
  BY DEF Inv, Locked, OneMaker
<1>10. Laid'
  BY <1>4 DEF Inv, Laid, Passed
<1>11. FloorComplete'
  <2> SUFFICES ASSUME NEW m \in Names(Builtin) \cap DOMAIN roles
               PROVE  \/ m \in torn
                      \/ roles'[m].perms = Floor(m).perms
                      \/ \E j \in Inst : m \in Making(j)' /\ roles'[m].perms = Floor(m).perms \ todo'[j]
    BY <1>4 DEF FloorComplete, history
  <2>0. \/ m \in torn
        \/ roles[m].perms = Floor(m).perms
        \/ \E j \in Inst : m \in Making(j) /\ roles[m].perms = Floor(m).perms \ todo[j]
    BY DEF Inv, FloorComplete
  <2>1. CASE m # n
    <3>1. \A j \in Inst : m \in Making(j) => j # i /\ m \in Making(j)' /\ todo'[j] = todo[j]
      BY <1>3, <2>1 DEF Making
    <3> QED BY <1>4, <2>0, <2>1, <3>1
  <2>2. CASE m = n
    <3>1. \A j \in Inst : m \in Making(j) => j = i
      <4> SUFFICES ASSUME NEW j \in Inst, m \in Making(j) PROVE j = i
        OBVIOUS
      <4>1. pc[j] = "perms" /\ Seeds[at[j]].name = n
        BY <2>2 DEF Making
      <4>2. at[j] \in 1..Len(Seeds)
        BY <4>1, SeedFacts DEF Inv, TypeOK, Places, Placed
      <4>3. at[j] = at[i]
        BY <1>1, <4>1, <4>2, SeedFacts
      <4> QED BY <1>2, <2>2, <4>1, <4>3 DEF Inv, OneMaker
    <3>2. p \in Floor(m).perms
      BY <1>1, <1>2, <2>2
    <3>3. CASE roles[m].perms = Floor(m).perms
      BY <1>5, <2>2, <3>2, <3>3
    <3>4. CASE roles[m].perms = Floor(m).perms \ todo[i]
      <4>1. roles'[m].perms = Floor(m).perms \ todo'[i]
        BY <1>3, <1>5, <2>2, <3>2, <3>4
      <4>2. todo'[i] # {} => m \in Making(i)'
        BY <2>2 DEF Making
      <4> QED BY <4>1, <4>2
    <3> QED BY <2>0, <3>1, <3>3, <3>4
  <2> QED BY <2>1, <2>2
<1>12. EditsExist'
  BY <1>4 DEF Inv, EditsExist, history
<1> QED BY <1>7, <1>8, <1>9, <1>10, <1>11, <1>12 DEF Inv

\* SeedRole and what follows it, up to the listeners.
LEMMA SeedingKeeps ==
    ASSUME Inv, NEW i \in Inst,
           \/ SeedRole(i) \/ SeedPermission(i) \/ NextRole(i) \/ RolesDone(i)
           \/ CountAdmins(i) \/ CreateAdmin(i)
    PROVE  Inv'
<1> USE DEF shared, locals, history
<1>1. /\ db \in Inst \cup {None, "present"} /\ schema \in BOOLEAN /\ lock \in Inst \cup {None}
      /\ tries \in [Inst -> 0..(Attempts - 1)] /\ at \in [Inst -> 1..(Len(Seeds) + 1)]
      /\ todo \in [Inst -> SUBSET Perm] /\ pc \in [Inst -> PC]
      /\ named \in {"absent", "admin", "plain"} /\ others \in 0..MaxOthers
      /\ Len(Seeds) \in Nat /\ Len(Builtin) \in Nat /\ Len(Builtin) <= Len(Seeds)
  BY SeedFacts DEF Inv, TypeOK
\* Steps that leave the tables of roles alone.
<1>2. ASSUME NEW label \in {"roles", "count", "admin", "serving"}, Goto(i, label), Making(i) = {},
             UNCHANGED <<db, schema, lock, roles, others, todo, torn, edited>>,
             tries' \in [Inst -> 0..(Attempts - 1)], at' \in [Inst -> 1..(Len(Seeds) + 1)],
             named' \in {"absent", "admin", "plain"},
             \A j \in Inst \ {i} : at'[j] = at[j],
             \A k \in 1..Len(Builtin) :
                 Passed(i, k)' => Passed(i, k) \/ Builtin[k].name \in DOMAIN roles
      PROVE  Inv'
  <2>1. Locked'
    BY <1>2, LockStays
  <2>2. torn' = torn \cup (Making(i) \cap Names(Builtin))
    BY <1>2
  <2> QED BY <1>1, <1>2, <2>1, <2>2, OwnStep DEF PC, Early
<1>3. CASE SeedRole(i)
  <2> DEFINE r == Seeds[at[i]]
  <2>1. CASE End(i)
    BY <2>1, EndKeeps
  <2>2. CASE ~End(i)
    <3>1. pc[i] = "roles" /\ at[i] <= Len(Seeds) /\ UNCHANGED <<db, schema, lock, named, others, tries, history>>
      BY <1>3, <2>2 DEF SeedRole
    <3>2. CASE r.name \in DOMAIN roles
      <4>1. at' = [at EXCEPT ![i] = @ + 1] /\ UNCHANGED <<roles, pc, todo>>
        BY <1>3, <2>2, <3>2 DEF SeedRole
      <4>2. at' \in [Inst -> 1..(Len(Seeds) + 1)] /\ at'[i] = at[i] + 1
            /\ \A j \in Inst \ {i} : at'[j] = at[j]
        BY <1>1, <3>1, <4>1
      <4>3. \A k \in 1..Len(Builtin) : Passed(i, k)' => Passed(i, k) \/ Builtin[k].name \in DOMAIN roles
        <5> SUFFICES ASSUME NEW k \in 1..Len(Builtin), Passed(i, k)', ~Passed(i, k)
                     PROVE  Builtin[k].name \in DOMAIN roles
          OBVIOUS
        <5>1. k = at[i]
          BY <1>1, <3>1, <4>1, <4>2 DEF Passed
        <5> QED BY <3>2, <5>1, SeedFacts
      <4>4. Goto(i, "roles") /\ Making(i) = {}
        BY <1>1, <3>1, <4>1 DEF Goto, Making
      <4> QED BY <1>1, <1>2, <3>1, <4>1, <4>2, <4>3, <4>4
    <3>3. CASE r.name \notin DOMAIN roles
      BY <1>3, <2>2, <3>1, <3>3, InsertKeeps DEF SeedRole
    <3> QED BY <3>2, <3>3
  <2> QED BY <2>1, <2>2
<1>4. CASE SeedPermission(i)
  BY <1>4, EndKeeps, GrantKeeps DEF SeedPermission
<1>5. CASE NextRole(i)
  <2>1. pc[i] = "perms" /\ at[i] <= Len(Seeds)
    BY <1>5 DEF NextRole, Inv, Places, Placed
  <2>2. /\ at' \in [Inst -> 1..(Len(Seeds) + 1)] /\ at'[i] = at[i] + 1
        /\ \A j \in Inst \ {i} : at'[j] = at[j]
        /\ pc'[i] = "roles"
    BY <1>1, <1>5, <2>1 DEF NextRole, Goto
  <2>3. \A k \in 1..Len(Builtin) : Passed(i, k)' => Passed(i, k)
    BY <1>1, <2>1, <2>2 DEF Passed
  <2>4. Making(i) = {}
    BY <1>5 DEF NextRole, Making
  <2> QED BY <1>1, <1>2, <1>5, <2>2, <2>3, <2>4 DEF NextRole
<1>6. CASE RolesDone(i)
  <2>1. Making(i) = {}
    BY <1>6 DEF RolesDone, Making
  <2>2. \A k \in 1..Len(Builtin) : Passed(i, k)
    BY <1>1, <1>6 DEF RolesDone, Passed
  <2> QED BY <1>1, <1>2, <1>6, <2>1, <2>2 DEF RolesDone
<1>7. CASE CountAdmins(i) \/ CreateAdmin(i)
  <2>1. pc[i] \in {"count", "admin"} /\ Making(i) = {}
    BY <1>7 DEF CountAdmins, CreateAdmin, Making
  <2>2. \A k \in 1..Len(Builtin) : Passed(i, k)
    BY <2>1 DEF Passed
  <2>3. /\ tries' \in [Inst -> 0..(Attempts - 1)] /\ at' \in [Inst -> 1..(Len(Seeds) + 1)]
        /\ \A j \in Inst \ {i} : at'[j] = at[j]
    <3>1. CASE Listen(i)
      BY <1>1, <3>1, SizesAreNaturals DEF Listen
    <3>2. CASE UNCHANGED <<tries, at>>
      BY <1>1, <3>2
    <3> QED BY <1>7, <3>1, <3>2 DEF CountAdmins, CreateAdmin
  <2>4. CASE CountAdmins(i)
    BY <1>1, <1>2, <2>1, <2>2, <2>3, <2>4 DEF CountAdmins, Listen
  <2>5. CASE CreateAdmin(i)
    BY <1>1, <1>2, <2>1, <2>2, <2>3, <2>5 DEF CreateAdmin, Listen
  <2> QED BY <1>7, <2>4, <2>5
<1> QED BY <1>3, <1>4, <1>5, <1>6, <1>7

-----------------------------------------------------------------------------
(* Operators *)

\* An edit of roles keeps the invariant when it leaves built-in roles alone.
LEMMA OperateKeeps ==
    ASSUME Inv, Operate, DOMAIN roles' \subseteq Name,
           roles' \in [DOMAIN roles' -> [rank: Nat, perms: SUBSET Perm]],
           \A n \in Names(Builtin) : /\ n \in DOMAIN roles <=> n \in DOMAIN roles'
                                     /\ n \in DOMAIN roles => roles'[n] = roles[n],
           named' \in {"absent", "admin", "plain"}, others' \in 0..MaxOthers,
           edited' \subseteq Name, edited' \subseteq DOMAIN roles'
    PROVE  Inv'
<1> USE DEF Operate, locals
<1>1. TypeOK'
  BY DEF Inv, TypeOK
<1>2. Places' /\ Locked' /\ OneMaker' /\ EditsExist'
  BY DEF Inv, Places, Placed, Locked, OneMaker, EditsExist
<1>3. Laid'
  <2>1. \A k \in 1..Len(Builtin) : Builtin[k].name \in Names(Builtin)
    BY SeedFacts
  <2> QED BY <2>1 DEF Inv, Laid, Passed
<1>4. FloorComplete'
  BY DEF Inv, FloorComplete, Making
<1> QED BY <1>1, <1>2, <1>3, <1>4 DEF Inv

\* Operators create, edit and delete custom roles, and change accounts.
LEMMA OperatorKeeps ==
    ASSUME Inv, Operator
    PROVE  Inv'
<1> DEFINE R == [rank: Nat, perms: SUBSET Perm]
<1>0. /\ DOMAIN roles \subseteq Name /\ roles \in [DOMAIN roles -> R]
      /\ edited \subseteq Name /\ edited \subseteq DOMAIN roles
      /\ named \in {"absent", "admin", "plain"} /\ others \in 0..MaxOthers /\ MaxOthers \in Nat
  BY SizesAreNaturals DEF Inv, TypeOK, EditsExist
<1>1. ASSUME NEW n \in Names(Configured) \cup Spare, NEW rk \in 1..MaxRank, NEW pm \in SUBSET Perm,
             OperatorRole(n, rk, pm)
      PROVE  Inv'
  <2>1. n \in Name \ Names(Builtin) /\ rk \in Nat
    BY SeedFacts, SizesAreNaturals
  <2>2. DOMAIN roles' = DOMAIN roles \cup {n}
    BY <1>1 DEF OperatorRole
  <2>3. [rank |-> rk, perms |-> pm] \in R
    BY <2>1
  <2>4. \A m \in DOMAIN roles' : roles'[m] \in R
    BY <1>0, <1>1, <2>2, <2>3 DEF OperatorRole
  <2>5. roles' = [m \in DOMAIN roles' |-> roles'[m]]
    BY <1>1, <2>2 DEF OperatorRole
  <2>6. roles' \in [DOMAIN roles' -> R]
    <3> HIDE DEF R
    <3> QED BY <2>4, <2>5
  <2>7. \A m \in DOMAIN roles \ {n} : roles'[m] = roles[m]
    BY <1>1 DEF OperatorRole
  <2>8. edited' \subseteq Name /\ edited' \subseteq DOMAIN roles'
    BY <1>0, <1>1, <2>1, <2>2 DEF OperatorRole
  <2> QED BY <1>0, <1>1, <2>1, <2>2, <2>6, <2>7, <2>8, OperateKeeps DEF OperatorRole
<1>2. ASSUME NEW n \in Custom, OperatorDeleteRole(n)
      PROVE  Inv'
  <2>1. n \notin Names(Builtin)
    BY DEF Custom
  <2>2. DOMAIN roles' = DOMAIN roles \ {n} /\ \A m \in DOMAIN roles' : roles'[m] = roles[m]
    BY <1>2 DEF OperatorDeleteRole
  <2>3. roles' \in [DOMAIN roles' -> R]
    <3>1. roles' = [m \in DOMAIN roles \ {n} |-> roles[m]]
      BY <1>2 DEF OperatorDeleteRole
    <3> HIDE DEF R
    <3> QED BY <1>0, <2>2, <3>1
  <2>4. edited' \subseteq Name /\ edited' \subseteq DOMAIN roles'
    BY <1>0, <1>2, <2>2 DEF OperatorDeleteRole
  <2> QED BY <1>0, <1>2, <2>1, <2>2, <2>3, <2>4, OperateKeeps DEF OperatorDeleteRole
<1>3. CASE OperatorAccounts \/ OperatorRename
  <2>1. named' \in {"absent", "admin", "plain"} /\ others' \in 0..MaxOthers
    BY <1>0, <1>3 DEF OperatorAccounts, OperatorRename
  <2>2. Operate /\ UNCHANGED <<roles, edited>>
    BY <1>3 DEF OperatorAccounts, OperatorRename
  <2> QED BY <1>0, <2>1, <2>2, OperateKeeps
<1>4. {} \in SUBSET Perm
  OBVIOUS
<1> QED BY <1>1, <1>2, <1>3, <1>4 DEF Operator

-----------------------------------------------------------------------------
(* Theorems *)

\* Nothing is seeded at the start.
LEMMA InitInv == Init => Inv
<1> SUFFICES ASSUME Init PROVE Inv
  OBVIOUS
<1>1. DOMAIN roles = {} /\ roles \in [DOMAIN roles -> [rank: Nat, perms: SUBSET Perm]]
  BY DEF Init
<1>2. /\ tries \in [Inst -> 0..(Attempts - 1)] /\ at \in [Inst -> 1..(Len(Seeds) + 1)]
      /\ todo \in [Inst -> SUBSET Perm] /\ pc \in [Inst -> PC]
      /\ others \in 0..MaxOthers
  BY SeedFacts, SizesAreNaturals DEF Init, PC
<1>3. /\ db \in Inst \cup {None, "present"} /\ schema \in BOOLEAN /\ (schema => db = "present")
      /\ lock \in Inst \cup {None} /\ named \in {"absent", "admin", "plain"}
      /\ torn \subseteq Name /\ edited \subseteq Name
  BY DEF Init
<1>4. TypeOK
  BY <1>1, <1>2, <1>3 DEF TypeOK
<1>5. Places /\ Locked /\ Laid /\ OneMaker
  BY DEF Init, Places, Placed, Early, Locked, Laid, Passed, OneMaker
<1>6. FloorComplete /\ EditsExist
  BY <1>1 DEF Init, FloorComplete, EditsExist
<1> QED BY <1>4, <1>5, <1>6 DEF Inv

\* Every step, of an instance or an operator, keeps the invariant.
LEMMA NextInv == Inv /\ [Next]_vars => Inv'
<1> SUFFICES ASSUME Inv, [Next]_vars PROVE Inv'
  OBVIOUS
<1>1. ASSUME NEW i \in Inst, Start(i) \/ Boot(i) \/ Stop(i)
      PROVE  Inv'
  BY <1>1, EarlyKeeps, SeedingKeeps, EndKeeps DEF Boot, Stop
<1>2. CASE UNCHANGED vars
  BY <1>2 DEF vars, Inv, TypeOK, Places, Placed, Locked, Laid, Passed, OneMaker, FloorComplete,
              Making, EditsExist
<1> QED BY <1>1, <1>2, OperatorKeeps DEF Next

\* TypeOK of Bootstrap: among others, the tables exist only in a database that
\* does, and CREATE DATABASE is tried at most createAttempts times.
THEOREM BootstrapTyped == Spec => []TypeOK
<1>1. Inv => TypeOK
  BY DEF Inv
<1> QED BY <1>1, InitInv, NextInv, PTL DEF Spec

\* OneApplier: the advisory lock of dbschema.Ensure keeps two instances from
\* running the schema file at the same time, through crashes and restarts.
THEOREM SchemaHasOneApplier == Spec => []OneApplier
<1>1. Inv => OneApplier
  BY DEF Inv, Locked, OneApplier
<1> QED BY <1>1, InitInv, NextInv, PTL DEF Spec

\* FloorBeforeTraffic: an instance that counts administrators or serves has all
\* built-in roles, whichever instance inserted them.
THEOREM FloorIsLaid == Spec => []FloorBeforeTraffic
<1>1. Inv => FloorBeforeTraffic
  <2> SUFFICES ASSUME Inv, NEW i \in Inst, pc[i] \in {"count", "admin", "serving"},
                      NEW n \in Names(Builtin)
               PROVE  n \in DOMAIN roles
    BY DEF FloorBeforeTraffic
  <2>1. PICK k \in 1..Len(Builtin) : n = Builtin[k].name
    BY SeedFacts
  <2> QED BY <2>1 DEF Inv, Laid, Passed
<1> QED BY <1>1, InitInv, NextInv, PTL DEF Spec

\* FloorComplete: a built-in role without all its permissions is in the hands of
\* the one instance that inserted it, or was left behind by it.
THEOREM FloorLacksNothing == Spec => []FloorComplete
<1>1. Inv => FloorComplete
  BY DEF Inv
<1> QED BY <1>1, InitInv, NextInv, PTL DEF Spec

\* A step of an instance changes no role that exists but the one it is making.
LEMMA BootLeavesRoles ==
    ASSUME Inv, NEW i \in Inst, Start(i) \/ Boot(i) \/ Stop(i), NEW n \in DOMAIN roles
    PROVE  n \in Making(i) \/ (n \in DOMAIN roles' /\ roles'[n] = roles[n])
<1>1. CASE UNCHANGED roles
  BY <1>1
<1>2. CASE ~UNCHANGED roles
  <2>1. SeedRole(i) \/ SeedPermission(i)
    BY <1>2 DEF Start, Boot, Stop, Open, OpenMissing, CreateBegin, CreateEnd, CreateFails, CheckExists,
                Reopen, Connected, Lock, Apply, Unlock, NextRole, RolesDone, CountAdmins,
                CreateAdmin, End, shared
  <2>2. CASE SeedRole(i)
    BY <1>2, <2>2 DEF SeedRole, End
  <2>3. CASE SeedPermission(i)
    BY <1>2, <2>3 DEF SeedPermission, End, Making, Inv, TypeOK
  <2> QED BY <2>1, <2>2, <2>3
<1> QED BY <1>1, <1>2

\* RuntimeChangesStand: ON CONFLICT (name) DO NOTHING; a boot, of whatever
\* configuration, never overwrites a role that operators have set.
THEOREM SeedingOverwritesNothing == Spec => RuntimeChangesStand
<1> DEFINE Stands == \A n \in edited :
                        \/ UNCHANGED <<pc, locals>>
                        \/ \E i \in Inst : n \in Making(i)
                        \/ n \in DOMAIN roles' /\ roles'[n] = roles[n]
<1>1. Inv /\ [Next]_vars => [Stands]_vars
  <2> SUFFICES ASSUME Inv, Next PROVE Stands
    OBVIOUS
  <2>1. CASE Operator
    BY <2>1 DEF Operator, OperatorRole, OperatorDeleteRole, OperatorAccounts, OperatorRename, Operate
  <2>2. ASSUME NEW i \in Inst, Start(i) \/ Boot(i) \/ Stop(i) PROVE Stands
    BY <2>2, BootLeavesRoles DEF Inv, EditsExist
  <2> QED BY <2>1, <2>2 DEF Next
<1>2. Spec => [][Stands]_vars
  BY <1>1, InitInv, NextInv, PTL DEF Spec
<1> QED BY <1>2 DEF RuntimeChangesStand
=============================================================================
