------------------------------ MODULE MCAdmin -------------------------------
(* Admin on small instances. *)
EXTENDS Admin, TLC

CONSTANTS s1, s2, x, y, z, c1, c2

\* Two superadmins.
Supers == (s1 :> "superadmin") @@ (s2 :> "superadmin")
SuperRanks == ("user" :> 0) @@ ("admin" :> 1) @@ ("superadmin" :> Top)
SeededRanks == ("user" :> 0) @@ ("admin" :> 2) @@ ("superadmin" :> Top)
SeededPerms == ("user" :> {}) @@ ("admin" :> {"users"}) @@ ("superadmin" :> Perm)

\* No superadmin: x edits roles from rank 3, y edits accounts from rank 2, z is
\* yet to be created.
Middle == (x :> c1) @@ (y :> "admin") @@ (z :> None)
MiddleRanks == SeededRanks @@ (c1 :> 3)
MiddlePerms == SeededPerms @@ (c1 :> {"roles"})

Symmetry == Permutations(Req)

\* Where only the machine caller acts, the superadmins are interchangeable too.
SuperSymmetry == Symmetry \cup Permutations(User)

\* Bound: what happens after the race that LastSuperadminStays excepts is not followed.
UpToTheRace == ~raced
=============================================================================
