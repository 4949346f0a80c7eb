--------------------------- MODULE DirectoryProof ---------------------------
(***************************************************************************)
(* What the tables and their queries promise, for any permissions and any  *)
(* number of runs of the seed script, users and clients, and any page      *)
(* size: first the seed script (Seeding), then a client that walks through *)
(* the pages (Directory), whose tables are those of Seeding.               *)
(***************************************************************************)
EXTENDS Directory, FiniteSetTheorems, TLAPS

(* What is in the batches. *)
LEMMA BatchRows ==
  ASSUME NEW b \in 1..LastBatch, NEW x \in Batches[b]
  PROVE  /\ x.table \in {"permission", "role", "grant", "user", "userRole"}
         /\ x.table = "permission" => x.row \in PermissionsData
         /\ x.table = "role" => x.row \in Roles
         /\ x.table = "grant" => b > 4 /\ x.row \in SuperGrants \cup AdminGrants
         /\ x.table \in {"user", "userRole"} => b > 4 /\ x.row \in Roles
<1>1. b \in {1, 2, 3, 4, 5, 6, 7, 8, 9, 10, 11, 12}
  BY DEF LastBatch
<1>2. CASE b = 1
  BY <1>2 DEF Batches, Upserts
<1>3. CASE b \in {2, 3, 4}
  BY <1>3 DEF Batches, Upserts, Roles
<1>4. CASE b \in {5, 6}
  BY <1>4 DEF Batches, Upserts
<1>5. CASE b \in {7, 8, 9, 10, 11, 12}
  BY <1>5 DEF Batches, Upserts, Roles
<1>. QED
  BY <1>1, <1>2, <1>3, <1>4, <1>5

(* A run that has come to the grants has stored what they refer to. *)
LEMMA RbacStored ==
  ASSUME TableTypeOK, SeedProgress, NEW s \in Seeders, batch[s] > 4
  PROVE  permissions = PermissionsData /\ roles = Roles
<1>1. \A i \in {1, 2, 3, 4} : \A x \in Batches[i] : Stored(x)
  BY DEF SeedProgress, TableTypeOK, LastBatch, Done
<1>2. \A p \in PermissionsData : p \in permissions
  <2>1. SUFFICES ASSUME NEW p \in PermissionsData PROVE p \in permissions
    OBVIOUS
  <2>2. [table |-> "permission", row |-> p] \in Batches[1]
    BY DEF Batches, Upserts
  <2>. QED
    BY <1>1, <2>2 DEF Stored
<1>3. "SUPER_ADMIN" \in roles
  <2>1. [table |-> "role", row |-> "SUPER_ADMIN"] \in Batches[2]
    BY DEF Batches, Upserts
  <2>. QED
    BY <1>1, <2>1 DEF Stored
<1>4. "ADMIN" \in roles
  <2>1. [table |-> "role", row |-> "ADMIN"] \in Batches[3]
    BY DEF Batches, Upserts
  <2>. QED
    BY <1>1, <2>1 DEF Stored
<1>5. "USER" \in roles
  <2>1. [table |-> "role", row |-> "USER"] \in Batches[4]
    BY DEF Batches, Upserts
  <2>. QED
    BY <1>1, <2>1 DEF Stored
<1>. QED
  BY <1>2, <1>3, <1>4, <1>5 DEF TableTypeOK, Roles

(* Nothing is ever deleted from a table, and no user renamed. *)
TablesGrow ==
  /\ permissions \subseteq permissions' /\ roles \subseteq roles' /\ grants \subseteq grants'
  /\ \A u \in Rows : /\ email'[u] = email[u] /\ created'[u] = created[u]
                     /\ userRoles[u] \subseteq userRoles'[u]

(* What is stored stays stored. *)
LEMMA StoredStays ==
  ASSUME TablesGrow, NEW b \in 1..LastBatch, NEW x \in Batches[b], Stored(x)
  PROVE  Stored(x)'
<1>1. x.table \in {"permission", "role", "grant", "user", "userRole"}
  BY BatchRows
<1>2. \A u \in Rows : u \in Rows'
  BY DEF TablesGrow, Rows
<1>3. CASE x.table \in {"permission", "role", "grant"}
  BY <1>3 DEF Stored, TablesGrow
<1>4. CASE x.table = "user"
  BY <1>2, <1>4 DEF Stored, TablesGrow
<1>5. CASE x.table = "userRole"
  BY <1>2, <1>5 DEF Stored, TablesGrow
<1>. QED
  BY <1>1, <1>3, <1>4, <1>5

(* An answered upsert that is stored keeps the run's progress true, and    *)
(* its variables typed.                                                    *)
LEMMA AnsweredStep ==
  ASSUME TableTypeOK, SeedProgress, TablesGrow,
         NEW s \in Seeders, NEW x, Waiting(s, x), Answered(s, x), Stored(x)',
         grants' \subseteq SuperGrants \cup AdminGrants
  PROVE  /\ SeedProgress'
         /\ batch' \in [Seeders -> 0..Done]
         /\ \A q \in Seeders : todo'[q] \subseteq IF Running(q)' THEN Batches[batch'[q]] ELSE {}
         /\ DOMAIN todo' = Seeders
<1>. DEFINE b == batch[s]
<1>1. b \in 1..LastBatch /\ x \in todo[s] /\ x \in Batches[b]
  BY DEF Waiting, TableTypeOK, Running
<1>2. \A i \in 1..LastBatch : \A y \in Batches[i] : Stored(y) => Stored(y)'
  BY StoredStays
<1>3. \A q \in Seeders : 0..Done = 0..13 /\ batch[q] \in 0..13
  BY DEF TableTypeOK, Done, LastBatch
<1>4. \A i \in 1..LastBatch : i < b => \A y \in Batches[i] : Stored(y)'
  BY <1>2 DEF SeedProgress
<1>5. \A y \in Batches[b] \ todo[s] : Stored(y)'
  BY <1>1, <1>2 DEF SeedProgress, Waiting
<1>6. ASSUME NEW q \in Seeders, q # s, batch'[q] = batch[q], todo'[q] = todo[q]
      PROVE  /\ \A i \in 1..LastBatch : i < batch'[q] => \A y \in Batches[i] : Stored(y)'
             /\ Running(q)' => \A y \in Batches[batch'[q]] \ todo'[q] : Stored(y)'
             /\ todo'[q] \subseteq IF Running(q)' THEN Batches[batch'[q]] ELSE {}
  <2>1. Running(q)' <=> Running(q)
    BY <1>6 DEF Running
  <2>2. Running(q) => batch[q] \in 1..LastBatch
    BY DEF Running
  <2>. QED
    BY <1>2, <1>6, <2>1, <2>2 DEF SeedProgress, TableTypeOK
<1>7. CASE todo[s] = {x}
  <2>1. /\ batch' = [batch EXCEPT ![s] = b + 1]
        /\ todo' = [todo EXCEPT ![s] = IF b = LastBatch THEN {} ELSE Batches[b + 1]]
    BY <1>7 DEF Answered
  <2>2. /\ batch'[s] = b + 1 /\ b + 1 \in 0..Done
        /\ todo'[s] = IF b = LastBatch THEN {} ELSE Batches[b + 1]
    BY <1>1, <2>1 DEF TableTypeOK, Done, LastBatch
  <2>3. Running(s)' <=> b # LastBatch
    BY <1>1, <2>2 DEF Running, LastBatch
  <2>4. todo'[s] \subseteq IF Running(s)' THEN Batches[batch'[s]] ELSE {}
    BY <2>2, <2>3
  <2>5. \A i \in 1..LastBatch : i < batch'[s] => \A y \in Batches[i] : Stored(y)'
    <3>1. \A y \in Batches[b] : Stored(y)'
      BY <1>5, <1>7
    <3>2. \A i \in 1..LastBatch : i < b + 1 => i < b \/ i = b
      BY <1>1 DEF LastBatch
    <3>. QED
      BY <1>4, <2>2, <3>1, <3>2
  <2>6. Running(s)' => \A y \in Batches[batch'[s]] \ todo'[s] : Stored(y)'
    BY <2>2, <2>3
  <2>7. batch' \in [Seeders -> 0..Done]
    BY <2>1, <2>2 DEF TableTypeOK
  <2>8. \A q \in Seeders : q # s => batch'[q] = batch[q] /\ todo'[q] = todo[q]
    BY <2>1 DEF TableTypeOK
  <2>9. DOMAIN todo' = Seeders
    BY <2>1 DEF TableTypeOK
  <2>. QED
    BY <1>6, <2>4, <2>5, <2>6, <2>7, <2>8, <2>9 DEF SeedProgress
<1>8. CASE todo[s] # {x}
  <2>1. batch' = batch /\ todo' = [todo EXCEPT ![s] = todo[s] \ {x}]
    BY <1>8 DEF Answered
  <2>2. todo'[s] = todo[s] \ {x}
    BY <2>1 DEF TableTypeOK
  <2>3. Running(s)' <=> Running(s)
    BY <2>1 DEF Running
  <2>4. todo'[s] \subseteq IF Running(s)' THEN Batches[batch'[s]] ELSE {}
    BY <2>1, <2>2, <2>3 DEF TableTypeOK
  <2>5. \A i \in 1..LastBatch : i < batch'[s] => \A y \in Batches[i] : Stored(y)'
    BY <1>4, <2>1
  <2>6. \A y \in Batches[batch'[s]] \ todo'[s] : Stored(y)'
    BY <1>5, <2>1, <2>2
  <2>7. \A q \in Seeders : q # s => batch'[q] = batch[q] /\ todo'[q] = todo[q]
    BY <2>1 DEF TableTypeOK
  <2>. QED
    BY <1>6, <2>1, <2>4, <2>5, <2>6, <2>7 DEF SeedProgress, TableTypeOK
<1>. QED
  BY <1>7, <1>8

(* The steps that write nothing the script waits for.                      *)
LEMMA QuietStep ==
  ASSUME TableTypeOK, SeedProgress, TablesGrow, UNCHANGED <<grants, seedVars>>
  PROVE  SeedProgress'
<1>1. \A i \in 1..LastBatch : \A y \in Batches[i] : Stored(y) => Stored(y)'
  BY StoredStays
<1>2. \A q \in Seeders : (Running(q)' <=> Running(q)) /\ (Running(q) => batch[q] \in 1..LastBatch)
  BY DEF Running, seedVars
<1>. QED
  BY <1>1, <1>2 DEF SeedProgress, seedVars

(* A user created in a free row leaves the others as they are.             *)
LEMMA CreateStep ==
  ASSUME TableTypeOK, NEW u \in Users, NEW e \in Roles \cup {Other},
         NEW n \in Roles \cup {Other}, NEW time \in Nat,
         CreateUser(u, e, n, time)
  PROVE  /\ u \notin Rows /\ Rows' = Rows \cup {u}
         /\ email' \in [Users -> Roles \cup {Other, None}]
         /\ username' \in [Users -> Roles \cup {Other, None}]
         /\ created' \in [Users -> Nat]
         /\ email'[u] = e
         /\ \A v \in Users \ {u} : email'[v] = email[v] /\ created'[v] = created[v]
         /\ created'[u] = time
BY NamesAssumption DEF CreateUser, TableTypeOK, Rows

(* The types, and what the script has stored, hold at every step.          *)
TableInv == TableTypeOK /\ SeedProgress

LEMMA TableInitially ==
  ASSUME TableInit
  PROVE  TableInv
<1>1. Rows = {}
  BY DEF TableInit, Rows
<1>2. \A s \in Seeders : ~Running(s) /\ todo[s] = {} /\ batch[s] = 0
  BY DEF TableInit, Running, LastBatch
<1>3. TableTypeOK
  BY <1>1, <1>2, UsersAssumption DEF TableInit, TableTypeOK, Done, LastBatch
<1>4. SeedProgress
  BY <1>2 DEF TableInit, SeedProgress, LastBatch
<1>. QED
  BY <1>3, <1>4 DEF TableInv

LEMMA TableStep ==
  ASSUME TableInv, [TableNext]_tableVars
  PROVE  TableInv' /\ TablesGrow
<1>. USE DEF TableInv
<1>1. ASSUME NEW u \in Users, NEW e \in Claimed \cup {Other}, NEW n \in Claimed \cup {Other},
             NEW time \in 0..clock, Signup(u, e, n, time)
      PROVE  TableInv' /\ TablesGrow
  <2>1. /\ u \notin Rows /\ Rows' = Rows \cup {u}
        /\ email' \in [Users -> Roles \cup {Other, None}]
        /\ username' \in [Users -> Roles \cup {Other, None}]
        /\ created' \in [Users -> Nat]
        /\ \A v \in Users \ {u} : email'[v] = email[v] /\ created'[v] = created[v]
    BY <1>1, NamesAssumption, CreateStep DEF Signup, TableTypeOK
  <2>2. TablesGrow
    BY <1>1, <2>1 DEF Signup, TablesGrow, rbacVars, Rows
  <2>3. SeedProgress'
    BY <1>1, <2>2, QuietStep DEF Signup, rbacVars
  <2>4. TableTypeOK'
    BY <1>1, <2>1 DEF Signup, TableTypeOK, rbacVars, seedVars, Running
  <2>. QED
    BY <2>2, <2>3, <2>4
<1>2. ASSUME NEW s \in Seeders, SeedStart(s) \/ SeedFail(s)
      PROVE  TableInv' /\ TablesGrow
  <2>1. TablesGrow
    BY <1>2 DEF SeedStart, SeedFail, rbacVars, userVars, TablesGrow, Rows
  <2>2. \A i \in 1..LastBatch : \A y \in Batches[i] : Stored(y) => Stored(y)'
    BY <2>1, StoredStays
  <2>3. \/ batch' = [batch EXCEPT ![s] = 0] /\ todo' = [todo EXCEPT ![s] = {}]
        \/ batch' = [batch EXCEPT ![s] = 1] /\ todo' = [todo EXCEPT ![s] = Batches[1]]
    BY <1>2 DEF SeedStart, SeedFail
  <2>4. /\ batch' \in [Seeders -> 0..Done] /\ DOMAIN todo' = Seeders
        /\ \/ batch'[s] = 0 /\ todo'[s] = {}
           \/ batch'[s] = 1 /\ todo'[s] = Batches[1]
        /\ \A q \in Seeders : q # s => batch'[q] = batch[q] /\ todo'[q] = todo[q]
    BY <2>3 DEF TableTypeOK, Done, LastBatch
  <2>5. \A q \in Seeders : q # s => (Running(q)' <=> Running(q))
    BY <2>4 DEF Running
  <2>6. \A q \in Seeders : todo'[q] \subseteq IF Running(q)' THEN Batches[batch'[q]] ELSE {}
    <3>1. todo'[s] \subseteq IF Running(s)' THEN Batches[batch'[s]] ELSE {}
      BY <2>4 DEF Running, LastBatch
    <3>. QED
      BY <2>4, <2>5, <3>1 DEF TableTypeOK
  <2>7. UNCHANGED <<permissions, roles, grants, email, username, created, userRoles, clock>>
    BY <1>2 DEF SeedStart, SeedFail, rbacVars, userVars
  <2>8. TableTypeOK'
    BY <2>4, <2>6, <2>7 DEF TableTypeOK, Rows
  <2>9. \A q \in Seeders :
          /\ \A i \in 1..LastBatch : i < batch'[q] => \A x \in Batches[i] : Stored(x)'
          /\ Running(q)' => \A x \in Batches[batch'[q]] \ todo'[q] : Stored(x)'
    <3>1. ASSUME NEW q \in Seeders, q # s
          PROVE  /\ \A i \in 1..LastBatch : i < batch'[q] => \A x \in Batches[i] : Stored(x)'
                 /\ Running(q)' => \A x \in Batches[batch'[q]] \ todo'[q] : Stored(x)'
      <4>1. Running(q) => batch[q] \in 1..LastBatch
        BY DEF Running
      <4>. QED
        BY <2>2, <2>4, <2>5, <3>1, <4>1 DEF SeedProgress
    <3>2. /\ \A i \in 1..LastBatch : ~(i < batch'[s])
          /\ Running(s)' => Batches[batch'[s]] \ todo'[s] = {}
      BY <2>4 DEF Running, LastBatch
    <3>. QED
      BY <3>1, <3>2
  <2>. QED
    BY <2>1, <2>7, <2>8, <2>9 DEF SeedProgress
<1>3. ASSUME NEW s \in Seeders, NEW x \in todo[s], SeedRbac(s, x)
      PROVE  TableInv' /\ TablesGrow
  <2>1. Running(s) /\ batch[s] \in 1..LastBatch /\ x \in Batches[batch[s]]
    BY <1>3 DEF SeedRbac, Waiting, Running, TableTypeOK
  <2>2. TablesGrow
    BY <1>3 DEF SeedRbac, userVars, TablesGrow, Rows
  <2>3. /\ x.table = "permission" => x.row \in PermissionsData
        /\ x.table = "role" => x.row \in Roles
        /\ x.table = "grant" => x.row \in SuperGrants \cup AdminGrants
                             /\ permissions = PermissionsData /\ roles = Roles
    BY <2>1, BatchRows, RbacStored
  <2>4. Stored(x)'
    BY <1>3 DEF SeedRbac, Stored
  <2>5. grants' \subseteq SuperGrants \cup AdminGrants
    BY <1>3, <2>3 DEF SeedRbac, SeedProgress
  <2>6. /\ SeedProgress'
        /\ batch' \in [Seeders -> 0..Done] /\ DOMAIN todo' = Seeders
        /\ \A q \in Seeders : todo'[q] \subseteq IF Running(q)' THEN Batches[batch'[q]] ELSE {}
    BY <1>3, <2>2, <2>4, <2>5, AnsweredStep DEF SeedRbac
  <2>7. SuperGrants \cup AdminGrants \subseteq Roles \X PermissionsData
    BY DEF SuperGrants, AdminGrants, Roles
  <2>8. /\ permissions' \subseteq PermissionsData /\ roles' \subseteq Roles
        /\ roles \subseteq roles'
        /\ grants' \subseteq roles' \X permissions'
    BY <1>3, <2>3, <2>7 DEF SeedRbac, TableTypeOK
  <2>9. UNCHANGED <<email, username, created, userRoles, clock>>
    BY <1>3 DEF SeedRbac, userVars
  <2>10. userRoles' \in [Users -> SUBSET roles']
    BY <2>8, <2>9 DEF TableTypeOK
  <2>11. TableTypeOK'
    BY <2>6, <2>8, <2>9, <2>10 DEF TableTypeOK, Rows
  <2>. QED
    BY <2>2, <2>6, <2>11
<1>4. ASSUME NEW s \in Seeders, NEW x \in todo[s], SeedUserFound(s, x)
      PROVE  TableInv' /\ TablesGrow
  <2>1. TablesGrow
    BY <1>4 DEF SeedUserFound, rbacVars, userVars, TablesGrow, Rows
  <2>2. UNCHANGED <<permissions, roles, grants, email, username, created, userRoles, clock>>
    BY <1>4 DEF SeedUserFound, rbacVars, userVars
  <2>3. Stored(x)'
    BY <1>4, <2>2 DEF SeedUserFound, EmailTaken, Stored, Rows
  <2>4. /\ SeedProgress'
        /\ batch' \in [Seeders -> 0..Done] /\ DOMAIN todo' = Seeders
        /\ \A q \in Seeders : todo'[q] \subseteq IF Running(q)' THEN Batches[batch'[q]] ELSE {}
    BY <1>4, <2>1, <2>2, <2>3, AnsweredStep DEF SeedUserFound, SeedProgress
  <2>5. TableTypeOK'
    BY <2>2, <2>4 DEF TableTypeOK, Rows
  <2>. QED
    BY <2>1, <2>4, <2>5
<1>5. ASSUME NEW s \in Seeders, NEW x \in todo[s], NEW u \in Users, NEW time \in 0..clock,
             SeedUserCreated(s, x, u, time)
      PROVE  TableInv' /\ TablesGrow
  <2>1. x.row \in Roles /\ Running(s)
    BY <1>5, BatchRows DEF SeedUserCreated, Waiting, TableTypeOK, Running
  <2>2. /\ u \notin Rows /\ Rows' = Rows \cup {u}
        /\ email' \in [Users -> Roles \cup {Other, None}]
        /\ username' \in [Users -> Roles \cup {Other, None}]
        /\ created' \in [Users -> Nat]
        /\ email'[u] = x.row
        /\ \A v \in Users \ {u} : email'[v] = email[v] /\ created'[v] = created[v]
    BY <1>5, <2>1, CreateStep DEF SeedUserCreated, TableTypeOK
  <2>3. UNCHANGED <<permissions, roles, grants, userRoles, clock>>
    BY <1>5 DEF SeedUserCreated, rbacVars
  <2>4. TablesGrow
    BY <2>2, <2>3 DEF TablesGrow, Rows
  <2>5. Stored(x)'
    BY <1>5, <2>2 DEF SeedUserCreated, Stored
  <2>6. /\ SeedProgress'
        /\ batch' \in [Seeders -> 0..Done] /\ DOMAIN todo' = Seeders
        /\ \A q \in Seeders : todo'[q] \subseteq IF Running(q)' THEN Batches[batch'[q]] ELSE {}
    BY <1>5, <2>3, <2>4, <2>5, AnsweredStep DEF SeedUserCreated, SeedProgress
  <2>7. TableTypeOK'
    BY <2>2, <2>3, <2>6 DEF TableTypeOK
  <2>. QED
    BY <2>4, <2>6, <2>7
<1>6. ASSUME NEW s \in Seeders, NEW x \in todo[s], SeedUserRole(s, x)
      PROVE  TableInv' /\ TablesGrow
  <2>1. x.row \in roles
    BY <1>6, BatchRows, RbacStored DEF SeedUserRole, Waiting, TableTypeOK, Running
  <2>2. PICK u \in Rows : email[u] = x.row
                          /\ userRoles' = [userRoles EXCEPT ![u] = userRoles[u] \cup {x.row}]
    BY <1>6 DEF SeedUserRole
  <2>3. UNCHANGED <<permissions, roles, grants, email, username, created, clock>>
    BY <1>6 DEF SeedUserRole, rbacVars
  <2>4. /\ userRoles' \in [Users -> SUBSET roles] /\ x.row \in userRoles'[u]
        /\ \A v \in Users : userRoles[v] \subseteq userRoles'[v]
        /\ \A v \in Users \ {u} : userRoles'[v] = userRoles[v]
    BY <2>1, <2>2 DEF TableTypeOK, Rows
  <2>5. TablesGrow
    BY <2>3, <2>4 DEF TablesGrow, Rows
  <2>6. Stored(x)'
    BY <1>6, <2>2, <2>3, <2>4 DEF SeedUserRole, Stored, Rows
  <2>7. /\ SeedProgress'
        /\ batch' \in [Seeders -> 0..Done] /\ DOMAIN todo' = Seeders
        /\ \A q \in Seeders : todo'[q] \subseteq IF Running(q)' THEN Batches[batch'[q]] ELSE {}
    BY <1>6, <2>3, <2>5, <2>6, AnsweredStep DEF SeedUserRole, SeedProgress
  <2>8. TableTypeOK'
    BY <2>2, <2>3, <2>4, <2>7 DEF TableTypeOK, Rows
  <2>. QED
    BY <2>5, <2>7, <2>8
<1>7. CASE TableTick \/ UNCHANGED tableVars
  <2>1. /\ UNCHANGED <<permissions, roles, grants, email, username, created, userRoles, batch, todo>>
        /\ clock' \in Nat
    BY <1>7 DEF TableTick, tableVars, rbacVars, userVars, seedVars, TableTypeOK
  <2>2. TablesGrow
    BY <2>1 DEF TablesGrow
  <2>3. SeedProgress'
    BY <2>1, <2>2, QuietStep DEF seedVars
  <2>4. TableTypeOK'
    BY <2>1 DEF TableTypeOK, Rows, Running
  <2>. QED
    BY <2>2, <2>3, <2>4
<1>. QED
  BY <1>1, <1>2, <1>3, <1>4, <1>5, <1>6, <1>7 DEF TableNext, SeedStep

(* The types hold: no role or grant refers to a row that is not there.     *)
THEOREM TypeCorrect == TableSpec => []TableTypeOK
<1>1. TableInit => TableInv
  BY TableInitially
<1>2. TableInv /\ [TableNext]_tableVars => TableInv'
  BY TableStep
<1>. QED
  BY <1>1, <1>2, PTL DEF TableSpec, TableInv

(* A run of the script that ended well has everything in place: all its    *)
(* batches are stored, and nothing is granted beyond them.                 *)
THEOREM SeedsComplete == TableSpec => []SeedComplete
<1>1. TableInit => TableInv
  BY TableInitially
<1>2. TableInv /\ [TableNext]_tableVars => TableInv'
  BY TableStep
<1>3. TableInv => SeedComplete
  <2>1. SUFFICES ASSUME TableInv, NEW s \in Seeders, batch[s] = Done
                 PROVE  /\ permissions = PermissionsData /\ roles = Roles
                        /\ grants = SuperGrants \cup AdminGrants
                        /\ \A a \in Roles : \E u \in Rows : email[u] = a /\ a \in userRoles[u]
    BY DEF SeedComplete
  <2>2. \A i \in {5, 6, 8, 10, 12} : \A x \in Batches[i] : Stored(x)
    BY <2>1 DEF TableInv, SeedProgress, Done, LastBatch
  <2>3. permissions = PermissionsData /\ roles = Roles
    BY <2>1, RbacStored DEF TableInv, Done, LastBatch
  <2>4. SuperGrants \subseteq grants
    <3>1. SUFFICES ASSUME NEW g \in SuperGrants PROVE g \in grants
      OBVIOUS
    <3>2. [table |-> "grant", row |-> g] \in Batches[5]
      BY DEF Batches, Upserts
    <3>. QED
      BY <2>2, <3>2 DEF Stored
  <2>5. AdminGrants \subseteq grants
    <3>1. SUFFICES ASSUME NEW g \in AdminGrants PROVE g \in grants
      OBVIOUS
    <3>2. [table |-> "grant", row |-> g] \in Batches[6]
      BY DEF Batches, Upserts
    <3>. QED
      BY <2>2, <3>2 DEF Stored
  <2>6. \A a \in Roles : \E u \in Rows : email[u] = a /\ a \in userRoles[u]
    <3>1. /\ [table |-> "userRole", row |-> "SUPER_ADMIN"] \in Batches[8]
          /\ [table |-> "userRole", row |-> "ADMIN"] \in Batches[10]
          /\ [table |-> "userRole", row |-> "USER"] \in Batches[12]
      BY DEF Batches, Upserts
    <3>2. \A a \in Roles : Stored([table |-> "userRole", row |-> a])
      BY <2>2, <3>1 DEF Roles
    <3>. QED
      BY <3>2 DEF Stored
  <2>. QED
    BY <2>1, <2>3, <2>4, <2>5, <2>6 DEF TableInv, SeedProgress
<1>. QED
  BY <1>1, <1>2, <1>3, PTL DEF TableSpec

(* Whatever a run of the script has behind it is in the tables, however    *)
(* many runs overlap, fail and start again.                                *)
THEOREM SeedsProgress == TableSpec => []SeedProgress
<1>1. TableInit => TableInv
  BY TableInitially
<1>2. TableInv /\ [TableNext]_tableVars => TableInv'
  BY TableStep
<1>3. TableInv => SeedProgress
  BY DEF TableInv
<1>. QED
  BY <1>1, <1>2, <1>3, PTL DEF TableSpec

-----------------------------------------------------------------------------
(* The users table and its subsets are finite. *)
LEMMA RowsFinite ==
  /\ IsFiniteSet(Rows) /\ Cardinality(Rows) \in Nat
  /\ \A S \in SUBSET Rows : /\ IsFiniteSet(S) /\ Cardinality(S) \in Nat
                            /\ Cardinality(S) <= Cardinality(Rows)
<1>1. IsFiniteSet(Users)
  BY UsersAssumption, FS_Interval DEF Users
<1>2. IsFiniteSet(Rows)
  BY <1>1, FS_Subset DEF Rows
<1>. QED
  BY <1>2, FS_Subset, FS_CardinalityType

(* There are fewer users newer than u than users. *)
LEMMA NewerFewer ==
  ASSUME NEW u \in Rows, TableTypeOK
  PROVE  /\ Newer(u) \subseteq Rows /\ IsFiniteSet(Newer(u))
         /\ Cardinality(Newer(u)) \in Nat
         /\ Cardinality(Newer(u)) < Cardinality(Rows)
<1>1. Newer(u) \subseteq Rows /\ u \notin Newer(u)
  BY DEF Newer, TableTypeOK, Rows
<1>2. Cardinality(Newer(u)) # Cardinality(Rows)
  BY <1>1, RowsFinite, FS_Subset
<1>. QED
  BY <1>1, <1>2, RowsFinite

(* Whatever becomes of the tables, no fewer users are newer than u than    *)
(* before; and who is alone in time has always been.                       *)
LEMMA NewerGrows ==
  ASSUME TableTypeOK, TableTypeOK', TablesGrow, NEW u \in Rows
  PROVE  /\ u \in Rows' /\ Rows \subseteq Rows'
         /\ Cardinality(Newer(u)') \in Nat
         /\ Cardinality(Newer(u)) <= Cardinality(Newer(u)')
         /\ AloneInTime(u)' => AloneInTime(u)
<1>1. Rows \subseteq Rows'
  BY DEF TablesGrow, Rows
<1>2. Newer(u) \subseteq Newer(u)'
  BY <1>1 DEF Newer, TablesGrow
<1>3. IsFiniteSet(Newer(u)')
  <2>1. IsFiniteSet(Users)
    BY UsersAssumption, FS_Interval DEF Users
  <2>. QED
    BY <2>1, FS_Subset DEF Newer, Rows
<1>4. Cardinality(Newer(u)) <= Cardinality(Newer(u)')
  BY <1>2, <1>3, FS_Subset
<1>5. AloneInTime(u)' => AloneInTime(u)
  BY <1>1 DEF AloneInTime, TablesGrow
<1>. QED
  BY <1>1, <1>3, <1>4, <1>5, FS_CardinalityType

(* Multiples of the page size. *)
LEMMA NextPage ==
  ASSUME NEW k \in Nat \ {0}
  PROVE  /\ (k - 1) * PageSize \in Nat /\ k * PageSize \in Nat
         /\ k * PageSize = (k - 1) * PageSize + PageSize
<1>1. PageSize \in Nat
  BY PageAssumption
<1>2. PICK j \in Nat : k = j + 1
  BY k - 1 \in Nat
<1>3. (j + 1) * PageSize = j * PageSize + PageSize
  BY <1>1
<1>4. j * PageSize \in Nat
  BY <1>1
<1>. QED
  BY <1>1, <1>2, <1>3, <1>4

(* A user that is not on page k, nor on one before, has at least k pages   *)
(* of newer users.                                                         *)
LEMMA PageMisses ==
  ASSUME TableTypeOK, NEW k \in Nat \ {0}, NEW before \in SUBSET Rows,
         NEW P \in SUBSET (Rows \ before), IsPage(P, before, k),
         NEW u \in Rows, AloneInTime(u), u \notin P,
         Cardinality(Newer(u)) >= (k - 1) * PageSize
  PROVE  Cardinality(Newer(u)) >= k * PageSize
<1>. DEFINE n == Cardinality(Rows)
            N == Cardinality(Newer(u))
            skip == (k - 1) * PageSize
            both == before \cup P
<1>1. /\ n \in Nat /\ N \in Nat /\ N < n /\ skip \in Nat /\ PageSize \in Nat
      /\ k * PageSize = skip + PageSize
  BY RowsFinite, NewerFewer, NextPage, PageAssumption
<1>2. /\ IsFiniteSet(before) /\ IsFiniteSet(P) /\ IsFiniteSet(both) /\ IsFiniteSet(Rows \ before)
      /\ Cardinality(P) \in Nat /\ Cardinality(both) \in Nat /\ Cardinality(before) \in Nat
      /\ Cardinality(Rows \ before) \in Nat
  BY RowsFinite
<1>3. Cardinality(before) = skip
  BY <1>1 DEF IsPage, Least
<1>4. \A v \in Rows : created[v] \in Nat
  BY DEF TableTypeOK, Rows
<1>5. u \notin before
  <2>1. SUFFICES ASSUME u \in before PROVE FALSE
    OBVIOUS
  <2>2. Newer(u) \subseteq before /\ u \notin Newer(u)
    BY <1>4, <2>1 DEF IsPage, Newest, Newer
  <2>3. N <= Cardinality(before) /\ N # Cardinality(before)
    BY <1>2, <2>1, <2>2, FS_Subset
  <2>. QED
    BY <1>1, <1>3, <2>3
<1>6. both \subseteq Newer(u)
  BY <1>4, <1>5 DEF IsPage, Newest, Newer, AloneInTime
<1>7. Cardinality(both) <= N
  BY <1>6, NewerFewer, FS_Subset
<1>8. Cardinality(both) = skip + Cardinality(P)
  <2>1. before \cap P = {}
    OBVIOUS
  <2>. QED
    BY <1>2, <1>3, <2>1, FS_Union, FS_EmptySet
<1>9. Cardinality(P) # Cardinality(Rows \ before)
  <2>1. P \subseteq Rows \ before /\ u \in Rows \ before /\ u \notin P
    BY <1>5
  <2>. QED
    BY <1>2, <2>1, FS_Subset
<1>10. Cardinality(P) = PageSize
  BY <1>9 DEF IsPage, Least
<1>. QED
  BY <1>1, <1>7, <1>8, <1>10

(* The tables are as Seeding leaves them, and who is missing is ahead.     *)
DirectoryInv == TableInv /\ DirectoryTypeOK /\ MissingIsAhead

LEMMA DirectoryInitially ==
  ASSUME DirectoryInit
  PROVE  DirectoryInv
<1>1. /\ \A u \in Users : email[u] \in Roles \cup {None} /\ userRoles[u] \in SUBSET roles
      /\ \A u \in Users \ Rows : userRoles[u] = {}
  <2>1. \A u \in Users : u <= 3 => u \in {1, 2, 3}
    BY UsersAssumption DEF Users
  <2>2. \A u \in {1, 2, 3} : Accounts[u] \in Roles
    BY DEF Accounts, Roles
  <2>. QED
    BY <2>1, <2>2, NamesAssumption DEF DirectoryInit, Seeded, Rows
<1>2. SuperGrants \cup AdminGrants \subseteq roles \X permissions
  BY DEF DirectoryInit, Seeded, SuperGrants, AdminGrants, Roles
<1>3. \A s \in Seeders : ~Running(s) /\ todo[s] = {} /\ batch[s] = 0
  BY DEF DirectoryInit, Seeded, Running, LastBatch
<1>4. /\ email \in [Users -> Roles \cup {Other, None}] /\ username = email
      /\ userRoles \in [Users -> SUBSET roles]
  BY <1>1 DEF DirectoryInit, Seeded
<1>5. clock \in Nat /\ created \in [Users -> Nat]
  <2>1. clock = 1 /\ created \in [Users -> 0..clock]
    BY DEF DirectoryInit, Seeded
  <2>. QED
    BY <2>1
<1>6. TableTypeOK
  <2>1. permissions \subseteq PermissionsData /\ roles \subseteq Roles
        /\ grants \subseteq roles \X permissions
    BY <1>2 DEF DirectoryInit, Seeded
  <2>2. batch \in [Seeders -> 0..Done] /\ DOMAIN todo = Seeders
    BY DEF DirectoryInit, Seeded, Done, LastBatch
  <2>3. username \in [Users -> Roles \cup {Other, None}]
    BY <1>4
  <2>. QED
    BY <1>1, <1>3, <1>4, <1>5, <2>1, <2>2, <2>3 DEF TableTypeOK
<1>7. SeedProgress
  BY <1>3 DEF DirectoryInit, Seeded, SeedProgress, LastBatch
<1>8. DirectoryTypeOK /\ MissingIsAhead
  BY <1>6 DEF DirectoryInit, DirectoryTypeOK, MissingIsAhead
<1>. QED
  BY <1>6, <1>7, <1>8 DEF TableInv, DirectoryInv

(* A step of the tables, or none.                                          *)
LEMMA DirectoryTableStep ==
  ASSUME DirectoryInv, [TableNext]_tableVars, UNCHANGED walkVars
  PROVE  DirectoryInv'
<1>1. TableInv' /\ TablesGrow /\ TableTypeOK /\ TableTypeOK'
  BY TableStep DEF DirectoryInv, TableInv
<1>2. Rows \subseteq Rows'
  BY <1>1 DEF TablesGrow, Rows
<1>3. DirectoryTypeOK'
  BY <1>1, <1>2 DEF DirectoryInv, DirectoryTypeOK, walkVars
<1>4. ASSUME NEW w \in Walkers, NEW u \in expect'[w] \ seen'[w], AloneInTime(u)'
      PROVE  /\ stage'[w] # "ended"
             /\ Cardinality(Newer(u)') >= (page'[w] - 1) * PageSize
             /\ stage'[w] = "count" /\ u \notin got'[w] =>
                  Cardinality(Newer(u)') >= page'[w] * PageSize
  <2>1. u \in expect[w] \ seen[w] /\ u \in Rows
    BY <1>4 DEF walkVars, DirectoryInv, DirectoryTypeOK
  <2>2. /\ AloneInTime(u) /\ Cardinality(Newer(u)) <= Cardinality(Newer(u)')
        /\ Cardinality(Newer(u)') \in Nat
    BY <1>1, <1>4, <2>1, NewerGrows
  <2>3. Cardinality(Newer(u)) \in Nat
    BY <1>1, <2>1, NewerFewer
  <2>4. page[w] \in Nat \ {0}
    BY DEF DirectoryInv, DirectoryTypeOK
  <2>5. (page[w] - 1) * PageSize \in Nat /\ page[w] * PageSize \in Nat
    BY <2>4, NextPage
  <2>6. /\ stage[w] # "ended"
        /\ Cardinality(Newer(u)) >= (page[w] - 1) * PageSize
        /\ stage[w] = "count" /\ u \notin got[w] =>
             Cardinality(Newer(u)) >= page[w] * PageSize
    BY <2>1, <2>2 DEF DirectoryInv, MissingIsAhead
  <2>7. UNCHANGED <<stage, page, got>>
    BY DEF walkVars
  <2>. QED
    BY <2>2, <2>3, <2>5, <2>6, <2>7
<1>5. MissingIsAhead'
  BY <1>4 DEF MissingIsAhead
<1>. QED
  BY <1>1, <1>3, <1>5 DEF DirectoryInv

(* A step of a client, which leaves the tables alone: what the client is   *)
(* still to be sent is ahead of it.                                        *)
Ahead(w, u) ==
  /\ stage[w] # "ended"
  /\ Cardinality(Newer(u)) >= (page[w] - 1) * PageSize
  /\ stage[w] = "count" /\ u \notin got[w] => Cardinality(Newer(u)) >= page[w] * PageSize

LEMMA ClientStep ==
  ASSUME DirectoryInv, UNCHANGED tableVars, NEW w \in Walkers,
         \A q \in Walkers \ {w} : /\ stage'[q] = stage[q] /\ page'[q] = page[q]
                                  /\ got'[q] = got[q] /\ seen'[q] = seen[q]
                                  /\ expect'[q] = expect[q],
         DirectoryTypeOK',
         \A u \in expect'[w] \ seen'[w] : AloneInTime(u)' => Ahead(w, u)'
  PROVE  DirectoryInv'
<1>1. UNCHANGED <<permissions, roles, grants, email, username, created, userRoles,
                  batch, todo, clock>>
  BY DEF tableVars
<1>2. TableInv'
  BY <1>1, TableStep DEF DirectoryInv, tableVars
<1>3. \A u : (AloneInTime(u)' <=> AloneInTime(u)) /\ Newer(u)' = Newer(u)
  BY <1>1 DEF AloneInTime, Newer, Rows
<1>4. \A q \in Walkers \ {w} : \A u \in expect'[q] \ seen'[q] : AloneInTime(u) => Ahead(q, u)'
  BY <1>3 DEF DirectoryInv, MissingIsAhead, Ahead
<1>5. MissingIsAhead'
  BY <1>3, <1>4 DEF MissingIsAhead, Ahead
<1>. QED
  BY <1>2, <1>5 DEF DirectoryInv

LEMMA DirectoryStep ==
  ASSUME DirectoryInv, [DirectoryNext]_directoryVars
  PROVE  DirectoryInv'
<1>. USE DEF DirectoryInv
<1>1. CASE (TableNext /\ UNCHANGED walkVars) \/ UNCHANGED directoryVars
  <2>1. [TableNext]_tableVars /\ UNCHANGED walkVars
    BY <1>1 DEF directoryVars, tableVars, walkVars
  <2>. QED
    BY <2>1, DirectoryTableStep
<1>2. ASSUME NEW w \in Walkers, NEW before \in SUBSET Rows, NEW P \in SUBSET (Rows \ before),
             ListUsers(w, P, before)
      PROVE  DirectoryInv'
  <2>1. /\ stage' = [stage EXCEPT ![w] = "count"] /\ got' = [got EXCEPT ![w] = P]
        /\ expect' = IF page[w] = 1 THEN [expect EXCEPT ![w] = Rows] ELSE expect
        /\ stage[w] = "ask" /\ IsPage(P, before, page[w])
        /\ UNCHANGED tableVars /\ page' = page /\ seen' = seen
    BY <1>2 DEF ListUsers
  <2>2. Rows' = Rows /\ TableTypeOK'
    BY <2>1, TableStep DEF tableVars, Rows, TableInv
  <2>3. /\ stage' \in [Walkers -> {"ask", "count", "ended"}]
        /\ got' \in [Walkers -> SUBSET Rows] /\ expect' \in [Walkers -> SUBSET Rows]
    BY <2>1 DEF DirectoryTypeOK
  <2>4. DirectoryTypeOK'
    BY <2>1, <2>2, <2>3 DEF DirectoryTypeOK
  <2>5. ASSUME NEW u \in expect'[w] \ seen'[w], AloneInTime(u)'
        PROVE  Ahead(w, u)'
    <3>1. AloneInTime(u) /\ Newer(u)' = Newer(u) /\ u \in Rows /\ page[w] \in Nat \ {0}
      BY <2>1, <2>3, <2>5 DEF AloneInTime, Newer, Rows, tableVars, DirectoryTypeOK
    <3>2. TableTypeOK /\ Cardinality(Newer(u)) \in Nat
      BY <3>1, NewerFewer DEF DirectoryTypeOK
    <3>3. Cardinality(Newer(u)) >= (page[w] - 1) * PageSize
      <4>1. CASE page[w] = 1
        BY <3>2, <4>1, PageAssumption
      <4>2. CASE page[w] # 1
        BY <2>1, <3>1, <4>2 DEF MissingIsAhead
      <4>. QED
        BY <4>1, <4>2
    <3>4. u \notin P => Cardinality(Newer(u)) >= page[w] * PageSize
      BY <2>1, <3>1, <3>2, <3>3, PageMisses
    <3>5. stage'[w] = "count" /\ got'[w] = P
      BY <2>1 DEF DirectoryTypeOK
    <3>. QED
      BY <2>1, <3>1, <3>3, <3>4, <3>5 DEF Ahead
  <2>6. \A q \in Walkers \ {w} : /\ stage'[q] = stage[q] /\ page'[q] = page[q]
                                 /\ got'[q] = got[q] /\ seen'[q] = seen[q]
                                 /\ expect'[q] = expect[q]
    BY <2>1 DEF DirectoryTypeOK
  <2>. QED
    BY <2>1, <2>4, <2>5, <2>6, ClientStep
<1>3. ASSUME NEW w \in Walkers, CountUsers(w)
      PROVE  DirectoryInv'
  <2>1. /\ stage[w] = "count" /\ page[w] \in Nat \ {0}
        /\ seen' = [seen EXCEPT ![w] = seen[w] \cup got[w]] /\ got' = [got EXCEPT ![w] = {}]
        /\ UNCHANGED tableVars /\ expect' = expect
        /\ \/ /\ page[w] * PageSize >= Cardinality(Rows)
              /\ stage' = [stage EXCEPT ![w] = "ended"] /\ page' = page
           \/ /\ stage' = [stage EXCEPT ![w] = "ask"]
              /\ page' = [page EXCEPT ![w] = page[w] + 1]
    BY <1>3 DEF CountUsers, DirectoryTypeOK
  <2>2. Rows' = Rows /\ TableTypeOK'
    BY <2>1, TableStep DEF tableVars, Rows, TableInv
  <2>3. /\ stage' \in [Walkers -> {"ask", "count", "ended"}]
        /\ page' \in [Walkers -> Nat \ {0}]
        /\ got' \in [Walkers -> SUBSET Rows] /\ seen' \in [Walkers -> SUBSET Rows]
    BY <2>1 DEF DirectoryTypeOK
  <2>4. DirectoryTypeOK'
    BY <2>1, <2>2, <2>3 DEF DirectoryTypeOK
  <2>5. ASSUME NEW u \in expect'[w] \ seen'[w], AloneInTime(u)'
        PROVE  Ahead(w, u)'
    <3>1. /\ AloneInTime(u) /\ Newer(u)' = Newer(u) /\ u \in Rows
          /\ u \notin seen[w] /\ u \notin got[w]
      BY <2>1, <2>5 DEF AloneInTime, Newer, Rows, tableVars, DirectoryTypeOK
    <3>2. /\ Cardinality(Newer(u)) \in Nat /\ Cardinality(Rows) \in Nat
          /\ Cardinality(Newer(u)) < Cardinality(Rows)
      BY <3>1, NewerFewer, RowsFinite DEF DirectoryTypeOK
    <3>3. Cardinality(Newer(u)) >= page[w] * PageSize
      BY <2>1, <3>1 DEF MissingIsAhead
    <3>4. page[w] * PageSize \in Nat
      BY <2>1, NextPage
    <3>5. /\ stage' = [stage EXCEPT ![w] = "ask"]
          /\ page' = [page EXCEPT ![w] = page[w] + 1]
      BY <2>1, <3>2, <3>3, <3>4
    <3>6. stage'[w] = "ask" /\ page'[w] - 1 = page[w]
      BY <2>1, <3>5 DEF DirectoryTypeOK
    <3>. QED
      BY <3>1, <3>3, <3>6 DEF Ahead
  <2>6. \A q \in Walkers \ {w} : /\ stage'[q] = stage[q] /\ page'[q] = page[q]
                                 /\ got'[q] = got[q] /\ seen'[q] = seen[q]
                                 /\ expect'[q] = expect[q]
    BY <2>1 DEF DirectoryTypeOK
  <2>. QED
    BY <2>1, <2>4, <2>5, <2>6, ClientStep
<1>4. ASSUME NEW w \in Walkers, ListFail(w)
      PROVE  DirectoryInv'
  <2>1. /\ stage[w] = "count"
        /\ stage' = [stage EXCEPT ![w] = "ask"] /\ got' = [got EXCEPT ![w] = {}]
        /\ UNCHANGED tableVars /\ page' = page /\ seen' = seen /\ expect' = expect
    BY <1>4 DEF ListFail
  <2>2. Rows' = Rows /\ TableTypeOK'
    BY <2>1, TableStep DEF tableVars, Rows, TableInv
  <2>3. /\ stage' \in [Walkers -> {"ask", "count", "ended"}]
        /\ got' \in [Walkers -> SUBSET Rows]
    BY <2>1 DEF DirectoryTypeOK
  <2>4. DirectoryTypeOK'
    BY <2>1, <2>2, <2>3 DEF DirectoryTypeOK
  <2>5. ASSUME NEW u \in expect'[w] \ seen'[w], AloneInTime(u)'
        PROVE  Ahead(w, u)'
    <3>1. AloneInTime(u) /\ Newer(u)' = Newer(u) /\ stage'[w] = "ask"
      BY <2>1, <2>5 DEF AloneInTime, Newer, Rows, tableVars, DirectoryTypeOK
    <3>. QED
      BY <2>1, <2>5, <3>1 DEF Ahead, MissingIsAhead
  <2>6. \A q \in Walkers \ {w} : /\ stage'[q] = stage[q] /\ page'[q] = page[q]
                                 /\ got'[q] = got[q] /\ seen'[q] = seen[q]
                                 /\ expect'[q] = expect[q]
    BY <2>1 DEF DirectoryTypeOK
  <2>. QED
    BY <2>1, <2>4, <2>5, <2>6, ClientStep
<1>5. ASSUME NEW w \in Walkers, StartOver(w)
      PROVE  DirectoryInv'
  <2>1. /\ stage' = [stage EXCEPT ![w] = "ask"] /\ page' = [page EXCEPT ![w] = 1]
        /\ got' = [got EXCEPT ![w] = {}] /\ seen' = [seen EXCEPT ![w] = {}]
        /\ expect' = [expect EXCEPT ![w] = {}]
        /\ UNCHANGED tableVars
    BY <1>5 DEF StartOver
  <2>2. Rows' = Rows /\ TableTypeOK'
    BY <2>1, TableStep DEF tableVars, Rows, TableInv
  <2>3. DirectoryTypeOK'
    BY <2>1, <2>2 DEF DirectoryTypeOK
  <2>4. \A u \in expect'[w] \ seen'[w] : FALSE
    BY <2>1 DEF DirectoryTypeOK
  <2>5. \A q \in Walkers \ {w} : /\ stage'[q] = stage[q] /\ page'[q] = page[q]
                                 /\ got'[q] = got[q] /\ seen'[q] = seen[q]
                                 /\ expect'[q] = expect[q]
    BY <2>1 DEF DirectoryTypeOK
  <2>. QED
    BY <2>1, <2>3, <2>4, <2>5, ClientStep
<1>. QED
  BY <1>1, <1>2, <1>3, <1>4, <1>5 DEF DirectoryNext

(* The types hold: a client is only ever sent users there are.             *)
THEOREM DirectoryTypeCorrect == DirectorySpec => []DirectoryTypeOK
<1>1. DirectoryInit => DirectoryInv
  BY DirectoryInitially
<1>2. DirectoryInv /\ [DirectoryNext]_directoryVars => DirectoryInv'
  BY DirectoryStep
<1>. QED
  BY <1>1, <1>2, PTL DEF DirectorySpec, DirectoryInv

(* Who is still missing from a walk is on a page not yet read, whatever    *)
(* was written to the tables since the first page.                         *)
THEOREM MissingStaysAhead == DirectorySpec => []MissingIsAhead
<1>1. DirectoryInit => DirectoryInv
  BY DirectoryInitially
<1>2. DirectoryInv /\ [DirectoryNext]_directoryVars => DirectoryInv'
  BY DirectoryStep
<1>. QED
  BY <1>1, <1>2, PTL DEF DirectorySpec, DirectoryInv

(* A walk through the pages of getAllUsers that ended missed nobody who    *)
(* was there when it began and was alone in its created_at.                *)
THEOREM WalksMissNobody == DirectorySpec => []WalkMissesNobody
<1>1. MissingIsAhead => WalkMissesNobody
  BY DEF MissingIsAhead, WalkMissesNobody
<1>. QED
  BY <1>1, MissingStaysAhead, PTL

-----------------------------------------------------------------------------
(* Induction over the naturals, for a set of them. *)
LEMMA CountingUp ==
  ASSUME NEW T, 0 \in T, \A n \in Nat : n \in T => n + 1 \in T
  PROVE  Nat \subseteq T
<1>1. SUFFICES ASSUME Nat \ T # {} PROVE FALSE
  OBVIOUS
<1>2. IsWellFoundedOn(OpToRel(<, Nat), Nat)
  BY NatLessThanWellFounded
<1>3. PICK m \in Nat \ T : \A y \in Nat \ T : <<y, m>> \notin OpToRel(<, Nat)
  BY <1>1, <1>2, WFMin
<1>4. \A y \in Nat \ T : ~(y < m)
  BY <1>3 DEF OpToRel
<1>5. m - 1 \in Nat /\ m - 1 < m
  OBVIOUS
<1>6. m - 1 \in T
  BY <1>4, <1>5
<1>. QED
  BY <1>5, <1>6

(* A nonempty set of places in a list has a last one. *)
LEMMA LastPlace ==
  ASSUME NEW n \in Nat, NEW s \in SUBSET (1..n), s # {}
  PROVE  Max(s) \in s /\ \A y \in s : y <= Max(s)
<1>. DEFINE T == {m \in Nat : \A t \in SUBSET (1..m) :
                    t # {} => \E x \in t : \A y \in t : x >= y}
<1>1. 0 \in T
  <2>1. SUBSET (1..0) = {{}}
    OBVIOUS
  <2>. QED
    BY <2>1
<1>2. ASSUME NEW m \in Nat, m \in T
      PROVE  m + 1 \in T
  <2> SUFFICES ASSUME NEW t \in SUBSET (1..m + 1), t # {}
               PROVE  \E x \in t : \A y \in t : x >= y
    OBVIOUS
  <2>1. CASE m + 1 \in t
    BY <2>1
  <2>2. CASE m + 1 \notin t
    <3>1. t \in SUBSET (1..m)
      BY <2>2
    <3>. QED
      BY <1>2, <3>1
  <2>. QED
    BY <2>1, <2>2
<1>. HIDE DEF T
<1>3. n \in T
  BY <1>1, <1>2, CountingUp
<1>4. \E x \in s : \A y \in s : x >= y
  BY <1>3 DEF T
<1>. QED
  BY <1>4 DEF Max

LEMMA LastIsMax ==
  ASSUME NEW n \in Nat, NEW s \in SUBSET (1..n), n \in s
  PROVE  Max(s) = n
<1>1. Max(s) \in s /\ n <= Max(s)
  BY LastPlace
<1>2. Max(s) \in 1..n
  BY <1>1
<1>. QED
  BY <1>1, <1>2

-----------------------------------------------------------------------------
(* Flatten folds AddRole over the roles, and AddRole folds AddPermission   *)
(* over the permissions of one.  What the library's fold is, is shown once *)
(* for both: what is folded, `what', is a permission or the list of a role.*)
Adding(what, acc, x) ==
  IF what = "permission" THEN AddPermission(acc, x) ELSE AddRole(acc, x)

(* The library folds over the sets of places in the list, the last place of *)
(* a set last.                                                             *)
Folds(F, S, what, acc, list) ==
  F = [s \in SUBSET S |->
         IF s = {} THEN acc ELSE Adding(what, F[s \ {Max(s)}], list[Max(s)])]

(* There is such a function, by induction over the length of the list. *)
LEMMA FoldExists ==
  ASSUME NEW what, NEW acc, NEW list, NEW n \in Nat
  PROVE  \E F : Folds(F, 1..n, what, acc, list)
<1>. DEFINE T == {m \in Nat : \E F : Folds(F, 1..m, what, acc, list)}
<1>1. 0 \in T
  <2>. DEFINE F == [s \in SUBSET (1..0) |-> acc]
  <2>1. \A s \in SUBSET (1..0) : s = {}
    OBVIOUS
  <2>2. Folds(F, 1..0, what, acc, list)
    BY <2>1 DEF Folds
  <2>. QED
    BY <2>2
<1>2. ASSUME NEW m \in Nat, m \in T
      PROVE  m + 1 \in T
  <2>1. PICK F : Folds(F, 1..m, what, acc, list)
    BY <1>2
  <2>. DEFINE G == [s \in SUBSET (1..m + 1) |->
                      IF m + 1 \in s THEN Adding(what, F[s \ {m + 1}], list[m + 1])
                                     ELSE F[s]]
  <2>2. ASSUME NEW s \in SUBSET (1..m + 1)
        PROVE  G[s] = IF s = {} THEN acc
                      ELSE Adding(what, G[s \ {Max(s)}], list[Max(s)])
    <3>1. CASE s = {}
      <4>1. G[s] = F[s]
        BY <3>1
      <4>2. F[s] = acc
        BY <2>1, <3>1 DEF Folds
      <4>. QED
        BY <3>1, <4>1, <4>2
    <3>2. CASE m + 1 \in s
      <4>1. Max(s) = m + 1
        <5>1. m + 1 \in Nat
          OBVIOUS
        <5>. QED
          BY <3>2, <5>1, LastIsMax
      <4>2. G[s \ {m + 1}] = F[s \ {m + 1}]
        OBVIOUS
      <4>3. G[s] = Adding(what, F[s \ {m + 1}], list[m + 1])
        BY <3>2
      <4>. HIDE DEF G
      <4>. QED
        BY <3>2, <4>1, <4>2, <4>3
    <3>3. CASE s # {} /\ m + 1 \notin s
      <4>1. s \in SUBSET (1..m)
        BY <3>3
      <4>2. F[s] = Adding(what, F[s \ {Max(s)}], list[Max(s)])
        BY <2>1, <3>3, <4>1 DEF Folds
      <4>3. G[s] = F[s] /\ G[s \ {Max(s)}] = F[s \ {Max(s)}]
        BY <3>3
      <4>. QED
        BY <3>3, <4>2, <4>3
    <3>. QED
      BY <3>1, <3>2, <3>3
  <2>3. Folds(G, 1..m + 1, what, acc, list)
    <3>1. G = [s \in SUBSET (1..m + 1) |-> G[s]]
      OBVIOUS
    <3>. HIDE DEF G
    <3>. QED
      BY <2>2, <3>1 DEF Folds
  <2>. HIDE DEF G
  <2>. QED
    BY <2>3
<1>. HIDE DEF T
<1>3. n \in T
  BY <1>1, <1>2, CountingUp
<1>. QED
  BY <1>3 DEF T

(* run[i] is the accumulator after the first i elements of the list. *)
IsRun(run, n, what, acc, list) ==
  /\ run[0] = acc
  /\ \A i \in 0..n - 1 : run[i + 1] = Adding(what, run[i], list[i + 1])

(* Such a function runs along the list. *)
LEMMA FoldRuns ==
  ASSUME NEW what, NEW acc, NEW list, NEW n \in Nat, NEW F,
         Folds(F, 1..n, what, acc, list)
  PROVE  \E run : IsRun(run, n, what, acc, list) /\ F[1..n] = run[n]
<1>. DEFINE run == [i \in 0..n |-> F[1..i]]
<1>1. run[0] = acc
  <2>1. run[0] = F[{}]
    OBVIOUS
  <2>2. F[{}] = acc
    BY DEF Folds
  <2>. QED
    BY <2>1, <2>2
<1>2. ASSUME NEW i \in 0..n - 1
      PROVE  run[i + 1] = Adding(what, run[i], list[i + 1])
  <2>1. /\ i + 1 \in Nat /\ i + 1 \in 1..i + 1 /\ i \in 0..n /\ i + 1 \in 0..n
        /\ 1..i + 1 \subseteq 1..n /\ (1..i + 1) \ {i + 1} = 1..i
    OBVIOUS
  <2>2. Max(1..i + 1) = i + 1
    BY <2>1, LastIsMax
  <2>3. F[1..i + 1] = Adding(what, F[(1..i + 1) \ {Max(1..i + 1)}], list[Max(1..i + 1)])
    BY <2>1 DEF Folds
  <2>4. run[i] = F[1..i] /\ run[i + 1] = F[1..i + 1]
    BY <2>1
  <2>. QED
    BY <2>1, <2>2, <2>3, <2>4
<1>3. F[1..n] = run[n]
  OBVIOUS
<1>. HIDE DEF run
<1>4. IsRun(run, n, what, acc, list)
  BY <1>1, <1>2 DEF IsRun
<1>. QED
  BY <1>3, <1>4

(* AddRole runs along the permissions of a role. *)
LEMMA RoleRun ==
  ASSUME NEW acc, NEW n \in Nat, NEW list, DOMAIN list = 1..n
  PROVE  \E run : IsRun(run, n, "permission", acc, list) /\ AddRole(acc, list) = run[n]
<1>. DEFINE Is(F) == F = [s \in SUBSET DOMAIN list |->
                            IF s = {} THEN acc
                            ELSE AddPermission(F[s \ {Max(s)}], list[Max(s)])]
            H == CHOOSE F : Is(F)
<1>1. \A F : Is(F) <=> Folds(F, 1..n, "permission", acc, list)
  BY DEF Folds, Adding
<1>2. Is(H)
  <2>1. \E F : Is(F)
    BY <1>1, FoldExists
  <2>. QED
    BY <2>1
<1>3. AddRole(acc, list) = H[DOMAIN list]
  BY DEF AddRole, FoldLeft, MapThenFoldSet
<1>. HIDE DEF H, Is
<1>. QED
  BY <1>1, <1>2, <1>3, FoldRuns

(* Flatten runs along the roles. *)
LEMMA FlattenRun ==
  ASSUME NEW n \in Nat, NEW lists, DOMAIN lists = 1..n
  PROVE  \E run : IsRun(run, n, "role", NoPermissions, lists) /\ Flatten(lists) = run[n]
<1>. DEFINE Is(F) == F = [s \in SUBSET DOMAIN lists |->
                            IF s = {} THEN NoPermissions
                            ELSE AddRole(F[s \ {Max(s)}], lists[Max(s)])]
            H == CHOOSE F : Is(F)
<1>1. \A F : Is(F) <=> Folds(F, 1..n, "role", NoPermissions, lists)
  BY DEF Folds, Adding
<1>2. Is(H)
  <2>1. \E F : Is(F)
    BY <1>1, FoldExists
  <2>. QED
    BY <2>1
<1>3. Flatten(lists) = H[DOMAIN lists]
  BY DEF Flatten, FoldLeft, MapThenFoldSet
<1>. HIDE DEF H, Is
<1>. QED
  BY <1>1, <1>2, <1>3, FoldRuns

-----------------------------------------------------------------------------
(* An accumulator: a list of actions for each of its resources, no action  *)
(* twice in one.                                                           *)
IsAccumulator(acc) ==
  \A r \in DOMAIN acc : acc[r] \in Seq(Actions) /\ IsInjective(acc[r])

(* acc allows what before allowed, and the permissions of S. *)
AllowsToo(acc, before, S) ==
  \A q \in Permission :
    Authorized(acc, q.resource, q.action) <=>
      Authorized(before, q.resource, q.action) \/ q \in S

(* One permission is added, and only that. *)
LEMMA PermissionAdds ==
  ASSUME NEW acc, IsAccumulator(acc), NEW p \in Permission
  PROVE  /\ IsAccumulator(AddPermission(acc, p))
         /\ AllowsToo(AddPermission(acc, p), acc, {p})
<1>. DEFINE new == AddPermission(acc, p)
            old == ActionsOn(acc, p.resource)
<1>1. p.resource \in Resources /\ p.action \in Actions
  BY DEF Permission
<1>2. old \in Seq(Actions) /\ IsInjective(old)
  <2>1. CASE p.resource \in DOMAIN acc
    BY <2>1 DEF ActionsOn, IsAccumulator
  <2>2. CASE p.resource \notin DOMAIN acc
    <3>1. old = <<>>
      BY <2>2 DEF ActionsOn
    <3>2. <<>> \in Seq(Actions) /\ DOMAIN <<>> = {}
      OBVIOUS
    <3>. HIDE DEF old
    <3>. QED
      BY <3>1, <3>2 DEF IsInjective
  <2>. QED
    BY <2>1, <2>2
<1>3. /\ DOMAIN new = DOMAIN acc \cup {p.resource}
      /\ \A r \in DOMAIN acc \ {p.resource} : new[r] = acc[r]
      /\ new[p.resource] = IF Contains(old, p.action) THEN old ELSE Append(old, p.action)
  BY DEF AddPermission
<1>. HIDE DEF new, old
<1>4. /\ new[p.resource] \in Seq(Actions) /\ IsInjective(new[p.resource])
      /\ \A a \in Actions : Contains(new[p.resource], a) <=> Contains(old, a) \/ a = p.action
  <2>1. CASE Contains(old, p.action)
    BY <1>2, <1>3, <2>1
  <2>2. CASE ~Contains(old, p.action)
    <3>1. new[p.resource] = Append(old, p.action)
      BY <1>3, <2>2
    <3>2. /\ Append(old, p.action) \in Seq(Actions)
          /\ Len(Append(old, p.action)) = Len(old) + 1 /\ Len(old) \in Nat
          /\ DOMAIN old = 1..Len(old) /\ DOMAIN Append(old, p.action) = 1..Len(old) + 1
          /\ \A i \in 1..Len(old) : Append(old, p.action)[i] = old[i]
          /\ Append(old, p.action)[Len(old) + 1] = p.action
      BY <1>1, <1>2
    <3>3. IsInjective(Append(old, p.action))
      BY <1>2, <2>2, <3>2 DEF IsInjective, Contains
    <3>4. \A a \in Actions : Contains(Append(old, p.action), a) <=> Contains(old, a) \/ a = p.action
      BY <3>2 DEF Contains
    <3>. QED
      BY <3>1, <3>2, <3>3, <3>4
  <2>. QED
    BY <2>1, <2>2
<1>5. IsAccumulator(new)
  BY <1>3, <1>4 DEF IsAccumulator
<1>6. ASSUME NEW q \in Permission
      PROVE  Authorized(new, q.resource, q.action) <=>
               Authorized(acc, q.resource, q.action) \/ q = p
  <2>1. q.resource \in Resources /\ q.action \in Actions
    BY DEF Permission
  <2>2. CASE q.resource = p.resource
    <3>1. q = p <=> q.action = p.action
      BY <2>2 DEF Permission
    <3>2. ActionsOn(new, q.resource) = new[p.resource] /\ ActionsOn(acc, q.resource) = old
      BY <1>3, <2>2 DEF ActionsOn, old
    <3>. QED
      BY <1>4, <2>1, <3>1, <3>2 DEF Authorized
  <2>3. CASE q.resource # p.resource
    <3>1. ActionsOn(new, q.resource) = ActionsOn(acc, q.resource)
      BY <1>3, <2>3 DEF ActionsOn
    <3>. QED
      BY <2>3, <3>1 DEF Authorized
  <2>. QED
    BY <2>2, <2>3
<1>. QED
  BY <1>5, <1>6 DEF AllowsToo, new

(* The permissions of one role are added, and only those: Given(m) is what *)
(* the first m of them give.                                               *)
LEMMA RoleAdds ==
  ASSUME NEW acc, IsAccumulator(acc), NEW list \in Seq(Permission)
  PROVE  /\ IsAccumulator(AddRole(acc, list))
         /\ AllowsToo(AddRole(acc, list), acc, {list[i] : i \in 1..Len(list)})
<1>. DEFINE n == Len(list)
            Given(m) == {list[i] : i \in 1..m}
<1>1. n \in Nat /\ DOMAIN list = 1..n /\ \A i \in 1..n : list[i] \in Permission
  OBVIOUS
<1>2. PICK run : IsRun(run, n, "permission", acc, list) /\ AddRole(acc, list) = run[n]
  BY <1>1, RoleRun
<1>. HIDE DEF n
<1>. DEFINE T == {m \in Nat : m <= n =>
                    IsAccumulator(run[m]) /\ AllowsToo(run[m], acc, Given(m))}
<1>3. 0 \in T
  BY <1>2 DEF IsRun, AllowsToo
<1>4. ASSUME NEW m \in Nat, m \in T
      PROVE  m + 1 \in T
  <2> SUFFICES ASSUME m + 1 <= n
               PROVE  IsAccumulator(run[m + 1]) /\ AllowsToo(run[m + 1], acc, Given(m + 1))
    OBVIOUS
  <2>1. IsAccumulator(run[m]) /\ AllowsToo(run[m], acc, Given(m))
    BY <1>1, <1>4
  <2>2. m \in 0..n - 1 /\ m + 1 \in 1..n
    BY <1>1
  <2>3. run[m + 1] = AddPermission(run[m], list[m + 1]) /\ list[m + 1] \in Permission
    BY <1>1, <1>2, <2>2 DEF IsRun, Adding
  <2>4. IsAccumulator(run[m + 1]) /\ AllowsToo(run[m + 1], run[m], {list[m + 1]})
    BY <2>1, <2>3, PermissionAdds
  <2>5. Given(m + 1) = Given(m) \cup {list[m + 1]}
    OBVIOUS
  <2>. HIDE DEF Given
  <2>. QED
    BY <2>1, <2>4, <2>5 DEF AllowsToo
<1>. HIDE DEF T
<1>5. n \in T
  BY <1>1, <1>3, <1>4, CountingUp
<1>. QED
  BY <1>1, <1>2, <1>5 DEF T, n

(* Flattening loses no permission and invents none, and lists none twice,  *)
(* for any number of roles with any lists of permissions.                  *)
THEOREM FlattenAdds ==
  ASSUME NEW lists \in Seq(Seq(Permission))
  PROVE  /\ IsAccumulator(Flatten(lists))
         /\ \A q \in Permission :
              Authorized(Flatten(lists), q.resource, q.action) <=>
                \E i \in DOMAIN lists : Contains(lists[i], q)
<1>. DEFINE n == Len(lists)
            Given(m) == {q \in Permission : \E i \in 1..m : Contains(lists[i], q)}
<1>1. n \in Nat /\ DOMAIN lists = 1..n /\ \A i \in 1..n : lists[i] \in Seq(Permission)
  OBVIOUS
<1>2. PICK run : IsRun(run, n, "role", NoPermissions, lists) /\ Flatten(lists) = run[n]
  BY <1>1, FlattenRun
<1>. HIDE DEF n
<1>. DEFINE T == {m \in Nat : m <= n =>
                    IsAccumulator(run[m]) /\ AllowsToo(run[m], NoPermissions, Given(m))}
<1>3. 0 \in T
  BY <1>2 DEF IsRun, AllowsToo, IsAccumulator, NoPermissions
<1>4. ASSUME NEW m \in Nat, m \in T
      PROVE  m + 1 \in T
  <2> SUFFICES ASSUME m + 1 <= n
               PROVE  /\ IsAccumulator(run[m + 1])
                      /\ AllowsToo(run[m + 1], NoPermissions, Given(m + 1))
    OBVIOUS
  <2>1. IsAccumulator(run[m]) /\ AllowsToo(run[m], NoPermissions, Given(m))
    BY <1>1, <1>4
  <2>2. m \in 0..n - 1 /\ m + 1 \in 1..n
    BY <1>1
  <2>. DEFINE list == lists[m + 1]
              S == {list[i] : i \in 1..Len(list)}
  <2>3. run[m + 1] = AddRole(run[m], list) /\ list \in Seq(Permission)
    BY <1>1, <1>2, <2>2 DEF IsRun, Adding
  <2>4. IsAccumulator(run[m + 1]) /\ AllowsToo(run[m + 1], run[m], S)
    BY <2>1, <2>3, RoleAdds
  <2>5. \A q \in Permission : q \in Given(m + 1) <=> q \in Given(m) \/ q \in S
    <3>1. \A q : Contains(list, q) <=> q \in S
      BY DEF Contains
    <3>2. 1..m + 1 = 1..m \cup {m + 1}
      OBVIOUS
    <3>. HIDE DEF S
    <3>. QED
      BY <3>1, <3>2
  <2>. HIDE DEF Given, S
  <2>. QED
    BY <2>1, <2>4, <2>5 DEF AllowsToo
<1>. HIDE DEF T
<1>5. n \in T
  BY <1>1, <1>3, <1>4, CountingUp
<1>6. \A q \in Permission : ~Authorized(NoPermissions, q.resource, q.action)
  BY DEF Authorized, ActionsOn, NoPermissions, Contains
<1>7. IsAccumulator(Flatten(lists)) /\ AllowsToo(Flatten(lists), NoPermissions, Given(n))
  BY <1>1, <1>2, <1>5 DEF T
<1>. QED
  BY <1>1, <1>6, <1>7 DEF AllowsToo

(* The flattened permissions of a user are those of the user's roles: the  *)
(* property a run checks for short lists, from FlattenAdds.                *)
THEOREM FlattensToUnion == DirectorySpec => []FlattenIsUnion
<1>1. DirectoryTypeOK => FlattenIsUnion
  <2> SUFFICES ASSUME DirectoryTypeOK,
                      NEW lists \in BoundedSeq(BoundedSeq(permissions, 2), 2),
                      NEW p \in permissions
               PROVE  /\ Authorized(Flatten(lists), p.resource, p.action)
                           <=> \E i \in DOMAIN lists : Contains(lists[i], p)
                      /\ IsInjective(ActionsOn(Flatten(lists), p.resource))
    BY DEF FlattenIsUnion
  <2>1. permissions \subseteq Permission
    BY DataAssumption DEF DirectoryTypeOK, TableTypeOK
  <2>2. ASSUME NEW S, NEW list \in BoundedSeq(S, 2)
        PROVE  list \in Seq(S)
    <3>1. PICK m \in 0..2 : list \in [1..m -> S]
      BY DEF BoundedSeq, SeqOf
    <3>2. m \in Nat
      OBVIOUS
    <3>. QED
      BY <3>1, <3>2
  <2>3. lists \in Seq(Seq(Permission))
    <3>1. BoundedSeq(permissions, 2) \subseteq Seq(Permission)
      BY <2>1, <2>2
    <3>2. lists \in Seq(BoundedSeq(permissions, 2))
      BY <2>2
    <3>. QED
      BY <3>1, <3>2
  <2>4. /\ IsAccumulator(Flatten(lists))
        /\ Authorized(Flatten(lists), p.resource, p.action)
             <=> \E i \in DOMAIN lists : Contains(lists[i], p)
    BY <2>1, <2>3, FlattenAdds
  <2>5. IsInjective(ActionsOn(Flatten(lists), p.resource))
    <3>1. IsInjective(<<>>)
      <4>1. DOMAIN <<>> = {}
        OBVIOUS
      <4>. QED
        BY <4>1 DEF IsInjective
    <3>. QED
      BY <2>4, <3>1 DEF IsAccumulator, ActionsOn
  <2>. QED
    BY <2>4, <2>5
<1>. QED
  BY <1>1, DirectoryTypeCorrect, PTL

(* A list of a finite set has its elements and no others. *)
LEMMA ListOfSet ==
  ASSUME NEW S, IsFiniteSet(S)
  PROVE  /\ SetToSeq(S) \in [1..Cardinality(S) -> S] /\ Cardinality(S) \in Nat
         /\ \A x \in S : \E i \in 1..Cardinality(S) : SetToSeq(S)[i] = x
<1>1. Cardinality(S) \in Nat /\ ExistsBijection(1..Cardinality(S), S)
  BY FS_CardinalityType
<1>2. SetToSeq(S) \in Injection(1..Cardinality(S), S)
  BY <1>1 DEF SetToSeq, ExistsBijection, Bijection, Injection
<1>3. IsFiniteSet(1..Cardinality(S)) /\ Cardinality(1..Cardinality(S)) = Cardinality(S)
  BY <1>1, FS_Interval
<1>4. SetToSeq(S) \in Surjection(1..Cardinality(S), S)
  BY <1>2, <1>3, FS_Injection
<1>. QED
  BY <1>1, <1>2, <1>4 DEF Injection, Surjection

(* Who may list the users is what the tables grant to the user's roles.    *)
LEMMA MayListGranted ==
  ASSUME DirectoryTypeOK, NEW u \in Users
  PROVE  MayList(u) <=>
           \E role \in userRoles[u] : <<role, [resource |-> "user", action |-> "READ"]>> \in grants
<1>. DEFINE q == [resource |-> "user", action |-> "READ"]
            Given(role) == {p \in permissions : <<role, p>> \in grants}
            list == SetToSeq(userRoles[u])
            lists == PermissionsOf(u)
<1>1. /\ TableTypeOK /\ permissions \subseteq Permission /\ permissions \subseteq PermissionsData
      /\ grants \subseteq roles \X permissions /\ userRoles[u] \subseteq Roles
  BY DataAssumption DEF DirectoryTypeOK, TableTypeOK
<1>2. IsFiniteSet(userRoles[u])
  <2>1. IsFiniteSet(Roles)
    <3>1. Roles = ({"SUPER_ADMIN"} \cup {"ADMIN"}) \cup {"USER"}
      BY DEF Roles
    <3>. QED
      BY <3>1, FS_Singleton, FS_AddElement
  <2>. QED
    BY <1>1, <2>1, FS_Subset
<1>3. \A role : IsFiniteSet(Given(role)) /\ Given(role) \subseteq Permission
  BY <1>1, FS_Subset, DataAssumption
<1>4. PICK n \in Nat : /\ list \in [1..n -> userRoles[u]]
                       /\ \A x \in userRoles[u] : \E i \in 1..n : list[i] = x
  BY <1>2, ListOfSet
<1>5. ASSUME NEW role
      PROVE  /\ SetToSeq(Given(role)) \in Seq(Permission)
             /\ \A p : Contains(SetToSeq(Given(role)), p) <=> p \in Given(role)
  <2>. DEFINE s == SetToSeq(Given(role))
  <2>1. PICK m \in Nat : /\ s \in [1..m -> Given(role)]
                         /\ \A x \in Given(role) : \E i \in 1..m : s[i] = x
    BY <1>3, ListOfSet
  <2>. HIDE DEF s, Given
  <2>2. s \in Seq(Permission) /\ Len(s) = m
    BY <1>3, <2>1
  <2>3. \A p : Contains(s, p) <=> p \in Given(role)
    BY <2>1, <2>2 DEF Contains
  <2>. QED
    BY <2>2, <2>3 DEF s
<1>6. lists = [i \in 1..n |-> SetToSeq(Given(list[i]))]
  BY <1>4 DEF PermissionsOf
<1>. HIDE DEF Given, list, lists
<1>7. lists \in Seq(Seq(Permission)) /\ DOMAIN lists = 1..n
  BY <1>5, <1>6
<1>8. q \in Permission /\ q.resource = "user" /\ q.action = "READ"
  BY DEF Permission, Resources, Actions
<1>. HIDE DEF q
<1>9. MayList(u) <=> \E i \in 1..n : Contains(lists[i], q)
  BY <1>7, <1>8, FlattenAdds DEF MayList, lists
<1>10. MayList(u) <=> \E i \in 1..n : q \in Given(list[i])
  BY <1>5, <1>6, <1>9
<1>11. MayList(u) <=> \E role \in userRoles[u] : q \in Given(role)
  BY <1>4, <1>10
<1>12. \A role \in userRoles[u] : q \in Given(role) <=> <<role, q>> \in grants
  BY <1>1 DEF Given
<1>. QED
  BY <1>11, <1>12 DEF q

(* getAllUsers lets exactly those through to one of whose roles the tables *)
(* grant reading users, in whatever order the queries return the roles and *)
(* their permissions (authenticate.ts:87-99, authorize.ts).                *)
THEOREM ListingByGrants ==
  DirectorySpec =>
    [](\A u \in Users : MayList(u) <=>
         \E role \in userRoles[u] :
           <<role, [resource |-> "user", action |-> "READ"]>> \in grants)
<1>1. DirectoryTypeOK =>
        \A u \in Users : MayList(u) <=>
          \E role \in userRoles[u] :
            <<role, [resource |-> "user", action |-> "READ"]>> \in grants
  BY MayListGranted
<1>. QED
  BY <1>1, DirectoryTypeCorrect, PTL

=============================================================================
