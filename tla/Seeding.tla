------------------------------ MODULE Seeding ------------------------------
(***************************************************************************)
(* The tables users, roles, permissions and the two that join them, and    *)
(* everything that writes to them: the seed script (prisma/seed.ts), which *)
(* may be run again after it failed, or twice at once, and signup.         *)
(*                                                                         *)
(* The script is a sequence of batches.  It waits for all the upserts of a *)
(* batch (Promise.all, or a single await) and then goes on to the next.    *)
(* An upsert is one statement (INSERT ... ON CONFLICT): with update: {} it *)
(* leaves a row that exists as it is.                                      *)
(*                                                                         *)
(* A seeded account is named by the role it is given, and so are its email *)
(* and its username.                                                       *)
(***************************************************************************)
EXTENDS Naturals, Sequences, FiniteSets

CONSTANTS
  Seeders,          \* the runs of the script that can overlap
  PermissionsData,  \* the permissions the code declares
  Claimed,          \* bound: the seeded accounts whose email or username
                    \*   someone may sign up with
  Other,            \* an email or username that no seeded account has
  None,             \* no row
  MaxUsers,         \* bound: rows of the users table
  MaxClock          \* bound: the clock stops here

ASSUME UsersAssumption == MaxUsers \in Nat /\ MaxClock \in Nat

VARIABLES
  permissions, roles,  \* the rows of these tables
  grants,              \* role_permissions: pairs of a role and a permission
  email, username,     \* the columns of each user, None where there is no row
  created,             \* created_at of each user
  userRoles,           \* user_roles: the roles of each user
  batch,               \* the batch each run of the script is at, 0 if none
  todo,                \* the upserts of its batch it still waits for
  clock                \* Date.now()

rbacVars == <<permissions, roles, grants>>
userVars == <<email, username, created, userRoles>>
seedVars == <<batch, todo>>
tableVars == <<permissions, roles, grants, email, username, created, userRoles,
               batch, todo, clock>>

Users == 1..MaxUsers
Roles == {"SUPER_ADMIN", "ADMIN", "USER"}
Rows == {u \in Users : email[u] # None}

-----------------------------------------------------------------------------
(* The permissions of ADMIN. *)
AdminPermission(p) ==
  \/ p.resource = "user" /\ p.action \in {"CREATE", "READ", "UPDATE"}
  \/ p.resource \in {"role", "permission"} /\ p.action = "READ"

(* The type of a permission. *)
Resources == {"user", "role", "permission", "system", "content"}
Actions == {"CREATE", "READ", "UPDATE", "DELETE"}
Permission == [resource : Resources, action : Actions]

(* permissionsData is a literal, and has something for every batch. *)
ASSUME DataAssumption ==
  /\ IsFiniteSet(PermissionsData) /\ PermissionsData \subseteq Permission
  /\ \E p \in PermissionsData : AdminPermission(p)

(* No name of an account stands for another, or for nothing. *)
ASSUME NamesAssumption ==
  Claimed \subseteq Roles /\ Other # None /\ Other \notin Roles /\ None \notin Roles

(* What the script grants: SUPER_ADMIN everything, USER nothing. *)
SuperGrants == {"SUPER_ADMIN"} \X PermissionsData
AdminGrants == {"ADMIN"} \X {p \in PermissionsData : AdminPermission(p)}

(* An upsert: the table, and the row by its key. *)
Upserts(table, rows) == {[table |-> table, row |-> x] : x \in rows}

(* The accounts, in the order they are created. *)
Accounts == <<"SUPER_ADMIN", "ADMIN", "USER">>

(* Mutant: the grants come before the roles they are for. *)
BatchesGrantsFirst ==
  << Upserts("permission", PermissionsData),
     Upserts("grant", SuperGrants), Upserts("grant", AdminGrants),
     Upserts("role", {"SUPER_ADMIN"}), Upserts("role", {"ADMIN"}), Upserts("role", {"USER"}),
     Upserts("user", {"SUPER_ADMIN"}), Upserts("userRole", {"SUPER_ADMIN"}),
     Upserts("user", {"ADMIN"}), Upserts("userRole", {"ADMIN"}),
     Upserts("user", {"USER"}), Upserts("userRole", {"USER"}) >>

(* The batches of permissionSeed and of userSeed, in order. *)
Batches ==
  << Upserts("permission", PermissionsData),
     Upserts("role", {"SUPER_ADMIN"}), Upserts("role", {"ADMIN"}), Upserts("role", {"USER"}),
     Upserts("grant", SuperGrants), Upserts("grant", AdminGrants),
     Upserts("user", {"SUPER_ADMIN"}), Upserts("userRole", {"SUPER_ADMIN"}),
     Upserts("user", {"ADMIN"}), Upserts("userRole", {"ADMIN"}),
     Upserts("user", {"USER"}), Upserts("userRole", {"USER"}) >>

LastBatch == 12
Done == LastBatch + 1
Running(s) == batch[s] \in 1..LastBatch

(* The types; no join row without the two rows it joins (the foreign keys). *)
TableTypeOK ==
  /\ permissions \subseteq PermissionsData /\ roles \subseteq Roles
  /\ grants \subseteq roles \X permissions
  /\ email \in [Users -> Roles \cup {Other, None}]
  /\ username \in [Users -> Roles \cup {Other, None}]
  /\ created \in [Users -> Nat]
  /\ userRoles \in [Users -> SUBSET roles]
  /\ \A u \in Users \ Rows : userRoles[u] = {}
  /\ batch \in [Seeders -> 0..Done]
  /\ DOMAIN todo = Seeders
  /\ \A s \in Seeders : todo[s] \subseteq IF Running(s) THEN Batches[batch[s]] ELSE {}
  /\ clock \in Nat

(* Empty tables, after the migrations. *)
TableInit ==
  /\ permissions = {} /\ roles = {} /\ grants = {}
  /\ email = [u \in Users |-> None] /\ username = [u \in Users |-> None]
  /\ created = [u \in Users |-> 0]
  /\ userRoles = [u \in Users |-> {}]
  /\ batch = [s \in Seeders |-> 0] /\ todo = [s \in Seeders |-> {}]
  /\ clock = 0

-----------------------------------------------------------------------------
(* A user is created in the next row, u.  created_at is the time the query was       *)
(* given, at most a tick before the row is there.                          *)
CreateUser(u, e, n, time) ==
  /\ u \notin Rows /\ 1..(u - 1) \subseteq Rows
  /\ time \in 0..clock /\ clock <= time + 1
  /\ email' = [email EXCEPT ![u] = e]
  /\ username' = [username EXCEPT ![u] = n]
  /\ created' = [created EXCEPT ![u] = time]

(* The unique columns. *)
EmailTaken(e) == e # Other /\ \E u \in Rows : email[u] = e
UsernameTaken(n) == n # Other /\ \E u \in Rows : username[u] = n

(* Mutant: signup gives the user a role that is not in the table. *)
SignupWithRole(u, e, n, time) ==
  /\ ~EmailTaken(e) /\ ~UsernameTaken(n)
  /\ CreateUser(u, e, n, time)
  /\ userRoles' = [userRoles EXCEPT ![u] = {"TENANT_USER"}]
  /\ UNCHANGED <<rbacVars, seedVars, clock>>

(* signup creates a user, with no role. *)
Signup(u, e, n, time) ==
  /\ ~EmailTaken(e) /\ ~UsernameTaken(n)
  /\ CreateUser(u, e, n, time)
  /\ UNCHANGED <<rbacVars, userRoles, seedVars, clock>>

(* Run s of the script begins. *)
SeedStart(s) ==
  /\ ~Running(s)
  /\ batch' = [batch EXCEPT ![s] = 1]
  /\ todo' = [todo EXCEPT ![s] = Batches[1]]
  /\ UNCHANGED <<rbacVars, userVars, clock>>

(* The script waits for an upsert of its batch. *)
Waiting(s, x) == Running(s) /\ x \in todo[s]

(* Mutant: the upserts of a batch are not waited for. *)
AnsweredOne(s, x) ==
  /\ batch' = [batch EXCEPT ![s] = @ + 1]
  /\ todo' = [todo EXCEPT ![s] = IF batch[s] = LastBatch THEN {} ELSE Batches[batch[s] + 1]]

(* Upsert x of run s is answered; the last of its batch begins the next.   *)
Answered(s, x) ==
  IF todo[s] = {x}
  THEN /\ batch' = [batch EXCEPT ![s] = @ + 1]
       /\ todo' = [todo EXCEPT ![s] = IF batch[s] = LastBatch THEN {} ELSE Batches[batch[s] + 1]]
  ELSE /\ todo' = [todo EXCEPT ![s] = @ \ {x}]
       /\ UNCHANGED batch

(* permissionSeed: a permission, a role, or a grant of one to the other. *)
SeedRbac(s, x) ==
  /\ Waiting(s, x) /\ x.table \in {"permission", "role", "grant"}
  /\ permissions' = IF x.table = "permission" THEN permissions \cup {x.row} ELSE permissions
  /\ roles' = IF x.table = "role" THEN roles \cup {x.row} ELSE roles
  /\ grants' = IF x.table = "grant" THEN grants \cup {x.row} ELSE grants
  /\ Answered(s, x)
  /\ UNCHANGED <<userVars, clock>>

(* userSeed: the user with this email is there, and update: {} leaves the  *)
(* columns of that row (its password, status and type are not modelled) as *)
(* whoever created it stored them ...                                      *)
SeedUserFound(s, x) ==
  /\ Waiting(s, x) /\ x.table = "user"
  /\ EmailTaken(x.row)
  /\ Answered(s, x)
  /\ UNCHANGED <<rbacVars, userVars, clock>>

(* ... or is created; when someone else has the username, the script fails *)
(* with a violated unique index (SeedFail).                                *)
SeedUserCreated(s, x, u, time) ==
  /\ Waiting(s, x) /\ x.table = "user"
  /\ ~EmailTaken(x.row) /\ ~UsernameTaken(x.row)
  /\ CreateUser(u, x.row, x.row, time)
  /\ Answered(s, x)
  /\ UNCHANGED <<rbacVars, userRoles, clock>>

(* userSeed: the user with this email is given the role, whoever that is. *)
SeedUserRole(s, x) ==
  /\ Waiting(s, x) /\ x.table = "userRole"
  /\ \E u \in Rows :
       /\ email[u] = x.row
       /\ userRoles' = [userRoles EXCEPT ![u] = @ \cup {x.row}]
  /\ Answered(s, x)
  /\ UNCHANGED <<rbacVars, email, username, created, clock>>

(* An upsert fails, or the process ends: what was written stays. *)
SeedFail(s) ==
  /\ Running(s)
  /\ batch' = [batch EXCEPT ![s] = 0]
  /\ todo' = [todo EXCEPT ![s] = {}]
  /\ UNCHANGED <<rbacVars, userVars, clock>>

(* Time passes. *)
TableTick ==
  /\ clock < MaxClock
  /\ clock' = clock + 1
  /\ UNCHANGED <<rbacVars, userVars, seedVars>>

SeedStep(s) ==
  \/ SeedStart(s) \/ SeedFail(s)
  \/ \E x \in todo[s] :
       \/ SeedRbac(s, x) \/ SeedUserFound(s, x) \/ SeedUserRole(s, x)
       \/ \E u \in Users, time \in 0..clock : SeedUserCreated(s, x, u, time)

TableNext ==
  \/ \E s \in Seeders : SeedStep(s)
  \/ \E u \in Users, e, n \in Claimed \cup {Other}, time \in 0..clock : Signup(u, e, n, time)
  \/ TableTick

TableSpec == TableInit /\ [][TableNext]_tableVars

-----------------------------------------------------------------------------
(* What upsert x is for is in the tables. *)
Stored(x) ==
  /\ x.table = "permission" => x.row \in permissions
  /\ x.table = "role" => x.row \in roles
  /\ x.table = "grant" => x.row \in grants
  /\ x.table = "user" => \E u \in Rows : email[u] = x.row
  /\ x.table = "userRole" => \E u \in Rows : email[u] = x.row /\ x.row \in userRoles[u]

(* When a run of the script ends well, the tables hold what it declares,   *)
(* whatever earlier runs left half done and whatever signups and another   *)
(* run did meanwhile: no role is granted less or more, and a row with the  *)
(* email of every account is there and has its role (prisma/seed.ts:6-21). *)
(* Whoever signed up with that email keeps the row's other columns.        *)
SeedComplete ==
  (\E s \in Seeders : batch[s] = Done) =>
    /\ permissions = PermissionsData /\ roles = Roles
    /\ grants = SuperGrants \cup AdminGrants
    /\ \A a \in Roles : \E u \in Rows : email[u] = a /\ a \in userRoles[u]

(* What the steps preserve for SeedComplete: what a run no longer waits    *)
(* for is stored, and nothing is granted that is not declared.             *)
SeedProgress ==
  /\ grants \subseteq SuperGrants \cup AdminGrants
  /\ \A s \in Seeders :
       /\ \A i \in 1..LastBatch : i < batch[s] => \A x \in Batches[i] : Stored(x)
       /\ Running(s) => \A x \in Batches[batch[s]] \ todo[s] : Stored(x)

=============================================================================
