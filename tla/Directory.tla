----------------------------- MODULE Directory -----------------------------
(***************************************************************************)
(* The queries of UserService, over the tables of Seeding: a client walks  *)
(* through the pages of getAllUsers, up to the totalPages it was last      *)
(* told, while users sign up and are seeded.  A page and its total are two *)
(* queries.                                                                *)
(*                                                                         *)
(* Users are ordered by created_at alone: the database may return users of *)
(* the same time in any order, and in another one for the next page.       *)
(***************************************************************************)
EXTENDS Seeding, Permissions

CONSTANTS
  Walkers,  \* the clients
  PageSize  \* 20, the size of a page: a size in the URL is a string, which
            \*   the query refuses

ASSUME PageAssumption == PageSize \in Nat \ {0} /\ MaxUsers >= 3

VARIABLES
  stage,   \* where each client is: it asks, waits for the count, or has ended
  page,    \* the page it is at
  got,     \* the users on it, which it is sent with the count
  seen,    \* history: the users it was sent
  expect   \* history: the users there were when its first page was read

walkVars == <<stage, page, got, seen, expect>>
directoryVars == <<permissions, roles, grants, email, username, created, userRoles,
                   batch, todo, clock, stage, page, got, seen, expect>>

(* The types; a client ends only when there was a first page. *)
DirectoryTypeOK ==
  /\ TableTypeOK
  /\ stage \in [Walkers -> {"ask", "count", "ended"}]
  /\ page \in [Walkers -> Nat \ {0}]
  /\ got \in [Walkers -> SUBSET Rows] /\ seen \in [Walkers -> SUBSET Rows]
  /\ expect \in [Walkers -> SUBSET Rows]

(* A run of the seed script has ended: its users are there, the later one  *)
(* not the older, and nobody has signed up yet.                            *)
Seeded ==
  /\ permissions = PermissionsData /\ roles = Roles
  /\ grants = SuperGrants \cup AdminGrants
  /\ email = [u \in Users |-> IF u <= 3 THEN Accounts[u] ELSE None]
  /\ username = email
  /\ userRoles = [u \in Users |-> IF u <= 3 THEN {Accounts[u]} ELSE {}]
  /\ clock = 1
  /\ created \in [Users -> 0..clock]
  /\ created[1] <= created[2] /\ created[2] <= created[3]
  /\ \A u \in Users : u > 3 => created[u] = 0
  /\ batch = [s \in Seeders |-> 0] /\ todo = [s \in Seeders |-> {}]

DirectoryInit ==
  /\ Seeded
  /\ stage = [w \in Walkers |-> "ask"] /\ page = [w \in Walkers |-> 1]
  /\ got = [w \in Walkers |-> {}] /\ seen = [w \in Walkers |-> {}]
  /\ expect = [w \in Walkers |-> {}]

-----------------------------------------------------------------------------
(* The permissions of user u, by role, in an order the query may return. *)
PermissionsOf(u) ==
  LET list == SetToSeq(userRoles[u]) IN
  [i \in DOMAIN list |-> SetToSeq({p \in permissions : <<list[i], p>> \in grants})]

(* authorize("user", "READ") lets user u through. *)
MayList(u) == Authorized(Flatten(PermissionsOf(u)), "user", "READ")

(* me: the name of the user's first role is part of the answer. *)
MeStatus(u) == IF userRoles[u] = {} THEN 500 ELSE 200

(* No other user is newer than one of S. *)
Newest(S) == \A u \in S, v \in Rows \ S : created[v] <= created[u]

Least(m, n) == IF m < n THEN m ELSE n

(* Mutant: the users are not ordered. *)
IsPageUnordered(P, before, number) ==
  /\ Cardinality(before) = Least((number - 1) * PageSize, Cardinality(Rows))
  /\ Cardinality(P) = Least(PageSize, Cardinality(Rows \ before))

(* findMany with skip and take: P comes after the users before, in some    *)
(* order that has the newest first.                                        *)
IsPage(P, before, number) ==
  /\ Cardinality(before) = Least((number - 1) * PageSize, Cardinality(Rows))
  /\ Cardinality(P) = Least(PageSize, Cardinality(Rows \ before))
  /\ Newest(before) /\ Newest(before \cup P)

(* getAllUsers, for a client that may: a page is read. *)
ListUsers(w, P, before) ==
  /\ stage[w] = "ask"
  /\ IsPage(P, before, page[w])
  /\ \E u \in Rows : MayList(u)
  /\ stage' = [stage EXCEPT ![w] = "count"]
  /\ got' = [got EXCEPT ![w] = P]
  /\ expect' = IF page[w] = 1 THEN [expect EXCEPT ![w] = Rows] ELSE expect
  /\ UNCHANGED <<tableVars, page, seen>>

(* getAllUsers: the users are counted, and the page answered with the      *)
(* total.  The client asks for the next page or has ended.                 *)
CountUsers(w) ==
  /\ stage[w] = "count"
  /\ seen' = [seen EXCEPT ![w] = @ \cup got[w]]
  /\ got' = [got EXCEPT ![w] = {}]
  /\ IF page[w] * PageSize >= Cardinality(Rows)
     THEN stage' = [stage EXCEPT ![w] = "ended"] /\ UNCHANGED page
     ELSE /\ stage' = [stage EXCEPT ![w] = "ask"]
          /\ page' = [page EXCEPT ![w] = @ + 1]
  /\ UNCHANGED <<tableVars, expect>>

(* A query fails, or the answer is lost: the client asks for the page again. *)
ListFail(w) ==
  /\ stage[w] = "count"
  /\ stage' = [stage EXCEPT ![w] = "ask"]
  /\ got' = [got EXCEPT ![w] = {}]
  /\ UNCHANGED <<tableVars, page, seen, expect>>

(* The client begins again. *)
StartOver(w) ==
  /\ stage[w] # "ask" \/ page[w] # 1
  /\ stage' = [stage EXCEPT ![w] = "ask"] /\ page' = [page EXCEPT ![w] = 1]
  /\ got' = [got EXCEPT ![w] = {}] /\ seen' = [seen EXCEPT ![w] = {}]
  /\ expect' = [expect EXCEPT ![w] = {}]
  /\ UNCHANGED tableVars

DirectoryNext ==
  \/ TableNext /\ UNCHANGED walkVars
  \/ \E w \in Walkers, before \in SUBSET Rows : \E P \in SUBSET (Rows \ before) :
       ListUsers(w, P, before)
  \/ \E w \in Walkers : CountUsers(w) \/ ListFail(w) \/ StartOver(w)

DirectorySpec == DirectoryInit /\ [][DirectoryNext]_directoryVars

-----------------------------------------------------------------------------
(* Nobody else was created at the time of u. *)
AloneInTime(u) == \A v \in Rows \ {u} : created[v] # created[u]

(* A client that walked through the pages was sent every user there was at *)
(* its first page, however many signed up meanwhile, between two pages or  *)
(* between a page and its total; users of the very same created_at         *)
(* excepted, whose order may change from page to page                      *)
(* (user.service.ts:81-136).                                               *)
WalkMissesNobody ==
  \A w \in Walkers : stage[w] = "ended" =>
    \A u \in expect[w] : AloneInTime(u) => u \in seen[w]

(* How many users are listed before u, whatever the order. *)
Newer(u) == {v \in Rows : created[v] > created[u]}

(* What the steps preserve for it: a user still missing is further down    *)
(* than the pages read so far.                                             *)
MissingIsAhead ==
  \A w \in Walkers : \A u \in expect[w] \ seen[w] : AloneInTime(u) =>
    /\ stage[w] # "ended"
    /\ Cardinality(Newer(u)) >= (page[w] - 1) * PageSize
    /\ stage[w] = "count" /\ u \notin got[w] =>
         Cardinality(Newer(u)) >= page[w] * PageSize

(* Flattening loses no permission and invents none, and lists none twice,  *)
(* whatever the order and the overlap of the roles                         *)
(* (authenticate.ts:87-99, user.service.ts:55-67).                         *)
FlattenIsUnion ==
  \A lists \in BoundedSeq(BoundedSeq(permissions, 2), 2) : \A p \in permissions :
    LET acc == Flatten(lists) IN
    /\ Authorized(acc, p.resource, p.action) <=> \E i \in DOMAIN lists : Contains(lists[i], p)
    /\ IsInjective(ActionsOn(acc, p.resource))

(* What the documentation of the route says, "200: User profile"           *)
(* (user.routes.ts:20-21): everyone who signed up has a profile.           *)
ProfileForEveryone == \A u \in Rows : MeStatus(u) = 200

=============================================================================
