---------------------------- MODULE Permissions ----------------------------
(***************************************************************************)
(* How authenticate and me flatten the permissions of a user's roles into  *)
(* one list of actions per resource, and how authorize looks one up.       *)
(***************************************************************************)
EXTENDS Naturals, SequencesExt

(* The accumulator before the first role: no resource. *)
NoPermissions == [r \in {} |-> <<>>]

(* The actions on a resource so far. *)
ActionsOn(acc, resource) == IF resource \in DOMAIN acc THEN acc[resource] ELSE <<>>

(* Mutant: the list of a resource is started again at every permission. *)
AddPermissionAnew(acc, p) ==
  [r \in DOMAIN acc \cup {p.resource} |-> IF r = p.resource THEN <<p.action>> ELSE acc[r]]

(* A permission is added to the list of its resource, once. *)
AddPermission(acc, p) ==
  LET actions == ActionsOn(acc, p.resource) IN
  [r \in DOMAIN acc \cup {p.resource} |->
     IF r # p.resource THEN acc[r]
     ELSE IF Contains(actions, p.action) THEN actions ELSE Append(actions, p.action)]

(* The permissions of one role, in the order of the query. *)
AddRole(acc, list) == FoldLeft(AddPermission, acc, list)

(* roles.reduce over the roles, in the order of the query. *)
Flatten(lists) == FoldLeft(AddRole, NoPermissions, lists)

(* authorize: the request may go on. *)
Authorized(acc, resource, action) == Contains(ActionsOn(acc, resource), action)

=============================================================================
