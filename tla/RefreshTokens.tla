--------------------------- MODULE RefreshTokens ---------------------------
(***************************************************************************)
(* The refresh_tokens table and the three operations of                    *)
(* RefreshTokenService on it: createToken (sign-in), rotate (refresh) and  *)
(* revoke (sign-out), run by overlapping requests.                         *)
(*                                                                         *)
(* rotate is an interactive transaction at the database's default          *)
(* isolation, READ COMMITTED: its findFirst takes no lock, its update      *)
(* takes the row's lock until the transaction ends, and an update that     *)
(* waited for the lock goes ahead once it is free, because its WHERE names *)
(* only the id.  Nothing a transaction wrote is seen before it commits.    *)
(*                                                                         *)
(* A row is named by its token: the 256-bit random value and its hash      *)
(* never repeat.  user_id is copied from row to row and left out.          *)
(***************************************************************************)
EXTENDS Naturals, FiniteSets

CONSTANTS
  Requests,   \* the requests the server can have in progress at once
  Tokens,     \* the refresh tokens that can ever be issued
  NoToken,    \* no token: an idle request, or a row without a predecessor
  Lifetime,   \* REFRESH_TOKEN_EXPIRES_MS, in ticks of the clock
  TxTimeout,  \* how long an interactive transaction may last, in ticks
  MaxClock    \* bound: the clock stops here

ASSUME RequestsAssumption == IsFiniteSet(Requests)
ASSUME TokensAssumption == IsFiniteSet(Tokens) /\ NoToken \notin Tokens
ASSUME TimesAssumption == {Lifetime, TxTimeout, MaxClock} \subseteq Nat

VARIABLES
  issued,     \* tokens with a committed row
  revoked,    \* those whose committed row has revoked = true
  expires,    \* expires_at of each row
  pc,         \* where each request is in rotate
  tok,        \* the row each transaction read
  began,      \* when each transaction began
  clock,      \* Date.now()
  parent,     \* history: the token each token replaced
  signedOut,  \* history: tokens revoked by sign-out while still usable
  overlap     \* history: rotations in progress when a token was first revoked

rowVars == <<issued, revoked, expires>>
txVars == <<pc, tok, began>>
historyVars == <<parent, signedOut, overlap>>
vars == <<issued, revoked, expires, pc, tok, began, clock, parent, signedOut, overlap>>

(* The types; only rows that exist are revoked or signed out, which a      *)
(* revoke of an unknown token must not break.                              *)
TypeOK ==
  /\ issued \subseteq Tokens
  /\ revoked \subseteq issued
  /\ expires \in [Tokens -> Nat]
  /\ pc \in [Requests -> {"idle", "update", "create"}]
  /\ tok \in [Requests -> Tokens \cup {NoToken}]
  /\ began \in [Requests -> Nat]
  /\ clock \in Nat
  /\ parent \in [Tokens -> Tokens \cup {NoToken}]
  /\ signedOut \subseteq revoked
  /\ overlap \in [Tokens -> Nat]

(* No row, no request. *)
Init ==
  /\ issued = {} /\ revoked = {} /\ signedOut = {}
  /\ expires = [t \in Tokens |-> 0]
  /\ pc = [r \in Requests |-> "idle"]
  /\ tok = [r \in Requests |-> NoToken]
  /\ began = [r \in Requests |-> 0]
  /\ clock = 0
  /\ parent = [t \in Tokens |-> NoToken]
  /\ overlap = [t \in Tokens |-> 0]

(* The rotations of t that have read its row and not ended. *)
InFlight(t) == {r \in Requests : pc[r] # "idle" /\ tok[r] = t}

(* The transaction has not run into its timeout. *)
InTime(r) == clock <= began[r] + TxTimeout

(* The tokens minted to replace t. *)
Children(t) == {n \in issued : parent[n] = t}

(* Bound: a fresh token is kept back for every rotation in progress. *)
TokensLeft ==
  Cardinality({r \in Requests : pc[r] # "idle"}) < Cardinality(Tokens \ issued)

(* revoked: true is written to the row of t. *)
MarkRevoked(t) ==
  /\ revoked' = revoked \cup {t}
  /\ overlap' = IF t \in revoked THEN overlap
                ELSE [overlap EXCEPT ![t] = Cardinality(InFlight(t))]

(* Request r ends; its transaction, if any, holds nothing any more. *)
EndRequest(r) ==
  /\ pc' = [pc EXCEPT ![r] = "idle"]
  /\ tok' = [tok EXCEPT ![r] = NoToken]
  /\ began' = [began EXCEPT ![r] = 0]

(* Request r holds the row of t as its transaction read it. *)
BeginRotate(r, t) ==
  /\ pc' = [pc EXCEPT ![r] = "update"]
  /\ tok' = [tok EXCEPT ![r] = t]
  /\ began' = [began EXCEPT ![r] = clock]
  /\ UNCHANGED <<rowVars, clock, historyVars>>

(* Mutant: the read takes a shared lock that every other update waits for. *)
LockedByReaders(t) == Cardinality(InFlight(t)) > 1

(* The row lock of t is held from a transaction's update to its end. *)
Locked(t) == \E r \in Requests : pc[r] = "create" /\ tok[r] = t

-----------------------------------------------------------------------------
(* Mutants: plausible mistakes in the code, for the properties to catch. *)

(* The check of record.revoked is forgotten. *)
RotateReadRevoked(r, t) ==
  /\ TokensLeft /\ pc[r] = "idle" /\ t \in issued /\ clock <= expires[t]
  /\ BeginRotate(r, t)

(* The check of record.expires_at is forgotten. *)
RotateReadExpired(r, t) ==
  /\ TokensLeft /\ pc[r] = "idle" /\ t \in issued \ revoked
  /\ BeginRotate(r, t)

(* The update runs on this.db instead of tx. *)
RotateUpdateOutsideTx(r) ==
  /\ pc[r] = "update" /\ InTime(r) /\ ~Locked(tok[r])
  /\ pc' = [pc EXCEPT ![r] = "create"]
  /\ MarkRevoked(tok[r])
  /\ UNCHANGED <<issued, expires, tok, began, clock, parent, signedOut>>

(* Signing out stores a revoked row for a token that has none. *)
RevokeUpsert(t) ==
  /\ ~Locked(t)
  /\ MarkRevoked(t)
  /\ signedOut' = IF t \in revoked THEN signedOut ELSE signedOut \cup {t}
  /\ UNCHANGED <<issued, expires, txVars, clock, parent>>

-----------------------------------------------------------------------------
(* createToken: a sign-in stores a first token. *)
CreateToken(n) ==
  /\ TokensLeft
  /\ n \in Tokens \ issued
  /\ issued' = issued \cup {n}
  /\ expires' = [expires EXCEPT ![n] = clock + Lifetime]
  /\ UNCHANGED <<revoked, txVars, clock, historyVars>>

(* rotate, to its first check: the transaction begins and reads the row.   *)
(* When the row is missing, revoked or expired the request ends with a 401 *)
(* and changes nothing.                                                    *)
RotateRead(r, t) ==
  /\ TokensLeft
  /\ pc[r] = "idle"
  /\ t \in issued
  /\ t \notin revoked
  /\ clock <= expires[t]
  /\ BeginRotate(r, t)

(* rotate: the update by id gets the row's lock. *)
RotateUpdate(r) ==
  /\ pc[r] = "update"
  /\ InTime(r)
  /\ ~Locked(tok[r])
  /\ pc' = [pc EXCEPT ![r] = "create"]
  /\ UNCHANGED <<rowVars, tok, began, clock, historyVars>>

(* rotate: the new row is created, and both writes commit together. *)
RotateCommit(r, n) ==
  /\ pc[r] = "create"
  /\ InTime(r)
  /\ n \in Tokens \ issued
  /\ issued' = issued \cup {n}
  /\ MarkRevoked(tok[r])
  /\ expires' = [expires EXCEPT ![n] = clock + Lifetime]
  /\ parent' = [parent EXCEPT ![n] = tok[r]]
  /\ EndRequest(r)
  /\ UNCHANGED <<clock, signedOut>>

(* rotate: the transaction fails anywhere and is rolled back. *)
RotateAbort(r) ==
  /\ pc[r] # "idle"
  /\ EndRequest(r)
  /\ UNCHANGED <<rowVars, clock, historyVars>>

(* revoke: updateMany by hash, one statement, waits for the row's lock.  A *)
(* hash with no row matches nothing and changes nothing.                   *)
Revoke(t) ==
  /\ t \in issued
  /\ ~Locked(t)
  /\ MarkRevoked(t)
  /\ signedOut' = IF t \in revoked THEN signedOut ELSE signedOut \cup {t}
  /\ UNCHANGED <<issued, expires, txVars, clock, parent>>

(* The process exits: the database rolls back what was in progress. *)
Crash ==
  /\ \E r \in Requests : pc[r] # "idle"
  /\ pc' = [r \in Requests |-> "idle"]
  /\ tok' = [r \in Requests |-> NoToken]
  /\ began' = [r \in Requests |-> 0]
  /\ UNCHANGED <<rowVars, clock, historyVars>>

(* Time passes. *)
Tick ==
  /\ clock < MaxClock
  /\ clock' = clock + 1
  /\ UNCHANGED <<rowVars, txVars, historyVars>>

Next ==
  \/ \E n \in Tokens : CreateToken(n)
  \/ \E r \in Requests, t \in Tokens : RotateRead(r, t)
  \/ \E r \in Requests : RotateUpdate(r)
  \/ \E r \in Requests, n \in Tokens : RotateCommit(r, n)
  \/ \E r \in Requests : RotateAbort(r)
  \/ \E t \in Tokens : Revoke(t)
  \/ Crash
  \/ Tick

Spec == Init /\ [][Next]_vars

(***************************************************************************)
(* A transaction that can go on does: the event loop and the database run  *)
(* every query they were given, the database grants a row's lock in the    *)
(* order it was asked for, and a transaction over its time is rolled back. *)
(* Nothing makes a clock tick happen, a client call or a process exit.     *)
(***************************************************************************)
Fairness ==
  \A r \in Requests :
    /\ SF_vars(RotateUpdate(r))
    /\ WF_vars(\E n \in Tokens : RotateCommit(r, n))
    /\ WF_vars(~InTime(r) /\ RotateAbort(r))

FairSpec == Spec /\ Fairness

-----------------------------------------------------------------------------
(* Rotation is all or nothing (auth.refresh-token.service.ts:24-55): a     *)
(* client is never left with a revoked token unless it signed out or a     *)
(* successor of the token is stored, whatever fails in between; and a      *)
(* successor never exists beside a parent that is still usable.            *)
RotationIsAtomic ==
  /\ \A t \in revoked : t \in signedOut \/ Children(t) # {}
  /\ \A n \in issued : parent[n] # NoToken => parent[n] \in revoked

(* A token gets no more successors than there were rotations of it in      *)
(* progress when it was first revoked: one when it is rotated alone, none  *)
(* when it is signed out alone, and nothing that begins later adds one     *)
(* (the check of record.revoked, auth.refresh-token.service.ts:29).        *)
SuccessorBound ==
  \A t \in Tokens : Cardinality(Children(t)) <= overlap[t]

(* A session cannot be prolonged by a token that ran out: a successor's    *)
(* lifetime starts no later than its parent's end, give or take the time a *)
(* transaction may take (auth.refresh-token.service.ts:29 and 42-44).      *)
SessionLifetime ==
  \A n \in issued : parent[n] # NoToken =>
    expires[n] <= expires[parent[n]] + TxTimeout + Lifetime

(* What the table promises its callers, with transactions, locks and       *)
(* rollbacks out of sight.  A token is live while its row is not revoked,  *)
(* and what it is owed are the rotations that have read a row revoked      *)
(* since.                                                                  *)
Live == issued \ revoked
Owed == [t \in Tokens |->
           IF t \in revoked THEN Cardinality(InFlight(t)) ELSE 0]

Promise == INSTANCE Sessions WITH
  live <- Live, ended <- signedOut, origin <- parent, owed <- Owed,
  Rivals <- Cardinality(Requests)

(* Whatever overlaps, fails or crashes, createToken, rotate and revoke look *)
(* like single steps: a token is exchanged or ended once, and the rotations *)
(* that can still exchange it are those that read its row before            *)
(* (auth.refresh-token.service.ts:7-63).                                    *)
ImplementsSessions == Promise!Spec

(* The sign-in that each token goes back to. *)
IsSession(root) ==
  \A n \in issued : root[n] = IF parent[n] = NoToken THEN n ELSE root[parent[n]]

(* No token of session s was taken out of use while two were rotating it. *)
Undisturbed(root, s) == \A t \in issued : root[t] = s => overlap[t] <= 1

(* A session has one usable token at a time, and none once it was signed   *)
(* out with no rotation of the token in progress, as long as no two        *)
(* rotations of one token overlap.  Where they do, it may have more        *)
(* (auth.refresh-token.service.ts:24-63).                                  *)
OneTokenPerSession ==
  \E root \in [issued -> issued] :
    /\ IsSession(root)
    /\ \A s \in issued : Undisturbed(root, s) =>
         /\ \A u, v \in Live : root[u] = s /\ root[v] = s => u = v
         /\ \A t \in signedOut : root[t] = s /\ overlap[t] = 0 =>
              \A u \in Live : root[u] # s

(* A rotation that was admitted ends, by commit or by rollback: requests   *)
(* that wait for each other's row locks never wait for ever.               *)
RotationEnds ==
  \A r \in Requests : pc[r] # "idle" ~> pc[r] = "idle"

(* A request in progress holds a row that was usable when it began. *)
ReadWasUsable ==
  \A r \in Requests : pc[r] # "idle" =>
    tok[r] \in issued /\ began[r] <= expires[tok[r]]

(* Only stored rows have a parent. *)
ParentsOfIssued ==
  \A n \in Tokens : n \notin issued => parent[n] = NoToken

(* A rotation in progress of a revoked token is a successor to come. *)
SuccessorBudget ==
  \A t \in revoked :
    Cardinality(Children(t)) + Cardinality(InFlight(t)) <= overlap[t]

(* What the steps of rotate, revoke and createToken preserve together:     *)
(* SuccessorBound and SessionLifetime follow from it.                      *)
IndInv ==
  /\ ReadWasUsable
  /\ ParentsOfIssued
  /\ SuccessorBudget

(* What the route's summary says, "Sign out user and invalidate tokens"    *)
(* (auth.swagger.ts:91): a session that is signed out with its current     *)
(* token has no usable successor afterwards.                               *)
SignoutEndsSession ==
  \A t \in signedOut : Children(t) \subseteq revoked

=============================================================================
