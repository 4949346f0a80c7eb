--------------------------- MODULE AccessControl ---------------------------
(***************************************************************************)
(* The authenticate middleware and sign-out, over the cache: one access    *)
(* token, issued at time 0, of one user.  Two cache keys matter to it: the *)
(* mark that the token was revoked, and the user record with its status    *)
(* and permissions.  The user record is cut down to its status; a change   *)
(* of roles is cached, and seen, in the same way.                          *)
(*                                                                         *)
(* The cache is TieredCache, whose actions are part of the actions here.   *)
(***************************************************************************)
EXTENDS TieredCache

CONSTANTS
  Revoked,     \* the key "revoked:<token>"
  Perms,       \* the key "user-permissions:<id>"
  AccessLife,  \* lifetime of an access token, in ticks
  DefaultTTL,  \* lifetime cacheService.set gives when it is told none
  PermTTL      \* lifetime of the cached user record

ASSUME AccessKeys == Keys = {Revoked, Perms} /\ Revoked # Perms
ASSUME AccessTimes == {DefaultTTL, PermTTL} \subseteq Lives /\ AccessLife \in Nat

VARIABLES
  pc,         \* where each request is
  began,      \* when it began
  late,       \* whether it began after the sign-out, and Redis answered it
  user,       \* the status it read from the database
  readAt,     \* and when
  status,     \* the user's status in the database
  content,    \* the status each set stored
  signedOut,  \* history: when Redis first took the token's mark, or None
  suspended   \* history: when the user was suspended, or None

accessVars == <<pc, began, late, user, readAt>>
userVars == <<status, content, suspended>>
allVars == <<order, mem, redis, ask, scan, clock, sets, gone, pc, began, late,
             user, readAt, status, content, signedOut, suspended>>

Statuses == {"ACTIVE", "SUSPENDED"}

(* The types; a request waits for Redis exactly where authenticate awaits a *)
(* get, whatever happens to the answer.                                    *)
AccessTypeOK ==
  /\ TypeOK
  /\ pc \in [Requests -> {"idle", "revoked?", "verified", "perms?", "read",
                          "fill", "admitted", "del"}]
  /\ began \in [Requests -> Nat] /\ readAt \in [Requests -> Nat]
  /\ late \in [Requests -> BOOLEAN]
  /\ user \in [Requests -> Statuses]
  /\ status \in Statuses
  /\ content \in [1..MaxSets -> Statuses]
  /\ {signedOut, suspended} \subseteq Nat \cup {None}
  /\ \A r \in Requests : ask[r] # None <=> pc[r] \in {"revoked?", "perms?"}

(* The user is active and nothing is cached. *)
AccessInit ==
  /\ Init
  /\ pc = [r \in Requests |-> "idle"]
  /\ began = [r \in Requests |-> 0] /\ readAt = [r \in Requests |-> 0]
  /\ late = [r \in Requests |-> FALSE]
  /\ user = [r \in Requests |-> "ACTIVE"]
  /\ status = "ACTIVE"
  /\ content = [n \in 1..MaxSets |-> "ACTIVE"]
  /\ signedOut = None /\ suspended = None

GoTo(r, place) ==
  /\ pc' = [pc EXCEPT ![r] = place]
  /\ UNCHANGED <<began, late, user, readAt>>

(* Request r ends, answered or by an error. *)
EndRequest(r) ==
  /\ pc' = [pc EXCEPT ![r] = "idle"]
  /\ began' = [began EXCEPT ![r] = 0]
  /\ late' = [late EXCEPT ![r] = FALSE]
  /\ user' = [user EXCEPT ![r] = "ACTIVE"]
  /\ readAt' = [readAt EXCEPT ![r] = 0]

(* A Redis command succeeds or fails; get then answers null. *)
RedisOutcome == BOOLEAN

(* verifyAccessToken: the token has not run out. *)
TokenLive == clock < AccessLife

(* The end of authenticate: a suspended user is refused with a 403. *)
Decide(r, s) == IF s = "SUSPENDED" THEN EndRequest(r) ELSE GoTo(r, "admitted")

-----------------------------------------------------------------------------
(* authenticate: is the token marked revoked?  A mark in L1 is a 401 at    *)
(* once and changes nothing.                                               *)
AuthStart(r) ==
  /\ pc[r] = "idle"
  /\ \E ok \in RedisOutcome :
       /\ GetMiss(r, Revoked, ok)
       /\ late' = [late EXCEPT ![r] = ok /\ signedOut # None]
  /\ pc' = [pc EXCEPT ![r] = "revoked?"]
  /\ began' = [began EXCEPT ![r] = clock]
  /\ UNCHANGED <<user, readAt, userVars, signedOut>>

(* Mutant: the answer about the mark is not waited for. *)
AuthVerifyEarly(r) ==
  /\ pc[r] = "revoked?"
  /\ IF TokenLive THEN GoTo(r, "verified") ELSE EndRequest(r)
  /\ UNCHANGED <<vars, userVars, signedOut>>

(* authenticate: no mark, and the token verifies; or a 401. *)
AuthVerify(r) ==
  /\ pc[r] = "revoked?"
  /\ GetReply(r)
  /\ IF ask[r].answer = None /\ TokenLive THEN GoTo(r, "verified") ELSE EndRequest(r)
  /\ UNCHANGED <<userVars, signedOut>>

(* Mutant: a hit renews the lifetime of the cached record. *)
AuthPermsHitRenews(r) ==
  /\ pc[r] = "verified"
  /\ MemLive(Perms)
  /\ Set(Perms, PermTTL, TRUE)
  /\ content' = [content EXCEPT ![sets + 1] = content[mem[Perms].num]]
  /\ Decide(r, content[mem[Perms].num])
  /\ UNCHANGED <<status, suspended, signedOut>>

(* authenticate: the user record is in L1. *)
AuthPermsHit(r) ==
  /\ pc[r] = "verified"
  /\ MemLive(Perms)
  /\ Decide(r, content[mem[Perms].num])
  /\ UNCHANGED <<vars, userVars, signedOut>>

(* authenticate: the user record is asked of Redis. *)
AuthPermsMiss(r) ==
  /\ pc[r] = "verified"
  /\ \E ok \in RedisOutcome : GetMiss(r, Perms, ok)
  /\ GoTo(r, "perms?")
  /\ UNCHANGED <<userVars, signedOut>>

(* authenticate: Redis had the user record, or the database is asked. *)
AuthPermsReply(r) ==
  /\ pc[r] = "perms?"
  /\ GetReply(r)
  /\ IF ask[r].answer = None THEN GoTo(r, "read")
                             ELSE Decide(r, content[ask[r].answer.num])
  /\ UNCHANGED <<userVars, signedOut>>

(* authenticate: the query runs in the database. *)
AuthRead(r) ==
  /\ pc[r] = "read"
  /\ pc' = [pc EXCEPT ![r] = "fill"]
  /\ user' = [user EXCEPT ![r] = status]
  /\ readAt' = [readAt EXCEPT ![r] = clock]
  /\ UNCHANGED <<vars, began, late, userVars, signedOut>>

(* authenticate: the answer of the query is cached, and decided upon.  The *)
(* set is awaited in between, but nothing is read after it.                *)
AuthFill(r) ==
  /\ pc[r] = "fill"
  /\ \E ok \in RedisOutcome : Set(Perms, PermTTL, ok)
  /\ content' = [content EXCEPT ![sets + 1] = user[r]]
  /\ Decide(r, user[r])
  /\ UNCHANGED <<status, suspended, signedOut>>

(* The handler answers; or the query, or a step of sign-out, fails.        *)
Leave(r) ==
  /\ pc[r] \in {"read", "fill", "admitted", "del"}
  /\ EndRequest(r)
  /\ UNCHANGED <<vars, userVars, signedOut>>

(* Mutant: the mark is written to L1 only. *)
SignoutMarksL1(r) ==
  /\ pc[r] = "admitted"
  /\ TokenLive
  /\ Set(Revoked, DefaultTTL, FALSE)
  /\ signedOut' = IF signedOut = None THEN clock ELSE signedOut
  /\ GoTo(r, "del")
  /\ UNCHANGED userVars

(* signout, once the refresh token is revoked: the access token verifies   *)
(* and is marked revoked.  set is given { PX: ttl } as the value and no    *)
(* lifetime, so the mark lives for the default.                            *)
Signout(r) ==
  /\ pc[r] = "admitted"
  /\ TokenLive
  /\ \E ok \in RedisOutcome :
       /\ Set(Revoked, DefaultTTL, ok)
       /\ signedOut' = IF ok /\ signedOut = None THEN clock ELSE signedOut
  /\ GoTo(r, "del")
  /\ UNCHANGED userVars

(* AuthController.signout: the cached user record is deleted. *)
SignoutDel(r) ==
  /\ pc[r] = "del"
  /\ \E ok \in RedisOutcome : Del(Perms, ok)
  /\ EndRequest(r)
  /\ UNCHANGED <<userVars, signedOut>>

(* Someone suspends the user in the database. *)
Suspend ==
  /\ status = "ACTIVE"
  /\ status' = "SUSPENDED"
  /\ suspended' = clock
  /\ UNCHANGED <<vars, accessVars, content, signedOut>>

(* The timer of L1. *)
AccessCleanup ==
  /\ CleanupExpired
  /\ UNCHANGED <<accessVars, userVars, signedOut>>

(* The process restarts. *)
AccessRestart ==
  /\ Restart
  /\ pc' = [r \in Requests |-> "idle"]
  /\ began' = [r \in Requests |-> 0] /\ readAt' = [r \in Requests |-> 0]
  /\ late' = [r \in Requests |-> FALSE]
  /\ user' = [r \in Requests |-> "ACTIVE"]
  /\ UNCHANGED <<userVars, signedOut>>

(* Time passes; a database query is answered within the lag of Redis. *)
AccessTick ==
  /\ \A r \in Requests : pc[r] = "fill" => clock < readAt[r] + MaxLag
  /\ Tick
  /\ UNCHANGED <<accessVars, userVars, signedOut>>

AccessNext ==
  \/ \E r \in Requests :
       \/ AuthStart(r) \/ AuthVerify(r) \/ AuthPermsHit(r) \/ AuthPermsMiss(r)
       \/ AuthPermsReply(r) \/ AuthRead(r) \/ AuthFill(r) \/ Leave(r)
       \/ Signout(r) \/ SignoutDel(r)
  \/ Suspend \/ AccessCleanup \/ AccessRestart \/ AccessTick

AccessSpec == AccessInit /\ [][AccessNext]_allVars

-----------------------------------------------------------------------------
(* A step that lets request r through. *)
LetsThrough(r) == pc[r] # "admitted" /\ pc'[r] = "admitted"

(* A user suspended in the database is let through no longer than the      *)
(* cached record lives, plus one stay in L1 and the lags of a query and of *)
(* a cache answer, through restarts, evictions and overlapping requests    *)
(* (authenticate.ts:41-85).                                                *)
SuspensionTakesEffect ==
  [][\A r \in Requests : LetsThrough(r) /\ suspended # None =>
       clock < suspended + PermTTL + L1TTL + 2 * MaxLag]_allVars

(* A token whose mark reached Redis is refused to every request that       *)
(* begins within the mark's lifetime and whose get does not fail, whatever *)
(* is evicted, overwritten or restarted (authenticate.ts:19-23,            *)
(* auth.service.ts:392-400).                                               *)
SignoutRefuses ==
  [][\A r \in Requests : LetsThrough(r) /\ late[r] =>
       began[r] >= signedOut + DefaultTTL]_allVars

(* What the route's summary says, "Sign out user and invalidate tokens"    *)
(* (auth.swagger.ts:91): after a sign-out the access token is refused.     *)
SignoutLasts ==
  \A r \in Requests : ~(pc[r] = "admitted" /\ late[r])

=============================================================================
