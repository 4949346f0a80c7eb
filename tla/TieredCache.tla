---------------------------- MODULE TieredCache ----------------------------
(***************************************************************************)
(* The cache of core/cache: CacheService over MultiCacheProvider over an   *)
(* in-process map (L1, MemoryProvider) and Redis (L2, RedisCacheProvider). *)
(*                                                                         *)
(* A get that misses L1 asks Redis and, when the answer arrives, copies it *)
(* into L1: everything in between is a point where others run.  Redis      *)
(* commands of the process go down one connection, in order, so a command  *)
(* takes effect in the order it was sent and only its answer is late.  Any *)
(* Redis command may fail; failures are logged and swallowed.              *)
(*                                                                         *)
(* A value is named by the number of the set that stored it.  A live value *)
(* is never null: storing null is the same to a reader as storing nothing. *)
(***************************************************************************)
EXTENDS Naturals, FiniteSets

CONSTANTS
  Requests,  \* the gets that can be waiting for Redis at once
  Keys,
  None,      \* no answer, no entry
  MaxItems,  \* how many entries L1 holds
  L1TTL,     \* lifetime of an entry copied from L2 to L1, in ticks
  Lives,     \* the lifetimes set is called with, in ticks
  MaxLag,    \* ticks in which Redis answers a get, or the get fails
  MaxSets,   \* bound: calls of set
  MaxClock   \* bound: the clock stops here

ASSUME SizeAssumption == MaxItems \in Nat \ {0}
ASSUME TimesAssumption ==
  {L1TTL, MaxLag, MaxSets, MaxClock} \subseteq Nat /\ Lives \subseteq Nat \ {0}

VARIABLES
  order,  \* L1: the place of each of its keys in the order a Map iterates them
  mem,    \* L1: the entry of each of those keys
  redis,  \* L2: the entry of each key, or None
  ask,    \* for each request, the get that waits for Redis, or None
  scan,   \* the keys a clear has still to delete from L2
  clock,  \* Date.now()
  sets,   \* history: how many sets there were
  gone    \* history: the last delete of each key that reached both levels

levelVars == <<order, mem, redis>>
vars == <<order, mem, redis, ask, scan, clock, sets, gone>>

(* num and born (which set, and when) are for the properties; exp is when  *)
(* the entry runs out, life the lifetime the caller of set asked for.      *)
Entry == [num : Nat, born : Nat, life : Nat, exp : Nat]

(* None is none of the values it stands beside. *)
ASSUME NoneApart ==
  None \notin Entry \cup Nat \cup [key : Keys, answer : Entry \cup {None}, at : Nat]

(* The keys in L1. *)
Held == DOMAIN mem

(* The types; an entry of L1 is never null. *)
TypeOK ==
  /\ Held \subseteq Keys /\ \A k \in Held : mem[k] \in Entry
  /\ order \in [Held -> 1..Cardinality(Held)]
  /\ redis \in [Keys -> Entry \cup {None}]
  /\ ask \in [Requests -> [key : Keys, answer : Entry \cup {None}, at : Nat] \cup {None}]
  /\ scan \subseteq Keys
  /\ clock \in Nat
  /\ sets \in Nat
  /\ gone \in [Keys -> [num : Nat, at : Nat]]

(* Both levels are empty. *)
Init ==
  /\ order = <<>> /\ mem = <<>>
  /\ redis = [k \in Keys |-> None]
  /\ ask = [r \in Requests |-> None]
  /\ scan = {} /\ clock = 0 /\ sets = 0
  /\ gone = [k \in Keys |-> [num |-> 0, at |-> 0]]

-----------------------------------------------------------------------------
(* MemoryProvider *)

(* The place of x among the keys of kept, which stay in the order they had. *)
Place(x, kept) == Cardinality({y \in kept : order[y] <= order[x]})

(* Mutant: an entry is only evicted once there is one too many. *)
VictimsLate ==
  IF Cardinality(Held) <= MaxItems THEN {} ELSE {x \in Held : order[x] = 1}

(* evictIfNeeded: a full map loses the key it would iterate first, also    *)
(* when the key to be set is in it already.                                *)
Victims ==
  IF Cardinality(Held) < MaxItems THEN {} ELSE {x \in Held : order[x] = 1}

(* set: a key that is still in the map keeps its place, another is the last. *)
MemSet(k, e) ==
  LET kept == Held \ Victims IN
  /\ mem' = [x \in kept \cup {k} |-> IF x = k THEN e ELSE mem[x]]
  /\ order' = [x \in kept \cup {k} |->
                IF x \in kept THEN Place(x, kept) ELSE Cardinality(kept) + 1]

(* The keys of dead leave L1. *)
MemDrop(dead) ==
  LET kept == Held \ dead IN
  /\ mem' = [x \in kept |-> mem[x]]
  /\ order' = [x \in kept |-> Place(x, kept)]

(* get finds an entry that has not run out. *)
MemLive(k) == k \in Held /\ clock < mem[k].exp

(* cleanupExpired, on its timer. *)
CleanupExpired ==
  LET dead == {x \in Held : ~MemLive(x)} IN
  /\ dead # {}
  /\ MemDrop(dead)
  /\ UNCHANGED <<redis, ask, scan, clock, sets, gone>>

-----------------------------------------------------------------------------
(* MultiCacheProvider, reached through CacheService *)

(* get: a live entry of L1 is the answer and nothing changes.  Otherwise   *)
(* L1 drops what ran out and Redis is asked; the answer is what it holds,  *)
(* or nothing when the command fails.                                      *)
GetMiss(r, k, ok) ==
  /\ ask[r] = None
  /\ ~MemLive(k)
  /\ MemDrop({k})
  /\ ask' = [ask EXCEPT ![r] =
       [key |-> k, answer |-> IF ok THEN redis[k] ELSE None, at |-> clock]]
  /\ UNCHANGED <<redis, scan, clock, sets, gone>>

(* Mutant: an answer of null is copied to L1 too. *)
GetReplyCopiesNull(r) ==
  /\ ask[r] # None
  /\ LET a == ask[r].answer IN
     MemSet(ask[r].key, IF a = None THEN None ELSE [a EXCEPT !.exp = clock + L1TTL])
  /\ ask' = [ask EXCEPT ![r] = None]
  /\ UNCHANGED <<redis, scan, clock, sets, gone>>

(* Mutant: the copy lives as long as the entry was first stored for. *)
GetReplyKeepsLife(r) ==
  /\ ask[r] # None
  /\ LET a == ask[r].answer IN
     IF a = None THEN UNCHANGED <<order, mem>>
     ELSE MemSet(ask[r].key, [a EXCEPT !.exp = clock + a.life])
  /\ ask' = [ask EXCEPT ![r] = None]
  /\ UNCHANGED <<redis, scan, clock, sets, gone>>

(* get: the answer arrives and is copied to L1 for l1TTL. *)
GetReply(r) ==
  /\ ask[r] # None
  /\ LET a == ask[r].answer IN
     IF a = None THEN UNCHANGED <<order, mem>>
     ELSE MemSet(ask[r].key, [a EXCEPT !.exp = clock + L1TTL])
  /\ ask' = [ask EXCEPT ![r] = None]
  /\ UNCHANGED <<redis, scan, clock, sets, gone>>

(* set: both levels, with the caller's lifetime; Redis may fail. *)
Set(k, life, ok) ==
  LET e == [num |-> sets + 1, born |-> clock, life |-> life, exp |-> clock + life] IN
  /\ sets < MaxSets
  /\ sets' = sets + 1
  /\ MemSet(k, e)
  /\ redis' = IF ok THEN [redis EXCEPT ![k] = e] ELSE redis
  /\ UNCHANGED <<ask, scan, clock, gone>>

(* Mutant: only the first level that has the key deletes it. *)
DelFirst(k, ok) ==
  /\ MemDrop({k})
  /\ redis' = IF ok /\ k \notin Held THEN [redis EXCEPT ![k] = None] ELSE redis
  /\ gone' = IF ok THEN [gone EXCEPT ![k] = [num |-> sets, at |-> clock]] ELSE gone
  /\ UNCHANGED <<ask, scan, clock, sets>>

(* delete: both levels; Redis may fail. *)
Del(k, ok) ==
  /\ MemDrop({k})
  /\ redis' = IF ok THEN [redis EXCEPT ![k] = None] ELSE redis
  /\ gone' = IF ok THEN [gone EXCEPT ![k] = [num |-> sets, at |-> clock]] ELSE gone
  /\ UNCHANGED <<ask, scan, clock, sets>>

(* clear: L1 is emptied at once; the scan of L2 goes on after the answer.  *)
Clear ==
  /\ order' = <<>>
  /\ mem' = <<>>
  /\ scan' = {k \in Keys : redis[k] # None}
  /\ UNCHANGED <<redis, ask, clock, sets, gone>>

(* The scan reaches key k and deletes it from L2, whatever it is by now.   *)
ScanDelete(k) ==
  /\ k \in scan
  /\ scan' = scan \ {k}
  /\ redis' = [redis EXCEPT ![k] = None]
  /\ UNCHANGED <<order, mem, ask, clock, sets, gone>>

(* The process restarts: L1, the gets and the scan are lost, L2 is not.    *)
Restart ==
  /\ order' = <<>>
  /\ mem' = <<>>
  /\ ask' = [r \in Requests |-> None]
  /\ scan' = {}
  /\ UNCHANGED <<redis, clock, sets, gone>>

(* Time passes, but not beyond the lag of a waiting get.  Redis drops what *)
(* runs out.                                                               *)
Tick ==
  /\ clock < MaxClock
  /\ \A r \in Requests : ask[r] # None => clock < ask[r].at + MaxLag
  /\ clock' = clock + 1
  /\ redis' = [k \in Keys |->
       IF redis[k] # None /\ redis[k].exp <= clock + 1 THEN None ELSE redis[k]]
  /\ UNCHANGED <<order, mem, ask, scan, sets, gone>>

Next ==
  \/ \E r \in Requests, k \in Keys, ok \in BOOLEAN : GetMiss(r, k, ok)
  \/ \E r \in Requests : GetReply(r)
  \/ \E k \in Keys, life \in Lives, ok \in BOOLEAN : Set(k, life, ok)
  \/ \E k \in Keys, ok \in BOOLEAN : Del(k, ok)
  \/ CleanupExpired
  \/ Clear
  \/ \E k \in Keys : ScanDelete(k)
  \/ Restart
  \/ Tick

Spec == Init /\ [][Next]_vars

-----------------------------------------------------------------------------
(* L1 never holds more than maxItems entries, although set and the copy of *)
(* a late answer both evict before they know whether they add a key        *)
(* (memory.cache.ts:59-66,105-114); and no two keys have the same place in *)
(* its order, so that a full map always has one that goes first.           *)
SizeBound ==
  /\ Cardinality(Held) <= MaxItems
  /\ \A j, k \in Held : order[j] = order[k] => j = k

(* However often an entry is evicted, lost in a restart and copied back    *)
(* from L2, it is never served later than its lifetime plus one stay in L1 *)
(* and the lag of one answer (multi.cache.ts:33-39).                       *)
AgeBound ==
  \A k \in Held : mem[k].exp <= mem[k].born + mem[k].life + MaxLag + L1TTL

(* After a delete that reached both levels the old value is gone from L2,  *)
(* and a get whose answer was on its way can bring it back into L1 only    *)
(* for one stay (multi.cache.ts:33-37,65-71).                              *)
DeletedGoesAway ==
  \A k \in Keys :
    /\ redis[k] # None => redis[k].num > gone[k].num
    /\ k \in Held /\ mem[k].num <= gone[k].num =>
         mem[k].exp <= gone[k].at + MaxLag + L1TTL

(* What the steps preserve: Redis holds nothing that ran out, and a late   *)
(* answer is no older than the lag.                                        *)
RedisFresh ==
  \A k \in Keys : redis[k] # None =>
    /\ clock < redis[k].exp /\ redis[k].exp <= redis[k].born + redis[k].life
    /\ gone[k].num < redis[k].num /\ redis[k].num <= sets

(* An answer on its way is no older than the lag, and was live when asked for. *)
AnswersRecent ==
  \A r \in Requests : ask[r] # None =>
    /\ ask[r].at <= clock /\ clock <= ask[r].at + MaxLag
    /\ ask[r].answer # None =>
         /\ ask[r].at < ask[r].answer.born + ask[r].answer.life
         /\ ask[r].answer.num <= gone[ask[r].key].num => ask[r].at <= gone[ask[r].key].at

(* A delete is not in the future. *)
DeletesCounted ==
  \A k \in Keys : gone[k].num <= sets /\ gone[k].at <= clock

(* What the steps of the cache preserve together: the strengthening of     *)
(* AgeBound and DeletedGoesAway.                                           *)
IndInv == RedisFresh /\ AnswersRecent /\ DeletesCounted

=============================================================================
