------------------------- MODULE AccessControlProof -------------------------
(* Proofs about AccessControl, for any requests, cache size, lifetimes and *)
(* lag.  That the cache underneath keeps its own promises comes from       *)
(* TieredCacheProof, because every step here is a step of the cache.       *)
EXTENDS AccessControl, TieredCacheProof

(* The types of what the middleware adds to the cache. *)
AccessTyped ==
  /\ pc \in [Requests -> {"idle", "revoked?", "verified", "perms?", "read",
                          "fill", "admitted", "del"}]
  /\ began \in [Requests -> Nat] /\ readAt \in [Requests -> Nat]
  /\ late \in [Requests -> BOOLEAN]
  /\ user \in [Requests -> Statuses]
  /\ status \in Statuses
  /\ content \in [1..MaxSets -> Statuses]
  /\ signedOut \in Nat \cup {None} /\ suspended \in Nat \cup {None}
  /\ sets <= MaxSets

(* The facts about the constants, one by one. *)
LEMMA ConstantFacts ==
  /\ L1TTL \in Nat /\ MaxLag \in Nat /\ MaxSets \in Nat
  /\ DefaultTTL \in Lives /\ PermTTL \in Lives
  /\ DefaultTTL \in Nat \ {0} /\ PermTTL \in Nat \ {0}
  /\ Revoked \in Keys /\ Perms \in Keys /\ Revoked # Perms
BY TimesAssumption, AccessTimes, AccessKeys

-----------------------------------------------------------------------------
(* Every step of authenticate, sign-out and their surroundings is a step   *)
(* of the cache, or none.                                                  *)
LEMMA CacheStep ==
  ASSUME [AccessNext]_allVars
  PROVE  [Next]_vars
<1>. USE ConstantFacts
<1>1. ASSUME NEW r \in Requests, AuthStart(r) PROVE Next
  BY <1>1 DEF AuthStart, RedisOutcome, Next
<1>2. ASSUME NEW r \in Requests, AuthVerify(r) PROVE Next
  BY <1>2 DEF AuthVerify, Next
<1>3. ASSUME NEW r \in Requests,
             \/ AuthPermsHit(r) \/ AuthRead(r) \/ Leave(r)
      PROVE  UNCHANGED vars
  BY <1>3 DEF AuthPermsHit, AuthRead, Leave
<1>4. ASSUME NEW r \in Requests, AuthPermsMiss(r) PROVE Next
  BY <1>4 DEF AuthPermsMiss, RedisOutcome, Next
<1>5. ASSUME NEW r \in Requests, AuthPermsReply(r) PROVE Next
  BY <1>5 DEF AuthPermsReply, Next
<1>6. ASSUME NEW r \in Requests, AuthFill(r) PROVE Next
  BY <1>6 DEF AuthFill, RedisOutcome, Next
<1>7. ASSUME NEW r \in Requests, Signout(r) PROVE Next
  BY <1>7 DEF Signout, RedisOutcome, Next
<1>8. ASSUME NEW r \in Requests, SignoutDel(r) PROVE Next
  BY <1>8 DEF SignoutDel, RedisOutcome, Next
<1>9. Suspend => UNCHANGED vars
  BY DEF Suspend
<1>10. AccessCleanup \/ AccessRestart \/ AccessTick => Next
  BY DEF AccessCleanup, AccessRestart, AccessTick, Next
<1>11. UNCHANGED allVars => UNCHANGED vars
  BY DEF allVars, vars
<1>. QED
  BY <1>1, <1>2, <1>3, <1>4, <1>5, <1>6, <1>7, <1>8, <1>9, <1>10, <1>11
     DEF AccessNext

(* The middleware over its cache keeps to the cache's specification: what  *)
(* is proved of TieredCache holds of the cache authenticate works with.    *)
THEOREM UsesTheCache == AccessSpec => Spec
<1>1. AccessInit => Init
  BY DEF AccessInit
<1>2. [AccessNext]_allVars => [Next]_vars
  BY CacheStep
<1>. QED
  BY <1>1, <1>2, PTL DEF AccessSpec, Spec
-----------------------------------------------------------------------------
(* Entries of the cached user record.  What is known of one: its lifetime, *)
(* that it was stored by an earlier set, and that if it still says ACTIVE  *)
(* it was stored at most a query's lag after the suspension.               *)
Sound(e) ==
  /\ e.life = PermTTL
  /\ e.num \in 1..sets
  /\ e.born <= clock
  /\ suspended # None /\ content[e.num] = "ACTIVE" => e.born <= suspended + MaxLag

(* The same wherever the record is: in L1, in L2 and on its way. *)
RecordsSound ==
  /\ Perms \in Held => Sound(mem[Perms])
  /\ redis[Perms] # None => Sound(redis[Perms])
  /\ \A r \in Requests :
       ask[r] # None /\ ask[r].key = Perms /\ ask[r].answer # None =>
         Sound(ask[r].answer)

(* A request that waits for the user record has asked for that key; and a  *)
(* query's answer is no older than the lag, and from before the suspension *)
(* if it says ACTIVE.                                                      *)
RequestsSound ==
  /\ status = "ACTIVE" => suspended = None
  /\ \A r \in Requests :
       /\ pc[r] = "perms?" => ask[r].key = Perms
       /\ pc[r] = "fill" =>
            /\ readAt[r] <= clock /\ clock <= readAt[r] + MaxLag
            /\ suspended # None /\ user[r] = "ACTIVE" => readAt[r] <= suspended

(* From the sign-out on the mark stays in Redis for its whole lifetime. *)
MarkKept ==
  signedOut # None =>
    /\ signedOut <= clock
    /\ clock < signedOut + DefaultTTL =>
         redis[Revoked] # None /\ redis[Revoked].exp >= signedOut + DefaultTTL

(* A request that began while the mark was there has it in its answer, and *)
(* gets no further than to that answer.                                    *)
LateStopped ==
  \A r \in Requests : late[r] =>
    /\ signedOut # None
    /\ began[r] < signedOut + DefaultTTL =>
         pc[r] = "revoked?" /\ ask[r].answer # None

(* All that the proof carries from step to step. *)
AccessInv ==
  Inv /\ AccessTyped /\ RecordsSound /\ RequestsSound /\ MarkKept /\ LateStopped

-----------------------------------------------------------------------------
(* A request goes on, or ends; either way its variables keep their types. *)
LEMMA GoToTyped ==
  ASSUME AccessTyped, NEW r \in Requests,
         NEW p \in {"idle", "revoked?", "verified", "perms?", "read",
                    "fill", "admitted", "del"},
         GoTo(r, p) \/ EndRequest(r),
         sets' <= MaxSets, status' \in Statuses,
         content' \in [1..MaxSets -> Statuses],
         signedOut' \in Nat \cup {None}, suspended' \in Nat \cup {None}
  PROVE  AccessTyped'
<1>1. CASE GoTo(r, p)
  BY <1>1 DEF GoTo, AccessTyped
<1>2. CASE EndRequest(r)
  BY <1>2 DEF EndRequest, AccessTyped, Statuses
<1>. QED
  BY <1>1, <1>2

(* Each step keeps the types of what the middleware adds. *)
LEMMA AccessTypeStep ==
  ASSUME Inv, AccessTyped, [AccessNext]_allVars
  PROVE  AccessTyped'
<1>. USE DEF userVars, accessVars, vars
<1>1. /\ clock \in Nat /\ sets \in Nat /\ MaxSets \in Nat
      /\ sets <= MaxSets /\ status \in Statuses
      /\ content \in [1..MaxSets -> Statuses]
      /\ signedOut \in Nat \cup {None} /\ suspended \in Nat \cup {None}
  BY ConstantFacts DEF Inv, Typed, AccessTyped
<1>2. ASSUME NEW r \in Requests, AuthStart(r)
      PROVE  AccessTyped'
  <2>1. UNCHANGED <<sets, status, content, signedOut, suspended, user, readAt>>
    BY <1>2 DEF AuthStart, GetMiss
  <2>2. PICK ok \in BOOLEAN : late' = [late EXCEPT ![r] = ok /\ signedOut # None]
    BY <1>2 DEF AuthStart, RedisOutcome
  <2>3. /\ pc' = [pc EXCEPT ![r] = "revoked?"]
        /\ began' = [began EXCEPT ![r] = clock]
    BY <1>2 DEF AuthStart
  <2>4. late' \in [Requests -> BOOLEAN]
    BY <2>2 DEF AccessTyped
  <2>. QED
    BY <1>1, <2>1, <2>3, <2>4 DEF AccessTyped
<1>3. ASSUME NEW r \in Requests, AuthVerify(r)
      PROVE  AccessTyped'
  <2>1. GoTo(r, "verified") \/ EndRequest(r)
    BY <1>3 DEF AuthVerify
  <2>2. UNCHANGED <<sets, status, content, signedOut, suspended>>
    BY <1>3 DEF AuthVerify, GetReply
  <2>. QED
    BY <1>1, <2>1, <2>2, GoToTyped
<1>4. ASSUME NEW r \in Requests, AuthPermsHit(r)
      PROVE  AccessTyped'
  <2>1. GoTo(r, "admitted") \/ EndRequest(r)
    BY <1>4 DEF AuthPermsHit, Decide
  <2>2. UNCHANGED <<sets, status, content, signedOut, suspended>>
    BY <1>4 DEF AuthPermsHit
  <2>. QED
    BY <1>1, <2>1, <2>2, GoToTyped
<1>5. ASSUME NEW r \in Requests, AuthPermsMiss(r)
      PROVE  AccessTyped'
  <2>1. GoTo(r, "perms?")
    BY <1>5 DEF AuthPermsMiss
  <2>2. UNCHANGED <<sets, status, content, signedOut, suspended>>
    BY <1>5 DEF AuthPermsMiss, GetMiss
  <2>. QED
    BY <1>1, <2>1, <2>2, GoToTyped
<1>6. ASSUME NEW r \in Requests, AuthPermsReply(r)
      PROVE  AccessTyped'
  <2>1. GoTo(r, "read") \/ GoTo(r, "admitted") \/ EndRequest(r)
    BY <1>6 DEF AuthPermsReply, Decide
  <2>2. UNCHANGED <<sets, status, content, signedOut, suspended>>
    BY <1>6 DEF AuthPermsReply, GetReply
  <2>. QED
    BY <1>1, <2>1, <2>2, GoToTyped
<1>7. ASSUME NEW r \in Requests, AuthRead(r)
      PROVE  AccessTyped'
  BY <1>1, <1>7 DEF AuthRead, AccessTyped
<1>8. ASSUME NEW r \in Requests, AuthFill(r)
      PROVE  AccessTyped'
  <2>1. GoTo(r, "admitted") \/ EndRequest(r)
    BY <1>8 DEF AuthFill, Decide
  <2>2. /\ sets < MaxSets /\ sets' = sets + 1
        /\ content' = [content EXCEPT ![sets + 1] = user[r]]
        /\ UNCHANGED <<status, signedOut, suspended>>
    BY <1>8 DEF AuthFill, Set
  <2>3. user[r] \in Statuses
    BY DEF AccessTyped
  <2>4. content' \in [1..MaxSets -> Statuses]
    BY <1>1, <2>2, <2>3
  <2>. QED
    BY <1>1, <2>1, <2>2, <2>4, GoToTyped
<1>9. ASSUME NEW r \in Requests, Leave(r)
      PROVE  AccessTyped'
  BY <1>1, <1>9, GoToTyped DEF Leave
<1>10. ASSUME NEW r \in Requests, Signout(r)
       PROVE  AccessTyped'
  <2>1. /\ GoTo(r, "del")
        /\ UNCHANGED <<status, content, suspended>>
    BY <1>10 DEF Signout
  <2>2. /\ sets < MaxSets /\ sets' = sets + 1
        /\ signedOut' \in {signedOut, clock}
    BY <1>10 DEF Signout, Set
  <2>3. sets' <= MaxSets /\ signedOut' \in Nat \cup {None}
    BY <1>1, <2>2
  <2>. QED
    BY <1>1, <2>1, <2>3, GoToTyped
<1>11. ASSUME NEW r \in Requests, SignoutDel(r)
       PROVE  AccessTyped'
  <2>1. EndRequest(r) /\ UNCHANGED <<sets, status, content, signedOut, suspended>>
    BY <1>11 DEF SignoutDel, Del
  <2>. QED
    BY <1>1, <2>1, GoToTyped
<1>12. CASE Suspend
  BY <1>1, <1>12 DEF Suspend, AccessTyped, Statuses
<1>13. CASE AccessCleanup
  BY <1>13 DEF AccessCleanup, CleanupExpired, AccessTyped
<1>14. CASE AccessRestart
  BY <1>14 DEF AccessRestart, Restart, AccessTyped, Statuses
<1>15. CASE AccessTick
  BY <1>15 DEF AccessTick, Tick, AccessTyped
<1>16. CASE UNCHANGED allVars
  BY <1>16 DEF allVars, AccessTyped
<1>. QED
  BY <1>2, <1>3, <1>4, <1>5, <1>6, <1>7, <1>8, <1>9, <1>10, <1>11, <1>12,
     <1>13, <1>14, <1>15, <1>16 DEF AccessNext

-----------------------------------------------------------------------------
(* What the commands of the cache do to L1 and to the waiting gets.        *)
LEMMA MissEffect ==
  ASSUME Typed, NEW r \in Requests, NEW k \in Keys, NEW ok, GetMiss(r, k, ok)
  PROVE  /\ Held' \subseteq Held /\ \A x \in Held' : mem'[x] = mem[x]
         /\ UNCHANGED <<redis, clock, sets>>
         /\ \A q \in Requests \ {r} : ask'[q] = ask[q]
         /\ ask'[r].key = k /\ ask'[r].answer = IF ok THEN redis[k] ELSE None
         /\ ask'[r] \in [key : Keys, answer : Entry \cup {None}, at : Nat]
<1>. DEFINE a == [key |-> k, answer |-> IF ok THEN redis[k] ELSE None, at |-> clock]
<1>1. /\ a.key = k /\ a.answer = IF ok THEN redis[k] ELSE None
      /\ a \in [key : Keys, answer : Entry \cup {None}, at : Nat]
  BY DEF Typed
<1>2. ask' = [ask EXCEPT ![r] = a]
  BY DEF GetMiss
<1>. HIDE DEF a
<1>3. ask'[r] = a /\ \A q \in Requests \ {r} : ask'[q] = ask[q]
  BY <1>2 DEF Typed
<1>. QED
  BY <1>1, <1>3, MemDropEffect DEF GetMiss

(* The copy of an answer is the answer but for its end. *)
LEMMA ReplyEffect ==
  ASSUME Typed, NEW r \in Requests, GetReply(r)
  PROVE  /\ UNCHANGED <<redis, clock, sets>>
         /\ ask'[r] = None /\ \A q \in Requests \ {r} : ask'[q] = ask[q]
         /\ \A x \in Held' :
              \/ x \in Held /\ mem'[x] = mem[x]
              \/ /\ ask[r] # None /\ x = ask[r].key /\ ask[r].answer # None
                 /\ mem'[x].num = ask[r].answer.num
                 /\ mem'[x].born = ask[r].answer.born
                 /\ mem'[x].life = ask[r].answer.life
<1>1. /\ UNCHANGED <<redis, clock, sets>> /\ ask[r] # None
      /\ ask'[r] = None /\ \A q \in Requests \ {r} : ask'[q] = ask[q]
  BY DEF GetReply, Typed
<1>2. CASE ask[r].answer = None
  BY <1>1, <1>2 DEF GetReply, Held
<1>3. CASE ask[r].answer # None
  <2>1. PICK k \in Keys, a \in Entry : k = ask[r].key /\ a = ask[r].answer
    BY <1>1, <1>3 DEF Typed
  <2>. DEFINE e == [a EXCEPT !.exp = clock + L1TTL]
  <2>2. e.num = a.num /\ e.born = a.born /\ e.life = a.life
    BY DEF Entry
  <2>3. MemSet(k, e)
    BY <1>3, <2>1 DEF GetReply
  <2>. HIDE DEF e
  <2>4. /\ Held' \subseteq Keys
        /\ \A x \in Held' : \/ x = k /\ mem'[x] = e
                            \/ x \in Held /\ mem'[x] = mem[x]
    BY <2>3, MemSetEffect
  <2>. QED
    BY <1>1, <1>3, <2>1, <2>2, <2>4
<1>. QED
  BY <1>2, <1>3

(* What was known of a record stays known: sets are numbered upwards, time *)
(* does not run back, and no suspension is dated back.                     *)
LEMMA SoundStays ==
  ASSUME Inv, AccessTyped,
         clock' \in Nat, clock <= clock', sets' \in Nat, sets <= sets',
         \A n \in 1..sets : content'[n] = content[n],
         suspended' \in {suspended, clock}
  PROVE  \A e \in Entry : Sound(e) => Sound(e)'
<1>1. clock \in Nat /\ sets \in Nat /\ MaxLag \in Nat
  BY ConstantFacts DEF Inv, Typed
<1> TAKE e \in Entry
<1> HAVE Sound(e)
<1>2. e.born \in Nat /\ e.num \in Nat
  BY DEF Entry
<1>3. e.life = PermTTL /\ e.num \in 1..sets' /\ e.born <= clock'
  BY <1>1, <1>2 DEF Sound
<1>4. ASSUME suspended' # None, content'[e.num] = "ACTIVE"
      PROVE  e.born <= suspended' + MaxLag
  <2>1. content[e.num] = "ACTIVE"
    BY <1>4 DEF Sound
  <2>2. CASE suspended' = suspended
    BY <1>4, <2>1, <2>2 DEF Sound
  <2>3. CASE suspended' = clock
    BY <1>1, <1>2, <2>3 DEF Sound
  <2>. QED
    BY <2>2, <2>3
<1>. QED
  BY <1>3, <1>4 DEF Sound

(* A step of the cache that stores no record: each record that is anywhere *)
(* afterwards was somewhere before.                                        *)
LEMMA RecordsStay ==
  ASSUME Inv, AccessTyped, RecordsSound, Typed',
         clock <= clock', sets <= sets',
         \A n \in 1..sets : content'[n] = content[n],
         suspended' \in {suspended, clock},
         Perms \in Held' =>
           \/ Perms \in Held /\ mem'[Perms] = mem[Perms]
           \/ \E r \in Requests :
                /\ ask[r] # None /\ ask[r].key = Perms /\ ask[r].answer # None
                /\ mem'[Perms].num = ask[r].answer.num
                /\ mem'[Perms].born = ask[r].answer.born
                /\ mem'[Perms].life = ask[r].answer.life,
         redis'[Perms] \in {redis[Perms], None},
         \A r \in Requests :
           \/ ask'[r] \in {ask[r], None}
           \/ ask'[r].key # Perms
           \/ ask'[r].answer \in {redis[Perms], None}
  PROVE  RecordsSound'
<1>1. \A e \in Entry : Sound(e) => Sound(e)'
  BY SoundStays DEF Typed
<1>2. /\ Perms \in Keys
      /\ Perms \in Held => mem[Perms] \in Entry
      /\ Perms \in Held' => mem'[Perms] \in Entry
      /\ redis[Perms] # None => redis[Perms] \in Entry
      /\ \A r \in Requests : ask[r] # None /\ ask[r].answer # None =>
           ask[r].answer \in Entry
  BY ConstantFacts DEF Inv, Typed
<1>3. ASSUME Perms \in Held' PROVE Sound(mem[Perms])'
  <2>1. CASE Perms \in Held /\ mem'[Perms] = mem[Perms]
    <3>1. Sound(mem[Perms])
      BY <2>1 DEF RecordsSound
    <3>. QED
      BY <1>1, <1>2, <2>1, <3>1 DEF Sound
  <2>2. ASSUME NEW r \in Requests,
               ask[r] # None, ask[r].key = Perms, ask[r].answer # None,
               mem'[Perms].num = ask[r].answer.num,
               mem'[Perms].born = ask[r].answer.born,
               mem'[Perms].life = ask[r].answer.life
        PROVE  Sound(mem[Perms])'
    <3>1. Sound(ask[r].answer)
      BY <2>2 DEF RecordsSound
    <3>2. PICK e \in Entry : e = ask[r].answer
      BY <1>2, <2>2
    <3>3. Sound(e)
      BY <3>1, <3>2 DEF Sound
    <3>4. Sound(e)'
      BY <1>1, <3>3
    <3>. QED
      BY <2>2, <3>2, <3>4 DEF Sound
  <2>. QED
    BY <1>3, <2>1, <2>2
<1>4. ASSUME redis'[Perms] # None PROVE Sound(redis[Perms])'
  <2>1. redis'[Perms] = redis[Perms] /\ redis[Perms] \in Entry
    BY <1>2, <1>4
  <2>2. PICK e \in Entry : e = redis[Perms]
    BY <2>1
  <2>3. Sound(e)
    BY <2>2, <1>4, <2>1 DEF RecordsSound, Sound
  <2>4. Sound(e)'
    BY <1>1, <2>3
  <2>. QED
    BY <2>1, <2>2, <2>4 DEF Sound
<1>5. ASSUME NEW r \in Requests,
             ask'[r] # None, ask'[r].key = Perms, ask'[r].answer # None
      PROVE  Sound(ask[r].answer)'
  <2>1. \/ ask[r] # None /\ ask[r].key = Perms /\ ask'[r].answer = ask[r].answer
        \/ redis[Perms] # None /\ ask'[r].answer = redis[Perms]
    BY <1>5
  <2>2. PICK e \in Entry : e = ask'[r].answer /\ Sound(e)
    BY <1>2, <1>5, <2>1 DEF RecordsSound, Sound
  <2>3. Sound(e)'
    BY <1>1, <2>2
  <2>. QED
    BY <2>2, <2>3 DEF Sound
<1>. QED
  BY <1>3, <1>4, <1>5 DEF RecordsSound

(* The query's answer becomes a record that is no later than a query's lag *)
(* after the suspension.                                                   *)
LEMMA FillStep ==
  ASSUME Inv, AccessTyped, RecordsSound, RequestsSound, Inv',
         NEW r \in Requests, AuthFill(r)
  PROVE  RecordsSound'
<1>1. PICK ok \in BOOLEAN : Set(Perms, PermTTL, ok)
  BY DEF AuthFill, RedisOutcome
<1>2. PICK e \in Entry :
        e = [num |-> sets + 1, born |-> clock, life |-> PermTTL, exp |-> clock + PermTTL]
  <2>1. [num |-> sets + 1, born |-> clock, life |-> PermTTL, exp |-> clock + PermTTL]
          \in Entry
    BY ConstantFacts DEF Inv, Typed, Entry
  <2>. QED
    BY <2>1
<1>3. /\ e.num = sets + 1 /\ e.born = clock /\ e.life = PermTTL
      /\ sets < MaxSets /\ sets' = sets + 1 /\ UNCHANGED <<ask, clock, suspended>>
      /\ MemSet(Perms, e)
      /\ redis' = IF ok THEN [redis EXCEPT ![Perms] = e] ELSE redis
  <2>1. e.num = sets + 1 /\ e.born = clock /\ e.life = PermTTL
    BY <1>2
  <2>2. suspended' = suspended
    BY DEF AuthFill
  <2>. QED
    BY <1>1, <1>2, <2>1, <2>2 DEF Set
<1>4. /\ content' = [content EXCEPT ![sets + 1] = user[r]] /\ pc[r] = "fill"
      /\ content \in [1..MaxSets -> Statuses]
      /\ sets \in Nat /\ MaxSets \in Nat /\ clock \in Nat /\ MaxLag \in Nat
      /\ redis \in [Keys -> Entry \cup {None}] /\ Perms \in Keys
      /\ readAt[r] \in Nat /\ suspended \in Nat \cup {None}
  BY ConstantFacts DEF AuthFill, AccessTyped, Inv, Typed
<1>5. Sound(e)'
  <2>1. e.life = PermTTL /\ e.num \in 1..sets' /\ e.born <= clock'
    BY <1>2, <1>3, <1>4
  <2>2. content'[e.num] = user[r]
    BY <1>2, <1>3, <1>4
  <2>3. ASSUME suspended' # None, content'[e.num] = "ACTIVE"
        PROVE  e.born <= suspended' + MaxLag
    <3>1. clock <= readAt[r] + MaxLag /\ readAt[r] <= suspended
      BY <1>3, <1>4, <2>2, <2>3 DEF RequestsSound
    <3>. QED
      BY <1>3, <1>4, <2>3, <3>1
  <2>. QED
    BY <2>1, <2>3 DEF Sound
<1>6. \A x \in Entry : Sound(x) => Sound(x)'
  <2>1. \A n \in 1..sets : content'[n] = content[n]
    BY <1>3, <1>4
  <2>2. /\ clock' \in Nat /\ clock <= clock' /\ sets' \in Nat /\ sets <= sets'
        /\ suspended' \in {suspended, clock}
    BY <1>3, <1>4
  <2>. QED
    BY <2>1, <2>2, SoundStays
<1>7. Sound(mem[Perms])' \/ Perms \notin Held'
  <2>1. \/ Perms \notin Held' \/ mem'[Perms] = e
        \/ Perms \in Held /\ mem'[Perms] = mem[Perms]
    BY <1>3, <1>4, MemSetEffect DEF Inv
  <2>2. CASE mem'[Perms] = e
    BY <1>5, <2>2 DEF Sound
  <2>3. CASE Perms \in Held /\ mem'[Perms] = mem[Perms]
    <3>1. PICK x \in Entry : x = mem[Perms]
      BY <2>3 DEF Inv, Typed
    <3>2. Sound(x)
      BY <2>3, <3>1 DEF RecordsSound, Sound
    <3>3. Sound(x)'
      BY <1>6, <3>2
    <3>. QED
      BY <2>3, <3>1, <3>3 DEF Sound
  <2>. QED
    BY <2>1, <2>2, <2>3
<1>8. ASSUME redis'[Perms] # None PROVE Sound(redis[Perms])'
  <2>1. CASE ok
    <3>1. redis'[Perms] = e
      BY <1>3, <1>4, <2>1
    <3>. QED
      BY <1>5, <3>1 DEF Sound
  <2>2. CASE ~ok
    <3>1. PICK x \in Entry : x = redis[Perms] /\ redis'[Perms] = x
      BY <1>3, <1>4, <1>8, <2>2
    <3>2. Sound(x)
      BY <1>8, <3>1 DEF RecordsSound, Sound
    <3>3. Sound(x)'
      BY <1>6, <3>2
    <3>. QED
      BY <3>1, <3>3 DEF Sound
  <2>. QED
    BY <2>1, <2>2
<1>9. ASSUME NEW q \in Requests,
             ask'[q] # None, ask'[q].key = Perms, ask'[q].answer # None
      PROVE  Sound(ask[q].answer)'
  <2>1. PICK x \in Entry : x = ask[q].answer /\ ask'[q].answer = x
    BY <1>3, <1>9 DEF Inv, Typed
  <2>2. Sound(x)
    BY <1>3, <1>9, <2>1 DEF RecordsSound, Sound
  <2>3. Sound(x)'
    BY <1>6, <2>2
  <2>. QED
    BY <2>1, <2>3 DEF Sound
<1>. QED
  BY <1>7, <1>8, <1>9 DEF RecordsSound

(* Each step leaves every record, wherever it is, as it has to be. *)
LEMMA RecordsStep ==
  ASSUME Inv, AccessTyped, RecordsSound, RequestsSound, [AccessNext]_allVars
  PROVE  RecordsSound'
<1>. USE DEF userVars, accessVars, vars
<1>1. Inv' /\ Typed /\ Typed'
  BY CacheStep, InvStep DEF Inv
<1>2. /\ clock \in Nat /\ sets \in Nat /\ MaxLag \in Nat
      /\ redis \in [Keys -> Entry \cup {None}]
      /\ Revoked \in Keys /\ Perms \in Keys /\ Revoked # Perms
      /\ content \in [1..MaxSets -> Statuses]
  BY ConstantFacts DEF Inv, Typed, AccessTyped
<1>3. ASSUME UNCHANGED <<mem, redis, ask, clock, sets, content>>,
             suspended' \in {suspended, clock}
      PROVE  RecordsSound'
  <2>1. Perms \in Held' => Perms \in Held /\ mem'[Perms] = mem[Perms]
    BY <1>3 DEF Held
  <2>. QED
    BY <1>1, <1>2, <1>3, <2>1, RecordsStay
<1>4. ASSUME NEW r \in Requests, AuthStart(r) \/ AuthPermsMiss(r)
      PROVE  RecordsSound'
  <2>1. PICK k \in {Revoked, Perms}, ok \in BOOLEAN : GetMiss(r, k, ok)
    BY <1>4 DEF AuthStart, AuthPermsMiss, RedisOutcome
  <2>2. UNCHANGED <<content, suspended>>
    BY <1>4 DEF AuthStart, AuthPermsMiss
  <2>3. /\ Held' \subseteq Held /\ \A x \in Held' : mem'[x] = mem[x]
        /\ UNCHANGED <<redis, clock, sets>>
        /\ \A q \in Requests \ {r} : ask'[q] = ask[q]
        /\ ask'[r].key = k /\ ask'[r].answer = IF ok THEN redis[k] ELSE None
    BY <1>1, <1>2, <2>1, MissEffect
  <2>4. \A q \in Requests : \/ ask'[q] \in {ask[q], None} \/ ask'[q].key # Perms
                           \/ ask'[q].answer \in {redis[Perms], None}
    BY <2>3
  <2>. QED
    BY <1>1, <1>2, <2>2, <2>3, <2>4, RecordsStay
<1>5. ASSUME NEW r \in Requests, AuthVerify(r) \/ AuthPermsReply(r)
      PROVE  RecordsSound'
  <2>1. GetReply(r) /\ UNCHANGED <<content, suspended>>
    BY <1>5 DEF AuthVerify, AuthPermsReply
  <2>2. /\ UNCHANGED <<redis, clock, sets>>
        /\ \A q \in Requests : ask'[q] \in {ask[q], None}
        /\ Perms \in Held' =>
             \/ Perms \in Held /\ mem'[Perms] = mem[Perms]
             \/ /\ ask[r] # None /\ ask[r].key = Perms /\ ask[r].answer # None
                /\ mem'[Perms].num = ask[r].answer.num
                /\ mem'[Perms].born = ask[r].answer.born
                /\ mem'[Perms].life = ask[r].answer.life
    BY <1>1, <2>1, ReplyEffect
  <2>. QED
    BY <1>1, <1>2, <2>1, <2>2, RecordsStay
<1>6. ASSUME NEW r \in Requests, AuthPermsHit(r) \/ AuthRead(r) \/ Leave(r)
      PROVE  RecordsSound'
  BY <1>3, <1>6 DEF AuthPermsHit, AuthRead, Leave
<1>7. ASSUME NEW r \in Requests, AuthFill(r)
      PROVE  RecordsSound'
  BY <1>1, <1>7, FillStep
<1>8. ASSUME NEW r \in Requests, Signout(r)
      PROVE  RecordsSound'
  <2>1. PICK ok \in BOOLEAN : Set(Revoked, DefaultTTL, ok)
    BY <1>8 DEF Signout, RedisOutcome
  <2>2. PICK e :
        /\ sets' = sets + 1 /\ UNCHANGED <<ask, clock>> /\ MemSet(Revoked, e)
        /\ redis' = IF ok THEN [redis EXCEPT ![Revoked] = e] ELSE redis
    BY <2>1 DEF Set
  <2>3. UNCHANGED <<content, suspended>>
    BY <1>8 DEF Signout
  <2>4. Perms \in Held' => Perms \in Held /\ mem'[Perms] = mem[Perms]
    BY <1>1, <1>2, <2>2, MemSetEffect
  <2>5. redis'[Perms] = redis[Perms]
    BY <1>2, <2>2
  <2>. QED
    BY <1>1, <1>2, <2>2, <2>3, <2>4, <2>5, RecordsStay
<1>9. ASSUME NEW r \in Requests, SignoutDel(r)
      PROVE  RecordsSound'
  <2>1. PICK ok \in BOOLEAN : Del(Perms, ok)
    BY <1>9 DEF SignoutDel, RedisOutcome
  <2>2. /\ Held' \subseteq Held /\ \A x \in Held' : mem'[x] = mem[x]
        /\ UNCHANGED <<ask, clock, sets>>
        /\ redis' = IF ok THEN [redis EXCEPT ![Perms] = None] ELSE redis
    BY <2>1, MemDropEffect DEF Del
  <2>3. UNCHANGED <<content, suspended>>
    BY <1>9 DEF SignoutDel
  <2>4. redis'[Perms] \in {redis[Perms], None}
    BY <1>2, <2>2
  <2>. QED
    BY <1>1, <1>2, <2>2, <2>3, <2>4, RecordsStay
<1>10. CASE Suspend
  BY <1>3, <1>10 DEF Suspend
<1>11. CASE AccessCleanup
  <2>1. /\ Held' \subseteq Held /\ \A x \in Held' : mem'[x] = mem[x]
        /\ UNCHANGED <<redis, ask, clock, sets, content, suspended>>
    BY <1>11, MemDropEffect DEF AccessCleanup, CleanupExpired
  <2>. QED
    BY <1>1, <1>2, <2>1, RecordsStay
<1>12. CASE AccessRestart
  <2>1. /\ Held' = {} /\ UNCHANGED <<redis, clock, sets, content, suspended>>
        /\ \A q \in Requests : ask'[q] = None
    BY <1>12 DEF AccessRestart, Restart, Held
  <2>. QED
    BY <1>1, <1>2, <2>1, RecordsStay
<1>13. CASE AccessTick
  <2>1. /\ clock' = clock + 1 /\ Held' = Held
        /\ redis'[Perms] \in {redis[Perms], None}
        /\ UNCHANGED <<mem, ask, sets, content, suspended>>
    BY <1>2, <1>13 DEF AccessTick, Tick, Held
  <2>. QED
    BY <1>1, <1>2, <2>1, RecordsStay
<1>14. CASE UNCHANGED allVars
  BY <1>3, <1>14 DEF allVars
<1>. QED
  BY <1>4, <1>5, <1>6, <1>7, <1>8, <1>9, <1>10, <1>11, <1>12, <1>13, <1>14
     DEF AccessNext

-----------------------------------------------------------------------------
(* Only request r moves; what it waits for, or has read, is as it has to be. *)
LEMMA OneMoves ==
  ASSUME Inv, RequestsSound, NEW r \in Requests,
         UNCHANGED <<clock, status, suspended>>,
         \A q \in Requests \ {r} :
           /\ pc'[q] = pc[q] /\ ask'[q] = ask[q]
           /\ user'[q] = user[q] /\ readAt'[q] = readAt[q],
         pc'[r] = "perms?" => ask'[r].key = Perms,
         pc'[r] = "fill" => readAt'[r] = clock /\ user'[r] = status
  PROVE  RequestsSound'
<1>1. ASSUME NEW q \in Requests, pc'[q] = "fill"
      PROVE  /\ readAt'[q] <= clock' /\ clock' <= readAt'[q] + MaxLag
             /\ suspended' # None /\ user'[q] = "ACTIVE" => readAt'[q] <= suspended'
  BY <1>1, ConstantFacts DEF RequestsSound, Inv, Typed
<1>. QED
  BY <1>1 DEF RequestsSound

(* Where a request is after it went on or ended. *)
LEMMA GoToEffect ==
  ASSUME AccessTyped, NEW r \in Requests, NEW p,
         GoTo(r, p) \/ (EndRequest(r) /\ p = "idle")
  PROVE  /\ pc'[r] = p
         /\ \A q \in Requests \ {r} :
              pc'[q] = pc[q] /\ user'[q] = user[q] /\ readAt'[q] = readAt[q]
BY DEF GoTo, EndRequest, AccessTyped

(* Each step leaves each request waiting for what its place says, with     *)
(* what it read no older than the lag.                                     *)
LEMMA RequestsStep ==
  ASSUME Inv, AccessTyped, RequestsSound, [AccessNext]_allVars
  PROVE  RequestsSound'
<1>. USE DEF userVars, accessVars, vars
<1>1. /\ Typed /\ Revoked \in Keys /\ Perms \in Keys /\ Revoked # Perms
      /\ clock \in Nat /\ MaxLag \in Nat
  BY ConstantFacts DEF Inv, Typed
<1>2. ASSUME NEW r \in Requests, NEW p \in {"idle", "verified", "read", "admitted", "del"},
             GoTo(r, p) \/ (EndRequest(r) /\ p = "idle"),
             UNCHANGED <<clock, status, suspended>>,
             \A q \in Requests \ {r} : ask'[q] = ask[q]
      PROVE  RequestsSound'
  <2>1. /\ pc'[r] = p
        /\ \A q \in Requests \ {r} :
             pc'[q] = pc[q] /\ user'[q] = user[q] /\ readAt'[q] = readAt[q]
    BY <1>2, GoToEffect
  <2>. QED
    BY <1>2, <2>1, OneMoves
<1>3. ASSUME NEW r \in Requests, AuthStart(r)
      PROVE  RequestsSound'
  <2>1. PICK ok \in BOOLEAN : GetMiss(r, Revoked, ok)
    BY <1>3 DEF AuthStart, RedisOutcome
  <2>2. /\ UNCHANGED clock /\ \A q \in Requests \ {r} : ask'[q] = ask[q]
    BY <1>1, <2>1, MissEffect
  <2>3. /\ UNCHANGED <<status, suspended, user, readAt>>
        /\ pc'[r] = "revoked?" /\ \A q \in Requests \ {r} : pc'[q] = pc[q]
    BY <1>3 DEF AuthStart, AccessTyped
  <2>. QED
    BY <2>2, <2>3, OneMoves
<1>4. ASSUME NEW r \in Requests, AuthVerify(r) \/ AuthPermsReply(r)
      PROVE  RequestsSound'
  <2>1. /\ GetReply(r) /\ UNCHANGED <<status, suspended>>
        /\ \/ GoTo(r, "verified") \/ GoTo(r, "read") \/ GoTo(r, "admitted")
           \/ EndRequest(r)
    BY <1>4 DEF AuthVerify, AuthPermsReply, Decide
  <2>2. UNCHANGED clock /\ \A q \in Requests \ {r} : ask'[q] = ask[q]
    BY <1>1, <2>1, ReplyEffect
  <2>. QED
    BY <1>2, <2>1, <2>2
<1>5. ASSUME NEW r \in Requests, AuthPermsHit(r) \/ Leave(r)
      PROVE  RequestsSound'
  <2>1. /\ UNCHANGED <<clock, ask, status, suspended>>
        /\ GoTo(r, "admitted") \/ EndRequest(r)
    BY <1>5 DEF AuthPermsHit, Leave, Decide
  <2>. QED
    BY <1>2, <2>1
<1>6. ASSUME NEW r \in Requests, AuthPermsMiss(r)
      PROVE  RequestsSound'
  <2>1. PICK ok \in BOOLEAN : GetMiss(r, Perms, ok)
    BY <1>6 DEF AuthPermsMiss, RedisOutcome
  <2>2. /\ UNCHANGED clock /\ \A q \in Requests \ {r} : ask'[q] = ask[q]
        /\ ask'[r].key = Perms
    BY <1>1, <2>1, MissEffect
  <2>3. UNCHANGED <<status, suspended>> /\ GoTo(r, "perms?")
    BY <1>6 DEF AuthPermsMiss
  <2>4. pc'[r] = "perms?" /\ \A q \in Requests \ {r} :
          pc'[q] = pc[q] /\ user'[q] = user[q] /\ readAt'[q] = readAt[q]
    BY <2>3, GoToEffect
  <2>. QED
    BY <2>2, <2>3, <2>4, OneMoves
<1>7. ASSUME NEW r \in Requests, AuthRead(r)
      PROVE  RequestsSound'
  <2>1. /\ UNCHANGED <<clock, ask, status, suspended>>
        /\ pc'[r] = "fill" /\ user'[r] = status /\ readAt'[r] = clock
        /\ \A q \in Requests \ {r} :
             pc'[q] = pc[q] /\ user'[q] = user[q] /\ readAt'[q] = readAt[q]
    BY <1>7 DEF AuthRead, AccessTyped
  <2>. QED
    BY <2>1, OneMoves
<1>8. ASSUME NEW r \in Requests, AuthFill(r) \/ Signout(r) \/ SignoutDel(r)
      PROVE  RequestsSound'
  <2>1. /\ UNCHANGED <<clock, ask, status, suspended>>
        /\ GoTo(r, "admitted") \/ GoTo(r, "del") \/ EndRequest(r)
    BY <1>8 DEF AuthFill, Signout, SignoutDel, Decide, Set, Del
  <2>. QED
    BY <1>2, <2>1
<1>9. CASE Suspend
  BY <1>1, <1>9 DEF Suspend, RequestsSound
<1>10. CASE AccessCleanup
  BY <1>10 DEF AccessCleanup, CleanupExpired, RequestsSound
<1>11. CASE AccessRestart
  BY <1>11 DEF AccessRestart, RequestsSound
<1>12. CASE AccessTick
  BY <1>1, <1>12 DEF AccessTick, Tick, RequestsSound, AccessTyped
<1>13. CASE UNCHANGED allVars
  BY <1>13 DEF allVars, RequestsSound
<1>. QED
  BY <1>3, <1>4, <1>5, <1>6, <1>7, <1>8, <1>9, <1>10, <1>11, <1>12, <1>13
     DEF AccessNext

-----------------------------------------------------------------------------
(* The mark outlasts everything but its own lifetime: nothing deletes it,  *)
(* a second sign-out only puts its end later, and Redis drops it no sooner. *)
LEMMA MarkStep ==
  ASSUME Inv, AccessTyped, MarkKept, [AccessNext]_allVars
  PROVE  MarkKept'
<1>. USE DEF userVars, accessVars, vars
<1>1. /\ Typed /\ Revoked \in Keys /\ Perms \in Keys /\ Revoked # Perms
      /\ clock \in Nat /\ DefaultTTL \in Nat /\ sets \in Nat
      /\ redis \in [Keys -> Entry \cup {None}]
      /\ signedOut \in Nat \cup {None}
      /\ None \notin Entry
  BY ConstantFacts, NoneApart DEF Inv, Typed, AccessTyped
<1>2. ASSUME redis'[Revoked] = redis[Revoked], UNCHANGED <<clock, signedOut>>
      PROVE  MarkKept'
  BY <1>2 DEF MarkKept
<1>3. ASSUME NEW r \in Requests,
             AuthStart(r) \/ AuthPermsMiss(r) \/ AuthVerify(r) \/ AuthPermsReply(r)
      PROVE  MarkKept'
  BY <1>2, <1>3
     DEF AuthStart, AuthPermsMiss, AuthVerify, AuthPermsReply, GetMiss, GetReply
<1>4. ASSUME NEW r \in Requests, AuthPermsHit(r) \/ AuthRead(r) \/ Leave(r)
      PROVE  MarkKept'
  BY <1>2, <1>4 DEF AuthPermsHit, AuthRead, Leave
<1>5. ASSUME NEW r \in Requests, AuthFill(r)
      PROVE  MarkKept'
  BY <1>1, <1>2, <1>5 DEF AuthFill, RedisOutcome, Set
<1>6. ASSUME NEW r \in Requests, Signout(r)
      PROVE  MarkKept'
  <2>. DEFINE e == [num |-> sets + 1, born |-> clock, life |-> DefaultTTL,
                    exp |-> clock + DefaultTTL]
  <2>1. PICK ok \in BOOLEAN :
          /\ redis' = IF ok THEN [redis EXCEPT ![Revoked] = e] ELSE redis
          /\ signedOut' = IF ok /\ signedOut = None THEN clock ELSE signedOut
          /\ clock' = clock
    BY <1>6 DEF Signout, RedisOutcome, Set
  <2>2. e \in Entry /\ e.exp = clock + DefaultTTL
    BY <1>1 DEF Entry
  <2>. HIDE DEF e
  <2>3. CASE ok
    <3>1. redis'[Revoked] = e
      BY <1>1, <2>1, <2>3
    <3>2. redis'[Revoked] # None /\ redis'[Revoked].exp = clock + DefaultTTL
      BY <1>1, <2>2, <3>1
    <3>3. ASSUME signedOut' # None, clock' < signedOut' + DefaultTTL
          PROVE  redis'[Revoked].exp >= signedOut' + DefaultTTL
      <4>1. CASE signedOut = None
        BY <1>1, <2>1, <2>3, <3>2, <4>1
      <4>2. CASE signedOut # None
        <5>1. signedOut' = signedOut /\ signedOut \in Nat /\ signedOut <= clock
          BY <1>1, <2>1, <4>2 DEF MarkKept
        <5>. QED
          BY <1>1, <3>2, <5>1
      <4>. QED
        BY <4>1, <4>2
    <3>4. signedOut' # None => signedOut' <= clock'
      BY <1>1, <2>1 DEF MarkKept
    <3>. QED
      BY <3>2, <3>3, <3>4 DEF MarkKept
  <2>4. CASE ~ok
    BY <1>2, <2>1, <2>4
  <2>. QED
    BY <2>3, <2>4
<1>7. ASSUME NEW r \in Requests, SignoutDel(r)
      PROVE  MarkKept'
  BY <1>1, <1>2, <1>7 DEF SignoutDel, RedisOutcome, Del
<1>8. CASE Suspend
  BY <1>2, <1>8 DEF Suspend
<1>9. CASE AccessCleanup \/ AccessRestart
  BY <1>2, <1>9 DEF AccessCleanup, AccessRestart, CleanupExpired, Restart
<1>10. CASE AccessTick
  <2>1. /\ clock' = clock + 1 /\ signedOut' = signedOut
        /\ redis'[Revoked] = IF redis[Revoked] # None /\ redis[Revoked].exp <= clock + 1
                             THEN None ELSE redis[Revoked]
    BY <1>1, <1>10 DEF AccessTick, Tick
  <2>2. redis[Revoked] # None => redis[Revoked].exp \in Nat
    BY <1>1 DEF Entry
  <2>. QED
    BY <1>1, <2>1, <2>2 DEF MarkKept
<1>11. CASE UNCHANGED allVars
  BY <1>2, <1>11 DEF allVars
<1>. QED
  BY <1>3, <1>4, <1>5, <1>6, <1>7, <1>8, <1>9, <1>10, <1>11 DEF AccessNext

(* A request that is past the mark's answer, or has found no mark in it,   *)
(* began after the mark ran out, or before the sign-out.                   *)
LEMMA LateMoves ==
  ASSUME AccessTyped, LateStopped, NEW r \in Requests,
         \/ /\ \E p : GoTo(r, p)
            /\ pc[r] # "revoked?" \/ ask[r].answer = None
         \/ EndRequest(r),
         \A q \in Requests \ {r} : ask'[q] = ask[q],
         signedOut' = signedOut \/ signedOut = None
  PROVE  LateStopped'
<1>1. /\ \A q \in Requests \ {r} : pc'[q] = pc[q] /\ late'[q] = late[q] /\ began'[q] = began[q]
      /\ ~EndRequest(r) => late' = late /\ began' = began
  BY DEF GoTo, EndRequest, AccessTyped
<1>2. EndRequest(r) => ~late'[r]
  BY DEF EndRequest, AccessTyped
<1>3. ASSUME NEW q \in Requests, late'[q]
      PROVE  /\ signedOut' # None
             /\ began'[q] < signedOut' + DefaultTTL =>
                  pc'[q] = "revoked?" /\ ask'[q].answer # None
  <2>1. late[q] /\ began'[q] = began[q] /\ (q = r => ~EndRequest(r))
    BY <1>1, <1>2, <1>3
  <2>2. signedOut # None /\ signedOut' = signedOut
    BY <2>1 DEF LateStopped
  <2>3. CASE q = r
    BY <2>1, <2>2, <2>3 DEF LateStopped
  <2>4. CASE q # r
    BY <1>1, <2>1, <2>2, <2>4 DEF LateStopped
  <2>. QED
    BY <2>3, <2>4
<1>. QED
  BY <1>3 DEF LateStopped

(* Each step leaves every request that began under the mark at its answer. *)
LEMMA LateStep ==
  ASSUME Inv, AccessTyped, MarkKept, LateStopped, [AccessNext]_allVars
  PROVE  LateStopped'
<1>. USE DEF userVars, accessVars, vars
<1>1. Typed /\ Revoked \in Keys /\ Perms \in Keys
  BY ConstantFacts DEF Inv
<1>2. ASSUME NEW r \in Requests, AuthStart(r)
      PROVE  LateStopped'
  <2>1. PICK ok \in BOOLEAN :
          GetMiss(r, Revoked, ok) /\ late' = [late EXCEPT ![r] = ok /\ signedOut # None]
    BY <1>2 DEF AuthStart, RedisOutcome
  <2>2. /\ signedOut' = signedOut
        /\ pc' = [pc EXCEPT ![r] = "revoked?"] /\ began' = [began EXCEPT ![r] = clock]
    BY <1>2 DEF AuthStart
  <2>3. /\ \A q \in Requests \ {r} : ask'[q] = ask[q]
        /\ ask'[r].answer = IF ok THEN redis[Revoked] ELSE None
    BY <1>1, <2>1, MissEffect
  <2>4. /\ pc'[r] = "revoked?" /\ began'[r] = clock
        /\ late'[r] = (ok /\ signedOut # None)
        /\ \A q \in Requests \ {r} :
             pc'[q] = pc[q] /\ late'[q] = late[q] /\ began'[q] = began[q]
    BY <2>1, <2>2 DEF AccessTyped
  <2>5. ASSUME late'[r] PROVE ok /\ signedOut # None
    BY <2>4, <2>5
  <2>6. ASSUME late'[r], clock < signedOut + DefaultTTL PROVE ask'[r].answer # None
    BY <2>3, <2>5, <2>6 DEF MarkKept
  <2>. QED
    BY <2>2, <2>3, <2>4, <2>5, <2>6 DEF LateStopped
<1>3. ASSUME NEW r \in Requests, AuthVerify(r)
      PROVE  LateStopped'
  <2>1. /\ GetReply(r) /\ signedOut' = signedOut
        /\ \/ GoTo(r, "verified") /\ ask[r].answer = None
           \/ EndRequest(r)
    BY <1>3 DEF AuthVerify
  <2>2. \A q \in Requests \ {r} : ask'[q] = ask[q]
    BY <1>1, <2>1, ReplyEffect
  <2>. QED
    BY <2>1, <2>2, LateMoves
<1>4. ASSUME NEW r \in Requests,
             \/ AuthPermsHit(r) \/ AuthPermsMiss(r) \/ AuthPermsReply(r)
             \/ AuthFill(r) \/ Leave(r) \/ Signout(r) \/ SignoutDel(r)
      PROVE  LateStopped'
  <2>1. pc[r] # "revoked?" /\ (signedOut' = signedOut \/ signedOut = None)
    BY <1>4 DEF AuthPermsHit, AuthPermsMiss, AuthPermsReply, AuthFill, Leave,
                Signout, SignoutDel
  <2>2. (\E p : GoTo(r, p)) \/ EndRequest(r)
    BY <1>4 DEF AuthPermsHit, AuthPermsMiss, AuthPermsReply, AuthFill, Leave,
                Signout, SignoutDel, Decide
  <2>3. \A q \in Requests \ {r} : ask'[q] = ask[q]
    <3>1. CASE AuthPermsMiss(r)
      BY <1>1, <3>1, MissEffect DEF AuthPermsMiss, RedisOutcome
    <3>2. CASE AuthPermsReply(r)
      BY <1>1, <3>2, ReplyEffect DEF AuthPermsReply
    <3>3. CASE AuthPermsHit(r) \/ AuthFill(r) \/ Leave(r) \/ Signout(r) \/ SignoutDel(r)
      BY <3>3 DEF AuthPermsHit, AuthFill, Leave, Signout, SignoutDel, Set, Del
    <3>. QED
      BY <1>4, <3>1, <3>2, <3>3
  <2>. QED
    BY <2>1, <2>2, <2>3, LateMoves
<1>5. ASSUME NEW r \in Requests, AuthRead(r)
      PROVE  LateStopped'
  BY <1>5 DEF AuthRead, LateStopped, AccessTyped
<1>6. CASE Suspend
  BY <1>6 DEF Suspend, LateStopped
<1>7. CASE AccessCleanup
  BY <1>7 DEF AccessCleanup, CleanupExpired, LateStopped
<1>8. CASE AccessRestart
  BY <1>8 DEF AccessRestart, LateStopped
<1>9. CASE AccessTick
  BY <1>9 DEF AccessTick, Tick, LateStopped
<1>10. CASE UNCHANGED allVars
  BY <1>10 DEF allVars, LateStopped
<1>. QED
  BY <1>2, <1>3, <1>4, <1>5, <1>6, <1>7, <1>8, <1>9, <1>10 DEF AccessNext

-----------------------------------------------------------------------------
(* Nothing is cached, nobody signed out and nobody is suspended. *)
LEMMA AccessInvInit == AccessInit => AccessInv
<1>. SUFFICES ASSUME AccessInit PROVE AccessInv
  OBVIOUS
<1>1. Init /\ Inv
  BY InvInit DEF AccessInit
<1>2. AccessTyped
  BY <1>1, ConstantFacts DEF AccessInit, Init, AccessTyped, Statuses
<1>3. RecordsSound /\ RequestsSound /\ MarkKept /\ LateStopped
  BY <1>1, ConstantFacts
     DEF AccessInit, Init, Held, RecordsSound, RequestsSound, MarkKept, LateStopped
<1>. QED
  BY <1>1, <1>2, <1>3 DEF AccessInv

(* Every step keeps all of it. *)
LEMMA AccessInvStep ==
  ASSUME AccessInv, [AccessNext]_allVars
  PROVE  AccessInv'
<1>1. Inv /\ AccessTyped /\ RecordsSound /\ RequestsSound /\ MarkKept /\ LateStopped
  BY DEF AccessInv
<1>2. Inv'
  BY <1>1, CacheStep, InvStep
<1>3. AccessTyped' /\ RecordsSound' /\ RequestsSound'
  BY <1>1, AccessTypeStep, RecordsStep, RequestsStep
<1>4. MarkKept' /\ LateStopped'
  BY <1>1, MarkStep, LateStep
<1>. QED
  BY <1>2, <1>3, <1>4 DEF AccessInv

(* Only the three ends of authenticate let a request through, and only a   *)
(* user who is not suspended.                                              *)
LEMMA WhoLetsThrough ==
  ASSUME AccessTyped, AccessNext, NEW r \in Requests, LetsThrough(r)
  PROVE  /\ AuthPermsHit(r) \/ AuthPermsReply(r) \/ AuthFill(r)
         /\ \A s : Decide(r, s) => s # "SUSPENDED"
<1>. USE DEF userVars, accessVars, vars
<1>1. pc[r] # "admitted" /\ pc'[r] = "admitted"
  BY DEF LetsThrough
<1>2. \A q \in Requests : ~EndRequest(q) /\ \A p : GoTo(q, p) => q = r /\ p = "admitted"
  BY <1>1 DEF GoTo, EndRequest, AccessTyped
<1>3. ASSUME NEW q \in Requests, NEW s, Decide(q, s) PROVE q = r /\ s # "SUSPENDED"
  BY <1>2, <1>3 DEF Decide
<1>4. ASSUME NEW q \in Requests,
             \/ AuthVerify(q) \/ AuthPermsMiss(q) \/ Leave(q)
             \/ Signout(q) \/ SignoutDel(q)
      PROVE  FALSE
  BY <1>2, <1>4 DEF AuthVerify, AuthPermsMiss, Leave, Signout, SignoutDel
<1>5. ASSUME NEW q \in Requests, AuthStart(q) \/ AuthRead(q)
      PROVE  FALSE
  BY <1>1, <1>5 DEF AuthStart, AuthRead, AccessTyped
<1>6. ASSUME NEW q \in Requests, AuthPermsHit(q) \/ AuthPermsReply(q) \/ AuthFill(q)
      PROVE  q = r
  BY <1>2, <1>3, <1>6 DEF AuthPermsHit, AuthPermsReply, AuthFill
<1>7. ~(Suspend \/ AccessCleanup \/ AccessRestart \/ AccessTick)
  BY <1>1 DEF Suspend, AccessCleanup, AccessRestart, AccessTick
<1>. QED
  BY <1>3, <1>4, <1>5, <1>6, <1>7 DEF AccessNext

(* A request is let through by a record or a query that says ACTIVE, and   *)
(* none does so later than the bound.                                      *)
LEMMA AdmitBound ==
  ASSUME AccessInv, AccessNext, NEW r \in Requests, LetsThrough(r), suspended # None
  PROVE  clock < suspended + PermTTL + L1TTL + 2 * MaxLag
<1>1. /\ Inv /\ AccessTyped /\ RecordsSound /\ RequestsSound
      /\ Typed /\ AgeBound /\ AnswersRecent
  BY DEF AccessInv, Inv, IndInv
<1>2. /\ L1TTL \in Nat /\ MaxLag \in Nat /\ PermTTL \in Nat \ {0}
      /\ clock \in Nat /\ suspended \in Nat
  BY <1>1, ConstantFacts DEF Typed, AccessTyped
<1>3. /\ AuthPermsHit(r) \/ AuthPermsReply(r) \/ AuthFill(r)
      /\ \A s : Decide(r, s) => s # "SUSPENDED"
  BY <1>1, WhoLetsThrough
<1>4. ASSUME NEW n \in 1..sets, content[n] # "SUSPENDED"
      PROVE  content[n] = "ACTIVE"
  <2>1. /\ sets \in Nat /\ MaxSets \in Nat /\ sets <= MaxSets
        /\ content \in [1..MaxSets -> Statuses]
    BY <1>1, ConstantFacts DEF AccessTyped, Typed
  <2>2. n \in 1..MaxSets
    BY <2>1
  <2>. QED
    BY <1>4, <2>1, <2>2 DEF Statuses
<1>5. CASE AuthPermsHit(r)
  <2>1. MemLive(Perms) /\ content[mem[Perms].num] # "SUSPENDED"
    BY <1>3, <1>5 DEF AuthPermsHit
  <2>2. /\ Perms \in Held /\ clock < mem[Perms].exp /\ Sound(mem[Perms])
        /\ mem[Perms] \in Entry
        /\ mem[Perms].exp <= mem[Perms].born + mem[Perms].life + MaxLag + L1TTL
    BY <1>1, <2>1 DEF MemLive, RecordsSound, AgeBound, Typed
  <2>3. content[mem[Perms].num] = "ACTIVE"
    BY <1>4, <2>1, <2>2 DEF Sound
  <2>4. mem[Perms].born <= suspended + MaxLag /\ mem[Perms].life = PermTTL
    BY <2>2, <2>3 DEF Sound
  <2>. QED
    BY <1>2, <2>2, <2>4 DEF Entry
<1>6. CASE AuthPermsReply(r)
  <2>1. /\ pc[r] = "perms?" /\ ask[r] # None /\ ask[r].answer # None
        /\ content[ask[r].answer.num] # "SUSPENDED"
    <3>1. ask[r].answer # None
      BY <1>1, <1>6 DEF AuthPermsReply, GoTo, AccessTyped, LetsThrough
    <3>. QED
      BY <1>3, <1>6, <3>1 DEF AuthPermsReply, GetReply
  <2>2. PICK a \in Entry, t \in Nat :
          /\ a = ask[r].answer /\ t = ask[r].at
          /\ clock <= t + MaxLag /\ t < a.born + a.life
    BY <1>1, <2>1 DEF Typed, AnswersRecent
  <2>3. Sound(a)
    BY <1>1, <2>1, <2>2 DEF RecordsSound, RequestsSound, Sound
  <2>4. content[a.num] = "ACTIVE"
    BY <1>4, <2>1, <2>2, <2>3 DEF Sound
  <2>5. a.born <= suspended + MaxLag /\ a.life = PermTTL
    BY <2>3, <2>4 DEF Sound
  <2>. QED
    BY <1>2, <2>2, <2>5 DEF Entry
<1>7. CASE AuthFill(r)
  <2>1. pc[r] = "fill" /\ user[r] # "SUSPENDED"
    BY <1>3, <1>7 DEF AuthFill
  <2>2. user[r] = "ACTIVE" /\ readAt[r] \in Nat
    BY <1>1, <2>1 DEF AccessTyped, Statuses
  <2>3. clock <= readAt[r] + MaxLag /\ readAt[r] <= suspended
    BY <1>1, <2>1, <2>2 DEF RequestsSound
  <2>. QED
    BY <1>2, <2>2, <2>3
<1>. QED
  BY <1>3, <1>5, <1>6, <1>7

(* A suspension takes effect within the bound, whatever is cached where. *)
THEOREM SuspensionBounded == AccessSpec => SuspensionTakesEffect
<1>1. AccessInv /\ [AccessNext]_allVars =>
        [\A r \in Requests : LetsThrough(r) /\ suspended # None =>
           clock < suspended + PermTTL + L1TTL + 2 * MaxLag]_allVars
  BY AdmitBound
<1>. QED
  BY <1>1, AccessInvInit, AccessInvStep, PTL DEF AccessSpec, SuspensionTakesEffect

(* A sign-out that reached Redis refuses the token for the mark's lifetime. *)
THEOREM SignoutHolds == AccessSpec => SignoutRefuses
<1>1. ASSUME AccessInv, [AccessNext]_allVars
      PROVE  [\A r \in Requests : LetsThrough(r) /\ late[r] =>
                began[r] >= signedOut + DefaultTTL]_allVars
  <2>. SUFFICES ASSUME AccessNext, NEW r \in Requests, LetsThrough(r), late[r]
                PROVE  began[r] >= signedOut + DefaultTTL
    BY <1>1
  <2>1. AccessTyped /\ LateStopped
    BY <1>1 DEF AccessInv
  <2>2. signedOut \in Nat /\ began[r] \in Nat /\ DefaultTTL \in Nat
    BY <2>1, ConstantFacts DEF AccessTyped, LateStopped
  <2>3. pc[r] # "revoked?"
    BY <2>1, WhoLetsThrough DEF AuthPermsHit, AuthPermsReply, AuthFill
  <2>. QED
    BY <2>1, <2>2, <2>3 DEF LateStopped
<1>. QED
  BY <1>1, AccessInvInit, AccessInvStep, PTL DEF AccessSpec, SignoutRefuses

-----------------------------------------------------------------------------
(* A request waits for Redis in exactly two places. *)
Waiting(place) == place \in {"revoked?", "perms?"}
AskedWhere == \A r \in Requests : ask[r] # None <=> Waiting(pc[r])

(* One request goes from one such place to another, or to one that is not. *)
LEMMA OneAsks ==
  ASSUME AskedWhere, NEW r \in Requests,
         \A q \in Requests \ {r} : ask'[q] = ask[q] /\ pc'[q] = pc[q],
         ask'[r] # None <=> Waiting(pc'[r])
  PROVE  AskedWhere'
BY DEF AskedWhere

(* Each step leaves the waiting gets to the requests that wait. *)
LEMMA AskedStep ==
  ASSUME Typed, AccessTyped, AskedWhere, [AccessNext]_allVars
  PROVE  AskedWhere'
<1>. USE DEF userVars, accessVars, vars
<1>1. ASSUME NEW r \in Requests, NEW k \in Keys, NEW ok, NEW p,
             GetMiss(r, k, ok), Waiting(p),
             pc' = [pc EXCEPT ![r] = p]
      PROVE  AskedWhere'
  <2>1. ask'[r] # None /\ \A q \in Requests \ {r} : ask'[q] = ask[q]
    BY <1>1, MissEffect, NoneApart
  <2>2. pc'[r] = p /\ \A q \in Requests \ {r} : pc'[q] = pc[q]
    BY <1>1 DEF AccessTyped
  <2>. QED
    BY <1>1, <2>1, <2>2, OneAsks
<1>2. ASSUME NEW r \in Requests, NEW p, ~Waiting(p),
             GoTo(r, p) \/ (EndRequest(r) /\ p = "idle"),
             GetReply(r) \/ (UNCHANGED ask /\ ~Waiting(pc[r]))
      PROVE  AskedWhere'
  <2>1. pc'[r] = p /\ \A q \in Requests \ {r} : pc'[q] = pc[q]
    BY <1>2, GoToEffect
  <2>2. ask'[r] = None /\ \A q \in Requests \ {r} : ask'[q] = ask[q]
    BY <1>2, ReplyEffect DEF AskedWhere
  <2>. QED
    BY <1>2, <2>1, <2>2, OneAsks
<1>3. \A p \in {"idle", "verified", "read", "fill", "admitted", "del"} : ~Waiting(p)
  BY DEF Waiting
<1>4. ASSUME NEW r \in Requests, AuthStart(r) PROVE AskedWhere'
  <2>1. PICK ok \in BOOLEAN : GetMiss(r, Revoked, ok)
    BY <1>4 DEF AuthStart, RedisOutcome
  <2>2. pc' = [pc EXCEPT ![r] = "revoked?"] /\ Waiting("revoked?")
    BY <1>4 DEF AuthStart, Waiting
  <2>. QED
    BY <1>1, <2>1, <2>2, ConstantFacts
<1>5. ASSUME NEW r \in Requests, AuthPermsMiss(r) PROVE AskedWhere'
  <2>1. PICK ok \in BOOLEAN : GetMiss(r, Perms, ok)
    BY <1>5 DEF AuthPermsMiss, RedisOutcome
  <2>2. pc' = [pc EXCEPT ![r] = "perms?"] /\ Waiting("perms?")
    BY <1>5 DEF AuthPermsMiss, GoTo, Waiting
  <2>. QED
    BY <1>1, <2>1, <2>2, ConstantFacts
<1>6. ASSUME NEW r \in Requests, AuthVerify(r) PROVE AskedWhere'
  BY <1>2, <1>3, <1>6 DEF AuthVerify
<1>7. ASSUME NEW r \in Requests, AuthPermsReply(r) PROVE AskedWhere'
  BY <1>2, <1>3, <1>7 DEF AuthPermsReply, Decide
<1>8. ASSUME NEW r \in Requests, AuthPermsHit(r) PROVE AskedWhere'
  BY <1>2, <1>3, <1>8 DEF AuthPermsHit, Decide
<1>9. ASSUME NEW r \in Requests, AuthRead(r) PROVE AskedWhere'
  BY <1>3, <1>9 DEF AuthRead, AskedWhere, AccessTyped
<1>10. ASSUME NEW r \in Requests, AuthFill(r) PROVE AskedWhere'
  BY <1>2, <1>3, <1>10 DEF AuthFill, Set, Decide
<1>11. ASSUME NEW r \in Requests, Leave(r) PROVE AskedWhere'
  BY <1>2, <1>3, <1>11 DEF Leave
<1>12. ASSUME NEW r \in Requests, Signout(r) PROVE AskedWhere'
  BY <1>2, <1>3, <1>12 DEF Signout, Set
<1>13. ASSUME NEW r \in Requests, SignoutDel(r) PROVE AskedWhere'
  BY <1>2, <1>3, <1>13 DEF SignoutDel, Del
<1>14. CASE AccessRestart
  BY <1>3, <1>14 DEF AccessRestart, Restart, AskedWhere
<1>15. CASE Suspend \/ AccessCleanup \/ AccessTick \/ UNCHANGED allVars
  BY <1>15 DEF Suspend, AccessCleanup, CleanupExpired, AccessTick, Tick, allVars, AskedWhere
<1>. QED
  BY <1>4, <1>5, <1>6, <1>7, <1>8, <1>9, <1>10, <1>11, <1>12, <1>13, <1>14, <1>15
     DEF AccessNext

(* The middleware and its cache keep their types, and a request waits for  *)
(* Redis exactly where authenticate awaits a get.                          *)
THEOREM AccessTypeCorrect == AccessSpec => []AccessTypeOK
<1>1. AccessInit => AskedWhere
  BY DEF AccessInit, Init, AskedWhere, Waiting
<1>2. AccessInv /\ AskedWhere /\ [AccessNext]_allVars => AccessInv' /\ AskedWhere'
  BY AccessInvStep, AskedStep DEF AccessInv, Inv
<1>3. TypeOK /\ AccessInv /\ AskedWhere => AccessTypeOK
  BY DEF AccessInv, AccessTyped, AskedWhere, Waiting, AccessTypeOK
<1>4. AccessSpec => []TypeOK
  BY UsesTheCache, CacheTypeCorrect, PTL
<1>. QED
  BY <1>1, <1>2, <1>3, <1>4, AccessInvInit, PTL DEF AccessSpec

(* What the cache promises holds of the cache authenticate works with. *)
THEOREM AccessCacheHolds == AccessSpec => [](SizeBound /\ AgeBound /\ DeletedGoesAway)
BY UsesTheCache, SizeBounded, AgeBounded, DeletesTakeEffect, PTL

=============================================================================
