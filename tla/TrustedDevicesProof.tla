------------------------- MODULE TrustedDevicesProof -------------------------
(***************************************************************************)
(* What TrustedDevices promises of a revoked device, for any devices and   *)
(* other keys, cache size, lifetimes and lag.  The cache underneath keeps  *)
(* its own promises by TieredCacheProof, because every step here is a step *)
(* of the cache.                                                           *)
(***************************************************************************)
EXTENDS TrustedDevices, TieredCacheProof

(* The facts about the constants, one by one. *)
LEMMA DeviceFacts ==
  /\ L1TTL \in Nat /\ MaxLag \in Nat /\ DeviceLife \in Nat \ {0}
  /\ DeviceLife \in Lives /\ Devices \subseteq Keys /\ None \notin Nat
BY TimesAssumption, DevicesAssumption, NoneApart

(* Every step of the service and of the others is a step of the cache. *)
LEMMA TrustCacheStep ==
  ASSUME [TrustNext]_trustVars
  PROVE  [Next]_vars
<1>. USE DeviceFacts
<1>1. ASSUME NEW d \in Devices, MarkTrusted(d) \/ Revoke(d) PROVE Next
  BY <1>1 DEF MarkTrusted, Revoke, Next
<1>2. ASSUME NEW r \in Requests, NEW d \in Devices, IsTrusted(r, d) PROVE Next
  BY <1>2 DEF IsTrusted, Next
<1>3. ASSUME NEW r \in Requests, TrustReply(r) PROVE Next
  BY <1>3 DEF TrustReply, Next
<1>4. ASSUME NEW r \in Requests, NEW k \in Keys, NEW ok \in BOOLEAN, OtherGet(r, k, ok)
      PROVE  Next
  BY <1>4 DEF OtherGet, Next
<1>5. ASSUME NEW k \in Keys, NEW life \in Lives, NEW ok \in BOOLEAN, OtherSet(k, life, ok)
      PROVE  Next
  BY <1>5 DEF OtherSet, Next
<1>6. ASSUME NEW k \in Keys, NEW ok \in BOOLEAN, OtherDel(k, ok) PROVE Next
  BY <1>6 DEF OtherDel, Next
<1>7. ASSUME NEW k \in Keys, TrustScan(k) PROVE Next
  BY <1>7 DEF TrustScan, Next
<1>8. TrustClear \/ TrustCleanup \/ TrustRestart \/ TrustTick => Next
  BY DEF TrustClear, TrustCleanup, TrustRestart, TrustTick, Next
<1>9. UNCHANGED trustVars => UNCHANGED vars
  BY DEF trustVars, vars
<1>. QED
  BY <1>1, <1>2, <1>3, <1>4, <1>5, <1>6, <1>7, <1>8, <1>9 DEF TrustNext

(* The service over its cache keeps to the cache's specification. *)
THEOREM TrustUsesTheCache == TrustSpec => Spec
<1>1. TrustInit => Init
  BY DEF TrustInit
<1>2. [TrustNext]_trustVars => [Next]_vars
  BY TrustCacheStep
<1>. QED
  BY <1>1, <1>2, PTL DEF TrustSpec, Spec
-----------------------------------------------------------------------------
(* A device that was never marked is known nowhere. *)
UnmarkedUnknown(d) ==
  marked[d] = None =>
    /\ d \notin Held /\ redis[d] = None /\ dropped[d] = None
    /\ \A r \in Requests : ~Trusting(r, d)

(* Redis holds a device no longer than its token verifies, and an answer   *)
(* that knows it was asked for while it did.                               *)
MarkBounds(d) ==
  marked[d] # None =>
    /\ redis[d] # None => redis[d].exp <= marked[d] + DeviceLife
    /\ \A r \in Requests : Trusting(r, d) => ask[r].at < marked[d] + DeviceLife

(* A revoked device is not in Redis again, an answer that knows it was     *)
(* asked for before, and so was what L1 may still have of it.              *)
DropBounds(d) ==
  dropped[d] # None =>
    /\ redis[d] = None
    /\ d \in Held => mem[d].exp <= dropped[d] + MaxLag + L1TTL
    /\ \A r \in Requests : Trusting(r, d) => ask[r].at <= dropped[d]

Tracked(d) == UnmarkedUnknown(d) /\ MarkBounds(d) /\ DropBounds(d)

(* All that the proof carries from step to step. *)
MarksTyped ==
  marked \in [Devices -> Nat \cup {None}] /\ dropped \in [Devices -> Nat \cup {None}]
TrustInv == Inv /\ MarksTyped /\ \A d \in Devices : Tracked(d)

-----------------------------------------------------------------------------
(* Nothing new is known of a device, and its marks stay. *)
NothingNew(d) ==
  /\ marked'[d] = marked[d] /\ dropped'[d] = dropped[d]
  /\ d \in Held' => d \in Held /\ mem'[d] = mem[d]
  /\ redis'[d] \in {redis[d], None}
  /\ \A r \in Requests : Trusting(r, d)' => Trusting(r, d) /\ ask'[r].at = ask[r].at

LEMMA NothingNewTracked ==
  ASSUME NEW d \in Devices, Tracked(d), NothingNew(d)
  PROVE  Tracked(d)'
<1>1. UnmarkedUnknown(d)'
  BY DEF Tracked, UnmarkedUnknown, NothingNew
<1>2. MarkBounds(d)'
  BY DEF Tracked, MarkBounds, NothingNew
<1>3. DropBounds(d)'
  BY DEF Tracked, DropBounds, NothingNew
<1>. QED
  BY <1>1, <1>2, <1>3 DEF Tracked

(* A get is asked: for a device, its answer is what Redis has, now. *)
LEMMA MissTracked ==
  ASSUME TrustInv, NEW r \in Requests, NEW k \in Keys, NEW ok \in BOOLEAN,
         GetMiss(r, k, ok), UNCHANGED deviceVars
  PROVE  \A d \in Devices : Tracked(d)'
<1>1. Typed /\ RedisFresh
  BY DEF TrustInv, Inv, IndInv
<1>2. /\ ask'[r].key = k /\ ask'[r].answer \in {redis[k], None} /\ ask'[r].at = clock
      /\ \A q \in Requests \ {r} : ask'[q] = ask[q]
  <2>. DEFINE a == [key |-> k, answer |-> IF ok THEN redis[k] ELSE None, at |-> clock]
  <2>1. a.key = k /\ a.answer \in {redis[k], None} /\ a.at = clock
    OBVIOUS
  <2>2. ask' = [ask EXCEPT ![r] = a]
    BY DEF GetMiss
  <2>. HIDE DEF a
  <2>. QED
    BY <1>1, <2>1, <2>2 DEF Typed
<1>3. /\ Held' \subseteq Held /\ \A x \in Held' : mem'[x] = mem[x]
      /\ redis' = redis /\ clock' = clock /\ marked' = marked /\ dropped' = dropped
  BY MemDropEffect DEF GetMiss, deviceVars
<1> TAKE d \in Devices
<1>4. Tracked(d)
  BY DEF TrustInv
<1>5. CASE ~Trusting(r, d)'
  <2>1. NothingNew(d)
    BY <1>2, <1>3, <1>5 DEF NothingNew, Trusting
  <2>. QED
    BY <1>4, <2>1, NothingNewTracked
<1>6. CASE Trusting(r, d)'
  <2>1. d = k /\ redis[d] # None
    BY <1>2, <1>6 DEF Trusting
  <2>2. redis[d] \in Entry /\ clock < redis[d].exp
    BY <1>1, <2>1 DEF Typed, RedisFresh
  <2>3. marked[d] # None /\ dropped[d] = None /\ redis[d].exp <= marked[d] + DeviceLife
    BY <1>4, <2>1 DEF Tracked, UnmarkedUnknown, MarkBounds, DropBounds
  <2>4. clock < marked[d] + DeviceLife
    <3>1. clock \in Nat /\ redis[d].exp \in Nat /\ marked[d] \in Nat /\ DeviceLife \in Nat
      BY <1>1, <2>2, <2>3, DeviceFacts DEF Typed, Entry, TrustInv, MarksTyped
    <3>. QED
      BY <2>2, <2>3, <3>1
  <2>5. MarkBounds(d)'
    BY <1>2, <1>3, <1>4, <2>4 DEF Tracked, MarkBounds, Trusting
  <2>. QED
    BY <1>3, <2>3, <2>5 DEF Tracked, UnmarkedUnknown, DropBounds
<1>. QED
  BY <1>5, <1>6

(* An answer comes, and is copied to L1 for one stay. *)
LEMMA ReplyTracked ==
  ASSUME TrustInv, NEW r \in Requests, GetReply(r), UNCHANGED deviceVars
  PROVE  \A d \in Devices : Tracked(d)'
<1>1. Typed /\ AnswersRecent /\ clock \in Nat
  BY DEF TrustInv, Inv, IndInv, Typed
<1>2. /\ ask[r] # None /\ ask'[r] = None /\ \A q \in Requests \ {r} : ask'[q] = ask[q]
      /\ redis' = redis /\ clock' = clock /\ marked' = marked /\ dropped' = dropped
  BY <1>1 DEF GetReply, Typed, deviceVars
<1> TAKE d \in Devices
<1>3. Tracked(d)
  BY DEF TrustInv
<1>4. \A q \in Requests : Trusting(q, d)' => Trusting(q, d) /\ ask'[q].at = ask[q].at
  BY <1>2 DEF Trusting
<1>5. CASE d \in Held' => d \in Held /\ mem'[d] = mem[d]
  <2>1. NothingNew(d)
    BY <1>2, <1>4, <1>5 DEF NothingNew
  <2>. QED
    BY <1>3, <2>1, NothingNewTracked
<1>6. CASE ~(d \in Held' => d \in Held /\ mem'[d] = mem[d])
  <2>1. ask[r].answer # None
    BY <1>6 DEF GetReply, Held
  <2>2. PICK k \in Keys, a \in Entry, t \in Nat :
          k = ask[r].key /\ a = ask[r].answer /\ t = ask[r].at
    BY <1>1, <1>2, <2>1 DEF Typed
  <2>. DEFINE e == [a EXCEPT !.exp = clock + L1TTL]
  <2>3. MemSet(k, e) /\ e.exp = clock + L1TTL
    BY <2>1, <2>2 DEF GetReply, Entry
  <2>. HIDE DEF e
  <2>4. d = k /\ mem'[d] = e
    BY <1>1, <1>6, <2>3, MemSetEffect
  <2>5. Trusting(r, d)
    BY <1>2, <2>1, <2>2, <2>4 DEF Trusting
  <2>6. clock <= t + MaxLag
    BY <1>1, <1>2, <2>2 DEF AnswersRecent
  <2>7. marked[d] # None
    BY <1>3, <2>5 DEF Tracked, UnmarkedUnknown
  <2>8. ASSUME dropped[d] # None
        PROVE  mem'[d].exp <= dropped[d] + MaxLag + L1TTL
    <3>1. t <= dropped[d] /\ dropped[d] \in Nat
      BY <1>3, <2>2, <2>5, <2>8 DEF Tracked, DropBounds, TrustInv, MarksTyped
    <3>. QED
      BY <1>1, <2>3, <2>4, <2>6, <3>1, DeviceFacts
  <2>9. DropBounds(d)'
    BY <1>2, <1>3, <1>4, <2>8 DEF Tracked, DropBounds
  <2>10. MarkBounds(d)'
    BY <1>2, <1>3, <1>4 DEF Tracked, MarkBounds
  <2>. QED
    BY <1>2, <2>7, <2>9, <2>10 DEF Tracked, UnmarkedUnknown
<1>. QED
  BY <1>5, <1>6

(* A device is marked: nothing was known of it. *)
LEMMA MarkTracked ==
  ASSUME TrustInv, NEW c \in Devices, MarkTrusted(c)
  PROVE  MarksTyped' /\ \A d \in Devices : Tracked(d)'
<1>1. Typed /\ clock \in Nat /\ MarksTyped /\ \A d \in Devices : Tracked(d) /\ d \in Keys
  BY DeviceFacts DEF TrustInv, Inv, Typed
<1>2. PICK ok \in BOOLEAN : Set(c, DeviceLife, ok)
  BY DEF MarkTrusted
<1>. DEFINE e == [num |-> sets + 1, born |-> clock, life |-> DeviceLife, exp |-> clock + DeviceLife]
<1>3. /\ MemSet(c, e) /\ e.exp = clock + DeviceLife
      /\ redis' = IF ok THEN [redis EXCEPT ![c] = e] ELSE redis
      /\ ask' = ask /\ clock' = clock
  BY <1>2 DEF Set
<1>. HIDE DEF e
<1>4. /\ marked[c] = None /\ dropped' = dropped
      /\ marked' = [marked EXCEPT ![c] = clock]
  BY DEF MarkTrusted
<1>5. MarksTyped'
  BY <1>1, <1>4 DEF MarksTyped
<1> SUFFICES ASSUME NEW d \in Devices PROVE Tracked(d)'
  BY <1>5
<1>6. CASE d # c
  <2>1. d \in Held' => d \in Held /\ mem'[d] = mem[d]
    BY <1>1, <1>3, <1>6, MemSetEffect
  <2>2. NothingNew(d)
    BY <1>1, <1>3, <1>4, <1>6, <2>1 DEF NothingNew, MarksTyped, Trusting, Typed
  <2>. QED
    BY <1>1, <2>2, NothingNewTracked
<1>7. CASE d = c
  <2>1. /\ redis[d] = None /\ dropped[d] = None
        /\ \A r \in Requests : ~Trusting(r, d)
    BY <1>1, <1>4, <1>7 DEF Tracked, UnmarkedUnknown
  <2>2. marked'[d] = clock /\ dropped'[d] = None /\ \A r \in Requests : ~Trusting(r, d)'
    BY <1>1, <1>3, <1>4, <1>7, <2>1 DEF MarksTyped, Trusting
  <2>3. redis'[d] # None => redis'[d].exp = clock + DeviceLife
    BY <1>1, <1>3, <1>7, <2>1 DEF Typed
  <2>4. MarkBounds(d)'
    BY <1>1, <2>2, <2>3, DeviceFacts DEF MarkBounds
  <2>. QED
    BY <1>1, <2>2, <2>4, DeviceFacts DEF Tracked, UnmarkedUnknown, DropBounds
<1>. QED
  BY <1>6, <1>7

(* A device is revoked: the first delete that reaches Redis leaves it      *)
(* nowhere but in answers asked for until now.                             *)
LEMMA RevokeTracked ==
  ASSUME TrustInv, NEW c \in Devices, Revoke(c)
  PROVE  MarksTyped' /\ \A d \in Devices : Tracked(d)'
<1>1. /\ Typed /\ AnswersRecent /\ clock \in Nat /\ MarksTyped
      /\ \A d \in Devices : Tracked(d) /\ d \in Keys
  BY DeviceFacts DEF TrustInv, Inv, IndInv, Typed
<1>2. PICK ok \in BOOLEAN :
        /\ Del(c, ok)
        /\ dropped' = IF ok /\ dropped[c] = None THEN [dropped EXCEPT ![c] = clock]
                                                 ELSE dropped
  BY DEF Revoke
<1>3. /\ Held' = Held \ {c} /\ \A x \in Held' : mem'[x] = mem[x]
      /\ redis' = IF ok THEN [redis EXCEPT ![c] = None] ELSE redis
      /\ ask' = ask /\ clock' = clock
  BY <1>2, MemDropEffect DEF Del
<1>4. marked' = marked /\ marked[c] # None
  BY DEF Revoke, Verifies
<1>5. MarksTyped'
  BY <1>1, <1>2, <1>4 DEF MarksTyped
<1> SUFFICES ASSUME NEW d \in Devices PROVE Tracked(d)'
  BY <1>5
<1>6. CASE dropped'[d] = dropped[d]
  <2>1. redis'[d] \in {redis[d], None}
    BY <1>1, <1>3 DEF Typed
  <2>2. NothingNew(d)
    BY <1>3, <1>4, <1>6, <2>1 DEF NothingNew, Trusting
  <2>. QED
    BY <1>1, <2>2, NothingNewTracked
<1>7. CASE dropped'[d] # dropped[d]
  <2>1. d = c /\ ok /\ dropped'[d] = clock
    BY <1>1, <1>2, <1>7 DEF MarksTyped
  <2>2. d \notin Held' /\ redis'[d] = None
    BY <1>1, <1>3, <2>1 DEF Typed
  <2>3. \A r \in Requests : Trusting(r, d)' => ask'[r].at <= clock
    BY <1>1, <1>3 DEF Trusting, AnswersRecent
  <2>4. DropBounds(d)'
    BY <2>1, <2>2, <2>3 DEF DropBounds
  <2>5. MarkBounds(d)'
    BY <1>1, <1>3, <1>4, <2>2 DEF Tracked, MarkBounds, Trusting
  <2>. QED
    BY <1>4, <2>1, <2>4, <2>5 DEF Tracked, UnmarkedUnknown
<1>. QED
  BY <1>6, <1>7

(* Every step keeps the invariant. *)
LEMMA TrustStep ==
  ASSUME TrustInv, [TrustNext]_trustVars
  PROVE  TrustInv'
<1>1. Inv'
  BY TrustCacheStep, InvStep DEF TrustInv
<1>2. Typed /\ MarksTyped /\ \A d \in Devices : Tracked(d) /\ d \in Keys
  BY DeviceFacts DEF TrustInv, Inv
<1>3. UNCHANGED deviceVars => MarksTyped'
  BY <1>2 DEF MarksTyped, deviceVars
<1>4. ASSUME UNCHANGED deviceVars, \A d \in Devices : NothingNew(d)
      PROVE  MarksTyped' /\ \A d \in Devices : Tracked(d)'
  BY <1>2, <1>3, <1>4, NothingNewTracked
<1>5. ASSUME NEW r \in Requests, NEW k \in Keys, NEW ok \in BOOLEAN,
             GetMiss(r, k, ok), UNCHANGED deviceVars
      PROVE  MarksTyped' /\ \A d \in Devices : Tracked(d)'
  BY <1>3, <1>5, MissTracked
<1>6. ASSUME NEW d \in Devices, MarkTrusted(d) \/ Revoke(d)
      PROVE  MarksTyped' /\ \A c \in Devices : Tracked(c)'
  BY <1>6, MarkTracked, RevokeTracked
<1>7. ASSUME NEW r \in Requests, NEW d \in Devices, IsTrusted(r, d)
      PROVE  MarksTyped' /\ \A c \in Devices : Tracked(c)'
  BY <1>2, <1>5, <1>7 DEF IsTrusted
<1>8. ASSUME NEW r \in Requests, TrustReply(r)
      PROVE  MarksTyped' /\ \A d \in Devices : Tracked(d)'
  BY <1>3, <1>8, ReplyTracked DEF TrustReply
<1>9. ASSUME NEW r \in Requests, NEW k \in Keys, NEW ok \in BOOLEAN, OtherGet(r, k, ok)
      PROVE  MarksTyped' /\ \A d \in Devices : Tracked(d)'
  BY <1>5, <1>9 DEF OtherGet
<1>10. ASSUME NEW k \in Keys \ Devices, NEW life \in Lives, NEW ok \in BOOLEAN,
              OtherSet(k, life, ok)
       PROVE  MarksTyped' /\ \A d \in Devices : Tracked(d)'
  <2>. DEFINE e == [num |-> sets + 1, born |-> clock, life |-> life, exp |-> clock + life]
  <2>1. /\ MemSet(k, e) /\ UNCHANGED deviceVars /\ ask' = ask
        /\ redis' = IF ok THEN [redis EXCEPT ![k] = e] ELSE redis
    BY <1>10 DEF OtherSet, Set
  <2>. HIDE DEF e
  <2>2. \A x \in Held' : x = k \/ (x \in Held /\ mem'[x] = mem[x])
    BY <1>2, <2>1, MemSetEffect
  <2>3. \A d \in Devices : redis'[d] = redis[d]
    BY <1>2, <2>1 DEF Typed
  <2>4. \A d \in Devices : NothingNew(d)
    BY <2>1, <2>2, <2>3 DEF NothingNew, Trusting, deviceVars
  <2>. QED
    BY <1>4, <2>1, <2>4
<1>11. ASSUME UNCHANGED deviceVars, Held' \subseteq Held,
              \A x \in Held' : mem'[x] = mem[x],
              \A d \in Devices : redis'[d] \in {redis[d], None},
              \A r \in Requests : ask'[r] \in {ask[r], None}
       PROVE  MarksTyped' /\ \A d \in Devices : Tracked(d)'
  <2>1. \A d \in Devices : NothingNew(d)
    BY <1>11 DEF NothingNew, Trusting, deviceVars
  <2>. QED
    BY <1>4, <1>11, <2>1
<1>12. ASSUME NEW k \in Keys \ Devices, NEW ok \in BOOLEAN, OtherDel(k, ok)
       PROVE  MarksTyped' /\ \A d \in Devices : Tracked(d)'
  <2>1. /\ Held' = Held \ {k} /\ \A x \in Held' : mem'[x] = mem[x]
        /\ redis' = IF ok THEN [redis EXCEPT ![k] = None] ELSE redis
        /\ ask' = ask /\ UNCHANGED deviceVars
    BY <1>12, MemDropEffect DEF OtherDel, Del
  <2>. QED
    BY <1>2, <1>11, <2>1 DEF Typed
<1>13. ASSUME NEW k \in Keys, TrustScan(k)
       PROVE  MarksTyped' /\ \A d \in Devices : Tracked(d)'
  <2>1. /\ redis' = [redis EXCEPT ![k] = None]
        /\ mem' = mem /\ ask' = ask /\ UNCHANGED deviceVars
    BY <1>13 DEF TrustScan, ScanDelete
  <2>. QED
    BY <1>2, <1>11, <2>1 DEF Typed, Held
<1>14. CASE TrustClear
  BY <1>1, <1>11, <1>14 DEF TrustClear, Clear, Held, TrustInv
<1>15. CASE TrustRestart
  BY <1>1, <1>11, <1>15 DEF TrustRestart, Restart, Held, TrustInv
<1>16. CASE TrustCleanup
  <2>1. /\ Held' \subseteq Held /\ \A x \in Held' : mem'[x] = mem[x]
        /\ UNCHANGED <<redis, ask>> /\ UNCHANGED deviceVars
    BY <1>16, MemDropEffect DEF TrustCleanup, CleanupExpired
  <2>. QED
    BY <1>1, <1>11, <2>1 DEF TrustInv
<1>17. CASE TrustTick
  <2>1. /\ \A k \in Keys : redis'[k] \in {redis[k], None}
        /\ mem' = mem /\ ask' = ask /\ UNCHANGED deviceVars
    BY <1>17 DEF TrustTick, Tick
  <2>. QED
    BY <1>1, <1>2, <1>11, <2>1 DEF Held, TrustInv
<1>18. CASE UNCHANGED trustVars
  BY <1>1, <1>11, <1>18 DEF trustVars, deviceVars, Held, TrustInv
<1>. QED
  BY <1>1, <1>6, <1>7, <1>8, <1>9, <1>10, <1>12, <1>13, <1>14, <1>15, <1>16, <1>17, <1>18
     DEF TrustNext, TrustInv

(* The invariant holds at the start. *)
LEMMA TrustInitially == TrustInit => TrustInv
<1>. SUFFICES ASSUME TrustInit PROVE TrustInv
  OBVIOUS
<1>1. Inv
  BY InvInit DEF TrustInit
<1>2. MarksTyped /\ \A d \in Devices : marked[d] = None /\ dropped[d] = None
  BY DEF TrustInit, MarksTyped
<1>3. \A d \in Devices : /\ d \notin Held /\ redis[d] = None
                         /\ \A r \in Requests : ~Trusting(r, d)
  BY DeviceFacts DEF TrustInit, Init, Held, Trusting
<1>. QED
  BY <1>1, <1>2, <1>3 DEF TrustInv, Tracked, UnmarkedUnknown, MarkBounds, DropBounds

(* A revoked device is trusted no longer than one lag and one stay in L1,  *)
(* and no device later than the lag after its token ran out.               *)
THEOREM TrustExpires == TrustSpec => []TrustEnds
<1>1. TrustInv /\ [TrustNext]_trustVars => TrustInv'
  BY TrustStep
<1>2. TrustInv => TrustEnds
  <2> SUFFICES ASSUME TrustInv, NEW d \in Devices
               PROVE  /\ dropped[d] # None =>
                           /\ redis[d] = None
                           /\ MemLive(d) => clock < dropped[d] + MaxLag + L1TTL
                      /\ \A r \in Requests : Trusting(r, d) =>
                           /\ clock < marked[d] + DeviceLife + MaxLag
                           /\ dropped[d] # None => clock <= dropped[d] + MaxLag
    BY DEF TrustEnds
  <2>1. /\ Typed /\ AnswersRecent /\ Tracked(d) /\ clock \in Nat
        /\ marked[d] \in Nat \cup {None} /\ dropped[d] \in Nat \cup {None}
    BY DEF TrustInv, Inv, IndInv, Typed, MarksTyped
  <2>2. ASSUME dropped[d] # None
        PROVE  redis[d] = None /\ (MemLive(d) => clock < dropped[d] + MaxLag + L1TTL)
    <3>1. redis[d] = None /\ (d \in Held => mem[d].exp <= dropped[d] + MaxLag + L1TTL)
      BY <2>1, <2>2 DEF Tracked, DropBounds
    <3>2. d \in Held => mem[d].exp \in Nat
      BY <2>1 DEF Typed, Entry
    <3>. QED
      BY <2>1, <2>2, <3>1, <3>2, DeviceFacts DEF MemLive
  <2>3. ASSUME NEW r \in Requests, Trusting(r, d)
        PROVE  /\ clock < marked[d] + DeviceLife + MaxLag
               /\ dropped[d] # None => clock <= dropped[d] + MaxLag
    <3>1. ask[r].at \in Nat /\ clock <= ask[r].at + MaxLag
      BY <2>1, <2>3 DEF Typed, Trusting, AnswersRecent
    <3>2. marked[d] # None /\ ask[r].at < marked[d] + DeviceLife
      BY <2>1, <2>3 DEF Tracked, UnmarkedUnknown, MarkBounds
    <3>3. dropped[d] # None => ask[r].at <= dropped[d]
      BY <2>1, <2>3 DEF Tracked, DropBounds
    <3>. QED
      BY <2>1, <3>1, <3>2, <3>3, DeviceFacts
  <2>. QED
    BY <2>2, <2>3
<1>. QED
  BY <1>1, <1>2, TrustInitially, PTL DEF TrustSpec

(* The types; and a device in the cache was marked. *)
THEOREM TrustTypeCorrect == TrustSpec => []TrustTypeOK
<1>1. TrustInv /\ [TrustNext]_trustVars => TrustInv'
  BY TrustStep
<1>2. TypeOK /\ TrustInv => TrustTypeOK
  BY DEF TrustInv, MarksTyped, Tracked, UnmarkedUnknown, TrustTypeOK
<1>3. TrustSpec => []TypeOK
  BY TrustUsesTheCache, CacheTypeCorrect, PTL
<1>. QED
  BY <1>1, <1>2, <1>3, TrustInitially, PTL DEF TrustSpec

(* The cache under the service keeps its own promises. *)
THEOREM TrustedCacheHolds == TrustSpec => [](SizeBound /\ AgeBound /\ DeletedGoesAway)
BY TrustUsesTheCache, SizeBounded, AgeBounded, DeletesTakeEffect, PTL

=============================================================================
