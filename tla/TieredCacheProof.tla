-------------------------- MODULE TieredCacheProof --------------------------
(* Proofs about TieredCache, for any keys, sizes, lifetimes and lag.       *)
EXTENDS TieredCache, FiniteSetTheorems, TLAPS

(* L1 is a bounded map, and its order numbers its keys. *)
Ordered ==
  /\ IsFiniteSet(Held)
  /\ order \in [Held -> 1..Cardinality(Held)]
  /\ SizeBound

(* The places of the keys that stay are distinct and number them. *)
LEMMA PlacesNumber ==
  ASSUME Ordered, NEW kept \in SUBSET Held
  PROVE  /\ IsFiniteSet(kept) /\ Cardinality(kept) \in Nat
         /\ \A x \in kept : Place(x, kept) \in 1..Cardinality(kept)
         /\ \A x, y \in kept : Place(x, kept) = Place(y, kept) => x = y
<1>1. IsFiniteSet(kept) /\ Cardinality(kept) \in Nat
  BY FS_Subset, FS_CardinalityType DEF Ordered
<1>. DEFINE upTo(x) == {y \in kept : order[y] <= order[x]}
<1>2. \A x \in Held : order[x] \in Nat
  BY FS_CardinalityType DEF Ordered
<1>3. ASSUME NEW x \in kept
      PROVE  /\ IsFiniteSet(upTo(x)) /\ x \in upTo(x) /\ upTo(x) \subseteq kept
             /\ Place(x, kept) = Cardinality(upTo(x))
             /\ Place(x, kept) \in 1..Cardinality(kept)
  <2>1. upTo(x) \in SUBSET kept /\ x \in upTo(x)
    BY <1>2
  <2>2. Place(x, kept) = Cardinality(upTo(x))
    BY DEF Place
  <2>3. IsFiniteSet(upTo(x)) /\ Cardinality(upTo(x)) <= Cardinality(kept)
    BY <1>1, <2>1, FS_Subset
  <2>4. Cardinality(upTo(x)) \in Nat /\ Cardinality(upTo(x)) # 0
    BY <2>1, <2>3, FS_CardinalityType, FS_EmptySet
  <2>. HIDE DEF upTo
  <2>. QED
    BY <1>1, <2>1, <2>2, <2>3, <2>4
<1>4. ASSUME NEW x \in kept, NEW y \in kept, Place(x, kept) = Place(y, kept),
             order[x] <= order[y]
      PROVE  x = y
  <2>1. upTo(x) \in SUBSET upTo(y)
    BY <1>2, <1>4
  <2>2. upTo(x) = upTo(y)
    BY <1>3, <1>4, <2>1, FS_Subset
  <2>3. order[y] <= order[x]
    BY <1>3, <2>2
  <2>. QED
    BY <1>2, <1>4, <2>3 DEF Ordered, SizeBound
<1>5. ASSUME NEW x \in kept, NEW y \in kept, Place(x, kept) = Place(y, kept)
      PROVE  x = y
  BY <1>2, <1>4, <1>5
<1>. QED
  BY <1>1, <1>3, <1>5

(* Some key of a map that holds any is the first in its order. *)
LEMMA FirstExists ==
  ASSUME Ordered, Held # {}
  PROVE  \E x \in Held : order[x] = 1
<1>. DEFINE n == Cardinality(Held)
<1>1. n \in Nat /\ n # 0
  BY FS_CardinalityType, FS_EmptySet DEF Ordered
<1>2. IsFiniteSet(1..n) /\ Cardinality(1..n) = n
  BY <1>1, FS_Interval
<1>3. order \in Injection(Held, 1..n)
  BY DEF Ordered, SizeBound, Injection, IsInjective
<1>4. order \in Surjection(Held, 1..n)
  <2>. HIDE DEF n
  <2>. QED
  BY <1>2, <1>3, FS_Injection DEF n
<1>5. 1 \in 1..n
  BY <1>1
<1>. QED
  BY <1>4, <1>5 DEF Surjection

(* After evictIfNeeded there is room for a key. *)
LEMMA EvictionMakesRoom ==
  ASSUME Ordered
  PROVE  Cardinality(Held \ Victims) + 1 <= MaxItems
<1>1. Cardinality(Held) \in Nat /\ MaxItems \in Nat \ {0} /\ Cardinality(Held) <= MaxItems
  BY SizeAssumption, FS_CardinalityType DEF Ordered, SizeBound
<1>2. CASE Cardinality(Held) < MaxItems
  <2>1. Held \ Victims = Held
    BY <1>2 DEF Victims
  <2>. QED
    BY <1>1, <1>2, <2>1
<1>3. CASE ~(Cardinality(Held) < MaxItems)
  <2>1. Held # {}
    BY <1>1, <1>3, FS_EmptySet
  <2>2. PICK v \in Held : order[v] = 1
    BY <2>1, FirstExists
  <2>3. Victims = {v}
    BY <1>3, <2>2 DEF Victims, Ordered, SizeBound
  <2>4. Cardinality(Held \ {v}) = Cardinality(Held) - 1
    BY <2>2, FS_RemoveElement DEF Ordered
  <2>. QED
    BY <1>1, <2>3, <2>4
<1>. QED
  BY <1>2, <1>3

(* A key set into L1 makes it neither too large nor disordered. *)
LEMMA MemSetOrder ==
  ASSUME Ordered, NEW k, NEW e, MemSet(k, e)
  PROVE  Ordered'
<1>. DEFINE kept == Held \ Victims
<1>1. /\ IsFiniteSet(kept) /\ Cardinality(kept) \in Nat
      /\ \A x \in kept : Place(x, kept) \in 1..Cardinality(kept)
      /\ \A x, y \in kept : Place(x, kept) = Place(y, kept) => x = y
  BY PlacesNumber
<1>2. Cardinality(kept) + 1 <= MaxItems
  BY EvictionMakesRoom
<1>3. /\ Held' = kept \cup {k}
      /\ order' = [x \in kept \cup {k} |->
                IF x \in kept THEN Place(x, kept) ELSE Cardinality(kept) + 1]
  BY DEF MemSet, Held
<1>. HIDE DEF kept
<1>4. /\ IsFiniteSet(Held')
      /\ Cardinality(Held') = IF k \in kept THEN Cardinality(kept) ELSE Cardinality(kept) + 1
  BY <1>1, <1>3, FS_AddElement
<1>5. order' \in [Held' -> 1..Cardinality(Held')]
  BY <1>1, <1>3, <1>4
<1>6. ASSUME NEW x \in Held', NEW y \in Held', order'[x] = order'[y]
      PROVE  x = y
  BY <1>1, <1>3, <1>6
<1>7. Cardinality(Held') <= MaxItems
  BY <1>1, <1>2, <1>4, SizeAssumption
<1>. QED
  BY <1>4, <1>5, <1>6, <1>7 DEF Ordered, SizeBound

(* Nor do keys that leave. *)
LEMMA MemDropOrder ==
  ASSUME Ordered, NEW dead, MemDrop(dead)
  PROVE  Ordered'
<1>. DEFINE kept == Held \ dead
<1>1. /\ IsFiniteSet(kept) /\ Cardinality(kept) \in Nat
      /\ \A x \in kept : Place(x, kept) \in 1..Cardinality(kept)
      /\ \A x, y \in kept : Place(x, kept) = Place(y, kept) => x = y
  BY PlacesNumber
<1>2. Held' = kept /\ order' = [x \in kept |-> Place(x, kept)]
  BY DEF MemDrop, Held
<1>3. Cardinality(kept) <= MaxItems
  <2>1. Cardinality(kept) <= Cardinality(Held) /\ Cardinality(Held) \in Nat
    BY FS_Subset, FS_CardinalityType DEF Ordered
  <2>. QED
    BY <1>1, <2>1, SizeAssumption DEF Ordered, SizeBound
<1>. HIDE DEF kept
<1>. QED
  BY <1>1, <1>2, <1>3 DEF Ordered, SizeBound

(* An empty L1 is in order. *)
LEMMA EmptyOrder == order = <<>> /\ mem = <<>> => Ordered
<1>. SUFFICES ASSUME order = <<>>, mem = <<>> PROVE Ordered
  OBVIOUS
<1>1. Held = {}
  BY DEF Held
<1>2. IsFiniteSet(Held) /\ Cardinality(Held) = 0
  BY <1>1, FS_EmptySet
<1>3. order \in [Held -> 1..Cardinality(Held)]
  BY <1>1
<1>. QED
  BY <1>1, <1>2, <1>3, SizeAssumption DEF Ordered, SizeBound

(* Every step keeps L1 bounded and in order. *)
LEMMA OrderStep ==
  ASSUME Ordered, [Next]_vars
  PROVE  Ordered'
<1>1. ASSUME NEW dead, MemDrop(dead) PROVE Ordered'
  BY <1>1, MemDropOrder
<1>2. ASSUME NEW k, NEW e, MemSet(k, e) PROVE Ordered'
  BY <1>2, MemSetOrder
<1>3. (order = <<>> /\ mem = <<>>)' => Ordered'
  BY EmptyOrder, PTL
<1>4. ASSUME UNCHANGED <<order, mem>> PROVE Ordered'
  BY <1>4 DEF Ordered, SizeBound, Held
<1>5. ASSUME NEW r \in Requests, GetReply(r) PROVE Ordered'
  BY <1>2, <1>4, <1>5 DEF GetReply
<1>6. ASSUME NEW r \in Requests, NEW k \in Keys, NEW ok \in BOOLEAN, GetMiss(r, k, ok)
      PROVE  Ordered'
  BY <1>1, <1>6 DEF GetMiss
<1>7. ASSUME NEW k \in Keys, NEW life \in Lives, NEW ok \in BOOLEAN, Set(k, life, ok)
      PROVE  Ordered'
  BY <1>2, <1>7 DEF Set
<1>8. ASSUME NEW k \in Keys, NEW ok \in BOOLEAN, Del(k, ok) PROVE Ordered'
  BY <1>1, <1>8 DEF Del
<1>9. CASE CleanupExpired
  BY <1>1, <1>9 DEF CleanupExpired
<1>10. CASE Clear \/ Restart
  BY <1>3, <1>10 DEF Clear, Restart
<1>11. ASSUME NEW k \in Keys, ScanDelete(k) PROVE Ordered'
  BY <1>4, <1>11 DEF ScanDelete
<1>12. CASE Tick \/ UNCHANGED vars
  BY <1>4, <1>12 DEF Tick, vars
<1>. QED
  BY <1>5, <1>6, <1>7, <1>8, <1>9, <1>10, <1>11, <1>12 DEF Next
-----------------------------------------------------------------------------
(* The types of everything but the order and the scan.                     *)
Typed ==
  /\ Held \subseteq Keys /\ \A k \in Held : mem[k] \in Entry
  /\ redis \in [Keys -> Entry \cup {None}]
  /\ ask \in [Requests -> [key : Keys, answer : Entry \cup {None}, at : Nat] \cup {None}]
  /\ clock \in Nat
  /\ sets \in Nat
  /\ gone \in [Keys -> [num : Nat, at : Nat]]

(* What MemSet does to the entries of L1, whatever it evicts. *)
LEMMA MemSetEffect ==
  ASSUME Typed, NEW k \in Keys, NEW e, MemSet(k, e)
  PROVE  /\ Held' \subseteq Keys
         /\ \A x \in Held' : \/ x = k /\ mem'[x] = e
                             \/ x \in Held /\ mem'[x] = mem[x]
BY DEF MemSet, Held, Typed

(* What dropping keys does to the entries of L1. *)
LEMMA MemDropEffect ==
  ASSUME NEW dead, MemDrop(dead)
  PROVE  Held' = Held \ dead /\ \A x \in Held' : mem'[x] = mem[x]
BY DEF MemDrop, Held

(* All that the proof carries from step to step. *)
Inv == Typed /\ IndInv /\ AgeBound /\ DeletedGoesAway

(* Every entry stored by set satisfies the bounds, and nothing else moves. *)
LEMMA SetStep ==
  ASSUME Inv, NEW k \in Keys, NEW life \in Lives, NEW ok \in BOOLEAN,
         Set(k, life, ok)
  PROVE  Inv'
<1>. DEFINE e == [num |-> sets + 1, born |-> clock, life |-> life, exp |-> clock + life]
<1>1. /\ sets' = sets + 1 /\ clock' = clock /\ ask' = ask /\ gone' = gone
      /\ MemSet(k, e)
      /\ redis' = IF ok THEN [redis EXCEPT ![k] = e] ELSE redis
  BY DEF Set
<1>2. e \in Entry /\ clock < e.exp /\ e.exp = e.born + e.life /\ e.num = sets + 1
  BY TimesAssumption DEF Entry, Inv, Typed
<1>. HIDE DEF e
<1>3. /\ Held' \subseteq Keys
      /\ \A x \in Held' : \/ x = k /\ mem'[x] = e
                          \/ x \in Held /\ mem'[x] = mem[x]
  BY <1>1, MemSetEffect DEF Inv
<1>4. Typed'
  BY <1>1, <1>2, <1>3 DEF Inv, Typed
<1>5. RedisFresh'
  BY <1>1, <1>2 DEF Inv, IndInv, RedisFresh, DeletesCounted, Typed, Entry
<1>6. AnswersRecent' /\ DeletesCounted'
  BY <1>1 DEF Inv, IndInv, AnswersRecent, DeletesCounted, Typed
<1>7. AgeBound'
  BY <1>1, <1>2, <1>3, TimesAssumption DEF Inv, AgeBound, Typed, Entry
<1>8. DeletedGoesAway'
  BY <1>1, <1>2, <1>3, <1>5 DEF Inv, IndInv, DeletedGoesAway, DeletesCounted, RedisFresh, Typed, Entry
<1>. QED
  BY <1>4, <1>5, <1>6, <1>7, <1>8 DEF Inv, IndInv

(* The copy of a late answer: its new end is one lag and one stay after    *)
(* the answer was taken from Redis, where the entry was still live.        *)
LEMMA ReplyStep ==
  ASSUME Inv, NEW r \in Requests, GetReply(r)
  PROVE  Inv'
<1>1. /\ ask[r] # None
      /\ ask' = [ask EXCEPT ![r] = None]
      /\ UNCHANGED <<redis, scan, clock, sets, gone>>
  BY DEF GetReply
<1>2. /\ Typed /\ RedisFresh /\ AnswersRecent /\ DeletesCounted
      /\ AgeBound /\ DeletedGoesAway
  BY DEF Inv, IndInv
<1>3. RedisFresh' /\ AnswersRecent' /\ DeletesCounted'
  BY <1>1, <1>2 DEF RedisFresh, AnswersRecent, DeletesCounted, Typed
<1>4. CASE ask[r].answer = None
  <2>1. UNCHANGED <<order, mem>>
    BY <1>4 DEF GetReply
  <2>2. Typed'
    BY <1>1, <1>2, <2>1 DEF Typed, Held
  <2>3. AgeBound' /\ DeletedGoesAway'
    BY <1>1, <1>2, <2>1 DEF AgeBound, DeletedGoesAway, Held
  <2>. QED
    BY <1>3, <2>2, <2>3 DEF Inv, IndInv
<1>5. CASE ask[r].answer # None
  <2>1. PICK k \in Keys, a \in Entry, t \in Nat :
          k = ask[r].key /\ a = ask[r].answer /\ t = ask[r].at
    BY <1>1, <1>2, <1>5 DEF Typed
  <2>2. /\ t <= clock /\ clock <= t + MaxLag
        /\ t < a.born + a.life
        /\ a.num <= gone[k].num => t <= gone[k].at
    BY <1>1, <1>2, <1>5, <2>1 DEF AnswersRecent
  <2>. DEFINE e == [a EXCEPT !.exp = clock + L1TTL]
  <2>3. /\ e \in Entry
        /\ e.num = a.num /\ e.born = a.born /\ e.life = a.life
        /\ e.exp = clock + L1TTL
    BY <1>2, TimesAssumption DEF Entry, Typed
  <2>4. MemSet(k, e)
    BY <1>5, <2>1 DEF GetReply
  <2>. HIDE DEF e
  <2>5. /\ Held' \subseteq Keys
        /\ \A x \in Held' : \/ x = k /\ mem'[x] = e
                            \/ x \in Held /\ mem'[x] = mem[x]
    BY <1>2, <2>4, MemSetEffect
  <2>6. Typed'
    <3>1. \A x \in Held' : mem'[x] \in Entry
      BY <1>2, <2>3, <2>5 DEF Typed
    <3>2. ask' \in [Requests -> [key : Keys, answer : Entry \cup {None}, at : Nat] \cup {None}]
      BY <1>1, <1>2 DEF Typed
    <3>. QED
      BY <1>1, <1>2, <2>5, <3>1, <3>2 DEF Typed
  <2>7. AgeBound'
    BY <1>2, <2>2, <2>3, <2>5, TimesAssumption DEF AgeBound, Typed, Entry
  <2>8. \A x \in Held' : mem'[x].num <= gone'[x].num =>
          mem'[x].exp <= gone'[x].at + MaxLag + L1TTL
    <3> TAKE x \in Held'
    <3> HAVE mem'[x].num <= gone'[x].num
    <3>1. CASE x = k /\ mem'[x] = e
      BY <1>1, <1>2, <2>2, <2>3, <3>1, TimesAssumption DEF Typed
    <3>2. CASE x \in Held /\ mem'[x] = mem[x]
      BY <1>1, <1>2, <3>2 DEF DeletedGoesAway, Typed
    <3>. QED
      BY <2>5, <3>1, <3>2
  <2>9. DeletedGoesAway'
    BY <1>1, <1>2, <2>8 DEF DeletedGoesAway
  <2>. QED
    BY <1>3, <2>6, <2>7, <2>9 DEF Inv, IndInv
<1>. QED
  BY <1>4, <1>5

(* A step that only takes entries away from L1. *)
LEMMA ShrinkStep ==
  ASSUME Inv, Held' \subseteq Held, \A x \in Held' : mem'[x] = mem[x],
         UNCHANGED <<clock, sets, gone>>,
         \A k \in Keys : redis'[k] \in {redis[k], None},
         redis' \in [Keys -> Entry \cup {None}],
         ask' \in [Requests -> [key : Keys, answer : Entry \cup {None}, at : Nat] \cup {None}],
         AnswersRecent'
  PROVE  Inv'
<1>1. Typed'
  BY DEF Inv, Typed
<1>2. RedisFresh' /\ DeletesCounted'
  BY DEF Inv, IndInv, RedisFresh, DeletesCounted
<1>3. AgeBound' /\ DeletedGoesAway'
  BY DEF Inv, AgeBound, DeletedGoesAway, Typed
<1>. QED
  BY <1>1, <1>2, <1>3 DEF Inv, IndInv

(* Every step keeps the invariant. *)
LEMMA InvStep ==
  ASSUME Inv, [Next]_vars
  PROVE  Inv'
<1>1. /\ Typed /\ RedisFresh /\ AnswersRecent /\ DeletesCounted
      /\ AgeBound /\ DeletedGoesAway
  BY DEF Inv, IndInv
<1>2. ASSUME NEW r \in Requests, NEW k \in Keys, NEW ok \in BOOLEAN,
             GetMiss(r, k, ok)
      PROVE  Inv'
  <2>. DEFINE a == [key |-> k, answer |-> IF ok THEN redis[k] ELSE None, at |-> clock]
  <2>1. /\ Held' \subseteq Held /\ \A x \in Held' : mem'[x] = mem[x]
        /\ UNCHANGED <<redis, clock, sets, gone>>
        /\ ask' = [ask EXCEPT ![r] = a]
    BY <1>2, MemDropEffect DEF GetMiss
  <2>2. /\ a.key = k /\ a.at = clock /\ a.answer \in {redis[k], None}
        /\ a \in [key : Keys, answer : Entry \cup {None}, at : Nat]
    BY <1>1 DEF Typed
  <2>. HIDE DEF a
  <2>3. AnswersRecent'
    <3> SUFFICES ASSUME NEW q \in Requests, ask'[q] # None
                 PROVE  /\ ask'[q].at <= clock /\ clock <= ask'[q].at + MaxLag
                        /\ ask'[q].answer # None =>
                             /\ ask'[q].at < ask'[q].answer.born + ask'[q].answer.life
                             /\ ask'[q].answer.num <= gone[ask'[q].key].num =>
                                  ask'[q].at <= gone[ask'[q].key].at
      BY <2>1 DEF AnswersRecent
    <3>1. CASE q = r
      <4>1. ask'[q] = a
        BY <1>1, <2>1, <3>1 DEF Typed
      <4>2. redis[k] # None => /\ redis[k] \in Entry /\ clock < redis[k].exp
                               /\ redis[k].exp <= redis[k].born + redis[k].life
                               /\ gone[k].num < redis[k].num
        BY <1>1 DEF RedisFresh, Typed
      <4>. QED
        BY <1>1, <2>2, <4>1, <4>2, TimesAssumption DEF Typed, Entry
    <3>2. CASE q # r
      BY <1>1, <2>1, <3>2 DEF AnswersRecent, Typed
    <3>. QED
      BY <3>1, <3>2
  <2>. QED
    BY <1>1, <2>1, <2>2, <2>3, ShrinkStep DEF Typed
<1>3. ASSUME NEW r \in Requests, GetReply(r)
      PROVE  Inv'
  BY <1>3, ReplyStep
<1>4. ASSUME NEW k \in Keys, NEW life \in Lives, NEW ok \in BOOLEAN,
             Set(k, life, ok)
      PROVE  Inv'
  BY <1>4, SetStep
<1>5. ASSUME NEW k \in Keys, NEW ok \in BOOLEAN, Del(k, ok)
      PROVE  Inv'
  <2>1. /\ Held' = Held \ {k} /\ \A x \in Held' : mem'[x] = mem[x]
        /\ UNCHANGED <<ask, clock, sets>>
        /\ redis' = IF ok THEN [redis EXCEPT ![k] = None] ELSE redis
        /\ gone' = IF ok THEN [gone EXCEPT ![k] = [num |-> sets, at |-> clock]] ELSE gone
    BY <1>5, MemDropEffect DEF Del
  <2>2. Typed'
    BY <1>1, <2>1 DEF Typed
  <2>3. RedisFresh' /\ DeletesCounted'
    BY <1>1, <2>1 DEF RedisFresh, DeletesCounted, Typed
  <2>4. AnswersRecent'
    BY <1>1, <2>1 DEF AnswersRecent, Typed
  <2>5. AgeBound' /\ DeletedGoesAway'
    BY <1>1, <2>1, <2>3 DEF AgeBound, DeletedGoesAway, RedisFresh, Typed
  <2>. QED
    BY <2>2, <2>3, <2>4, <2>5 DEF Inv, IndInv
<1>6. CASE CleanupExpired
  <2>1. /\ Held' \subseteq Held /\ \A x \in Held' : mem'[x] = mem[x]
        /\ UNCHANGED <<redis, ask, clock, sets, gone>>
    BY <1>6, MemDropEffect DEF CleanupExpired
  <2>2. AnswersRecent'
    BY <1>1, <2>1 DEF AnswersRecent
  <2>. QED
    BY <1>1, <2>1, <2>2, ShrinkStep DEF Typed
<1>7. CASE Clear
  <2>1. /\ Held' = {} /\ UNCHANGED <<redis, ask, clock, sets, gone>>
    BY <1>7 DEF Clear, Held
  <2>2. AnswersRecent'
    BY <1>1, <2>1 DEF AnswersRecent
  <2>. QED
    BY <1>1, <2>1, <2>2, ShrinkStep DEF Typed
<1>8. ASSUME NEW k \in Keys, ScanDelete(k)
      PROVE  Inv'
  <2>1. /\ Held' = Held /\ mem' = mem
        /\ UNCHANGED <<ask, clock, sets, gone>>
        /\ redis' = [redis EXCEPT ![k] = None]
    BY <1>8 DEF ScanDelete, Held
  <2>2. AnswersRecent'
    BY <1>1, <2>1 DEF AnswersRecent
  <2>. QED
    BY <1>1, <2>1, <2>2, ShrinkStep DEF Typed
<1>9. CASE Restart
  <2>1. /\ Held' = {} /\ UNCHANGED <<redis, clock, sets, gone>>
        /\ ask' = [r \in Requests |-> None]
    BY <1>9 DEF Restart, Held
  <2>2. AnswersRecent'
    BY <2>1 DEF AnswersRecent
  <2>. QED
    BY <1>1, <2>1, <2>2, ShrinkStep DEF Typed
<1>10. CASE Tick
  <2>1. /\ clock' = clock + 1
        /\ \A r \in Requests : ask[r] # None => clock < ask[r].at + MaxLag
        /\ redis' = [k \in Keys |->
             IF redis[k] # None /\ redis[k].exp <= clock + 1 THEN None ELSE redis[k]]
        /\ UNCHANGED <<mem, ask, sets, gone>>
        /\ Held' = Held
    BY <1>10 DEF Tick, Held
  <2>2. Typed'
    BY <1>1, <2>1 DEF Typed
  <2>3. RedisFresh' /\ DeletesCounted'
    BY <1>1, <2>1 DEF RedisFresh, DeletesCounted, Typed, Entry
  <2>4. AnswersRecent'
    BY <1>1, <2>1, TimesAssumption DEF AnswersRecent, Typed
  <2>5. AgeBound' /\ DeletedGoesAway'
    BY <1>1, <2>1, <2>3 DEF AgeBound, DeletedGoesAway, RedisFresh, Typed
  <2>. QED
    BY <2>2, <2>3, <2>4, <2>5 DEF Inv, IndInv
<1>11. CASE UNCHANGED vars
  BY <1>11
     DEF vars, Inv, IndInv, Typed, Held, RedisFresh, AnswersRecent,
         DeletesCounted, AgeBound, DeletedGoesAway
<1>. QED
  BY <1>2, <1>3, <1>4, <1>5, <1>6, <1>7, <1>8, <1>9, <1>10, <1>11 DEF Next

(* The invariant holds at the start. *)
LEMMA InvInit == Init => Inv
BY DEF Init, Inv, IndInv, Typed, Held, RedisFresh, AnswersRecent,
       DeletesCounted, AgeBound, DeletedGoesAway

(* A cached value is never served later than its lifetime plus one stay in *)
(* L1 and one answer's lag, however it moves between the levels.           *)
THEOREM AgeBounded == Spec => []AgeBound
<1>1. Inv /\ [Next]_vars => Inv'
  BY InvStep
<1>2. Inv => AgeBound
  BY DEF Inv
<1>. QED
  BY <1>1, <1>2, InvInit, PTL DEF Spec

(* A deleted value is gone from L2, and from L1 after one more stay. *)
THEOREM DeletesTakeEffect == Spec => []DeletedGoesAway
<1>1. Inv /\ [Next]_vars => Inv'
  BY InvStep
<1>2. Inv => DeletedGoesAway
  BY DEF Inv
<1>. QED
  BY <1>1, <1>2, InvInit, PTL DEF Spec

(* L1 stays within maxItems, whatever is set, copied, dropped or expires,  *)
(* and its order stays one.                                                *)
THEOREM SizeBounded == Spec => []SizeBound
<1>1. Init => Ordered
  BY EmptyOrder DEF Init
<1>2. Ordered /\ [Next]_vars => Ordered'
  BY OrderStep
<1>3. Ordered => SizeBound
  BY DEF Ordered
<1>. QED
  BY <1>1, <1>2, <1>3, PTL DEF Spec

(* The levels, the gets, the scan and the histories keep their types. *)
THEOREM CacheTypeCorrect == Spec => []TypeOK
<1>. DEFINE Scanned == scan \subseteq Keys
<1>1. Init => Inv /\ Ordered /\ Scanned
  BY InvInit, EmptyOrder DEF Init
<1>2. Inv /\ Ordered /\ Scanned /\ [Next]_vars => Inv' /\ Ordered' /\ Scanned'
  <2>1. Scanned /\ [Next]_vars => Scanned'
    BY DEF Next, vars, GetMiss, GetReply, Set, Del, CleanupExpired, Clear,
           ScanDelete, Restart, Tick
  <2>. QED
    BY <2>1, InvStep, OrderStep
<1>3. Inv /\ Ordered /\ Scanned => TypeOK
  BY DEF Inv, Typed, Ordered, TypeOK
<1>. QED
  BY <1>1, <1>2, <1>3, PTL DEF Spec

=============================================================================
