--------------------------- MODULE TwoFactorProof ---------------------------
(* Proofs about TwoFactor, for any number of requests and codes, any limit *)
(* on attempts and any lifetime.                                           *)
EXTENDS TwoFactor, FiniteSetTheorems, TLAPS

(* A request past its first query holds a stored code. *)
HoldsStoredCode ==
  \A r \in Requests : pc[r] \in {"publish", "compare", "update", "open"} => code[r] \in 1..last

(* The verifications of a code can be counted. *)
LEMMA VerifyingCount ==
  \A o \in Codes : /\ IsFiniteSet(Verifying(o))
                   /\ Cardinality(Verifying(o)) \in Nat
                   /\ Cardinality(Verifying(o)) <= Cardinality(Requests)
<1> TAKE o \in Codes
<1>1. Verifying(o) \subseteq Requests
  BY DEF Verifying
<1>. QED
  BY <1>1, RequestsAssumption, FS_Subset, FS_CardinalityType

(* So can those whose update is to come. *)
LEMMA UpdatingCount ==
  \A o \in Codes : /\ IsFiniteSet(Updating(o))
                   /\ Cardinality(Updating(o)) \in Nat
                   /\ Cardinality(Updating(o)) <= Cardinality(Verifying(o))
<1> TAKE o \in Codes
<1>1. Updating(o) \subseteq Verifying(o)
  BY DEF Updating, Verifying
<1>. QED
  BY <1>1, VerifyingCount, FS_Subset, FS_CardinalityType

(* The limit on guesses is a number. *)
LEMMA LimitType ==
  Cardinality(Requests) \in Nat
BY RequestsAssumption, FS_CardinalityType

(* What a request that ends leaves is well typed. *)
LEMMA EndType ==
  ASSUME TypeOK, HoldsStoredCode, NEW r \in Requests, EndRequest(r), last' = last
  PROVE  /\ pc' \in [Requests -> {"idle", "store", "publish", "compare", "update", "open"}]
         /\ code' \in [Requests -> 0..last']
         /\ guess' \in [Requests -> {"right", "wrong"}]
         /\ HoldsStoredCode'
<1>1. 0 \in 0..last
  BY NumbersAssumption DEF TypeOK
<1>2. /\ pc' \in [Requests -> {"idle", "store", "publish", "compare", "update", "open"}]
      /\ code' \in [Requests -> 0..last']
      /\ guess' \in [Requests -> {"right", "wrong"}]
  BY <1>1 DEF EndRequest, GoTo, TypeOK
<1>3. \A q \in Requests : q # r => pc'[q] = pc[q] /\ code'[q] = code[q]
  BY DEF EndRequest, GoTo, TypeOK
<1>4. pc'[r] = "idle"
  BY DEF EndRequest, GoTo, TypeOK
<1>. QED
  BY <1>2, <1>3, <1>4 DEF HoldsStoredCode

(* Types, and that a request past its first query holds a stored code.     *)
LEMMA TypeStep ==
  ASSUME TypeOK, HoldsStoredCode, [Next]_vars
  PROVE  TypeOK' /\ HoldsStoredCode'
<1>. USE NumbersAssumption
     DEF TypeOK, HoldsStoredCode, Codes, codeVars, reqVars, historyVars
<1>1. ASSUME NEW r \in Requests, SigninStart(r)
      PROVE  TypeOK' /\ HoldsStoredCode'
  BY <1>1 DEF SigninStart, GoTo
<1>2. ASSUME NEW r \in Requests, StoreCode(r)
      PROVE  TypeOK' /\ HoldsStoredCode'
  BY <1>2 DEF StoreCode, GoTo
<1>3. ASSUME NEW r \in Requests, PublishCode(r)
      PROVE  TypeOK' /\ HoldsStoredCode'
  <2>1. code[r] \in Codes
    BY <1>3 DEF PublishCode
  <2>2. EndRequest(r) /\ last' = last
    BY <1>3 DEF PublishCode
  <2>. QED
    <3>1. HoldsStoredCode' /\ code' \in [Requests -> 0..last']
      BY <2>2, EndType
    <3>2. /\ guess' \in [Requests -> {"right", "wrong"}]
          /\ pc' \in [Requests -> {"idle", "store", "publish", "compare", "update", "open"}]
      BY <2>2, EndType
    <3>3. tokenUntil' \in Nat
      BY <1>3 DEF PublishCode, SignToken
    <3>4. published' \subseteq Codes
      <4>1. published' = published \cup {code[r]}
        BY <1>3 DEF PublishCode
      <4>. QED
        BY <2>1, <4>1
    <3>5. UNCHANGED <<last, expires, attempts, consumed, sessions, clock,
                      guesses, accepted, overlap, lost>>
      BY <1>3 DEF PublishCode
    <3>. QED
      BY <3>1, <3>2, <3>3, <3>4, <3>5
<1>4. ASSUME NEW r \in Requests, NEW o \in Codes, NEW g \in {"right", "wrong"},
             VerifyRead(r, o, g)
      PROVE  TypeOK' /\ HoldsStoredCode'
  BY <1>4 DEF VerifyRead, IsCurrent, GoTo
<1>5. ASSUME NEW r \in Requests, VerifyUpdate(r)
      PROVE  TypeOK' /\ HoldsStoredCode'
  <2>1. code[r] \in 1..last /\ code[r] \in Codes
    BY <1>5 DEF VerifyUpdate
  <2>2. guesses' \in [Codes -> Nat] /\ accepted' \in [Codes -> Nat]
    <3>1. guesses' = guesses
      BY <1>5 DEF VerifyUpdate
    <3>2. accepted' = [accepted EXCEPT ![code[r]] = @ + 1] \/ accepted' = accepted
      BY <1>5 DEF VerifyUpdate, CountAccepted
    <3>3. guesses \in [Codes -> Nat] /\ accepted \in [Codes -> Nat]
      OBVIOUS
    <3>. HIDE DEF TypeOK, HoldsStoredCode, Codes
    <3>. QED
      BY <3>1, <3>2, <3>3
  <2>3. overlap' \in [Codes -> Nat]
    BY <1>5, <2>1, VerifyingCount DEF VerifyUpdate, CountAccepted
  <2>4. last' = last /\ attempts' \in [Codes -> Nat]
    BY <1>5 DEF VerifyUpdate, CountAttempt
  <2>6. consumed' \subseteq 1..last'
    <3>1. consumed' \subseteq consumed \cup {code[r]}
      BY <1>5 DEF VerifyUpdate
    <3>. QED
      BY <2>1, <2>4, <3>1
  <2>5. /\ pc' \in [Requests -> {"idle", "store", "publish", "compare", "update", "open"}]
        /\ code' \in [Requests -> 0..last']
        /\ guess' \in [Requests -> {"right", "wrong"}]
        /\ HoldsStoredCode'
    <3>1. CASE guess[r] = "right"
      BY <1>5, <2>1, <2>4, <3>1 DEF VerifyUpdate, Answer, GoTo
    <3>2. CASE guess[r] # "right"
      BY <1>5, <2>4, <3>2, EndType DEF VerifyUpdate, Answer
    <3>. QED
      BY <3>1, <3>2
  <2>. QED
    BY <1>5, <2>2, <2>3, <2>4, <2>5, <2>6 DEF VerifyUpdate
<1>6. ASSUME NEW r \in Requests, OpenSession(r)
      PROVE  TypeOK' /\ HoldsStoredCode'
  <2>1. EndRequest(r) /\ last' = last
    BY <1>6 DEF OpenSession
  <2>2. /\ pc' \in [Requests -> {"idle", "store", "publish", "compare", "update", "open"}]
        /\ code' \in [Requests -> 0..last']
        /\ guess' \in [Requests -> {"right", "wrong"}]
        /\ HoldsStoredCode'
    BY <2>1, EndType
  <2>3. sessions' \in [Codes -> Nat] /\ tokenUntil' \in Nat
    <3>1. /\ sessions \in [Codes -> Nat] /\ code[r] \in Codes
          /\ sessions' = [sessions EXCEPT ![code[r]] = @ + 1]
      BY <1>6 DEF OpenSession
    <3>3. tokenUntil \in Nat /\ clock \in Nat /\ AccessLife \in Nat
      OBVIOUS
    <3>2. \/ tokenUntil' = clock + AccessLife
          \/ tokenUntil' = tokenUntil
      BY <1>6 DEF OpenSession, SignToken
    <3>. HIDE DEF TypeOK, HoldsStoredCode, Codes
    <3>4. sessions' \in [Codes -> Nat]
      BY <3>1
    <3>5. tokenUntil' \in Nat
      BY <3>2, <3>3
    <3>. QED
      BY <3>4, <3>5
  <2>4. UNCHANGED <<last, expires, attempts, consumed, published, clock,
                    guesses, accepted, overlap, lost>>
    BY <1>6 DEF OpenSession
  <2>. QED
    BY <2>2, <2>3, <2>4
<1>7. ASSUME NEW r \in Requests, Fail(r)
      PROVE  TypeOK' /\ HoldsStoredCode'
  <2>1. EndRequest(r) /\ last' = last
    BY <1>7 DEF Fail
  <2>2. /\ pc' \in [Requests -> {"idle", "store", "publish", "compare", "update", "open"}]
        /\ code' \in [Requests -> 0..last']
        /\ guess' \in [Requests -> {"right", "wrong"}]
        /\ HoldsStoredCode'
    BY <2>1, EndType
  <2>3. lost' \in [Codes -> Nat]
    BY <1>7 DEF Fail
  <2>. QED
    BY <1>7, <2>2, <2>3 DEF Fail
<1>8. CASE Crash
  <2>1. lost' \in [Codes -> Nat]
    BY <1>8, UpdatingCount DEF Crash
  <2>. QED
    BY <1>8, <2>1 DEF Crash
<1>9. CASE Tick
  BY <1>9 DEF Tick
<1>10. CASE UNCHANGED vars
  BY <1>10 DEF vars
<1>11. ASSUME NEW r \in Requests, VerifyCompare(r)
       PROVE  TypeOK' /\ HoldsStoredCode'
  <2>1. guesses' \in [Codes -> Nat]
    BY <1>11 DEF VerifyCompare
  <2>2. /\ pc[r] = "compare" /\ pc' = [pc EXCEPT ![r] = "update"]
        /\ UNCHANGED <<last, expires, attempts, consumed, code, guess, tokenUntil,
                       published, sessions, clock, accepted, overlap, lost>>
    BY <1>11 DEF VerifyCompare, GoTo
  <2>3. HoldsStoredCode'
    BY <2>2
  <2>. QED
    BY <2>1, <2>2, <2>3
<1>12. CASE Refresh
  BY <1>12 DEF Refresh, SignToken
<1>. QED
  BY <1>1, <1>2, <1>3, <1>4, <1>5, <1>6, <1>7, <1>8, <1>9, <1>10, <1>11, <1>12
     DEF Next

(* Types hold at the start. *)
LEMMA TypeInit == Init => TypeOK /\ HoldsStoredCode
BY NumbersAssumption DEF Init, Zero, TypeOK, HoldsStoredCode, Codes

(* Every step keeps every variable in its type. *)
THEOREM TypeCorrect == Spec => []TypeOK
<1>1. TypeOK /\ HoldsStoredCode /\ [Next]_vars => TypeOK' /\ HoldsStoredCode'
  BY TypeStep
<1>. QED
  BY <1>1, TypeInit, PTL DEF Spec

-----------------------------------------------------------------------------
(* What the proofs below need of a state.                                  *)
Counted == AttemptBudget /\ ConsumedAlone /\ SessionsEarned

(* The verifications that wait for createToken can be counted. *)
LEMMA OpeningCount ==
  \A o \in Codes : IsFiniteSet(Opening(o)) /\ Cardinality(Opening(o)) \in Nat
<1> TAKE o \in Codes
<1>1. Opening(o) \subseteq Requests
  BY DEF Opening
<1>. QED
  BY <1>1, RequestsAssumption, FS_Subset, FS_CardinalityType

(* A stored code is one of the codes there can be. *)
LEMMA StoredInCodes ==
  ASSUME TypeOK, HoldsStoredCode, NEW r \in Requests,
         pc[r] \in {"publish", "compare", "update", "open"}
  PROVE  code[r] \in Codes
<1>1. code[r] \in 1..last /\ last \in 0..MaxCodes
  BY DEF TypeOK, HoldsStoredCode
<1>. QED
  BY <1>1, NumbersAssumption DEF Codes

(* A step that accepts no guess and opens no session, after which no code  *)
(* has more verifications in progress, keeps what was counted when every   *)
(* guess compared is still an attempt, an update to come or a lost one.    *)
LEMMA CountedKept ==
  ASSUME TypeOK, Counted,
         UNCHANGED <<attempts, consumed, sessions, accepted, overlap>>,
         \A o \in Codes : /\ Verifying(o)' \subseteq Verifying(o)
                         /\ Opening(o)' \subseteq Opening(o)
                         /\ guesses'[o] = attempts[o] + Cardinality(Updating(o)') + lost'[o]
  PROVE  Counted'
<1>1. \A o \in Codes :
        /\ Cardinality(Verifying(o)') <= Cardinality(Verifying(o))
        /\ Cardinality(Verifying(o)') \in Nat
        /\ Cardinality(Opening(o)') <= Cardinality(Opening(o))
        /\ Cardinality(Opening(o)') \in Nat
  BY VerifyingCount, OpeningCount, FS_Subset, FS_CardinalityType
<1>2. AttemptBudget'
  BY <1>1, VerifyingCount, LimitType, NumbersAssumption
     DEF Counted, AttemptBudget, TypeOK
<1>3. ConsumedAlone'
  BY DEF Counted, ConsumedAlone
<1>4. SessionsEarned'
  BY <1>1, OpeningCount DEF Counted, SessionsEarned, TypeOK
<1>. QED
  BY <1>2, <1>3, <1>4 DEF Counted

(* The steps that neither compare a guess nor lose one. *)
LEMMA QuietStep ==
  ASSUME TypeOK, Counted,
         \/ \E r \in Requests : \/ SigninStart(r) \/ StoreCode(r) \/ PublishCode(r)
                                \/ Fail(r) /\ pc[r] # "update"
         \/ Refresh \/ Tick \/ UNCHANGED vars
  PROVE  Counted'
<1>. USE DEF codeVars, reqVars, historyVars
<1>1. UNCHANGED <<attempts, consumed, sessions, guesses, accepted, overlap, lost>>
  BY DEF SigninStart, StoreCode, PublishCode, Fail, Refresh, Tick, vars
<1>. DEFINE NoneMoves ==
       \A q \in Requests :
         /\ pc'[q] \in {"compare", "update", "open"} => pc'[q] = pc[q] /\ code'[q] = code[q]
         /\ pc[q] = "update" => pc'[q] = "update"
<1>2. NoneMoves
  <2>1. ASSUME NEW r \in Requests, SigninStart(r)
        PROVE  NoneMoves
    BY <2>1 DEF SigninStart, GoTo, TypeOK
  <2>2. ASSUME NEW r \in Requests, StoreCode(r)
        PROVE  NoneMoves
    BY <2>2 DEF StoreCode, GoTo, TypeOK
  <2>3. ASSUME NEW r \in Requests, PublishCode(r)
        PROVE  NoneMoves
    BY <2>3 DEF PublishCode, EndRequest, GoTo, TypeOK
  <2>4. ASSUME NEW r \in Requests, Fail(r), pc[r] # "update"
        PROVE  NoneMoves
    BY <2>4 DEF Fail, EndRequest, GoTo, TypeOK
  <2>5. CASE Refresh \/ Tick \/ UNCHANGED vars
    BY <2>5 DEF Refresh, Tick, vars, TypeOK
  <2>. HIDE DEF NoneMoves
  <2>. QED
    BY <2>1, <2>2, <2>3, <2>4, <2>5
<1>3. \A o \in Codes : /\ Verifying(o)' \subseteq Verifying(o)
                      /\ Opening(o)' \subseteq Opening(o)
                      /\ Updating(o)' = Updating(o)
  BY <1>2 DEF Verifying, Opening, Updating
<1>4. \A o \in Codes : guesses'[o] = attempts[o] + Cardinality(Updating(o)') + lost'[o]
  BY <1>1, <1>3 DEF Counted, AttemptBudget
<1>. QED
  BY <1>1, <1>3, <1>4, CountedKept

(* A guess is compared: its update is to come. *)
LEMMA CompareStep ==
  ASSUME TypeOK, HoldsStoredCode, Counted, NEW r \in Requests, VerifyCompare(r)
  PROVE  Counted'
<1>0. PICK o \in Codes : o = code[r]
  BY StoredInCodes DEF VerifyCompare
<1>1. /\ o = code[r] /\ pc[r] = "compare"
      /\ guesses' = [guesses EXCEPT ![o] = @ + 1]
      /\ UNCHANGED <<attempts, consumed, sessions, accepted, overlap, lost>>
  BY <1>0 DEF VerifyCompare, codeVars
<1>2. pc' = [pc EXCEPT ![r] = "update"] /\ code' = code
  BY DEF VerifyCompare, GoTo
<1>3. \A p \in Codes : Verifying(p)' = Verifying(p) /\ Opening(p)' = Opening(p)
  BY <1>1, <1>2 DEF Verifying, Opening, TypeOK
<1>4. \A p \in Codes : p # o => Updating(p)' = Updating(p)
  BY <1>1, <1>2 DEF Updating, TypeOK
<1>5. Updating(o)' = Updating(o) \cup {r} /\ r \notin Updating(o)
  BY <1>1, <1>2 DEF Updating, TypeOK
<1>6. Cardinality(Updating(o)') = Cardinality(Updating(o)) + 1
  BY <1>1, <1>5, UpdatingCount, FS_AddElement
<1>7. \A p \in Codes : guesses'[p] = attempts[p] + Cardinality(Updating(p)') + lost'[p]
  BY <1>1, <1>4, <1>6, UpdatingCount DEF Counted, AttemptBudget, TypeOK
<1>. QED
  BY <1>1, <1>3, <1>7, CountedKept

(* The update after a compare fails: the guess is lost. *)
LEMMA LoseStep ==
  ASSUME TypeOK, HoldsStoredCode, Counted,
         NEW r \in Requests, Fail(r), pc[r] = "update"
  PROVE  Counted'
<1>0. PICK o \in Codes : o = code[r]
  BY StoredInCodes
<1>1. /\ o = code[r] /\ pc[r] = "update"
      /\ lost' = [lost EXCEPT ![o] = @ + 1]
      /\ UNCHANGED <<attempts, consumed, sessions, guesses, accepted, overlap>>
  BY <1>0 DEF Fail, codeVars
<1>2. /\ pc' = [pc EXCEPT ![r] = "idle"]
      /\ code' = [code EXCEPT ![r] = 0]
  BY DEF Fail, EndRequest, GoTo
<1>3. \A p \in Codes : /\ Verifying(p)' \subseteq Verifying(p)
                      /\ Opening(p)' \subseteq Opening(p)
  BY <1>2 DEF Verifying, Opening, TypeOK
<1>4. \A p \in Codes : p # o => Updating(p)' = Updating(p)
  BY <1>1, <1>2 DEF Updating, TypeOK
<1>5. Updating(o)' = Updating(o) \ {r} /\ r \in Updating(o)
  BY <1>1, <1>2 DEF Updating, TypeOK
<1>6. Cardinality(Updating(o)') = Cardinality(Updating(o)) - 1
  BY <1>1, <1>5, UpdatingCount, FS_RemoveElement
<1>7. \A p \in Codes : guesses'[p] = attempts[p] + Cardinality(Updating(p)') + lost'[p]
  BY <1>1, <1>4, <1>6, UpdatingCount DEF Counted, AttemptBudget, TypeOK
<1>. QED
  BY <1>1, <1>3, <1>7, CountedKept

(* The process exits: every update to come is lost. *)
LEMMA CrashStep ==
  ASSUME TypeOK, Counted, Crash
  PROVE  Counted'
<1>1. /\ UNCHANGED <<attempts, consumed, sessions, guesses, accepted, overlap>>
      /\ lost' = [o \in Codes |-> lost[o] + Cardinality(Updating(o))]
      /\ \A q \in Requests : pc'[q] = "idle"
  BY DEF Crash, codeVars
<1>2. \A o \in Codes : Verifying(o)' = {} /\ Opening(o)' = {} /\ Updating(o)' = {}
  BY <1>1 DEF Verifying, Opening, Updating
<1>3. \A o \in Codes : Cardinality(Updating(o)') = 0
  BY <1>2, FS_EmptySet
<1>4. \A o \in Codes : guesses'[o] = attempts[o] + Cardinality(Updating(o)') + lost'[o]
  BY <1>1, <1>3, UpdatingCount DEF Counted, AttemptBudget, TypeOK
<1>. QED
  BY <1>1, <1>2, <1>4, CountedKept

(* A verification reads a code with attempts left: one more guess to come. *)
LEMMA ReadStep ==
  ASSUME TypeOK, Counted,
         NEW r \in Requests, NEW o \in Codes, NEW g \in {"right", "wrong"},
         VerifyRead(r, o, g)
  PROVE  Counted'
<1>1. /\ UNCHANGED <<attempts, consumed, sessions, guesses, accepted, overlap, lost>>
      /\ o \notin consumed /\ attempts[o] <= MaxAttempts - 1
  BY NumbersAssumption DEF VerifyRead, IsCurrent, codeVars, historyVars, TypeOK
<1>2. /\ pc[r] = "idle"
      /\ pc' = [pc EXCEPT ![r] = "compare"]
      /\ code' = [code EXCEPT ![r] = o]
  BY DEF VerifyRead, GoTo
<1>3. \A p \in Codes : Opening(p)' = Opening(p) /\ Updating(p)' = Updating(p)
  BY <1>2 DEF Opening, Updating, TypeOK
<1>4. \A p \in Codes : p # o => Verifying(p)' = Verifying(p)
  BY <1>2 DEF Verifying, TypeOK
<1>5. /\ Cardinality(Verifying(o)') <= Cardinality(Requests)
      /\ Cardinality(Verifying(o)') \in Nat
  <2>1. Verifying(o)' \subseteq Requests
    BY DEF Verifying
  <2>. QED
    BY <2>1, RequestsAssumption, FS_Subset, FS_CardinalityType
<1>6. AttemptBudget'
  BY <1>1, <1>3, <1>4, <1>5, LimitType, NumbersAssumption
     DEF Counted, AttemptBudget, TypeOK
<1>7. ConsumedAlone'
  BY <1>1, <1>4 DEF Counted, ConsumedAlone
<1>8. SessionsEarned'
  BY <1>1, <1>3 DEF Counted, SessionsEarned
<1>. QED
  BY <1>6, <1>7, <1>8 DEF Counted

(* A session is opened by a verification that was right. *)
LEMMA OpenStep ==
  ASSUME TypeOK, HoldsStoredCode, Counted, NEW r \in Requests, OpenSession(r)
  PROVE  Counted'
<1>0. PICK o \in Codes : o = code[r]
  BY StoredInCodes DEF OpenSession
<1>1. /\ o = code[r] /\ pc[r] = "open"
      /\ UNCHANGED <<attempts, consumed, guesses, accepted, overlap, lost>>
      /\ sessions' = [sessions EXCEPT ![o] = @ + 1]
  BY <1>0 DEF OpenSession, codeVars, historyVars
<1>2. /\ pc' = [pc EXCEPT ![r] = "idle"]
      /\ code' = [code EXCEPT ![r] = 0]
  BY DEF OpenSession, EndRequest, GoTo
<1>3. \A p \in Codes : Verifying(p)' = Verifying(p) /\ Updating(p)' = Updating(p)
  BY <1>1, <1>2 DEF Verifying, Updating, TypeOK
<1>4. \A p \in Codes : p # o => Opening(p)' = Opening(p)
  BY <1>1, <1>2 DEF Opening, TypeOK
<1>5. Opening(o)' = Opening(o) \ {r} /\ r \in Opening(o)
  BY <1>1, <1>2 DEF Opening, TypeOK
<1>6. Cardinality(Opening(o)') = Cardinality(Opening(o)) - 1
  BY <1>1, <1>5, OpeningCount, FS_RemoveElement
<1>7. AttemptBudget' /\ ConsumedAlone'
  BY <1>1, <1>3 DEF Counted, AttemptBudget, ConsumedAlone
<1>8. SessionsEarned'
  BY <1>1, <1>4, <1>6, OpeningCount DEF Counted, SessionsEarned, TypeOK
<1>. QED
  BY <1>7, <1>8 DEF Counted

(* The update counts the guess as an attempt, and as a session to come     *)
(* when it was right.                                                      *)
LEMMA UpdateStep ==
  ASSUME TypeOK, HoldsStoredCode, Counted,
         NEW r \in Requests, VerifyUpdate(r)
  PROVE  Counted'
<1>0. PICK o \in Codes : o = code[r]
  BY StoredInCodes DEF VerifyUpdate
<1>1. /\ o = code[r] /\ pc[r] = "update"
      /\ attempts' = [attempts EXCEPT ![o] = @ + 1]
      /\ UNCHANGED <<sessions, guesses, lost>>
  BY <1>0 DEF VerifyUpdate, CountAttempt
<1>2. /\ pc' = [pc EXCEPT ![r] = IF guess[r] = "right" THEN "open" ELSE "idle"]
      /\ \A q \in Requests : q # r => code'[q] = code[q]
      /\ guess[r] = "right" => code'[r] = o
  BY <1>1 DEF VerifyUpdate, Answer, EndRequest, GoTo, TypeOK
<1>3. \A p \in Codes : p # o => /\ Verifying(p)' = Verifying(p)
                               /\ Updating(p)' = Updating(p)
                               /\ Opening(p)' = Opening(p)
  BY <1>1, <1>2 DEF Verifying, Updating, Opening, TypeOK
<1>4. /\ Verifying(o)' = Verifying(o) \ {r} /\ r \in Verifying(o)
      /\ Updating(o)' = Updating(o) \ {r} /\ r \in Updating(o)
  BY <1>1, <1>2 DEF Verifying, Updating, TypeOK
<1>5. /\ Cardinality(Verifying(o)') = Cardinality(Verifying(o)) - 1
      /\ Cardinality(Updating(o)') = Cardinality(Updating(o)) - 1
  BY <1>1, <1>4, VerifyingCount, UpdatingCount, FS_RemoveElement
<1>6. AttemptBudget'
  BY <1>1, <1>3, <1>5, VerifyingCount, UpdatingCount, LimitType, NumbersAssumption
     DEF Counted, AttemptBudget, TypeOK
<1>7. CASE guess[r] = "right"
  <2>1. /\ consumed' = consumed \cup {o}
        /\ accepted' = [accepted EXCEPT ![o] = @ + 1]
        /\ overlap' = IF accepted[o] = 0
                      THEN [overlap EXCEPT ![o] = Cardinality(Verifying(o))]
                      ELSE overlap
    BY <1>1, <1>7 DEF VerifyUpdate, CountAccepted
  <2>2. Opening(o)' = Opening(o) \cup {r} /\ r \notin Opening(o)
    BY <1>1, <1>2, <1>7 DEF Opening, TypeOK
  <2>3. Cardinality(Opening(o)') = Cardinality(Opening(o)) + 1
    BY <1>1, <2>2, OpeningCount, FS_AddElement
  <2>4. SessionsEarned'
    BY <1>1, <1>3, <2>1, <2>3, OpeningCount DEF Counted, SessionsEarned, TypeOK
  <2>5. ASSUME NEW p \in Codes, p # o
        PROVE  /\ accepted'[p] = 0 => overlap'[p] = 0
               /\ overlap'[p] = 1 => p \in consumed' /\ Verifying(p)' = {} /\ accepted'[p] = 1
    BY <1>3, <2>1, <2>5 DEF Counted, ConsumedAlone, TypeOK
  <2>6. /\ accepted'[o] = 0 => overlap'[o] = 0
        /\ overlap'[o] = 1 => o \in consumed' /\ Verifying(o)' = {} /\ accepted'[o] = 1
    <3>1. CASE accepted[o] = 0
      <4>1. overlap'[o] = Cardinality(Verifying(o)) /\ accepted'[o] = 1
        BY <2>1, <3>1 DEF TypeOK
      <4>2. Cardinality(Verifying(o)') = 0 => Verifying(o)' = {}
        BY <1>4, VerifyingCount, FS_Subset, FS_EmptySet
      <4>. QED
        BY <1>5, <2>1, <4>1, <4>2, VerifyingCount
    <3>2. CASE accepted[o] # 0
      <4>1. overlap'[o] = overlap[o] /\ overlap[o] # 1
        BY <1>4, <2>1, <3>2 DEF Counted, ConsumedAlone
      <4>. QED
        BY <2>1, <4>1 DEF TypeOK
    <3>. QED
      BY <3>1, <3>2
  <2>. QED
    BY <1>6, <2>4, <2>5, <2>6 DEF Counted, ConsumedAlone
<1>8. CASE guess[r] # "right"
  <2>1. /\ consumed' = consumed \ {o}
        /\ UNCHANGED <<accepted, overlap>>
    BY <1>1, <1>8 DEF VerifyUpdate, CountAccepted
  <2>2. Opening(o)' = Opening(o)
    BY <1>1, <1>2, <1>8 DEF Opening, TypeOK
  <2>3. SessionsEarned'
    BY <1>1, <1>3, <2>1, <2>2 DEF Counted, SessionsEarned, TypeOK
  <2>4. overlap[o] # 1
    BY <1>4 DEF Counted, ConsumedAlone
  <2>5. ConsumedAlone'
    BY <1>3, <2>1, <2>4 DEF Counted, ConsumedAlone
  <2>. QED
    BY <1>6, <2>3, <2>5 DEF Counted
<1>. QED
  BY <1>7, <1>8

(* Every step keeps what was counted. *)
LEMMA CountedStep ==
  ASSUME TypeOK, HoldsStoredCode, Counted, [Next]_vars
  PROVE  Counted'
<1>1. ASSUME NEW r \in Requests, Fail(r)
      PROVE  Counted'
  BY <1>1, LoseStep, QuietStep
<1>. QED
  BY <1>1, QuietStep, ReadStep, CompareStep, OpenStep, UpdateStep, CrashStep DEF Next

(* The counts of the history are right at the start. *)
LEMMA CountedInit == Init => Counted
<1>. SUFFICES ASSUME Init PROVE Counted
  OBVIOUS
<1>1. \A o \in Codes : Verifying(o) = {} /\ Updating(o) = {} /\ Opening(o) = {}
  BY DEF Init, Verifying, Updating, Opening
<1>2. \A o \in Codes : /\ Cardinality(Verifying(o)) = 0
                      /\ Cardinality(Updating(o)) = 0
                      /\ Cardinality(Opening(o)) = 0
  BY <1>1, FS_EmptySet
<1>. QED
  BY <1>2, LimitType, NumbersAssumption
     DEF Init, Zero, Counted, AttemptBudget, ConsumedAlone, SessionsEarned

(* However many verifications overlap, no more guesses are compared with a *)
(* code than its limit plus the other requests that can be in progress,    *)
(* plus those whose update failed after the compare.                       *)
THEOREM GuessesBounded == Spec => []GuessBound
<1>1. TypeOK /\ HoldsStoredCode /\ Counted /\ [Next]_vars
      => TypeOK' /\ HoldsStoredCode' /\ Counted'
  BY TypeStep, CountedStep
<1>2. TypeOK /\ Counted => GuessBound
  BY VerifyingCount, UpdatingCount, LimitType, NumbersAssumption
     DEF Counted, AttemptBudget, GuessBound, TypeOK
<1>. QED
  BY <1>1, <1>2, TypeInit, CountedInit, PTL DEF Spec

(* A code whose first right guess was alone stays consumed and opens at    *)
(* most one session.                                                       *)
THEOREM CodesOpenOneSession == Spec => []OneSessionPerCode
<1>1. TypeOK /\ HoldsStoredCode /\ Counted /\ [Next]_vars
      => TypeOK' /\ HoldsStoredCode' /\ Counted'
  BY TypeStep, CountedStep
<1>2. TypeOK /\ Counted => OneSessionPerCode
  BY OpeningCount
     DEF Counted, ConsumedAlone, SessionsEarned, OneSessionPerCode, TypeOK
<1>. QED
  BY <1>1, <1>2, TypeInit, CountedInit, PTL DEF Spec

(* Every session that is open or about to be was earned by a right guess   *)
(* of its own, whatever fails between the update and createToken.          *)
THEOREM SessionsAreEarned == Spec => []SessionsEarned
<1>1. TypeOK /\ HoldsStoredCode /\ Counted /\ [Next]_vars
      => TypeOK' /\ HoldsStoredCode' /\ Counted'
  BY TypeStep, CountedStep
<1>2. Counted => SessionsEarned
  BY DEF Counted
<1>. QED
  BY <1>1, <1>2, TypeInit, CountedInit, PTL DEF Spec

(* A session was opened with a code that is stored. *)
StoredSessions == \A o \in Codes : sessions[o] > 0 => o \in 1..last

(* Sessions are opened with stored codes only, and codes stay stored. *)
LEMMA StoredSessionsStep ==
  ASSUME TypeOK, HoldsStoredCode, StoredSessions, [Next]_vars
  PROVE  StoredSessions'
<1>1. ASSUME NEW r \in Requests, OpenSession(r)
      PROVE  StoredSessions'
  <2>1. /\ code[r] \in 1..last /\ last' = last
        /\ sessions' = [sessions EXCEPT ![code[r]] = @ + 1]
    BY <1>1 DEF OpenSession, codeVars, HoldsStoredCode
  <2>. QED
    BY <2>1 DEF StoredSessions, TypeOK
<1>2. CASE sessions' = sessions /\ last' = last
  BY <1>2 DEF StoredSessions
<1>3. CASE sessions' = sessions /\ last' = last + 1
  BY <1>3 DEF StoredSessions, TypeOK, Codes
<1>4. \/ \E r \in Requests : OpenSession(r)
      \/ sessions' = sessions /\ last' \in {last, last + 1}
  BY DEF Next, vars, codeVars, SigninStart, StoreCode, PublishCode, VerifyRead,
         VerifyCompare, VerifyUpdate, Refresh, Fail, Crash, Tick
<1>. QED
  BY <1>1, <1>2, <1>3, <1>4

(* A mail never carries a code that is not stored, and nobody has a token  *)
(* of the user before one is.                                              *)
THEOREM MailsAreStored == Spec => []MailedIsStored
<1>1. Init => MailedIsStored /\ StoredSessions
  BY DEF Init, Zero, MailedIsStored, StoredSessions
<1>2. TypeOK /\ HoldsStoredCode /\ StoredSessions /\ MailedIsStored /\ [Next]_vars
      => MailedIsStored'
  <2>. SUFFICES ASSUME TypeOK, HoldsStoredCode, StoredSessions, MailedIsStored,
                       [Next]_vars
                PROVE  MailedIsStored'
    OBVIOUS
  <2>. USE NumbersAssumption DEF codeVars
  <2>1. ASSUME NEW r \in Requests, StoreCode(r)
        PROVE  MailedIsStored'
    BY <2>1 DEF StoreCode, MailedIsStored, TypeOK, Codes
  <2>2. ASSUME NEW r \in Requests, PublishCode(r)
        PROVE  MailedIsStored'
    <3>1. code[r] \in 1..last
      BY <2>2 DEF PublishCode, HoldsStoredCode
    <3>2. published' = published \cup {code[r]} /\ last' = last
      BY <2>2 DEF PublishCode
    <3>3. last > 0
      BY <3>1 DEF TypeOK, Codes
    <3>. QED
      BY <3>1, <3>2, <3>3 DEF MailedIsStored
  <2>3. ASSUME NEW r \in Requests, OpenSession(r)
        PROVE  MailedIsStored'
    <3>1. code[r] \in 1..last /\ UNCHANGED <<published, last>>
      BY <2>3 DEF OpenSession, HoldsStoredCode
    <3>. QED
      BY <3>1 DEF MailedIsStored, TypeOK
  <2>4. CASE Refresh
    <3>1. UNCHANGED <<published, last>> /\ \E o \in Codes : sessions[o] > 0
      BY <2>4 DEF Refresh
    <3>. QED
      BY <3>1 DEF StoredSessions, MailedIsStored, TypeOK, Codes
  <2>5. CASE UNCHANGED <<published, tokenUntil, last>>
    BY <2>5 DEF MailedIsStored
  <2>6. \/ \E r \in Requests : StoreCode(r) \/ PublishCode(r) \/ OpenSession(r)
        \/ Refresh
        \/ UNCHANGED <<published, tokenUntil, last>>
    BY DEF Next, vars, SigninStart, VerifyRead, VerifyCompare, VerifyUpdate,
           Fail, Crash, Tick
  <2>. QED
    BY <2>1, <2>2, <2>3, <2>4, <2>5, <2>6
<1>. QED
  BY <1>1, <1>2, StoredSessionsStep, TypeStep, TypeInit, PTL DEF Spec

=============================================================================
