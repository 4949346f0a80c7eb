------------------------- MODULE RefreshTokensProof -------------------------
(* Proofs about RefreshTokens, for any number of requests and tokens and   *)
(* any lifetimes.                                                          *)
EXTENDS RefreshTokens, FiniteSetTheorems, TLAPS

(* The rotations of a token in progress can be counted. *)
LEMMA InFlightCount ==
  \A t \in Tokens : IsFiniteSet(InFlight(t)) /\ Cardinality(InFlight(t)) \in Nat
<1> TAKE t \in Tokens
<1>1. IsFiniteSet(InFlight(t))
  BY RequestsAssumption, FS_Subset DEF InFlight
<1>. QED
  BY <1>1, FS_CardinalityType

(* Types, and what a transaction read when it began: its row exists and    *)
(* had not expired.  A commit revokes that row, so neither fact is         *)
(* preserved without the other.                                            *)
LEMMA TypeStep ==
  ASSUME TypeOK, ReadWasUsable, [Next]_vars
  PROVE  TypeOK' /\ ReadWasUsable'
<1>. USE DEF TypeOK, ReadWasUsable, historyVars, rowVars, txVars
<1>1. ASSUME NEW n \in Tokens, CreateToken(n)
      PROVE  TypeOK' /\ ReadWasUsable'
  BY <1>1, TimesAssumption DEF CreateToken
<1>2. ASSUME NEW r \in Requests, NEW t \in Tokens, RotateRead(r, t)
      PROVE  TypeOK' /\ ReadWasUsable'
  BY <1>2 DEF RotateRead, BeginRotate
<1>3. ASSUME NEW r \in Requests, RotateUpdate(r)
      PROVE  TypeOK' /\ ReadWasUsable'
  BY <1>3 DEF RotateUpdate
<1>4. ASSUME NEW r \in Requests, NEW n \in Tokens, RotateCommit(r, n)
      PROVE  TypeOK' /\ ReadWasUsable'
  BY <1>4, InFlightCount, TimesAssumption
     DEF RotateCommit, MarkRevoked, EndRequest
<1>5. ASSUME NEW r \in Requests, RotateAbort(r)
      PROVE  TypeOK' /\ ReadWasUsable'
  BY <1>5 DEF RotateAbort, EndRequest
<1>6. ASSUME NEW t \in Tokens, Revoke(t)
      PROVE  TypeOK' /\ ReadWasUsable'
  BY <1>6, InFlightCount DEF Revoke, MarkRevoked
<1>7. CASE Crash
  BY <1>7 DEF Crash
<1>8. CASE Tick
  BY <1>8 DEF Tick
<1>9. CASE UNCHANGED vars
  BY <1>9 DEF vars
<1>. QED
  BY <1>1, <1>2, <1>3, <1>4, <1>5, <1>6, <1>7, <1>8, <1>9 DEF Next

(* Every step of the service keeps every variable in its type. *)
THEOREM TypeCorrect == Spec => []TypeOK
<1>1. Init => TypeOK /\ ReadWasUsable
  BY DEF Init, TypeOK, ReadWasUsable
<1>2. TypeOK /\ ReadWasUsable /\ [Next]_vars => TypeOK' /\ ReadWasUsable'
  BY TypeStep
<1>. QED
  BY <1>1, <1>2, PTL DEF Spec

-----------------------------------------------------------------------------
(* Which rows are successors, and of what: a parent is written only by a   *)
(* commit, which revokes it in the same step.                              *)
LEMMA ParentStep ==
  ASSUME TypeOK, ReadWasUsable, ParentsOfIssued, RotationIsAtomic, [Next]_vars
  PROVE  ParentsOfIssued' /\ RotationIsAtomic'
<1>. USE DEF TypeOK, ParentsOfIssued, RotationIsAtomic, Children,
             historyVars, rowVars, txVars
<1>1. ASSUME NEW n \in Tokens, CreateToken(n)
      PROVE  ParentsOfIssued' /\ RotationIsAtomic'
  BY <1>1 DEF CreateToken
<1>2. ASSUME NEW r \in Requests, NEW t \in Tokens, RotateRead(r, t)
      PROVE  ParentsOfIssued' /\ RotationIsAtomic'
  BY <1>2 DEF RotateRead, BeginRotate
<1>3. ASSUME NEW r \in Requests, RotateUpdate(r)
      PROVE  ParentsOfIssued' /\ RotationIsAtomic'
  BY <1>3 DEF RotateUpdate
<1>4. ASSUME NEW r \in Requests, NEW n \in Tokens, RotateCommit(r, n)
      PROVE  ParentsOfIssued' /\ RotationIsAtomic'
  <2>1. tok[r] \in issued
    BY <1>4 DEF RotateCommit, ReadWasUsable
  <2>2. /\ issued' = issued \cup {n}
        /\ n \in Tokens \ issued
        /\ revoked' = revoked \cup {tok[r]}
        /\ parent' = [parent EXCEPT ![n] = tok[r]]
        /\ signedOut' = signedOut
    BY <1>4 DEF RotateCommit, MarkRevoked
  <2>3. \A m \in issued : parent'[m] = parent[m]
    BY <2>2
  <2>. QED
    BY <2>1, <2>2, <2>3
<1>5. ASSUME NEW r \in Requests, RotateAbort(r)
      PROVE  ParentsOfIssued' /\ RotationIsAtomic'
  BY <1>5 DEF RotateAbort
<1>6. ASSUME NEW t \in Tokens, Revoke(t)
      PROVE  ParentsOfIssued' /\ RotationIsAtomic'
  BY <1>6 DEF Revoke, MarkRevoked
<1>7. CASE Crash
  BY <1>7 DEF Crash
<1>8. CASE Tick
  BY <1>8 DEF Tick
<1>9. CASE UNCHANGED vars
  BY <1>9 DEF vars
<1>. QED
  BY <1>1, <1>2, <1>3, <1>4, <1>5, <1>6, <1>7, <1>8, <1>9 DEF Next

(* Rotation is all or nothing: no failure, crash or race leaves a token    *)
(* revoked without a successor or a sign-out, or a successor whose parent  *)
(* is still usable.                                                        *)
THEOREM RotationAtomic == Spec => []RotationIsAtomic
<1>1. Init => TypeOK /\ ReadWasUsable /\ ParentsOfIssued /\ RotationIsAtomic
  BY DEF Init, TypeOK, ReadWasUsable, ParentsOfIssued, RotationIsAtomic
<1>2. /\ TypeOK /\ ReadWasUsable /\ ParentsOfIssued /\ RotationIsAtomic
      /\ [Next]_vars
      => TypeOK' /\ ReadWasUsable' /\ ParentsOfIssued' /\ RotationIsAtomic'
  BY TypeStep, ParentStep
<1>. QED
  BY <1>1, <1>2, PTL DEF Spec

-----------------------------------------------------------------------------
(* A commit happens within the transaction's time, which began before the  *)
(* parent's end; expires_at of a stored row never changes.                 *)
LEMMA LifetimeStep ==
  ASSUME TypeOK, ReadWasUsable, ParentsOfIssued, RotationIsAtomic,
         SessionLifetime, [Next]_vars
  PROVE  SessionLifetime'
<1>. USE DEF TypeOK, SessionLifetime, historyVars, rowVars, txVars
<1>1. ASSUME NEW n \in Tokens, CreateToken(n)
      PROVE  SessionLifetime'
  <2>1. \A m \in issued : parent[m] # NoToken => parent[m] \in issued
    BY DEF RotationIsAtomic
  <2>. QED
    BY <1>1, <2>1 DEF CreateToken, ParentsOfIssued
<1>2. ASSUME NEW r \in Requests, NEW t \in Tokens, RotateRead(r, t)
      PROVE  SessionLifetime'
  BY <1>2 DEF RotateRead, BeginRotate
<1>3. ASSUME NEW r \in Requests, RotateUpdate(r)
      PROVE  SessionLifetime'
  BY <1>3 DEF RotateUpdate
<1>4. ASSUME NEW r \in Requests, NEW n \in Tokens, RotateCommit(r, n)
      PROVE  SessionLifetime'
  <2>1. tok[r] \in issued /\ began[r] <= expires[tok[r]]
    BY <1>4 DEF RotateCommit, ReadWasUsable
  <2>2. /\ issued' = issued \cup {n}
        /\ n \in Tokens \ issued
        /\ expires' = [expires EXCEPT ![n] = clock + Lifetime]
        /\ parent' = [parent EXCEPT ![n] = tok[r]]
        /\ clock <= began[r] + TxTimeout
    BY <1>4 DEF RotateCommit, InTime
  <2>3. SUFFICES ASSUME NEW m \in issued', parent'[m] # NoToken
                 PROVE  expires'[m] <= expires'[parent'[m]] + TxTimeout + Lifetime
    BY DEF SessionLifetime
  <2>4. CASE m = n
    <3>1. parent'[m] = tok[r] /\ expires'[tok[r]] = expires[tok[r]]
      BY <2>1, <2>2, <2>4
    <3>2. expires'[m] = clock + Lifetime
      BY <2>2, <2>4
    <3>. QED
      BY <2>1, <2>2, <3>1, <3>2, TimesAssumption
  <2>5. CASE m # n
    <3>1. m \in issued /\ parent'[m] = parent[m] /\ expires'[m] = expires[m]
      BY <2>2, <2>5
    <3>2. parent[m] \in issued
      BY <2>3, <3>1 DEF RotationIsAtomic
    <3>. QED
      BY <2>2, <2>3, <3>1, <3>2
  <2>. QED
    BY <2>4, <2>5
<1>5. ASSUME NEW r \in Requests, RotateAbort(r)
      PROVE  SessionLifetime'
  BY <1>5 DEF RotateAbort
<1>6. ASSUME NEW t \in Tokens, Revoke(t)
      PROVE  SessionLifetime'
  BY <1>6 DEF Revoke
<1>7. CASE Crash
  BY <1>7 DEF Crash
<1>8. CASE Tick
  BY <1>8 DEF Tick
<1>9. CASE UNCHANGED vars
  BY <1>9 DEF vars
<1>. QED
  BY <1>1, <1>2, <1>3, <1>4, <1>5, <1>6, <1>7, <1>8, <1>9 DEF Next

(* A successor ends at most one transaction and one lifetime after its     *)
(* parent: a token that ran out never prolongs a session.                  *)
THEOREM LifetimeBounded == Spec => []SessionLifetime
<1>1. Init => /\ TypeOK /\ ReadWasUsable /\ ParentsOfIssued
              /\ RotationIsAtomic /\ SessionLifetime
  BY DEF Init, TypeOK, ReadWasUsable, ParentsOfIssued, RotationIsAtomic,
         SessionLifetime
<1>2. /\ TypeOK /\ ReadWasUsable /\ ParentsOfIssued /\ RotationIsAtomic
      /\ SessionLifetime /\ [Next]_vars
      => /\ TypeOK' /\ ReadWasUsable' /\ ParentsOfIssued'
         /\ RotationIsAtomic' /\ SessionLifetime'
  BY TypeStep, ParentStep, LifetimeStep
<1>. QED
  BY <1>1, <1>2, PTL DEF Spec

-----------------------------------------------------------------------------
(* A token that is still usable has no successors. *)
LEMMA UsableHasNoChildren ==
  ASSUME TypeOK, RotationIsAtomic
  PROVE  \A t \in Tokens : t \notin revoked => Children(t) = {}
BY TokensAssumption DEF TypeOK, RotationIsAtomic, Children

(* A token's successors can be counted. *)
LEMMA ChildrenCount ==
  ASSUME TypeOK, NEW t \in Tokens
  PROVE  IsFiniteSet(Children(t)) /\ Cardinality(Children(t)) \in Nat
<1>1. IsFiniteSet(Children(t))
  BY TokensAssumption, FS_Subset DEF Children, TypeOK
<1>. QED
  BY <1>1, FS_CardinalityType

(* A step after which no token has more successors or more rotations in    *)
(* progress keeps the budget of every token that was already revoked.      *)
LEMMA BudgetKept ==
  ASSUME TypeOK, SuccessorBudget, NEW t \in revoked,
         Children(t)' = Children(t), InFlight(t)' \subseteq InFlight(t),
         overlap'[t] = overlap[t]
  PROVE  Cardinality(Children(t)') + Cardinality(InFlight(t)') <= overlap'[t]
<1>1. t \in Tokens
  BY DEF TypeOK
<1>2. /\ Cardinality(InFlight(t)') <= Cardinality(InFlight(t))
      /\ Cardinality(InFlight(t)') \in Nat
  BY <1>1, InFlightCount, FS_Subset, FS_CardinalityType
<1>3. Cardinality(Children(t)) + Cardinality(InFlight(t)) <= overlap[t]
  BY DEF SuccessorBudget
<1>. QED
  BY <1>1, <1>2, <1>3, InFlightCount, ChildrenCount DEF TypeOK

(* A commit turns one rotation in progress into one successor. *)
LEMMA BudgetCommit ==
  ASSUME TypeOK, ReadWasUsable, ParentsOfIssued, RotationIsAtomic,
         SuccessorBudget,
         NEW r \in Requests, NEW n \in Tokens, RotateCommit(r, n)
  PROVE  SuccessorBudget'
<1>1. tok[r] \in issued /\ tok[r] \in Tokens
  BY DEF RotateCommit, ReadWasUsable, TypeOK
<1>2. /\ issued' = issued \cup {n}
      /\ n \in Tokens \ issued
      /\ revoked' = revoked \cup {tok[r]}
      /\ parent' = [parent EXCEPT ![n] = tok[r]]
      /\ pc[r] = "create"
      /\ pc' = [pc EXCEPT ![r] = "idle"]
      /\ tok' = [tok EXCEPT ![r] = NoToken]
      /\ overlap' = IF tok[r] \in revoked THEN overlap
                    ELSE [overlap EXCEPT ![tok[r]] = Cardinality(InFlight(tok[r]))]
  BY DEF RotateCommit, MarkRevoked, EndRequest
<1>3. SUFFICES ASSUME NEW t \in revoked'
               PROVE  Cardinality(Children(t)') + Cardinality(InFlight(t)') <= overlap'[t]
  BY DEF SuccessorBudget
<1>4. CASE t # tok[r]
  <2>1. t \in revoked /\ overlap'[t] = overlap[t]
    BY <1>2, <1>4 DEF TypeOK
  <2>2. Children(t)' = Children(t)
    BY <1>2, <1>4 DEF Children, TypeOK
  <2>3. InFlight(t)' = InFlight(t)
    BY <1>2, <1>4, <2>1, TokensAssumption DEF InFlight, TypeOK
  <2>. QED
    BY <2>1, <2>2, <2>3, BudgetKept
<1>5. CASE t = tok[r]
  <2>1. /\ Children(t)' = Children(t) \cup {n}
        /\ n \notin Children(t)
    BY <1>2, <1>5 DEF Children, TypeOK
  <2>2. /\ InFlight(t)' = InFlight(t) \ {r}
        /\ r \in InFlight(t)
    BY <1>1, <1>2, <1>5, TokensAssumption DEF InFlight, TypeOK
  <2>3. /\ IsFiniteSet(Children(t)) /\ Cardinality(Children(t)) \in Nat
        /\ IsFiniteSet(InFlight(t)) /\ Cardinality(InFlight(t)) \in Nat
    BY <1>1, <1>5, ChildrenCount, InFlightCount
  <2>4. Cardinality(Children(t)') = Cardinality(Children(t)) + 1
    BY <2>1, <2>3, FS_AddElement
  <2>5. Cardinality(InFlight(t)') = Cardinality(InFlight(t)) - 1
    BY <2>2, <2>3, FS_RemoveElement
  <2>6. CASE t \in revoked
    <3>1. Cardinality(Children(t)) + Cardinality(InFlight(t)) <= overlap[t]
      BY <2>6 DEF SuccessorBudget
    <3>2. overlap'[t] = overlap[t] /\ overlap[t] \in Nat
      BY <1>1, <1>2, <1>5, <2>6 DEF TypeOK
    <3>. QED
      BY <2>3, <2>4, <2>5, <3>1, <3>2
  <2>7. CASE t \notin revoked
    <3>1. Cardinality(Children(t)) = 0
      BY <1>1, <1>5, <2>7, UsableHasNoChildren, FS_EmptySet
    <3>2. overlap'[t] = Cardinality(InFlight(t))
      BY <1>1, <1>2, <1>5, <2>7 DEF TypeOK
    <3>. QED
      BY <2>3, <2>4, <2>5, <3>1, <3>2
  <2>. QED
    BY <2>6, <2>7
<1>. QED
  BY <1>4, <1>5

(* Every step keeps the budget. *)
LEMMA BudgetStep ==
  ASSUME TypeOK, ReadWasUsable, ParentsOfIssued, RotationIsAtomic,
         SuccessorBudget, [Next]_vars
  PROVE  SuccessorBudget'
<1>1. ASSUME revoked' = revoked, overlap' = overlap,
             \A t \in revoked : /\ Children(t)' = Children(t)
                                /\ InFlight(t)' \subseteq InFlight(t)
      PROVE  SuccessorBudget'
  BY <1>1, BudgetKept DEF SuccessorBudget
<1>2. ASSUME NEW n \in Tokens, CreateToken(n)
      PROVE  SuccessorBudget'
  <2>1. \A t \in revoked : /\ Children(t)' = Children(t)
                           /\ InFlight(t)' \subseteq InFlight(t)
    BY <1>2, TokensAssumption
       DEF CreateToken, Children, InFlight, TypeOK, ParentsOfIssued,
           txVars, historyVars
  <2>. QED
    BY <1>1, <1>2, <2>1 DEF CreateToken, historyVars
<1>3. ASSUME NEW r \in Requests, NEW s \in Tokens, RotateRead(r, s)
      PROVE  SuccessorBudget'
  <2>1. \A t \in revoked : /\ Children(t)' = Children(t)
                           /\ InFlight(t)' \subseteq InFlight(t)
    BY <1>3 DEF RotateRead, BeginRotate, Children, InFlight, TypeOK, rowVars, historyVars
  <2>. QED
    BY <1>1, <1>3, <2>1 DEF RotateRead, BeginRotate, rowVars, historyVars
<1>4. ASSUME NEW r \in Requests, RotateUpdate(r)
      PROVE  SuccessorBudget'
  <2>1. \A t \in revoked : /\ Children(t)' = Children(t)
                           /\ InFlight(t)' \subseteq InFlight(t)
    BY <1>4 DEF RotateUpdate, Children, InFlight, TypeOK, rowVars, historyVars
  <2>. QED
    BY <1>1, <1>4, <2>1 DEF RotateUpdate, rowVars, historyVars
<1>5. ASSUME NEW r \in Requests, NEW n \in Tokens, RotateCommit(r, n)
      PROVE  SuccessorBudget'
  BY <1>5, BudgetCommit
<1>6. ASSUME NEW r \in Requests, RotateAbort(r)
      PROVE  SuccessorBudget'
  <2>1. \A t \in revoked : /\ Children(t)' = Children(t)
                           /\ InFlight(t)' \subseteq InFlight(t)
    BY <1>6, TokensAssumption
       DEF RotateAbort, EndRequest, Children, InFlight, TypeOK, rowVars, historyVars
  <2>. QED
    BY <1>1, <1>6, <2>1 DEF RotateAbort, rowVars, historyVars
<1>7. ASSUME NEW s \in Tokens, Revoke(s)
      PROVE  SuccessorBudget'
  <2>1. \A t \in Tokens : /\ Children(t)' = Children(t)
                          /\ InFlight(t)' = InFlight(t)
    BY <1>7 DEF Revoke, Children, InFlight, txVars
  <2>2. SUFFICES ASSUME NEW t \in revoked'
                 PROVE  Cardinality(Children(t)') + Cardinality(InFlight(t)') <= overlap'[t]
    BY DEF SuccessorBudget
  <2>3. CASE t \in revoked
    <3>1. overlap'[t] = overlap[t]
      BY <1>7, <2>3 DEF Revoke, MarkRevoked, TypeOK
    <3>2. t \in Tokens
      BY <2>3 DEF TypeOK
    <3>. QED
      BY <2>1, <2>3, <3>1, <3>2, BudgetKept
  <2>4. CASE t \notin revoked
    <3>1. t = s /\ overlap'[t] = Cardinality(InFlight(t))
      BY <1>7, <2>2, <2>4 DEF Revoke, MarkRevoked, TypeOK
    <3>2. Cardinality(Children(t)) = 0
      BY <2>4, <3>1, UsableHasNoChildren, FS_EmptySet
    <3>. QED
      BY <2>1, <3>1, <3>2, InFlightCount
  <2>. QED
    BY <2>3, <2>4
<1>8. CASE Crash
  <2>1. \A t \in revoked : /\ Children(t)' = Children(t)
                           /\ InFlight(t)' \subseteq InFlight(t)
    BY <1>8 DEF Crash, Children, InFlight, TypeOK, rowVars, historyVars
  <2>. QED
    BY <1>1, <1>8, <2>1 DEF Crash, rowVars, historyVars
<1>9. CASE Tick \/ UNCHANGED vars
  <2>1. \A t \in revoked : /\ Children(t)' = Children(t)
                           /\ InFlight(t)' \subseteq InFlight(t)
    BY <1>9 DEF Tick, Children, InFlight, vars, txVars, rowVars, historyVars
  <2>. QED
    BY <1>1, <1>9, <2>1 DEF Tick, vars, rowVars, historyVars
<1>. QED
  BY <1>2, <1>3, <1>4, <1>5, <1>6, <1>7, <1>8, <1>9 DEF Next

(* A refresh token is exchanged at most once for every rotation of it that *)
(* was in progress when it was first revoked: rotated alone it is used     *)
(* once, signed out alone it is never used again.                          *)
THEOREM SuccessorsBounded == Spec => []SuccessorBound
<1>. DEFINE Inv == /\ TypeOK /\ IndInv /\ RotationIsAtomic
<1>1. Init => Inv
  BY DEF Init, TypeOK, IndInv, ReadWasUsable, ParentsOfIssued,
         RotationIsAtomic, SuccessorBudget
<1>2. Inv /\ [Next]_vars => Inv'
  BY TypeStep, ParentStep, BudgetStep DEF IndInv
<1>3. Inv => SuccessorBound
  <2>1. SUFFICES ASSUME Inv, NEW t \in Tokens
                 PROVE  Cardinality(Children(t)) <= overlap[t]
    BY DEF SuccessorBound
  <2>2. CASE t \in revoked
    <3>1. Cardinality(Children(t)) + Cardinality(InFlight(t)) <= overlap[t]
      BY <2>1, <2>2 DEF IndInv, SuccessorBudget
    <3>2. overlap[t] \in Nat
      BY <2>1 DEF TypeOK
    <3>. QED
      BY <2>1, <3>1, <3>2, InFlightCount, ChildrenCount
  <2>3. CASE t \notin revoked
    <3>1. Cardinality(Children(t)) = 0
      BY <2>1, <2>3, UsableHasNoChildren, FS_EmptySet
    <3>. QED
      BY <2>1, <3>1 DEF TypeOK
  <2>. QED
    BY <2>2, <2>3
<1>. QED
  BY <1>1, <1>2, <1>3, PTL DEF Spec

-----------------------------------------------------------------------------
(* Sessions: the chains of tokens that begin at a sign-in. *)

(* The tokens of session s that were not exchanged yet. *)
Leaves(root, s) == {t \in issued : root[t] = s /\ Children(t) = {}}

(* A session whose tokens have one successor each is a chain: it has one   *)
(* end.  The theorem follows, because a usable token is an end.            *)
Chained(root, s) ==
  (\A t \in issued : root[t] = s => \A a, b \in Children(t) : a = b)
    => \A u, v \in Leaves(root, s) : u = v

SessionsKnown ==
  \E root \in [issued -> issued] :
    IsSession(root) /\ \A s \in issued : Chained(root, s)

(* The stored n begins session s, its own, or joins that of its parent. *)
Joins(root, n, s) ==
  \/ parent' = parent /\ s = n
  \/ \E t \in issued : parent' = [parent EXCEPT ![n] = t] /\ s = root[t]

Extended(root, n, s) == [t \in issued' |-> IF t = n THEN s ELSE root[t]]

(* A token that is stored is its own session, or joins its parent's. *)
LEMMA SessionExtends ==
  ASSUME TypeOK, ParentsOfIssued, RotationIsAtomic,
         NEW root \in [issued -> issued], IsSession(root),
         NEW n \in Tokens \ issued, NEW s \in issued \cup {n},
         issued' = issued \cup {n},
         Joins(root, n, s), NEW next, next = Extended(root, n, s)
  PROVE  next \in [issued' -> issued'] /\ IsSession(next)'
<1>0. next = [t \in issued' |-> IF t = n THEN s ELSE root[t]]
  BY DEF Extended
<1>1. next \in [issued' -> issued']
  BY <1>0
<1>2. parent[n] = NoToken /\ n \notin issued /\ issued \subseteq Tokens
  BY DEF ParentsOfIssued, TypeOK
<1>3. ASSUME NEW m \in issued
      PROVE  next[m] = IF parent'[m] = NoToken THEN m ELSE next[parent'[m]]
  <2>1. parent'[m] = parent[m] /\ m # n
    BY <1>2 DEF Joins, TypeOK
  <2>2. parent[m] # NoToken => parent[m] \in issued /\ parent[m] # n
    BY <1>2 DEF RotationIsAtomic, TypeOK
  <2>. QED
    BY <1>0, <2>1, <2>2 DEF IsSession
<1>4. next[n] = IF parent'[n] = NoToken THEN n ELSE next[parent'[n]]
  <2>1. CASE parent' = parent /\ s = n
    BY <1>0, <1>2, <2>1
  <2>2. ASSUME NEW t \in issued, parent' = [parent EXCEPT ![n] = t], s = root[t]
        PROVE  next[n] = IF parent'[n] = NoToken THEN n ELSE next[parent'[n]]
    <3>1. parent'[n] = t /\ t # NoToken /\ t # n
      BY <1>2, <2>2, TokensAssumption DEF TypeOK
    <3>. QED
      BY <1>0, <2>2, <3>1
  <2>. QED
    BY <2>1, <2>2 DEF Joins
<1>. QED
  BY <1>1, <1>3, <1>4 DEF IsSession

(* A sign-in begins a session of one token. *)
LEMMA CreateKeepsChains ==
  ASSUME TypeOK, ParentsOfIssued, RotationIsAtomic, SessionsKnown,
         NEW n \in Tokens, CreateToken(n)
  PROVE  SessionsKnown'
<1>1. /\ n \in Tokens \ issued /\ issued' = issued \cup {n} /\ parent' = parent
      /\ parent[n] = NoToken /\ issued \subseteq Tokens
  BY DEF CreateToken, historyVars, ParentsOfIssued, TypeOK
<1>2. PICK root \in [issued -> issued] :
        IsSession(root) /\ \A s \in issued : Chained(root, s)
  BY DEF SessionsKnown
<1>natext. PICK next : next = Extended(root, n, n)
  OBVIOUS
<1>3. next \in [issued' -> issued'] /\ IsSession(next)'
  <2>1. Joins(root, n, n)
    BY <1>1 DEF Joins
  <2>. QED
    BY <1>1, <1>2, <1>natext, <2>1, SessionExtends
<1>4. \A t \in Tokens : Children(t)' = Children(t)
  BY <1>1, TokensAssumption DEF Children
<1>5. ASSUME NEW s \in issued PROVE Chained(next, s)'
  <2>1. \A t \in issued' : next[t] = s <=> t \in issued /\ root[t] = s
    BY <1>1, <1>natext DEF Extended
  <2>2. Leaves(next, s)' = Leaves(root, s)
    BY <1>1, <1>4, <2>1 DEF Leaves
  <2>. QED
    BY <1>1, <1>2, <1>4, <2>1, <2>2 DEF Chained
<1>6. Chained(next, n)'
  <2>1. \A t \in issued' : next[t] = n => t = n
    BY <1>1, <1>2, <1>natext DEF Extended
  <2>. QED
    BY <2>1 DEF Chained, Leaves
<1>. QED
  BY <1>1, <1>3, <1>5, <1>6 DEF SessionsKnown

(* A rotation adds the successor where its token was, at the end of the    *)
(* chain, or makes it a chain no longer.                                   *)
LEMMA CommitKeepsChains ==
  ASSUME TypeOK, ReadWasUsable, ParentsOfIssued, RotationIsAtomic, SessionsKnown,
         NEW r \in Requests, NEW n \in Tokens, RotateCommit(r, n)
  PROVE  SessionsKnown'
<1>0. PICK t \in issued : t = tok[r]
  BY DEF RotateCommit, ReadWasUsable
<1>1. /\ n \in Tokens \ issued /\ issued' = issued \cup {n}
      /\ parent' = [parent EXCEPT ![n] = t]
      /\ parent[n] = NoToken /\ issued \subseteq Tokens
  BY <1>0 DEF RotateCommit, ParentsOfIssued, TypeOK
<1>2. PICK root \in [issued -> issued] :
        IsSession(root) /\ \A s \in issued : Chained(root, s)
  BY DEF SessionsKnown
<1>natext. PICK next : next = Extended(root, n, root[t])
  OBVIOUS
<1>3. next \in [issued' -> issued'] /\ IsSession(next)'
  <2>1. Joins(root, n, root[t]) /\ root[t] \in issued \cup {n}
    BY <1>1 DEF Joins
  <2>. QED
    BY <1>1, <1>2, <1>natext, <2>1, SessionExtends
<1>4. /\ Children(t)' = Children(t) \cup {n} /\ n \notin Children(t)
      /\ \A m \in issued : m # t => Children(m)' = Children(m)
      /\ Children(n)' = {}
  <2>1. \A m \in issued : parent[m] # n
    BY <1>1, TokensAssumption DEF RotationIsAtomic, TypeOK
  <2>. QED
    BY <1>1, <2>1 DEF Children, TypeOK
<1>5. ASSUME NEW s \in issued,
             \A m \in issued' : next[m] = s => \A a, b \in Children(m)' : a = b
      PROVE  \A u, v \in Leaves(next, s)' : u = v
  <2>1. \A m \in issued : next[m] = root[m] /\ m # n
    BY <1>1, <1>natext DEF Extended
  <2>2. \A m \in issued : root[m] = s => \A a, b \in Children(m) : a = b
    BY <1>1, <1>4, <1>5, <2>1
  <2>3. \A u, v \in Leaves(root, s) : u = v
    BY <1>2, <2>2 DEF Chained
  <2>4. CASE root[t] = s
    <3>1. Children(t) = {}
      BY <1>1, <1>4, <1>5, <2>1, <2>4
    <3>2. Leaves(root, s) = {t}
      BY <2>3, <2>4, <3>1 DEF Leaves
    <3>3. \A m \in issued : root[m] = s /\ Children(m) = {} => m = t
      BY <3>2 DEF Leaves
    <3>4. \A u \in Leaves(next, s)' : u = n
      BY <1>1, <1>4, <1>natext, <2>1, <3>3 DEF Leaves, Extended
    <3>. QED
      BY <3>4
  <2>5. CASE root[t] # s
    <3>1. Leaves(next, s)' \subseteq Leaves(root, s)
      BY <1>1, <1>4, <1>natext, <2>1, <2>5 DEF Leaves, Extended
    <3>. QED
      BY <2>3, <3>1
  <2>. QED
    BY <2>4, <2>5
<1>6. Chained(next, n)'
  <2>1. \A m \in issued' : next[m] # n
    BY <1>1, <1>2, <1>natext DEF Extended
  <2>. QED
    BY <2>1 DEF Chained, Leaves
<1>7. \A s \in issued : Chained(next, s)'
  BY <1>5 DEF Chained
<1>. QED
  BY <1>1, <1>3, <1>6, <1>7 DEF SessionsKnown

(* The other steps store no token. *)
LEMMA ChainStep ==
  ASSUME TypeOK, ReadWasUsable, ParentsOfIssued, RotationIsAtomic, SessionsKnown,
         [Next]_vars
  PROVE  SessionsKnown'
<1>1. ASSUME UNCHANGED <<issued, parent>> PROVE SessionsKnown'
  BY <1>1 DEF SessionsKnown, IsSession, Chained, Leaves, Children
<1>2. ASSUME NEW r \in Requests,
             RotateUpdate(r) \/ RotateAbort(r) \/ \E t \in Tokens : RotateRead(r, t)
      PROVE  UNCHANGED <<issued, parent>>
  BY <1>2 DEF RotateUpdate, RotateAbort, RotateRead, BeginRotate, rowVars, historyVars
<1>3. ASSUME NEW t \in Tokens, Revoke(t) PROVE UNCHANGED <<issued, parent>>
  BY <1>3 DEF Revoke
<1>4. Crash \/ Tick \/ UNCHANGED vars => UNCHANGED <<issued, parent>>
  BY DEF Crash, Tick, vars, rowVars, historyVars
<1>. QED
  BY <1>1, <1>2, <1>3, <1>4, CreateKeepsChains, CommitKeepsChains DEF Next

(* A token with one rotation in progress at most, when it was taken out of *)
(* use, has one successor at most.                                         *)
LEMMA OneSuccessor ==
  ASSUME TypeOK, SuccessorBound, NEW t \in Tokens, overlap[t] <= 1
  PROVE  /\ \A a, b \in Children(t) : a = b
         /\ overlap[t] = 0 => Children(t) = {}
<1>1. /\ IsFiniteSet(Children(t)) /\ Cardinality(Children(t)) \in Nat
      /\ Cardinality(Children(t)) <= overlap[t]
  BY ChildrenCount DEF SuccessorBound
<1>nat. overlap[t] \in Nat
  BY DEF TypeOK
<1>2. ASSUME NEW a \in Children(t), NEW b \in Children(t), a # b PROVE FALSE
  <2>1. IsFiniteSet({a}) /\ Cardinality({a}) = 1
    BY FS_Singleton
  <2>2. Cardinality({a} \cup {b}) = 2
    BY <1>2, <2>1, FS_AddElement
  <2>3. Cardinality({a} \cup {b}) <= Cardinality(Children(t))
    BY <1>1, FS_Subset
  <2>. QED
    BY <1>1, <1>nat, <2>2, <2>3
<1>3. overlap[t] = 0 => Children(t) = {}
  BY <1>1, <1>nat, FS_EmptySet
<1>. QED
  BY <1>2, <1>3

(* A session in which no two rotations of one token overlapped has one     *)
(* usable token at most, and none after a sign-out that no rotation        *)
(* overlapped.                                                             *)
THEOREM SessionsAreChains == Spec => []OneTokenPerSession
<1>. DEFINE Inv == TypeOK /\ IndInv /\ RotationIsAtomic /\ SessionsKnown
<1>1. Init => Inv
  <2>1. Init => TypeOK /\ IndInv /\ RotationIsAtomic
    BY DEF Init, TypeOK, IndInv, ReadWasUsable, ParentsOfIssued,
           RotationIsAtomic, SuccessorBudget
  <2>2. Init => SessionsKnown
    <3>1. SUFFICES ASSUME issued = {} PROVE SessionsKnown
      BY DEF Init
    <3>2. [t \in issued |-> t] \in [issued -> issued] /\ IsSession([t \in issued |-> t])
      BY <3>1 DEF IsSession
    <3>. QED
      BY <3>1, <3>2 DEF SessionsKnown
  <2>. QED
    BY <2>1, <2>2
<1>2. Inv /\ [Next]_vars => Inv'
  BY TypeStep, ParentStep, BudgetStep, ChainStep DEF IndInv
<1>3. Inv /\ SuccessorBound => OneTokenPerSession
  <2>1. SUFFICES ASSUME Inv, SuccessorBound PROVE OneTokenPerSession
    OBVIOUS
  <2>2. PICK root \in [issued -> issued] :
          IsSession(root) /\ \A s \in issued : Chained(root, s)
    BY <2>1 DEF SessionsKnown
  <2>3. ASSUME NEW s \in issued, Undisturbed(root, s)
        PROVE  /\ \A u, v \in Live : root[u] = s /\ root[v] = s => u = v
               /\ \A t \in signedOut : root[t] = s /\ overlap[t] = 0 =>
                    \A u \in Live : root[u] # s
    <3>1. issued \subseteq Tokens /\ signedOut \subseteq revoked /\ revoked \subseteq issued
      BY <2>1 DEF TypeOK
    <3>2. \A t \in issued : root[t] = s => \A a, b \in Children(t) : a = b
      BY <2>1, <2>3, <3>1, OneSuccessor DEF Undisturbed
    <3>3. \A u, v \in Leaves(root, s) : u = v
      BY <2>2, <3>2 DEF Chained
    <3>4. \A u \in Live : u \in issued /\ Children(u) = {} /\ u \notin revoked
      BY <2>1, <3>1, UsableHasNoChildren DEF Live
    <3>5. \A u \in Live : root[u] = s => u \in Leaves(root, s)
      BY <3>4 DEF Leaves
    <3>6. \A t \in signedOut : root[t] = s /\ overlap[t] = 0 => t \in Leaves(root, s)
      BY <2>1, <2>3, <3>1, OneSuccessor DEF Leaves, Undisturbed
    <3>. QED
      BY <3>1, <3>3, <3>4, <3>5, <3>6
  <2>. QED
    BY <2>2, <2>3 DEF OneTokenPerSession
<1>. QED
  BY <1>1, <1>2, <1>3, SuccessorsBounded, PTL DEF Spec

-----------------------------------------------------------------------------
(* The refinement: every step is a step of Sessions or changes nothing     *)
(* that it can see.                                                        *)

(* A token is owed no more exchanges than there are requests. *)
LEMMA OwedBound ==
  /\ Cardinality(Requests) \in Nat
  /\ \A t \in Tokens : Cardinality(InFlight(t)) \in 0..Cardinality(Requests)
<1>1. \A t \in Tokens : Cardinality(InFlight(t)) <= Cardinality(Requests)
  BY RequestsAssumption, FS_Subset DEF InFlight
<1>. QED
  BY <1>1, InFlightCount, RequestsAssumption, FS_CardinalityType

(* Requests that stop, and a clock that ticks, can only lower what is owed. *)
LEMMA LapseStep ==
  ASSUME TypeOK, TypeOK', UNCHANGED <<rowVars, signedOut, parent>>,
         \A t \in revoked : InFlight(t)' \subseteq InFlight(t)
  PROVE  Promise!Lapse
<1>. USE DEF rowVars
<1>1. \A t \in Tokens : Cardinality(InFlight(t)') \in 0..Cardinality(Requests)
  <2>1. \A t \in Tokens : InFlight(t)' \subseteq Requests
    BY DEF InFlight
  <2>. QED
    BY <2>1, RequestsAssumption, FS_Subset, FS_CardinalityType
<1>2. \A t \in revoked : Cardinality(InFlight(t)') <= Cardinality(InFlight(t))
  BY InFlightCount, FS_Subset DEF TypeOK
<1>3. Owed' = [t \in Tokens |->
                IF t \in revoked THEN Cardinality(InFlight(t)') ELSE 0]
  BY DEF Owed
<1>4. Owed' \in [Tokens -> 0..Cardinality(Requests)]
  BY <1>1, <1>3, OwedBound
<1>5. \A t \in Tokens : Owed'[t] <= Owed[t]
  BY <1>2, <1>3, OwedBound DEF Owed
<1>6. UNCHANGED <<Live, signedOut, parent, issued>>
  BY DEF Live
<1>. QED
  BY <1>4, <1>5, <1>6 DEF Promise!Lapse

(* A commit exchanges a live token, or is one the token was still owed. *)
LEMMA CommitRefines ==
  ASSUME TypeOK, ReadWasUsable, RotationIsAtomic, ParentsOfIssued,
         NEW r \in Requests, NEW n \in Tokens, RotateCommit(r, n)
  PROVE  Promise!Next
<1>0. PICK t \in Tokens : t = tok[r]
  BY DEF RotateCommit, ReadWasUsable, TypeOK
<1>1. t \in issued /\ t # n
  BY <1>0 DEF RotateCommit, ReadWasUsable, TypeOK
<1>2. /\ issued' = issued \cup {n}
      /\ n \in Tokens \ issued
      /\ revoked' = revoked \cup {t}
      /\ parent' = [parent EXCEPT ![n] = t]
      /\ pc[r] = "create"
      /\ pc' = [pc EXCEPT ![r] = "idle"]
      /\ tok' = [tok EXCEPT ![r] = NoToken]
      /\ signedOut' = signedOut
  BY <1>0 DEF RotateCommit, MarkRevoked, EndRequest
<1>3. n \notin revoked
  BY <1>2 DEF TypeOK
<1>4. /\ r \in InFlight(t)
      /\ InFlight(t)' = InFlight(t) \ {r}
      /\ \A s \in Tokens : s # t => InFlight(s)' = InFlight(s)
  BY <1>0, <1>1, <1>2, TokensAssumption DEF InFlight, TypeOK
<1>. DEFINE k == Cardinality(InFlight(t)) - 1
<1>5. /\ Cardinality(InFlight(t)') = k
      /\ k \in 0..Cardinality(Requests) /\ k < Cardinality(Requests)
  <2>1. IsFiniteSet(InFlight(t))
    BY <1>1, InFlightCount
  <2>2. Cardinality(InFlight(t)') = k
    BY <1>4, <2>1, FS_RemoveElement
  <2>3. IsFiniteSet(InFlight(t)')
    BY <1>4, <2>1, FS_Subset
  <2>4. Cardinality(InFlight(t)') \in Nat
    BY <2>3, FS_CardinalityType
  <2>. QED
    BY <1>1, <2>2, <2>4, OwedBound
<1>6. Owed' = [Owed EXCEPT ![t] = k]
  <2>1. Owed' = [s \in Tokens |-> IF s \in revoked' THEN Cardinality(InFlight(s)') ELSE 0]
    BY DEF Owed
  <2>2. \A s \in Tokens : s # t => (s \in revoked' <=> s \in revoked)
    BY <1>2
  <2>. QED
    BY <1>1, <1>2, <1>4, <1>5, <2>1, <2>2 DEF Owed
<1>7. CASE t \notin revoked
  <2>1. t \in Live /\ Live' = (Live \ {t}) \cup {n}
    BY <1>1, <1>2, <1>3, <1>7 DEF Live
  <2>2. Promise!Exchange(t, n, k)
    BY <1>2, <1>5, <1>6, <2>1 DEF Promise!Exchange
  <2>. QED
    BY <1>1, <1>5, <2>2 DEF Promise!Next
<1>8. CASE t \in revoked
  <2>1. t \in issued \ Live /\ Live' = Live \cup {n}
    BY <1>1, <1>2, <1>3, <1>8 DEF Live
  <2>2. Owed[t] = k + 1
    BY <1>1, <1>8, InFlightCount DEF Owed
  <2>3. Owed[t] > 0 /\ k = Owed[t] - 1
    BY <1>5, <2>2, OwedBound
  <2>4. Promise!ExchangeLate(t, n)
    BY <1>2, <1>6, <2>1, <2>3 DEF Promise!ExchangeLate
  <2>. QED
    BY <1>1, <2>4 DEF Promise!Next
<1>. QED
  BY <1>7, <1>8

(* A sign-out ends a live token; of any other it changes nothing. *)
LEMMA RevokeRefines ==
  ASSUME TypeOK, NEW t \in Tokens, Revoke(t)
  PROVE  Promise!Next \/ UNCHANGED Promise!vars
<1>1. /\ t \in issued
      /\ revoked' = revoked \cup {t}
      /\ signedOut' = IF t \in revoked THEN signedOut ELSE signedOut \cup {t}
      /\ UNCHANGED <<issued, pc, tok, parent>>
  BY DEF Revoke, MarkRevoked, txVars
<1>2. \A s \in Tokens : InFlight(s)' = InFlight(s)
  BY <1>1 DEF InFlight
<1>3. Owed' = [s \in Tokens |-> IF s \in revoked' THEN Cardinality(InFlight(s)) ELSE 0]
  BY <1>2 DEF Owed
<1>4. CASE t \in revoked
  <2>1. revoked' = revoked /\ signedOut' = signedOut
    BY <1>1, <1>4
  <2>2. Owed' = Owed /\ Live' = Live
    BY <1>1, <1>3, <2>1 DEF Owed, Live
  <2>. QED
    BY <1>1, <2>1, <2>2 DEF Promise!vars
<1>5. CASE t \notin revoked
  <2>1. t \in Live /\ Live' = Live \ {t} /\ signedOut' = signedOut \cup {t}
    BY <1>1, <1>5 DEF Live
  <2>2. Owed' = [Owed EXCEPT ![t] = Cardinality(InFlight(t))]
    BY <1>1, <1>3, <1>5 DEF Owed
  <2>3. Promise!End(t, Cardinality(InFlight(t)))
    BY <1>1, <2>1, <2>2 DEF Promise!End
  <2>. QED
    BY <2>3, OwedBound DEF Promise!Next
<1>. QED
  BY <1>4, <1>5

(* Every step. *)
LEMMA StepRefines ==
  ASSUME TypeOK, TypeOK', ReadWasUsable, RotationIsAtomic, ParentsOfIssued,
         [Next]_vars
  PROVE  Promise!Next \/ UNCHANGED Promise!vars
<1>. USE DEF rowVars, txVars, historyVars
<1>0. ASSUME UNCHANGED <<rowVars, signedOut, parent>>,
             \A t \in revoked : InFlight(t)' \subseteq InFlight(t)
      PROVE  Promise!Next
  BY <1>0, LapseStep DEF Promise!Next
<1>1. ASSUME NEW n \in Tokens, CreateToken(n)
      PROVE  Promise!Next
  <2>1. /\ n \in Tokens \ issued
        /\ issued' = issued \cup {n}
        /\ UNCHANGED <<revoked, pc, tok, parent, signedOut>>
    BY <1>1 DEF CreateToken
  <2>2. Live' = Live \cup {n}
    BY <2>1 DEF Live, TypeOK
  <2>3. \A t \in Tokens : InFlight(t)' = InFlight(t)
    BY <2>1 DEF InFlight
  <2>4. Owed' = Owed
    BY <2>1, <2>3 DEF Owed
  <2>5. Promise!Open(n)
    BY <2>1, <2>2, <2>4 DEF Promise!Open
  <2>. QED
    BY <2>5 DEF Promise!Next
<1>2. ASSUME NEW r \in Requests, NEW s \in Tokens, RotateRead(r, s)
      PROVE  Promise!Next
  <2>1. \A t \in revoked : InFlight(t)' \subseteq InFlight(t)
    BY <1>2 DEF RotateRead, BeginRotate, InFlight, TypeOK
  <2>. QED
    BY <1>0, <1>2, <2>1 DEF RotateRead, BeginRotate
<1>3. ASSUME NEW r \in Requests, RotateUpdate(r)
      PROVE  Promise!Next
  <2>1. \A t \in revoked : InFlight(t)' \subseteq InFlight(t)
    BY <1>3 DEF RotateUpdate, InFlight, TypeOK
  <2>. QED
    BY <1>0, <1>3, <2>1 DEF RotateUpdate
<1>4. ASSUME NEW r \in Requests, NEW n \in Tokens, RotateCommit(r, n)
      PROVE  Promise!Next
  BY <1>4, CommitRefines
<1>5. ASSUME NEW r \in Requests, RotateAbort(r)
      PROVE  Promise!Next
  <2>1. \A t \in revoked : InFlight(t)' \subseteq InFlight(t)
    BY <1>5, TokensAssumption DEF RotateAbort, EndRequest, InFlight, TypeOK
  <2>. QED
    BY <1>0, <1>5, <2>1 DEF RotateAbort
<1>6. ASSUME NEW t \in Tokens, Revoke(t)
      PROVE  Promise!Next \/ UNCHANGED Promise!vars
  BY <1>6, RevokeRefines
<1>7. CASE Crash
  <2>1. \A t \in revoked : InFlight(t)' \subseteq InFlight(t)
    BY <1>7 DEF Crash, InFlight
  <2>. QED
    BY <1>0, <1>7, <2>1 DEF Crash
<1>8. CASE Tick \/ UNCHANGED vars
  <2>1. \A t \in revoked : InFlight(t)' \subseteq InFlight(t)
    BY <1>8 DEF Tick, vars, InFlight
  <2>. QED
    BY <1>0, <1>8, <2>1 DEF Tick, vars
<1>. QED
  BY <1>1, <1>2, <1>3, <1>4, <1>5, <1>6, <1>7, <1>8 DEF Next

(* createToken, rotate and revoke, with their transactions, locks, failures *)
(* and crashes, do what Sessions says in single steps.                      *)
THEOREM SessionsImplemented == Spec => ImplementsSessions
<1>. DEFINE Inv == TypeOK /\ ReadWasUsable /\ ParentsOfIssued /\ RotationIsAtomic
<1>1. Init => Inv
  BY DEF Init, TypeOK, ReadWasUsable, ParentsOfIssued, RotationIsAtomic
<1>2. Inv /\ [Next]_vars => Inv'
  BY TypeStep, ParentStep
<1>3. Init => Promise!Init
  BY DEF Init, Promise!Init, Live, Owed
<1>4. Inv /\ Inv' /\ [Next]_vars => [Promise!Next]_(Promise!vars)
  BY StepRefines
<1>. QED
  BY <1>1, <1>2, <1>3, <1>4, PTL DEF Spec, ImplementsSessions, Promise!Spec

(* The strengthening behind SuccessorBound holds in every state. *)
THEOREM BudgetHolds == Spec => []IndInv
<1>. DEFINE Inv == TypeOK /\ IndInv /\ RotationIsAtomic
<1>1. Init => Inv
  BY DEF Init, TypeOK, IndInv, ReadWasUsable, ParentsOfIssued,
         RotationIsAtomic, SuccessorBudget
<1>2. Inv /\ [Next]_vars => Inv'
  BY TypeStep, ParentStep, BudgetStep DEF IndInv
<1>. QED
  BY <1>1, <1>2, PTL DEF Spec

=============
