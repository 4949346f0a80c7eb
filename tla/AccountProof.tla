---------------------------- MODULE AccountProof ----------------------------
(* Proofs about Account, for any number of requests, rows and names and    *)
(* any lifetime of a link.                                                 *)
EXTENDS Account, FiniteSetTheorems, TLAPS

(* Where a request can be. *)
Places == {"idle", "name", "create", "publish", "verify", "compare",
           "emailTaken", "nameTaken", "expired", "resend"}
Wants == [email : Emails \cup {None}, name : Names \cup {None}]

(* What TypeOK says of the requests. *)
RequestsOK ==
  /\ pc \in [Requests -> Places]
  /\ want \in [Requests -> Wants]
  /\ who \in [Requests -> Users \cup {None}]
  /\ \A r \in Requests : pc[r] \in {"publish", "verify", "compare"} => who[r] \in Rows

(* A request that goes on leaves the others where they are. *)
LEMMA GoToType ==
  ASSUME TypeOK, NEW r \in Requests, NEW place \in Places, NEW w \in Wants,
         NEW u \in Users \cup {None}, GoTo(r, place, w, u), Rows \subseteq Rows',
         place \in {"publish", "verify", "compare"} => u \in Rows'
  PROVE  RequestsOK'
<1>1. /\ pc' \in [Requests -> Places] /\ want' \in [Requests -> Wants]
      /\ who' \in [Requests -> Users \cup {None}]
  BY DEF TypeOK, GoTo, Places, Wants
<1>2. ASSUME NEW q \in Requests, pc'[q] \in {"publish", "verify", "compare"}
      PROVE  who'[q] \in Rows'
  <2>1. CASE q = r
    <3>1. pc'[q] = place /\ who'[q] = u
      BY <2>1 DEF TypeOK, GoTo
    <3>. QED
      BY <1>2, <3>1
  <2>2. CASE q # r
    <3>1. pc'[q] = pc[q] /\ who'[q] = who[q]
      BY <2>2 DEF TypeOK, GoTo
    <3>. QED
      BY <1>2, <3>1 DEF TypeOK
  <2>. QED
    BY <2>1, <2>2
<1>3. Users' = Users
  BY DEF Users
<1>. QED
  BY <1>1, <1>2, <1>3 DEF RequestsOK

(* The same of a request that ends. *)
LEMMA EndType ==
  ASSUME TypeOK, NEW r \in Requests, EndRequest(r), Rows \subseteq Rows'
  PROVE  RequestsOK'
<1>1. "idle" \in Places /\ NoWant \in Wants
  BY DEF Places, NoWant, Wants
<1>. QED
  BY <1>1, GoToType DEF EndRequest

(* A step that leaves the rows alone keeps their types. *)
LEMMA SameRows ==
  ASSUME TypeOK, UNCHANGED <<rowVars, mail, clock, historyVars>>, RequestsOK'
  PROVE  TypeOK'
<1>1. Rows' = Rows /\ Users' = Users
  BY DEF Rows, Users, rowVars
<1>. QED
  BY <1>1 DEF TypeOK, RequestsOK, Places, Wants, rowVars, historyVars

(* The requests stay where they are. *)
LEMMA SameRequests ==
  ASSUME TypeOK, UNCHANGED reqVars, Rows \subseteq Rows'
  PROVE  RequestsOK'
BY DEF TypeOK, RequestsOK, Places, Wants, reqVars, Users

(* Every step keeps the types. *)
LEMMA TypeStep ==
  ASSUME TypeOK, [Next]_vars
  PROVE  TypeOK'
<1>. Users' = Users
  BY DEF Users
<1>1. ASSUME NEW r \in Requests, NEW e \in Emails, NEW n \in Names \cup {None},
             SignupEmail(r, e, n)
      PROVE  TypeOK'
  <2>. DEFINE w == [email |-> e, name |-> n]
  <2>1. PICK place \in {"emailTaken", "name"} : GoTo(r, place, w, None)
    BY <1>1 DEF SignupEmail
  <2>2. w \in Wants /\ place \in Places /\ UNCHANGED <<rowVars, mail, clock, historyVars>>
    BY <1>1 DEF SignupEmail, Wants, Places
  <2>3. Rows' = Rows
    BY <2>2 DEF Rows, rowVars, Users
  <2>4. RequestsOK'
    BY <2>1, <2>2, <2>3, GoToType
  <2>. QED
    BY <2>2, <2>4, SameRows
<1>2. ASSUME NEW r \in Requests, SignupName(r)
      PROVE  TypeOK'
  <2>1. PICK place \in {"nameTaken", "create"} : GoTo(r, place, want[r], None)
    BY <1>2 DEF SignupName
  <2>2. want[r] \in Wants /\ place \in Places /\ UNCHANGED <<rowVars, mail, clock, historyVars>>
    BY <1>2 DEF SignupName, Wants, Places, TypeOK
  <2>3. Rows' = Rows
    BY <2>2 DEF Rows, rowVars, Users
  <2>4. RequestsOK'
    BY <2>1, <2>2, <2>3, GoToType
  <2>. QED
    BY <2>2, <2>4, SameRows
<1>3. ASSUME NEW r \in Requests, NEW u \in Users, NEW n \in Names \cup Generated,
             NEW ok \in BOOLEAN, SignupCreate(r, u, n, ok)
      PROVE  TypeOK'
  <2>1. CASE Free(want[r].email, n)
    <3>1. /\ email' = [email EXCEPT ![u] = want[r].email]
          /\ username' = [username EXCEPT ![u] = n]
          /\ status' = [status EXCEPT ![u] = "PENDING"]
          /\ linked' = linked \cup {u}
          /\ expires' = [expires EXCEPT ![u] = clock + LinkLife]
          /\ UNCHANGED <<mail, clock, historyVars>>
      BY <1>3, <2>1 DEF SignupCreate
    <3>2. Rows' = Rows \cup {u}
      BY <3>1 DEF Rows, TypeOK, Users
    <3>3. RequestsOK'
      <4>1. CASE ok
        <5>1. GoTo(r, "publish", NoWant, u)
          BY <1>3, <2>1, <4>1 DEF SignupCreate
        <5>2. "publish" \in Places /\ NoWant \in Wants
          BY DEF Places, NoWant, Wants
        <5>. QED
          BY <5>1, <5>2, <3>2, GoToType
      <4>2. CASE ~ok
        BY <1>3, <2>1, <3>2, <4>2, EndType DEF SignupCreate
      <4>. QED
        BY <4>1, <4>2
    <3>4. want[r].email \in Emails \cup {None} /\ clock + LinkLife \in Nat
      BY BoundsAssumption DEF TypeOK
    <3>5. /\ email' \in [Users -> Emails \cup {None}]
          /\ username' \in [Users -> Names \cup Generated \cup {None}]
          /\ status' \in [Users -> {"none", "PENDING", "ACTIVE", "SUSPENDED"}]
          /\ expires' \in [Users -> Nat]
      BY <3>1, <3>4 DEF TypeOK
    <3>6. linked' \subseteq Rows' /\ verified' \subseteq Rows' /\ settled' \subseteq verified'
      BY <3>1, <3>2 DEF TypeOK, historyVars
    <3>. QED
      BY <3>1, <3>3, <3>5, <3>6 DEF TypeOK, RequestsOK, Places, Wants, historyVars
  <2>2. CASE ~Free(want[r].email, n)
    <3>1. EndRequest(r) /\ UNCHANGED <<rowVars, mail, clock, historyVars>>
      BY <1>3, <2>2 DEF SignupCreate
    <3>2. Rows' = Rows
      BY <3>1 DEF Rows, rowVars, Users
    <3>. QED
      BY <3>1, <3>2, EndType, SameRows
  <2>. QED
    BY <2>1, <2>2
<1>4. ASSUME NEW r \in Requests, SignupPublish(r)
      PROVE  TypeOK'
  <2>1. Rows' = Rows
    BY <1>4 DEF SignupPublish, Rows, rowVars, Users
  <2>2. RequestsOK'
    BY <1>4, <2>1, EndType DEF SignupPublish
  <2>3. mail' \in [Users -> {"none", "queued", "posted", "sent", "lost"}]
    BY <1>4 DEF SignupPublish, TypeOK
  <2>. QED
    BY <1>4, <2>1, <2>2, <2>3
    DEF SignupPublish, TypeOK, RequestsOK, Places, Wants, rowVars, historyVars
<1>5. ASSUME NEW u \in Users, NEW ok \in BOOLEAN, MailPost(u, ok) \/ MailSend(u, ok)
      PROVE  TypeOK'
  <2>1. UNCHANGED <<rowVars, reqVars, clock, historyVars>>
    BY <1>5 DEF MailPost, MailSend
  <2>2. Rows' = Rows
    BY <2>1 DEF Rows, rowVars, Users
  <2>3. RequestsOK'
    BY <2>1, <2>2, SameRequests
  <2>4. mail' \in [Users -> {"none", "queued", "posted", "sent", "lost"}]
    BY <1>5 DEF MailPost, MailSend, TypeOK
  <2>. QED
    BY <2>1, <2>2, <2>3, <2>4 DEF TypeOK, RequestsOK, Places, Wants, rowVars, historyVars
<1>6. ASSUME NEW r \in Requests, NEW u \in Users,
             VerifyRead(r, u) \/ SigninRead(r, u) \/ Resend(r, u)
      PROVE  TypeOK'
  <2>1. PICK place \in {"expired", "verify", "compare", "resend"} : GoTo(r, place, NoWant, u)
    BY <1>6 DEF VerifyRead, SigninRead, Resend
  <2>2. UNCHANGED <<rowVars, mail, clock, historyVars>>
    BY <1>6 DEF VerifyRead, SigninRead, Resend
  <2>3. place \in Places /\ NoWant \in Wants
    BY DEF Places, NoWant, Wants
  <2>4. Rows' = Rows
    BY <2>2 DEF Rows, rowVars, Users
  <2>5. u \in Rows
    BY <1>6 DEF VerifyRead, SigninRead, Resend, TypeOK, Rows
  <2>6. RequestsOK'
    BY <2>1, <2>3, <2>4, <2>5, GoToType
  <2>. QED
    BY <2>2, <2>6, SameRows
<1>7. ASSUME NEW r \in Requests, VerifyUpdate(r)
      PROVE  TypeOK'
  <2>1. who[r] \in Rows
    BY <1>7 DEF VerifyUpdate, TypeOK
  <2>2. Rows' = Rows
    BY <1>7, <2>1 DEF VerifyUpdate, TypeOK, Rows, Users
  <2>3. RequestsOK'
    BY <1>7, <2>2, EndType DEF VerifyUpdate
  <2>4. status' \in [Users -> {"none", "PENDING", "ACTIVE", "SUSPENDED"}]
    BY <1>7 DEF VerifyUpdate, TypeOK
  <2>5. linked' \subseteq Rows' /\ verified' \subseteq Rows' /\ settled' \subseteq verified'
    BY <1>7, <2>1, <2>2 DEF VerifyUpdate, TypeOK
  <2>. QED
    BY <1>7, <2>3, <2>4, <2>5 DEF VerifyUpdate, TypeOK, RequestsOK, Places, Wants
<1>8. ASSUME NEW r \in Requests, SigninOpen(r)
      PROVE  TypeOK'
  <2>1. Rows' = Rows
    BY <1>8 DEF SigninOpen, Rows, rowVars, Users
  <2>2. RequestsOK'
    BY <1>8, <2>1, EndType DEF SigninOpen
  <2>3. late' \in [Users -> Nat]
    <3>1. who[r] \in Users
      BY <1>8 DEF SigninOpen, TypeOK, Rows
    <3>2. late' = late \/ late' = [late EXCEPT ![who[r]] = late[who[r]] + 1]
      BY <1>8 DEF SigninOpen
    <3>. QED
      BY <3>1, <3>2 DEF TypeOK
  <2>. QED
    BY <1>8, <2>1, <2>2, <2>3
    DEF SigninOpen, TypeOK, RequestsOK, Places, Wants, rowVars
<1>9. ASSUME NEW r \in Requests, Answer(r)
      PROVE  TypeOK'
  <2>1. Rows' = Rows
    BY <1>9 DEF Answer, Rows, rowVars, Users
  <2>. QED
    BY <1>9, <2>1, EndType, SameRows DEF Answer
<1>10. ASSUME NEW u \in Users, Suspend(u)
       PROVE  TypeOK'
  <2>1. Rows' = Rows
    BY <1>10 DEF Suspend, TypeOK, Rows, Users
  <2>2. RequestsOK'
    BY <1>10, <2>1, SameRequests DEF Suspend
  <2>3. At("compare", u) \subseteq Requests
    BY DEF At
  <2>4. Cardinality(At("compare", u)) \in Nat
    BY <2>3, RequestsAssumption, FS_Subset, FS_CardinalityType
  <2>5. /\ status' \in [Users -> {"none", "PENDING", "ACTIVE", "SUSPENDED"}]
        /\ owed' \in [Users -> Nat] /\ late' \in [Users -> Nat]
    BY <1>10, <2>4 DEF Suspend, TypeOK
  <2>6. settled' \subseteq verified'
    BY <1>10 DEF Suspend, TypeOK
  <2>. QED
    BY <1>10, <2>1, <2>2, <2>5, <2>6 DEF Suspend, TypeOK, RequestsOK, Places, Wants, reqVars
<1>11. CASE Restart
  <2>1. Rows' = Rows
    BY <1>11 DEF Restart, Rows, rowVars, Users
  <2>2. RequestsOK'
    BY <1>11 DEF Restart, RequestsOK, Places, Wants, NoWant
  <2>3. mail' \in [Users -> {"none", "queued", "posted", "sent", "lost"}]
    BY <1>11 DEF Restart, TypeOK
  <2>. QED
    BY <1>11, <2>1, <2>2, <2>3
    DEF Restart, TypeOK, RequestsOK, Places, Wants, rowVars, historyVars
<1>12. CASE Tick
  <2>1. Rows' = Rows
    BY <1>12 DEF Tick, Rows, rowVars, Users
  <2>2. RequestsOK'
    BY <1>12, <2>1, SameRequests DEF Tick
  <2>3. clock' \in Nat
    BY <1>12 DEF Tick, TypeOK
  <2>. QED
    BY <1>12, <2>1, <2>2, <2>3
    DEF Tick, TypeOK, RequestsOK, Places, Wants, rowVars, historyVars
<1>13. CASE UNCHANGED vars
  <2>1. Rows' = Rows
    BY <1>13 DEF vars, Rows, Users
  <2>. QED
    BY <1>13, <2>1 DEF vars, TypeOK
<1>. QED
  BY <1>1, <1>2, <1>3, <1>4, <1>5, <1>6, <1>7, <1>8, <1>9, <1>10, <1>11, <1>12, <1>13 DEF Next

(* Types hold at the start. *)
LEMMA TypeInit ==
  Init => TypeOK
BY DEF Init, TypeOK, Rows, Users, NoWant

(* Every variable of Account keeps its type.                               *)
THEOREM TypeCorrect == Spec => []TypeOK
<1>1. TypeOK /\ [Next]_vars => TypeOK'
  BY TypeStep
<1>. QED
  BY <1>1, TypeInit, PTL DEF Spec

-----------------------------------------------------------------------------
(* The unique indexes keep emails and usernames unique through every step. *)
LEMMA UniqueStep ==
  ASSUME TypeOK, UniqueIdentity, [Next]_vars
  PROVE  UniqueIdentity'
<1>. Users' = Users
  BY DEF Users
<1>1. ASSUME NEW r \in Requests, NEW u \in Users, NEW n \in Names \cup Generated,
             NEW ok \in BOOLEAN, SignupCreate(r, u, n, ok)
      PROVE  UniqueIdentity'
  <2>1. CASE Free(want[r].email, n)
    <3>1. /\ email' = [email EXCEPT ![u] = want[r].email]
          /\ username' = [username EXCEPT ![u] = n]
          /\ status' = [status EXCEPT ![u] = "PENDING"]
      BY <1>1, <2>1 DEF SignupCreate
    <3>2. Rows' = Rows \cup {u} /\ u \notin Rows
      BY <1>1, <3>1 DEF SignupCreate, Rows, TypeOK, Users
    <3>3. email'[u] = want[r].email /\ username'[u] = n
      BY <3>1 DEF TypeOK
    <3>4. \A v \in Rows : email'[v] = email[v] /\ username'[v] = username[v]
      BY <3>1, <3>2 DEF TypeOK, Rows
    <3>5. \A v \in Rows : email[v] # want[r].email /\ username[v] # n
      BY <2>1 DEF Free
    <3>. QED
      BY <3>2, <3>3, <3>4, <3>5 DEF UniqueIdentity
  <2>2. CASE ~Free(want[r].email, n)
    BY <1>1, <2>2 DEF SignupCreate, rowVars, UniqueIdentity, Rows
  <2>. QED
    BY <2>1, <2>2
<1>2. ASSUME UNCHANGED <<email, username>>, Rows' = Rows
      PROVE  UniqueIdentity'
  BY <1>2 DEF UniqueIdentity
<1>3. ASSUME NEW r \in Requests, VerifyUpdate(r)
      PROVE  UniqueIdentity'
  <2>1. Rows' = Rows
    BY <1>3 DEF VerifyUpdate, TypeOK, Rows
  <2>. QED
    BY <1>2, <1>3, <2>1 DEF VerifyUpdate
<1>4. ASSUME NEW u \in Users, Suspend(u)
      PROVE  UniqueIdentity'
  <2>1. Rows' = Rows
    BY <1>4 DEF Suspend, TypeOK, Rows
  <2>. QED
    BY <1>2, <1>4, <2>1 DEF Suspend
<1>5. ASSUME UNCHANGED rowVars
      PROVE  UniqueIdentity'
  BY <1>2, <1>5 DEF rowVars, Rows
<1>. QED
  BY <1>1, <1>3, <1>4, <1>5
  DEF Next, SignupEmail, SignupName, SignupPublish, MailPost, MailSend, VerifyRead,
      SigninRead, Resend, SigninOpen, Answer, Restart, Tick, vars, rowVars

(* No two users ever have the same email or username, however many signups *)
(* overlap.                                                                *)
THEOREM IdentitiesUnique == Spec => []UniqueIdentity
<1>1. Init => UniqueIdentity
  BY DEF Init, UniqueIdentity, Rows
<1>2. TypeOK /\ UniqueIdentity /\ [Next]_vars => UniqueIdentity'
  BY UniqueStep
<1>. QED
  BY <1>1, <1>2, TypeCorrect, PTL DEF Spec

-----------------------------------------------------------------------------
(* A settled suspension and the spent link it rests on. *)
SettledInv == SuspensionHolds /\ LinksSpent

(* No request holds a settled row to verify it, unless it comes to.        *)
LEMMA SettledByWho ==
  ASSUME TypeOK, SettledInv, UNCHANGED <<status, linked, verified, settled>>,
         \A r \in Requests : pc'[r] = "verify" =>
           \/ pc[r] = "verify" /\ who'[r] = who[r]
           \/ who'[r] \in linked
  PROVE  SettledInv'
<1>1. ASSUME NEW u \in settled, NEW r \in Requests, pc'[r] = "verify", who'[r] = u
      PROVE  FALSE
  <2>1. u \notin linked /\ r \notin At("verify", u)
    BY DEF SettledInv, LinksSpent, TypeOK
  <2>. QED
    BY <1>1, <2>1 DEF At
<1>2. \A u \in settled : At("verify", u)' = {}
  BY <1>1 DEF At
<1>. QED
  BY <1>2 DEF SettledInv, SuspensionHolds, LinksSpent

(* A request that goes elsewhere holds no row to verify it.                *)
LEMMA GoElsewhere ==
  ASSUME TypeOK, NEW r \in Requests, NEW place, NEW w, NEW u, place # "verify",
         GoTo(r, place, w, u)
  PROVE  \A q \in Requests : pc'[q] = "verify" => pc[q] = "verify" /\ who'[q] = who[q]
BY DEF GoTo, TypeOK

(* Every step keeps what a settled suspension rests on.                    *)
LEMMA SettledStep ==
  ASSUME TypeOK, SettledInv, [Next]_vars
  PROVE  SettledInv'
<1>1. ASSUME NEW r \in Requests, NEW u \in Users, NEW n \in Names \cup Generated,
             NEW ok \in BOOLEAN, SignupCreate(r, u, n, ok)
      PROVE  SettledInv'
  <2>1. PICK place, w : place \in {"publish", "idle"} /\ GoTo(r, place, NoWant, w)
    BY <1>1 DEF SignupCreate, EndRequest
  <2>2. \A q \in Requests : pc'[q] = "verify" => pc[q] = "verify" /\ who'[q] = who[q]
    BY <2>1, GoElsewhere
  <2>3. CASE UNCHANGED rowVars
    BY <1>1, <2>2, <2>3, SettledByWho DEF SignupCreate, rowVars, historyVars
  <2>4. CASE /\ status' = [status EXCEPT ![u] = "PENDING"]
             /\ linked' = linked \cup {u}
    <3>1. u \notin verified /\ u \notin settled
      BY <1>1 DEF SignupCreate, TypeOK, Rows
    <3>2. verified' = verified /\ settled' = settled
      BY <1>1 DEF SignupCreate, historyVars
    <3>3. SuspensionHolds'
      BY <2>4, <3>1, <3>2 DEF SettledInv, SuspensionHolds, TypeOK, Rows
    <3>4. \A v \in settled : At("verify", v)' = {}
      BY <2>2 DEF SettledInv, LinksSpent, At
    <3>. QED
      BY <2>4, <3>1, <3>2, <3>3, <3>4 DEF SettledInv, LinksSpent
  <2>. QED
    BY <1>1, <2>3, <2>4 DEF SignupCreate
<1>2. ASSUME NEW r \in Requests, VerifyUpdate(r)
      PROVE  SettledInv'
  <2>1. \A q \in Requests : pc'[q] = "verify" => pc[q] = "verify" /\ who'[q] = who[q]
    BY <1>2, GoElsewhere DEF VerifyUpdate, EndRequest
  <2>2. who[r] \notin settled
    BY <1>2 DEF VerifyUpdate, SettledInv, LinksSpent, At
  <2>3. SuspensionHolds'
    BY <1>2, <2>2 DEF VerifyUpdate, SettledInv, SuspensionHolds, TypeOK, Rows
  <2>4. \A v \in settled : At("verify", v)' = {}
    BY <2>1 DEF SettledInv, LinksSpent, At
  <2>5. verified' \cap linked' = {}
    BY <1>2 DEF VerifyUpdate, SettledInv, LinksSpent
  <2>. QED
    BY <1>2, <2>3, <2>4, <2>5 DEF VerifyUpdate, SettledInv, LinksSpent
<1>3. ASSUME NEW u \in Users, Suspend(u)
      PROVE  SettledInv'
  <2>1. /\ status' = [status EXCEPT ![u] = "SUSPENDED"]
        /\ UNCHANGED <<linked, verified, pc, who>>
    BY <1>3 DEF Suspend, reqVars
  <2>2. settled' = settled \/ (settled' = settled \cup {u} /\ At("verify", u) = {})
    BY <1>3 DEF Suspend
  <2>3. SuspensionHolds'
    BY <2>1, <2>2 DEF SettledInv, SuspensionHolds, TypeOK, Rows
  <2>4. \A v \in settled' : At("verify", v) = {}
    BY <2>2 DEF SettledInv, LinksSpent
  <2>5. \A v \in settled' : At("verify", v)' = {}
    BY <2>1, <2>4 DEF At
  <2>. QED
    BY <2>1, <2>3, <2>5 DEF SettledInv, LinksSpent
<1>4. ASSUME NEW r \in Requests, NEW place, NEW w, NEW u,
             GoTo(r, place, w, u), place = "verify" => u \in linked,
             UNCHANGED <<status, linked, verified, settled>>
      PROVE  SettledInv'
  <2>1. \A q \in Requests : q # r => pc'[q] = pc[q] /\ who'[q] = who[q]
    BY <1>4 DEF GoTo, TypeOK
  <2>2. pc'[r] = place /\ who'[r] = u
    BY <1>4 DEF GoTo, TypeOK
  <2>. QED
    BY <1>4, <2>1, <2>2, SettledByWho
<1>5. ASSUME NEW r \in Requests,
             \/ \E e \in Emails, n \in Names \cup {None} : SignupEmail(r, e, n)
             \/ SignupName(r) \/ SignupPublish(r) \/ SigninOpen(r) \/ Answer(r)
             \/ \E u \in Users : VerifyRead(r, u) \/ SigninRead(r, u) \/ Resend(r, u)
      PROVE  SettledInv'
  <2>1. UNCHANGED <<status, linked, verified, settled>>
    BY <1>5 DEF SignupEmail, SignupName, SignupPublish, SigninOpen, Answer, VerifyRead,
                SigninRead, Resend, rowVars, historyVars
  <2>2. \E place, w, u : GoTo(r, place, w, u) /\ (place = "verify" => u \in linked)
    <3>1. CASE \E e \in Emails, n \in Names \cup {None} : SignupEmail(r, e, n)
      <4>1. PICK e \in Emails, n \in Names \cup {None} : SignupEmail(r, e, n)
        BY <3>1
      <4>2. PICK place \in {"emailTaken", "name"} :
              GoTo(r, place, [email |-> e, name |-> n], None)
        BY <4>1 DEF SignupEmail
      <4>. QED
        BY <4>2
    <3>2. CASE SignupName(r)
      <4>1. PICK place \in {"nameTaken", "create"} : GoTo(r, place, want[r], None)
        BY <3>2 DEF SignupName
      <4>. QED
        BY <4>1
    <3>3. CASE SignupPublish(r) \/ SigninOpen(r) \/ Answer(r)
      <4>1. GoTo(r, "idle", NoWant, None)
        BY <3>3 DEF SignupPublish, SigninOpen, Answer, EndRequest
      <4>. QED
        BY <4>1
    <3>4. CASE \E u \in Users : VerifyRead(r, u) \/ SigninRead(r, u) \/ Resend(r, u)
      <4>1. PICK u \in Users : VerifyRead(r, u) \/ SigninRead(r, u) \/ Resend(r, u)
        BY <3>4
      <4>2. PICK place \in {"expired", "verify", "compare", "resend"} :
              GoTo(r, place, NoWant, u) /\ (place = "verify" => u \in linked)
        BY <4>1 DEF VerifyRead, SigninRead, Resend
      <4>. QED
        BY <4>2
    <3>. QED
      BY <1>5, <3>1, <3>2, <3>3, <3>4
  <2>. QED
    BY <1>4, <2>1, <2>2
<1>6. ASSUME \/ \E u \in Users, ok \in BOOLEAN : MailPost(u, ok) \/ MailSend(u, ok)
             \/ Restart \/ Tick \/ UNCHANGED vars
      PROVE  SettledInv'
  <2>1. UNCHANGED <<status, linked, verified, settled>>
    BY <1>6 DEF MailPost, MailSend, Restart, Tick, vars, rowVars, historyVars
  <2>2. \A r \in Requests : pc'[r] = "verify" => pc[r] = "verify" /\ who'[r] = who[r]
    BY <1>6 DEF MailPost, MailSend, Restart, Tick, vars, reqVars
  <2>. QED
    BY <2>1, <2>2, SettledByWho
<1>. QED
  BY <1>1, <1>2, <1>3, <1>5, <1>6 DEF Next

(* A suspension that no verification was in progress for is never undone   *)
(* by the link of an email that was verified before.                       *)
THEOREM SuspensionsHold == Spec => []SuspensionHolds
<1>1. Init => SettledInv
  BY DEF Init, SettledInv, SuspensionHolds, LinksSpent
<1>2. TypeOK /\ SettledInv /\ [Next]_vars => SettledInv'
  BY SettledStep
<1>3. SettledInv => SuspensionHolds
  BY DEF SettledInv
<1>. QED
  BY <1>1, <1>2, <1>3, TypeCorrect, PTL DEF Spec

(* A verified email has no usable link, and nobody holds the row of a      *)
(* settled suspension to verify it.                                        *)
THEOREM LinksStaySpent == Spec => []LinksSpent
<1>1. Init => SettledInv
  BY DEF Init, SettledInv, SuspensionHolds, LinksSpent
<1>2. TypeOK /\ SettledInv /\ [Next]_vars => SettledInv'
  BY SettledStep
<1>3. SettledInv => LinksSpent
  BY DEF SettledInv
<1>. QED
  BY <1>1, <1>2, <1>3, TypeCorrect, PTL DEF Spec

-----------------------------------------------------------------------------
(* The sign-ins in progress for a row can be counted. *)
LEMMA AtFinite ==
  ASSUME NEW place, NEW u
  PROVE  IsFiniteSet(At(place, u)) /\ Cardinality(At(place, u)) \in Nat
<1>1. At(place, u) \subseteq Requests
  BY DEF At
<1>. QED
  BY <1>1, RequestsAssumption, FS_Subset, FS_CardinalityType

(* A step that suspends nobody, opens no session and brings no request to  *)
(* the comparison of a suspended user's password.                          *)
LEMMA LateKept ==
  ASSUME TypeOK, LateSignins, UNCHANGED <<late, owed>>,
         \A u \in Users : status'[u] = "SUSPENDED" => status[u] = "SUSPENDED",
         \A r \in Requests, u \in Users :
           pc'[r] = "compare" /\ who'[r] = u /\ status[u] = "SUSPENDED"
             => pc[r] = "compare" /\ who[r] = u
  PROVE  LateSignins'
<1>1. SUFFICES ASSUME NEW u \in Users, status'[u] = "SUSPENDED"
               PROVE  late'[u] + Cardinality(At("compare", u)') <= owed'[u]
  BY DEF LateSignins, Users
<1>2. status[u] = "SUSPENDED"
  BY <1>1
<1>3. At("compare", u)' \subseteq At("compare", u)
  BY <1>2 DEF At
<1>4. /\ Cardinality(At("compare", u)') \in Nat
      /\ Cardinality(At("compare", u)') <= Cardinality(At("compare", u))
  BY <1>3, AtFinite, FS_Subset, FS_CardinalityType
<1>5. late[u] + Cardinality(At("compare", u)) <= owed[u]
  BY <1>2 DEF LateSignins
<1>6. late[u] \in Nat /\ owed[u] \in Nat /\ Cardinality(At("compare", u)) \in Nat
  BY AtFinite DEF TypeOK
<1>. QED
  BY <1>4, <1>5, <1>6

(* A sign-in that opens its session leaves the comparison. *)
LEMMA LateOpened ==
  ASSUME TypeOK, LateSignins, NEW r \in Requests, SigninOpen(r)
  PROVE  LateSignins'
<1>1. SUFFICES ASSUME NEW u \in Users, status[u] = "SUSPENDED"
               PROVE  late'[u] + Cardinality(At("compare", u)') <= owed[u]
  BY DEF LateSignins, Users, SigninOpen, rowVars
<1>2. /\ \A q \in Requests : q # r => pc'[q] = pc[q] /\ who'[q] = who[q]
      /\ pc[r] = "compare" /\ pc'[r] = "idle"
  BY DEF SigninOpen, EndRequest, GoTo, TypeOK
<1>3. At("compare", u)' = At("compare", u) \ {r}
  BY <1>2 DEF At
<1>4. late[u] + Cardinality(At("compare", u)) <= owed[u]
  BY <1>1 DEF LateSignins
<1>5. /\ late[u] \in Nat /\ owed[u] \in Nat
      /\ IsFiniteSet(At("compare", u)) /\ Cardinality(At("compare", u)) \in Nat
  BY AtFinite DEF TypeOK
<1>6. CASE who[r] = u
  <2>1. r \in At("compare", u)
    BY <1>2, <1>6 DEF At
  <2>2. Cardinality(At("compare", u)') = Cardinality(At("compare", u)) - 1
    BY <1>3, <1>5, <2>1, FS_RemoveElement
  <2>3. late'[u] = late[u] + 1
    BY <1>1, <1>6 DEF SigninOpen, TypeOK
  <2>. QED
    BY <1>4, <1>5, <2>2, <2>3
<1>7. CASE who[r] # u
  <2>1. At("compare", u)' = At("compare", u)
    BY <1>3, <1>7 DEF At
  <2>2. late'[u] = late[u]
    BY <1>7 DEF SigninOpen, TypeOK
  <2>. QED
    BY <1>4, <2>1, <2>2
<1>. QED
  BY <1>6, <1>7

(* A suspension starts the count anew for its row. *)
LEMMA LateSuspended ==
  ASSUME TypeOK, LateSignins, NEW v \in Users, Suspend(v)
  PROVE  LateSignins'
<1>1. SUFFICES ASSUME NEW u \in Users, status'[u] = "SUSPENDED"
               PROVE  late'[u] + Cardinality(At("compare", u)) <= owed'[u]
  <2>1. \A u \in Users : At("compare", u)' = At("compare", u)
    BY DEF Suspend, reqVars, At
  <2>. QED
    BY <1>1, <2>1 DEF LateSignins, Users
<1>2. CASE u = v
  BY <1>2, AtFinite DEF Suspend, TypeOK
<1>3. CASE u # v
  BY <1>1, <1>3 DEF Suspend, LateSignins, TypeOK
<1>. QED
  BY <1>2, <1>3

(* A suspended user gets no more sessions from signin itself than there    *)
(* were passwords being compared when the suspension came.                 *)
THEOREM LateSigninsBounded == Spec => []LateSignins
<1>1. Init => LateSignins
  BY DEF Init, LateSignins
<1>2. ASSUME TypeOK, LateSignins, NEW r \in Requests, NEW place, NEW w, NEW u,
             GoTo(r, place, w, u), place = "compare" => status[u] = "ACTIVE",
             UNCHANGED <<late, owed>>,
             \A v \in Users : status'[v] = "SUSPENDED" => status[v] = "SUSPENDED"
      PROVE  LateSignins'
  <2>1. \A q \in Requests : q # r => pc'[q] = pc[q] /\ who'[q] = who[q]
    BY <1>2 DEF GoTo, TypeOK
  <2>2. pc'[r] = place /\ who'[r] = u
    BY <1>2 DEF GoTo, TypeOK
  <2>. QED
    BY <1>2, <2>1, <2>2, LateKept
<1>3. TypeOK /\ LateSignins /\ [Next]_vars => LateSignins'
  <2>. SUFFICES ASSUME TypeOK, LateSignins, [Next]_vars
                PROVE  LateSignins'
    OBVIOUS
  <2>1. ASSUME NEW r \in Requests, NEW u \in Users, NEW n \in Names \cup Generated,
               NEW ok \in BOOLEAN, SignupCreate(r, u, n, ok)
        PROVE  LateSignins'
    <3>1. PICK place, w : place \in {"publish", "idle"} /\ GoTo(r, place, NoWant, w)
      BY <2>1 DEF SignupCreate, EndRequest
    <3>2. \A v \in Users : status'[v] = "SUSPENDED" => status[v] = "SUSPENDED"
      BY <2>1 DEF SignupCreate, TypeOK, rowVars
    <3>. QED
      BY <1>2, <2>1, <3>1, <3>2 DEF SignupCreate, historyVars
  <2>2. ASSUME NEW r \in Requests, VerifyUpdate(r)
        PROVE  LateSignins'
    <3>1. \A v \in Users : status'[v] = "SUSPENDED" => status[v] = "SUSPENDED"
      BY <2>2 DEF VerifyUpdate, TypeOK
    <3>. QED
      BY <1>2, <2>2, <3>1 DEF VerifyUpdate, EndRequest
  <2>3. ASSUME NEW r \in Requests,
               \/ \E e \in Emails, n \in Names \cup {None} : SignupEmail(r, e, n)
               \/ SignupName(r) \/ SignupPublish(r) \/ Answer(r)
               \/ \E u \in Users : VerifyRead(r, u) \/ SigninRead(r, u) \/ Resend(r, u)
        PROVE  LateSignins'
    <3>1. UNCHANGED <<status, late, owed>>
      BY <2>3 DEF SignupEmail, SignupName, SignupPublish, Answer, VerifyRead, SigninRead,
                  Resend, rowVars, historyVars
    <3>2. \E place, w, u : GoTo(r, place, w, u) /\ (place = "compare" => status[u] = "ACTIVE")
      <4>1. CASE \E e \in Emails, n \in Names \cup {None} : SignupEmail(r, e, n)
        <5>1. PICK e \in Emails, n \in Names \cup {None} : SignupEmail(r, e, n)
          BY <4>1
        <5>2. PICK place \in {"emailTaken", "name"} :
                GoTo(r, place, [email |-> e, name |-> n], None)
          BY <5>1 DEF SignupEmail
        <5>. QED
          BY <5>2
      <4>2. CASE SignupName(r)
        <5>1. PICK place \in {"nameTaken", "create"} : GoTo(r, place, want[r], None)
          BY <4>2 DEF SignupName
        <5>. QED
          BY <5>1
      <4>3. CASE SignupPublish(r) \/ Answer(r)
        <5>1. GoTo(r, "idle", NoWant, None)
          BY <4>3 DEF SignupPublish, Answer, EndRequest
        <5>. QED
          BY <5>1
      <4>4. CASE \E u \in Users : VerifyRead(r, u) \/ SigninRead(r, u) \/ Resend(r, u)
        <5>1. PICK u \in Users : VerifyRead(r, u) \/ SigninRead(r, u) \/ Resend(r, u)
          BY <4>4
        <5>2. PICK place \in {"expired", "verify", "compare", "resend"} :
                GoTo(r, place, NoWant, u) /\ (place = "compare" => status[u] = "ACTIVE")
          BY <5>1 DEF VerifyRead, SigninRead, Resend
        <5>. QED
          BY <5>2
      <4>. QED
        BY <2>3, <4>1, <4>2, <4>3, <4>4
    <3>. QED
      BY <1>2, <3>1, <3>2
  <2>4. ASSUME \/ \E u \in Users, ok \in BOOLEAN : MailPost(u, ok) \/ MailSend(u, ok)
               \/ Restart \/ Tick \/ UNCHANGED vars
        PROVE  LateSignins'
    <3>1. UNCHANGED <<status, late, owed>>
      BY <2>4 DEF MailPost, MailSend, Restart, Tick, vars, rowVars, historyVars
    <3>2. \A r \in Requests : pc'[r] = "compare" => pc[r] = "compare" /\ who'[r] = who[r]
      BY <2>4 DEF MailPost, MailSend, Restart, Tick, vars, reqVars
    <3>. QED
      BY <3>1, <3>2, LateKept
  <2>. QED
    BY <2>1, <2>2, <2>3, <2>4, LateOpened, LateSuspended DEF Next
<1>. QED
  BY <1>1, <1>3, TypeCorrect, PTL DEF Spec

=============================================================================
