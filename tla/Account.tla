------------------------------ MODULE Account ------------------------------
(***************************************************************************)
(* The life of an account: signup, the mail with the verification link,    *)
(* verify-email, and the status check of sign-in, run by overlapping       *)
(* requests of a process that may restart.                                 *)
(*                                                                         *)
(* Each query of a handler is a step.  The mail is sent by a handler of    *)
(* the event bus that nobody waits for: it posts to Slack, then sends, and *)
(* an error of either is logged and the mail is lost.                      *)
(*                                                                         *)
(* Row u of the users table is named by its number; its verification token *)
(* (256 random bits) is named by the row.                                  *)
(***************************************************************************)
EXTENDS Naturals, FiniteSets

CONSTANTS
  Requests,   \* the requests in progress at once
  Emails,
  Names,      \* the usernames people ask for
  Generated,  \* the usernames generateUsername makes up
  None,       \* no username was given; no row
  LinkLife,   \* EMAIL_VERIFY_EXPIRES_MS, in ticks
  MaxUsers,   \* bound: rows of the users table
  MaxClock    \* bound: the clock stops here

ASSUME NamesAssumption ==
  Names \cap Generated = {} /\ None \notin Names \cup Generated \cup Emails
ASSUME RequestsAssumption == IsFiniteSet(Requests)
ASSUME BoundsAssumption ==
  {LinkLife, MaxUsers, MaxClock} \subseteq Nat /\ None \notin Nat

VARIABLES
  email, username,  \* the columns of each row, None where there is no row
  status,           \* likewise; "none" where there is no row
  linked,           \* the rows whose verification_token is not null
  expires,          \* verification_expires of each row
  mail,             \* what became of the mail of each row
  pc,               \* where each request is
  want,             \* the email and username a signup asks for
  who,              \* the row another request has read
  clock,            \* Date.now()
  verified,         \* history: rows whose email was verified
  settled,          \* history: of those, the ones suspended since, with no
                    \*   verification in progress at the time
  owed, late        \* history: sign-ins that were in progress when the row
                    \*   was last suspended, and sessions opened since

rowVars == <<email, username, status, linked, expires>>
reqVars == <<pc, want, who>>
historyVars == <<verified, settled, owed, late>>
vars == <<email, username, status, linked, expires, mail, pc, want, who, clock,
          verified, settled, owed, late>>

Users == 1..MaxUsers
Rows == {u \in Users : status[u] # "none"}
NoWant == [email |-> None, name |-> None]

(* The types; a request that goes on to publish, activate or open a session *)
(* holds a row that exists.                                                *)
TypeOK ==
  /\ email \in [Users -> Emails \cup {None}]
  /\ username \in [Users -> Names \cup Generated \cup {None}]
  /\ status \in [Users -> {"none", "PENDING", "ACTIVE", "SUSPENDED"}]
  /\ linked \subseteq Rows
  /\ expires \in [Users -> Nat]
  /\ mail \in [Users -> {"none", "queued", "posted", "sent", "lost"}]
  /\ pc \in [Requests -> {"idle", "name", "create", "publish", "verify", "compare",
                          "emailTaken", "nameTaken", "expired", "resend"}]
  /\ want \in [Requests -> [email : Emails \cup {None}, name : Names \cup {None}]]
  /\ who \in [Requests -> Users \cup {None}]
  /\ \A r \in Requests : pc[r] \in {"publish", "verify", "compare"} => who[r] \in Rows
  /\ clock \in Nat
  /\ verified \subseteq Rows /\ settled \subseteq verified
  /\ owed \in [Users -> Nat] /\ late \in [Users -> Nat]

(* No row, no request. *)
Init ==
  /\ email = [u \in Users |-> None] /\ username = [u \in Users |-> None]
  /\ status = [u \in Users |-> "none"]
  /\ linked = {} /\ expires = [u \in Users |-> 0]
  /\ mail = [u \in Users |-> "none"]
  /\ pc = [r \in Requests |-> "idle"]
  /\ want = [r \in Requests |-> NoWant] /\ who = [r \in Requests |-> None]
  /\ clock = 0
  /\ verified = {} /\ settled = {}
  /\ owed = [u \in Users |-> 0] /\ late = [u \in Users |-> 0]

(* Request r goes on to place, about signup w or row u. *)
GoTo(r, place, w, u) ==
  /\ pc' = [pc EXCEPT ![r] = place]
  /\ want' = [want EXCEPT ![r] = w]
  /\ who' = [who EXCEPT ![r] = u]

EndRequest(r) == GoTo(r, "idle", NoWant, None)

(* The requests at place about row u. *)
At(place, u) == {r \in Requests : pc[r] = place /\ who[r] = u}

-----------------------------------------------------------------------------
(* signup: is there a user with this email? *)
SignupEmail(r, e, n) ==
  /\ pc[r] = "idle"
  /\ GoTo(r, IF \E u \in Rows : email[u] = e THEN "emailTaken" ELSE "name",
          [email |-> e, name |-> n], None)
  /\ UNCHANGED <<rowVars, mail, clock, historyVars>>

(* signup: is there a user with this username?  A username that was not    *)
(* given is no condition at all: any user is found.                        *)
SignupName(r) ==
  /\ pc[r] = "name"
  /\ LET found == {u \in Rows : want[r].name \in {None, username[u]}} IN
     GoTo(r, IF found # {} THEN "nameTaken" ELSE "create", want[r], None)
  /\ UNCHANGED <<rowVars, mail, clock, historyVars>>

(* Mutant: nothing but the two queries keeps emails and usernames unique. *)
FreeUnchecked(e, n) == TRUE

(* The unique indexes on email and username. *)
Free(e, n) == \A u \in Rows : email[u] # e /\ username[u] # n

(* Mutant: a create that fails is taken for one that succeeded. *)
SignupCreateSwallows(r, u, n, answered) ==
  /\ pc[r] = "create"
  /\ n \in IF want[r].name = None THEN Generated ELSE {want[r].name}
  /\ status[u] = "none"
  /\ IF Free(want[r].email, n)
     THEN /\ email' = [email EXCEPT ![u] = want[r].email]
          /\ username' = [username EXCEPT ![u] = n]
          /\ status' = [status EXCEPT ![u] = "PENDING"]
          /\ linked' = linked \cup {u}
          /\ expires' = [expires EXCEPT ![u] = clock + LinkLife]
     ELSE UNCHANGED rowVars
  /\ GoTo(r, "publish", NoWant, u)
  /\ UNCHANGED <<mail, clock, historyVars>>

(* signup: the row is created, once the password is hashed; or the create  *)
(* fails on a unique index; or its answer is lost.                         *)
SignupCreate(r, u, n, answered) ==
  /\ pc[r] = "create"
  /\ n \in IF want[r].name = None THEN Generated ELSE {want[r].name}
  /\ status[u] = "none"
  /\ IF Free(want[r].email, n)
     THEN /\ email' = [email EXCEPT ![u] = want[r].email]
          /\ username' = [username EXCEPT ![u] = n]
          /\ status' = [status EXCEPT ![u] = "PENDING"]
          /\ linked' = linked \cup {u}
          /\ expires' = [expires EXCEPT ![u] = clock + LinkLife]
          /\ IF answered THEN GoTo(r, "publish", NoWant, u) ELSE EndRequest(r)
     ELSE EndRequest(r) /\ UNCHANGED rowVars
  /\ UNCHANGED <<mail, clock, historyVars>>

(* signup: the event is published, and the request answered. *)
SignupPublish(r) ==
  /\ pc[r] = "publish"
  /\ mail' = [mail EXCEPT ![who[r]] = "queued"]
  /\ EndRequest(r)
  /\ UNCHANGED <<rowVars, clock, historyVars>>

(* Mailer.sendEmail: the template is filled in and a message posted to     *)
(* Slack; an error of either is an error of the mail.                      *)
MailPost(u, ok) ==
  /\ mail[u] = "queued"
  /\ mail' = [mail EXCEPT ![u] = IF ok THEN "posted" ELSE "lost"]
  /\ UNCHANGED <<rowVars, reqVars, clock, historyVars>>

(* Mailer.sendEmail: the mail is sent, or is not; nobody tries again. *)
MailSend(u, ok) ==
  /\ mail[u] = "posted"
  /\ mail' = [mail EXCEPT ![u] = IF ok THEN "sent" ELSE "lost"]
  /\ UNCHANGED <<rowVars, reqVars, clock, historyVars>>

-----------------------------------------------------------------------------
(* verification_expires < new Date() *)
Expired(u) == expires[u] < clock

(* verifyEmail: the link of row u, which is known once it is on its way,   *)
(* is looked up.  A link that was used before finds no row and the request *)
(* ends at once.                                                           *)
VerifyRead(r, u) ==
  /\ pc[r] = "idle"
  /\ mail[u] # "none" /\ u \in linked
  /\ GoTo(r, IF Expired(u) THEN "expired" ELSE "verify", NoWant, u)
  /\ UNCHANGED <<rowVars, mail, clock, historyVars>>

(* Mutant: the token is not set to null. *)
VerifyUpdateKeepsLink(r) ==
  /\ pc[r] = "verify"
  /\ status' = [status EXCEPT ![who[r]] = "ACTIVE"]
  /\ verified' = verified \cup {who[r]}
  /\ EndRequest(r)
  /\ UNCHANGED <<email, username, expires, linked, mail, clock, settled, owed, late>>

(* verifyEmail: the row that was read is made active, whatever it is now,  *)
(* and its token spent.                                                    *)
VerifyUpdate(r) ==
  /\ pc[r] = "verify"
  /\ status' = [status EXCEPT ![who[r]] = "ACTIVE"]
  /\ linked' = linked \ {who[r]}
  /\ verified' = verified \cup {who[r]}
  /\ EndRequest(r)
  /\ UNCHANGED <<email, username, expires, mail, clock, settled, owed, late>>

(* Mutant: the status is not looked at. *)
SigninReadAnyStatus(r, u) ==
  /\ pc[r] = "idle"
  /\ u \in Rows
  /\ GoTo(r, "compare", NoWant, u)
  /\ UNCHANGED <<rowVars, mail, clock, historyVars>>

(* signin: the user is looked up and is active. *)
SigninRead(r, u) ==
  /\ pc[r] = "idle"
  /\ status[u] = "ACTIVE"
  /\ GoTo(r, "compare", NoWant, u)
  /\ UNCHANGED <<rowVars, mail, clock, historyVars>>

(* signin: the password was right, and a session is opened.  A user with a *)
(* second factor goes on in TwoFactor instead, and this request ends by    *)
(* Answer: verify2fa, which opens that session, and refresh do not look at *)
(* the status again, and are no steps of this module.                      *)
SigninOpen(r) ==
  /\ pc[r] = "compare"
  /\ late' = IF status[who[r]] = "SUSPENDED"
             THEN [late EXCEPT ![who[r]] = @ + 1] ELSE late
  /\ EndRequest(r)
  /\ UNCHANGED <<rowVars, mail, clock, verified, settled, owed>>

(* resendVerification: what runs is refresh, on the body as it was sent.   *)
(* Without a refresh token in it the hash of nothing throws and the        *)
(* request fails; with one, that token is rotated, as RefreshTokens has    *)
(* it.  No link is made and no mail is sent either way.                    *)
Resend(r, u) ==
  /\ pc[r] = "idle"
  /\ u \in Rows
  /\ GoTo(r, "resend", NoWant, u)
  /\ UNCHANGED <<rowVars, mail, clock, historyVars>>

(* A refusal, or the wait for a second factor, is answered; or a query, or *)
(* the comparison, fails.                                                  *)
Answer(r) ==
  /\ pc[r] # "idle" /\ pc[r] # "publish"
  /\ EndRequest(r)
  /\ UNCHANGED <<rowVars, mail, clock, historyVars>>

(* Someone suspends the user of row u in the database. *)
Suspend(u) ==
  /\ status[u] \in {"PENDING", "ACTIVE"}
  /\ status' = [status EXCEPT ![u] = "SUSPENDED"]
  /\ settled' = IF u \in verified /\ At("verify", u) = {} THEN settled \cup {u} ELSE settled
  /\ owed' = [owed EXCEPT ![u] = Cardinality(At("compare", u))]
  /\ late' = [late EXCEPT ![u] = 0]
  /\ UNCHANGED <<email, username, linked, expires, mail, reqVars, clock, verified>>

(* The process ends, by a signal or an uncaught exception, and starts      *)
(* again: a mail that was not handed over is lost.                         *)
Restart ==
  /\ pc' = [r \in Requests |-> "idle"]
  /\ want' = [r \in Requests |-> NoWant]
  /\ who' = [r \in Requests |-> None]
  /\ mail' = [u \in Users |-> IF mail[u] \in {"queued", "posted"} THEN "lost" ELSE mail[u]]
  /\ UNCHANGED <<rowVars, clock, historyVars>>

(* Time passes. *)
Tick ==
  /\ clock < MaxClock
  /\ clock' = clock + 1
  /\ UNCHANGED <<rowVars, mail, reqVars, historyVars>>

Next ==
  \/ \E r \in Requests, e \in Emails, n \in Names \cup {None} : SignupEmail(r, e, n)
  \/ \E r \in Requests : SignupName(r)
  \/ \E r \in Requests, u \in Users, n \in Names \cup Generated, ok \in BOOLEAN :
       SignupCreate(r, u, n, ok)
  \/ \E r \in Requests : SignupPublish(r)
  \/ \E u \in Users, ok \in BOOLEAN : MailPost(u, ok) \/ MailSend(u, ok)
  \/ \E r \in Requests, u \in Users : VerifyRead(r, u) \/ SigninRead(r, u) \/ Resend(r, u)
  \/ \E r \in Requests : VerifyUpdate(r) \/ SigninOpen(r) \/ Answer(r)
  \/ \E u \in Users : Suspend(u)
  \/ Restart \/ Tick

Spec == Init /\ [][Next]_vars

-----------------------------------------------------------------------------
(* No two users have the same email or username, although signup looks     *)
(* both up long before it creates the row (auth.service.ts:42-66).         *)
UniqueIdentity ==
  \A u, v \in Rows : u # v => email[u] # email[v] /\ username[u] # username[v]

(* Once an email was verified its link is spent: a suspension that no      *)
(* verification was in progress for is not undone by the link.  (One that  *)
(* comes before or during the verification is: auth.service.ts:433-440     *)
(* sets the status whatever it is.)                                        *)
SuspensionHolds == \A u \in settled : status[u] = "SUSPENDED"

(* A suspended user gets no more sessions from signin itself than there    *)
(* were sign-ins comparing passwords at the time                           *)
(* (auth.service.ts:202-206). Nothing is said of the sessions verify2fa    *)
(* opens, or of refresh.                                                   *)
LateSignins ==
  \A u \in Users : status[u] = "SUSPENDED" =>
    late[u] + Cardinality(At("compare", u)) <= owed[u]

(* What the steps preserve for SuspensionHolds: the link of a verified     *)
(* email is spent, and nobody holds the row of a settled one to verify it. *)
LinksSpent ==
  /\ verified \cap linked = {}
  /\ \A u \in settled : At("verify", u) = {}

(* The username may be left out of a signup (auth.validator.ts:11-20,      *)
(* auth.swagger.ts:20-23): its absence is no reason to refuse one.         *)
UsernameOptional ==
  [][\A r \in Requests :
       pc[r] = "name" /\ pc'[r] = "nameTaken" => want[r].name # None]_vars

=============================================================================
