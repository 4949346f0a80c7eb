----------------------------- MODULE TwoFactor -----------------------------
(***************************************************************************)
(* Sign-in with a second factor, for one user: signin stores a one-time    *)
(* code (optStore), publishes the mail that carries it and answers with a  *)
(* temporary token; verify2fa compares a guess with the newest unconsumed  *)
(* code (otpVerify) and, when it is right, opens a session.                *)
(*                                                                         *)
(* Codes are numbered in the order of created_at.  Requests overlap: every *)
(* await (the argon2 hash and compare, each query) is a point where        *)
(* another request may run, so otpVerify uses, after its compare, a record *)
(* that others may have changed since it was read.                         *)
(***************************************************************************)
EXTENDS Naturals, FiniteSets

CONSTANTS
  Requests,     \* the requests of this user that can be in progress at once
  MaxCodes,     \* bound: the codes that are ever stored
  MaxAttempts,  \* attempts a code allows (5 in the code)
  CodeLife,     \* lifetime of a code and of a temporary token, in ticks
  AccessLife,   \* lifetime of an access token
  MaxLost,      \* bound: updates that fail, or are cut off, after the compare
  MaxClock      \* bound: the clock stops here

ASSUME RequestsAssumption == IsFiniteSet(Requests)
ASSUME NumbersAssumption ==
  /\ {MaxCodes, CodeLife, AccessLife, MaxLost, MaxClock} \subseteq Nat
  /\ MaxAttempts \in Nat \ {0}

Codes == 1..MaxCodes

VARIABLES
  last,       \* the codes 1..last are stored
  expires,    \* expires_at of each code
  attempts,   \* attempts of each code
  consumed,   \* the codes whose consumed_at is set
  pc,         \* where each request is
  code,       \* the code each request stored or read
  guess,      \* whether the guess of each verification is right
  tokenUntil, \* when the user's last token signed with the access secret runs out
  published,  \* the codes whose mail event was published
  sessions,   \* the sessions opened with each code
  clock,      \* Date.now()
  guesses,    \* history: guesses compared with each code
  accepted,   \* history: right guesses among those that were counted
  overlap,    \* history: verifications in progress at the first right guess
  lost        \* history: guesses compared whose update was never made

codeVars == <<last, expires, attempts, consumed>>
reqVars == <<pc, code, guess>>
historyVars == <<guesses, accepted, overlap, lost>>
vars == <<last, expires, attempts, consumed, pc, code, guess, tokenUntil,
          published, sessions, clock, guesses, accepted, overlap, lost>>

(* The types; only stored codes are consumed or held by a request. *)
TypeOK ==
  /\ last \in 0..MaxCodes
  /\ expires \in [Codes -> Nat]
  /\ attempts \in [Codes -> Nat]
  /\ consumed \subseteq 1..last
  /\ pc \in [Requests -> {"idle", "store", "publish", "compare", "update", "open"}]
  /\ code \in [Requests -> 0..last]
  /\ guess \in [Requests -> {"right", "wrong"}]
  /\ tokenUntil \in Nat
  /\ published \subseteq Codes
  /\ sessions \in [Codes -> Nat]
  /\ clock \in Nat
  /\ guesses \in [Codes -> Nat]
  /\ accepted \in [Codes -> Nat]
  /\ overlap \in [Codes -> Nat]
  /\ lost \in [Codes -> Nat]

Zero == [o \in Codes |-> 0]

(* No code was stored yet. *)
Init ==
  /\ last = 0 /\ consumed = {} /\ published = {}
  /\ expires = Zero /\ attempts = Zero /\ sessions = Zero
  /\ guesses = Zero /\ accepted = Zero /\ overlap = Zero /\ lost = Zero
  /\ pc = [r \in Requests |-> "idle"]
  /\ code = [r \in Requests |-> 0]
  /\ guess = [r \in Requests |-> "wrong"]
  /\ tokenUntil = 0 /\ clock = 0

(* The verifications between their read of o and their update of it. *)
Verifying(o) == {r \in Requests : pc[r] \in {"compare", "update"} /\ code[r] = o}

(* Those whose guess was compared and whose update is still to come. *)
Updating(o) == {r \in Requests : pc[r] = "update" /\ code[r] = o}

(* The verifications that were right about o and have no session yet. *)
Opening(o) == {r \in Requests : pc[r] = "open" /\ code[r] = o}

(* Mutant: the query forgets "consumed_at: null". *)
IsNewest(o) == o = last

(* Mutant: the check that a record was found is forgotten. *)
IsCurrentOrMissing(o) ==
  /\ o \notin consumed
  /\ \A p \in (1..last) \ consumed : p <= o

(* findFirst: o is the newest code that is not consumed. *)
IsCurrent(o) ==
  /\ o \in (1..last) \ consumed
  /\ \A p \in (1..last) \ consumed : p <= o

GoTo(r, place) == pc' = [pc EXCEPT ![r] = place]

(* Request r ends. *)
EndRequest(r) ==
  /\ GoTo(r, "idle")
  /\ code' = [code EXCEPT ![r] = 0]
  /\ guess' = [guess EXCEPT ![r] = "wrong"]

(* Mutant: the count is written back as it was read before the compare, so *)
(* the attempt of one of two overlapping guesses is lost.                  *)
CountAttemptLost(o) ==
  attempts' = IF Cardinality(Verifying(o)) > 1 THEN attempts
              ELSE [attempts EXCEPT ![o] = @ + 1]

(* attempts: { increment: 1 } *)
CountAttempt(o) == attempts' = [attempts EXCEPT ![o] = @ + 1]

(* Mutant: verify2fa does not look at what otpVerify returned. *)
AnswerIgnored(r) ==
  GoTo(r, "open") /\ UNCHANGED <<code, guess>>

(* otpVerify returns: a right guess goes on, a wrong one is a 401. *)
Answer(r) ==
  IF guess[r] = "right" THEN GoTo(r, "open") /\ UNCHANGED <<code, guess>>
              ELSE EndRequest(r)

(* What the update leaves for the history: a right guess was accepted. *)
CountAccepted(r) ==
  LET o == code[r] IN
  IF guess[r] = "right"
  THEN /\ accepted' = [accepted EXCEPT ![o] = @ + 1]
       /\ overlap' = IF accepted[o] = 0
                     THEN [overlap EXCEPT ![o] = Cardinality(Verifying(o))]
                     ELSE overlap
  ELSE UNCHANGED <<accepted, overlap>>

(* The user's tokens: one more is signed, good for that long. *)
SignToken(life) ==
  tokenUntil' = IF clock + life > tokenUntil THEN clock + life ELSE tokenUntil

-----------------------------------------------------------------------------
(* Mutants: plausible mistakes in the code, for the properties to catch. *)

(* The mail is published before the code is stored. *)
SigninStartPublishes(r) ==
  /\ pc[r] = "idle"
  /\ last < MaxCodes
  /\ GoTo(r, "store")
  /\ published' = published \cup {last + 1}
  /\ UNCHANGED <<codeVars, code, guess, tokenUntil, sessions, clock, historyVars>>

-----------------------------------------------------------------------------
(* signin, and adminSignin, which takes the same steps for other users:    *)
(* the password is right and a second factor is asked for.                 *)
SigninStart(r) ==
  /\ pc[r] = "idle"
  /\ last < MaxCodes
  /\ GoTo(r, "store")
  /\ UNCHANGED <<codeVars, code, guess, tokenUntil, published, sessions, clock, historyVars>>

(* optStore: after the hash, the code is created with its expiry. *)
StoreCode(r) ==
  /\ pc[r] = "store"
  /\ last < MaxCodes
  /\ last' = last + 1
  /\ expires' = [expires EXCEPT ![last + 1] = clock + CodeLife]
  /\ code' = [code EXCEPT ![r] = last + 1]
  /\ GoTo(r, "publish")
  /\ UNCHANGED <<attempts, consumed, guess, tokenUntil, published, sessions, clock, historyVars>>

(* signin: the mail is published, the temporary token is the answer. *)
PublishCode(r) ==
  /\ pc[r] = "publish"
  /\ published' = published \cup {code[r]}
  /\ SignToken(CodeLife)
  /\ EndRequest(r)
  /\ UNCHANGED <<codeVars, sessions, clock, historyVars>>

(* verify2fa and otpVerify, to the compare: the token holds, the newest    *)
(* unconsumed code exists, has not expired and has attempts left.          *)
(* Otherwise the answer is a 401 and nothing changes.  A token holds when  *)
(* it was signed with the access secret and has not run out: temporary or  *)
(* access token, its type is not looked at.  The guess g is right when the *)
(* user typed the code this record was made for.                           *)
VerifyRead(r, o, g) ==
  /\ pc[r] = "idle"
  /\ clock < tokenUntil
  /\ IsCurrent(o)
  /\ clock <= expires[o]
  /\ attempts[o] < MaxAttempts
  /\ GoTo(r, "compare")
  /\ code' = [code EXCEPT ![r] = o]
  /\ guess' = [guess EXCEPT ![r] = g]
  /\ UNCHANGED <<codeVars, tokenUntil, published, sessions, clock, historyVars>>

(* otpVerify: the compare answers, and the update is sent. *)
VerifyCompare(r) ==
  /\ pc[r] = "compare"
  /\ GoTo(r, "update")
  /\ guesses' = [guesses EXCEPT ![code[r]] = @ + 1]
  /\ UNCHANGED <<codeVars, code, guess, tokenUntil, published, sessions, clock,
                 accepted, overlap, lost>>

(* otpVerify: one update counts the attempt and writes consumed_at, a date *)
(* or null.                                                                *)
VerifyUpdate(r) ==
  LET o == code[r] IN
  /\ pc[r] = "update"
  /\ CountAttempt(o)
  /\ consumed' = IF guess[r] = "right" THEN consumed \cup {o} ELSE consumed \ {o}
  /\ Answer(r)
  /\ CountAccepted(r)
  /\ UNCHANGED <<last, expires, tokenUntil, published, sessions, clock, guesses, lost>>

(* verify2fa: tokens are generated and the refresh token is stored. *)
OpenSession(r) ==
  /\ pc[r] = "open"
  /\ sessions' = [sessions EXCEPT ![code[r]] = @ + 1]
  /\ SignToken(AccessLife)
  /\ EndRequest(r)
  /\ UNCHANGED <<codeVars, published, clock, historyVars>>

(* refresh, of a session of this user: one more access token. *)
Refresh ==
  /\ \E o \in Codes : sessions[o] > 0
  /\ SignToken(AccessLife)
  /\ UNCHANGED <<codeVars, reqVars, published, sessions, clock, historyVars>>

(* Bound: the updates of these requests may still be lost. *)
MayLose(R) ==
  R # {} => \A o \in Codes : lost[o] + Cardinality(R) <= MaxLost

(* A query or a hash fails: the request ends with what it did so far.  A   *)
(* guess that was compared is never counted when its update fails.         *)
Fail(r) ==
  /\ pc[r] # "idle"
  /\ pc[r] = "update" => MayLose({r})
  /\ lost' = IF pc[r] = "update" THEN [lost EXCEPT ![code[r]] = @ + 1] ELSE lost
  /\ EndRequest(r)
  /\ UNCHANGED <<codeVars, tokenUntil, published, sessions, clock,
                 guesses, accepted, overlap>>

(* The process exits: every request ends where it is. *)
Crash ==
  /\ \E r \in Requests : pc[r] # "idle"
  /\ MayLose({r \in Requests : pc[r] = "update"})
  /\ lost' = [o \in Codes |-> lost[o] + Cardinality(Updating(o))]
  /\ pc' = [r \in Requests |-> "idle"]
  /\ code' = [r \in Requests |-> 0]
  /\ guess' = [r \in Requests |-> "wrong"]
  /\ UNCHANGED <<codeVars, tokenUntil, published, sessions, clock,
                 guesses, accepted, overlap>>

(* Time passes. *)
Tick ==
  /\ clock < MaxClock
  /\ clock' = clock + 1
  /\ UNCHANGED <<codeVars, reqVars, tokenUntil, published, sessions, historyVars>>

Next ==
  \/ \E r \in Requests : \/ SigninStart(r) \/ StoreCode(r) \/ PublishCode(r)
                         \/ VerifyCompare(r) \/ VerifyUpdate(r) \/ OpenSession(r)
                         \/ Fail(r)
  \/ \E r \in Requests, o \in Codes, g \in {"right", "wrong"} : VerifyRead(r, o, g)
  \/ Refresh
  \/ Crash
  \/ Tick

Spec == Init /\ [][Next]_vars

-----------------------------------------------------------------------------
(* However verifications overlap, a code is compared with fewer guesses    *)
(* than its limit plus the verifications that can be in progress, plus     *)
(* those that never reached their update: every other guess is counted     *)
(* though the count was read before the compare (auth.service.ts:588-598). *)
GuessBound ==
  \A o \in Codes : guesses[o] <= MaxAttempts - 1 + Cardinality(Requests) + lost[o]

(* A code whose first right guess had no other verification in progress    *)
(* stays consumed and opens at most one session (auth.service.ts:577,596). *)
OneSessionPerCode ==
  \A o \in Codes : overlap[o] = 1 => o \in consumed /\ sessions[o] <= 1

(* A session was opened by a right guess of its own; a failure between the *)
(* update and createToken loses a session, it never adds one               *)
(* (auth.service.ts:592-600 and 335-350).                                  *)
SessionsEarned ==
  \A o \in Codes :
    sessions[o] + Cardinality(Opening(o)) <= accepted[o] /\ accepted[o] <= attempts[o]

(* A mail never carries a code the database does not hold, and nobody has  *)
(* a token of this user before a code is stored (auth.service.ts:221-231). *)
MailedIsStored ==
  /\ published \subseteq 1..last
  /\ tokenUntil > 0 => last > 0

(* What the steps preserve. *)
AttemptBudget ==
  \A o \in Codes :
    /\ guesses[o] = attempts[o] + Cardinality(Updating(o)) + lost[o]
    /\ attempts[o] + Cardinality(Verifying(o)) <= MaxAttempts - 1 + Cardinality(Requests)

(* What the steps preserve about a code whose first right guess was alone. *)
ConsumedAlone ==
  \A o \in Codes :
    /\ accepted[o] = 0 => overlap[o] = 0
    /\ overlap[o] = 1 => o \in consumed /\ Verifying(o) = {} /\ accepted[o] = 1

(* What the steps of signin, optStore and otpVerify preserve together: the *)
(* strengthening of GuessBound and of OneSessionPerCode.                   *)
IndInv == AttemptBudget /\ ConsumedAlone

=============================================================================
