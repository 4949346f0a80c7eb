------------------------------ MODULE Sessions ------------------------------
(***************************************************************************)
(* What RefreshTokenService promises, without its transaction: a refresh   *)
(* token is live from its issue until it is exchanged for a new one or     *)
(* ended by a sign-out, each in one step.                                  *)
(*                                                                         *)
(* The promise is weaker than "exchanged once": rotations that overlap the *)
(* step that takes a token out of use may still exchange it.  How many     *)
(* they are is settled in that very step, and only falls afterwards.       *)
(***************************************************************************)
EXTENDS Naturals

CONSTANTS
  Tokens,   \* the refresh tokens that can ever be issued
  NoToken,  \* no token
  Rivals    \* how many exchanges can be in progress at once

VARIABLES
  live,    \* tokens that can be exchanged
  ended,   \* tokens a sign-out took out of use
  origin,  \* for each issued token, the one it was exchanged for, or NoToken
  issued,  \* tokens given out
  owed     \* exchanges still to be expected of a token out of use

vars == <<live, ended, origin, issued, owed>>

(* Nobody is signed in. *)
Init ==
  /\ live = {} /\ ended = {} /\ issued = {}
  /\ origin = [t \in Tokens |-> NoToken]
  /\ owed = [t \in Tokens |-> 0]

(* A sign-in opens a session. *)
Open(n) ==
  /\ n \in Tokens \ issued
  /\ issued' = issued \cup {n}
  /\ live' = live \cup {n}
  /\ UNCHANGED <<ended, origin, owed>>

(* The live token t is exchanged for n; k rivals read t before. *)
Exchange(t, n, k) ==
  /\ t \in live /\ n \in Tokens \ issued
  /\ k < Rivals
  /\ issued' = issued \cup {n}
  /\ live' = (live \ {t}) \cup {n}
  /\ origin' = [origin EXCEPT ![n] = t]
  /\ owed' = [owed EXCEPT ![t] = k]
  /\ UNCHANGED ended

(* A rival exchanges t, which is out of use by now. *)
ExchangeLate(t, n) ==
  /\ t \in issued \ live /\ n \in Tokens \ issued
  /\ owed[t] > 0
  /\ issued' = issued \cup {n}
  /\ live' = live \cup {n}
  /\ origin' = [origin EXCEPT ![n] = t]
  /\ owed' = [owed EXCEPT ![t] = @ - 1]
  /\ UNCHANGED ended

(* A sign-out ends t; k rivals read t before. *)
End(t, k) ==
  /\ t \in live
  /\ live' = live \ {t}
  /\ ended' = ended \cup {t}
  /\ owed' = [owed EXCEPT ![t] = k]
  /\ UNCHANGED <<origin, issued>>

(* Rivals give up: a rollback, a timeout, the end of the process. *)
Lapse ==
  /\ owed' \in [Tokens -> 0..Rivals]
  /\ \A t \in Tokens : owed'[t] <= owed[t]
  /\ UNCHANGED <<live, ended, origin, issued>>

Next ==
  \/ \E n \in Tokens : Open(n)
  \/ \E t, n \in Tokens, k \in 0..Rivals : Exchange(t, n, k)
  \/ \E t, n \in Tokens : ExchangeLate(t, n)
  \/ \E t \in Tokens, k \in 0..Rivals : End(t, k)
  \/ Lapse

Spec == Init /\ [][Next]_vars
=============================================================================
