----------------------------- MODULE MCAccount -----------------------------
(* Account for TLC: requests and emails are interchangeable. *)
EXTENDS Account, TLC

Symmetry == Permutations(Requests) \cup Permutations(Emails)
=============================================================================
