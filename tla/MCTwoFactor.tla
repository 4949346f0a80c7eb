---------------------------- MODULE MCTwoFactor ----------------------------
(* TwoFactor for TLC: requests are interchangeable. *)
EXTENDS TwoFactor, TLC

Symmetry == Permutations(Requests)
=============================================================================
