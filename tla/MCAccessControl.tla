-------------------------- MODULE MCAccessControl --------------------------
(* AccessControl for TLC: requests are interchangeable. *)
EXTENDS AccessControl, TLC

Symmetry == Permutations(Requests)
=============================================================================
