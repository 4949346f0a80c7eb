-------------------------- MODULE MCRefreshTokens --------------------------
(* RefreshTokens for TLC: requests and tokens are interchangeable. *)
EXTENDS RefreshTokens, TLC

Symmetry == Permutations(Requests) \cup Permutations(Tokens)
=============================================================================
