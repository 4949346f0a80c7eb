-------------------------- MODULE MCTrustedDevices --------------------------
(* TrustedDevices, and the cache under it, for TLC: requests are           *)
(* interchangeable.                                                        *)
EXTENDS TrustedDevices, TLC

Symmetry == Permutations(Requests)
=============================================================================
