---------------------------- MODULE MCLifecycle ----------------------------
(* Lifecycle for TLC.  No symmetry: the run checks liveness. *)
EXTENDS Lifecycle, TLC
=============================================================================
