---------------------------- MODULE MCSeeding ----------------------------
(* Seeding for TLC: one permission ADMIN gets, one it does not. *)
EXTENDS Seeding, TLC

SomePermissions == { [resource |-> "user", action |-> "READ"],
                    [resource |-> "system", action |-> "READ"] }

Symmetry == Permutations(Seeders)
=============================================================================
