---------------------------- MODULE MCDirectory ----------------------------
(* Directory for TLC: two permissions on one resource, one ADMIN does not get. *)
EXTENDS Directory

SomePermissions == { [resource |-> "user", action |-> "READ"],
                     [resource |-> "user", action |-> "DELETE"] }
=============================================================================
