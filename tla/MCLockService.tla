--------------------------- MODULE MCLockService ----------------------------
(* Two people take turns at one seat. *)
EXTENDS LockService, TLC

CONSTANTS u1, u2

Symmetry == Permutations({u1, u2})
=============================================================================
