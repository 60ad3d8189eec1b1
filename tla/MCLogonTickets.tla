--------------------------- MODULE MCLogonTickets ---------------------------
(* Instances of LogonTickets for TLC. *)
EXTENDS LogonTickets, TLC

CONSTANTS u1, u2, Root, Daemon

Symmetry == Permutations(Users) \cup Permutations(Names)
=============================================================================
