----------------------------- MODULE MCSSHPool -----------------------------
(* Small instances of SSHPool for TLC. *)
EXTENDS SSHPool, TLC

CONSTANTS g1, g2, g3

CallSymmetry == Permutations(Calls)
=============================================================================
