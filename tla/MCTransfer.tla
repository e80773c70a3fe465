----------------------------- MODULE MCTransfer -----------------------------
(* Small instances of Transfer for TLC. *)
EXTENDS Transfer

CONSTANTS j1, j2, r1, r2, r3
=============================================================================
