----------------------------- MODULE MCLicense -----------------------------
(* Small instances of License for TLC. *)
EXTENDS License

CONSTANTS k1, h1, h2
=============================================================================
