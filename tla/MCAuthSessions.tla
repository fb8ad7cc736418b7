--------------------------- MODULE MCAuthSessions ----------------------------
(***************************************************************************)
(* A small instance of AuthSessions: three calls at a time.                *)
(***************************************************************************)
EXTENDS AuthSessions, TLC

CONSTANTS c1, c2, c3

Calls == Permutations({c1, c2, c3})
=============================================================================
