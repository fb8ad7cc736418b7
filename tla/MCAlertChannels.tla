--------------------------- MODULE MCAlertChannels ---------------------------
(***************************************************************************)
(* A small instance of AlertChannels: two PATCH calls at a time.           *)
(***************************************************************************)
EXTENDS AlertChannels, TLC

CONSTANTS p1, p2, chat1, url1

\* Each field by itself, and all of them, as the page sends them.
SomeFields == {{"type"}, {"address"}, {"enabled"}, {"type", "address", "enabled"}}

Calls == Permutations({p1, p2})
=============================================================================
