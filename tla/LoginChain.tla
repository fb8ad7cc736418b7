------------------------------ MODULE LoginChain ------------------------------
(***************************************************************************)
(* What a signed-in user is promised, without handlers, requests, clocks   *)
(* or statements that fail: a sign-in opens a chain of sessions; its newest*)
(* session, as long as it is honoured, is exchanged for one new session,   *)
(* and once; and a chain that was ended issues and honours nothing again.  *)
(***************************************************************************)

CONSTANT Session    \* the identities that sessions and logins can have

VARIABLE chain
  \* chain[l]: the sessions issued to login l, those of them whose refresh
  \* token is still honoured, and whether l may yet be issued another

ChainInit == chain = [l \in {} |-> {}]

Fresh(s) == \A l \in DOMAIN chain : s \notin chain[l].issued

Becomes(l, issued, honoured, open) ==
  chain' = [k \in DOMAIN chain \cup {l} |->
              IF k = l THEN [issued |-> issued, honoured |-> honoured, open |-> open]
              ELSE chain[k]]

SignIn(l, s) ==
  /\ l \notin DOMAIN chain
  /\ Fresh(s)
  /\ Becomes(l, {s}, {s}, TRUE)

\* The token of s is spent: s is honoured no longer, its successor not yet.
Exchange(l, s) ==
  /\ l \in DOMAIN chain
  /\ chain[l].open /\ chain[l].honoured = {s}
  /\ Becomes(l, chain[l].issued, {}, TRUE)

Renew(l, s) ==
  /\ l \in DOMAIN chain
  /\ chain[l].open /\ chain[l].honoured = {}
  /\ Fresh(s)
  /\ Becomes(l, chain[l].issued \cup {s}, {s}, TRUE)

End(l) ==
  /\ l \in DOMAIN chain
  /\ chain[l].open
  /\ Becomes(l, chain[l].issued, {}, FALSE)

ChainNext ==
  \E l \in Session :
    \/ End(l)
    \/ \E s \in Session : SignIn(l, s) \/ Exchange(l, s) \/ Renew(l, s)

ChainSpec == ChainInit /\ [][ChainNext]_chain
=============================================================================
