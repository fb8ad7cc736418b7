----------------------------- MODULE MCTargetApi -----------------------------
(***************************************************************************)
(* A small instance of TargetApi: three targets, two calls in flight, one  *)
(* connection of the worker, and a log of at most three checks.            *)
(***************************************************************************)
EXTENDS TargetApi, TLC

CONSTANTS c1, c2, p1

MCTime == {0, 1}

Results(outcomes) == [i \in DOMAIN outcomes |-> [outcome |-> outcomes[i], at |-> 0]]

MCHistories == {Results(h) : h \in {<< >>, <<"fail", "fail">>}}

\* The third result comes between the first two in the order of the ids.
MCLogId == [m \in Monitor |-> <<1, 3, 2>>]

Clients == Permutations({c1, c2})

\* Bound: the calls and the worker change the first target only; the others are
\* created, deleted and listed.  Targets are created, and claimed, at 0: of the
\* times it is those of the checks that matter here.
FirstOnly ==
  /\ \A m \in Monitor : created[m] = 0 /\ row[m].nextCheck <= 30
  /\ \A m \in Monitor \ {1} : /\ row[m].enabled = (phase[m] = "live")
                             /\ row[m].nextCheck = 0 /\ checklogs[m] = << >>
  /\ \A p \in Process : tx[p] # None => tx[p].monitor = 1
  /\ \A c \in Client : call[c] # None /\ call[c].op # "targets" => call[c].of = 1

\* Bound: what a call does not read stays as it is meanwhile.  A list of the
\* targets is read of targets without checks, all else where there is one target.
ReadsOnly ==
  \A c \in Client : call[c] # None =>
    IF call[c].op = "targets" THEN checklogs[1] = << >> /\ \A p \in Process : tx[p] = None
    ELSE \A m \in Monitor \ {1} : phase[m] = "new"
=============================================================================
