------------------------------ MODULE MCRunner -------------------------------
(***************************************************************************)
(* Small instances of Runner.  The configurations differ in what the       *)
(* environment does: which API calls, faults, signals and restarts happen. *)
(***************************************************************************)
EXTENDS Runner, WorkerConfig, TLC

CONSTANTS m1, m2, w1, w2

MCTime == 0 .. MaxTime

Results(outcomes) == [i \in DOMAIN outcomes |-> [outcome |-> outcomes[i], at |-> 0]]

\* A monitor that a single failure takes down, and one never checked.
Failing == {Results(<<"fail", "fail">>)}
OnlyNew == {<< >>}

Workers == Permutations({w1, w2})

(* The sizes come from the environment variables, as in the program: a pool *)
(* of Process, and the smallest batch and queue that can be asked for.      *)
MCConfig == LoadConfigFromEnv([WORKER_COUNT      |-> Cardinality(Process),
                               WORKER_BATCH_SIZE |-> 1,
                               WORKER_QUEUE_SIZE |-> 1])
MCBatchSize == MCConfig.BatchSize
MCQueueSize == MCConfig.QueueSize

-----------------------------------------------------------------------------
(* Time without end on a clock of MaxTime, for the liveness run.  Instants  *)
(* matter by their order alone once they are past: a next_check_at before    *)
(* every time the process may yet read is due, and only its place in the     *)
(* order of the claim remains of it.  So an instant at which nothing is      *)
(* scheduled can be taken out and all later ones moved down by one, and what *)
(* no step reads can be forgotten, without changing what any step does.  It  *)
(* is done at once, before the next step of the program.                     *)

\* The times that the claims, the one under way and the next, are made with.
TimesRead == {clock} \cup (IF ticker >= 0 THEN {ticker} ELSE {})
                     \cup (IF schedPc = "claim" THEN {schedNow} ELSE {})

Unused(t) ==
  /\ \A u \in TimesRead : t < u
  /\ \A m \in Monitor : row[m].nextCheck # t

Moved(u) == u - Cardinality({t \in Time : t < u /\ Unused(t)})

\* Where targets answer, no step reads the log, nor when a check was made, but
\* that there was one; nor, once a claim is over, the time it was made with.
TidyUp ==
  /\ clock' = Moved(clock)
  /\ ticker' = Moved(ticker)
  /\ schedNow' = IF schedPc = "claim" THEN Moved(schedNow) ELSE 0
  /\ row' = [m \in Monitor |->
               [row[m] EXCEPT !.nextCheck = Moved(@),
                              !.lastChecked = IF @ = Never THEN @ ELSE 0]]
  /\ checklogs' = [m \in Monitor |-> << >>]
  /\ result' = [w \in Process |-> IF result[w] = None THEN None
                                  ELSE [result[w] EXCEPT !.at = 0]]
  /\ tx' = [p \in Process |-> IF tx[p] = None THEN None ELSE [tx[p] EXCEPT !.at = 0]]
  /\ UNCHANGED <<phase, incidents, pc, job, event, pending, schedPc, batch, jobs,
                 main, listed, sent, faults>>

Tidy ==
  /\ \A t \in Time : ~ Unused(t)
  /\ schedPc = "claim" \/ schedNow = 0
  /\ \A m \in Monitor : row[m].lastChecked \in {Never, 0} /\ checklogs[m] = << >>
  /\ \A w \in Process : /\ result[w] # None => result[w].at = 0
                        /\ tx[w] # None => tx[w].at = 0

TargetsAnswer == \A w \in Process : result'[w] # None => result'[w].outcome # "fail"

EndlessNext == IF Tidy THEN Next /\ TargetsAnswer ELSE TidyUp

EndlessSpec == Init /\ [][EndlessNext]_vars /\ Fairness /\ WF_vars(TidyUp)
-----------------------------------------------------------------------------
(* LoadConfigFromEnv, on every environment of a machine with small ints. *)
ASSUME EveryConfigUsable == \A env \in Env : ConfigUsable(env)
=============================================================================
