---------------------------- MODULE MonitorStatus ----------------------------
(***************************************************************************)
(* The state machine of a monitor (src/internal/worker/state.go): what one *)
(* check result does to the status and the count of consecutive failures,  *)
(* and which event it emits.  The second half defines, on the log of all   *)
(* the results and without any step-by-step state, what the machine is     *)
(* meant to have computed.                                                 *)
(***************************************************************************)
EXTENDS Integers, Sequences

CONSTANT Outcome    \* what a check can end with: "ok" or a kind of failure

ASSUME OutcomeAssumption == "ok" \in Outcome

Status    == {"unknown", "up", "down"}
EventType == {"none", "down", "recovered"}

Success(outcome) == outcome = "ok"

FailureThreshold == 3

\* Mutant: down is reached one failure late.
TransitionOffByOne(status, failures, outcome) ==
  IF Success(outcome)
  THEN [status   |-> "up",
        failures |-> 0,
        event    |-> IF status = "down" THEN "recovered" ELSE "none"]
  ELSE LET reached == failures + 1 > FailureThreshold
       IN  [status   |-> IF reached THEN "down" ELSE status,
            failures |-> failures + 1,
            event    |-> IF reached /\ status # "down" THEN "down" ELSE "none"]

\* Mutant: every failure past the threshold is a down event.
TransitionRepeating(status, failures, outcome) ==
  IF Success(outcome)
  THEN [status   |-> "up",
        failures |-> 0,
        event    |-> IF status = "down" THEN "recovered" ELSE "none"]
  ELSE LET reached == failures + 1 >= FailureThreshold
       IN  [status   |-> IF reached THEN "down" ELSE status,
            failures |-> failures + 1,
            event    |-> IF reached THEN "down" ELSE "none"]

evaluateStateTransition(status, failures, outcome) ==
  IF Success(outcome)
  THEN [status   |-> "up",
        failures |-> 0,
        event    |-> IF status = "down" THEN "recovered" ELSE "none"]
  ELSE LET reached == failures + 1 >= FailureThreshold
       IN  [status   |-> IF reached THEN "down" ELSE status,
            failures |-> failures + 1,
            event    |-> IF reached /\ status # "down" THEN "down" ELSE "none"]

-----------------------------------------------------------------------------
(* The meaning of a log, a sequence of records with a field outcome. *)

Failed(log, i) == ~ Success(log[i].outcome)

\* The log ends in exactly k failures.
IsStreak(log, k) ==
  /\ k \in 0 .. Len(log)
  /\ \A i \in Len(log) - k + 1 .. Len(log) : Failed(log, i)
  /\ k < Len(log) => ~ Failed(log, Len(log) - k)

\* The status of a monitor whose log ends in exactly k failures.
StatusAfter(log, k) ==
  CASE k >= FailureThreshold                  -> "down"
    [] k < FailureThreshold /\ k = Len(log)   -> "unknown"
    [] k < FailureThreshold /\ k # Len(log)   -> "up"

\* The positions at which an outage begins: the third failure of a run.
OutageStarts(log) ==
  {i \in FailureThreshold .. Len(log) :
     /\ Failed(log, i) /\ Failed(log, i - 1) /\ Failed(log, i - 2)
     /\ i > FailureThreshold => ~ Failed(log, i - 3)}
=============================================================================
