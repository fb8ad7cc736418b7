---------------------------- MODULE TargetHealth -----------------------------
(***************************************************************************)
(* What the owner of targets is promised, without logs, counts of          *)
(* failures, claims, locks or transactions: a target is up, down or not    *)
(* known yet; when it goes down an incident is opened, when it recovers    *)
(* that incident is resolved, and nothing else opens or resolves one.      *)
(***************************************************************************)
EXTENDS Naturals

CONSTANT Target

VARIABLES
  health,     \* health[t]: "absent", "unknown", "up", "down" or "removed"
  opened,     \* opened[t]: incidents opened so far
  resolved    \* resolved[t]: those of them that were resolved

healthVars == <<health, opened, resolved>>

Consistent(t) ==
  /\ opened[t] = resolved[t] + (IF health[t] = "down" THEN 1 ELSE 0)
  /\ health[t] \in {"absent", "unknown", "removed"} => opened[t] = 0

HealthInit ==
  /\ health \in [Target -> {"absent", "unknown", "up", "down"}]
  /\ opened \in [Target -> Nat] /\ resolved \in [Target -> Nat]
  /\ \A t \in Target : Consistent(t)

Move(t, from, to) ==
  /\ health[t] \in from
  /\ health' = [health EXCEPT ![t] = to]

Added(t) == Move(t, {"absent"}, "unknown") /\ UNCHANGED <<opened, resolved>>

Answers(t) == Move(t, {"unknown"}, "up") /\ UNCHANGED <<opened, resolved>>

Falls(t) ==
  /\ Move(t, {"unknown", "up"}, "down")
  /\ opened' = [opened EXCEPT ![t] = @ + 1]
  /\ UNCHANGED resolved

Recovers(t) ==
  /\ Move(t, {"down"}, "up")
  /\ resolved' = [resolved EXCEPT ![t] = @ + 1]
  /\ UNCHANGED opened

Removed(t) ==
  /\ Move(t, {"unknown", "up", "down"}, "removed")
  /\ opened' = [opened EXCEPT ![t] = 0]
  /\ resolved' = [resolved EXCEPT ![t] = 0]

HealthNext ==
  \E t \in Target : Added(t) \/ Answers(t) \/ Falls(t) \/ Recovers(t) \/ Removed(t)

HealthSpec == HealthInit /\ [][HealthNext]_healthVars
=============================================================================
