---------------------------- MODULE MonitorStore -----------------------------
(***************************************************************************)
(* The tables monitors, checklogs and incidents, and every transaction     *)
(* that writes them: the claim and apply transactions of the worker        *)
(* (src/internal/worker/repository.go) and the single-statement writes of  *)
(* the API (src/internal/monitor/repository.go).                           *)
(*                                                                         *)
(* ApplyCheckResult is the one transaction whose interleaving matters: it  *)
(* reads a monitor row FOR UPDATE, computes the transition from what it    *)
(* read, and writes the row, the log and the incident.  It is two actions: *)
(* ApplyBegin takes the row lock and remembers the row, ApplyCommit makes  *)
(* everything visible at once.  The other transactions lock and write in   *)
(* one step.                                                               *)
(***************************************************************************)
EXTENDS MonitorStatus, FiniteSets

CONSTANTS
  Monitor,     \* identifiers of monitors; gen_random_uuid() never repeats one
  Process,     \* the database connections that apply check results
  Interval,    \* values of interval_seconds, in units of the clock
  Time,        \* instants the callers may pass as now and as checked_at
  Histories,   \* logs a monitor may already have in the initial state
  BatchSize,   \* $2 of the claim query
  MaxLogs,     \* bound: length of one monitor's log
  None         \* nil: among others, no open transaction

ASSUME StoreAssumption ==
  /\ Interval \subseteq Nat \ {0}
  /\ Time \subseteq Nat
  /\ Histories \subseteq Seq([outcome : Outcome, at : Time])
  /\ BatchSize \in Nat \ {0}
  /\ MaxLogs \in Nat
  /\ None \notin [monitor : Monitor, status : Status, failures : Nat,
                  outcome : Outcome, at : Time]

VARIABLES
  phase,       \* phase[m]: is the row of m not yet inserted, live or deleted
  row,         \* row[m]: the columns of monitors that decide behaviour
  checklogs,   \* checklogs[m]: results in the order they were committed
  incidents,   \* incidents[m]: status of each incident, oldest first
  tx           \* tx[p]: the open ApplyCheckResult transaction of p, or None

storeVars == <<phase, row, checklogs, incidents, tx>>

Never == -1    \* last_checked_at is null

RowType == [enabled : BOOLEAN, interval : Interval, status : Status,
            failures : Nat, nextCheck : Nat, lastChecked : Nat \cup {Never}]

\* An open transaction: the row it read under FOR UPDATE, and the result it
\* is applying.
TxType == [monitor : Monitor, status : Status, failures : Nat,
           outcome : Outcome, at : Time]

Live == {m \in Monitor : phase[m] = "live"}

\* An open transaction holds the lock of the row it read until it ends.
Locked(m) == \E p \in Process : tx[p] # None /\ tx[p].monitor = m

\* The positions in incidents[m] of the incidents with status 'open'.
OpenIncidents(m) == {i \in DOMAIN incidents[m] : incidents[m][i] = "open"}

NewRow(enabled, interval, now) ==
  [enabled |-> enabled, interval |-> interval, status |-> "unknown",
   failures |-> 0, nextCheck |-> now, lastChecked |-> Never]

BlankRow == NewRow(FALSE, CHOOSE i \in Interval : TRUE, 0)

-----------------------------------------------------------------------------
(* The initial state: each monitor is still to be created, or is live with *)
(* one of the Histories behind it and next_check_at long past.             *)

\* The row of a monitor whose log, ending in k failures, is applied.
RowAfter(enabled, interval, log, k) ==
  [enabled |-> enabled, interval |-> interval,
   status |-> StatusAfter(log, k), failures |-> k, nextCheck |-> 0,
   lastChecked |-> IF log = << >> THEN Never ELSE log[Len(log)].at]

\* One incident per outage of the log, the last still open if the monitor
\* is down.
IncidentsAfter(log, status) ==
  LET n == Cardinality(OutageStarts(log))
  IN  [i \in 1 .. n |-> IF i = n /\ status = "down" THEN "open" ELSE "resolved"]

StoreInit ==
  /\ phase \in [Monitor -> {"new", "live"}]
  /\ checklogs \in [Monitor -> Histories]
  /\ \A m \in Monitor : phase[m] = "new" => checklogs[m] = << >>
  /\ \E enabled \in [Monitor -> BOOLEAN], interval \in [Monitor -> Interval],
        k \in [Monitor -> 0 .. MaxLogs] :
       /\ \A m \in Monitor : IsStreak(checklogs[m], k[m])
       /\ row = [m \in Monitor |->
                   IF phase[m] = "new" THEN BlankRow
                   ELSE RowAfter(enabled[m], interval[m], checklogs[m], k[m])]
  /\ incidents = [m \in Monitor |-> IncidentsAfter(checklogs[m], row[m].status)]
  /\ tx = [p \in Process |-> None]

-----------------------------------------------------------------------------
(* The API: one statement each.  An UPDATE or DELETE waits for the lock of *)
(* the row it touches.                                                     *)

CreateMonitor(m, enabled, interval, now) ==
  /\ phase[m] = "new"
  /\ phase' = [phase EXCEPT ![m] = "live"]
  /\ row' = [row EXCEPT ![m] = NewRow(enabled, interval, now)]
  /\ UNCHANGED <<checklogs, incidents, tx>>

\* Mutant: an update starts the target afresh.
UpdateMonitorResets(m, enabled, interval) ==
  /\ m \in Live
  /\ ~ Locked(m)
  /\ row' = [row EXCEPT ![m] = NewRow(enabled, interval, @.nextCheck)]
  /\ UNCHANGED <<phase, checklogs, incidents, tx>>

\* Writes url, name, interval_seconds and enabled; next_check_at and the
\* runtime state stay as they are.
UpdateMonitor(m, enabled, interval) ==
  /\ m \in Live
  /\ ~ Locked(m)
  /\ row' = [row EXCEPT ![m].enabled = enabled, ![m].interval = interval]
  /\ UNCHANGED <<phase, checklogs, incidents, tx>>

\* Logs and incidents go with the row (on delete cascade).
DeleteMonitor(m) ==
  /\ m \in Live
  /\ ~ Locked(m)
  /\ phase' = [phase EXCEPT ![m] = "deleted"]
  /\ row' = [row EXCEPT ![m] = BlankRow]
  /\ checklogs' = [checklogs EXCEPT ![m] = << >>]
  /\ incidents' = [incidents EXCEPT ![m] = << >>]
  /\ UNCHANGED tx

-----------------------------------------------------------------------------
(* The worker: ClaimDueMonitors. *)

\* The rows the query selects at time now; it skips locked ones.
Claimable(now) ==
  {m \in Live : /\ row[m].enabled
                /\ row[m].lastChecked = Never \/ row[m].nextCheck <= now
                /\ ~ Locked(m)}

\* Mutant: the claim query has lost its "order by".
ClaimSetsUnordered(now) ==
  {S \in SUBSET Claimable(now) :
     /\ Cardinality(S) <= BatchSize
     /\ Cardinality(S) = BatchSize \/ S = Claimable(now)}

\* What "order by next_check_at asc limit BatchSize" can return.
ClaimSets(now) ==
  {S \in SUBSET Claimable(now) :
     /\ Cardinality(S) <= BatchSize
     /\ Cardinality(S) = BatchSize \/ S = Claimable(now)
     /\ \A m \in S, n \in Claimable(now) \ S : row[m].nextCheck <= row[n].nextCheck}

\* Mutant: the interval is subtracted.
ClaimRowsBackwards(S, now) ==
  /\ row' = [m \in Monitor |->
               IF m \in S THEN [row[m] EXCEPT !.nextCheck = now - row[m].interval]
               ELSE row[m]]
  /\ UNCHANGED <<phase, checklogs, incidents, tx>>

ClaimRows(S, now) ==
  /\ row' = [m \in Monitor |->
               IF m \in S THEN [row[m] EXCEPT !.nextCheck = now + row[m].interval]
               ELSE row[m]]
  /\ UNCHANGED <<phase, checklogs, incidents, tx>>

ClaimDueMonitors(now) == \E S \in ClaimSets(now) : ClaimRows(S, now)

-----------------------------------------------------------------------------
(* The worker: ApplyCheckResult. *)

\* Mutant: the row is read without "for update".
ApplyBeginUnlocked(p, m, outcome, at) ==
  /\ tx[p] = None
  /\ m \in Live
  /\ Len(checklogs[m]) < MaxLogs
  /\ tx' = [tx EXCEPT ![p] = [monitor |-> m, status |-> row[m].status,
                              failures |-> row[m].failures,
                              outcome |-> outcome, at |-> at]]
  /\ UNCHANGED <<phase, row, checklogs, incidents>>

\* "select ... for update": waits for the row's lock.  A monitor that is
\* not live ends the call with ErrMonitorNotFound and changes nothing.
ApplyBegin(p, m, outcome, at) ==
  /\ tx[p] = None
  /\ m \in Live
  /\ ~ Locked(m)
  /\ Len(checklogs[m]) < MaxLogs
  /\ tx' = [tx EXCEPT ![p] = [monitor |-> m, status |-> row[m].status,
                              failures |-> row[m].failures,
                              outcome |-> outcome, at |-> at]]
  /\ UNCHANGED <<phase, row, checklogs, incidents>>

Transition(t) == evaluateStateTransition(t.status, t.failures, t.outcome)

\* Mutant: the recovery leaves the incident open.
IncidentsNeverResolved(event, log) ==
  IF event = "down" THEN Append(log, "open") ELSE log

\* insert ... 'open', or update ... 'resolved' where status = 'open'.
IncidentsAfterEvent(event, log) ==
  CASE event = "down"      -> Append(log, "open")
    [] event = "recovered" -> [i \in DOMAIN log |-> "resolved"]
    [] event = "none"      -> log

\* The unique index uq_incidents_open_monitor admits one open incident per
\* monitor: the statement that would insert a second one fails.
IndexAdmits(p) ==
  Transition(tx[p]).event = "down" => OpenIncidents(tx[p].monitor) = {}

ApplyCommit(p) ==
  /\ tx[p] # None
  /\ IndexAdmits(p)
  /\ LET t == tx[p]
         m == t.monitor
         next == Transition(t)
     IN  /\ checklogs' = [checklogs EXCEPT ![m] =
                            Append(@, [outcome |-> t.outcome, at |-> t.at])]
         /\ row' = [row EXCEPT ![m].status = next.status,
                               ![m].failures = next.failures,
                               ![m].lastChecked = t.at]
         /\ incidents' = [incidents EXCEPT ![m] = IncidentsAfterEvent(next.event, @)]
  /\ tx' = [tx EXCEPT ![p] = None]
  /\ UNCHANGED phase

\* Mutant: the row is updated outside of the transaction.
ApplyRollbackKeepsRow(p) ==
  /\ tx[p] # None
  /\ row' = [row EXCEPT ![tx[p].monitor].status = Transition(tx[p]).status,
                        ![tx[p].monitor].failures = Transition(tx[p]).failures]
  /\ tx' = [tx EXCEPT ![p] = None]
  /\ UNCHANGED <<phase, checklogs, incidents>>

\* Any statement may fail, and so may the commit; defer tx.Rollback().
ApplyRollback(p) ==
  /\ tx[p] # None
  /\ tx' = [tx EXCEPT ![p] = None]
  /\ UNCHANGED <<phase, row, checklogs, incidents>>

\* The process that held the connections is gone: Postgres rolls back all
\* of their transactions.
Disconnect ==
  /\ tx' = [p \in Process |-> None]
  /\ UNCHANGED <<phase, row, checklogs, incidents>>

-----------------------------------------------------------------------------

ApiStep ==
  \E m \in Monitor :
    \/ \E enabled \in BOOLEAN, interval \in Interval :
         \/ \E now \in Time : CreateMonitor(m, enabled, interval, now)
         \/ UpdateMonitor(m, enabled, interval)
    \/ DeleteMonitor(m)

ApplyStep ==
  \E p \in Process :
    \/ \E m \in Monitor, outcome \in Outcome, at \in Time : ApplyBegin(p, m, outcome, at)
    \/ ApplyCommit(p)
    \/ ApplyRollback(p)

ClaimStep == \E now \in Time : ClaimDueMonitors(now)

StoreNext == ApiStep \/ ClaimStep \/ ApplyStep \/ Disconnect

StoreSpec == StoreInit /\ [][StoreNext]_storeVars

-----------------------------------------------------------------------------
(* Properties. *)

\* Every variable keeps its type.
StoreTypeOK ==
  /\ phase \in [Monitor -> {"new", "live", "deleted"}]
  /\ row \in [Monitor -> RowType]
  /\ checklogs \in [Monitor -> Seq([outcome : Outcome, at : Time])]
  /\ incidents \in [Monitor -> Seq({"open", "resolved"})]
  /\ tx \in [Process -> TxType \cup {None}]

\* The row is what all the committed results, in commit order, say it is:
\* no result is lost under another transaction's update (the FOR UPDATE of
\* ApplyCheckResult), and claims and API writes leave the state alone.
RowFollowsLog ==
  \A m \in Live :
    /\ IsStreak(checklogs[m], row[m].failures)
    /\ row[m].status = StatusAfter(checklogs[m], row[m].failures)
    /\ row[m].lastChecked = (IF checklogs[m] = << >> THEN Never
                             ELSE checklogs[m][Len(checklogs[m])].at)

\* A monitor is down exactly while it has an open incident, which is its
\* latest: row and incidents, two tables, never disagree.
OpenIncidentIffDown ==
  \A m \in Live :
    OpenIncidents(m) = (IF row[m].status = "down" THEN {Len(incidents[m])} ELSE {})

\* Every outage in the log (a third failure in a row) opened exactly one
\* incident, and nothing else opened one.
OneIncidentPerOutage ==
  \A m \in Live : Len(incidents[m]) = Cardinality(OutageStarts(checklogs[m]))

\* The transition an open transaction is about to make fits the incidents:
\* a down event never meets the unique index (it would fail every later
\* check of that monitor too), and a recovered event finds the incident it
\* resolves (else it would be announced with an empty incident id).
TransitionFitsIncidents ==
  \A p \in Process :
    tx[p] # None =>
      LET open == Cardinality(OpenIncidents(tx[p].monitor))
      IN  /\ Transition(tx[p]).event = "down" => open = 0
          /\ Transition(tx[p]).event = "recovered" => open = 1

-----------------------------------------------------------------------------
(* The tables as the owner of the targets sees them. *)

HealthOf(m) ==
  CASE phase[m] = "new"     -> "absent"
    [] phase[m] = "live"    -> row[m].status
    [] phase[m] = "deleted" -> "removed"

Resolved(m) == {i \in DOMAIN incidents[m] : incidents[m][i] = "resolved"}

Health == INSTANCE TargetHealth WITH
  Target   <- Monitor,
  health   <- [m \in Monitor |-> HealthOf(m)],
  opened   <- [m \in Monitor |-> Len(incidents[m])],
  resolved <- [m \in Monitor |-> Cardinality(Resolved(m))]

\* The transactions keep the promise: seen through its status and its
\* incidents only, a target falls and recovers in single steps, each with its
\* incident, whatever is claimed, applied, rolled back or updated meanwhile.
HealthIsKept == Health!HealthSpec
=============================================================================
