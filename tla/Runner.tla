------------------------------- MODULE Runner --------------------------------
(***************************************************************************)
(* The worker process (src/internal/worker/runner.go, cmd/worker/main.go): *)
(* one scheduler goroutine that claims due monitors and feeds a bounded    *)
(* channel, a pool of goroutines that check, apply and notify, and the     *)
(* main goroutine that ends the process.  It runs on the tables of         *)
(* MonitorStore, next to the API, and may be stopped by SIGTERM, killed    *)
(* and started again.  Process, of MonitorStore, is the set of worker      *)
(* goroutines, each of which uses one connection.                          *)
(***************************************************************************)
EXTENDS MonitorStore, Bags

CONSTANTS
  QueueSize,    \* capacity of the jobs channel
  Channel,      \* alert channels, numbered in the order of created_at
  Telegram,     \* those of type telegram; the others are webhooks
  TokenSet,     \* is TELEGRAM_BOT_TOKEN configured
  Api,          \* the API calls that happen
  MaxTime,      \* bound: the clock stops here
  MaxFaults,    \* bound: database calls that fail
  MaxStarts,    \* bound: times the process is started
  Signals       \* the signals sent to the process: SIGTERM (or SIGINT), SIGKILL

ASSUME RunnerAssumption ==
  /\ IsFiniteSet(Monitor) /\ IsFiniteSet(Process) /\ IsFiniteSet(Channel)
  /\ None \notin Monitor
  /\ QueueSize \in Nat \ {0}
  /\ Cardinality(Process) \in 1 .. QueueSize
  /\ Channel \subseteq Nat
  /\ Telegram \subseteq Channel
  /\ TokenSet \in BOOLEAN
  /\ Signals \subseteq {"term", "kill"}
  /\ Api \subseteq {"create", "update", "delete", "channel"}
  /\ MaxTime \in Nat /\ Time = 0 .. MaxTime
  /\ MaxFaults \in Nat /\ MaxStarts \in Nat \ {0}
  /\ Outcome = {"ok", "fail", "aborted"}
  /\ \A h \in Histories : \A i \in DOMAIN h : h[i].outcome # "aborted"

VARIABLES
  clock,        \* wall-clock time, in units of the scheduler's tick
  proc,         \* the process: "running", "draining" (main waits for done), "down"
  cancelled,    \* is the context of Run done (SIGTERM received)
  errCh,        \* does errCh hold a scheduler error
  ticker,       \* ticker.C: Off, NoTick, or the undelivered tick
  schedPc,      \* the scheduler: "claim", "send", "wait", "done"
  schedNow,     \* the argument now of its claim
  batch,        \* the claimed monitors it has not enqueued yet
  jobs,         \* the jobs channel
  pc,           \* pc[w]: where worker w is in its loop
  job,          \* job[w]: the monitor it is processing
  result,       \* result[w]: the outcome of its check and CheckedAt
  event,        \* event[w]: the event it is announcing
  pending,      \* pending[w]: the channels it has yet to notify
  listed,       \* the channels with an enabled row in alert_channels
  sent,         \* the bag of notification requests made so far
  faults, starts  \* counters of the bounded events

worker == <<pc, job, result, event, pending>>
sched  == <<ticker, schedPc, schedNow, batch>>
main   == <<proc, cancelled, errCh, starts>>
world  == <<clock, listed, sent, faults>>
vars   == <<storeVars, worker, sched, jobs, main, world>>

Off    == -2    \* no ticker yet
NoTick == -1    \* ticker.C is empty

Up == proc # "down"

\* The scheduler goroutine closes jobs when it returns (defer close(jobs)).
JobsClosed == schedPc = "done"

\* A database call can fail once in a while.
Fault == faults < MaxFaults /\ faults' = faults + 1
NoFault == UNCHANGED faults
-----------------------------------------------------------------------------
(* Starting and ending the process. *)

FreshWorkers(at) ==
  /\ pc' = [w \in Process |-> at]
  /\ job' = [w \in Process |-> None]
  /\ result' = [w \in Process |-> None]
  /\ event' = [w \in Process |-> None]
  /\ pending' = [w \in Process |-> << >>]

\* Where no call changes the channels, they have been set up before.
Init ==
  /\ StoreInit
  /\ clock = 0 /\ faults = 0 /\ starts = 1
  /\ proc = "running" /\ cancelled = FALSE /\ errCh = FALSE
  /\ ticker = Off /\ schedPc = "claim" /\ schedNow = 0
  /\ batch = << >> /\ jobs = << >>
  /\ pc = [w \in Process |-> "idle"]
  /\ job = [w \in Process |-> None]
  /\ result = [w \in Process |-> None]
  /\ event = [w \in Process |-> None]
  /\ pending = [w \in Process |-> << >>]
  /\ listed = IF "channel" \in Api THEN {} ELSE Channel
  /\ sent = EmptyBag

\* The process ends; whatever its goroutines were doing is gone with it.
Exit ==
  /\ proc' = "down" /\ cancelled' = FALSE /\ errCh' = FALSE
  /\ ticker' = Off /\ schedPc' = "done" /\ schedNow' = 0
  /\ batch' = << >> /\ jobs' = << >>
  /\ FreshWorkers("done")
  /\ Disconnect
  /\ UNCHANGED <<starts, world>>

\* The first claim of a new process runs at once, with time.Now().
Restart ==
  /\ proc = "down" /\ starts < MaxStarts
  /\ starts' = starts + 1
  /\ proc' = "running"
  /\ schedPc' = "claim" /\ schedNow' = clock
  /\ FreshWorkers("idle")
  /\ UNCHANGED <<storeVars, world, cancelled, errCh, ticker, batch, jobs>>

\* The context of signal.NotifyContext is done; later signals change nothing.
Cancel ==
  /\ "term" \in Signals /\ Up /\ ~ cancelled
  /\ cancelled' = TRUE
  /\ UNCHANGED <<storeVars, worker, sched, jobs, proc, errCh, starts, world>>

Kill == "kill" \in Signals /\ Up /\ Exit

AllDone == JobsClosed /\ \A w \in Process : pc[w] = "done"

\* The select at the end of Run; its cases are not ordered.
MainReturnsErr == proc = "running" /\ errCh /\ Exit
MainReturnsDone == Up /\ AllDone /\ Exit
MainSeesCancel ==
  /\ proc = "running" /\ cancelled
  /\ proc' = "draining"
  /\ UNCHANGED <<storeVars, worker, sched, jobs, cancelled, errCh, starts, world>>

MainStep == MainReturnsErr \/ MainReturnsDone \/ MainSeesCancel
-----------------------------------------------------------------------------
(* The scheduler. *)

\* ticker.C has room for one tick; further ones are dropped until it is read.
Tick ==
  /\ clock < MaxTime \/ ticker = NoTick
  /\ clock' = IF clock < MaxTime THEN clock + 1 ELSE clock
  /\ ticker' = IF ticker = NoTick THEN clock' ELSE ticker
  /\ UNCHANGED <<storeVars, worker, schedPc, schedNow, batch, jobs, main,
                 listed, sent, faults>>

\* The select loop of runScheduler; the ticker is made before its first turn.
ToSelect ==
  /\ schedPc' = "wait"
  /\ ticker' = IF ticker = Off THEN NoTick ELSE ticker

\* The orders in which "order by next_check_at asc" can return the rows S.
RowOrders(S) ==
  {s \in [1 .. Cardinality(S) -> S] :
     /\ \A i, j \in DOMAIN s : i < j => s[i] # s[j]
     /\ \A i, j \in DOMAIN s : i < j => row[s[i]].nextCheck <= row[s[j]].nextCheck}

SchedClaim ==
  /\ schedPc = "claim" /\ ~ cancelled
  /\ \E S \in ClaimSets(schedNow) :
       /\ ClaimRows(S, schedNow)
       /\ batch' \in RowOrders(S)
       /\ IF S = {} THEN ToSelect
          ELSE schedPc' = "send" /\ UNCHANGED ticker
  /\ UNCHANGED <<worker, schedNow, jobs, main, world>>

\* Mutant: the scheduler logs the error and waits for the next tick.
SchedClaimFailsOn ==
  /\ Up /\ schedPc = "claim"
  /\ ToSelect
  /\ (cancelled /\ NoFault) \/ Fault
  /\ UNCHANGED <<storeVars, worker, schedNow, batch, jobs, main, clock, listed, sent>>

\* The claim fails: the scheduler returns the error, unless it is the
\* cancellation.  The driver reports a statement cancelled half-way as an
\* error of its own, so after SIGTERM either can be seen.  If it is the commit
\* that reports the error, the rows may have been claimed all the same.
SchedClaimFails ==
  /\ Up /\ schedPc = "claim"
  /\ schedPc' = "done"
  /\ UNCHANGED storeVars \/ ClaimDueMonitors(schedNow)
  /\ \/ ~ cancelled /\ Fault /\ errCh' = TRUE
     \/ cancelled /\ NoFault /\ errCh' \in BOOLEAN
  /\ UNCHANGED <<worker, ticker, schedNow, batch, jobs, proc,
                 cancelled, starts, clock, listed, sent>>

\* jobs <- monitor, which waits while the channel is full.
SchedSend ==
  /\ schedPc = "send"
  /\ Len(jobs) < QueueSize
  /\ jobs' = Append(jobs, Head(batch))
  /\ batch' = Tail(batch)
  /\ IF batch' = << >> THEN ToSelect ELSE UNCHANGED <<schedPc, ticker>>
  /\ UNCHANGED <<storeVars, worker, schedNow, main, world>>

\* Mutant: "jobs <- monitor" outside of a select; ctx is seen between sends.
SchedSendBlocking ==
  /\ schedPc = "send" /\ cancelled
  /\ Len(jobs) < QueueSize
  /\ batch' = << >>
  /\ ToSelect
  /\ UNCHANGED <<storeVars, worker, schedNow, jobs, main, world>>

\* The other case of that select: the rest of the batch is dropped.
SchedSendCancelled ==
  /\ schedPc = "send" /\ cancelled
  /\ batch' = << >>
  /\ ToSelect
  /\ UNCHANGED <<storeVars, worker, schedNow, jobs, main, world>>

\* The tick received may be older than the clock.
SchedTick ==
  /\ schedPc = "wait" /\ ticker >= 0
  /\ schedNow' = ticker
  /\ ticker' = NoTick
  /\ schedPc' = "claim"
  /\ UNCHANGED <<storeVars, worker, batch, jobs, main, world>>

SchedStop ==
  /\ schedPc = "wait" /\ cancelled
  /\ schedPc' = "done"
  /\ UNCHANGED <<storeVars, worker, ticker, schedNow, batch, jobs, main, world>>

SchedStep == SchedClaim \/ SchedClaimFails \/ SchedSend \/ SchedSendCancelled
             \/ SchedTick \/ SchedStop
-----------------------------------------------------------------------------
(* A worker: runWorker and processMonitor. *)

Goto(w, l) == pc' = [pc EXCEPT ![w] = l]

\* processMonitor returns; its error, if any, is only logged.
Finish(w) ==
  /\ Goto(w, "idle")
  /\ job' = [job EXCEPT ![w] = None]
  /\ result' = [result EXCEPT ![w] = None]
  /\ event' = [event EXCEPT ![w] = None]
  /\ pending' = [pending EXCEPT ![w] = << >>]

\* The two cases of the select in runWorker.
WorkerTake(w) ==
  /\ pc[w] = "idle" /\ jobs # << >>
  /\ job' = [job EXCEPT ![w] = Head(jobs)]
  /\ jobs' = Tail(jobs)
  /\ Goto(w, "check")
  /\ UNCHANGED <<storeVars, result, event, pending, sched, main, world>>

WorkerQuit(w) ==
  /\ pc[w] = "idle"
  /\ cancelled \/ (JobsClosed /\ jobs = << >>)
  /\ Goto(w, "done")
  /\ UNCHANGED <<storeVars, job, result, event, pending, sched, jobs, main, world>>

\* Check runs for as long as its timeout lets it.  Once the context is done
\* the request is aborted, which is reported like any other failure.
CheckDone(w) ==
  /\ pc[w] = "check"
  /\ \E outcome \in Outcome :
       /\ outcome = "aborted" => cancelled
       /\ result' = [result EXCEPT ![w] = [outcome |-> outcome, at |-> clock]]
  /\ Goto(w, "apply")
  /\ UNCHANGED <<storeVars, job, event, pending, sched, jobs, main, world>>

\* Mutant: the result is applied under a context that is never done.
WorkerApplyBeginDetached(w) ==
  /\ pc[w] = "apply"
  /\ ApplyBegin(w, job[w], result[w].outcome, result[w].at)
  /\ Goto(w, "commit")
  /\ UNCHANGED <<job, result, event, pending, sched, jobs, main, world>>

\* BeginTxx refuses a context that is done.
WorkerApplyBegin(w) ==
  /\ pc[w] = "apply" /\ ~ cancelled
  /\ ApplyBegin(w, job[w], result[w].outcome, result[w].at)
  /\ Goto(w, "commit")
  /\ UNCHANGED <<job, result, event, pending, sched, jobs, main, world>>

\* No row (ErrMonitorNotFound), no connection, or no context.
WorkerApplyRefused(w) ==
  /\ pc[w] = "apply"
  /\ \/ cancelled /\ NoFault
     \/ job[w] \notin Live /\ NoFault
     \/ Fault
  /\ Finish(w)
  /\ UNCHANGED <<storeVars, sched, jobs, main, clock, listed, sent>>

\* The event that the transaction of w emits, with the id of the incident
\* it inserts or resolves.
EmittedEvent(w) ==
  LET m == tx[w].monitor
      type == Transition(tx[w]).event
  IN  [type |-> type,
       incident |-> IF type = "down" THEN Len(incidents[m]) + 1
                    ELSE IF OpenIncidents(m) = {} THEN 0
                    ELSE CHOOSE i \in OpenIncidents(m) : TRUE]

\* Mutant: results that emit no event are announced too.
WorkerApplyCommitAlways(w) ==
  /\ pc[w] = "commit" /\ ~ cancelled
  /\ ApplyCommit(w)
  /\ event' = [event EXCEPT ![w] = EmittedEvent(w)]
  /\ Goto(w, "list")
  /\ UNCHANGED <<job, result, pending, sched, jobs, main, world>>

WorkerApplyCommit(w) ==
  /\ pc[w] = "commit" /\ ~ cancelled
  /\ ApplyCommit(w)
  /\ IF EmittedEvent(w).type = "none" THEN Finish(w)
     ELSE /\ event' = [event EXCEPT ![w] = EmittedEvent(w)]
          /\ Goto(w, "list")
          /\ UNCHANGED <<job, result, pending>>
  /\ UNCHANGED <<sched, jobs, main, world>>

\* Mutant: the event is announced though the transaction was rolled back.
WorkerApplyAbortsAnnounced(w) ==
  /\ pc[w] = "commit"
  /\ Fault
  /\ ApplyRollback(w)
  /\ IF EmittedEvent(w).type = "none" THEN Finish(w)
     ELSE /\ event' = [event EXCEPT ![w] = EmittedEvent(w)]
          /\ Goto(w, "list")
          /\ UNCHANGED <<job, result, pending>>
  /\ UNCHANGED <<sched, jobs, main, clock, listed, sent>>

\* A statement fails, the unique index refuses the incident, or Commit finds
\* the context done.
WorkerApplyAborts(w) ==
  /\ pc[w] = "commit"
  /\ \/ cancelled /\ NoFault
     \/ ~ IndexAdmits(w) /\ NoFault
     \/ Fault
  /\ ApplyRollback(w)
  /\ Finish(w)
  /\ UNCHANGED <<sched, jobs, main, clock, listed, sent>>

\* The server commits and the answer is lost: to the worker it is an error.
WorkerCommitUnknown(w) ==
  /\ pc[w] = "commit" /\ ~ cancelled
  /\ Fault
  /\ ApplyCommit(w)
  /\ Finish(w)
  /\ UNCHANGED <<sched, jobs, main, clock, listed, sent>>

\* where enabled = true order by created_at asc
EnabledChannels ==
  CHOOSE s \in [1 .. Cardinality(listed) -> listed] :
    \A i, j \in DOMAIN s : i < j => s[i] < s[j]

ListEnabledAlertChannels(w) ==
  /\ pc[w] = "list" /\ ~ cancelled
  /\ IF listed = {} THEN Finish(w)
     ELSE /\ pending' = [pending EXCEPT ![w] = EnabledChannels]
          /\ Goto(w, "notify")
          /\ UNCHANGED <<job, result, event>>
  /\ UNCHANGED <<storeVars, sched, jobs, main, world>>

ListFails(w) ==
  /\ pc[w] = "list"
  /\ \/ cancelled /\ NoFault
     \/ Fault
  /\ Finish(w)
  /\ UNCHANGED <<storeVars, sched, jobs, main, clock, listed, sent>>

\* What a request tells, and through which channel.
Alert(w, c) == [monitor |-> job[w], type |-> event[w].type,
                incident |-> event[w].incident, channel |-> c]

\* Mutant: a request whose answer was lost is made again.
NextChannelRetrying(w) ==
  \/ IF Len(pending[w]) = 1 THEN Finish(w)
     ELSE /\ pending' = [pending EXCEPT ![w] = Tail(@)]
          /\ UNCHANGED <<pc, job, result, event>>
  \/ UNCHANGED worker

\* The loop of Notify goes on to the next channel whatever became of the
\* request; the errors are joined and only logged.
NextChannel(w) ==
  IF Len(pending[w]) = 1 THEN Finish(w)
  ELSE /\ pending' = [pending EXCEPT ![w] = Tail(@)]
       /\ UNCHANGED <<pc, job, result, event>>

Skipped(c) == c \in Telegram /\ ~ TokenSet

SendAlert(w) ==
  /\ pc[w] = "notify" /\ ~ cancelled
  /\ ~ Skipped(Head(pending[w]))
  /\ sent' = sent (+) SetToBag({Alert(w, Head(pending[w]))})
  /\ NextChannel(w)
  /\ UNCHANGED <<storeVars, sched, jobs, main, clock, listed, faults>>

\* No request leaves for a skipped channel, or under a context that is done.
SendNothing(w) ==
  /\ pc[w] = "notify"
  /\ cancelled \/ Skipped(Head(pending[w]))
  /\ NextChannel(w)
  /\ UNCHANGED <<storeVars, sched, jobs, main, world>>

WorkerStep(w) ==
  \/ WorkerTake(w) \/ WorkerQuit(w) \/ CheckDone(w)
  \/ WorkerApplyBegin(w) \/ WorkerApplyRefused(w)
  \/ WorkerApplyCommit(w) \/ WorkerApplyAborts(w) \/ WorkerCommitUnknown(w)
  \/ ListEnabledAlertChannels(w) \/ ListFails(w)
  \/ SendAlert(w) \/ SendNothing(w)
-----------------------------------------------------------------------------
(* The API process: targets and alert channels. *)

TargetCall ==
  /\ \E m \in Monitor :
       \/ "create" \in Api /\ \E e \in BOOLEAN, i \in Interval : CreateMonitor(m, e, i, clock)
       \/ "update" \in Api /\ \E e \in BOOLEAN, i \in Interval : UpdateMonitor(m, e, i)
       \/ "delete" \in Api /\ DeleteMonitor(m)
  /\ UNCHANGED <<worker, sched, jobs, main, world>>

\* What the worker sees of it: an enabled row comes (insert, update) or goes
\* (update, delete).
ChannelCall ==
  /\ "channel" \in Api
  /\ \E c \in Channel : listed' \in {listed \cup {c}, listed \ {c}} \ {listed}
  /\ UNCHANGED <<storeVars, worker, sched, jobs, main, clock, sent, faults>>

Next ==
  \/ Tick \/ SchedStep \/ MainStep
  \/ \E w \in Process : WorkerStep(w)
  \/ Cancel \/ Kill \/ Restart
  \/ TargetCall \/ ChannelCall

\* Goroutines that can run do run: the Go scheduler, the timers, the
\* timeouts of Check (timeout_seconds) and of the notifier's client.  The
\* row lock is granted in turn, so a waiter gets it in the end.  Nothing
\* obliges a fault, a signal, a restart or an API call to happen.
Fairness ==
  /\ WF_vars(Tick)
  /\ WF_vars(SchedStep)
  /\ WF_vars(MainStep)
  /\ \A w \in Process : WF_vars(WorkerStep(w)) /\ SF_vars(WorkerApplyBegin(w))

SafetySpec == Init /\ [][Next]_vars
Spec == SafetySpec /\ Fairness
-----------------------------------------------------------------------------
(* Properties. *)

AlertType == [monitor : Monitor, type : {"down", "recovered"}, incident : Nat,
              channel : Channel]

\* Every variable keeps its type; the jobs channel keeps its capacity.
TypeOK ==
  /\ StoreTypeOK
  /\ clock \in 0 .. MaxTime /\ faults \in 0 .. MaxFaults /\ starts \in 1 .. MaxStarts
  /\ proc \in {"running", "draining", "down"}
  /\ cancelled \in BOOLEAN /\ errCh \in BOOLEAN
  /\ ticker \in {Off, NoTick} \cup Time
  /\ schedPc \in {"claim", "send", "wait", "done"} /\ schedNow \in Time
  /\ batch \in Seq(Monitor) /\ Len(batch) <= BatchSize
  /\ jobs \in Seq(Monitor) /\ Len(jobs) <= QueueSize
  /\ pc \in [Process -> {"idle", "check", "apply", "commit", "list", "notify", "done"}]
  /\ job \in [Process -> Monitor \cup {None}]
  /\ \A w \in Process : job[w] = None <=> pc[w] \in {"idle", "done"}
  /\ \A w \in Process : pc[w] \in {"apply", "commit"} =>
       result[w] \in [outcome : Outcome, at : Time]
  /\ \A w \in Process : pc[w] \in {"list", "notify"} =>
       event[w] \in [type : {"down", "recovered"}, incident : Nat]
  /\ \A w \in Process : pending[w] \in Seq(Channel) /\ (pending[w] # << >> <=> pc[w] = "notify")
  /\ listed \subseteq Channel
  /\ IsABag(sent) /\ BagToSet(sent) \subseteq AlertType

\* No channel hears of the same event twice, whatever the crashes, restarts,
\* lost commit answers and claims of a monitor that is already in a queue.
AlertsAtMostOnce == \A a \in BagToSet(sent) : sent[a] = 1

\* What a channel was told did happen: the incident is in the table, and it
\* is resolved if the alert says recovered.  Nothing is announced that a
\* rollback took back.
AlertsTellTheTruth ==
  \A a \in BagToSet(sent) : a.monitor \in Live =>
    /\ a.incident \in DOMAIN incidents[a.monitor]
    /\ a.type = "recovered" => incidents[a.monitor][a.incident] = "resolved"

\* A check that the shutdown aborted looks like a failed one, but it is never
\* recorded, nor begun to be: stopping the worker does not count against a
\* target.
NoAbortedCheckLogged ==
  /\ \A m \in Monitor : \A i \in DOMAIN checklogs[m] : checklogs[m][i].outcome # "aborted"
  /\ \A w \in Process : tx[w] # None => tx[w].outcome # "aborted"

\* After SIGTERM, or once the scheduler has given up, the process ends: no
\* goroutine waits for another for ever, on the full queue least of all.
StopCompletes == cancelled \/ (Up /\ JobsClosed) ~> ~ Up

\* What is between the scheduler, or worker w, and its end: the monitors to
\* hand over, and the places in its loop.
SchedulerLeft ==
  2 * Len(batch) + Len(jobs) + [done |-> 0, claim |-> 1, wait |-> 2, send |-> 3][schedPc]

WorkerLeft(w) ==
  LET k == Cardinality(Channel) + 1
  IN  IF pc[w] = "notify" THEN 1 + Len(pending[w])
      ELSE [done |-> 0, idle |-> 1, list |-> k + 1, commit |-> k + 2,
            apply |-> k + 3, check |-> k + 4][pc[w]]

\* The queue gets shorter or, as long as it does not, no worker turns back
\* and one gets on.
NearerTheEnd ==
  \/ SchedulerLeft' < SchedulerLeft
  \/ /\ SchedulerLeft' = SchedulerLeft
     /\ \A w \in Process : WorkerLeft(w)' <= WorkerLeft(w)
     /\ \E w \in Process : WorkerLeft(w)' < WorkerLeft(w)

\* Why it ends: from SIGTERM, or the return of the scheduler, on, each step of
\* a goroutine brings the process nearer to its end, and nothing takes it
\* back: no claim, no further job, no retry.
Stopping == cancelled \/ JobsClosed

StopProgresses ==
  [][Up /\ Stopping /\ Up' =>
       /\ Stopping'
       /\ NearerTheEnd \/ UNCHANGED <<schedPc, batch, jobs, pc, pending>>]_vars

Due(m) == m \in Live /\ row[m].enabled /\ row[m].nextCheck <= clock

\* A due monitor is checked, unless it is switched off or removed or the
\* process stops: neither the limit of a batch, spent on others that are due
\* again and again, nor a full queue, dropped ticks and claims with an old
\* time can put it off for ever.
DueIsServed ==
  \A m \in Monitor :
    Due(m) ~> \/ \E w \in Process : pc[w] = "check" /\ job[w] = m
              \/ m \notin Live \/ ~ row[m].enabled
              \/ Stopping
-----------------------------------------------------------------------------
(* Properties that the code is said to have and does not. *)

\* The events that the incident i of m has had.
EventsOf(m, i) ==
  {[type |-> type, incident |-> i] :
     type \in {"down"} \cup (IF incidents[m][i] = "resolved" THEN {"recovered"} ELSE {})}

\* Worker w has yet to ask channel c to tell of the event e of m.
ToTell(w, m, e, c) ==
  /\ job[w] = m /\ event[w] = e
  /\ \/ pc[w] = "list"
     \/ pc[w] = "notify" /\ \E k \in DOMAIN pending[w] : pending[w][k] = c

\* README: "Telegram and webhook alert channels receive event notifications
\* when they are enabled."  For each event of each incident, that it began
\* and that it ended, every enabled channel has been asked to tell of it, or a
\* worker is about to ask.
AlertNotLost ==
  \A m \in Live : \A i \in DOMAIN incidents[m], c \in listed :
    \A e \in EventsOf(m, i) :
      \/ [monitor |-> m, type |-> e.type, incident |-> i, channel |-> c] \in BagToSet(sent)
      \/ \E w \in Process : ToTell(w, m, e, c)

\* Orders of a log by checked_at, the order in which the API returns it.
ByCheckedAt(log) ==
  LET reorderings == {p \in [DOMAIN log -> DOMAIN log] :
                        \A i, j \in DOMAIN log : p[i] = p[j] => i = j}
  IN  {s \in {[i \in DOMAIN log |-> log[p[i]]] : p \in reorderings} :
         \A i, j \in DOMAIN log : i < j => s[i].at <= s[j].at}

\* README: "After 3 consecutive failures, the target becomes down": each
\* target has one incident for every three failures in a row of its log.
IncidentsMatchCheckedAt ==
  \A m \in Live : \E s \in ByCheckedAt(checklogs[m]) :
    Cardinality(OutageStarts(s)) = Len(incidents[m])

\* openapi.yaml: "Check interval in seconds."  A monitor is claimed again
\* only once the interval of its last claim is over.
IntervalRespected ==
  [][SchedClaim => \A m \in Monitor : row'[m] # row[m] => row[m].nextCheck <= schedNow]_vars
=============================================================================
