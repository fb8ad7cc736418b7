---------------------------- MODULE RunnerProofs -----------------------------
(***************************************************************************)
(* Proofs about Runner, for every pool, queue, batch size and set of       *)
(* monitors: the worker process uses the tables only as MonitorStore says, *)
(* so that what is proved of the tables holds under it; a check that the   *)
(* shutdown aborts is never recorded, alerts are true and sent once, and   *)
(* the shutdown makes progress.  The last two parts say when no alert is   *)
(* lost, and when results cannot overtake one another.                     *)
(***************************************************************************)
EXTENDS Runner, MonitorStoreProofs

Label == {"idle", "check", "apply", "commit", "list", "notify", "done"}

\* The part of TypeOK that decides what reaches the tables.
LocalTypes ==
  /\ clock \in Time /\ schedNow \in Time /\ ticker \in {Off, NoTick} \cup Time
  /\ batch \in Seq(Monitor) /\ jobs \in Seq(Monitor)
  /\ schedPc = "send" => batch # << >>
  /\ pc \in [Process -> Label]
  /\ job \in [Process -> Monitor \cup {None}]
  /\ result \in [Process -> Result \cup {None}]
  /\ \A w \in Process : pc[w] \in {"check", "apply"} => job[w] \in Monitor
  /\ \A w \in Process : pc[w] = "apply" => result[w] \in Result

\* Only a shutdown aborts a check, and it is not taken back.
AbortedByShutdown ==
  \A w \in Process : pc[w] = "apply" /\ result[w].outcome = "aborted" => cancelled

RInv == LocalTypes /\ AbortedByShutdown

LEMMA InitRInv == Init => RInv
<1> SUFFICES ASSUME Init PROVE RInv
  OBVIOUS
<1>1. 0 \in Time
  BY RunnerAssumption
<1> QED BY <1>1 DEF Init, RInv, LocalTypes, AbortedByShutdown, Label

\* The steps of the process, one group of variables at a time.
localVars == <<clock, schedNow, ticker, batch, jobs, schedPc, pc, job, result, cancelled>>

LEMMA StutterRInv == RInv /\ UNCHANGED localVars => RInv'
BY DEF RInv, LocalTypes, AbortedByShutdown, localVars

\* A claim returns a sequence of monitors, empty only if nothing was claimed.
LEMMA RowOrdersType ==
  ASSUME NEW S \in SUBSET Monitor, NEW s \in RowOrders(S)
  PROVE  s \in Seq(Monitor) /\ (S # {} => s # << >>)
<1>1. IsFiniteSet(S)
  BY RunnerAssumption, FS_Subset
<1>2. Cardinality(S) \in Nat /\ (S # {} => Cardinality(S) # 0)
  BY <1>1, FS_CardinalityType, FS_EmptySet
<1>3. s \in [1 .. Cardinality(S) -> S]
  BY DEF RowOrders
<1>4. s \in Seq(S) /\ Len(s) = Cardinality(S)
  BY <1>2, <1>3
<1>5. Seq(S) \subseteq Seq(Monitor)
  OBVIOUS
<1> QED BY <1>2, <1>4, <1>5

LEMMA SchedRInv == ASSUME RInv, SchedStep PROVE RInv'
<1> USE DEF RInv, LocalTypes
<1>1. CASE SchedClaim
  <2>1. PICK S \in ClaimSets(schedNow) :
          /\ batch' \in RowOrders(S)
          /\ IF S = {} THEN ToSelect ELSE schedPc' = "send" /\ UNCHANGED ticker
    BY <1>1 DEF SchedClaim
  <2>2. S \in SUBSET Monitor
    BY DEF ClaimSets, Claimable, Live
  <2>3. batch' \in Seq(Monitor) /\ (S # {} => batch' # << >>)
    BY <2>1, <2>2, RowOrdersType
  <2>4. UNCHANGED <<clock, schedNow, jobs, pc, job, result, cancelled>>
    BY <1>1 DEF SchedClaim, worker, main, world
  <2>5. LocalTypes'
    BY <2>1, <2>3, <2>4 DEF ToSelect
  <2> QED BY <2>4, <2>5 DEF AbortedByShutdown
<1>2. CASE SchedClaimFails
  BY <1>2 DEF SchedClaimFails, worker, AbortedByShutdown
<1>3. CASE SchedSend
  <2>1. Head(batch) \in Monitor /\ Tail(batch) \in Seq(Monitor)
    BY <1>3 DEF SchedSend
  <2>2. UNCHANGED <<clock, schedNow, pc, job, result, cancelled>>
    BY <1>3 DEF SchedSend, worker, main, world
  <2>3. LocalTypes'
    BY <1>3, <2>1, <2>2 DEF SchedSend, ToSelect
  <2> QED BY <2>2, <2>3 DEF AbortedByShutdown
<1>4. CASE SchedSendCancelled
  BY <1>4 DEF SchedSendCancelled, ToSelect, worker, main, world, AbortedByShutdown
<1>5. CASE SchedTick
  <2>1. ticker \in Time
    BY <1>5 DEF SchedTick, Off, NoTick
  <2> QED BY <1>5, <2>1 DEF SchedTick, worker, main, world, AbortedByShutdown
<1>6. CASE SchedStop
  BY <1>6 DEF SchedStop, worker, main, world, AbortedByShutdown
<1> QED BY <1>1, <1>2, <1>3, <1>4, <1>5, <1>6 DEF SchedStep

\* A worker that ends its job, and one that goes on to apply or announce it.
LEMMA FinishRInv ==
  ASSUME RInv, NEW w \in Process, Finish(w),
         UNCHANGED <<clock, schedNow, ticker, batch, jobs, schedPc, cancelled>>
  PROVE  RInv'
BY DEF RInv, LocalTypes, AbortedByShutdown, Finish, Goto, Label

LEMMA GotoRInv ==
  ASSUME RInv, NEW w \in Process, NEW l \in Label \ {"check", "apply"}, Goto(w, l),
         UNCHANGED <<job, result, clock, schedNow, ticker, batch, jobs, schedPc, cancelled>>
  PROVE  RInv'
BY DEF RInv, LocalTypes, AbortedByShutdown, Goto, Label

LEMMA WorkerRInv == ASSUME RInv, NEW w \in Process, WorkerStep(w) PROVE RInv'
<1> USE DEF sched, main, world, worker
<1>1. CASE WorkerTake(w)
  <2> USE DEF RInv, LocalTypes
  <2>1. Head(jobs) \in Monitor /\ Tail(jobs) \in Seq(Monitor)
    BY <1>1 DEF WorkerTake
  <2> QED BY <1>1, <2>1 DEF WorkerTake, Goto, Label, AbortedByShutdown
<1>2. CASE WorkerQuit(w)
  BY <1>2, GotoRInv DEF WorkerQuit, Label
<1>3. CASE CheckDone(w)
  <2> USE DEF RInv, LocalTypes
  <2>1. PICK outcome \in Outcome :
          /\ outcome = "aborted" => cancelled
          /\ result' = [result EXCEPT ![w] = [outcome |-> outcome, at |-> clock]]
    BY <1>3 DEF CheckDone
  <2>2. [outcome |-> outcome, at |-> clock] \in Result
    BY DEF Result
  <2> QED BY <1>3, <2>1, <2>2 DEF CheckDone, Goto, Label, AbortedByShutdown
<1>4. CASE WorkerApplyBegin(w)
  BY <1>4, GotoRInv DEF WorkerApplyBegin, Label
<1>5. CASE WorkerApplyRefused(w)
  BY <1>5, FinishRInv, StutterRInv DEF WorkerApplyRefused
<1>6. CASE WorkerApplyCommit(w)
  BY <1>6, FinishRInv, GotoRInv DEF WorkerApplyCommit, Label
<1>7. CASE WorkerApplyAborts(w)
  BY <1>7, FinishRInv DEF WorkerApplyAborts
<1>8. CASE WorkerCommitUnknown(w)
  BY <1>8, FinishRInv DEF WorkerCommitUnknown
<1>9. CASE ListEnabledAlertChannels(w)
  BY <1>9, FinishRInv, GotoRInv DEF ListEnabledAlertChannels, Label
<1>10. CASE ListFails(w)
  BY <1>10, FinishRInv DEF ListFails
<1>11. CASE SendAlert(w) \/ SendNothing(w)
  <2>1. NextChannel(w) /\ UNCHANGED <<sched, jobs, clock, cancelled>>
    BY <1>11 DEF SendAlert, SendNothing
  <2> QED BY <2>1, FinishRInv, StutterRInv DEF NextChannel, localVars
<1> QED BY <1>1, <1>2, <1>3, <1>4, <1>5, <1>6, <1>7, <1>8, <1>9, <1>10, <1>11
        DEF WorkerStep

LEMMA ExitRInv == ASSUME RInv, Exit PROVE RInv'
<1>1. 0 \in Time
  BY RunnerAssumption
<1> QED BY <1>1 DEF RInv, LocalTypes, AbortedByShutdown, Exit, FreshWorkers, world, Label

LEMMA StepRInv == RInv /\ [Next]_vars => RInv'
<1> SUFFICES ASSUME RInv, [Next]_vars PROVE RInv'
  OBVIOUS
<1> USE DEF sched, main, world, worker
<1>1. CASE Tick
  <2>1. clock' \in Time
    BY <1>1, RunnerAssumption DEF Tick, RInv, LocalTypes
  <2> QED BY <1>1, <2>1 DEF Tick, RInv, LocalTypes, AbortedByShutdown
<1>2. CASE SchedStep
  BY <1>2, SchedRInv
<1>3. CASE MainStep
  BY <1>3, ExitRInv, StutterRInv
     DEF MainStep, MainReturnsErr, MainReturnsDone, MainSeesCancel, localVars
<1>4. CASE \E w \in Process : WorkerStep(w)
  BY <1>4, WorkerRInv
<1>5. CASE Cancel
  BY <1>5 DEF Cancel, RInv, LocalTypes, AbortedByShutdown
<1>6. CASE Kill
  BY <1>6, ExitRInv DEF Kill
<1>7. CASE Restart
  BY <1>7 DEF Restart, FreshWorkers, Label, RInv, LocalTypes, AbortedByShutdown
<1>8. CASE TargetCall \/ ChannelCall
  BY <1>8, StutterRInv DEF TargetCall, ChannelCall, localVars
<1>9. CASE UNCHANGED vars
  BY <1>9, StutterRInv DEF vars, localVars
<1> QED BY <1>1, <1>2, <1>3, <1>4, <1>5, <1>6, <1>7, <1>8, <1>9 DEF Next

LEMMA RunnerInvariant == SafetySpec => []RInv
BY InitRInv, StepRInv, PTL DEF SafetySpec

-----------------------------------------------------------------------------
(* Runner uses the tables as MonitorStore says. *)

LEMMA WorkerStoreStep ==
  ASSUME RInv, NEW w \in Process, WorkerStep(w)
  PROVE  [StoreNext]_storeVars
<1>1. CASE WorkerApplyBegin(w)
  <2>1. job[w] \in Monitor /\ result[w].outcome \in Outcome /\ result[w].at \in Time
    BY <1>1 DEF WorkerApplyBegin, RInv, LocalTypes, Result
  <2>2. ApplyBegin(w, job[w], result[w].outcome, result[w].at)
    BY <1>1 DEF WorkerApplyBegin
  <2> QED BY <2>1, <2>2 DEF StoreNext, ApplyStep
<1>2. CASE WorkerApplyCommit(w) \/ WorkerCommitUnknown(w)
  <2>1. ApplyCommit(w)
    BY <1>2 DEF WorkerApplyCommit, WorkerCommitUnknown
  <2> QED BY <2>1 DEF StoreNext, ApplyStep
<1>3. CASE WorkerApplyAborts(w)
  <2>1. ApplyRollback(w)
    BY <1>3 DEF WorkerApplyAborts
  <2> QED BY <2>1 DEF StoreNext, ApplyStep
<1>4. CASE \/ WorkerTake(w) \/ WorkerQuit(w) \/ CheckDone(w) \/ WorkerApplyRefused(w)
           \/ ListEnabledAlertChannels(w) \/ ListFails(w)
           \/ SendAlert(w) \/ SendNothing(w)
  <2>1. UNCHANGED storeVars
    BY <1>4 DEF WorkerTake, WorkerQuit, CheckDone, WorkerApplyRefused,
                ListEnabledAlertChannels, ListFails, SendAlert, SendNothing
  <2> QED BY <2>1
<1> QED BY <1>1, <1>2, <1>3, <1>4 DEF WorkerStep

LEMMA SchedStoreStep ==
  ASSUME RInv, SchedStep
  PROVE  [StoreNext]_storeVars
<1>1. CASE SchedClaim
  <2>1. ClaimDueMonitors(schedNow)
    BY <1>1 DEF SchedClaim, ClaimDueMonitors
  <2>2. schedNow \in Time
    BY DEF RInv, LocalTypes
  <2> QED BY <2>1, <2>2 DEF StoreNext, ClaimStep
<1>2. CASE SchedClaimFails
  <2>1. UNCHANGED storeVars \/ ClaimDueMonitors(schedNow)
    BY <1>2 DEF SchedClaimFails
  <2>2. schedNow \in Time
    BY DEF RInv, LocalTypes
  <2> QED BY <2>1, <2>2 DEF StoreNext, ClaimStep
<1>3. CASE SchedSend \/ SchedSendCancelled \/ SchedTick \/ SchedStop
  <2>1. UNCHANGED storeVars
    BY <1>3 DEF SchedSend, SchedSendCancelled, SchedTick, SchedStop
  <2> QED BY <2>1
<1> QED BY <1>1, <1>2, <1>3 DEF SchedStep

LEMMA ApiStoreStep ==
  ASSUME RInv, TargetCall
  PROVE  [StoreNext]_storeVars
<1>1. clock \in Time
  BY DEF RInv, LocalTypes
<1>2. ApiStep
  BY <1>1 DEF TargetCall, ApiStep
<1> QED BY <1>2 DEF StoreNext

LEMMA StoreStep == RInv /\ [Next]_vars => [StoreNext]_storeVars
<1> SUFFICES ASSUME RInv, [Next]_vars PROVE [StoreNext]_storeVars
  OBVIOUS
<1>1. CASE SchedStep
  BY <1>1, SchedStoreStep
<1>2. CASE \E w \in Process : WorkerStep(w)
  BY <1>2, WorkerStoreStep
<1>3. CASE TargetCall
  BY <1>3, ApiStoreStep
<1>4. CASE Exit
  BY <1>4 DEF Exit, StoreNext
<1>5. CASE Tick \/ Cancel \/ MainSeesCancel \/ Restart \/ ChannelCall \/ UNCHANGED vars
  <2>1. UNCHANGED storeVars
    BY <1>5 DEF Tick, Cancel, MainSeesCancel, Restart, ChannelCall, vars
  <2> QED BY <2>1
<1> QED BY <1>1, <1>2, <1>3, <1>4, <1>5
        DEF Next, MainStep, MainReturnsErr, MainReturnsDone, Kill

\* The worker process, its crashes and restarts, and the API next to it
\* implement the store: every step is one of its transactions or none.
THEOREM RunnerImplementsStore == SafetySpec => StoreSpec
<1>1. Init => StoreInit
  BY DEF Init
<1> QED BY <1>1, StoreStep, RunnerInvariant, PTL DEF SafetySpec, StoreSpec

\* Hence, under the whole process, three failures in a row open one incident.
THEOREM RunnerCountsOutages == SafetySpec => []OneIncidentPerOutage
BY RunnerImplementsStore, IncidentsCountOutages, PTL

\* Hence, under the whole process, a monitor is down exactly while its latest
\* incident is open.
THEOREM RunnerStatusAgrees == SafetySpec => []OpenIncidentIffDown
BY RunnerImplementsStore, StatusAgreesWithIncidents, PTL

\* Hence, under the whole process with its crashes and restarts, a target
\* falls and recovers in single steps, each with its incident.
THEOREM RunnerKeepsHealth == SafetySpec => HealthIsKept
BY RunnerImplementsStore, StoreKeepsHealth, PTL

\* Hence no result is lost under another worker's, whatever the pool does.
THEOREM RunnerLosesNoUpdate == SafetySpec => []RowFollowsLog
BY RunnerImplementsStore, NoLostUpdate, PTL

-----------------------------------------------------------------------------
(* Aborted checks. *)

LEMMA AbortedStep ==
  RInv /\ IInv /\ NoAbortedCheckLogged /\ [Next]_vars => NoAbortedCheckLogged'
<1> SUFFICES ASSUME RInv, IInv, NoAbortedCheckLogged, [Next]_vars
             PROVE  NoAbortedCheckLogged'
  OBVIOUS
<1> DEFINE Clean(log) == \A i \in DOMAIN log : log[i].outcome # "aborted"
<1> USE DEF NoAbortedCheckLogged
\* The logs only change when one is emptied or a transaction commits.
<1>1. CASE UNCHANGED <<checklogs, tx>>
  BY <1>1
<1>2. ASSUME NEW m \in Monitor, checklogs' = [checklogs EXCEPT ![m] = << >>], tx' = tx
      PROVE  NoAbortedCheckLogged'
  <2>1. checklogs'[m] = << >> /\ \A n \in Monitor : n # m => checklogs'[n] = checklogs[n]
    BY <1>2 DEF IInv, StoreTypeOK
  <2> QED BY <1>2, <2>1
<1>3. ASSUME NEW w \in Process, ApplyCommit(w)
      PROVE  NoAbortedCheckLogged'
  <2> DEFINE x == [outcome |-> tx[w].outcome, at |-> tx[w].at]
  <2>1. /\ checklogs' = [checklogs EXCEPT ![tx[w].monitor] = Append(@, x)]
        /\ tx' = [tx EXCEPT ![w] = None]
        /\ x.outcome # "aborted" /\ x \in Result
    BY <1>3, NoneIsNoTx DEF ApplyCommit, IInv, StoreTypeOK, TxType, Result
  <2> HIDE DEF x
  <2>2. ASSUME NEW n \in Monitor
        PROVE  Clean(checklogs'[n])
    <3>1. checklogs[n] \in Seq(Result) /\ Clean(checklogs[n])
      BY DEF IInv, StoreTypeOK, Result
    <3>2. checklogs'[n] = checklogs[n] \/ checklogs'[n] = Append(checklogs[n], x)
      BY <2>1 DEF IInv, StoreTypeOK
    <3> QED BY <2>1, <3>1, <3>2
  <2>3. \A v \in Process : tx'[v] # None => tx'[v] = tx[v]
    BY <2>1 DEF IInv, StoreTypeOK
  <2> QED BY <2>2, <2>3
<1>4. ASSUME NEW w \in Process, WorkerApplyBegin(w)
      PROVE  NoAbortedCheckLogged'
  <2>1. result[w].outcome # "aborted"
    BY <1>4 DEF WorkerApplyBegin, RInv, AbortedByShutdown
  <2>2. /\ checklogs' = checklogs
        /\ \A v \in Process : v # w => tx'[v] = tx[v]
        /\ tx'[w].outcome = result[w].outcome
    BY <1>4 DEF WorkerApplyBegin, ApplyBegin, IInv, StoreTypeOK
  <2> QED BY <2>1, <2>2
<1>5. ASSUME checklogs' = checklogs, \A v \in Process : tx'[v] # None => tx'[v] = tx[v]
      PROVE  NoAbortedCheckLogged'
  BY <1>5
<1>6. CASE SchedStep
  BY <1>1, <1>6 DEF SchedStep, SchedClaim, SchedClaimFails, SchedSend,
       SchedSendCancelled, SchedTick, SchedStop, ClaimDueMonitors, ClaimRows, storeVars
<1>7. ASSUME NEW w \in Process, WorkerStep(w)
      PROVE  NoAbortedCheckLogged'
  <2>1. CASE WorkerApplyBegin(w)
    BY <1>4, <2>1
  <2>2. CASE WorkerApplyCommit(w) \/ WorkerCommitUnknown(w)
    BY <1>3, <2>2 DEF WorkerApplyCommit, WorkerCommitUnknown
  <2>3. CASE WorkerApplyAborts(w)
    BY <1>5, <2>3 DEF WorkerApplyAborts, ApplyRollback, IInv, StoreTypeOK
  <2>4. CASE \/ WorkerTake(w) \/ WorkerQuit(w) \/ CheckDone(w) \/ WorkerApplyRefused(w)
             \/ ListEnabledAlertChannels(w) \/ ListFails(w)
             \/ SendAlert(w) \/ SendNothing(w)
    BY <1>1, <2>4 DEF WorkerTake, WorkerQuit, CheckDone, WorkerApplyRefused,
         ListEnabledAlertChannels, ListFails, SendAlert, SendNothing, storeVars
  <2> QED BY <1>7, <2>1, <2>2, <2>3, <2>4 DEF WorkerStep
<1>8. CASE TargetCall
  BY <1>1, <1>2, <1>8 DEF TargetCall, CreateMonitor, UpdateMonitor, DeleteMonitor
<1>9. CASE Exit
  BY <1>5, <1>9 DEF Exit, Disconnect
<1>10. CASE Tick \/ Cancel \/ MainSeesCancel \/ Restart \/ ChannelCall \/ UNCHANGED vars
  BY <1>1, <1>10 DEF Tick, Cancel, MainSeesCancel, Restart, ChannelCall, vars, storeVars
<1> QED BY <1>6, <1>7, <1>8, <1>9, <1>10
        DEF Next, MainStep, MainReturnsErr, MainReturnsDone, Kill

\* Stopping the worker never counts as a failure of a target.
THEOREM ShutdownIsNotAnOutage == SafetySpec => []NoAbortedCheckLogged
<1>1. Init => NoAbortedCheckLogged
  BY RunnerAssumption DEF Init, StoreInit, NoAbortedCheckLogged
<1>2. SafetySpec => []IInv
  BY RunnerImplementsStore, StoreInvariant, PTL
<1> QED BY <1>1, <1>2, RunnerInvariant, AbortedStep, PTL DEF SafetySpec

-----------------------------------------------------------------------------
(* Types of the whole process. *)

MainTypes ==
  /\ clock \in 0 .. MaxTime /\ faults \in 0 .. MaxFaults /\ starts \in 1 .. MaxStarts
  /\ proc \in {"running", "draining", "down"}
  /\ cancelled \in BOOLEAN /\ errCh \in BOOLEAN
  /\ schedPc \in {"claim", "send", "wait", "done"}
  /\ Len(batch) <= BatchSize /\ Len(jobs) <= QueueSize
  /\ listed \subseteq Channel

\* What worker w keeps from one statement to the next.
WorkerType(w) ==
  /\ job[w] = None <=> pc[w] \in {"idle", "done"}
  /\ pc[w] \in {"apply", "commit"} => result[w] \in Result
  /\ pc[w] \in {"list", "notify"} =>
       event[w] \in [type : {"down", "recovered"}, incident : Nat]
  /\ pending[w] # << >> <=> pc[w] = "notify"

WorkerTypes ==
  /\ event \in [Process -> [type : {"down", "recovered"}, incident : Nat] \cup {None}]
  /\ pending \in [Process -> Seq(Channel)]
  /\ \A w \in Process : WorkerType(w)

SentTypes == IsABag(sent) /\ BagToSet(sent) \subseteq AlertType

Types == RInv /\ IInv /\ MainTypes /\ WorkerTypes /\ SentTypes

LEMMA TypesSuffice == Types => TypeOK
BY DEF Types, TypeOK, RInv, LocalTypes, IInv, MainTypes, WorkerTypes, WorkerType, SentTypes, Result, Label

LEMMA InitTypes == Init => Types
<1> SUFFICES ASSUME Init PROVE Types
  OBVIOUS
<1>1. RInv /\ IInv
  BY InitRInv, InitIInv DEF Init
<1>2. MainTypes
  <2>1. clock \in 0 .. MaxTime /\ faults \in 0 .. MaxFaults /\ starts \in 1 .. MaxStarts
    BY RunnerAssumption DEF Init
  <2>2. Len(batch) <= BatchSize /\ Len(jobs) <= QueueSize
    <3>1. Len(<< >>) <= BatchSize /\ Len(<< >>) <= QueueSize
      BY RunnerAssumption, StoreAssumption
    <3> QED BY <3>1 DEF Init
  <2>3. listed \subseteq Channel
    BY DEF Init
  <2>4. /\ cancelled \in BOOLEAN /\ errCh \in BOOLEAN
        /\ proc \in {"running", "draining", "down"}
        /\ schedPc \in {"claim", "send", "wait", "done"}
    BY DEF Init
  <2> QED BY <2>1, <2>2, <2>3, <2>4 DEF MainTypes
<1>3. WorkerTypes
  BY DEF Init, WorkerTypes, WorkerType
<1>4. SentTypes
  BY DEF Init, SentTypes, EmptyBag, SetToBag, IsABag, BagToSet
<1> QED BY <1>1, <1>2, <1>3, <1>4 DEF Types

mainVars == <<clock, faults, starts, proc, cancelled, errCh, schedPc, batch, jobs, listed>>

LEMMA RowOrdersLength ==
  ASSUME NEW S \in SUBSET Monitor, NEW s \in RowOrders(S)
  PROVE  Len(s) = Cardinality(S)
<1>1. IsFiniteSet(S)
  BY RunnerAssumption, FS_Subset
<1>2. Cardinality(S) \in Nat
  BY <1>1, FS_CardinalityType
<1>3. s \in [1 .. Cardinality(S) -> S]
  BY DEF RowOrders
<1> QED BY <1>2, <1>3

LEMMA SchedTypes == ASSUME RInv, MainTypes, SchedStep PROVE MainTypes'
<1> USE DEF MainTypes
<1>1. CASE SchedClaim
  <2>1. PICK S \in ClaimSets(schedNow) :
          /\ batch' \in RowOrders(S)
          /\ IF S = {} THEN ToSelect ELSE schedPc' = "send" /\ UNCHANGED ticker
    BY <1>1 DEF SchedClaim
  <2>2. S \in SUBSET Monitor /\ Cardinality(S) <= BatchSize
    BY DEF ClaimSets, Claimable, Live
  <2>3. Len(batch') <= BatchSize
    BY <2>1, <2>2, RowOrdersLength
  <2>4. UNCHANGED <<clock, faults, starts, proc, cancelled, errCh, jobs, listed>>
    BY <1>1 DEF SchedClaim, main, world
  <2> QED BY <2>1, <2>3, <2>4 DEF ToSelect
<1>2. CASE SchedClaimFails
  <2>1. faults' \in 0 .. MaxFaults
    BY <1>2, RunnerAssumption DEF SchedClaimFails, Fault, NoFault
  <2>2. errCh' \in BOOLEAN
    BY <1>2 DEF SchedClaimFails
  <2> QED BY <1>2, <2>1, <2>2 DEF SchedClaimFails
<1>3. CASE SchedSend
  <2>1. batch \in Seq(Monitor) /\ batch # << >> /\ jobs \in Seq(Monitor)
    BY <1>3 DEF SchedSend, RInv, LocalTypes
  <2>2. Len(batch') <= BatchSize /\ Len(jobs') <= QueueSize
    <3>1. /\ Len(Tail(batch)) = Len(batch) - 1
          /\ \A x : Len(Append(jobs, x)) = Len(jobs) + 1
          /\ Len(jobs) \in Nat /\ Len(batch) \in Nat
      BY <2>1
    <3> QED BY <1>3, <3>1, StoreAssumption, RunnerAssumption DEF SchedSend
  <2> QED BY <1>3, <2>2 DEF SchedSend, ToSelect, main, world
<1>4. CASE SchedSendCancelled
  <2>1. Len(<< >>) <= BatchSize
    BY StoreAssumption
  <2> QED BY <1>4, <2>1 DEF SchedSendCancelled, ToSelect, main, world
<1>5. CASE SchedTick \/ SchedStop
  BY <1>5 DEF SchedTick, SchedStop, main, world
<1> QED BY <1>1, <1>2, <1>3, <1>4, <1>5 DEF SchedStep

LEMMA WorkerMainTypes ==
  ASSUME RInv, MainTypes, NEW w \in Process, WorkerStep(w)
  PROVE  MainTypes'
<1>1. ASSUME UNCHANGED <<clock, starts, proc, cancelled, errCh, schedPc, batch, jobs, listed>>,
             Fault \/ NoFault
      PROVE  MainTypes'
  <2>1. faults' \in 0 .. MaxFaults
    BY <1>1, RunnerAssumption DEF Fault, NoFault, MainTypes
  <2> QED BY <1>1, <2>1 DEF MainTypes
<1>2. CASE WorkerTake(w)
  <2>1. jobs \in Seq(Monitor) /\ jobs # << >>
    BY <1>2 DEF WorkerTake, RInv, LocalTypes
  <2>2. Len(Tail(jobs)) = Len(jobs) - 1 /\ Len(jobs) \in Nat
    BY <2>1
  <2>3. Len(jobs') <= QueueSize
    BY <1>2, <2>2, RunnerAssumption DEF WorkerTake, MainTypes
  <2> QED BY <1>2, <2>3 DEF WorkerTake, MainTypes, sched, main, world
<1>3. CASE \/ WorkerQuit(w) \/ CheckDone(w) \/ WorkerApplyBegin(w) \/ WorkerApplyCommit(w)
           \/ ListEnabledAlertChannels(w) \/ SendAlert(w) \/ SendNothing(w)
  BY <1>1, <1>3 DEF WorkerQuit, CheckDone, WorkerApplyBegin, WorkerApplyCommit,
     ListEnabledAlertChannels, SendAlert, SendNothing, sched, main, world, NoFault
<1>4. CASE \/ WorkerApplyRefused(w) \/ WorkerApplyAborts(w) \/ WorkerCommitUnknown(w)
           \/ ListFails(w)
  BY <1>1, <1>4 DEF WorkerApplyRefused, WorkerApplyAborts, WorkerCommitUnknown,
     ListFails, sched, main
<1> QED BY <1>2, <1>3, <1>4 DEF WorkerStep

LEMMA StepMainTypes == ASSUME RInv, MainTypes, [Next]_vars PROVE MainTypes'
<1>1. CASE Tick
  <2>1. clock' \in 0 .. MaxTime
    BY <1>1, RunnerAssumption DEF Tick, MainTypes
  <2> QED BY <1>1, <2>1 DEF Tick, MainTypes, main
<1>2. CASE SchedStep
  BY <1>2, SchedTypes
<1>3. CASE Exit
  <2>1. Len(<< >>) <= BatchSize /\ Len(<< >>) <= QueueSize
    BY StoreAssumption, RunnerAssumption
  <2> QED BY <1>3, <2>1 DEF Exit, MainTypes, world
<1>4. CASE MainSeesCancel \/ Cancel
  BY <1>4 DEF MainSeesCancel, Cancel, MainTypes, sched, world
<1>5. CASE \E w \in Process : WorkerStep(w)
  BY <1>5, WorkerMainTypes
<1>6. CASE Restart
  <2>1. starts' \in 1 .. MaxStarts
    BY <1>6, RunnerAssumption DEF Restart, MainTypes
  <2> QED BY <1>6, <2>1 DEF Restart, MainTypes, world
<1>7. CASE TargetCall \/ UNCHANGED vars
  BY <1>7 DEF TargetCall, MainTypes, sched, main, world, vars
<1>8. CASE ChannelCall
  <2>1. listed' \subseteq Channel
    BY <1>8 DEF ChannelCall, MainTypes
  <2> QED BY <1>8, <2>1 DEF ChannelCall, MainTypes, sched, main
<1> QED BY <1>1, <1>2, <1>3, <1>4, <1>5, <1>6, <1>7, <1>8
        DEF Next, MainStep, MainReturnsErr, MainReturnsDone, Kill

\* The order of created_at is an order of the channels.
LEMMA EnabledChannelsSorted ==
  ASSUME listed \subseteq Channel, listed # {}
  PROVE  /\ EnabledChannels \in Seq(Channel) /\ EnabledChannels # << >>
         /\ Len(EnabledChannels) <= Cardinality(Channel)
         /\ \A c \in listed : \E i \in DOMAIN EnabledChannels : EnabledChannels[i] = c
         /\ \A i, j \in DOMAIN EnabledChannels :
              i # j => EnabledChannels[i] # EnabledChannels[j]
<1>1. IsFiniteSet(listed) /\ listed \subseteq Nat
  <2>1. listed \in SUBSET Channel /\ IsFiniteSet(Channel) /\ Channel \subseteq Nat
    BY RunnerAssumption
  <2> QED BY <2>1, FS_Subset
<1>2. PICK n : n = Cardinality(listed)
  OBVIOUS
<1>3. n \in Nat /\ n # 0
  BY <1>1, <1>2, FS_CardinalityType, FS_EmptySet
<1>4. PICK LT : LT = {p \in listed \X listed : p[1] < p[2]}
  OBVIOUS
<1>5. \A a, b \in listed : <<a, b>> \in LT <=> a < b
  BY <1>4
<1>6. StrictTotal(listed, LT)
  <2>1. \A a, b, d \in Nat : /\ ~ (a < a)
                             /\ a # b => a < b \/ b < a
                             /\ a < b /\ b < d => a < d
    OBVIOUS
  <2>2. \A a, b, d \in listed : /\ ~ (a < a)
                                /\ a # b => a < b \/ b < a
                                /\ a < b /\ b < d => a < d
    BY <1>1, <2>1
  <2> QED BY <1>5, <2>2 DEF StrictTotal
<1>7. \E s \in [1 .. n -> listed] : \A i, j \in 1 .. n : i < j => <<s[i], s[j]>> \in LT
  BY <1>1, <1>2, <1>6, InOrder
<1>8. \E s \in [1 .. n -> listed] : \A i, j \in DOMAIN s : i < j => s[i] < s[j]
  <2>1. PICK s \in [1 .. n -> listed] : \A i, j \in 1 .. n : i < j => <<s[i], s[j]>> \in LT
    BY <1>7
  <2>2. \A i, j \in DOMAIN s : i < j => s[i] < s[j]
    BY <1>5, <2>1
  <2> QED BY <2>2
<1>9. PICK t : t = EnabledChannels
  OBVIOUS
<1>10. t \in [1 .. n -> listed] /\ \A i, j \in DOMAIN t : i < j => t[i] < t[j]
  BY <1>2, <1>8, <1>9 DEF EnabledChannels
<1>11. ASSUME NEW i \in DOMAIN t, NEW j \in DOMAIN t, i # j
       PROVE  t[i] # t[j]
  <2>1. i \in Int /\ j \in Int /\ t[i] \in Int /\ t[j] \in Int
    <3>1. DOMAIN t = 1 .. n /\ \A x \in 1 .. n : t[x] \in listed
      BY <1>10
    <3>2. i \in 1 .. n /\ j \in 1 .. n /\ t[i] \in Nat /\ t[j] \in Nat
      BY <1>1, <3>1
    <3> QED BY <3>2
  <2>2. i < j \/ j < i
    BY <1>11, <2>1
  <2>3. t[i] < t[j] \/ t[j] < t[i]
    BY <1>10, <2>2
  <2> QED BY <2>1, <2>3
<1>12. t \in Seq(Channel) /\ t # << >> /\ Len(t) = n
  BY <1>3, <1>10
<1>13. n <= Cardinality(Channel)
  <2>1. listed \in SUBSET Channel /\ IsFiniteSet(Channel)
    BY RunnerAssumption
  <2> QED BY <1>2, <2>1, FS_Subset
<1>14. \A c \in listed : \E i \in DOMAIN t : t[i] = c
  <2>1. t \in Injection(1 .. n, listed)
    BY <1>10, <1>11 DEF Injection, IsInjective
  <2>2. Cardinality(1 .. n) = n
    BY <1>3, FS_Interval
  <2>3. t \in Surjection(1 .. n, listed)
    BY <1>1, <1>2, <2>1, <2>2, FS_Injection
  <2> QED BY <1>10, <2>3 DEF Surjection
<1> QED BY <1>9, <1>11, <1>12, <1>13, <1>14

LEMMA FinishTypes ==
  ASSUME RInv, WorkerTypes, NEW w \in Process, Finish(w)
  PROVE  WorkerTypes'
<1> USE DEF RInv, LocalTypes, WorkerTypes
<1>1. /\ pc'[w] = "idle" /\ job'[w] = None /\ pending'[w] = << >>
      /\ event' = [event EXCEPT ![w] = None]
      /\ pending' \in [Process -> Seq(Channel)]
      /\ \A v \in Process \ {w} : /\ pc'[v] = pc[v] /\ job'[v] = job[v]
                                  /\ pending'[v] = pending[v] /\ event'[v] = event[v]
                                  /\ result'[v] = result[v]
  BY DEF Finish, Goto
<1>2. WorkerType(w)'
  BY <1>1 DEF WorkerType
<1>3. \A v \in Process \ {w} : WorkerType(v)'
  BY <1>1 DEF WorkerType
<1> QED BY <1>1, <1>2, <1>3

\* The step of w is no concern of another worker.
LEMMA GotoTypes ==
  ASSUME RInv, WorkerTypes, NEW w \in Process, NEW l, Goto(w, l), WorkerType(w)',
         \A v \in Process \ {w} : /\ job'[v] = job[v] /\ result'[v] = result[v]
                                  /\ event'[v] = event[v] /\ pending'[v] = pending[v],
         event' \in [Process -> [type : {"down", "recovered"}, incident : Nat] \cup {None}],
         pending' \in [Process -> Seq(Channel)]
  PROVE  WorkerTypes'
<1>1. \A v \in Process \ {w} : pc'[v] = pc[v]
  BY DEF Goto, RInv, LocalTypes
<1>2. \A v \in Process \ {w} : WorkerType(v)'
  BY <1>1 DEF WorkerTypes, WorkerType
<1> QED BY <1>2 DEF WorkerTypes

LEMMA EmittedType ==
  ASSUME IInv, NEW w \in Process, tx[w] # None
  PROVE  /\ EmittedEvent(w).type = Transition(tx[w]).event
         /\ EmittedEvent(w).type \in EventType
         /\ EmittedEvent(w).incident \in Nat
         /\ EmittedEvent(w) \in [type : EventType, incident : Nat]
<1>1. PICK m : m = tx[w].monitor
  OBVIOUS
<1>2. m \in Monitor /\ incidents[m] \in Seq({"open", "resolved"})
  BY <1>1 DEF IInv, StoreTypeOK, TxType
<1>3. /\ EmittedEvent(w).type = Transition(tx[w]).event
      /\ EmittedEvent(w).incident = IF Transition(tx[w]).event = "down" THEN Len(incidents[m]) + 1
                                    ELSE IF OpenIncidents(m) = {} THEN 0
                                    ELSE CHOOSE i \in OpenIncidents(m) : TRUE
  BY <1>1 DEF EmittedEvent
<1>4. Transition(tx[w]).event \in EventType
  BY DEF Transition, evaluateStateTransition, EventType
<1>5. OpenIncidents(m) \subseteq Nat /\ Len(incidents[m]) \in Nat
  BY <1>2 DEF OpenIncidents
<1>6. OpenIncidents(m) # {} => (CHOOSE i \in OpenIncidents(m) : TRUE) \in Nat
  BY <1>5
<1>7. EmittedEvent(w).type \in EventType /\ EmittedEvent(w).incident \in Nat
  BY <1>3, <1>4, <1>5, <1>6
<1>8. EmittedEvent(w) = [type |-> EmittedEvent(w).type, incident |-> EmittedEvent(w).incident]
  BY DEF EmittedEvent
<1> QED BY <1>3, <1>7, <1>8

LEMMA WorkerStepTypes ==
  ASSUME RInv, IInv, WorkerTypes, listed \subseteq Channel, NEW w \in Process, WorkerStep(w)
  PROVE  WorkerTypes'
<1>1. WorkerType(w) /\ pc \in [Process -> Label]
  BY DEF WorkerTypes, RInv, LocalTypes
<1>2. CASE WorkerTake(w)
  <2>1. Head(jobs) \in Monitor /\ Head(jobs) # None
    BY <1>2, RunnerAssumption DEF WorkerTake, RInv, LocalTypes
  <2>2. pc'[w] = "check" /\ job'[w] = Head(jobs) /\ pending' = pending
    BY <1>1, <1>2 DEF WorkerTake, Goto, RInv, LocalTypes
  <2>3. WorkerType(w)'
    BY <1>1, <1>2, <2>1, <2>2 DEF WorkerTake, WorkerType
  <2> QED BY <1>2, <2>3, GotoTypes DEF WorkerTake, WorkerTypes, RInv, LocalTypes
<1>3. CASE WorkerQuit(w)
  <2>1. pc'[w] = "done" /\ UNCHANGED <<job, result, event, pending>>
    BY <1>1, <1>3 DEF WorkerQuit, Goto
  <2>2. WorkerType(w)'
    BY <1>1, <1>3, <2>1 DEF WorkerQuit, WorkerType
  <2> QED BY <1>3, <2>1, <2>2, GotoTypes DEF WorkerQuit, WorkerTypes
<1>4. CASE CheckDone(w)
  <2>1. PICK outcome \in Outcome :
          result' = [result EXCEPT ![w] = [outcome |-> outcome, at |-> clock]]
    BY <1>4 DEF CheckDone
  <2>2. pc'[w] = "apply" /\ UNCHANGED <<job, event, pending>> /\ result'[w] \in Result
    BY <1>1, <1>4, <2>1 DEF CheckDone, Goto, Result, RInv, LocalTypes
  <2>3. WorkerType(w)'
    BY <1>1, <1>4, <2>2 DEF CheckDone, WorkerType
  <2> QED BY <1>4, <2>1, <2>2, <2>3, GotoTypes DEF CheckDone, WorkerTypes, RInv, LocalTypes
<1>5. CASE WorkerApplyBegin(w)
  <2>1. pc'[w] = "commit" /\ UNCHANGED <<job, result, event, pending>>
    BY <1>1, <1>5 DEF WorkerApplyBegin, Goto
  <2>2. WorkerType(w)'
    BY <1>1, <1>5, <2>1 DEF WorkerApplyBegin, WorkerType
  <2> QED BY <1>5, <2>1, <2>2, GotoTypes DEF WorkerApplyBegin, WorkerTypes
<1>6. CASE Finish(w)
  BY <1>6, FinishTypes
<1>7. CASE WorkerApplyCommit(w) /\ ~ Finish(w)
  <2>1. /\ tx[w] # None /\ EmittedEvent(w).type # "none"
        /\ event' = [event EXCEPT ![w] = EmittedEvent(w)]
        /\ Goto(w, "list") /\ pc[w] = "commit" /\ UNCHANGED <<job, result, pending>>
    BY <1>7 DEF WorkerApplyCommit, ApplyCommit
  <2>2. EmittedEvent(w) \in [type : {"down", "recovered"}, incident : Nat]
    BY <2>1, EmittedType DEF EventType
  <2>3. pc'[w] = "list" /\ event'[w] = EmittedEvent(w)
    BY <1>1, <2>1 DEF Goto, WorkerTypes
  <2>4. WorkerType(w)'
    BY <1>1, <2>1, <2>2, <2>3 DEF WorkerType
  <2>5. /\ event' \in [Process -> [type : {"down", "recovered"}, incident : Nat] \cup {None}]
        /\ \A v \in Process \ {w} : event'[v] = event[v]
    BY <2>1, <2>2 DEF WorkerTypes
  <2> QED BY <2>1, <2>4, <2>5, GotoTypes DEF WorkerTypes
<1>8. CASE ListEnabledAlertChannels(w) /\ ~ Finish(w)
  <2>1. /\ listed # {} /\ pending' = [pending EXCEPT ![w] = EnabledChannels]
        /\ Goto(w, "notify") /\ pc[w] = "list" /\ UNCHANGED <<job, result, event>>
    BY <1>8 DEF ListEnabledAlertChannels
  <2>2. EnabledChannels \in Seq(Channel) /\ EnabledChannels # << >>
    BY <2>1, EnabledChannelsSorted
  <2>3. /\ pc'[w] = "notify" /\ pending'[w] = EnabledChannels
        /\ pending' \in [Process -> Seq(Channel)]
        /\ \A v \in Process \ {w} : pending'[v] = pending[v]
    BY <1>1, <2>1, <2>2 DEF Goto, WorkerTypes
  <2>4. WorkerType(w)'
    BY <1>1, <2>1, <2>2, <2>3 DEF WorkerType
  <2> QED BY <2>1, <2>3, <2>4, GotoTypes DEF WorkerTypes
<1>9. CASE (SendAlert(w) \/ SendNothing(w)) /\ ~ Finish(w)
  <2>1. /\ pc[w] = "notify" /\ Len(pending[w]) # 1
        /\ pending' = [pending EXCEPT ![w] = Tail(@)]
        /\ UNCHANGED <<pc, job, result, event>>
    BY <1>9 DEF SendAlert, SendNothing, NextChannel
  <2>2. pending[w] \in Seq(Channel) /\ pending[w] # << >>
    BY <1>1, <2>1 DEF WorkerTypes, WorkerType
  <2>3. Tail(pending[w]) \in Seq(Channel) /\ Tail(pending[w]) # << >>
    <3>1. PICK s : s = pending[w]
      OBVIOUS
    <3>2. s \in Seq(Channel) /\ Len(s) # 1 /\ Len(s) # 0
      BY <2>1, <2>2, <3>1
    <3>3. Tail(s) \in Seq(Channel) /\ Len(Tail(s)) = Len(s) - 1 /\ Len(s) \in Nat
      BY <3>2
    <3>4. Len(Tail(s)) # 0
      BY <3>2, <3>3
    <3> QED BY <3>1, <3>3, <3>4
  <2>4. /\ pending'[w] = Tail(pending[w]) /\ pending' \in [Process -> Seq(Channel)]
        /\ \A v \in Process \ {w} : pending'[v] = pending[v]
    BY <2>1, <2>3 DEF WorkerTypes
  <2>5. \A v \in Process : WorkerType(v)'
    BY <1>1, <2>1, <2>3, <2>4 DEF WorkerTypes, WorkerType
  <2> QED BY <2>1, <2>4, <2>5 DEF WorkerTypes
<1> QED BY <1>2, <1>3, <1>4, <1>5, <1>6, <1>7, <1>8, <1>9
        DEF WorkerStep, WorkerApplyRefused, WorkerApplyAborts, WorkerCommitUnknown, ListFails

LEMMA StepWorkerTypes ==
  ASSUME RInv, IInv, MainTypes, WorkerTypes, [Next]_vars
  PROVE  WorkerTypes'
<1>1. CASE UNCHANGED worker
  BY <1>1 DEF worker, WorkerTypes, WorkerType
<1>2. ASSUME NEW l \in {"idle", "done"}, FreshWorkers(l)
      PROVE  WorkerTypes'
  BY <1>2 DEF FreshWorkers, WorkerTypes, WorkerType
<1>3. CASE \E w \in Process : WorkerStep(w)
  BY <1>3, WorkerStepTypes DEF MainTypes
<1>4. CASE SchedStep
  BY <1>1, <1>4 DEF SchedStep, SchedClaim, SchedClaimFails, SchedSend,
     SchedSendCancelled, SchedTick, SchedStop
<1>5. CASE Exit \/ Restart
  BY <1>2, <1>5 DEF Exit, Restart
<1> QED BY <1>1, <1>3, <1>4, <1>5
        DEF Next, MainStep, MainReturnsErr, MainReturnsDone, MainSeesCancel, Kill, Tick,
            Cancel, TargetCall, ChannelCall, vars

\* One more request.
LEMMA OneMoreSent ==
  ASSUME NEW B, NEW a, IsABag(B)
  PROVE  /\ IsABag(B (+) SetToBag({a}))
         /\ BagToSet(B (+) SetToBag({a})) = BagToSet(B) \cup {a}
         /\ a \notin BagToSet(B) => (B (+) SetToBag({a}))[a] = 1
         /\ \A x \in BagToSet(B) \ {a} : (B (+) SetToBag({a}))[x] = B[x]
<1>1. PICK T, U : T = SetToBag({a}) /\ U = B (+) T
  OBVIOUS
<1>2. DOMAIN T = {a} /\ T[a] = 1
  BY <1>1 DEF SetToBag
<1>3. U = [e \in (DOMAIN B) \cup (DOMAIN T) |->
             (IF e \in DOMAIN B THEN B[e] ELSE 0) + (IF e \in DOMAIN T THEN T[e] ELSE 0)]
  BY <1>1 DEF (+)
<1>4. /\ DOMAIN U = (DOMAIN B) \cup {a}
      /\ \A e \in DOMAIN U : U[e] = (IF e \in DOMAIN B THEN B[e] ELSE 0)
                                    + (IF e = a THEN 1 ELSE 0)
      /\ U = [e \in DOMAIN U |-> U[e]]
  BY <1>2, <1>3
<1>5. \A e \in DOMAIN B : B[e] \in Nat /\ B[e] > 0
  BY DEF IsABag
<1>6. \A e \in DOMAIN U : U[e] \in Nat /\ U[e] > 0
  BY <1>4, <1>5
<1>7. IsABag(U)
  BY <1>4, <1>6 DEF IsABag
<1>8. /\ a \notin DOMAIN B => U[a] = 1
      /\ \A x \in (DOMAIN B) \ {a} : U[x] = B[x]
  BY <1>4, <1>5
<1> QED BY <1>1, <1>4, <1>7, <1>8 DEF BagToSet

LEMMA StepSentTypes ==
  ASSUME RInv, WorkerTypes, SentTypes, [Next]_vars
  PROVE  SentTypes'
<1>1. CASE UNCHANGED sent
  BY <1>1 DEF SentTypes
<1>2. ASSUME NEW w \in Process, SendAlert(w)
      PROVE  SentTypes'
  <2>1. PICK a : a = Alert(w, Head(pending[w])) /\ sent' = sent (+) SetToBag({a})
    BY <1>2 DEF SendAlert
  <2>2. Head(pending[w]) \in Channel
    BY <1>2 DEF SendAlert, WorkerTypes, WorkerType
  <2>3. job[w] \in Monitor
    BY <1>2 DEF SendAlert, WorkerTypes, WorkerType, RInv, LocalTypes
  <2>4. event[w].type \in {"down", "recovered"} /\ event[w].incident \in Nat
    BY <1>2 DEF SendAlert, WorkerTypes, WorkerType
  <2>5. a \in AlertType
    BY <2>1, <2>2, <2>3, <2>4 DEF Alert, AlertType
  <2>6. IsABag(sent') /\ BagToSet(sent') = BagToSet(sent) \cup {a}
    <3>1. PICK B : B = sent /\ IsABag(B)
      BY DEF SentTypes
    <3>2. IsABag(B (+) SetToBag({a})) /\ BagToSet(B (+) SetToBag({a})) = BagToSet(B) \cup {a}
      BY <3>1, OneMoreSent
    <3> QED BY <2>1, <3>1, <3>2
  <2> QED BY <2>5, <2>6 DEF SentTypes
<1>3. ASSUME NEW w \in Process, WorkerStep(w), ~ SendAlert(w)
      PROVE  UNCHANGED sent
  BY <1>3 DEF WorkerStep, WorkerTake, WorkerQuit, CheckDone, WorkerApplyBegin,
     WorkerApplyRefused, WorkerApplyCommit, WorkerApplyAborts, WorkerCommitUnknown,
     ListEnabledAlertChannels, ListFails, SendNothing, world
<1>4. SchedStep => UNCHANGED sent
  BY DEF SchedStep, SchedClaim, SchedClaimFails, SchedSend, SchedSendCancelled,
     SchedTick, SchedStop, world
<1>5. Exit => UNCHANGED sent
  BY DEF Exit, world
<1> QED BY <1>1, <1>2, <1>3, <1>4, <1>5
        DEF Next, MainStep, MainReturnsErr, MainReturnsDone, MainSeesCancel, Kill, Tick,
            Cancel, Restart, TargetCall, ChannelCall, vars, world

LEMMA StepTypes == Types /\ [Next]_vars => Types'
<1> SUFFICES ASSUME Types, [Next]_vars PROVE Types'
  OBVIOUS
<1>1. RInv' /\ IInv'
  BY StepRInv, StoreStep, StepPreserves DEF Types
<1> QED BY <1>1, StepMainTypes, StepWorkerTypes, StepSentTypes DEF Types

LEMMA RunnerTypes == SafetySpec => []Types
BY InitTypes, StepTypes, PTL DEF SafetySpec

\* Every variable of the process keeps its type: the jobs channel never holds
\* more than its capacity, and a worker has what its next statement needs.
THEOREM RunnerTypeCorrect == SafetySpec => []TypeOK
BY RunnerTypes, TypesSuffice, PTL

-----------------------------------------------------------------------------
(* What is announced. *)

\* The event is in the incidents table, unless the target is gone.
Happened(m, type, i) ==
  /\ phase[m] # "new"
  /\ m \in Live => /\ i \in DOMAIN incidents[m]
                   /\ type = "recovered" => incidents[m][i] = "resolved"

Announcing(w) == pc[w] \in {"list", "notify"}

\* Worker w announces what request a told.
Same(w, a) == /\ a.monitor = job[w]
              /\ a.type = event[w].type /\ a.incident = event[w].incident

\* Worker w announces something that happened, once per channel, and nobody
\* else does.
OwnNews(w) ==
  /\ Happened(job[w], event[w].type, event[w].incident)
  /\ \A i, j \in DOMAIN pending[w] : i # j => pending[w][i] # pending[w][j]
  /\ \A a \in BagToSet(sent) : Same(w, a) =>
       pc[w] = "notify" /\ \A i \in DOMAIN pending[w] : pending[w][i] # a.channel
  /\ \A v \in Process \ {w} : Announcing(v) =>
       \/ job[v] # job[w] \/ event[v].type # event[w].type
       \/ event[v].incident # event[w].incident

SentOK == \A a \in BagToSet(sent) :
            Happened(a.monitor, a.type, a.incident) /\ sent[a] = 1

\* The transaction of a worker is about its job.
TxOfJob == \A w \in Process :
             pc[w] = "commit" => tx[w] # None /\ tx[w].monitor = job[w]

AlertInv == SentOK /\ TxOfJob /\ \A w \in Process : Announcing(w) => OwnNews(w)

LEMMA HappenedStays ==
  ASSUME IInv, [StoreNext]_storeVars, NEW m \in Monitor, NEW type, NEW i,
         Happened(m, type, i)
  PROVE  Happened(m, type, i)'
<1> USE DEF IInv, StoreTypeOK
<1>1. CASE UNCHANGED <<phase, incidents>>
  BY <1>1 DEF Happened, Live
<1>2. ASSUME NEW n \in Monitor, NEW enabled, NEW interval, NEW now,
             CreateMonitor(n, enabled, interval, now)
      PROVE  Happened(m, type, i)'
  <2>1. n # m /\ phase'[m] = phase[m] /\ incidents' = incidents
    BY <1>2 DEF CreateMonitor, Happened
  <2> QED BY <2>1 DEF Happened, Live
<1>3. ASSUME NEW n \in Monitor, DeleteMonitor(n)
      PROVE  Happened(m, type, i)'
  <2>1. CASE n = m
    <3>1. phase'[m] = "deleted"
      BY <1>3, <2>1 DEF DeleteMonitor
    <3> QED BY <3>1 DEF Happened, Live
  <2>2. CASE n # m
    <3>1. phase'[m] = phase[m] /\ incidents'[m] = incidents[m]
      BY <1>3, <2>2 DEF DeleteMonitor
    <3> QED BY <3>1 DEF Happened, Live
  <2> QED BY <2>1, <2>2
<1>4. ASSUME NEW p \in Process, ApplyCommit(p)
      PROVE  Happened(m, type, i)'
  <2>1. PICK n, type2 : n = tx[p].monitor /\ type2 = Transition(tx[p]).event
    OBVIOUS
  <2>2. /\ phase' = phase
        /\ incidents' = [incidents EXCEPT ![n] = IncidentsAfterEvent(type2, @)]
    BY <1>4, <2>1 DEF ApplyCommit
  <2>3. type2 \in EventType
    BY <2>1 DEF Transition, evaluateStateTransition, EventType
  <2>4. incidents[m] \in Seq({"open", "resolved"}) /\ incidents \in [Monitor -> Seq({"open", "resolved"})]
    OBVIOUS
  <2>5. PICK log : log = incidents[m] /\ log \in Seq({"open", "resolved"})
    BY <2>4
  <2>6. \/ incidents'[m] = log
        \/ incidents'[m] = Append(log, "open")
        \/ incidents'[m] = [j \in DOMAIN log |-> "resolved"]
    <3>1. incidents'[m] = log \/ incidents'[m] = IncidentsAfterEvent(type2, log)
      BY <2>2, <2>4, <2>5
    <3> QED BY <2>3, <3>1 DEF IncidentsAfterEvent, EventType
  <2>7. ASSUME i \in DOMAIN log
        PROVE  /\ i \in DOMAIN incidents'[m]
               /\ log[i] = "resolved" => incidents'[m][i] = "resolved"
    <3>1. i \in 1 .. Len(log)
      BY <2>5, <2>7
    <3>2. CASE incidents'[m] = Append(log, "open")
      <4>1. i \in DOMAIN Append(log, "open") /\ Append(log, "open")[i] = log[i]
        BY <2>5, <3>1
      <4> QED BY <3>2, <4>1
    <3> QED BY <2>6, <2>7, <3>2
  <2> QED BY <2>2, <2>5, <2>7 DEF Happened, Live
<1>5. ASSUME NEW n \in Monitor, NEW enabled, NEW interval, UpdateMonitor(n, enabled, interval)
      PROVE  UNCHANGED <<phase, incidents>>
  BY <1>5 DEF UpdateMonitor
<1>6. ASSUME NEW now, ClaimDueMonitors(now)
      PROVE  UNCHANGED <<phase, incidents>>
  BY <1>6 DEF ClaimDueMonitors, ClaimRows
<1> QED BY <1>1, <1>2, <1>3, <1>4, <1>5, <1>6
        DEF StoreNext, ApiStep, ClaimStep, ApplyStep, ApplyBegin, ApplyRollback, Disconnect,
            storeVars

\* What a request told stays true.
LEMMA SentStays ==
  ASSUME Types, AlertInv, [StoreNext]_storeVars, UNCHANGED sent
  PROVE  SentOK'
<1>1. \A a \in BagToSet(sent) : a.monitor \in Monitor
  BY DEF Types, SentTypes, AlertType
<1>2. \A a \in BagToSet(sent) : Happened(a.monitor, a.type, a.incident)'
  <2>1. ASSUME NEW a \in BagToSet(sent)
        PROVE  Happened(a.monitor, a.type, a.incident)'
    <3>1. PICK m, t, i : m = a.monitor /\ t = a.type /\ i = a.incident
      OBVIOUS
    <3>2. m \in Monitor /\ Happened(m, t, i)
      BY <1>1, <3>1 DEF AlertInv, SentOK
    <3>3. Happened(m, t, i)'
      BY <3>2, HappenedStays DEF Types
    <3> QED BY <3>1, <3>3
  <2> QED BY <2>1
<1> QED BY <1>2 DEF AlertInv, SentOK

\* So does what a worker announces, while it goes on announcing it.
LEMMA NewsStay ==
  ASSUME Types, AlertInv, [StoreNext]_storeVars, NEW w \in Process, Announcing(w),
         job'[w] = job[w], event'[w] = event[w]
  PROVE  Happened(job[w], event[w].type, event[w].incident)'
<1>1. PICK m, t, i : m = job[w] /\ t = event[w].type /\ i = event[w].incident
  OBVIOUS
<1>2. m \in Monitor
  BY <1>1 DEF Types, RInv, LocalTypes, WorkerTypes, WorkerType, Announcing
<1>3. Happened(m, t, i)
  BY <1>1 DEF AlertInv, OwnNews
<1>4. Happened(m, t, i)'
  BY <1>2, <1>3, HappenedStays DEF Types
<1> QED BY <1>1, <1>4

\* A step after which no worker announces anything it did not announce.
LEMMA QuietStep ==
  ASSUME Types, AlertInv, [StoreNext]_storeVars, UNCHANGED sent,
         \A w \in Process : Announcing(w)' =>
           /\ pc'[w] = pc[w] /\ job'[w] = job[w]
           /\ event'[w] = event[w] /\ pending'[w] = pending[w]
  PROVE  SentOK' /\ \A w \in Process : Announcing(w)' => OwnNews(w)'
<1>1. SentOK'
  BY SentStays
<1>2. ASSUME NEW w \in Process, Announcing(w)'
      PROVE  OwnNews(w)'
  <2>1. /\ Announcing(w) /\ pc'[w] = pc[w] /\ job'[w] = job[w]
        /\ event'[w] = event[w] /\ pending'[w] = pending[w] /\ sent' = sent
    BY <1>2 DEF Announcing
  <2>2. Happened(job[w], event[w].type, event[w].incident)'
    BY <2>1, NewsStay
  <2>3. \A v \in Process : Announcing(v)' => /\ Announcing(v) /\ job'[v] = job[v]
                                             /\ event'[v] = event[v]
    BY DEF Announcing
  <2>4. OwnNews(w)
    BY <2>1 DEF AlertInv
  <2> QED BY <2>1, <2>2, <2>3, <2>4 DEF OwnNews, Same
<1> QED BY <1>1, <1>2

\* A worker's step is its own.
LEMMA OthersStay ==
  ASSUME RInv, IInv, WorkerTypes, NEW w \in Process, WorkerStep(w)
  PROVE  \A v \in Process \ {w} :
           /\ pc'[v] = pc[v] /\ job'[v] = job[v] /\ event'[v] = event[v]
           /\ pending'[v] = pending[v] /\ tx'[v] = tx[v]
<1> USE DEF RInv, LocalTypes, WorkerTypes
<1>1. tx \in [Process -> TxType \cup {None}]
  BY DEF IInv, StoreTypeOK
<1>2. \A v \in Process \ {w} : tx'[v] = tx[v]
  BY <1>1 DEF WorkerStep, WorkerTake, WorkerQuit, CheckDone, WorkerApplyBegin, ApplyBegin,
     WorkerApplyRefused, WorkerApplyCommit, ApplyCommit, WorkerApplyAborts, ApplyRollback,
     WorkerCommitUnknown, ListEnabledAlertChannels, ListFails, SendAlert, SendNothing, storeVars
<1>3. Finish(w) => \A v \in Process \ {w} :
        /\ pc'[v] = pc[v] /\ job'[v] = job[v]
        /\ event'[v] = event[v] /\ pending'[v] = pending[v]
  BY DEF Finish, Goto
<1>4. NextChannel(w) => \A v \in Process \ {w} :
        /\ pc'[v] = pc[v] /\ job'[v] = job[v]
        /\ event'[v] = event[v] /\ pending'[v] = pending[v]
  BY <1>3 DEF NextChannel
<1>5. CASE WorkerTake(w) \/ WorkerQuit(w) \/ CheckDone(w) \/ WorkerApplyBegin(w)
  BY <1>2, <1>5 DEF WorkerTake, WorkerQuit, CheckDone, WorkerApplyBegin, Goto
<1>6. CASE \/ WorkerApplyRefused(w) \/ WorkerApplyAborts(w) \/ WorkerCommitUnknown(w)
           \/ ListFails(w)
  BY <1>2, <1>3, <1>6 DEF WorkerApplyRefused, WorkerApplyAborts, WorkerCommitUnknown, ListFails
<1>7. CASE WorkerApplyCommit(w) \/ ListEnabledAlertChannels(w)
  BY <1>2, <1>3, <1>7 DEF WorkerApplyCommit, ListEnabledAlertChannels, Goto
<1>8. CASE SendAlert(w) \/ SendNothing(w)
  BY <1>2, <1>4, <1>8 DEF SendAlert, SendNothing
<1> QED BY <1>5, <1>6, <1>7, <1>8 DEF WorkerStep

\* Outside of a worker's step, a worker goes on or is swept away.
LEMMA OtherSteps ==
  ASSUME RInv, IInv, WorkerTypes, [Next]_vars, \A w \in Process : ~ WorkerStep(w)
  PROVE  /\ UNCHANGED sent
         /\ \A v \in Process :
              \/ pc'[v] \in {"idle", "done"}
              \/ /\ pc'[v] = pc[v] /\ job'[v] = job[v] /\ event'[v] = event[v]
                 /\ pending'[v] = pending[v] /\ tx'[v] = tx[v]
<1>1. CASE Exit \/ Restart
  BY <1>1 DEF Exit, Restart, FreshWorkers, world
<1>2. CASE SchedStep
  BY <1>2 DEF SchedStep, SchedClaim, SchedClaimFails, SchedSend, SchedSendCancelled,
     SchedTick, SchedStop, ClaimDueMonitors, ClaimRows, worker, world, storeVars
<1>3. CASE TargetCall
  BY <1>3 DEF TargetCall, CreateMonitor, UpdateMonitor, DeleteMonitor, worker, world
<1>4. CASE Tick \/ MainSeesCancel \/ Cancel \/ ChannelCall \/ UNCHANGED vars
  BY <1>4 DEF Tick, MainSeesCancel, Cancel, ChannelCall, worker, world, storeVars, vars
<1> QED BY <1>1, <1>2, <1>3, <1>4
        DEF Next, MainStep, MainReturnsErr, MainReturnsDone, Kill

LEMMA StepTxOfJob ==
  ASSUME Types, TxOfJob, [Next]_vars
  PROVE  TxOfJob'
<1> USE DEF Types
<1>1. ASSUME \A v \in Process : pc'[v] = "commit" =>
               pc[v] = "commit" /\ job'[v] = job[v] /\ tx'[v] = tx[v]
      PROVE  TxOfJob'
  BY <1>1 DEF TxOfJob
<1>2. CASE \A w \in Process : ~ WorkerStep(w)
  BY <1>1, <1>2, OtherSteps
<1>3. ASSUME NEW w \in Process, WorkerStep(w), ~ WorkerApplyBegin(w)
      PROVE  TxOfJob'
  <2>1. pc'[w] # "commit"
    BY <1>3 DEF RInv, LocalTypes, WorkerStep, WorkerTake, WorkerQuit, CheckDone,
       WorkerApplyRefused, WorkerApplyCommit, WorkerApplyAborts, WorkerCommitUnknown,
       ListEnabledAlertChannels, ListFails, SendAlert, SendNothing, NextChannel, Finish, Goto
  <2> QED BY <1>1, <1>3, <2>1, OthersStay
<1>4. ASSUME NEW w \in Process, WorkerApplyBegin(w)
      PROVE  TxOfJob'
  <2>1. tx'[w] # None /\ tx'[w].monitor = job[w] /\ job' = job
    <3>1. PICK t : t = [monitor |-> job[w], status |-> row[job[w]].status,
                        failures |-> row[job[w]].failures,
                        outcome |-> result[w].outcome, at |-> result[w].at]
      OBVIOUS
    <3>2. tx' = [tx EXCEPT ![w] = t] /\ job' = job /\ job[w] \in Live
      BY <1>4, <3>1 DEF WorkerApplyBegin, ApplyBegin
    <3>3. tx'[w] = t
      BY <3>2 DEF IInv, StoreTypeOK
    <3>4. t \in TxType
      <4>1. job[w] \in Monitor /\ row[job[w]] \in RowType
        BY <3>2 DEF Live, IInv, StoreTypeOK
      <4>2. result[w] \in Result
        BY <1>4 DEF WorkerApplyBegin, RInv, LocalTypes
      <4> QED BY <3>1, <4>1, <4>2 DEF RowType, Result, TxType
    <3> QED BY <3>1, <3>2, <3>3, <3>4, NoneIsNoTx
  <2>2. \A v \in Process \ {w} : pc'[v] = pc[v] /\ tx'[v] = tx[v] /\ job'[v] = job[v]
    BY <1>4, OthersStay DEF WorkerStep
  <2> QED BY <2>1, <2>2 DEF TxOfJob
<1> QED BY <1>2, <1>3, <1>4

\* What a transaction emits has not happened before it, and has after it.
LEMMA EventIsNew ==
  ASSUME IInv, NEW w \in Process, ApplyCommit(w), NEW m, NEW e,
         m = tx[w].monitor, e = EmittedEvent(w), e.type # "none"
  PROVE  m \in Live /\ ~ Happened(m, e.type, e.incident) /\ Happened(m, e.type, e.incident)'
<1> USE DEF IInv, StoreTypeOK
<1>1. /\ m \in Live /\ m \in Monitor /\ tx[w].status = row[m].status
      /\ phase' = phase /\ phase[m] = "live"
      /\ incidents' = [incidents EXCEPT ![m] = IncidentsAfterEvent(Transition(tx[w]).event, @)]
  BY DEF ApplyCommit, TxSeesRow, Live
<1>2. e.type = Transition(tx[w]).event /\ e.type \in {"down", "recovered"}
  BY EmittedType DEF ApplyCommit, EventType
<1>0. PICK log : log = incidents[m]
  OBVIOUS
<1>00. PICK n : n = Len(log)
  OBVIOUS
<1>3. log = incidents[m] /\ log \in Seq({"open", "resolved"}) /\ n = Len(log) /\ n \in Nat
  <2>1. log \in Seq({"open", "resolved"})
    BY <1>0, <1>1
  <2> QED BY <1>0, <1>00, <2>1
<1>4. incidents'[m] = IncidentsAfterEvent(e.type, log)
  BY <1>1, <1>2, <1>3
<1>5. CASE e.type = "down"
  <2>1. e.incident = n + 1
    BY <1>2, <1>3, <1>5 DEF EmittedEvent
  <2>2. incidents'[m] = Append(log, "open")
    BY <1>4, <1>5 DEF IncidentsAfterEvent
  <2>3. n + 1 \in DOMAIN Append(log, "open") /\ n + 1 \notin DOMAIN log
    BY <1>3
  <2>4. ~ Happened(m, e.type, e.incident)
    BY <1>1, <1>3, <2>1, <2>3 DEF Happened
  <2>5. Happened(m, e.type, e.incident)'
    BY <1>1, <1>5, <2>1, <2>2, <2>3 DEF Happened, Live
  <2> QED BY <1>1, <2>4, <2>5
<1>6. CASE e.type = "recovered"
  <2>1. row[m].status = "down"
    <3>1. Transition(tx[w]).event = "recovered" => tx[w].status = "down"
      BY DEF Transition, evaluateStateTransition
    <3> QED BY <1>1, <1>2, <1>6, <3>1
  <2>2. OpenIncidents(m) = {n}
    BY <1>1, <1>3, <2>1 DEF OpenIncidentIffDown
  <2>3. e.incident = n
    BY <1>1, <1>2, <1>3, <1>6, <2>2 DEF EmittedEvent
  <2>4. n \in DOMAIN log /\ log[n] = "open"
    BY <1>3, <2>2 DEF OpenIncidents
  <2>5. incidents'[m] = [j \in DOMAIN log |-> "resolved"]
    BY <1>4, <1>6 DEF IncidentsAfterEvent
  <2>6. ~ Happened(m, e.type, e.incident)
    BY <1>1, <1>3, <1>6, <2>3, <2>4 DEF Happened
  <2>7. Happened(m, e.type, e.incident)'
    BY <1>1, <1>6, <2>3, <2>4, <2>5 DEF Happened, Live
  <2> QED BY <1>1, <2>6, <2>7
<1> QED BY <1>2, <1>5, <1>6

\* What another worker announces is not touched by a step of w that announces
\* something else.
LEMMA OthersNews ==
  ASSUME Types, AlertInv, [StoreNext]_storeVars, NEW w \in Process, NEW v \in Process \ {w},
         \A u \in Process \ {w} : /\ pc'[u] = pc[u] /\ job'[u] = job[u]
                                  /\ event'[u] = event[u] /\ pending'[u] = pending[u],
         Announcing(v)',
         Announcing(w)' => \/ job'[w] # job[v] \/ event'[w].type # event[v].type
                           \/ event'[w].incident # event[v].incident,
         \A a \in BagToSet(sent)' : a \in BagToSet(sent) \/ ~ Same(v, a)
  PROVE  OwnNews(v)'
<1>1. /\ Announcing(v) /\ pc'[v] = pc[v] /\ job'[v] = job[v]
      /\ event'[v] = event[v] /\ pending'[v] = pending[v]
  BY DEF Announcing
<1>2. Happened(job[v], event[v].type, event[v].incident)'
  BY <1>1, NewsStay
<1>3. Happened(job[v], event[v].type, event[v].incident)'
  BY <1>1, <1>2 DEF Happened
<1>4. OwnNews(v)
  BY <1>1 DEF AlertInv
<1>5. \A u \in Process \ {v} : Announcing(u)' =>
        \/ job'[u] # job'[v] \/ event'[u].type # event'[v].type
        \/ event'[u].incident # event'[v].incident
  <2>1. \A u \in Process \ {w} : Announcing(u)' => Announcing(u)
    BY DEF Announcing
  <2> QED BY <1>1, <1>4, <2>1 DEF OwnNews
<1>6. \A a \in BagToSet(sent)' : Same(v, a)' =>
        pc'[v] = "notify" /\ \A i \in DOMAIN pending'[v] : pending'[v][i] # a.channel
  <2>1. \A a : Same(v, a)' => Same(v, a)
    BY <1>1 DEF Same
  <2> QED BY <1>1, <1>4, <2>1 DEF OwnNews
<1> QED BY <1>1, <1>3, <1>4, <1>5, <1>6 DEF OwnNews

LEMMA TailOfList ==
  ASSUME NEW S, NEW s \in Seq(S), s # << >>
  PROVE  /\ 1 \in DOMAIN s /\ Head(s) = s[1]
         /\ \A i \in DOMAIN Tail(s) :
              i + 1 \in DOMAIN s /\ i + 1 # 1 /\ Tail(s)[i] = s[i + 1]
         /\ \A i, j \in DOMAIN Tail(s) : i # j => i + 1 # j + 1
<1>1. Len(s) \in Nat \ {0} /\ DOMAIN s = 1 .. Len(s)
  OBVIOUS
<1>2. Tail(s) \in Seq(S) /\ Len(Tail(s)) = Len(s) - 1 /\ DOMAIN Tail(s) = 1 .. Len(s) - 1
  BY <1>1
<1>3. ASSUME NEW i \in DOMAIN Tail(s)
      PROVE  i \in 1 .. Len(s) - 1 /\ Tail(s)[i] = s[i + 1]
  BY <1>1, <1>2
<1> QED BY <1>1, <1>2, <1>3

\* The requests of one announcement go to one channel after the other.
LEMMA NextChannelNews ==
  ASSUME Types, AlertInv, UNCHANGED storeVars, NEW w \in Process,
         pc[w] = "notify", NextChannel(w),
         \A a \in BagToSet(sent)' :
           a \in BagToSet(sent) \/ a.channel = Head(pending[w]),
         Announcing(w)'
  PROVE  /\ OwnNews(w)'
         /\ job'[w] = job[w] /\ event'[w] = event[w] /\ Announcing(w)
<1>1. /\ pending' = [pending EXCEPT ![w] = Tail(@)] /\ pc' = pc
      /\ job' = job /\ event' = event
  BY DEF NextChannel, Finish, Goto, Announcing, Types, RInv, LocalTypes
<1>2. OwnNews(w) /\ Announcing(w)
  BY DEF AlertInv, Announcing
<1>3. PICK s, t : s = pending[w] /\ t = Tail(s)
  OBVIOUS
<1>4. s \in Seq(Channel) /\ s # << >> /\ pending'[w] = t
  BY <1>1, <1>3 DEF Types, WorkerTypes, WorkerType
<1>5. /\ 1 \in DOMAIN s /\ Head(s) = s[1]
      /\ \A i \in DOMAIN t : i + 1 \in DOMAIN s /\ i + 1 # 1 /\ t[i] = s[i + 1]
      /\ \A i, j \in DOMAIN t : i # j => i + 1 # j + 1
  BY <1>3, <1>4, TailOfList
<1>6. \A i, j \in DOMAIN s : i # j => s[i] # s[j]
  BY <1>2, <1>3 DEF OwnNews
<1>7. \A i, j \in DOMAIN t : i # j => t[i] # t[j]
  BY <1>5, <1>6
<1>8. ASSUME NEW a \in BagToSet(sent)', Same(w, a)'
      PROVE  \A i \in DOMAIN t : t[i] # a.channel
  <2>1. CASE a \in BagToSet(sent)
    <3>1. \A i \in DOMAIN s : s[i] # a.channel
      BY <1>1, <1>2, <1>3, <1>8, <2>1 DEF OwnNews, Same
    <3> QED BY <1>5, <3>1
  <2>2. CASE a.channel = Head(pending[w])
    BY <1>3, <1>5, <1>6, <2>2
  <2> QED BY <2>1, <2>2
<1>9. Happened(job[w], event[w].type, event[w].incident)'
  BY <1>1, <1>2, NewsStay
<1>10. \A v \in Process : Announcing(v)' <=> Announcing(v)
  BY <1>1 DEF Announcing
<1> QED BY <1>1, <1>2, <1>4, <1>7, <1>8, <1>9, <1>10 DEF OwnNews

\* A request is made once: its channel was still pending.
LEMMA SendStep ==
  ASSUME Types, AlertInv, NEW w \in Process, SendAlert(w)
  PROVE  /\ SentOK'
         /\ \A a \in BagToSet(sent)' :
              a \in BagToSet(sent) \/ (Same(w, a) /\ a.channel = Head(pending[w]))
<1>1. PICK b, B : /\ b = Alert(w, Head(pending[w])) /\ B = sent /\ IsABag(B)
                  /\ sent' = B (+) SetToBag({b})
  BY DEF SendAlert, Types, SentTypes
<1>2. /\ b.monitor = job[w] /\ b.type = event[w].type /\ b.incident = event[w].incident
      /\ b.channel = Head(pending[w])
  BY <1>1 DEF Alert
<1>3. OwnNews(w)
  BY DEF SendAlert, AlertInv, Announcing
<1>4. b \notin BagToSet(B)
  <2>1. PICK s : s = pending[w]
    OBVIOUS
  <2>2. s \in Seq(Channel) /\ s # << >>
    BY <2>1 DEF Types, WorkerTypes, WorkerType, SendAlert
  <2>3. 1 \in DOMAIN s /\ Head(s) = s[1]
    BY <2>2, TailOfList
  <2> QED BY <1>1, <1>2, <1>3, <2>1, <2>3 DEF OwnNews, Same
<1>5. /\ BagToSet(sent') = BagToSet(sent) \cup {b}
      /\ sent'[b] = 1
      /\ \A x \in BagToSet(sent) : sent'[x] = sent[x]
  <2>1. /\ BagToSet(B (+) SetToBag({b})) = BagToSet(B) \cup {b}
        /\ (B (+) SetToBag({b}))[b] = 1
        /\ \A x \in BagToSet(B) \ {b} : (B (+) SetToBag({b}))[x] = B[x]
    <3>1. IsABag(B)
      BY <1>1
    <3>2. BagToSet(B (+) SetToBag({b})) = BagToSet(B) \cup {b}
      BY <3>1, OneMoreSent
    <3>3. b \notin BagToSet(B) => (B (+) SetToBag({b}))[b] = 1
      BY <3>1, OneMoreSent
    <3>4. \A x \in BagToSet(B) \ {b} : (B (+) SetToBag({b}))[x] = B[x]
      BY <3>1, OneMoreSent
    <3> QED BY <1>4, <3>2, <3>3, <3>4
  <2> QED BY <1>1, <1>4, <2>1
<1>6. UNCHANGED <<phase, incidents>>
  BY DEF SendAlert, storeVars
<1>7. \A a \in BagToSet(sent) : Happened(a.monitor, a.type, a.incident) /\ sent[a] = 1
  BY DEF AlertInv, SentOK
<1>8. Happened(b.monitor, b.type, b.incident)
  BY <1>2, <1>3 DEF OwnNews
<1>9. \A a \in BagToSet(sent') : Happened(a.monitor, a.type, a.incident) /\ sent'[a] = 1
  BY <1>5, <1>7, <1>8
<1>10. \A a : Happened(a.monitor, a.type, a.incident)
             => Happened(a.monitor, a.type, a.incident)'
  BY <1>6 DEF Happened, Live
<1>11. BagToSet(sent)' = BagToSet(sent')
  BY DEF BagToSet
<1> QED BY <1>2, <1>5, <1>9, <1>10, <1>11 DEF SentOK, Same

\* A worker that ends, waits or checks announces nothing.
LEMMA QuietWorkerStep ==
  ASSUME Types, AlertInv, [StoreNext]_storeVars, NEW w \in Process, WorkerStep(w),
         ~ Announcing(w)', UNCHANGED sent
  PROVE  SentOK' /\ \A v \in Process : Announcing(v)' => OwnNews(v)'
<1>1. \A v \in Process : Announcing(v)' =>
        /\ pc'[v] = pc[v] /\ job'[v] = job[v]
        /\ event'[v] = event[v] /\ pending'[v] = pending[v]
  BY OthersStay DEF Types
<1> QED BY <1>1, QuietStep

LEMMA CommitNews ==
  ASSUME Types, AlertInv, NEW w \in Process, WorkerApplyCommit(w),
         EmittedEvent(w).type # "none"
  PROVE  SentOK' /\ \A v \in Process : Announcing(v)' => OwnNews(v)'
<1>1. [StoreNext]_storeVars /\ WorkerStep(w)
  BY WorkerStoreStep DEF Types, WorkerStep
<1>2. PICK m, e : m = job[w] /\ e = EmittedEvent(w)
  OBVIOUS
<1>3. /\ ApplyCommit(w) /\ m = tx[w].monitor /\ e.type # "none"
      /\ event'[w] = e /\ job'[w] = m /\ pc'[w] = "list" /\ pending'[w] = << >>
      /\ sent' = sent
  <2>1. pending[w] = << >> /\ m = tx[w].monitor
    BY <1>2 DEF WorkerApplyCommit, Types, WorkerTypes, WorkerType, AlertInv, TxOfJob
  <2> QED BY <1>2, <2>1
          DEF WorkerApplyCommit, Goto, Types, RInv, LocalTypes, WorkerTypes, world
<1>4. /\ m \in Live /\ ~ Happened(m, e.type, e.incident)
      /\ Happened(m, e.type, e.incident)'
  BY <1>2, <1>3, EventIsNew DEF Types
<1>5. SentOK'
  BY <1>1, <1>3, SentStays
<1>6. \A v \in Process : Announcing(v) =>
        job[v] # m \/ event[v].type # e.type \/ event[v].incident # e.incident
  BY <1>4 DEF AlertInv, OwnNews
<1>7. \A u \in Process \ {w} : /\ pc'[u] = pc[u] /\ job'[u] = job[u]
                               /\ event'[u] = event[u] /\ pending'[u] = pending[u]
  BY <1>1, OthersStay DEF Types
<1>8. ASSUME NEW v \in Process \ {w}, Announcing(v)'
      PROVE  OwnNews(v)'
  <2>1. Announcing(v)
    BY <1>7, <1>8 DEF Announcing
  <2>2. \/ job'[w] # job[v] \/ event'[w].type # event[v].type
        \/ event'[w].incident # event[v].incident
    BY <1>3, <1>6, <2>1
  <2>3. \A a \in BagToSet(sent)' : a \in BagToSet(sent) \/ ~ Same(v, a)
    BY <1>3
  <2> QED BY <1>1, <1>7, <1>8, <2>2, <2>3, OthersNews
<1>9. OwnNews(w)'
  <2>1. \A a \in BagToSet(sent)' : ~ Same(w, a)'
    BY <1>3, <1>4 DEF AlertInv, SentOK, Same
  <2>2. \A v \in Process \ {w} : Announcing(v)' =>
          \/ job'[v] # job'[w] \/ event'[v].type # event'[w].type
          \/ event'[v].incident # event'[w].incident
    BY <1>3, <1>6, <1>7 DEF Announcing
  <2>3. Happened(job[w], event[w].type, event[w].incident)'
    BY <1>3, <1>4 DEF Happened
  <2>4. \A i, j \in DOMAIN pending'[w] : i # j => pending'[w][i] # pending'[w][j]
    BY <1>3
  <2> QED BY <2>1, <2>2, <2>3, <2>4 DEF OwnNews
<1> QED BY <1>5, <1>8, <1>9

LEMMA ListNews ==
  ASSUME Types, AlertInv, NEW w \in Process, ListEnabledAlertChannels(w), listed # {}
  PROVE  SentOK' /\ \A v \in Process : Announcing(v)' => OwnNews(v)'
<1>1. [StoreNext]_storeVars /\ WorkerStep(w)
  BY WorkerStoreStep DEF Types, WorkerStep
<1>2. PICK s : s = EnabledChannels
  OBVIOUS
<1>3. /\ pc[w] = "list" /\ Announcing(w) /\ pc'[w] = "notify" /\ pending'[w] = s
      /\ job' = job /\ event' = event /\ sent' = sent
  BY <1>2 DEF ListEnabledAlertChannels, Goto, Announcing, Types, RInv, LocalTypes, WorkerTypes,
     world
<1>4. \A i, j \in DOMAIN s : i # j => s[i] # s[j]
  BY <1>2, EnabledChannelsSorted DEF Types, MainTypes
<1>5. SentOK'
  BY <1>1, <1>3, SentStays
<1>6. OwnNews(w) /\ \A a \in BagToSet(sent) : ~ Same(w, a)
  BY <1>3 DEF AlertInv, OwnNews
<1>7. \A u \in Process \ {w} : /\ pc'[u] = pc[u] /\ job'[u] = job[u]
                               /\ event'[u] = event[u] /\ pending'[u] = pending[u]
  BY <1>1, OthersStay DEF Types
<1>8. ASSUME NEW v \in Process \ {w}, Announcing(v)'
      PROVE  OwnNews(v)'
  <2>1. Announcing(v)
    BY <1>7, <1>8 DEF Announcing
  <2>2. \/ job'[w] # job[v] \/ event'[w].type # event[v].type
        \/ event'[w].incident # event[v].incident
    BY <1>3, <1>6, <2>1 DEF OwnNews
  <2>3. \A a \in BagToSet(sent)' : a \in BagToSet(sent) \/ ~ Same(v, a)
    BY <1>3
  <2> QED BY <1>1, <1>7, <1>8, <2>2, <2>3, OthersNews
<1>9. OwnNews(w)'
  <2>1. Happened(job[w], event[w].type, event[w].incident)'
    BY <1>1, <1>3, NewsStay
  <2>2. \A v \in Process : Announcing(v)' => Announcing(v)
    BY <1>3, <1>7 DEF Announcing
  <2>3. \A a \in BagToSet(sent)' : ~ Same(w, a)'
    BY <1>3, <1>6 DEF Same
  <2> QED BY <1>3, <1>4, <1>6, <2>1, <2>2, <2>3 DEF OwnNews
<1> QED BY <1>5, <1>8, <1>9

LEMMA NotifyNews ==
  ASSUME Types, AlertInv, NEW w \in Process, SendAlert(w) \/ SendNothing(w)
  PROVE  SentOK' /\ \A v \in Process : Announcing(v)' => OwnNews(v)'
<1>1. /\ [StoreNext]_storeVars /\ WorkerStep(w) /\ UNCHANGED storeVars
      /\ pc[w] = "notify" /\ NextChannel(w) /\ Announcing(w)
  BY WorkerStoreStep DEF Types, WorkerStep, SendAlert, SendNothing, Announcing
<1>2. /\ SentOK'
      /\ \A a \in BagToSet(sent)' :
           a \in BagToSet(sent) \/ (Same(w, a) /\ a.channel = Head(pending[w]))
  <2>1. CASE SendAlert(w)
    BY <2>1, SendStep
  <2>2. CASE SendNothing(w)
    BY <1>1, <2>2, SentStays DEF SendNothing, world
  <2> QED BY <2>1, <2>2
<1>3. Announcing(w)' => /\ OwnNews(w)'
                        /\ job'[w] = job[w] /\ event'[w] = event[w]
  BY <1>1, <1>2, NextChannelNews
<1>4. OwnNews(w)
  BY <1>1 DEF AlertInv
<1>5. \A u \in Process \ {w} : /\ pc'[u] = pc[u] /\ job'[u] = job[u]
                               /\ event'[u] = event[u] /\ pending'[u] = pending[u]
  BY <1>1, OthersStay DEF Types
<1>6. ASSUME NEW v \in Process \ {w}, Announcing(v)'
      PROVE  OwnNews(v)'
  <2>1. Announcing(v)
    BY <1>5, <1>6 DEF Announcing
  <2>2. \/ job[w] # job[v] \/ event[w].type # event[v].type
        \/ event[w].incident # event[v].incident
    BY <1>4, <2>1 DEF OwnNews
  <2>3. \A a \in BagToSet(sent)' : a \in BagToSet(sent) \/ ~ Same(v, a)
    BY <1>2, <2>2 DEF Same
  <2>4. Announcing(w)' => \/ job'[w] # job[v] \/ event'[w].type # event[v].type
                          \/ event'[w].incident # event[v].incident
    BY <1>3, <2>2
  <2> QED BY <1>1, <1>5, <1>6, <2>3, <2>4, OthersNews
<1> QED BY <1>2, <1>3, <1>6

LEMMA StepAlerts == Types /\ AlertInv /\ [Next]_vars => AlertInv'
<1> SUFFICES ASSUME Types, AlertInv, [Next]_vars PROVE AlertInv'
  OBVIOUS
<1>1. [StoreNext]_storeVars
  BY StoreStep DEF Types
<1>2. TxOfJob'
  BY StepTxOfJob DEF AlertInv
<1>3. CASE \A w \in Process : ~ WorkerStep(w)
  <2>1. UNCHANGED sent
    BY <1>3, OtherSteps DEF Types
  <2>2. \A w \in Process : Announcing(w)' =>
          /\ pc'[w] = pc[w] /\ job'[w] = job[w]
          /\ event'[w] = event[w] /\ pending'[w] = pending[w]
    BY <1>3, OtherSteps DEF Types, Announcing
  <2> QED BY <1>1, <1>2, <2>1, <2>2, QuietStep DEF AlertInv
<1>4. ASSUME NEW w \in Process, WorkerStep(w)
      PROVE  AlertInv'
  <2>1. CASE SendAlert(w) \/ SendNothing(w)
    BY <1>2, <2>1, NotifyNews DEF AlertInv
  <2>2. CASE ListEnabledAlertChannels(w) /\ listed # {}
    BY <1>2, <2>2, ListNews DEF AlertInv
  <2>3. CASE WorkerApplyCommit(w) /\ EmittedEvent(w).type # "none"
    BY <1>2, <2>3, CommitNews DEF AlertInv
  <2>4. CASE /\ ~ SendAlert(w) /\ ~ SendNothing(w)
             /\ ~ (ListEnabledAlertChannels(w) /\ listed # {})
             /\ ~ (WorkerApplyCommit(w) /\ EmittedEvent(w).type # "none")
    <3>1. UNCHANGED sent
      BY <1>4, <2>4 DEF WorkerStep, WorkerTake, WorkerQuit, CheckDone, WorkerApplyBegin,
         WorkerApplyRefused, WorkerApplyCommit, WorkerApplyAborts, WorkerCommitUnknown,
         ListEnabledAlertChannels, ListFails, world
    <3>2. ~ Announcing(w)'
      BY <1>4, <2>4 DEF WorkerStep, WorkerTake, WorkerQuit, CheckDone, WorkerApplyBegin,
         WorkerApplyRefused, WorkerApplyCommit, WorkerApplyAborts, WorkerCommitUnknown,
         ListEnabledAlertChannels, ListFails, Finish, Goto, Announcing,
         Types, RInv, LocalTypes
    <3> QED BY <1>1, <1>2, <1>4, <3>1, <3>2, QuietWorkerStep DEF AlertInv
  <2> QED BY <2>1, <2>2, <2>3, <2>4
<1> QED BY <1>3, <1>4

LEMMA InitAlerts == Init => AlertInv
BY DEF Init, AlertInv, SentOK, TxOfJob, Announcing, EmptyBag, SetToBag, BagToSet

LEMMA RunnerAlerts == SafetySpec => []AlertInv
BY InitAlerts, StepAlerts, RunnerTypes, PTL DEF SafetySpec

\* No channel hears twice of one event, for every pool, queue and order of the
\* claims, crashes, restarts and lost commit answers: an event is new when its
\* transaction commits, and belongs to the worker that committed it.
THEOREM RunnerAlertsOnce == SafetySpec => []AlertsAtMostOnce
<1>1. AlertInv => AlertsAtMostOnce
  BY DEF AlertInv, SentOK, AlertsAtMostOnce
<1> QED BY <1>1, RunnerAlerts, PTL

\* What a channel was told did happen: no rollback takes it back, and no later
\* step makes it untrue.
THEOREM RunnerAlertsTrue == SafetySpec => []AlertsTellTheTruth
<1>1. AlertInv => AlertsTellTheTruth
  BY DEF AlertInv, SentOK, Happened, AlertsTellTheTruth
<1> QED BY <1>1, RunnerAlerts, PTL

-----------------------------------------------------------------------------
(* The end of the process. *)

\* What is left, as numbers.
SchedulerRanked ==
  /\ Len(batch) \in Nat /\ Len(jobs) \in Nat
  /\ SchedulerLeft = 2 * Len(batch) + Len(jobs)
                     + (IF schedPc = "done" THEN 0 ELSE IF schedPc = "claim" THEN 1
                        ELSE IF schedPc = "wait" THEN 2 ELSE 3)

WorkerRanked(w) ==
  /\ WorkerLeft(w) \in Nat
  /\ pc[w] = "done"   => WorkerLeft(w) = 0
  /\ pc[w] = "idle"   => WorkerLeft(w) = 1
  /\ pc[w] = "notify" => WorkerLeft(w) = 1 + Len(pending[w]) /\ Len(pending[w]) \in Nat \ {0}
  /\ pc[w] = "list"   => WorkerLeft(w) = Cardinality(Channel) + 2
  /\ pc[w] = "commit" => WorkerLeft(w) = Cardinality(Channel) + 3
  /\ pc[w] = "apply"  => WorkerLeft(w) = Cardinality(Channel) + 4
  /\ pc[w] = "check"  => WorkerLeft(w) = Cardinality(Channel) + 5

AllRanked == SchedulerRanked /\ \A w \in Process : WorkerRanked(w)

LEMMA SchedulerRank == ASSUME RInv, MainTypes PROVE SchedulerRanked
<1>1. Len(batch) \in Nat /\ Len(jobs) \in Nat
  BY DEF RInv, LocalTypes
<1>2. [done |-> 0, claim |-> 1, wait |-> 2, send |-> 3][schedPc]
      = IF schedPc = "done" THEN 0 ELSE IF schedPc = "claim" THEN 1
        ELSE IF schedPc = "wait" THEN 2 ELSE 3
  BY DEF MainTypes
<1> QED BY <1>1, <1>2 DEF SchedulerLeft, SchedulerRanked

\* The places of the loop, from its top downwards.
LEMMA WorkerRank ==
  ASSUME RInv, WorkerTypes, NEW w \in Process
  PROVE  WorkerRanked(w)
<1>1. PICK k : k = Cardinality(Channel)
  OBVIOUS
<1>2. k \in Nat
  BY <1>1, RunnerAssumption, FS_CardinalityType
<1>3. PICK l, s : l = pc[w] /\ s = pending[w]
  OBVIOUS
<1>4. l \in Label /\ s \in Seq(Channel) /\ (l = "notify" => s # << >>)
  BY <1>3 DEF RInv, LocalTypes, WorkerTypes, WorkerType
<1>5. l = "notify" => Len(s) \in Nat \ {0}
  BY <1>4
<1>6. PICK r : r = [done |-> 0, idle |-> 1, list |-> k + 2, commit |-> k + 3,
                    apply |-> k + 4, check |-> k + 5]
  OBVIOUS
<1>7. k + 1 + 1 = k + 2 /\ k + 1 + 2 = k + 3 /\ k + 1 + 3 = k + 4 /\ k + 1 + 4 = k + 5
  BY <1>2
<1>8. WorkerLeft(w) = IF l = "notify" THEN 1 + Len(s) ELSE r[l]
  BY <1>1, <1>3, <1>6, <1>7 DEF WorkerLeft
<1>9. /\ r["done"] = 0 /\ r["idle"] = 1 /\ r["list"] = k + 2 /\ r["commit"] = k + 3
      /\ r["apply"] = k + 4 /\ r["check"] = k + 5
  BY <1>6
<1> QED BY <1>1, <1>2, <1>3, <1>4, <1>5, <1>8, <1>9 DEF Label, WorkerRanked

LEMMA Ranks == Types => AllRanked
BY SchedulerRank, WorkerRank DEF Types, AllRanked

LEMMA RanksAgain == ASSUME Types, [Next]_vars PROVE AllRanked'
<1>1. Types'
  BY StepTypes
<1>2. Types' => AllRanked'
  BY Ranks, PTL
<1> QED BY <1>1, <1>2

\* Every step of the scheduler that is stopping is one fewer.
LEMMA SchedNearer ==
  ASSUME Types, SchedStep, Stopping, [Next]_vars
  PROVE  SchedulerLeft' < SchedulerLeft
<1>1. SchedulerRanked
  BY Ranks DEF AllRanked
<1>2. SchedulerRanked'
  BY RanksAgain DEF AllRanked
<1>3. batch \in Seq(Monitor) /\ jobs \in Seq(Monitor) /\ (schedPc = "send" => batch # << >>)
  BY DEF Types, RInv, LocalTypes
<1> USE DEF SchedulerRanked
<1>4. CASE SchedClaim
  BY <1>4 DEF SchedClaim, Stopping, JobsClosed
<1>5. CASE SchedClaimFails
  BY <1>1, <1>2, <1>5 DEF SchedClaimFails
<1>6. CASE SchedSend
  <2>1. Len(batch') = Len(batch) - 1 /\ Len(jobs') = Len(jobs) + 1
    <3>1. \A x : Len(Append(jobs, x)) = Len(jobs) + 1
      BY <1>3
    <3>2. Len(Tail(batch)) = Len(batch) - 1
      BY <1>3, <1>6 DEF SchedSend
    <3> QED BY <1>6, <3>1, <3>2 DEF SchedSend
  <2>2. schedPc = "send" /\ schedPc' \in {"send", "wait"}
    BY <1>6 DEF SchedSend, ToSelect
  <2> QED BY <1>1, <1>2, <2>1, <2>2
<1>7. CASE SchedSendCancelled
  <2>1. Len(batch') = 0 /\ Len(batch) # 0 /\ jobs' = jobs
    BY <1>3, <1>7 DEF SchedSendCancelled
  <2>2. schedPc = "send" /\ schedPc' = "wait"
    BY <1>7 DEF SchedSendCancelled, ToSelect
  <2> QED BY <1>1, <1>2, <2>1, <2>2
<1>8. CASE SchedTick \/ SchedStop
  BY <1>1, <1>2, <1>8 DEF SchedTick, SchedStop
<1> QED BY <1>4, <1>5, <1>6, <1>7, <1>8 DEF SchedStep

\* A worker takes one of the jobs that are left, or goes down its loop.
LEMMA WorkerNearer ==
  ASSUME Types, NEW w \in Process, WorkerStep(w), [Next]_vars
  PROVE  NearerTheEnd
<1>1. CASE WorkerTake(w)
  <2>1. Len(jobs') = Len(jobs) - 1 /\ UNCHANGED <<batch, schedPc>>
    BY <1>1 DEF WorkerTake, sched, Types, RInv, LocalTypes
  <2>2. SchedulerLeft' < SchedulerLeft
    <3>1. SchedulerRanked /\ SchedulerRanked'
      BY Ranks, RanksAgain DEF AllRanked
    <3> QED BY <2>1, <3>1 DEF SchedulerRanked
  <2> QED BY <2>2 DEF NearerTheEnd
<1>2. CASE ~ WorkerTake(w)
  <2>1. UNCHANGED <<batch, schedPc, jobs>>
    BY <1>2 DEF WorkerStep, WorkerQuit, CheckDone, WorkerApplyBegin, WorkerApplyRefused,
       WorkerApplyCommit, WorkerApplyAborts, WorkerCommitUnknown, ListEnabledAlertChannels,
       ListFails, SendAlert, SendNothing, sched
  <2>2. SchedulerLeft' = SchedulerLeft
    BY <2>1 DEF SchedulerLeft
  <2>3. \A v \in Process \ {w} : WorkerLeft(v)' = WorkerLeft(v)
    <3>1. \A v \in Process \ {w} : pc'[v] = pc[v] /\ pending'[v] = pending[v]
      BY OthersStay DEF Types
    <3> QED BY <3>1 DEF WorkerLeft
  <2>4. WorkerRanked(w)
    BY Ranks DEF AllRanked
  <2>5. WorkerRanked(w)'
    BY RanksAgain DEF AllRanked
  <2>6. Cardinality(Channel) \in Nat
    BY RunnerAssumption, FS_CardinalityType
  <2>7. pc \in [Process -> Label] /\ pending \in [Process -> Seq(Channel)]
    BY DEF Types, RInv, LocalTypes, WorkerTypes
  <2>8. WorkerLeft(w)' < WorkerLeft(w)
    <3> USE DEF WorkerRanked
    <3>1. CASE Finish(w) /\ pc[w] \in {"apply", "commit", "list", "notify"}
      <4>1. pc'[w] = "idle"
        BY <2>7, <3>1 DEF Finish, Goto
      <4>2. WorkerLeft(w) > 1
        BY <2>4, <2>6, <3>1
      <4> QED BY <2>4, <2>5, <4>1, <4>2
    <3>2. CASE WorkerQuit(w) \/ CheckDone(w) \/ WorkerApplyBegin(w)
      <4>1. <<pc[w], pc'[w]>> \in {<<"idle", "done">>, <<"check", "apply">>, <<"apply", "commit">>}
        BY <2>7, <3>2 DEF WorkerQuit, CheckDone, WorkerApplyBegin, Goto
      <4> QED BY <2>4, <2>5, <2>6, <4>1
    <3>3. CASE WorkerApplyCommit(w) /\ ~ Finish(w)
      <4>1. pc[w] = "commit" /\ pc'[w] = "list"
        BY <2>7, <3>3 DEF WorkerApplyCommit, Goto
      <4> QED BY <2>4, <2>5, <2>6, <4>1
    <3>4. CASE ListEnabledAlertChannels(w) /\ ~ Finish(w)
      <4>1. /\ listed # {} /\ pc[w] = "list" /\ pc'[w] = "notify"
            /\ pending'[w] = EnabledChannels
        BY <2>7, <3>4 DEF ListEnabledAlertChannels, Goto
      <4>2. PICK n : n = Len(pending'[w])
        OBVIOUS
      <4>3. n \in Nat /\ n <= Cardinality(Channel)
        BY <4>1, <4>2, EnabledChannelsSorted DEF Types, MainTypes
      <4> QED BY <2>4, <2>5, <2>6, <4>1, <4>2, <4>3
    <3>5. CASE (SendAlert(w) \/ SendNothing(w)) /\ ~ Finish(w)
      <4>1. pc[w] = "notify" /\ pc' = pc /\ pending' = [pending EXCEPT ![w] = Tail(@)]
        BY <3>5 DEF SendAlert, SendNothing, NextChannel
      <4>2. PICK s : s = pending[w]
        OBVIOUS
      <4>3. s \in Seq(Channel) /\ Len(s) \in Nat \ {0} /\ pending'[w] = Tail(s)
        BY <2>4, <2>7, <4>1, <4>2
      <4>4. Len(Tail(s)) = Len(s) - 1
        BY <4>3
      <4>5. pc'[w] = "notify" /\ Len(pending[w]) = Len(s) /\ Len(pending'[w]) = Len(s) - 1
        BY <4>1, <4>2, <4>3, <4>4
      <4> QED BY <2>4, <2>5, <4>1, <4>5
    <3> QED BY <1>2, <3>1, <3>2, <3>3, <3>4, <3>5
            DEF WorkerStep, WorkerApplyRefused, WorkerApplyCommit, WorkerApplyAborts,
                WorkerCommitUnknown, ListEnabledAlertChannels, ListFails, SendAlert, SendNothing
  <2>9. \A v \in Process : WorkerLeft(v) \in Nat
    BY Ranks DEF AllRanked, WorkerRanked
  <2>10. \A v \in Process : WorkerLeft(v)' <= WorkerLeft(v)
    BY <2>3, <2>4, <2>5, <2>8, <2>9 DEF WorkerRanked
  <2> QED BY <2>2, <2>8, <2>10 DEF NearerTheEnd
<1> QED BY <1>1, <1>2

LEMMA StopStep ==
  Types /\ [Next]_vars =>
    [Up /\ Stopping /\ Up' =>
       /\ Stopping'
       /\ NearerTheEnd \/ UNCHANGED <<schedPc, batch, jobs, pc, pending>>]_vars
<1> SUFFICES ASSUME Types, [Next]_vars, Up, Stopping, Up'
             PROVE  /\ Stopping'
                    /\ NearerTheEnd \/ UNCHANGED <<schedPc, batch, jobs, pc, pending>>
  OBVIOUS
<1>1. CASE SchedStep
  <2>1. NearerTheEnd
    BY <1>1, SchedNearer DEF NearerTheEnd
  <2>2. cancelled' = cancelled /\ schedPc # "done"
    BY <1>1 DEF SchedStep, SchedClaim, SchedClaimFails, SchedSend, SchedSendCancelled,
       SchedTick, SchedStop, main
  <2> QED BY <2>1, <2>2 DEF Stopping, JobsClosed
<1>2. CASE \E w \in Process : WorkerStep(w)
  <2>1. NearerTheEnd
    BY <1>2, WorkerNearer
  <2>2. cancelled' = cancelled /\ schedPc' = schedPc
    BY <1>2 DEF WorkerStep, WorkerTake, WorkerQuit, CheckDone, WorkerApplyBegin,
       WorkerApplyRefused, WorkerApplyCommit, WorkerApplyAborts, WorkerCommitUnknown,
       ListEnabledAlertChannels, ListFails, SendAlert, SendNothing, sched, main
  <2> QED BY <2>1, <2>2 DEF Stopping, JobsClosed
<1>3. CASE Exit \/ Restart
  BY <1>3 DEF Exit, Restart, Up
<1>4. CASE Tick \/ MainSeesCancel \/ Cancel \/ TargetCall \/ ChannelCall \/ UNCHANGED vars
  BY <1>4 DEF Tick, MainSeesCancel, Cancel, TargetCall, ChannelCall, vars, worker, sched,
     main, Stopping, JobsClosed
<1> QED BY <1>1, <1>2, <1>3, <1>4
        DEF Next, MainStep, MainReturnsErr, MainReturnsDone, Kill

\* The process ends because each step of a goroutine after SIGTERM, or after
\* the scheduler's return, is one fewer: the rest of the jobs and the rest of
\* the loops are finite, and no step adds to them.
THEOREM RunnerStopProgresses == SafetySpec => StopProgresses
BY StopStep, RunnerTypes, PTL DEF SafetySpec, StopProgresses

-----------------------------------------------------------------------------
(* What a shutdown, a failure or a change of the channels cannot be blamed  *)
(* for: without them every incident is announced.                           *)

\* No signal, no failing call, no change of the channels, no channel that is
\* skipped, and no outage before the process started.
Undisturbed ==
  /\ Signals = {} /\ MaxFaults = 0 /\ "channel" \notin Api
  /\ TokenSet \/ Telegram = {}
  /\ \A h \in Histories : OutageStarts(h) = {}

Unstopped ==
  /\ proc = "running" /\ ~ cancelled /\ ~ errCh /\ schedPc # "done"
  /\ \A w \in Process : pc[w] # "done"

\* Channel c was asked to tell of the event e, or the worker that emitted it
\* has c before it.
Covered(m, e, c) ==
  \/ [monitor |-> m, type |-> e.type, incident |-> e.incident, channel |-> c]
        \in BagToSet(sent)
  \/ \E w \in Process : ToTell(w, m, e, c)

CoverInv ==
  /\ Unstopped
  /\ \A m \in Live : \A i \in DOMAIN incidents[m], c \in listed :
       \A e \in EventsOf(m, i) : Covered(m, e, c)

LEMMA NothingFails ==
  ASSUME Undisturbed, MainTypes
  PROVE  ~ Fault /\ \A c : ~ Skipped(c)
BY DEF Undisturbed, MainTypes, Fault, Skipped

\* What can happen then: the clock, the scheduler, the workers and the targets.
LEMMA UnstoppedStep ==
  ASSUME Undisturbed, Types, Unstopped, [Next]_vars
  PROVE  /\ Unstopped'
         /\ UNCHANGED listed
         /\ \/ \E w \in Process : WorkerStep(w)
            \/ UNCHANGED <<worker, sent>>
<1>1. ~ Fault
  BY NothingFails DEF Types
<1>2. CASE SchedStep
  <2>1. ~ SchedClaimFails /\ ~ SchedStop
    BY <1>1 DEF SchedClaimFails, SchedStop, Unstopped
  <2> QED BY <1>2, <2>1 DEF SchedStep, SchedClaim, SchedSend, SchedSendCancelled, SchedTick,
          ToSelect, worker, main, world, Unstopped
<1>3. ASSUME NEW w \in Process, WorkerStep(w)
      PROVE  Unstopped' /\ UNCHANGED listed
  <2>1. UNCHANGED <<proc, cancelled, errCh, schedPc, listed>>
    BY <1>3 DEF WorkerStep, WorkerTake, WorkerQuit, CheckDone, WorkerApplyBegin,
       WorkerApplyRefused, WorkerApplyCommit, WorkerApplyAborts, WorkerCommitUnknown,
       ListEnabledAlertChannels, ListFails, SendAlert, SendNothing, sched, main, world
  <2>2. ~ WorkerQuit(w)
    BY DEF WorkerQuit, Unstopped, JobsClosed
  <2>3. pc'[w] # "done"
    BY <1>3, <2>2 DEF WorkerStep, WorkerTake, CheckDone, WorkerApplyBegin,
       WorkerApplyRefused, WorkerApplyCommit, WorkerApplyAborts, WorkerCommitUnknown,
       ListEnabledAlertChannels, ListFails, SendAlert, SendNothing, NextChannel,
       Finish, Goto, Types, RInv, LocalTypes, Unstopped
  <2>4. \A v \in Process \ {w} : pc'[v] = pc[v]
    BY <1>3, OthersStay DEF Types
  <2> QED BY <2>1, <2>3, <2>4 DEF Unstopped
<1>4. ~ MainStep /\ ~ Cancel /\ ~ Kill /\ ~ Restart /\ ~ ChannelCall
  BY DEF Undisturbed, Unstopped, MainStep, MainReturnsErr, MainReturnsDone, MainSeesCancel,
     AllDone, JobsClosed, Cancel, Kill, Restart, ChannelCall
<1>5. CASE Tick \/ TargetCall \/ UNCHANGED vars
  BY <1>5 DEF Tick, TargetCall, vars, worker, sched, main, world, Unstopped
<1> QED BY <1>2, <1>3, <1>4, <1>5 DEF Next

\* An incident is as it was before, unless a transaction opens or resolves it.
LEMMA KnownIncident ==
  ASSUME IInv, [Next]_vars, \A w \in Process : ~ (WorkerStep(w) /\ ApplyCommit(w)),
         NEW m \in Monitor, m \in Live', NEW i \in DOMAIN incidents'[m]
  PROVE  m \in Live /\ incidents'[m] = incidents[m]
<1> USE DEF IInv, StoreTypeOK, Live
<1>1. CASE UNCHANGED <<phase, incidents>>
  BY <1>1
<1>2. CASE TargetCall
  <2>1. ASSUME NEW n \in Monitor, NEW enabled, NEW interval, NEW now,
               CreateMonitor(n, enabled, interval, now)
        PROVE  m \in Live /\ incidents'[m] = incidents[m]
    <3>1. CASE n = m
      BY <2>1, <3>1 DEF CreateMonitor, NewIsEmpty
    <3>2. CASE n # m
      BY <2>1, <3>2 DEF CreateMonitor
    <3> QED BY <3>1, <3>2
  <2>2. ASSUME NEW n \in Monitor, DeleteMonitor(n)
        PROVE  m \in Live /\ incidents'[m] = incidents[m]
    BY <2>2 DEF DeleteMonitor
  <2>3. ASSUME NEW n \in Monitor, NEW enabled, NEW interval, UpdateMonitor(n, enabled, interval)
        PROVE  UNCHANGED <<phase, incidents>>
    BY <2>3 DEF UpdateMonitor
  <2> QED BY <1>1, <1>2, <2>1, <2>2, <2>3 DEF TargetCall
<1>3. CASE SchedStep
  BY <1>1, <1>3 DEF SchedStep, SchedClaim, SchedClaimFails, SchedSend, SchedSendCancelled,
     SchedTick, SchedStop, ClaimDueMonitors, ClaimRows, storeVars
<1>4. CASE \E w \in Process : WorkerStep(w)
  BY <1>1, <1>4 DEF WorkerStep, WorkerTake, WorkerQuit, CheckDone, WorkerApplyBegin, ApplyBegin,
     WorkerApplyRefused, WorkerApplyCommit, WorkerApplyAborts, ApplyRollback,
     WorkerCommitUnknown, ListEnabledAlertChannels, ListFails, SendAlert, SendNothing, storeVars
<1>5. CASE Exit
  BY <1>1, <1>5 DEF Exit, Disconnect
<1>6. CASE Tick \/ MainSeesCancel \/ Cancel \/ Restart \/ ChannelCall \/ UNCHANGED vars
  BY <1>1, <1>6 DEF Tick, MainSeesCancel, Cancel, Restart, ChannelCall, vars, storeVars
<1> QED BY <1>2, <1>3, <1>4, <1>5, <1>6
        DEF Next, MainStep, MainReturnsErr, MainReturnsDone, Kill

\* A channel that is covered stays so: the worker that has it before it tells it.
LEMMA CoverStays ==
  ASSUME Undisturbed, Types, AlertInv, Unstopped, NEW w \in Process, WorkerStep(w),
         NEW m, NEW e, NEW c \in listed, Covered(m, e, c)
  PROVE  Covered(m, e, c)'
<1>1. \A a \in BagToSet(sent) : a \in BagToSet(sent')
  <2>1. CASE SendAlert(w)
    <3>1. PICK b, B : /\ b = Alert(w, Head(pending[w])) /\ B = sent /\ IsABag(B)
                      /\ sent' = B (+) SetToBag({b})
      BY <2>1 DEF SendAlert, Types, SentTypes
    <3>2. BagToSet(B (+) SetToBag({b})) = BagToSet(B) \cup {b}
      BY <3>1, OneMoreSent
    <3> QED BY <3>1, <3>2
  <2>2. CASE ~ SendAlert(w)
    <3>1. sent' = sent
      BY <2>2 DEF WorkerStep, WorkerTake, WorkerQuit, CheckDone, WorkerApplyBegin,
         WorkerApplyRefused, WorkerApplyCommit, WorkerApplyAborts, WorkerCommitUnknown,
         ListEnabledAlertChannels, ListFails, SendNothing, world
    <3> QED BY <3>1
  <2> QED BY <2>1, <2>2
<1>2. BagToSet(sent)' = BagToSet(sent')
  BY DEF BagToSet
<1>3. CASE [monitor |-> m, type |-> e.type, incident |-> e.incident, channel |-> c]
            \in BagToSet(sent)
  BY <1>1, <1>2, <1>3 DEF Covered
<1>4. ASSUME NEW v \in Process, ToTell(v, m, e, c)
      PROVE  Covered(m, e, c)'
  <2>1. CASE v # w
    <3>1. /\ pc'[v] = pc[v] /\ job'[v] = job[v] /\ event'[v] = event[v]
          /\ pending'[v] = pending[v]
      BY <2>1, OthersStay DEF Types
    <3> QED BY <1>4, <3>1 DEF Covered, ToTell
  <2>2. CASE v = w /\ pc[w] = "list"
    <3>1. ListEnabledAlertChannels(w)
      BY <2>2, NothingFails DEF WorkerStep, WorkerTake, WorkerQuit, CheckDone, WorkerApplyBegin,
         WorkerApplyRefused, WorkerApplyCommit, WorkerApplyAborts, WorkerCommitUnknown,
         ListFails, SendAlert, SendNothing, Unstopped, Types
    <3>2. /\ pc'[w] = "notify" /\ pending'[w] = EnabledChannels
          /\ job' = job /\ event' = event
      BY <3>1 DEF ListEnabledAlertChannels, Goto, Types, RInv, LocalTypes, WorkerTypes
    <3>3. \E j \in DOMAIN EnabledChannels : EnabledChannels[j] = c
      BY EnabledChannelsSorted DEF Types, MainTypes
    <3> QED BY <1>4, <2>2, <3>2, <3>3 DEF Covered, ToTell
  <2>3. CASE v = w /\ pc[w] = "notify"
    <3>1. SendAlert(w)
      BY <2>3, NothingFails DEF WorkerStep, WorkerTake, WorkerQuit, CheckDone, WorkerApplyBegin,
         WorkerApplyRefused, WorkerApplyCommit, WorkerApplyAborts, WorkerCommitUnknown,
         ListEnabledAlertChannels, ListFails, SendNothing, Unstopped, Types
    <3>2. PICK s, t : s = pending[w] /\ t = Tail(s)
      OBVIOUS
    <3>3. s \in Seq(Channel) /\ s # << >>
      BY <2>3, <3>2 DEF Types, WorkerTypes, WorkerType
    <3>4. PICK j \in DOMAIN s : s[j] = c
      BY <1>4, <2>3, <3>2 DEF ToTell
    <3>5. CASE Head(s) = c
      <4>1. PICK b, B : /\ b = Alert(w, Head(s)) /\ B = sent /\ IsABag(B)
                        /\ sent' = B (+) SetToBag({b})
        BY <3>1, <3>2 DEF SendAlert, Types, SentTypes
      <4>2. BagToSet(B (+) SetToBag({b})) = BagToSet(B) \cup {b}
        BY <4>1, OneMoreSent
      <4>3. b = [monitor |-> m, type |-> e.type, incident |-> e.incident, channel |-> c]
        BY <1>4, <2>3, <3>5, <4>1 DEF Alert, ToTell
      <4> QED BY <1>2, <4>1, <4>2, <4>3 DEF Covered
    <3>6. CASE Head(s) # c
      <4>1. /\ Len(s) \in Nat \ {0} /\ DOMAIN s = 1 .. Len(s) /\ Head(s) = s[1]
        BY <3>3
      <4>2. j # 1 /\ j \in 1 .. Len(s)
        BY <3>4, <3>6, <4>1
      <4>3. Len(s) # 1 /\ j - 1 \in 1 .. Len(s) - 1 /\ (j - 1) + 1 = j
        BY <4>1, <4>2
      <4>4. DOMAIN t = 1 .. Len(s) - 1 /\ \A x \in 1 .. Len(s) - 1 : t[x] = s[x + 1]
        BY <3>2, <3>3
      <4>5. j - 1 \in DOMAIN t /\ t[j - 1] = c
        BY <3>4, <4>3, <4>4
      <4>6. /\ pending' = [pending EXCEPT ![w] = Tail(@)]
            /\ UNCHANGED <<pc, job, result, event>>
        BY <3>1, <3>2, <4>3 DEF SendAlert, NextChannel
      <4>7. pending'[w] = t
        BY <3>2, <4>6 DEF Types, WorkerTypes
      <4> QED BY <1>4, <2>3, <4>5, <4>6, <4>7 DEF Covered, ToTell
    <3> QED BY <3>5, <3>6
  <2> QED BY <1>4, <2>1, <2>2, <2>3 DEF ToTell
<1> QED BY <1>3, <1>4 DEF Covered

\* The transaction that opens or resolves an incident leaves it to its worker.
LEMMA CommitCovers ==
  ASSUME Undisturbed, Types, AlertInv, Unstopped, NEW w \in Process, WorkerStep(w),
         ApplyCommit(w), NEW m \in Live, NEW i \in DOMAIN incidents'[m], NEW c,
         NEW e \in EventsOf(m, i)', ~ (i \in DOMAIN incidents[m] /\ e \in EventsOf(m, i))
  PROVE  Covered(m, e, c)'
<1>1. WorkerApplyCommit(w)
  <2>1. ~ WorkerCommitUnknown(w)
    BY NothingFails DEF WorkerCommitUnknown, Types
  <2>2. tx'[w] = None /\ tx[w] # None /\ checklogs' # checklogs
    <3>1. PICK n, x : n = tx[w].monitor /\ x = [outcome |-> tx[w].outcome, at |-> tx[w].at]
      OBVIOUS
    <3>2. /\ tx[w] # None /\ tx' = [tx EXCEPT ![w] = None]
          /\ checklogs' = [checklogs EXCEPT ![n] = Append(@, x)]
      BY <3>1 DEF ApplyCommit
    <3>3. n \in Monitor /\ tx \in [Process -> TxType \cup {None}]
          /\ checklogs \in [Monitor -> Seq([outcome : Outcome, at : Time])]
      BY <3>1, <3>2 DEF Types, IInv, StoreTypeOK, TxType
    <3>4. PICK log : log = checklogs[n]
      OBVIOUS
    <3>5. log \in Seq([outcome : Outcome, at : Time]) /\ checklogs'[n] = Append(log, x)
      BY <3>2, <3>3, <3>4
    <3>6. Len(Append(log, x)) # Len(log)
      BY <3>5
    <3> QED BY <3>2, <3>3, <3>4, <3>5, <3>6
  <2> QED BY <2>1, <2>2 DEF WorkerStep, WorkerTake, WorkerQuit, CheckDone, WorkerApplyBegin,
          ApplyBegin, WorkerApplyRefused, WorkerApplyAborts, ApplyRollback,
          ListEnabledAlertChannels, ListFails, SendAlert, SendNothing, storeVars
<1>2. PICK n, x : n = tx[w].monitor /\ x = Transition(tx[w]).event
  OBVIOUS
<1>3. /\ incidents' = [incidents EXCEPT ![n] = IncidentsAfterEvent(x, @)]
      /\ m \in Monitor /\ incidents[m] \in Seq({"open", "resolved"})
      /\ incidents \in [Monitor -> Seq({"open", "resolved"})]
      /\ n = job[w] /\ x \in EventType
  <2>1. x \in EventType
    BY <1>2 DEF Transition, evaluateStateTransition, EventType
  <2>2. n = job[w]
    BY <1>1, <1>2 DEF WorkerApplyCommit, AlertInv, TxOfJob
  <2> QED BY <1>2, <2>1, <2>2 DEF ApplyCommit, Types, IInv, StoreTypeOK, Live
<1>4. PICK log : log = incidents[m]
  OBVIOUS
<1>5. m = n /\ x # "none" /\ incidents'[m] = IncidentsAfterEvent(x, log)
  <2>1. incidents'[m] # log
    BY <1>4 DEF EventsOf
  <2>2. m = n /\ incidents'[m] = IncidentsAfterEvent(x, log)
    BY <1>3, <1>4, <2>1
  <2> QED BY <2>1, <2>2 DEF IncidentsAfterEvent
<1>6. x = EmittedEvent(w).type /\ e = EmittedEvent(w)
  <2>1. CASE x = "down"
    <3>1. incidents'[m] = Append(log, "open") /\ log \in Seq({"open", "resolved"})
      BY <1>3, <1>4, <1>5, <2>1 DEF IncidentsAfterEvent
    <3>2. \A k \in DOMAIN log : k \in DOMAIN incidents'[m] /\ incidents'[m][k] = log[k]
      BY <3>1
    <3>3. i \notin DOMAIN log
      BY <1>4, <3>2 DEF EventsOf
    <3>4. i = Len(log) + 1 /\ incidents'[m][i] = "open"
      <4>1. i \in 1 .. Len(log) + 1 /\ i \notin 1 .. Len(log) /\ Len(log) \in Nat
        BY <3>1, <3>3
      <4> QED BY <3>1, <4>1
    <3>5. e = [type |-> "down", incident |-> Len(log) + 1]
      BY <3>4 DEF EventsOf
    <3> QED BY <1>2, <1>4, <1>5, <2>1, <3>5 DEF EmittedEvent
  <2>2. CASE x = "recovered"
    <3>1. DOMAIN incidents'[m] = DOMAIN log /\ incidents'[m][i] = "resolved"
      BY <1>5, <2>2 DEF IncidentsAfterEvent
    <3>2. i \in DOMAIN log /\ e \notin EventsOf(m, i)
      BY <1>4, <3>1
    <3>3. log[i] # "resolved" /\ e = [type |-> "recovered", incident |-> i]
      BY <1>4, <3>1, <3>2 DEF EventsOf
    <3>4. i \in OpenIncidents(m)
      BY <1>3, <1>4, <3>2, <3>3 DEF OpenIncidents
    <3>5. \A k \in OpenIncidents(m) : k = i
      BY <3>4 DEF Types, IInv, OpenIncidentIffDown
    <3>6. (CHOOSE k \in OpenIncidents(m) : TRUE) = i
      BY <3>4, <3>5
    <3>7. tx[w].monitor = m /\ OpenIncidents(m) # {} /\ x = "recovered"
      BY <1>2, <1>5, <2>2, <3>4
    <3>8. EmittedEvent(w) = [type |-> x, incident |-> CHOOSE k \in OpenIncidents(m) : TRUE]
      BY <1>2, <3>7 DEF EmittedEvent
    <3>9. EmittedEvent(w) = [type |-> "recovered", incident |-> i]
      BY <3>6, <3>7, <3>8, Zenon
    <3> QED BY <3>3, <3>7, <3>9
  <2> QED BY <1>3, <1>5, <2>1, <2>2 DEF EventType
<1>7. /\ event'[w] = EmittedEvent(w) /\ pc'[w] = "list" /\ job' = job
  BY <1>1, <1>5, <1>6 DEF WorkerApplyCommit, Goto, Types, RInv, LocalTypes, WorkerTypes
<1> QED BY <1>3, <1>5, <1>6, <1>7 DEF Covered, ToTell

LEMMA CoverStep ==
  Undisturbed /\ Types /\ AlertInv /\ CoverInv /\ [Next]_vars => CoverInv'
<1> SUFFICES ASSUME Undisturbed, Types, AlertInv, CoverInv, [Next]_vars
             PROVE  CoverInv'
  OBVIOUS
<1>1. /\ Unstopped /\ Unstopped' /\ listed' = listed
      /\ (\E w \in Process : WorkerStep(w)) \/ UNCHANGED <<worker, sent>>
  BY UnstoppedStep DEF CoverInv
<1>3. ASSUME NEW m, NEW e, NEW c \in listed, Covered(m, e, c)
      PROVE  Covered(m, e, c)'
  <2>1. CASE UNCHANGED <<worker, sent>>
    BY <1>3, <2>1 DEF Covered, ToTell, worker
  <2>2. CASE \E w \in Process : WorkerStep(w)
    BY <1>1, <1>3, <2>2, CoverStays
  <2> QED BY <1>1, <2>1, <2>2
<1>4. ASSUME NEW m \in Monitor, m \in Live', NEW i \in DOMAIN incidents'[m],
             NEW c \in listed, NEW e \in EventsOf(m, i)'
      PROVE  Covered(m, e, c)'
  <2>1. CASE m \in Live /\ i \in DOMAIN incidents[m] /\ e \in EventsOf(m, i)
    BY <1>3, <1>4, <2>1 DEF CoverInv
  <2>2. CASE \E w \in Process : WorkerStep(w) /\ ApplyCommit(w)
    <3>1. m \in Live
      BY <1>4, <2>2 DEF ApplyCommit, Live
    <3> QED BY <1>1, <1>4, <2>1, <2>2, <3>1, CommitCovers
  <2>3. CASE ~ \E w \in Process : WorkerStep(w) /\ ApplyCommit(w)
    <3>1. m \in Live /\ incidents'[m] = incidents[m]
      BY <1>4, <2>3, KnownIncident DEF Types
    <3> QED BY <1>4, <2>1, <3>1 DEF EventsOf
  <2> QED BY <2>2, <2>3
<1>5. Live' \subseteq Monitor
  BY DEF Live
<1> QED BY <1>1, <1>4, <1>5 DEF CoverInv

LEMMA UndisturbedStays == Undisturbed => Undisturbed'
BY DEF Undisturbed

LEMMA InitCover == Undisturbed /\ Init => CoverInv
<1> SUFFICES ASSUME Undisturbed, Init PROVE CoverInv
  OBVIOUS
<1>1. Unstopped
  BY DEF Init, Unstopped
<1>2. ASSUME NEW m \in Monitor
      PROVE  DOMAIN incidents[m] = {}
  <2>1. OutageStarts(checklogs[m]) = {}
    BY DEF Init, StoreInit, Undisturbed
  <2>2. Cardinality(OutageStarts(checklogs[m])) = 0
    BY <2>1, FS_EmptySet
  <2>3. incidents[m] = IncidentsAfter(checklogs[m], row[m].status)
    BY DEF Init, StoreInit
  <2> QED BY <2>2, <2>3 DEF IncidentsAfter
<1> QED BY <1>1, <1>2 DEF CoverInv, Live

\* Nothing but a shutdown, a failing call, a change of the channels or a
\* skipped channel can lose an alert: without them, and with no outage from
\* before the start, every enabled channel is asked to tell that an incident
\* began and that it ended, or a worker is about to ask.
THEOREM UndisturbedAlertsArrive == Undisturbed /\ SafetySpec => []AlertNotLost
<1>1. CoverInv => AlertNotLost
  BY DEF CoverInv, Covered, AlertNotLost, EventsOf
<1>2. Undisturbed /\ SafetySpec => []CoverInv
  <2>1. Undisturbed /\ Types /\ AlertInv /\ CoverInv /\ [Next]_vars => CoverInv'
    BY CoverStep
  <2> QED BY <2>1, InitCover, RunnerTypes, RunnerAlerts, UndisturbedStays, PTL DEF SafetySpec
<1> QED BY <1>1, <1>2, PTL

-----------------------------------------------------------------------------
(* What two workers can be blamed for: with one, results are applied in the *)
(* order of their checks.                                                   *)

\* One worker goroutine, and logs of an earlier process that end before the
\* clock starts.
OneWorker ==
  /\ \A v, w \in Process : v = w
  /\ \A h \in Histories : \A i \in DOMAIN h : h[i].at = 0

\* No result of the tables is younger than t.
LoggedBy(t) == \A m \in Live : \A i \in DOMAIN checklogs[m] : checklogs[m][i].at <= t

InOrderInv ==
  /\ \A m \in Live : \A i, j \in DOMAIN checklogs[m] :
       i < j => checklogs[m][i].at <= checklogs[m][j].at
  /\ LoggedBy(clock)
  /\ \A w \in Process : pc[w] = "apply" =>
       LoggedBy(result[w].at) /\ result[w].at <= clock
  /\ \A w \in Process : tx[w] # None =>
       LoggedBy(tx[w].at) /\ tx[w].at <= clock

LEMMA InitInOrder == OneWorker /\ Init => InOrderInv
<1> SUFFICES ASSUME OneWorker, Init PROVE InOrderInv
  OBVIOUS
<1>1. \A m \in Monitor : \A i \in DOMAIN checklogs[m] : checklogs[m][i].at = 0
  BY DEF OneWorker, Init, StoreInit
<1>2. clock = 0 /\ \A w \in Process : tx[w] = None /\ pc[w] = "idle"
  BY DEF Init, StoreInit
<1> QED BY <1>1, <1>2 DEF InOrderInv, LoggedBy, Live

\* Steps that apply no result leave the logs behind what is to come.
LEMMA SameLogs ==
  ASSUME Types, InOrderInv,
         \A m \in Live' : checklogs'[m] = << >> \/ (m \in Live /\ checklogs'[m] = checklogs[m]),
         clock' \in Nat, clock <= clock',
         \A w \in Process : pc'[w] = "apply" =>
           \/ result'[w].at = clock
           \/ pc[w] = "apply" /\ result'[w].at = result[w].at,
         \A w \in Process : tx'[w] # None =>
           \/ tx[w] # None /\ tx'[w].at = tx[w].at
           \/ pc[w] = "apply" /\ tx'[w].at = result[w].at
  PROVE  InOrderInv'
<1>1. ASSUME NEW m \in Live', NEW i \in DOMAIN checklogs'[m]
      PROVE  m \in Live /\ checklogs'[m] = checklogs[m] /\ i \in DOMAIN checklogs[m]
  BY <1>1
<1>2. \A t : LoggedBy(t) => LoggedBy(t)'
  BY <1>1 DEF LoggedBy
<1>3. ASSUME NEW m \in Live, NEW i \in DOMAIN checklogs[m]
      PROVE  checklogs[m][i].at \in Nat
  <2>1. PICK log : log = checklogs[m]
    OBVIOUS
  <2>2. log \in Seq(Result)
    BY <2>1 DEF Types, IInv, StoreTypeOK, Live, Result
  <2>3. log[i] \in Result
    <3>1. i \in DOMAIN log
      BY <2>1
    <3>2. \A j \in DOMAIN log : log[j] \in Result
      BY <2>2
    <3> QED BY <3>1, <3>2
  <2> QED BY <2>1, <2>3, StoreAssumption DEF Result
<1>4. clock \in Nat
  BY StoreAssumption DEF Types, RInv, LocalTypes
<1>5. LoggedBy(clock)'
  <2>1. ASSUME NEW m \in Live', NEW i \in DOMAIN checklogs'[m]
        PROVE  checklogs'[m][i].at <= clock'
    <3>1. checklogs'[m][i].at \in Nat /\ checklogs'[m][i].at <= clock
      BY <1>1, <1>3, <2>1 DEF InOrderInv, LoggedBy
    <3> QED BY <1>4, <3>1
  <2> QED BY <2>1 DEF LoggedBy
<1>6. ASSUME NEW w \in Process, pc'[w] = "apply"
      PROVE  LoggedBy(result[w].at)' /\ result'[w].at <= clock'
  <2>1. PICK t : t = result'[w].at
    OBVIOUS
  <2>2. t \in Nat /\ t <= clock /\ LoggedBy(t)
    <3>1. pc[w] = "apply" => result[w].at \in Nat
      BY StoreAssumption DEF Types, RInv, LocalTypes, Result
    <3> QED BY <1>4, <1>6, <2>1, <3>1 DEF InOrderInv
  <2>3. LoggedBy(t)'
    BY <1>2, <2>2
  <2> QED BY <1>4, <2>1, <2>2, <2>3 DEF LoggedBy
<1>7. ASSUME NEW w \in Process, tx'[w] # None
      PROVE  LoggedBy(tx[w].at)' /\ tx'[w].at <= clock'
  <2>1. PICK t : t = tx'[w].at
    OBVIOUS
  <2>2. t \in Nat /\ t <= clock /\ LoggedBy(t)
    <3>1. pc[w] = "apply" => result[w].at \in Nat
      BY StoreAssumption DEF Types, RInv, LocalTypes, Result
    <3>2. tx[w] # None => tx[w].at \in Nat
      BY StoreAssumption DEF Types, IInv, StoreTypeOK, TxType
    <3> QED BY <1>4, <1>7, <2>1, <3>1, <3>2 DEF InOrderInv
  <2>3. LoggedBy(t)'
    BY <1>2, <2>2
  <2> QED BY <1>4, <2>1, <2>2, <2>3 DEF LoggedBy
<1>8. \A m \in Live' : \A i, j \in DOMAIN checklogs'[m] :
        i < j => checklogs'[m][i].at <= checklogs'[m][j].at
  BY <1>1 DEF InOrderInv
<1> QED BY <1>5, <1>6, <1>7, <1>8 DEF InOrderInv

\* The result that is applied is the youngest, and no other is on its way.
LEMMA CommitInOrder ==
  ASSUME OneWorker, Types, InOrderInv, NEW w \in Process, WorkerStep(w), ApplyCommit(w),
         clock' = clock, pc'[w] # "apply"
  PROVE  InOrderInv'
<1>1. PICK n, x : n = tx[w].monitor /\ x = [outcome |-> tx[w].outcome, at |-> tx[w].at]
  OBVIOUS
<1>2. /\ tx[w] \in TxType /\ n \in Monitor /\ x \in Result /\ x.at = tx[w].at /\ x.at \in Nat
      /\ checklogs' = [checklogs EXCEPT ![n] = Append(@, x)]
      /\ tx' = [tx EXCEPT ![w] = None] /\ Live' = Live
  <2>1. tx[w] \in TxType /\ tx[w] # None
    BY DEF ApplyCommit, Types, IInv, StoreTypeOK
  <2> QED BY <1>1, <2>1, StoreAssumption DEF TxType, Result, ApplyCommit, Live
<1>3. \A v \in Process : v = w
  BY DEF OneWorker
<1>4. tx'[w] = None
  BY <1>2 DEF Types, IInv, StoreTypeOK
<1>5. clock \in Nat /\ x.at <= clock
  <2>1. tx[w] # None
    BY DEF ApplyCommit
  <2> QED BY <1>2, <2>1, StoreAssumption DEF Types, RInv, LocalTypes, InOrderInv
<1>6. ASSUME NEW m \in Live
      PROVE  /\ checklogs[m] \in Seq(Result)
             /\ checklogs'[m] = checklogs[m] \/ checklogs'[m] = Append(checklogs[m], x)
             /\ \A i \in DOMAIN checklogs[m] :
                  checklogs[m][i].at \in Nat /\ checklogs[m][i].at <= x.at
  <2>1. checklogs \in [Monitor -> Seq(Result)] /\ m \in Monitor
    BY DEF Types, IInv, StoreTypeOK, Result, Live
  <2>2. checklogs'[m] = checklogs[m] \/ checklogs'[m] = Append(checklogs[m], x)
    BY <1>2, <2>1
  <2>3. ASSUME NEW i \in DOMAIN checklogs[m]
        PROVE  checklogs[m][i].at \in Nat /\ checklogs[m][i].at <= x.at
    <3>1. checklogs[m][i] \in Result
      BY <2>1
    <3>2. LoggedBy(tx[w].at)
      BY DEF InOrderInv, ApplyCommit
    <3> QED BY <1>2, <3>1, <3>2, StoreAssumption DEF Result, LoggedBy
  <2> QED BY <2>1, <2>2, <2>3
<1>7. ASSUME NEW m \in Live
      PROVE  /\ \A i \in DOMAIN checklogs'[m] : checklogs'[m][i].at <= clock
             /\ \A i, j \in DOMAIN checklogs'[m] :
                  i < j => checklogs'[m][i].at <= checklogs'[m][j].at
  <2>1. PICK log : log = checklogs[m]
    OBVIOUS
  <2>2. /\ log \in Seq(Result) /\ Len(log) \in Nat /\ DOMAIN log = 1 .. Len(log)
        /\ \A i \in 1 .. Len(log) : log[i].at \in Nat /\ log[i].at <= x.at
        /\ \A i, j \in 1 .. Len(log) : i < j => log[i].at <= log[j].at
    <3>1. log \in Seq(Result) /\ Len(log) \in Nat /\ DOMAIN log = 1 .. Len(log)
      BY <1>6, <2>1
    <3> QED BY <1>6, <2>1, <3>1 DEF InOrderInv
  <2>3. CASE checklogs'[m] = log
    <3>1. \A i \in 1 .. Len(log) : log[i].at <= clock
      BY <1>2, <1>5, <2>2
    <3> QED BY <2>2, <2>3, <3>1
  <2>4. CASE checklogs'[m] = Append(log, x)
    <3>1. PICK new : new = checklogs'[m]
      OBVIOUS
    <3>2. /\ DOMAIN new = 1 .. Len(log) + 1
          /\ \A i \in 1 .. Len(log) : new[i] = log[i]
          /\ new[Len(log) + 1] = x
      BY <1>2, <2>2, <2>4, <3>1
    <3>3. \A i \in DOMAIN new : i \in 1 .. Len(log) \/ i = Len(log) + 1
      BY <2>2, <3>2
    <3>4. \A i \in DOMAIN new : new[i].at \in Nat /\ new[i].at <= x.at
      BY <1>2, <2>2, <3>2, <3>3
    <3>5. \A i \in DOMAIN new : new[i].at <= clock
      BY <1>2, <1>5, <3>4
    <3>6. ASSUME NEW i \in DOMAIN new, NEW j \in DOMAIN new, i < j
          PROVE  new[i].at <= new[j].at
      <4>1. CASE j = Len(log) + 1
        BY <3>2, <3>4, <4>1
      <4>2. CASE j \in 1 .. Len(log)
        <5>1. i \in 1 .. Len(log)
          BY <2>2, <3>2, <3>6, <4>2
        <5> QED BY <2>2, <3>2, <3>6, <4>2, <5>1
      <4> QED BY <3>3, <4>1, <4>2
    <3> QED BY <3>1, <3>5, <3>6
  <2> QED BY <1>6, <2>1, <2>3, <2>4
<1> QED BY <1>2, <1>3, <1>4, <1>7 DEF InOrderInv, LoggedBy

LEMMA InOrderStep ==
  OneWorker /\ Types /\ InOrderInv /\ [Next]_vars => InOrderInv'
<1> SUFFICES ASSUME OneWorker, Types, InOrderInv, [Next]_vars
             PROVE  InOrderInv'
  OBVIOUS
<1>1. clock \in Nat /\ clock' \in Nat
  <2>1. Types'
    BY StepTypes
  <2> QED BY <2>1, StoreAssumption DEF Types, RInv, LocalTypes
<1>2. clock <= clock
  BY <1>1
<1>3. CASE UNCHANGED <<phase, checklogs, pc, result, tx>> /\ clock <= clock'
  BY <1>1, <1>3, SameLogs DEF Live
<1>4. CASE Tick
  BY <1>1, <1>3, <1>4 DEF Tick, storeVars, worker
<1>5. CASE SchedStep
  BY <1>2, <1>3, <1>5 DEF SchedStep, SchedClaim, SchedClaimFails, SchedSend, SchedSendCancelled,
     SchedTick, SchedStop, ClaimDueMonitors, ClaimRows, storeVars, worker, world
<1>6. ASSUME NEW w \in Process, WorkerStep(w)
      PROVE  InOrderInv'
  <2>1. clock' = clock
    BY <1>6 DEF WorkerStep, WorkerTake, WorkerQuit, CheckDone, WorkerApplyBegin,
       WorkerApplyRefused, WorkerApplyCommit, WorkerApplyAborts, WorkerCommitUnknown,
       ListEnabledAlertChannels, ListFails, SendAlert, SendNothing, world
  <2>2. \A v \in Process : v = w
    BY DEF OneWorker
  <2>3. pc \in [Process -> Label] /\ result \in [Process -> Result \cup {None}]
        /\ tx \in [Process -> TxType \cup {None}]
    BY DEF Types, RInv, LocalTypes, IInv, StoreTypeOK
  <2>4. CASE ApplyCommit(w) /\ (WorkerApplyCommit(w) \/ WorkerCommitUnknown(w))
    <3>1. pc'[w] # "apply"
      BY <2>3, <2>4 DEF WorkerApplyCommit, WorkerCommitUnknown, Finish, Goto
    <3> QED BY <1>6, <2>1, <2>4, <3>1, CommitInOrder
  <2>5. CASE CheckDone(w)
    <3>1. UNCHANGED <<phase, checklogs, tx>> /\ result'[w].at = clock
      BY <2>3, <2>5 DEF CheckDone, storeVars
    <3> QED BY <1>1, <1>2, <2>1, <2>2, <3>1, SameLogs DEF Live
  <2>6. CASE WorkerApplyBegin(w)
    <3>1. /\ UNCHANGED <<phase, checklogs>> /\ pc[w] = "apply" /\ pc'[w] = "commit"
          /\ tx'[w].at = result[w].at
      BY <2>3, <2>6 DEF WorkerApplyBegin, ApplyBegin, Goto
    <3> QED BY <1>1, <1>2, <2>1, <2>2, <3>1, SameLogs DEF Live
  <2>7. CASE \/ WorkerTake(w) \/ WorkerQuit(w) \/ WorkerApplyRefused(w) \/ WorkerApplyAborts(w)
             \/ ListEnabledAlertChannels(w) \/ ListFails(w) \/ SendAlert(w) \/ SendNothing(w)
    <3>1. UNCHANGED <<phase, checklogs>> /\ (tx'[w] = tx[w] \/ tx'[w] = None)
      BY <2>3, <2>7 DEF WorkerTake, WorkerQuit, WorkerApplyRefused, WorkerApplyAborts,
         ApplyRollback, ListEnabledAlertChannels, ListFails, SendAlert, SendNothing, storeVars
    <3>2. pc'[w] # "apply"
      BY <2>3, <2>7 DEF WorkerTake, WorkerQuit, WorkerApplyRefused, WorkerApplyAborts,
         ListEnabledAlertChannels, ListFails, SendAlert, SendNothing, NextChannel, Finish, Goto
    <3> QED BY <1>1, <1>2, <2>1, <2>2, <3>1, <3>2, SameLogs DEF Live
  <2> QED BY <1>6, <2>4, <2>5, <2>6, <2>7
          DEF WorkerStep, WorkerApplyCommit, WorkerCommitUnknown
<1>7. CASE Exit \/ Restart
  <2>1. /\ UNCHANGED <<phase, checklogs, clock>>
        /\ \A w \in Process : pc'[w] # "apply" /\ (tx'[w] = tx[w] \/ tx'[w] = None)
    BY <1>7 DEF Exit, Restart, FreshWorkers, Disconnect, storeVars, world
  <2> QED BY <1>1, <1>2, <2>1, SameLogs DEF Live
<1>8. CASE TargetCall
  <2>1. UNCHANGED <<clock, pc, result, tx>>
    BY <1>8 DEF TargetCall, CreateMonitor, UpdateMonitor, DeleteMonitor, worker, world
  <2>2. \A m \in Live' : checklogs'[m] = << >> \/ (m \in Live /\ checklogs'[m] = checklogs[m])
    <3> USE DEF Types, IInv, StoreTypeOK, Live
    <3>1. ASSUME NEW n \in Monitor, NEW enabled, NEW interval, NEW now,
                 CreateMonitor(n, enabled, interval, now), NEW m \in Live'
          PROVE  checklogs'[m] = << >> \/ (m \in Live /\ checklogs'[m] = checklogs[m])
      <4>1. CASE m = n
        BY <3>1, <4>1 DEF CreateMonitor, NewIsEmpty
      <4>2. CASE m # n
        BY <3>1, <4>2 DEF CreateMonitor
      <4> QED BY <4>1, <4>2
    <3>2. ASSUME NEW n \in Monitor, DeleteMonitor(n), NEW m \in Live'
          PROVE  m \in Live /\ checklogs'[m] = checklogs[m]
      BY <3>2 DEF DeleteMonitor
    <3>3. ASSUME NEW n \in Monitor, NEW enabled, NEW interval,
                 UpdateMonitor(n, enabled, interval), NEW m \in Live'
          PROVE  m \in Live /\ checklogs'[m] = checklogs[m]
      BY <3>3 DEF UpdateMonitor
    <3> QED BY <1>8, <3>1, <3>2, <3>3 DEF TargetCall
  <2> QED BY <1>1, <1>2, <2>1, <2>2, SameLogs
<1>9. CASE MainSeesCancel \/ Cancel \/ ChannelCall \/ UNCHANGED vars
  BY <1>2, <1>3, <1>9 DEF MainSeesCancel, Cancel, ChannelCall, vars, storeVars, worker, world
<1> QED BY <1>4, <1>5, <1>6, <1>7, <1>8, <1>9
        DEF Next, MainStep, MainReturnsErr, MainReturnsDone, Kill

LEMMA OneWorkerStays == OneWorker => OneWorker'
BY DEF OneWorker

\* With one worker goroutine the log in commit order is the log in the order
\* of checked_at, so that the API shows one incident for every three failures
\* in a row: only results that overtake one another break the README's rule.
THEOREM OneWorkerCountsInOrder == OneWorker /\ SafetySpec => []IncidentsMatchCheckedAt
<1>1. Types /\ InOrderInv /\ OneIncidentPerOutage => IncidentsMatchCheckedAt
  <2> SUFFICES ASSUME Types, InOrderInv, OneIncidentPerOutage, NEW m \in Live
               PROVE  \E s \in ByCheckedAt(checklogs[m]) :
                        Cardinality(OutageStarts(s)) = Len(incidents[m])
    BY DEF IncidentsMatchCheckedAt
  <2>1. PICK log, p : log = checklogs[m] /\ p = [i \in DOMAIN log |-> i]
    OBVIOUS
  <2>2. log \in Seq(Result)
    BY <2>1 DEF Types, IInv, StoreTypeOK, Live, Result
  <2>3. log = [i \in DOMAIN log |-> log[p[i]]]
    <3>1. log = [i \in DOMAIN log |-> log[i]]
      BY <2>2
    <3>2. \A i \in DOMAIN log : p[i] = i
      BY <2>1
    <3>3. [i \in DOMAIN log |-> log[p[i]]] = [i \in DOMAIN log |-> log[i]]
      BY <3>2
    <3> QED BY <3>1, <3>3
  <2>4. PICK R : R = {q \in [DOMAIN log -> DOMAIN log] :
                        \A i, j \in DOMAIN log : q[i] = q[j] => i = j}
    OBVIOUS
  <2>5. p \in R
    BY <2>1, <2>4
  <2>6. \A i, j \in DOMAIN log : i < j => log[i].at <= log[j].at
    BY <2>1 DEF InOrderInv
  <2>7. log \in {s \in {[i \in DOMAIN log |-> log[q[i]]] : q \in R} :
                   \A i, j \in DOMAIN log : i < j => s[i].at <= s[j].at}
    BY <2>3, <2>5, <2>6
  <2>8. log \in ByCheckedAt(log)
    BY <2>4, <2>7 DEF ByCheckedAt
  <2>9. Cardinality(OutageStarts(log)) = Len(incidents[m])
    BY <2>1 DEF OneIncidentPerOutage
  <2> QED BY <2>1, <2>8, <2>9
<1> QED BY <1>1, InitInOrder, InOrderStep, OneWorkerStays, RunnerTypes, RunnerCountsOutages, PTL
        DEF SafetySpec

=============================================================================
