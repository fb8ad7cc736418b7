------------------------- MODULE MonitorStoreProofs --------------------------
(***************************************************************************)
(* Proofs about MonitorStore, for every set of monitors, of connections    *)
(* and of instants, every interval and every bound.                        *)
(***************************************************************************)
EXTENDS MonitorStore, FiniteSetTheorems, TLAPS

Result == [outcome : Outcome, at : Time]

-----------------------------------------------------------------------------
(* Ranks in a finite set R with a strict total order LT. *)

Below(R, LT, a) == {b \in R : <<b, a>> \in LT}

StrictTotal(R, LT) ==
  \A a, b, d \in R :
    /\ <<a, a>> \notin LT
    /\ a # b => <<a, b>> \in LT \/ <<b, a>> \in LT
    /\ <<a, b>> \in LT /\ <<b, d>> \in LT => <<a, d>> \in LT

LEMMA RankInOrder ==
  ASSUME NEW R, IsFiniteSet(R), NEW LT, StrictTotal(R, LT), NEW a \in R
  PROVE  /\ Cardinality(R) \in Nat
         /\ Cardinality(Below(R, LT, a)) \in 0 .. Cardinality(R) - 1
         /\ \A b \in R : <<a, b>> \in LT =>
              Cardinality(Below(R, LT, a)) < Cardinality(Below(R, LT, b))
<1>1. \A S \in SUBSET R : IsFiniteSet(S) /\ Cardinality(S) \in Nat
  BY FS_Subset, FS_CardinalityType
<1>2. \A S, T \in SUBSET R : T \subseteq S =>
        Cardinality(T) <= Cardinality(S) /\ (T # S => Cardinality(T) # Cardinality(S))
  BY <1>1, FS_Subset
<1>3. Below(R, LT, a) \in SUBSET R /\ a \notin Below(R, LT, a)
  BY DEF Below, StrictTotal
<1>4. ASSUME NEW b \in R, <<a, b>> \in LT
      PROVE  Cardinality(Below(R, LT, a)) < Cardinality(Below(R, LT, b))
  <2>1. /\ Below(R, LT, b) \in SUBSET R
        /\ Below(R, LT, a) \subseteq Below(R, LT, b)
        /\ a \in Below(R, LT, b) /\ a \notin Below(R, LT, a)
    BY <1>4 DEF Below, StrictTotal
  <2> QED BY <1>1, <1>2, <1>3, <2>1
<1>5. Below(R, LT, a) # R
  BY <1>3
<1> QED BY <1>1, <1>2, <1>3, <1>4, <1>5

\* Every rank from 0 on is somebody's, and only one's.
LEMMA RanksTaken ==
  ASSUME NEW R, IsFiniteSet(R), NEW LT, StrictTotal(R, LT), NEW rank,
         rank = [a \in R |-> Cardinality(Below(R, LT, a))]
  PROVE  /\ rank \in [R -> 0 .. Cardinality(R) - 1]
         /\ \A a, b \in R : a # b => rank[a] # rank[b]
         /\ \A i \in 0 .. Cardinality(R) - 1 : \E a \in R : rank[a] = i
<1>1. PICK N : N = Cardinality(R)
  OBVIOUS
<1>2. N \in Nat
  BY <1>1, FS_CardinalityType
<1>3. rank \in [R -> 0 .. N - 1]
  BY <1>1, <1>2, RankInOrder
<1>4. ASSUME NEW a \in R, NEW b \in R, a # b
      PROVE  rank[a] # rank[b]
  <2>1. <<a, b>> \in LT \/ <<b, a>> \in LT
    BY <1>4 DEF StrictTotal
  <2>2. rank[a] \in Int /\ rank[b] \in Int
    BY <1>3
  <2>3. rank[a] < rank[b] \/ rank[b] < rank[a]
    BY <2>1, RankInOrder
  <2> QED BY <2>2, <2>3
<1>5. rank \in Injection(R, 0 .. N - 1)
  BY <1>3, <1>4 DEF Injection, IsInjective
<1>6. IsFiniteSet(0 .. N - 1) /\ Cardinality(0 .. N - 1) = N
  BY <1>2, FS_Interval
<1>7. rank \in Surjection(R, 0 .. N - 1)
  BY <1>1, <1>5, <1>6, FS_Injection
<1> QED BY <1>1, <1>3, <1>4, <1>7 DEF Surjection

\* The elements can be put in order.
LEMMA InOrder ==
  ASSUME NEW R, IsFiniteSet(R), NEW LT, StrictTotal(R, LT)
  PROVE  \E s \in [1 .. Cardinality(R) -> R] :
           \A i, j \in 1 .. Cardinality(R) : i < j => <<s[i], s[j]>> \in LT
<1>1. PICK rank, N : /\ rank = [a \in R |-> Cardinality(Below(R, LT, a))]
                     /\ N = Cardinality(R)
  OBVIOUS
<1>2. /\ N \in Nat /\ rank \in [R -> 0 .. N - 1]
      /\ \A i \in 0 .. N - 1 : \E a \in R : rank[a] = i
  BY <1>1, RanksTaken, FS_CardinalityType
<1>3. PICK s : s = [i \in 1 .. N |-> CHOOSE a \in R : rank[a] = i - 1]
  OBVIOUS
<1>4. ASSUME NEW i \in 1 .. N
      PROVE  s[i] \in R /\ rank[s[i]] = i - 1
  <2>1. i - 1 \in 0 .. N - 1
    BY <1>2
  <2>2. \E a \in R : rank[a] = i - 1
    BY <1>2, <2>1
  <2> QED BY <1>3, <2>2
<1>5. ASSUME NEW i \in 1 .. N, NEW j \in 1 .. N, i < j
      PROVE  <<s[i], s[j]>> \in LT
  <2>1. /\ s[i] \in R /\ s[j] \in R /\ rank[s[i]] = i - 1 /\ rank[s[j]] = j - 1
    BY <1>4
  <2>2. <<s[j], s[i]>> \in LT => rank[s[j]] < rank[s[i]]
    BY <1>1, <2>1, RankInOrder
  <2>3. ~ (<<s[j], s[i]>> \in LT) /\ s[i] # s[j]
    BY <1>2, <1>5, <2>1, <2>2
  <2> QED BY <2>1, <2>3 DEF StrictTotal
<1>6. s \in [1 .. N -> R]
  BY <1>3, <1>4
<1> QED BY <1>1, <1>5, <1>6

-----------------------------------------------------------------------------
(* What one more result does to a log. *)

\* The count of trailing failures: reset by a success, else one more.
LEMMA StreakAppend ==
  ASSUME NEW log \in Seq(Result), NEW x \in Result, NEW k \in Nat,
         IsStreak(log, k)
  PROVE  IsStreak(Append(log, x), IF Success(x.outcome) THEN 0 ELSE k + 1)
<1> DEFINE new == Append(log, x)
<1>1. /\ Len(new) = Len(log) + 1
      /\ new[Len(log) + 1] = x
      /\ \A i \in 1 .. Len(log) : new[i] = log[i]
      /\ Len(log) \in Nat
  OBVIOUS
<1>2. CASE Success(x.outcome)
  BY <1>1, <1>2 DEF IsStreak, Failed
<1>3. CASE ~ Success(x.outcome)
  <2>1. k + 1 \in 0 .. Len(new)
    BY <1>1 DEF IsStreak
  <2>2. ASSUME NEW i \in Len(new) - (k + 1) + 1 .. Len(new)
        PROVE  Failed(new, i)
    BY <1>1, <1>3, <2>2 DEF IsStreak, Failed
  <2>3. k + 1 < Len(new) => ~ Failed(new, Len(new) - (k + 1))
    BY <1>1 DEF IsStreak, Failed
  <2> QED BY <1>3, <2>1, <2>2, <2>3 DEF IsStreak
<1> QED BY <1>2, <1>3

\* An outage begins at the new result exactly if it is the third failure.
LEMMA OutageAppend ==
  ASSUME NEW log \in Seq(Result), NEW x \in Result, NEW k \in Nat,
         IsStreak(log, k)
  PROVE  OutageStarts(Append(log, x)) =
           IF ~ Success(x.outcome) /\ k = 2
           THEN OutageStarts(log) \cup {Len(log) + 1} ELSE OutageStarts(log)
<1> DEFINE new == Append(log, x)
           n == Len(log)
<1>1. /\ Len(new) = n + 1
      /\ new[n + 1] = x
      /\ \A i \in 1 .. n : new[i] = log[i]
      /\ n \in Nat
  OBVIOUS
<1>2. ASSUME NEW i \in Int, i <= n
      PROVE  i \in OutageStarts(new) <=> i \in OutageStarts(log)
  BY <1>1, <1>2 DEF OutageStarts, Failed, FailureThreshold
<1>3. n + 1 \in OutageStarts(new) <=> ~ Success(x.outcome) /\ k = 2
  <2>1. n + 1 \in OutageStarts(new) <=>
          /\ n >= 2
          /\ ~ Success(x.outcome) /\ Failed(log, n) /\ Failed(log, n - 1)
          /\ n > 2 => ~ Failed(log, n - 2)
    BY <1>1 DEF OutageStarts, Failed, FailureThreshold
  <2>2. CASE k = 0
    BY <2>1, <2>2, <1>1 DEF IsStreak
  <2>3. CASE k = 1
    BY <2>1, <2>3, <1>1 DEF IsStreak
  <2>4. CASE k = 2
    BY <2>1, <2>4, <1>1 DEF IsStreak
  <2>5. CASE k > 2
    BY <2>1, <2>5, <1>1 DEF IsStreak
  <2> QED BY <2>2, <2>3, <2>4, <2>5
<1>4. \A i \in OutageStarts(new) : i \in Int /\ i <= n + 1
  BY <1>1 DEF OutageStarts, FailureThreshold
<1>5. \A i \in OutageStarts(log) : i \in Int /\ i <= n
  BY <1>1 DEF OutageStarts, FailureThreshold
<1>6. \A i : i \in OutageStarts(new) <=>
               \/ i \in OutageStarts(log)
               \/ i = n + 1 /\ ~ Success(x.outcome) /\ k = 2
  <2>1. \A i \in Int : i <= n + 1 => i <= n \/ i = n + 1
    BY <1>1
  <2>2. n + 1 \notin OutageStarts(log)
    BY <1>1, <1>5
  <2> HIDE DEF new, n
  <2> QED BY <2>1, <2>2, <1>2, <1>3, <1>4, <1>5
<1> HIDE DEF new, n
<1> QED BY <1>6, Zenon DEF new, n

\* There are finitely many outages, and one at least if the log ends in one.
LEMMA OutagesFinite ==
  ASSUME NEW log \in Seq(Result)
  PROVE  /\ IsFiniteSet(OutageStarts(log))
         /\ Cardinality(OutageStarts(log)) \in Nat
         /\ \A k \in Nat : IsStreak(log, k) /\ k >= FailureThreshold =>
                             Cardinality(OutageStarts(log)) # 0
<1>1. IsFiniteSet(FailureThreshold .. Len(log))
  BY FS_Interval DEF FailureThreshold
<1>2. OutageStarts(log) \subseteq FailureThreshold .. Len(log)
  BY DEF OutageStarts
<1>3. IsFiniteSet(OutageStarts(log))
  BY <1>1, <1>2, FS_Subset
<1>4. ASSUME NEW k \in Nat, IsStreak(log, k), k >= FailureThreshold
      PROVE  Len(log) - k + 3 \in OutageStarts(log)
  BY <1>4 DEF IsStreak, OutageStarts, FailureThreshold
<1> QED BY <1>3, <1>4, FS_CardinalityType, FS_EmptySet

\* What evaluateStateTransition computes from a row that follows the log is what
\* the log, with the result appended, says; its events are the third failure of
\* a streak and the first success after three or more.
THEOREM TransitionFollowsLog ==
  ASSUME NEW log \in Seq(Result), NEW x \in Result, NEW k \in Nat,
         IsStreak(log, k),
         NEW next, next = evaluateStateTransition(StatusAfter(log, k), k, x.outcome)
  PROVE  /\ next.failures \in Nat
         /\ next.status \in Status
         /\ IsStreak(Append(log, x), next.failures)
         /\ next.status = StatusAfter(Append(log, x), next.failures)
         /\ next.event = "down" <=> (~ Success(x.outcome) /\ k = 2)
         /\ next.event = "recovered" <=> (Success(x.outcome) /\ k >= 3)
         /\ next.event \in EventType
<1>1. Len(Append(log, x)) = Len(log) + 1 /\ Len(log) \in Nat
  OBVIOUS
<1>2. k <= Len(log)
  BY <1>1 DEF IsStreak
<1>3. IsStreak(Append(log, x), next.failures)
  BY StreakAppend DEF evaluateStateTransition
<1>4. CASE Success(x.outcome)
  BY <1>1, <1>2, <1>3, <1>4
     DEF evaluateStateTransition, StatusAfter, FailureThreshold, EventType, Status
<1>5. CASE ~ Success(x.outcome)
  BY <1>1, <1>2, <1>3, <1>5
     DEF evaluateStateTransition, StatusAfter, FailureThreshold, EventType, Status
<1> QED BY <1>4, <1>5
-----------------------------------------------------------------------------
(* The inductive invariant. *)

\* No transaction works on a stale row: while it is open, the row it read is
\* live and unchanged, and no other transaction has read it.
TxSeesRow ==
  /\ \A p \in Process : tx[p] # None =>
       /\ tx[p].monitor \in Live
       /\ tx[p].status = row[tx[p].monitor].status
       /\ tx[p].failures = row[tx[p].monitor].failures
  /\ \A p, q \in Process :
       tx[p] # None /\ tx[q] # None /\ tx[p].monitor = tx[q].monitor => p = q

\* Nothing refers to a monitor that is not there yet.
NewIsEmpty ==
  \A m \in Monitor : phase[m] = "new" => checklogs[m] = << >> /\ incidents[m] = << >>

IInv ==
  /\ StoreTypeOK
  /\ RowFollowsLog
  /\ OpenIncidentIffDown
  /\ OneIncidentPerOutage
  /\ TxSeesRow
  /\ NewIsEmpty

LEMMA BlankRowType ==
  ASSUME Interval # {}
  PROVE  BlankRow \in RowType
BY StoreAssumption DEF BlankRow, NewRow, RowType, Status

LEMMA EmptyLog ==
  /\ IsStreak(<< >>, 0)
  /\ StatusAfter(<< >>, 0) = "unknown"
  /\ OutageStarts(<< >>) = {}
  /\ Cardinality(OutageStarts(<< >>)) = 0
BY FS_EmptySet DEF IsStreak, StatusAfter, OutageStarts, FailureThreshold

LEMMA NoneIsNoTx == None \notin TxType
BY StoreAssumption DEF TxType

LEMMA InitIInv == StoreInit => IInv
<1> SUFFICES ASSUME StoreInit PROVE IInv
  OBVIOUS
<1>1. PICK enabled \in [Monitor -> BOOLEAN], interval \in [Monitor -> Interval],
           k \in [Monitor -> 0 .. MaxLogs] :
        /\ \A m \in Monitor : IsStreak(checklogs[m], k[m])
        /\ row = [m \in Monitor |->
                    IF phase[m] = "new" THEN BlankRow
                    ELSE RowAfter(enabled[m], interval[m], checklogs[m], k[m])]
  BY DEF StoreInit
<1>2. \A m \in Monitor : checklogs[m] \in Seq(Result) /\ k[m] \in Nat
  <2>1. \A m \in Monitor : checklogs[m] \in Histories
    BY DEF StoreInit
  <2>2. \A m \in Monitor : k[m] \in 0 .. MaxLogs
    BY <1>1
  <2>3. Histories \subseteq Seq(Result)
    BY StoreAssumption, Zenon DEF Result
  <2>4. \A m \in Monitor : k[m] \in Nat
    BY <2>2, StoreAssumption
  <2> QED BY <2>1, <2>3, <2>4, Zenon
<1>3. ASSUME NEW m \in Monitor, phase[m] = "live"
      PROVE  /\ row[m] \in RowType
             /\ row[m].failures = k[m]
             /\ row[m].status = StatusAfter(checklogs[m], k[m])
             /\ row[m].lastChecked = (IF checklogs[m] = << >> THEN Never
                                      ELSE checklogs[m][Len(checklogs[m])].at)
  <2>1. row[m] = RowAfter(enabled[m], interval[m], checklogs[m], k[m])
    BY <1>1, <1>3
  <2>2. checklogs[m] # << >> => checklogs[m][Len(checklogs[m])] \in Result
    BY <1>2
  <2>3. checklogs[m] # << >> => checklogs[m][Len(checklogs[m])].at \in Nat
    BY <2>2, StoreAssumption DEF Result
  <2>4. StatusAfter(checklogs[m], k[m]) \in Status
    BY <1>1, <1>2 DEF StatusAfter, Status, FailureThreshold
  <2> QED BY <2>1, <2>3, <2>4, <1>2 DEF RowAfter, RowType, Never
<1>4. row \in [Monitor -> RowType]
  <2> SUFFICES ASSUME NEW m \in Monitor PROVE row[m] \in RowType
    BY <1>1
  <2>1. CASE phase[m] = "new"
    <3>1. Interval # {}
      BY <1>1
    <3> QED BY <3>1, <2>1, <1>1, BlankRowType
  <2>2. CASE phase[m] = "live"
    BY <2>2, <1>3
  <2> QED BY <2>1, <2>2 DEF StoreInit
<1>5. ASSUME NEW m \in Monitor
      PROVE  /\ incidents[m] \in Seq({"open", "resolved"})
             /\ Len(incidents[m]) = Cardinality(OutageStarts(checklogs[m]))
             /\ \A i \in 1 .. Len(incidents[m]) :
                  incidents[m][i] = IF i = Len(incidents[m]) /\ row[m].status = "down"
                                    THEN "open" ELSE "resolved"
  <2> DEFINE n == Cardinality(OutageStarts(checklogs[m]))
  <2>1. n \in Nat
    BY <1>2, OutagesFinite
  <2>2. incidents[m] = [i \in 1 .. n |->
            IF i = n /\ row[m].status = "down" THEN "open" ELSE "resolved"]
    BY DEF StoreInit, IncidentsAfter
  <2> HIDE DEF n
  <2>3. /\ incidents[m] \in Seq({"open", "resolved"})
        /\ Len(incidents[m]) = n
    BY <2>1, <2>2
  <2> QED BY <2>1, <2>2, <2>3 DEF n
<1>6. StoreTypeOK
  BY <1>2, <1>4, <1>5 DEF StoreInit, StoreTypeOK, Result, IncidentsAfter
<1>7. RowFollowsLog
  BY <1>1, <1>3 DEF RowFollowsLog, Live
<1>8. OpenIncidentIffDown
  <2> SUFFICES ASSUME NEW m \in Live
               PROVE  OpenIncidents(m) =
                        IF row[m].status = "down" THEN {Len(incidents[m])} ELSE {}
    BY DEF OpenIncidentIffDown
  <2>1. m \in Monitor /\ phase[m] = "live"
    BY DEF Live
  <2>2. row[m].status = "down" => Len(incidents[m]) # 0
    <3>1. row[m].status = "down" => k[m] >= FailureThreshold
      BY <1>2, <1>3, <2>1 DEF StatusAfter, FailureThreshold
    <3> QED BY <3>1, <1>1, <1>2, <1>5, <2>1, OutagesFinite
  <2>3. DOMAIN incidents[m] = 1 .. Len(incidents[m]) /\ Len(incidents[m]) \in Nat
    BY <1>5, <2>1
  <2> QED BY <2>1, <2>2, <2>3, <1>5 DEF OpenIncidents
<1>9. OneIncidentPerOutage
  BY <1>5 DEF OneIncidentPerOutage, Live
<1>10. TxSeesRow
  BY DEF StoreInit, TxSeesRow
<1>11. NewIsEmpty
  <2> SUFFICES ASSUME NEW m \in Monitor, phase[m] = "new"
               PROVE  checklogs[m] = << >> /\ incidents[m] = << >>
    BY DEF NewIsEmpty
  <2>1. checklogs[m] = << >>
    BY DEF StoreInit
  <2>2. Len(incidents[m]) = 0
    BY <2>1, <1>5, EmptyLog
  <2> QED BY <2>1, <2>2, <1>5
<1> QED BY <1>6, <1>7, <1>8, <1>9, <1>10, <1>11 DEF IInv

\* Of a monitor, IInv reads its phase, row, log, incidents and lock holder.
LEMMA CreatePreserves ==
  ASSUME IInv, NEW m \in Monitor, NEW enabled \in BOOLEAN,
         NEW interval \in Interval, NEW now \in Time,
         CreateMonitor(m, enabled, interval, now)
  PROVE  IInv'
<1> USE DEF IInv
<1>1. NewRow(enabled, interval, now) \in RowType
  BY StoreAssumption DEF NewRow, RowType, Status
<1>2. /\ phase' = [phase EXCEPT ![m] = "live"]
      /\ row' = [row EXCEPT ![m] = NewRow(enabled, interval, now)]
      /\ UNCHANGED <<checklogs, incidents, tx>>
      /\ checklogs[m] = << >> /\ incidents[m] = << >> /\ phase[m] = "new"
  BY DEF CreateMonitor, NewIsEmpty
<1>3. StoreTypeOK'
  BY <1>1, <1>2 DEF StoreTypeOK
<1>4. Live' = Live \cup {m} /\ m \notin Live
  BY <1>2 DEF Live, StoreTypeOK
<1>5. row'[m] = NewRow(enabled, interval, now) /\ \A n \in Live : row'[n] = row[n]
  BY <1>2, <1>4 DEF StoreTypeOK
<1>6. RowFollowsLog'
  BY <1>2, <1>4, <1>5, EmptyLog DEF RowFollowsLog, NewRow
<1>7. OpenIncidentIffDown'
  BY <1>2, <1>4, <1>5 DEF OpenIncidentIffDown, OpenIncidents, NewRow
<1>8. OneIncidentPerOutage'
  BY <1>2, <1>4, EmptyLog DEF OneIncidentPerOutage
<1>9. TxSeesRow'
  BY <1>2, <1>4, <1>5 DEF TxSeesRow
<1>10. NewIsEmpty'
  BY <1>2 DEF NewIsEmpty, StoreTypeOK
<1> QED BY <1>3, <1>6, <1>7, <1>8, <1>9, <1>10

\* A write that changes no runtime state of any row, and no locked row.
LEMMA ScheduleWritePreserves ==
  ASSUME IInv, row' \in [Monitor -> RowType],
         \A m \in Monitor : /\ row'[m].status = row[m].status
                            /\ row'[m].failures = row[m].failures
                            /\ row'[m].lastChecked = row[m].lastChecked,
         UNCHANGED <<phase, checklogs, incidents, tx>>
  PROVE  IInv'
<1> USE DEF IInv
<1>1. Live' = Live /\ Live \subseteq Monitor
  BY DEF Live
<1>2. StoreTypeOK'
  BY DEF StoreTypeOK
<1>3. RowFollowsLog'
  BY <1>1 DEF RowFollowsLog
<1>4. OpenIncidentIffDown'
  BY <1>1 DEF OpenIncidentIffDown, OpenIncidents
<1>5. OneIncidentPerOutage'
  BY <1>1 DEF OneIncidentPerOutage
<1>6. TxSeesRow'
  BY <1>1 DEF TxSeesRow
<1>7. NewIsEmpty'
  BY DEF NewIsEmpty
<1> QED BY <1>2, <1>3, <1>4, <1>5, <1>6, <1>7

LEMMA UpdatePreserves ==
  ASSUME IInv, NEW m \in Monitor, NEW enabled \in BOOLEAN,
         NEW interval \in Interval, UpdateMonitor(m, enabled, interval)
  PROVE  IInv'
<1>1. row' = [row EXCEPT ![m].enabled = enabled, ![m].interval = interval]
  BY DEF UpdateMonitor
<1>2. row \in [Monitor -> RowType]
  BY DEF IInv, StoreTypeOK
<1>3. row' \in [Monitor -> RowType]
  BY <1>1, <1>2 DEF RowType
<1>4. \A n \in Monitor : /\ row'[n].status = row[n].status
                         /\ row'[n].failures = row[n].failures
                         /\ row'[n].lastChecked = row[n].lastChecked
  BY <1>1, <1>2 DEF RowType
<1> QED BY <1>3, <1>4, ScheduleWritePreserves DEF UpdateMonitor

LEMMA ClaimPreserves ==
  ASSUME IInv, NEW now \in Time, ClaimDueMonitors(now)
  PROVE  IInv'
<1>1. PICK S \in ClaimSets(now) : ClaimRows(S, now)
  BY DEF ClaimDueMonitors
<1>2. row' = [m \in Monitor |->
                IF m \in S THEN [row[m] EXCEPT !.nextCheck = now + row[m].interval]
                ELSE row[m]]
  BY <1>1 DEF ClaimRows
<1>3. row \in [Monitor -> RowType]
  BY DEF IInv, StoreTypeOK
<1>4. \A m \in Monitor : now + row[m].interval \in Nat
  <2> TAKE m \in Monitor
  <2>1. row[m] \in RowType
    BY <1>3
  <2>2. row[m].interval \in Interval
    BY <2>1 DEF RowType
  <2>3. row[m].interval \in Nat /\ now \in Nat
    BY <2>2, StoreAssumption
  <2> QED BY <2>3
<1>5. row' \in [Monitor -> RowType]
  BY <1>2, <1>3, <1>4 DEF RowType
<1>6. \A n \in Monitor : /\ row'[n].status = row[n].status
                         /\ row'[n].failures = row[n].failures
                         /\ row'[n].lastChecked = row[n].lastChecked
  BY <1>2, <1>3 DEF RowType
<1> QED BY <1>1, <1>5, <1>6, ScheduleWritePreserves DEF ClaimRows

LEMMA DeletePreserves ==
  ASSUME IInv, NEW m \in Monitor, DeleteMonitor(m)
  PROVE  IInv'
<1> USE DEF IInv
<1>1. /\ phase' = [phase EXCEPT ![m] = "deleted"]
      /\ row' = [row EXCEPT ![m] = BlankRow]
      /\ checklogs' = [checklogs EXCEPT ![m] = << >>]
      /\ incidents' = [incidents EXCEPT ![m] = << >>]
      /\ tx' = tx
      /\ ~ Locked(m)
  BY DEF DeleteMonitor
<1>2. Interval # {}
  <2>1. row[m] \in RowType
    BY DEF StoreTypeOK
  <2>2. row[m].interval \in Interval
    BY <2>1 DEF RowType
  <2> QED BY <2>2
<1>3. StoreTypeOK'
  <2>1. phase' \in [Monitor -> {"new", "live", "deleted"}]
    BY <1>1 DEF StoreTypeOK
  <2>2. row' \in [Monitor -> RowType]
    BY <1>1, <1>2, BlankRowType DEF StoreTypeOK
  <2>3. /\ checklogs' \in [Monitor -> Seq([outcome : Outcome, at : Time])]
        /\ incidents' \in [Monitor -> Seq({"open", "resolved"})]
    <3> DEFINE L == Seq([outcome : Outcome, at : Time])
               I == Seq({"open", "resolved"})
    <3>1. << >> \in L /\ << >> \in I
      OBVIOUS
    <3>2. checklogs \in [Monitor -> L] /\ incidents \in [Monitor -> I]
      BY DEF StoreTypeOK
    <3> HIDE DEF L, I
    <3>3. checklogs' \in [Monitor -> L] /\ incidents' \in [Monitor -> I]
      BY <1>1, <3>1, <3>2
    <3> QED BY <3>3 DEF L, I
  <2> QED BY <2>1, <2>2, <2>3, <1>1 DEF StoreTypeOK
<1>4. Live' = Live \ {m}
  BY <1>1 DEF Live, StoreTypeOK
<1>5. \A n \in Live' : /\ row'[n] = row[n] /\ checklogs'[n] = checklogs[n]
                       /\ incidents'[n] = incidents[n] /\ n \in Live
  BY <1>1, <1>4 DEF StoreTypeOK, Live
<1>6. RowFollowsLog'
  BY <1>5 DEF RowFollowsLog
<1>7. OpenIncidentIffDown'
  BY <1>5 DEF OpenIncidentIffDown, OpenIncidents
<1>8. OneIncidentPerOutage'
  BY <1>5 DEF OneIncidentPerOutage
<1>9. TxSeesRow'
  BY <1>1, <1>4, <1>5 DEF TxSeesRow, Locked
<1>10. NewIsEmpty'
  BY <1>1 DEF NewIsEmpty, StoreTypeOK
<1> QED BY <1>3, <1>6, <1>7, <1>8, <1>9, <1>10

LEMMA BeginPreserves ==
  ASSUME IInv, NEW p \in Process, NEW m \in Monitor, NEW outcome \in Outcome,
         NEW at \in Time, ApplyBegin(p, m, outcome, at)
  PROVE  IInv'
<1> USE DEF IInv
<1> DEFINE t == [monitor |-> m, status |-> row[m].status,
                 failures |-> row[m].failures, outcome |-> outcome, at |-> at]
<1>1. /\ tx' = [tx EXCEPT ![p] = t]
      /\ UNCHANGED <<phase, row, checklogs, incidents>>
      /\ m \in Live /\ ~ Locked(m) /\ tx[p] = None
  BY DEF ApplyBegin
<1>2. t \in TxType
  BY DEF TxType, StoreTypeOK, RowType
<1>3. StoreTypeOK'
  BY <1>1, <1>2 DEF StoreTypeOK
<1>4. Live' = Live
  BY <1>1 DEF Live
<1>5. RowFollowsLog' /\ OpenIncidentIffDown' /\ OneIncidentPerOutage' /\ NewIsEmpty'
  BY <1>1, <1>4 DEF RowFollowsLog, OpenIncidentIffDown, OneIncidentPerOutage,
                    NewIsEmpty, OpenIncidents
<1>6. TxSeesRow'
  <2>1. tx'[p] = t /\ \A q \in Process : q # p => tx'[q] = tx[q]
    BY <1>1 DEF StoreTypeOK
  <2>2. t.monitor = m /\ t.status = row[m].status /\ t.failures = row[m].failures
    OBVIOUS
  <2> HIDE DEF t
  <2> QED BY <2>1, <2>2, <1>1, <1>4 DEF TxSeesRow, Locked
<1> QED BY <1>3, <1>5, <1>6

\* The end of some transactions without effect.
LEMMA EndTxPreserves ==
  ASSUME IInv, tx' \in [Process -> TxType \cup {None}],
         \A p \in Process : tx'[p] # None => tx'[p] = tx[p],
         UNCHANGED <<phase, row, checklogs, incidents>>
  PROVE  IInv'
<1> USE DEF IInv
<1>1. Live' = Live
  BY DEF Live
<1>2. StoreTypeOK'
  BY DEF StoreTypeOK
<1>3. RowFollowsLog' /\ OpenIncidentIffDown' /\ OneIncidentPerOutage' /\ NewIsEmpty'
  BY <1>1 DEF RowFollowsLog, OpenIncidentIffDown, OneIncidentPerOutage,
              NewIsEmpty, OpenIncidents
<1>4. TxSeesRow'
  BY <1>1 DEF TxSeesRow
<1> QED BY <1>2, <1>3, <1>4

LEMMA CommitPreserves ==
  ASSUME IInv, NEW p \in Process, ApplyCommit(p)
  PROVE  IInv'
<1> USE DEF IInv
<1>0. PICK t, m : t = tx[p] /\ m = t.monitor
  OBVIOUS
<1> DEFINE x == [outcome |-> t.outcome, at |-> t.at]
           log == checklogs[m]
           k == row[m].failures
           next == Transition(t)
<1>1. /\ t \in TxType
      /\ m \in Monitor /\ m \in Live /\ phase[m] = "live"
      /\ t.status = row[m].status /\ t.failures = k
  BY <1>0, NoneIsNoTx DEF ApplyCommit, StoreTypeOK, TxSeesRow, TxType, Live
<1>2. /\ checklogs' = [checklogs EXCEPT ![m] = Append(@, x)]
      /\ row' = [row EXCEPT ![m].status = next.status,
                            ![m].failures = next.failures,
                            ![m].lastChecked = t.at]
      /\ incidents' = [incidents EXCEPT ![m] = IncidentsAfterEvent(next.event, @)]
      /\ tx' = [tx EXCEPT ![p] = None]
      /\ phase' = phase
  BY <1>0 DEF ApplyCommit
<1>3. /\ log \in Seq(Result) /\ x \in Result /\ k \in Nat /\ IsStreak(log, k)
      /\ row[m].status = StatusAfter(log, k) /\ row[m] \in RowType
      /\ incidents[m] \in Seq({"open", "resolved"})
  BY <1>1 DEF StoreTypeOK, RowFollowsLog, Result, TxType, RowType
<1>4. next = evaluateStateTransition(StatusAfter(log, k), k, x.outcome)
  BY <1>1, <1>3 DEF Transition
<1> HIDE DEF next
<1>5. /\ next.failures \in Nat /\ next.status \in Status
      /\ IsStreak(Append(log, x), next.failures)
      /\ next.status = StatusAfter(Append(log, x), next.failures)
      /\ next.event = "down" <=> (~ Success(x.outcome) /\ k = 2)
      /\ next.event = "recovered" <=> (Success(x.outcome) /\ k >= 3)
      /\ next.event \in EventType
  BY <1>3, <1>4, TransitionFollowsLog
<1>6. /\ checklogs'[m] = Append(log, x)
      /\ row'[m] = [row[m] EXCEPT !.status = next.status, !.failures = next.failures,
                                  !.lastChecked = t.at]
      /\ incidents'[m] = IncidentsAfterEvent(next.event, incidents[m])
      /\ \A n \in Monitor : n # m => /\ checklogs'[n] = checklogs[n]
                                     /\ row'[n] = row[n]
                                     /\ incidents'[n] = incidents[n]
  BY <1>1, <1>2 DEF StoreTypeOK
<1>7. /\ row'[m].status = next.status /\ row'[m].failures = next.failures
      /\ row'[m].lastChecked = t.at
      /\ row'[m] \in RowType
  <2>1. t.at \in Nat
    BY <1>1, StoreAssumption DEF TxType
  <2> QED BY <2>1, <1>3, <1>5, <1>6 DEF RowType
<1>8. Live' = Live
  BY <1>2 DEF Live
<1>9. /\ row[m].status = "down" <=> k >= 3
      /\ next.status = "down" <=> next.failures >= 3
  BY <1>3, <1>5 DEF StatusAfter, FailureThreshold
<1>10. /\ next.failures = IF Success(x.outcome) THEN 0 ELSE k + 1
  BY <1>4 DEF evaluateStateTransition
<1>11. OpenIncidents(m) = IF row[m].status = "down" THEN {Len(incidents[m])} ELSE {}
  BY <1>1 DEF OpenIncidentIffDown
<1>12. /\ incidents'[m] \in Seq({"open", "resolved"})
       /\ Len(incidents'[m]) = Len(incidents[m]) + (IF next.event = "down" THEN 1 ELSE 0)
       /\ OpenIncidents(m)' =
            IF row'[m].status = "down" THEN {Len(incidents'[m])} ELSE {}
  <2> DEFINE inc == incidents[m]
  <2>1. inc \in Seq({"open", "resolved"}) /\ Len(inc) \in Nat /\ DOMAIN inc = 1 .. Len(inc)
    BY <1>3
  <2>2. /\ OpenIncidents(m) = {i \in DOMAIN inc : inc[i] = "open"}
        /\ OpenIncidents(m)' = {i \in DOMAIN incidents'[m] : incidents'[m][i] = "open"}
    BY DEF OpenIncidents
  <2> HIDE DEF inc
  <2>3. CASE next.event = "down"
    <3>1. incidents'[m] = Append(inc, "open")
      BY <2>3, <1>6 DEF IncidentsAfterEvent, inc
    <3>2. k = 2 /\ row'[m].status = "down" /\ OpenIncidents(m) = {}
      BY <2>3, <1>3, <1>5, <1>7, <1>9, <1>10, <1>11
    <3> QED BY <2>1, <2>2, <2>3, <3>1, <3>2 DEF inc
  <2>4. CASE next.event = "recovered"
    <3>1. incidents'[m] = [i \in DOMAIN inc |-> "resolved"]
      BY <2>4, <1>6 DEF IncidentsAfterEvent, inc
    <3>2. row'[m].status # "down"
      BY <2>4, <1>5, <1>7, <1>9, <1>10
    <3> QED BY <2>1, <2>2, <2>4, <3>1, <3>2 DEF inc
  <2>5. CASE next.event = "none"
    <3>1. incidents'[m] = inc
      BY <2>5, <1>6 DEF IncidentsAfterEvent, inc
    <3>2. row'[m].status = "down" <=> row[m].status = "down"
      BY <2>5, <1>3, <1>5, <1>7, <1>9, <1>10
    <3> QED BY <2>1, <2>2, <2>5, <3>1, <3>2, <1>11 DEF inc
  <2> QED BY <2>3, <2>4, <2>5, <1>5 DEF EventType
<1>13. Cardinality(OutageStarts(checklogs'[m])) =
         Cardinality(OutageStarts(log)) + (IF next.event = "down" THEN 1 ELSE 0)
  <2>1. /\ log \in Seq(Result) /\ x \in Result
        /\ k \in Nat /\ IsStreak(log, k)
    BY <1>3
  <2>2. checklogs'[m] = Append(log, x)
    BY <1>6
  <2> HIDE DEF log, x, k
  <2>3. OutageStarts(Append(log, x)) =
          IF ~ Success(x.outcome) /\ k = 2
          THEN OutageStarts(log) \cup {Len(log) + 1} ELSE OutageStarts(log)
    BY <2>1, OutageAppend
  <2>4. next.event = "down" <=> ~ Success(x.outcome) /\ k = 2
    BY <1>5
  <2>5. CASE next.event = "down"
    <3>1. OutageStarts(checklogs'[m]) = OutageStarts(log) \cup {Len(log) + 1}
      BY <2>5, <2>2, <2>3, <2>4
    <3>2. Len(log) + 1 \notin OutageStarts(log)
      BY <2>1 DEF OutageStarts, FailureThreshold
    <3>3. IsFiniteSet(OutageStarts(log))
      BY <2>1, OutagesFinite
    <3> QED BY <2>5, <3>1, <3>2, <3>3, FS_AddElement
  <2>6. CASE next.event # "down"
    <3>1. OutageStarts(checklogs'[m]) = OutageStarts(log)
      BY <2>6, <2>2, <2>3, <2>4
    <3> QED BY <2>6, <3>1, <2>1, OutagesFinite
  <2> QED BY <2>5, <2>6
<1> HIDE DEF x, log, k
<1>14. StoreTypeOK'
  <2>1. checklogs' \in [Monitor -> Seq(Result)]
    <3>1. Append(log, x) \in Seq(Result)
      BY <1>3
    <3>2. checklogs \in [Monitor -> Seq(Result)]
      BY DEF StoreTypeOK, Result
    <3> QED BY <3>1, <3>2, <1>2 DEF log
  <2>2. row' \in [Monitor -> RowType]
    BY <1>2, <1>6, <1>7 DEF StoreTypeOK
  <2>3. incidents' \in [Monitor -> Seq({"open", "resolved"})]
    BY <1>2, <1>6, <1>12 DEF StoreTypeOK
  <2>4. tx' \in [Process -> TxType \cup {None}]
    BY <1>2 DEF StoreTypeOK
  <2> QED BY <2>1, <2>2, <2>3, <2>4, <1>2 DEF StoreTypeOK, Result
<1>15. RowFollowsLog'
  <2>1. Append(log, x) # << >> /\ Append(log, x)[Len(Append(log, x))] = x
    BY <1>3
  <2>2. x.at = t.at
    BY DEF x
  <2>3. ASSUME NEW n \in Live
        PROVE  /\ IsStreak(checklogs'[n], row'[n].failures)
               /\ row'[n].status = StatusAfter(checklogs'[n], row'[n].failures)
               /\ row'[n].lastChecked =
                    IF checklogs'[n] = << >> THEN Never
                    ELSE checklogs'[n][Len(checklogs'[n])].at
    <3>1. CASE n = m
      BY <3>1, <2>1, <2>2, <1>5, <1>6, <1>7
    <3>2. CASE n # m
      BY <3>2, <1>6 DEF Live, RowFollowsLog
    <3> QED BY <3>1, <3>2
  <2> QED BY <2>3, <1>8 DEF RowFollowsLog
<1>16. OpenIncidentIffDown'
  <2>1. ASSUME NEW n \in Live
        PROVE  OpenIncidents(n)' =
                 IF row'[n].status = "down" THEN {Len(incidents'[n])} ELSE {}
    <3>1. CASE n = m
      BY <3>1, <1>12
    <3>2. CASE n # m
      BY <3>2, <1>6 DEF Live, OpenIncidentIffDown, OpenIncidents
    <3> QED BY <3>1, <3>2
  <2> QED BY <2>1, <1>8 DEF OpenIncidentIffDown
<1>17. OneIncidentPerOutage'
  <2>1. ASSUME NEW n \in Live
        PROVE  Len(incidents'[n]) = Cardinality(OutageStarts(checklogs'[n]))
    <3>1. CASE n = m
      BY <3>1, <1>12, <1>13 DEF OneIncidentPerOutage, log
    <3>2. CASE n # m
      BY <3>2, <1>6 DEF Live, OneIncidentPerOutage
    <3> QED BY <3>1, <3>2
  <2> QED BY <2>1, <1>8 DEF OneIncidentPerOutage
<1>18. TxSeesRow'
  <2>1. ASSUME NEW q \in Process, tx'[q] # None
        PROVE  q # p /\ tx'[q] = tx[q] /\ tx[q].monitor # m /\ tx[q].monitor \in Monitor
    BY <1>0, <1>2, <2>1, <1>1 DEF StoreTypeOK, TxSeesRow, Live, ApplyCommit
  <2> QED BY <2>1, <1>6, <1>8 DEF TxSeesRow
<1>19. NewIsEmpty'
  BY <1>1, <1>2, <1>6 DEF NewIsEmpty
<1> QED BY <1>14, <1>15, <1>16, <1>17, <1>18, <1>19

LEMMA StepPreserves == IInv /\ [StoreNext]_storeVars => IInv'
<1> SUFFICES ASSUME IInv, [StoreNext]_storeVars PROVE IInv'
  OBVIOUS
<1>1. CASE ApiStep
  BY <1>1, CreatePreserves, UpdatePreserves, DeletePreserves DEF ApiStep
<1>2. CASE ClaimStep
  BY <1>2, ClaimPreserves DEF ClaimStep
<1>3. CASE ApplyStep
  <2>1. ASSUME NEW p \in Process, NEW m \in Monitor, NEW outcome \in Outcome,
               NEW at \in Time, ApplyBegin(p, m, outcome, at)
        PROVE  IInv'
    BY <2>1, BeginPreserves
  <2>2. ASSUME NEW p \in Process, ApplyCommit(p)
        PROVE  IInv'
    BY <2>2, CommitPreserves
  <2>3. ASSUME NEW p \in Process, ApplyRollback(p)
        PROVE  IInv'
    BY <2>3, EndTxPreserves DEF ApplyRollback, IInv, StoreTypeOK
  <2> QED BY <1>3, <2>1, <2>2, <2>3 DEF ApplyStep
<1>4. CASE Disconnect
  BY <1>4, EndTxPreserves DEF Disconnect
<1>5. CASE UNCHANGED storeVars
  BY <1>5, EndTxPreserves DEF storeVars, IInv, StoreTypeOK
<1> QED BY <1>1, <1>2, <1>3, <1>4, <1>5 DEF StoreNext

-----------------------------------------------------------------------------
(* The theorems. *)

\* The tables satisfy the inductive invariant, whoever writes them and in
\* whatever order.
THEOREM StoreInvariant == StoreSpec => []IInv
<1>1. StoreInit => IInv
  BY InitIInv
<1>2. IInv /\ [StoreNext]_storeVars => IInv'
  BY StepPreserves
<1> QED BY <1>1, <1>2, PTL DEF StoreSpec

\* Type correctness of the tables.
THEOREM StoreTypeCorrect == StoreSpec => []StoreTypeOK
<1>1. IInv => StoreTypeOK
  BY DEF IInv
<1> QED BY <1>1, StoreInvariant, PTL

\* No update is lost: FOR UPDATE makes the row the summary of the whole log.
THEOREM NoLostUpdate == StoreSpec => []RowFollowsLog
<1>1. IInv => RowFollowsLog
  BY DEF IInv
<1> QED BY <1>1, StoreInvariant, PTL

\* The status column and the incidents table agree.
THEOREM StatusAgreesWithIncidents == StoreSpec => []OpenIncidentIffDown
<1>1. IInv => OpenIncidentIffDown
  BY DEF IInv
<1> QED BY <1>1, StoreInvariant, PTL

\* Three failures in a row open one incident, and only they do.
THEOREM IncidentsCountOutages == StoreSpec => []OneIncidentPerOutage
<1>1. IInv => OneIncidentPerOutage
  BY DEF IInv
<1> QED BY <1>1, StoreInvariant, PTL

\* The unique index never refuses a commit, and a recovery has something to
\* resolve.
THEOREM IndexNeverRefuses == StoreSpec => []TransitionFitsIncidents
<1>1. IInv => TransitionFitsIncidents
  <2> SUFFICES ASSUME IInv, NEW p \in Process, tx[p] # None
               PROVE  LET open == Cardinality(OpenIncidents(tx[p].monitor))
                      IN  /\ Transition(tx[p]).event = "down" => open = 0
                          /\ Transition(tx[p]).event = "recovered" => open = 1
    BY DEF TransitionFitsIncidents
  <2> DEFINE m == tx[p].monitor
  <2>1. /\ m \in Live /\ tx[p].status = row[m].status
        /\ OpenIncidents(m) = IF row[m].status = "down" THEN {Len(incidents[m])} ELSE {}
    BY DEF IInv, TxSeesRow, OpenIncidentIffDown
  <2>2. /\ Transition(tx[p]).event = "down" => tx[p].status # "down"
        /\ Transition(tx[p]).event = "recovered" => tx[p].status = "down"
    BY DEF Transition, evaluateStateTransition
  <2>3. Cardinality({}) = 0 /\ Cardinality({Len(incidents[m])}) = 1
    BY FS_EmptySet, FS_Singleton
  <2> QED BY <2>1, <2>2, <2>3
<1> QED BY <1>1, StoreInvariant, PTL
-----------------------------------------------------------------------------
(* The tables keep the promise of TargetHealth. *)

\* Of the incidents of a monitor all but the open one are resolved.
LEMMA ResolvedCount ==
  ASSUME IInv, NEW m \in Live
  PROVE  /\ Cardinality(Resolved(m)) \in Nat
         /\ Len(incidents[m]) = Cardinality(Resolved(m))
                                + (IF row[m].status = "down" THEN 1 ELSE 0)
<1> DEFINE n == Len(incidents[m])
<1>1. /\ incidents[m] \in Seq({"open", "resolved"}) /\ n \in Nat
      /\ DOMAIN incidents[m] = 1 .. n
      /\ \A i \in 1 .. n : incidents[m][i] \in {"open", "resolved"}
  BY DEF IInv, StoreTypeOK, Live
<1>2. Resolved(m) = (1 .. n) \ OpenIncidents(m)
  BY <1>1 DEF Resolved, OpenIncidents
<1>3. OpenIncidents(m) = IF row[m].status = "down" THEN {n} ELSE {}
  BY DEF IInv, OpenIncidentIffDown
<1> HIDE DEF n
<1>4. IsFiniteSet(1 .. n) /\ Cardinality(1 .. n) = n
  BY <1>1, FS_Interval
<1>5. CASE row[m].status = "down"
  <2>1. n \in 1 .. n
    BY <1>1, <1>3, <1>5 DEF OpenIncidents
  <2>2. Resolved(m) = (1 .. n) \ {n}
    BY <1>2, <1>3, <1>5
  <2>3. Cardinality(Resolved(m)) = n - 1
    BY <1>4, <2>1, <2>2, FS_RemoveElement
  <2> QED BY <1>1, <1>5, <2>1, <2>3 DEF n
<1>6. CASE row[m].status # "down"
  <2>1. Resolved(m) = 1 .. n
    BY <1>2, <1>3, <1>6
  <2> QED BY <1>1, <1>4, <1>6, <2>1 DEF n
<1> QED BY <1>5, <1>6

LEMMA NothingResolved ==
  ASSUME NEW m, incidents[m] = << >>
  PROVE  Cardinality(Resolved(m)) = 0
<1>1. Resolved(m) = {}
  BY DEF Resolved
<1> QED BY <1>1, FS_EmptySet

LEMMA InitHealth == StoreInit => Health!HealthInit
<1> SUFFICES ASSUME StoreInit PROVE Health!HealthInit
  OBVIOUS
<1>1. IInv /\ phase \in [Monitor -> {"new", "live"}]
  BY InitIInv DEF StoreInit
<1>2. ASSUME NEW m \in Monitor
      PROVE  /\ HealthOf(m) \in {"absent", "unknown", "up", "down"}
             /\ Len(incidents[m]) \in Nat /\ Cardinality(Resolved(m)) \in Nat
             /\ Len(incidents[m]) = Cardinality(Resolved(m))
                                    + (IF HealthOf(m) = "down" THEN 1 ELSE 0)
             /\ HealthOf(m) \in {"absent", "unknown", "removed"} => Len(incidents[m]) = 0
  <2>1. CASE phase[m] = "new"
    <3>1. incidents[m] = << >> /\ HealthOf(m) = "absent"
      BY <1>1, <2>1 DEF IInv, NewIsEmpty, HealthOf
    <3>2. Cardinality(Resolved(m)) = 0 /\ Len(incidents[m]) = 0
      BY <3>1, NothingResolved
    <3> QED BY <3>1, <3>2
  <2>2. CASE phase[m] = "live"
    <3>1. m \in Live /\ HealthOf(m) = row[m].status /\ row[m].status \in Status
      BY <1>1, <2>2 DEF Live, HealthOf, IInv, StoreTypeOK, RowType
    <3>2. Len(incidents[m]) \in Nat
      BY <1>1 DEF IInv, StoreTypeOK
    <3>3. row[m].status = "unknown" => Len(incidents[m]) = 0
      <4> DEFINE log == checklogs[m]
                 k == row[m].failures
      <4>1. log \in Seq(Result) /\ IsStreak(log, k) /\ row[m].status = StatusAfter(log, k)
        BY <1>1, <3>1 DEF IInv, StoreTypeOK, RowFollowsLog, Result
      <4>2. row[m].status = "unknown" => Len(log) < FailureThreshold
        BY <4>1 DEF StatusAfter, IsStreak, FailureThreshold
      <4>3. row[m].status = "unknown" => OutageStarts(log) = {}
        BY <4>1, <4>2 DEF OutageStarts, FailureThreshold
      <4> QED BY <1>1, <3>1, <4>3, FS_EmptySet DEF IInv, OneIncidentPerOutage
    <3> QED BY <1>1, <3>1, <3>2, <3>3, ResolvedCount DEF Status
  <2> QED BY <1>1, <2>1, <2>2
<1> QED BY <1>2 DEF Health!HealthInit, Health!Consistent

\* A step that changes neither the health nor the incidents of a monitor.
LEMMA HealthStutters ==
  ASSUME IInv,
         \A m \in Monitor : HealthOf(m)' = HealthOf(m) /\ incidents'[m] = incidents[m]
  PROVE  UNCHANGED Health!healthVars
<1>1. \A m \in Monitor : Cardinality(Resolved(m))' = Cardinality(Resolved(m))
  BY DEF Resolved
<1> QED BY <1>1 DEF Health!healthVars

LEMMA HealthStep == IInv /\ [StoreNext]_storeVars => [Health!HealthNext]_Health!healthVars
<1> SUFFICES ASSUME IInv, [StoreNext]_storeVars
             PROVE  [Health!HealthNext]_Health!healthVars
  OBVIOUS
<1> USE DEF IInv
<1>1. ASSUME UNCHANGED <<phase, incidents>>,
             \A m \in Monitor : row'[m].status = row[m].status
      PROVE  UNCHANGED Health!healthVars
  BY <1>1, HealthStutters DEF HealthOf
<1>2. ASSUME NEW m \in Monitor, NEW enabled \in BOOLEAN, NEW interval \in Interval,
             NEW now \in Time, CreateMonitor(m, enabled, interval, now)
      PROVE  Health!Added(m)
  <2>1. /\ HealthOf(m) = "absent" /\ HealthOf(m)' = "unknown"
        /\ \A n \in Monitor \ {m} : HealthOf(n)' = HealthOf(n)
        /\ incidents' = incidents
    BY <1>2 DEF CreateMonitor, HealthOf, StoreTypeOK, NewRow
  <2>2. \A n \in Monitor : Cardinality(Resolved(n))' = Cardinality(Resolved(n))
    BY <2>1 DEF Resolved
  <2> QED BY <2>1, <2>2 DEF Health!Added, Health!Move
<1>3. ASSUME NEW m \in Monitor, DeleteMonitor(m)
      PROVE  Health!Removed(m)
  <2>1. /\ HealthOf(m) \in {"unknown", "up", "down"} /\ HealthOf(m)' = "removed"
        /\ incidents'[m] = << >>
        /\ \A n \in Monitor \ {m} : HealthOf(n)' = HealthOf(n) /\ incidents'[n] = incidents[n]
    BY <1>3 DEF DeleteMonitor, HealthOf, StoreTypeOK, RowType, Status, Live
  <2>2. \A n \in Monitor \ {m} : Cardinality(Resolved(n))' = Cardinality(Resolved(n))
    BY <2>1 DEF Resolved
  <2>3. Cardinality(Resolved(m))' = 0 /\ Len(incidents'[m]) = 0
    <3>1. Resolved(m)' = {}
      BY <2>1 DEF Resolved
    <3> QED BY <2>1, <3>1, FS_EmptySet
  <2> QED BY <2>1, <2>2, <2>3 DEF Health!Removed, Health!Move
<1>4. ASSUME NEW p \in Process, ApplyCommit(p)
      PROVE  [Health!HealthNext]_Health!healthVars
  <2>1. PICK m, next : m = tx[p].monitor /\ next = Transition(tx[p])
    OBVIOUS
  <2>2. /\ m \in Live /\ m \in Monitor /\ phase' = phase
        /\ tx[p].status = row[m].status /\ row[m].status \in Status
    BY <1>4, <2>1 DEF ApplyCommit, TxSeesRow, Live, StoreTypeOK, RowType
  <2>3. /\ row'[m].status = next.status
        /\ incidents'[m] = IncidentsAfterEvent(next.event, incidents[m])
        /\ \A n \in Monitor \ {m} : row'[n] = row[n] /\ incidents'[n] = incidents[n]
    BY <1>4, <2>1, <2>2 DEF ApplyCommit, StoreTypeOK, RowType
  <2>4. /\ HealthOf(m) = row[m].status /\ HealthOf(m)' = next.status
        /\ \A n \in Monitor \ {m} : HealthOf(n)' = HealthOf(n)
    BY <2>2, <2>3 DEF HealthOf, Live
  <2>5. \A n \in Monitor \ {m} : Cardinality(Resolved(n))' = Cardinality(Resolved(n))
    BY <2>3 DEF Resolved
  <2>6. /\ Cardinality(Resolved(m)) \in Nat
        /\ Len(incidents[m]) = Cardinality(Resolved(m))
                               + (IF row[m].status = "down" THEN 1 ELSE 0)
    BY <2>2, ResolvedCount
  <2>7. incidents[m] \in Seq({"open", "resolved"})
    BY <2>2 DEF StoreTypeOK
  <2>8. \/ next.event = "none" /\ next.status = row[m].status
        \/ next.event = "none" /\ row[m].status = "unknown" /\ next.status = "up"
        \/ next.event = "down" /\ row[m].status \in {"unknown", "up"} /\ next.status = "down"
        \/ next.event = "recovered" /\ row[m].status = "down" /\ next.status = "up"
    BY <2>1, <2>2 DEF Transition, evaluateStateTransition, Status
  <2>9. /\ next.event = "none" => incidents'[m] = incidents[m]
        /\ next.event = "down" => Len(incidents'[m]) = Len(incidents[m]) + 1
        /\ next.event = "recovered" => Len(incidents'[m]) = Len(incidents[m])
    BY <2>3, <2>7 DEF IncidentsAfterEvent
  <2>10. CASE next.event = "none" /\ next.status = row[m].status
    BY <2>3, <2>4, <2>9, <2>10, HealthStutters
  <2>11. CASE next.event = "none" /\ row[m].status = "unknown" /\ next.status = "up"
    <3>1. \A n \in Monitor : /\ incidents'[n] = incidents[n]
                             /\ Cardinality(Resolved(n))' = Cardinality(Resolved(n))
      BY <2>3, <2>9, <2>11 DEF Resolved
    <3>2. Health!Answers(m)
      BY <2>2, <2>4, <2>11, <3>1 DEF Health!Answers, Health!Move
    <3> QED BY <2>2, <3>2 DEF Health!HealthNext
  <2>12. CASE next.event = "down" /\ row[m].status \in {"unknown", "up"} /\ next.status = "down"
    <3>1. /\ Len(incidents'[m]) = Len(incidents[m]) + 1
          /\ Cardinality(Resolved(m))' = Cardinality(Resolved(m))
      <4>1. incidents'[m] = Append(incidents[m], "open")
        BY <2>3, <2>12 DEF IncidentsAfterEvent
      <4>2. Resolved(m)' = Resolved(m)
        BY <2>7, <4>1 DEF Resolved
      <4> QED BY <2>9, <2>12, <4>2
    <3>2. \A n \in Monitor : Cardinality(Resolved(n))' = Cardinality(Resolved(n))
      BY <2>5, <3>1
    <3>3. Health!Falls(m)
      BY <2>2, <2>3, <2>4, <2>12, <3>1, <3>2 DEF Health!Falls, Health!Move
    <3> QED BY <2>2, <3>3 DEF Health!HealthNext
  <2>13. CASE next.event = "recovered" /\ row[m].status = "down" /\ next.status = "up"
    <3>1. /\ Len(incidents'[m]) = Len(incidents[m])
          /\ Cardinality(Resolved(m))' = Cardinality(Resolved(m)) + 1
      <4>1. incidents'[m] = [i \in DOMAIN incidents[m] |-> "resolved"]
        BY <2>3, <2>13 DEF IncidentsAfterEvent
      <4>2. Resolved(m)' = 1 .. Len(incidents[m])
        BY <2>7, <4>1 DEF Resolved
      <4>3. Cardinality(Resolved(m))' = Len(incidents[m])
        BY <2>7, <4>2, FS_Interval
      <4> QED BY <2>6, <2>9, <2>13, <4>3
    <3>2. \A n \in Monitor : Len(incidents'[n]) = Len(incidents[n])
      BY <2>3, <3>1
    <3>3. Health!Recovers(m)
      BY <2>2, <2>4, <2>5, <2>13, <3>1, <3>2 DEF Health!Recovers, Health!Move
    <3> QED BY <2>2, <3>3 DEF Health!HealthNext
  <2> QED BY <2>8, <2>10, <2>11, <2>12, <2>13
<1>5. ASSUME NEW m \in Monitor, NEW enabled \in BOOLEAN, NEW interval \in Interval,
             UpdateMonitor(m, enabled, interval)
      PROVE  UNCHANGED Health!healthVars
  BY <1>1, <1>5 DEF UpdateMonitor, StoreTypeOK, RowType
<1>6. ASSUME NEW now \in Time, ClaimDueMonitors(now)
      PROVE  UNCHANGED Health!healthVars
  BY <1>1, <1>6 DEF ClaimDueMonitors, ClaimRows, StoreTypeOK, RowType
<1>7. ASSUME UNCHANGED <<phase, row, checklogs, incidents>>
      PROVE  UNCHANGED Health!healthVars
  BY <1>1, <1>7
<1> QED BY <1>2, <1>3, <1>4, <1>5, <1>6, <1>7
        DEF StoreNext, ApiStep, ClaimStep, ApplyStep, ApplyBegin, ApplyRollback, Disconnect,
            storeVars, Health!HealthNext

\* The owner of a target sees it fall and recover in single steps, each with
\* its incident: the three tables with their transactions implement that.
THEOREM StoreKeepsHealth == StoreSpec => HealthIsKept
BY InitHealth, HealthStep, StoreInvariant, PTL DEF StoreSpec, HealthIsKept, Health!HealthSpec
=============================================================================
