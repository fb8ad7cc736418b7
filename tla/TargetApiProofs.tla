-------------------------- MODULE TargetApiProofs ----------------------------
(***************************************************************************)
(* Theorems about TargetApi, for any number of calls in flight, of targets *)
(* and of connections of the worker, and ints of any width: the API uses   *)
(* the tables as MonitorStore says, a PATCH keeps the fields it was not    *)
(* given, the pages of a list skip no row, and the statistics differ from  *)
(* their timeline by later checks and by what a full timeline leaves out.  *)
(***************************************************************************)
EXTENDS TargetApi, MonitorStoreProofs

-----------------------------------------------------------------------------
(* Lists: what a reading call k sees of the tables. *)

\* The queries of a call are about targets, or about one target's checks.
Asks(k) ==
  /\ k \in ReadCall
  /\ k.op # "targets" => k.of \in Monitor

LEMMA LogRows ==
  ASSUME IInv, NEW k, Asks(k), k.op # "targets"
  PROVE  /\ checklogs[k.of] \in Seq(Result)
         /\ RowsOf(k) = {i \in 1 .. Len(checklogs[k.of]) :
                           checklogs[k.of][i].at \in k.window}
         /\ \A i \in 1 .. Len(checklogs[k.of]) : checklogs[k.of][i].at \in Nat
<1>1. k.of \in Monitor
  BY DEF Asks
<1>2. PICK log : log = checklogs[k.of]
  OBVIOUS
<1>3. log \in Seq(Result)
  BY <1>1, <1>2 DEF IInv, StoreTypeOK, Result
<1>4. \A i \in 1 .. Len(log) : log[i] \in Result
  BY <1>3
<1>5. \A i \in 1 .. Len(log) : log[i].at \in Nat
  BY <1>4, StoreAssumption DEF Result
<1> QED BY <1>2, <1>3, <1>5 DEF RowsOf

LEMMA RowsFinite ==
  ASSUME IInv, NEW k, Asks(k)
  PROVE  /\ IsFiniteSet(RowsOf(k)) /\ Cardinality(RowsOf(k)) \in Nat
         /\ RowsOf(k) \subseteq Nat
<1>1. CASE k.op = "targets"
  <2>1. RowsOf(k) \in SUBSET Monitor
    BY <1>1 DEF RowsOf, Live
  <2>2. IsFiniteSet(Monitor) /\ Monitor \subseteq Nat
    BY TargetAssumption
  <2>3. IsFiniteSet(RowsOf(k))
    BY <2>1, <2>2, FS_Subset
  <2> QED BY <2>1, <2>2, <2>3, FS_CardinalityType
<1>2. CASE k.op # "targets"
  <2>1. PICK n \in Nat : n = Len(checklogs[k.of])
    BY <1>2, LogRows
  <2>2. RowsOf(k) \in SUBSET (1 .. n)
    BY <1>2, <2>1, LogRows
  <2>3. IsFiniteSet(RowsOf(k))
    <3>1. IsFiniteSet(1 .. n)
      BY FS_Interval
    <3> QED BY <2>2, <3>1, FS_Subset
  <2> QED BY <2>2, <2>3, FS_CardinalityType
<1> QED BY <1>1, <1>2

\* Different results have different ids.
LEMMA IdsDiffer ==
  ASSUME NEW m \in Monitor
  PROVE  \A i, j \in Nat : /\ IdOf(m, i) \in Nat
                           /\ IdOf(m, i) = IdOf(m, j) => i = j
<1>1. PICK f : f = LogId[m]
  OBVIOUS
<1>2. MaxLogs \in Nat /\ f \in [1 .. MaxLogs -> 1 .. MaxLogs]
      /\ \A i, j \in 1 .. MaxLogs : f[i] = f[j] => i = j
  BY <1>1, StoreAssumption, TargetAssumption DEF IsInjective
<1>3. \A i \in Nat : IdOf(m, i) = IF i \in 1 .. MaxLogs THEN f[i] ELSE i
  BY <1>1 DEF IdOf
<1> QED BY <1>2, <1>3

\* Both orders are strict and total.
LEMMA RowsOrdered ==
  ASSUME IInv, TargetTypeOK, NEW k, Asks(k)
  PROVE  \A a, b, d \in RowsOf(k) :
           /\ ~ Before(k, a, a)
           /\ a # b => Before(k, a, b) \/ Before(k, b, a)
           /\ Before(k, a, b) /\ Before(k, b, d) => Before(k, a, d)
<1> SUFFICES ASSUME NEW a \in RowsOf(k), NEW b \in RowsOf(k), NEW d \in RowsOf(k)
             PROVE  /\ ~ Before(k, a, a)
                    /\ a # b => Before(k, a, b) \/ Before(k, b, a)
                    /\ Before(k, a, b) /\ Before(k, b, d) => Before(k, a, d)
  OBVIOUS
<1>1. a \in Nat /\ b \in Nat /\ d \in Nat
  BY RowsFinite
<1>2. CASE k.op = "targets"
  <2>1. Time \cup {0} \subseteq Nat
    BY StoreAssumption
  <2>2. RowsOf(k) \subseteq Monitor
    BY <1>2 DEF RowsOf, Live
  <2>3. \A x \in RowsOf(k) : created[x] \in Nat
    BY <2>1, <2>2 DEF TargetTypeOK
  <2> QED BY <1>1, <1>2, <2>3 DEF Before, TargetBefore
<1>3. CASE k.op # "targets"
  <2>1. \A x \in RowsOf(k) : checklogs[k.of][x].at \in Nat
    BY <1>3, LogRows
  <2>2. \A x, y \in RowsOf(k) : /\ IdOf(k.of, x) \in Nat
                                /\ IdOf(k.of, x) = IdOf(k.of, y) => x = y
    BY <1>3, RowsFinite, IdsDiffer DEF Asks
  <2>3. PICK x, y, z : x = IdOf(k.of, a) /\ y = IdOf(k.of, b) /\ z = IdOf(k.of, d)
    OBVIOUS
  <2>4. /\ x \in Nat /\ y \in Nat /\ z \in Nat
        /\ x = y => a = b
    BY <2>2, <2>3
  <2> QED BY <1>3, <2>1, <2>3, <2>4 DEF Before, LogBefore
<1> QED BY <1>2, <1>3

LEMMA RankBounds ==
  ASSUME IInv, TargetTypeOK, NEW k, Asks(k), NEW a \in RowsOf(k)
  PROVE  Rank(k, a) \in Nat /\ Rank(k, a) < Cardinality(RowsOf(k))
<1>1. IsFiniteSet(RowsOf(k)) /\ Cardinality(RowsOf(k)) \in Nat
  BY RowsFinite
<1>2. PICK S : S = {b \in RowsOf(k) : Before(k, b, a)}
  OBVIOUS
<1>3. S \subseteq RowsOf(k) /\ a \notin S
  BY <1>2, RowsOrdered
<1>4. S # RowsOf(k)
  BY <1>3
<1>5. IsFiniteSet(S) /\ Cardinality(S) <= Cardinality(RowsOf(k))
      /\ Cardinality(S) # Cardinality(RowsOf(k))
  BY <1>1, <1>3, <1>4, FS_Subset
<1>6. Cardinality(S) \in Nat
  BY <1>5, FS_CardinalityType
<1> QED BY <1>1, <1>2, <1>5, <1>6 DEF Rank

\* The same of the next state.
LEMMA RowsFiniteNext ==
  IInv' => \A k : Asks(k) => (IsFiniteSet(RowsOf(k)) /\ RowsOf(k) \subseteq Nat)'
<1>1. IInv => \A k : Asks(k) => IsFiniteSet(RowsOf(k)) /\ RowsOf(k) \subseteq Nat
  BY RowsFinite
<1>2. IInv' => (\A k : Asks(k) => IsFiniteSet(RowsOf(k)) /\ RowsOf(k) \subseteq Nat)'
  BY <1>1, PTL
<1> QED BY <1>2 DEF Asks

\* Every row that k can list is still there, and where it was in the order.
NoRowGone(k) ==
  IF k.op = "targets"
  THEN \A m \in Live : m \in Live' /\ created'[m] = created[m]
  ELSE /\ Len(checklogs'[k.of]) \in Nat
       /\ Len(checklogs[k.of]) <= Len(checklogs'[k.of])
       /\ \A i \in 1 .. Len(checklogs[k.of]) : checklogs'[k.of][i] = checklogs[k.of][i]

LEMMA RowsGrow ==
  ASSUME IInv, IInv', NEW k, Asks(k), NoRowGone(k)
  PROVE  /\ RowsOf(k) \subseteq RowsOf(k)'
         /\ \A a \in RowsOf(k) : /\ Rank(k, a) \in Nat /\ Rank(k, a)' \in Nat
                                 /\ Rank(k, a) <= Rank(k, a)'
<1>1. RowsOf(k) \subseteq RowsOf(k)'
  <2>1. CASE k.op = "targets"
    BY <2>1 DEF RowsOf, NoRowGone
  <2>2. CASE k.op # "targets"
    <3>1. DOMAIN checklogs'[k.of] = 1 .. Len(checklogs'[k.of])
      BY <2>2 DEF Asks, IInv, StoreTypeOK
    <3>2. \A i \in RowsOf(k) : /\ i \in 1 .. Len(checklogs[k.of])
                               /\ checklogs[k.of][i].at \in k.window
      BY <2>2, LogRows
    <3>3. Len(checklogs[k.of]) \in Nat
      BY <2>2, LogRows
    <3> QED BY <2>2, <3>1, <3>2, <3>3 DEF RowsOf, NoRowGone
  <2> QED BY <2>1, <2>2
<1>2. \A a, b \in RowsOf(k) : Before(k, b, a) => Before(k, b, a)'
  <2>1. CASE k.op = "targets"
    BY <2>1 DEF RowsOf, NoRowGone, Before, TargetBefore
  <2>2. CASE k.op # "targets"
    <3>1. RowsOf(k) \subseteq 1 .. Len(checklogs[k.of])
      BY <2>2, LogRows
    <3> QED BY <2>2, <3>1 DEF NoRowGone, Before, LogBefore, IdOf
  <2> QED BY <2>1, <2>2
<1>3. IsFiniteSet(RowsOf(k)')
  BY RowsFiniteNext
<1> SUFFICES ASSUME NEW a \in RowsOf(k)
             PROVE  /\ Rank(k, a) \in Nat /\ Rank(k, a)' \in Nat
                    /\ Rank(k, a) <= Rank(k, a)'
  BY <1>1
<1>4. PICK S, T : /\ S = {b \in RowsOf(k) : Before(k, b, a)}
                  /\ T = {b \in RowsOf(k)' : Before(k, b, a)'}
  OBVIOUS
<1>5. S \in SUBSET T /\ T \in SUBSET RowsOf(k)'
  BY <1>1, <1>2, <1>4
<1>6. IsFiniteSet(T) /\ IsFiniteSet(S) /\ Cardinality(S) <= Cardinality(T)
  BY <1>3, <1>5, FS_Subset
<1>7. Cardinality(S) \in Nat /\ Cardinality(T) \in Nat
  BY <1>6, FS_CardinalityType
<1>8. Rank(k, a) = Cardinality(S) /\ Rank(k, a)' = Cardinality(T)
  BY <1>4 DEF Rank
<1> QED BY <1>6, <1>7, <1>8

-----------------------------------------------------------------------------
(* What holds of a call in flight. *)

Listing(k) == k.op # "stats"

\* The next statement belongs to the operation; the offset of the page and
\* the count of the rows are ints.
Shape(k) ==
  /\ k.op # "targets" => k.of \in Monitor
  /\ k.op = "stats" => /\ k.step \in {"aggregate", "timeline", "done"}
                       /\ k.step # "done" => k.seen = {}
  /\ Listing(k) => /\ k.step \in {"exists", "count", "select", "done"} /\ k.size # 0
                   /\ k.step # "done" => (k.page - 1) * k.size < HalfRange
                   /\ k.step = "select" => k.total < HalfRange

\* A row that was there and has not been seen is not on an earlier page; a
\* check that was not counted came after the log was.
Pending(k) ==
  ~ k.shrunk =>
    /\ k.there \subseteq RowsOf(k)
    /\ Listing(k) /\ k.step # "done" =>
         \A a \in k.there \ k.seen : (k.page - 1) * k.size <= Rank(k, a)
    /\ ~ Listing(k) /\ k.step # "aggregate" =>
         /\ k.seen \subseteq RowsOf(k)
         /\ k.total <= Len(checklogs[k.of])
         /\ \A i \in RowsOf(k) \ k.there : i > k.total

\* What NothingSkipped and StatsAgree say of a call that is done.
Complete(k) ==
  k.step = "done" /\ ~ k.shrunk =>
    /\ Listing(k) => k.grew \/ k.there \subseteq k.seen
    /\ ~ Listing(k) =>
         /\ \A i \in k.seen \ k.there : i > k.total
         /\ \A i \in k.there \ k.seen :
              /\ Cardinality(k.seen) = MaxTimeline
              /\ \A j \in k.seen : checklogs[k.of][j].at <= checklogs[k.of][i].at

ReadOK(k) == Shape(k) /\ Pending(k) /\ Complete(k)

\* The target of a PATCH has been created, and the fields to be kept are
\* what they are in the row.
PatchOK(k) ==
  /\ phase[k.of] # "new"
  /\ k.of \in Live =>
       /\ "interval" \in k.kept => k.current.interval = row[k.of].interval
       /\ "enabled" \in k.kept => k.current.enabled = row[k.of].enabled

CallsOK ==
  \A c \in Client :
    /\ \A k \in ReadCall : call[c] = k => ReadOK(k)
    /\ \A k \in PatchCall : call[c] = k => PatchOK(k)

AInv == IInv /\ TargetTypeOK /\ CallsOK

LEMMA ReadStays ==
  ASSUME IInv, IInv', NEW k \in ReadCall, ReadOK(k), k.shrunk \/ NoRowGone(k)
  PROVE  ReadOK(k)'
<1>1. Shape(k)'
  BY DEF ReadOK, Shape, Listing
<1>2. ASSUME ~ k.shrunk
      PROVE  Pending(k)' /\ Complete(k)'
  <2>1. Asks(k) /\ NoRowGone(k)
    BY <1>2 DEF Asks, ReadOK, Shape
  <2>2. RowsOf(k) \subseteq RowsOf(k)'
    BY <2>1, RowsGrow
  <2>3. ASSUME Listing(k), k.step # "done", NEW a \in k.there \ k.seen
        PROVE  (k.page - 1) * k.size <= Rank(k, a)'
    <3>1. a \in RowsOf(k) /\ (k.page - 1) * k.size <= Rank(k, a)
      BY <1>2, <2>3 DEF ReadOK, Pending
    <3>2. Rank(k, a) \in Nat /\ Rank(k, a)' \in Nat /\ Rank(k, a) <= Rank(k, a)'
      BY <2>1, <3>1, RowsGrow
    <3>3. PICK n \in Int : n = (k.page - 1) * k.size
      BY DEF ReadCall
    <3> QED BY <3>1, <3>2, <3>3
  <2>4. ASSUME ~ Listing(k), k.step # "aggregate"
        PROVE  /\ k.seen \subseteq RowsOf(k)'
               /\ k.total <= Len(checklogs'[k.of])
               /\ \A i \in RowsOf(k)' \ k.there : i > k.total
               /\ \A i \in RowsOf(k) : checklogs'[k.of][i] = checklogs[k.of][i]
    <3>1. /\ k.seen \subseteq RowsOf(k) /\ k.total <= Len(checklogs[k.of])
          /\ \A i \in RowsOf(k) \ k.there : i > k.total
      BY <1>2, <2>4 DEF ReadOK, Pending
    <3>2. PICK log, next : log = checklogs[k.of] /\ next = checklogs'[k.of]
      OBVIOUS
    <3>3. k.op # "targets" /\ k.of \in Monitor
      BY <2>1, <2>4 DEF Listing, Asks
    <3>4. log \in Seq(Result) /\ next \in Seq(Result)
      BY <3>2, <3>3 DEF IInv, StoreTypeOK, Result
    <3>5. /\ Len(log) <= Len(next) /\ \A i \in 1 .. Len(log) : next[i] = log[i]
      BY <2>1, <3>2, <3>3 DEF NoRowGone
    <3>6. /\ RowsOf(k) = {i \in 1 .. Len(log) : log[i].at \in k.window}
          /\ RowsOf(k)' = {i \in 1 .. Len(next) : next[i].at \in k.window}
      BY <3>2, <3>3, <3>4 DEF RowsOf
    <3>7. Len(log) \in Nat /\ Len(next) \in Nat /\ k.total \in Nat
      BY <3>4 DEF ReadCall
    <3>8. \A i \in RowsOf(k)' : i \in RowsOf(k) \/ i > Len(log)
      BY <3>5, <3>6, <3>7
    <3>9. \A i \in RowsOf(k)' \ k.there : i > k.total
      BY <3>1, <3>2, <3>6, <3>7, <3>8
    <3> QED BY <2>2, <3>1, <3>2, <3>5, <3>6, <3>7, <3>9
  <2>5. Pending(k)'
    BY <1>2, <2>2, <2>3, <2>4 DEF ReadOK, Pending, Listing
  <2>6. Complete(k)'
    <3>1. CASE Listing(k)
      BY <3>1 DEF ReadOK, Complete, Listing
    <3>2. CASE ~ Listing(k) /\ k.step = "done"
      <4>1. k.there \subseteq RowsOf(k) /\ k.seen \subseteq RowsOf(k)
        BY <1>2, <3>2 DEF ReadOK, Pending
      <4>2. \A i \in RowsOf(k) : checklogs'[k.of][i] = checklogs[k.of][i]
        BY <2>4, <3>2
      <4> QED BY <1>2, <3>2, <4>1, <4>2 DEF ReadOK, Complete, Listing
    <3> QED BY <3>1, <3>2 DEF Complete
  <2> QED BY <2>5, <2>6
<1>3. Pending(k)' /\ Complete(k)'
  BY <1>2 DEF Pending, Complete
<1> QED BY <1>1, <1>3 DEF ReadOK

LEMMA NoRowGoneIfSame ==
  ASSUME IInv, UNCHANGED <<phase, checklogs, created>>, NEW k, Asks(k)
  PROVE  NoRowGone(k)
<1>1. CASE k.op = "targets"
  BY <1>1 DEF NoRowGone, Live
<1>2. CASE k.op # "targets"
  <2>1. Len(checklogs[k.of]) \in Nat
    BY <1>2, LogRows
  <2> QED BY <1>2, <2>1 DEF NoRowGone
<1> QED BY <1>1, <1>2

\* A step of someone else, after which no call has to be any different.
LEMMA CallsStay ==
  ASSUME AInv, IInv', created' \in [Monitor -> Time \cup {0}], UNCHANGED call,
         \A k : Asks(k) => NoRowGone(k),
         \A k \in PatchCall : PatchOK(k) => PatchOK(k)'
  PROVE  AInv'
<1>1. TargetTypeOK'
  BY DEF AInv, TargetTypeOK
<1>2. ASSUME NEW c \in Client, NEW k \in ReadCall, call'[c] = k
      PROVE  ReadOK(k)'
  <2>1. ReadOK(k)
    BY <1>2 DEF AInv, CallsOK
  <2>2. Asks(k)
    BY <2>1 DEF ReadOK, Shape, Asks
  <2> QED BY <2>1, <2>2, ReadStays DEF AInv
<1>3. ASSUME NEW c \in Client, NEW k \in PatchCall, call'[c] = k
      PROVE  PatchOK(k)'
  BY <1>3 DEF AInv, CallsOK
<1> QED BY <1>1, <1>2, <1>3 DEF AInv, CallsOK

\* A call that goes on to its next statement, or begins.
LEMMA ContinueOK ==
  ASSUME AInv, NEW c \in Client, NEW k \in ReadCall, ReadOK(k), Continue(c, k)
  PROVE  AInv'
<1>1. IInv'
  BY StepPreserves DEF AInv, Continue
<1>2. TargetTypeOK'
  BY DEF AInv, TargetTypeOK, Continue
<1>3. call' = [call EXCEPT ![c] = k] /\ call \in [Client -> PatchCall \cup ReadCall \cup {None}]
  BY DEF AInv, TargetTypeOK, Continue
<1>4. ASSUME NEW d \in Client, NEW j \in ReadCall, call'[d] = j
      PROVE  ReadOK(j)'
  <2>1. ReadOK(j)
    BY <1>3, <1>4 DEF AInv, CallsOK
  <2>2. Asks(j)
    BY <2>1 DEF ReadOK, Shape, Asks
  <2>3. NoRowGone(j)
    BY <2>2, NoRowGoneIfSame DEF AInv, Continue, storeVars
  <2> QED BY <1>1, <2>1, <2>3, ReadStays DEF AInv
<1>5. ASSUME NEW d \in Client, NEW j \in PatchCall, call'[d] = j
      PROVE  PatchOK(j)'
  <2>1. j # k
    BY DEF PatchCall, ReadCall
  <2>2. PatchOK(j)
    BY <1>3, <1>5, <2>1 DEF AInv, CallsOK
  <2> QED BY <2>2 DEF PatchOK, Continue, storeVars, Live
<1> QED BY <1>1, <1>2, <1>4, <1>5 DEF AInv, CallsOK

-----------------------------------------------------------------------------
(* The statements of the reading calls. *)

LEMMA BeginPreservesCalls ==
  ASSUME AInv, NEW c \in Client,
         NEW op \in {"targets", "logs", "stats"}, NEW of \in Monitor \cup {None},
         NEW window \in SUBSET Time, NEW size \in 0 .. maxPageSize,
         op # "targets" => of \in Monitor, op # "stats" => size # 0,
         Begin(c, op, of, window, size)
  PROVE  AInv'
<1>1. PICK k : k = [op |-> op, of |-> of, window |-> window, size |-> size, page |-> 1,
                    step |-> FirstStep(op), there |-> {}, seen |-> {}, total |-> 0,
                    shrunk |-> FALSE, grew |-> FALSE]
  OBVIOUS
<1>2. FirstStep(op) = CASE op = "targets" -> "count"
                        [] op = "logs"    -> "exists"
                        [] op = "stats"   -> "aggregate"
  BY DEF FirstStep, StatsQueries
<1>3. k \in ReadCall
  BY <1>1, <1>2 DEF ReadCall
<1>4. size \in Nat /\ (1 - 1) * size = 0
  BY DEF maxPageSize
<1>5. Shape(k)
  BY <1>1, <1>2, <1>4, MachineIntAssumption DEF Shape, Listing
<1>6. Pending(k) /\ Complete(k)
  BY <1>1, <1>2 DEF Pending, Complete, Listing
<1> QED BY <1>1, <1>3, <1>5, <1>6, ContinueOK DEF Begin, ReadOK

\* The call of c and what holds of it.
LEMMA CallOfReader ==
  ASSUME AInv, NEW c \in Client, Reading(c)
  PROVE  call[c] \in ReadCall /\ ReadOK(call[c]) /\ Asks(call[c])
<1>1. call[c] \in ReadCall
  BY DEF AInv, TargetTypeOK, Reading, Idle, PatchCall
<1>2. ReadOK(call[c])
  BY <1>1 DEF AInv, CallsOK
<1> QED BY <1>1, <1>2 DEF ReadOK, Shape, Asks

LEMMA ExistPreservesCalls ==
  ASSUME AInv, NEW c \in Client, LogsExist(c)
  PROVE  AInv'
<1>1. PICK k : k = call[c]
  OBVIOUS
<1>2. k \in ReadCall /\ ReadOK(k) /\ k.step = "exists"
  BY <1>1, CallOfReader DEF LogsExist, At
<1>3. PICK j : j = [k EXCEPT !.step = "count"]
  OBVIOUS
<1>4. /\ j \in ReadCall /\ j.step = "count" /\ j.op = k.op /\ j.of = k.of
      /\ j.window = k.window /\ j.size = k.size /\ j.page = k.page
      /\ j.there = k.there /\ j.seen = k.seen /\ j.shrunk = k.shrunk
  BY <1>2, <1>3 DEF ReadCall
<1>5. RowsOf(j) = RowsOf(k) /\ \A a : Rank(j, a) = Rank(k, a)
  BY <1>4 DEF RowsOf, Rank, Before
<1>6. ReadOK(j)
  BY <1>2, <1>4, <1>5 DEF ReadOK, Shape, Listing, Pending, Complete
<1> QED BY <1>1, <1>3, <1>4, <1>6, ContinueOK DEF LogsExist

LEMMA CountPreservesCalls ==
  ASSUME AInv, NEW c \in Client, Count(c)
  PROVE  AInv'
<1>1. PICK k, rows : k = call[c] /\ rows = RowsOf(k)
  OBVIOUS
<1>2. k \in ReadCall /\ ReadOK(k) /\ Asks(k) /\ k.step = "count"
  BY <1>1, CallOfReader DEF Count, At
<1>3. rows \subseteq Nat /\ Cardinality(rows) \in Nat /\ Cardinality(rows) < HalfRange
  <2>1. rows \subseteq Nat /\ Cardinality(rows) \in Nat
    BY <1>1, <1>2, RowsFinite DEF AInv
  <2>2. Cardinality(rows) \in MachineInts
    BY <1>1 DEF Count
  <2> QED BY <2>1, <2>2, MachineIntAssumption DEF MachineInts
<1>4. PICK j : j = [k EXCEPT !.step = "select", !.total = Cardinality(rows),
                             !.there = IF k.page = 1 THEN rows ELSE @]
  OBVIOUS
<1>5. /\ j \in ReadCall /\ j.step = "select" /\ j.op = k.op /\ j.of = k.of
      /\ j.window = k.window /\ j.size = k.size /\ j.page = k.page
      /\ j.seen = k.seen /\ j.shrunk = k.shrunk /\ j.total = Cardinality(rows)
      /\ j.there = IF k.page = 1 THEN rows ELSE k.there
  BY <1>2, <1>3, <1>4 DEF ReadCall
<1>6. RowsOf(j) = RowsOf(k) /\ \A a : Rank(j, a) = Rank(k, a)
  BY <1>5 DEF RowsOf, Rank, Before
<1>7. Shape(j) /\ Complete(j)
  BY <1>2, <1>3, <1>5 DEF ReadOK, Shape, Listing, Complete
<1>8. Pending(j)
  <2>1. CASE k.page = 1
    <3>1. \A a \in rows : Rank(k, a) \in Nat
      BY <1>1, <1>2, RankBounds DEF AInv
    <3>2. (1 - 1) * k.size = 0
      BY <1>2 DEF ReadCall
    <3> QED BY <1>1, <1>2, <1>5, <1>6, <2>1, <3>1, <3>2 DEF ReadOK, Shape, Pending, Listing
  <2>2. CASE k.page # 1
    BY <1>2, <1>5, <1>6, <2>2 DEF ReadOK, Shape, Pending, Listing
  <2> QED BY <2>1, <2>2
<1> QED BY <1>1, <1>4, <1>5, <1>7, <1>8, ContinueOK DEF Count, ReadOK

LEMMA TimesMonotone ==
  ASSUME NEW a \in Nat, NEW b \in Nat, NEW n \in Nat, a <= b
  PROVE  a * n <= b * n
OBVIOUS

LEMMA Division ==
  ASSUME NEW x \in Nat, NEW n \in Nat \ {0}
  PROVE  /\ x \div n \in Nat
         /\ (x \div n) * n <= x
         /\ x < (x \div n) * n + n
OBVIOUS

LEMMA WrapFits ==
  ASSUME NEW n \in Nat, n < HalfRange
  PROVE  Wrap(n) = n
<1>1. HalfRange \in Nat \ {0}
  BY MachineIntAssumption
<1>2. n + HalfRange \in 0 .. 2 * HalfRange - 1
  BY <1>1
<1>3. (n + HalfRange) % (2 * HalfRange) = n + HalfRange
  BY <1>1, <1>2
<1> QED BY <1>1, <1>3 DEF Wrap

\* The last page ends where the count ends, and the others before.
LEMMA LastPage ==
  ASSUME NEW k \in ReadCall, k.size # 0
  PROVE  /\ k.page >= PageCount(k) => k.total <= k.page * k.size
         /\ k.page < PageCount(k) => k.page * k.size < k.total
<1>1. PICK p, s, t : p = k.page /\ s = k.size /\ t = k.total
  OBVIOUS
<1>2. p \in Nat \ {0} /\ s \in Nat \ {0} /\ t \in Nat
  BY <1>1 DEF ReadCall, maxPageSize
<1>3. p * s \in Nat
  BY <1>2
<1>4. CASE t = 0
  BY <1>1, <1>2, <1>3, <1>4 DEF PageCount
<1>5. CASE t # 0
  <2>1. PICK q : q = (t + s - 1) \div s
    OBVIOUS
  <2>2. PageCount(k) = q
    BY <1>1, <1>5, <2>1 DEF PageCount
  <2>3. t + s - 1 \in Nat
    BY <1>2
  <2>4. q \in Nat /\ q * s <= t + s - 1 /\ t + s - 1 < q * s + s
    BY <1>2, <2>1, <2>3, Division
  <2>5. ASSUME q <= p
        PROVE  t <= p * s
    <3>1. q * s <= p * s /\ q * s \in Nat
      BY <1>2, <2>4, <2>5, TimesMonotone
    <3> QED BY <1>2, <1>3, <2>4, <3>1
  <2>6. ASSUME p < q
        PROVE  p * s < t
    <3>1. (p + 1) * s <= q * s /\ q * s \in Nat
      BY <1>2, <2>4, <2>6, TimesMonotone
    <3>2. (p + 1) * s = p * s + s
      BY <1>2
    <3> QED BY <1>2, <1>3, <2>4, <3>1, <3>2
  <2> QED BY <1>1, <1>2, <2>2, <2>4, <2>5, <2>6
<1> QED BY <1>4, <1>5

LEMMA SelectPreservesCalls ==
  ASSUME AInv, NEW c \in Client, Select(c)
  PROVE  AInv'
<1>1. PICK k : k = call[c]
  OBVIOUS
<1>2. /\ k \in ReadCall /\ ReadOK(k) /\ Asks(k) /\ k.step = "select"
      /\ Listing(k) /\ k.size # 0
  BY <1>1, CallOfReader DEF Select, At, ReadOK, Shape, Listing
<1>3. PICK p, s : p = k.page /\ s = k.size
  OBVIOUS
<1>4. p \in Nat \ {0} /\ s \in Nat \ {0} /\ k.total \in Nat /\ k.total < HalfRange
  BY <1>2, <1>3 DEF ReadCall, maxPageSize, ReadOK, Shape
<1>5. (p - 1) * s \in Nat /\ p * s \in Nat /\ (p - 1) * s + s = p * s
      /\ ((p + 1) - 1) * s = p * s
  BY <1>4
<1>6. Offset(k) = (p - 1) * s
  <2>1. (p - 1) * s < HalfRange
    BY <1>2, <1>3 DEF ReadOK, Shape
  <2> QED BY <1>3, <1>5, <2>1, WrapFits DEF Offset
<1>7. /\ p >= PageCount(k) => k.total <= p * s
      /\ ~ (p >= PageCount(k)) => p * s < k.total
  <2>1. PageCount(k) \in Int
    <3>1. k.size = s /\ k.total + s - 1 \in Nat
      BY <1>3, <1>4
    <3>2. (k.total + s - 1) \div s \in Nat
      BY <1>4, <3>1, Division
    <3> QED BY <3>1, <3>2 DEF PageCount
  <2> QED BY <1>2, <1>3, <1>4, <2>1, LastPage
<1>8. /\ RowsOf(k) \subseteq Nat /\ Cardinality(RowsOf(k)) \in Nat
      /\ OnPage(k) \in SUBSET Nat
  BY <1>2, RowsFinite DEF AInv, OnPage
<1>9. ASSUME ~ k.shrunk, NEW a \in k.there \ (k.seen \cup OnPage(k))
      PROVE  /\ a \in RowsOf(k) /\ p * s <= Rank(k, a)
             /\ Rank(k, a) \in Nat /\ Rank(k, a) < Cardinality(RowsOf(k))
  <2>1. /\ a \in RowsOf(k) /\ (p - 1) * s <= Rank(k, a) /\ a \notin OnPage(k)
    BY <1>2, <1>3, <1>9 DEF ReadOK, Pending
  <2>2. Rank(k, a) \in Nat /\ Rank(k, a) < Cardinality(RowsOf(k))
    BY <1>2, <2>1, RankBounds DEF AInv
  <2>3. ~ (Rank(k, a) < (p - 1) * s + s)
    BY <1>3, <1>6, <2>1 DEF OnPage
  <2> QED BY <1>5, <2>1, <2>2, <2>3
<1>10. CASE p >= PageCount(k)
  <2>1. PICK g \in BOOLEAN : g <=> Cardinality(RowsOf(k)) > k.total
    OBVIOUS
  <2>2. PICK j : j = [k EXCEPT !.seen = k.seen \cup OnPage(k), !.step = "done", !.grew = g]
    OBVIOUS
  <2>3. /\ j \in ReadCall /\ j.op = k.op /\ j.of = k.of /\ j.window = k.window
        /\ j.size = k.size /\ j.there = k.there /\ j.shrunk = k.shrunk
        /\ j.seen = k.seen \cup OnPage(k) /\ j.step = "done" /\ j.grew = g
    BY <1>2, <1>8, <2>1, <2>2 DEF ReadCall
  <2>4. RowsOf(j) = RowsOf(k)
    BY <2>3 DEF RowsOf
  <2>5. Shape(j) /\ Pending(j)
    BY <1>2, <2>3, <2>4 DEF ReadOK, Shape, Pending, Listing
  <2>6. ASSUME ~ k.shrunk, ~ g
        PROVE  k.there \subseteq j.seen
    BY <1>4, <1>5, <1>7, <1>8, <1>9, <1>10, <2>1, <2>3, <2>6
  <2>7. Complete(j)
    BY <1>2, <2>3, <2>6 DEF Complete, Listing
  <2>8. Continue(c, j)
    <3>1. j = [k EXCEPT !.seen = @ \cup OnPage(k),
                        !.page = IF p >= PageCount(k) THEN @ ELSE @ + 1,
                        !.step = IF p >= PageCount(k) THEN "done" ELSE FirstStep(k.op),
                        !.grew = p >= PageCount(k) /\ Cardinality(RowsOf(k)) > k.total]
      <4>1. g = (p >= PageCount(k) /\ Cardinality(RowsOf(k)) > k.total)
        BY <1>10, <2>1
      <4> QED BY <1>2, <1>10, <2>2, <4>1 DEF ReadCall
    <3> QED BY <1>1, <1>3, <3>1 DEF Select
  <2> QED BY <2>3, <2>5, <2>7, <2>8, ContinueOK DEF ReadOK
<1>11. CASE ~ (p >= PageCount(k))
  <2>1. FirstStep(k.op) \in {"exists", "count"}
    BY <1>2 DEF FirstStep, Listing, ReadCall
  <2>2. PICK j : j = [k EXCEPT !.seen = k.seen \cup OnPage(k), !.page = p + 1,
                               !.step = FirstStep(k.op), !.grew = FALSE]
    OBVIOUS
  <2>3. /\ j \in ReadCall /\ j.op = k.op /\ j.of = k.of /\ j.window = k.window
        /\ j.size = s /\ j.there = k.there /\ j.shrunk = k.shrunk
        /\ j.seen = k.seen \cup OnPage(k) /\ j.step \in {"exists", "count"} /\ j.page = p + 1
    <3>1. p + 1 \in Nat \ {0} /\ k.seen \cup OnPage(k) \in SUBSET Nat
      BY <1>2, <1>4, <1>8 DEF ReadCall
    <3>2. PICK q, st, sn : q = p + 1 /\ st = FirstStep(k.op) /\ sn = k.seen \cup OnPage(k)
      OBVIOUS
    <3>3. j = [k EXCEPT !.seen = sn, !.page = q, !.step = st, !.grew = FALSE]
      BY <2>2, <3>2
    <3> QED BY <1>2, <1>3, <2>1, <3>1, <3>2, <3>3 DEF ReadCall
  <2>4. RowsOf(j) = RowsOf(k) /\ \A a : Rank(j, a) = Rank(k, a)
    BY <2>3 DEF RowsOf, Rank, Before
  <2>5. (j.page - 1) * j.size = p * s
    BY <1>5, <2>3
  <2>6. Shape(j)
    <3>1. p * s < HalfRange
      BY <1>4, <1>5, <1>7, <1>11, MachineIntAssumption
    <3>2. (j.page - 1) * j.size < HalfRange
      BY <2>5, <3>1
    <3>3. Listing(j) /\ (j.op # "targets" => j.of \in Monitor)
          /\ j.size # 0 /\ j.op # "stats" /\ j.step \notin {"select"}
      BY <1>2, <1>4, <2>3 DEF ReadOK, Shape, Listing
    <3> QED BY <2>3, <3>2, <3>3 DEF Shape
  <2>7. Pending(j)
    <3>1. ASSUME ~ k.shrunk, NEW a \in j.there \ j.seen
          PROVE  (j.page - 1) * j.size <= Rank(j, a)
      BY <1>9, <2>3, <2>4, <2>5, <3>1
    <3>2. ~ k.shrunk => j.there \subseteq RowsOf(j)
      BY <1>2, <2>3, <2>4 DEF ReadOK, Pending
    <3> QED BY <1>2, <2>3, <3>1, <3>2 DEF Pending, Listing
  <2>8. Complete(j)
    BY <2>3 DEF Complete
  <2>9. Continue(c, j)
    <3>1. j = [k EXCEPT !.seen = @ \cup OnPage(k),
                        !.page = IF p >= PageCount(k) THEN @ ELSE @ + 1,
                        !.step = IF p >= PageCount(k) THEN "done" ELSE FirstStep(k.op),
                        !.grew = p >= PageCount(k) /\ Cardinality(RowsOf(k)) > k.total]
      <4>1. FALSE = (p >= PageCount(k) /\ Cardinality(RowsOf(k)) > k.total)
        BY <1>11
      <4> QED BY <1>2, <1>3, <1>11, <2>2, <4>1 DEF ReadCall
    <3>2. k.page = p
      BY <1>3
    <3> QED BY <1>1, <3>1, <3>2 DEF Select
  <2> QED BY <2>3, <2>6, <2>7, <2>8, <2>9, ContinueOK DEF ReadOK
<1> QED BY <1>10, <1>11

LEMMA AggregatePreservesCalls ==
  ASSUME AInv, NEW c \in Client, Aggregate(c)
  PROVE  AInv'
<1>1. PICK k : k = call[c]
  OBVIOUS
<1>2. /\ k \in ReadCall /\ ReadOK(k) /\ Asks(k) /\ k.step = "aggregate" /\ ~ Listing(k)
  BY <1>1, CallOfReader DEF Aggregate, At, ReadOK, Shape, Listing
<1>3. PICK n, R : n = Len(checklogs[k.of]) /\ R = RowsOf(k)
  OBVIOUS
<1>4. n \in Nat /\ R \in SUBSET Nat
  BY <1>2, <1>3, LogRows, RowsFinite DEF AInv, Listing
<1>5. PICK j : j = [k EXCEPT !.step = "timeline", !.there = R, !.total = n]
  OBVIOUS
<1>6. /\ j \in ReadCall /\ j.step = "timeline" /\ j.op = k.op /\ j.of = k.of
      /\ j.window = k.window /\ j.there = R /\ j.seen = k.seen /\ j.total = n
  BY <1>2, <1>4, <1>5 DEF ReadCall
<1>7. RowsOf(j) = RowsOf(k)
  BY <1>6 DEF RowsOf
<1>8. ReadOK(j)
  BY <1>2, <1>3, <1>4, <1>6, <1>7 DEF ReadOK, Shape, Listing, Pending, Complete
<1>9. Continue(c, j)
  BY <1>1, <1>2, <1>3, <1>5 DEF Aggregate, StatsStep, StatsQueries
<1> QED BY <1>6, <1>8, <1>9, ContinueOK

LEMMA TimelinePreservesCalls ==
  ASSUME AInv, NEW c \in Client, Timeline(c)
  PROVE  AInv'
<1>1. PICK k : k = call[c]
  OBVIOUS
<1>2. /\ k \in ReadCall /\ ReadOK(k) /\ Asks(k) /\ k.step = "timeline" /\ ~ Listing(k)
  BY <1>1, CallOfReader DEF Timeline, At, ReadOK, Shape, Listing
<1>3. PICK S \in Timelines(k) : call' = [call EXCEPT ![c] = [k EXCEPT !.step = "done", !.seen = S]]
  BY <1>1, <1>2 DEF Timeline, Continue, StatsStep, StatsQueries
<1>4. /\ S \in SUBSET RowsOf(k) /\ RowsOf(k) \subseteq Nat
      /\ Cardinality(S) = MaxTimeline \/ S = RowsOf(k)
      /\ \A i \in S, j \in RowsOf(k) \ S : checklogs[k.of][i].at <= checklogs[k.of][j].at
  BY <1>2, RowsFinite DEF AInv, Timelines
<1>5. PICK j : j = [k EXCEPT !.step = "done", !.seen = S]
  OBVIOUS
<1>6. /\ j \in ReadCall /\ j.step = "done" /\ j.op = k.op /\ j.of = k.of
      /\ j.window = k.window /\ j.there = k.there /\ j.seen = S
      /\ j.shrunk = k.shrunk /\ j.total = k.total
  BY <1>2, <1>4, <1>5 DEF ReadCall
<1>7. RowsOf(j) = RowsOf(k)
  BY <1>6 DEF RowsOf
<1>8. ASSUME ~ k.shrunk
      PROVE  /\ k.there \subseteq RowsOf(k) /\ k.total <= Len(checklogs[k.of])
             /\ \A i \in RowsOf(k) \ k.there : i > k.total
  BY <1>2, <1>8 DEF ReadOK, Pending
<1>9. Complete(j)
  <2>1. ASSUME ~ k.shrunk, NEW i \in k.there \ S
        PROVE  /\ Cardinality(S) = MaxTimeline
               /\ \A a \in S : checklogs[k.of][a].at <= checklogs[k.of][i].at
    BY <1>4, <1>8, <2>1
  <2>2. ~ k.shrunk => \A i \in S \ k.there : i > k.total
    BY <1>4, <1>8
  <2> QED BY <1>2, <1>6, <2>1, <2>2 DEF Complete, Listing
<1>10. ReadOK(j)
  BY <1>2, <1>4, <1>6, <1>7, <1>8, <1>9 DEF ReadOK, Shape, Listing, Pending
<1>11. Continue(c, j)
  BY <1>3, <1>5 DEF Timeline, Continue
<1> QED BY <1>6, <1>10, <1>11, ContinueOK

-----------------------------------------------------------------------------
(* The API uses the tables as MonitorStore says. *)

LEMMA StepUsesStore ==
  TargetTypeOK /\ [TargetNext]_targetVars => [StoreNext]_storeVars
<1> SUFFICES ASSUME TargetTypeOK, [TargetNext]_targetVars PROVE [StoreNext]_storeVars
  OBVIOUS
<1>1. ASSUME NEW m \in Monitor, PostTarget(m)
      PROVE  StoreNext
  <2>1. PICK req \in CreateRequest, now \in Time :
          /\ ValidInterval(req.interval)
          /\ CreateMonitor(m, EnabledOf(req), req.interval, now)
    BY <1>1 DEF PostTarget
  <2>2. req.interval \in Interval
    BY <2>1, TargetAssumption DEF CreateRequest, ValidInterval
  <2>3. EnabledOf(req) \in BOOLEAN
    <3>1. req.enabled \in BOOLEAN \cup {None}
      BY DEF CreateRequest
    <3> QED BY <3>1 DEF EnabledOf, Given
  <2> QED BY <2>1, <2>2, <2>3 DEF StoreNext, ApiStep
<1>2. ASSUME NEW c \in Client, PatchWrite(c)
      PROVE  StoreNext
  <2>1. call[c] \in PatchCall
    BY <1>2 DEF PatchWrite, Patching, Idle, TargetTypeOK, ReadCall
  <2>2. /\ call[c].of \in Monitor /\ call[c].current.enabled \in BOOLEAN
        /\ call[c].current.interval \in Interval
    BY <2>1 DEF PatchCall
  <2> QED BY <1>2, <2>2 DEF PatchWrite, StoreNext, ApiStep
<1>3. ASSUME NEW m \in Monitor, DeleteTarget(m)
      PROVE  StoreNext
  BY <1>3 DEF DeleteTarget, StoreNext, ApiStep
<1>4. ASSUME NEW c \in Client, CallStep(c), ~ PatchWrite(c)
      PROVE  UNCHANGED storeVars
  BY <1>4 DEF CallStep, PatchRead, List, Logs, GetMonitorStats, Begin, LogsExist, Count,
              Select, Aggregate, Timeline, CallEnds, Continue
<1>5. WorkerSide => StoreNext
  BY DEF WorkerSide, StoreNext
<1> QED BY <1>1, <1>2, <1>3, <1>4, <1>5 DEF TargetNext, targetVars

LEMMA StepKeepsStore ==
  AInv /\ [TargetNext]_targetVars => IInv'
BY StepUsesStore, StepPreserves DEF AInv

-----------------------------------------------------------------------------
(* The writing calls. *)

LEMMA PostPreservesCalls ==
  ASSUME AInv, IInv', NEW m \in Monitor, PostTarget(m)
  PROVE  AInv'
<1>1. PICK req \in CreateRequest, now \in Time :
        /\ CreateMonitor(m, EnabledOf(req), req.interval, now)
        /\ created' = [created EXCEPT ![m] = now] /\ call' = call
  BY DEF PostTarget
<1>2. created' \in [Monitor -> Time \cup {0}]
  BY <1>1 DEF AInv, TargetTypeOK
<1>3. /\ phase[m] = "new" /\ checklogs' = checklogs
      /\ \A n \in Monitor \ {m} : /\ phase'[n] = phase[n] /\ row'[n] = row[n]
                                  /\ created'[n] = created[n]
  BY <1>1 DEF CreateMonitor, AInv, IInv, StoreTypeOK, TargetTypeOK
<1>4. ASSUME NEW k, Asks(k)
      PROVE  NoRowGone(k)
  <2>1. CASE k.op = "targets"
    BY <1>3, <2>1 DEF NoRowGone, Live
  <2>2. CASE k.op # "targets"
    <3>1. Len(checklogs[k.of]) \in Nat
      BY <1>4, <2>2, LogRows DEF AInv
    <3> QED BY <1>3, <2>2, <3>1 DEF NoRowGone
  <2> QED BY <2>1, <2>2
<1>5. ASSUME NEW k \in PatchCall, PatchOK(k)
      PROVE  PatchOK(k)'
  <2>1. k.of \in Monitor \ {m}
    BY <1>3, <1>5 DEF PatchCall, PatchOK
  <2> QED BY <1>3, <1>5, <2>1 DEF PatchOK, Live
<1> QED BY <1>1, <1>2, <1>4, <1>5, CallsStay

LEMMA DeletePreservesCalls ==
  ASSUME AInv, IInv', NEW m \in Monitor, DeleteTarget(m)
  PROVE  AInv'
<1>1. /\ created' = created
      /\ call \in [Client -> PatchCall \cup ReadCall \cup {None}]
      /\ call' = [c \in Client |->
                    IF Reading(c) /\ (call[c].op = "targets" \/ call[c].of = m)
                    THEN [call[c] EXCEPT !.shrunk = TRUE] ELSE call[c]]
  BY DEF DeleteTarget, AInv, TargetTypeOK
<1>2. /\ \A n \in Monitor \ {m} : /\ phase'[n] = phase[n] /\ row'[n] = row[n]
                                  /\ checklogs'[n] = checklogs[n]
      /\ phase'[m] = "deleted"
  BY DEF DeleteTarget, DeleteMonitor, AInv, IInv, StoreTypeOK
<1>3. ASSUME NEW c \in Client
      PROVE  \/ call'[c] = call[c]
             \/ /\ call[c] \in ReadCall /\ Reading(c)
                /\ call'[c] = [call[c] EXCEPT !.shrunk = TRUE]
  <2>1. Reading(c) => call[c] \in ReadCall
    BY <1>1 DEF Reading, Idle, PatchCall
  <2> QED BY <1>1, <2>1
<1>4. TargetTypeOK'
  <2>1. ASSUME NEW c \in Client
        PROVE  call'[c] \in PatchCall \cup ReadCall \cup {None}
    <3>1. ASSUME NEW k \in ReadCall
          PROVE  [k EXCEPT !.shrunk = TRUE] \in ReadCall
      BY DEF ReadCall
    <3> QED BY <1>1, <1>3, <3>1
  <2>2. call' \in [Client -> PatchCall \cup ReadCall \cup {None}]
    BY <1>1, <2>1
  <2> QED BY <1>1, <2>2 DEF AInv, TargetTypeOK
<1>5. ASSUME NEW c \in Client, NEW k \in ReadCall, call'[c] = k
      PROVE  ReadOK(k)'
  <2>1. CASE Reading(c) /\ (call[c].op = "targets" \/ call[c].of = m)
    <3>1. PICK j : j = call[c]
      OBVIOUS
    <3>2. j \in ReadCall /\ ReadOK(j)
      BY <2>1, <3>1, CallOfReader
    <3>3. k = [j EXCEPT !.shrunk = TRUE]
      BY <1>1, <1>5, <2>1, <3>1
    <3>4. /\ k.shrunk /\ k.op = j.op /\ k.of = j.of /\ k.step = j.step /\ k.size = j.size
          /\ k.page = j.page /\ k.total = j.total /\ k.seen = j.seen
      BY <3>2, <3>3 DEF ReadCall
    <3> QED BY <3>2, <3>4 DEF ReadOK, Shape, Listing, Pending, Complete
  <2>2. CASE ~ (Reading(c) /\ (call[c].op = "targets" \/ call[c].of = m))
    <3>1. call[c] = k /\ ReadOK(k)
      BY <1>1, <1>5, <2>2 DEF AInv, CallsOK
    <3>2. Reading(c)
      <4>1. call[c].op # "patch"
        BY <3>1 DEF ReadCall
      <4>2. call[c] # None
        BY <3>1, CallAssumption
      <4> QED BY <4>1, <4>2 DEF Reading, Idle
    <3>3. k.op # "targets" /\ k.of # m /\ k.of \in Monitor
      BY <2>2, <3>1, <3>2 DEF ReadOK, Shape
    <3>4. NoRowGone(k)
      <4>1. Asks(k)
        BY <3>3 DEF Asks
      <4>2. Len(checklogs[k.of]) \in Nat
        BY <3>3, <4>1, LogRows DEF AInv
      <4> QED BY <1>2, <3>3, <4>2 DEF NoRowGone
    <3> QED BY <3>1, <3>4, ReadStays DEF AInv
  <2> QED BY <2>1, <2>2
<1>6. ASSUME NEW c \in Client, NEW k \in PatchCall, call'[c] = k
      PROVE  PatchOK(k)'
  <2>1. call[c] = k
    <3>1. ASSUME NEW j \in ReadCall
          PROVE  [j EXCEPT !.shrunk = TRUE] \notin PatchCall
      BY DEF ReadCall, PatchCall
    <3> QED BY <1>3, <1>6, <3>1
  <2>2. PatchOK(k) /\ k.of \in Monitor
    BY <2>1 DEF AInv, CallsOK, PatchCall
  <2>3. CASE k.of = m
    BY <1>2, <2>3 DEF PatchOK, Live
  <2>4. CASE k.of # m
    BY <1>2, <2>2, <2>4 DEF PatchOK, Live
  <2> QED BY <2>3, <2>4
<1> QED BY <1>4, <1>5, <1>6 DEF AInv, CallsOK

\* A call that ends, or a PATCH that begins: the other calls stay.
LEMMA PatchReadPreservesCalls ==
  ASSUME AInv, IInv', NEW c \in Client, NEW m \in Monitor, PatchRead(c, m)
  PROVE  AInv'
<1>1. PICK req \in UpdateRequest :
        /\ ValidInterval(Merged(req, m).interval)
        /\ call' = [call EXCEPT ![c] =
                      [op |-> "patch", of |-> m, current |-> Merged(req, m),
                       kept |-> {f \in {"interval", "enabled"} : req[f] = None}]]
  BY DEF PatchRead
<1>2. PICK k : k = [op |-> "patch", of |-> m, current |-> Merged(req, m),
                    kept |-> {f \in {"interval", "enabled"} : req[f] = None}]
  OBVIOUS
<1>3. /\ m \in Live /\ row[m] \in RowType
      /\ UNCHANGED <<phase, row, checklogs, incidents, tx, created>>
      /\ call \in [Client -> PatchCall \cup ReadCall \cup {None}]
  BY DEF PatchRead, AInv, IInv, StoreTypeOK, TargetTypeOK, storeVars
<1>4. k \in PatchCall
  <2>1. row[m].interval \in Interval /\ row[m].enabled \in BOOLEAN
    BY <1>3 DEF RowType
  <2>2. req.interval \in AnyInterval \cup {None} /\ req.enabled \in BOOLEAN \cup {None}
    BY DEF UpdateRequest
  <2>3. Merged(req, m).interval = Given(req.interval, row[m].interval)
        /\ Merged(req, m).enabled = Given(req.enabled, row[m].enabled)
    BY DEF Merged
  <2>4. Given(req.enabled, row[m].enabled) \in BOOLEAN
    BY <2>1, <2>2 DEF Given
  <2>5. Given(req.interval, row[m].interval) \in Interval
    <3>1. Given(req.interval, row[m].interval) \in AnyInterval \cup Interval
      BY <2>1, <2>2 DEF Given
    <3> QED BY <1>1, <2>3, <3>1, TargetAssumption DEF ValidInterval
  <2>6. Merged(req, m) \in [interval : Interval, enabled : BOOLEAN]
    BY <2>3, <2>4, <2>5 DEF Merged
  <2> QED BY <1>2, <2>6 DEF PatchCall
<1>5. PatchOK(k)
  <2>1. /\ "interval" \in k.kept => req.interval = None
        /\ "enabled" \in k.kept => req.enabled = None
        /\ k.of = m /\ k.current = Merged(req, m)
    BY <1>2
  <2> QED BY <1>3, <2>1 DEF PatchOK, Merged, Given, Live
<1>6. TargetTypeOK'
  BY <1>1, <1>2, <1>3, <1>4 DEF AInv, TargetTypeOK
<1>7. ASSUME NEW d \in Client, NEW j \in ReadCall, call'[d] = j
      PROVE  ReadOK(j)'
  <2>1. j # k
    BY <1>4 DEF PatchCall, ReadCall
  <2>2. ReadOK(j)
    BY <1>1, <1>2, <1>3, <1>7, <2>1 DEF AInv, CallsOK
  <2>3. Asks(j)
    BY <2>2 DEF ReadOK, Shape, Asks
  <2>4. NoRowGone(j)
    BY <1>3, <2>3, NoRowGoneIfSame DEF AInv
  <2> QED BY <2>2, <2>4, ReadStays DEF AInv
<1>8. ASSUME NEW d \in Client, NEW j \in PatchCall, call'[d] = j
      PROVE  PatchOK(j)'
  <2>1. PatchOK(j)
    BY <1>1, <1>2, <1>3, <1>5, <1>8 DEF AInv, CallsOK
  <2> QED BY <1>3, <2>1 DEF PatchOK, Live
<1> QED BY <1>6, <1>7, <1>8 DEF AInv, CallsOK

LEMMA PatchWritePreservesCalls ==
  ASSUME AInv, IInv', NEW c \in Client, PatchWrite(c)
  PROVE  AInv'
<1>1. PICK m, enabled, interval :
        m = call[c].of /\ enabled = call[c].current.enabled
        /\ interval = call[c].current.interval
  OBVIOUS
<1>2. /\ m \in Live /\ UNCHANGED <<phase, checklogs, incidents, tx, created>>
      /\ row' = [row EXCEPT ![m].enabled = enabled, ![m].interval = interval]
      /\ call' = [d \in Client |->
                    IF d = c THEN None
                    ELSE IF Patching(d) /\ call[d].of = m
                         THEN [call[d] EXCEPT !.kept = {}] ELSE call[d]]
      /\ call \in [Client -> PatchCall \cup ReadCall \cup {None}]
  BY <1>1 DEF PatchWrite, UpdateMonitor, AInv, TargetTypeOK
<1>3. \A n \in Monitor \ {m} : row'[n] = row[n]
  BY <1>2 DEF AInv, IInv, StoreTypeOK
<1>4. \A k \in PatchCall : /\ [k EXCEPT !.kept = {}] \in PatchCall
                           /\ [k EXCEPT !.kept = {}].kept = {}
                           /\ [k EXCEPT !.kept = {}].of = k.of
                           /\ k.op = "patch"
  BY DEF PatchCall
<1>5. ASSUME NEW d \in Client
      PROVE  \/ call'[d] = None
             \/ call'[d] = call[d] /\ (call[d] \in PatchCall => call[d].of # m)
             \/ call[d] \in PatchCall /\ call'[d] = [call[d] EXCEPT !.kept = {}]
  <2>1. call[d] \in PatchCall => Patching(d)
    BY <1>4, CallAssumption DEF Patching, Idle
  <2>2. Patching(d) => call[d] \in PatchCall
    BY <1>2 DEF Patching, Idle, ReadCall
  <2> QED BY <1>2, <2>1, <2>2
<1>6. TargetTypeOK'
  <2>1. \A d \in Client : call'[d] \in PatchCall \cup ReadCall \cup {None}
    BY <1>2, <1>4, <1>5
  <2>2. call' \in [Client -> PatchCall \cup ReadCall \cup {None}]
    BY <1>2, <2>1
  <2> QED BY <1>2, <2>2 DEF AInv, TargetTypeOK
<1>7. ASSUME NEW d \in Client, NEW j \in ReadCall, call'[d] = j
      PROVE  ReadOK(j)'
  <2>1. call[d] = j
    <3>1. j # None /\ j \notin PatchCall
      BY CallAssumption DEF ReadCall, PatchCall
    <3> QED BY <1>4, <1>5, <1>7, <3>1
  <2>2. ReadOK(j)
    BY <2>1 DEF AInv, CallsOK
  <2>3. Asks(j)
    BY <2>2 DEF ReadOK, Shape, Asks
  <2>4. NoRowGone(j)
    BY <1>2, <2>3, NoRowGoneIfSame DEF AInv
  <2> QED BY <2>2, <2>4, ReadStays DEF AInv
<1>8. ASSUME NEW d \in Client, NEW j \in PatchCall, call'[d] = j
      PROVE  PatchOK(j)'
  <2>1. j # None
    BY CallAssumption
  <2>2. CASE call'[d] = call[d] /\ (call[d] \in PatchCall => call[d].of # m)
    <3>1. PatchOK(j) /\ j.of \in Monitor \ {m}
      BY <1>8, <2>2 DEF AInv, CallsOK, PatchCall
    <3> QED BY <1>2, <1>3, <3>1 DEF PatchOK, Live
  <2>3. CASE call[d] \in PatchCall /\ call'[d] = [call[d] EXCEPT !.kept = {}]
    <3>1. j.kept = {} /\ j.of = call[d].of
      BY <1>4, <1>8, <2>3
    <3>2. phase[call[d].of] # "new"
      BY <2>3 DEF AInv, CallsOK, PatchOK
    <3> QED BY <1>2, <3>1, <3>2 DEF PatchOK
  <2> QED BY <1>5, <1>8, <2>1, <2>2, <2>3
<1> QED BY <1>6, <1>7, <1>8 DEF AInv, CallsOK

LEMMA EndPreservesCalls ==
  ASSUME AInv, IInv', NEW c \in Client, CallEnds(c)
  PROVE  AInv'
<1>1. /\ call' = [call EXCEPT ![c] = None]
      /\ call \in [Client -> PatchCall \cup ReadCall \cup {None}]
      /\ UNCHANGED <<phase, row, checklogs, incidents, tx, created>>
  BY DEF CallEnds, AInv, TargetTypeOK, storeVars
<1>2. TargetTypeOK'
  BY <1>1 DEF AInv, TargetTypeOK
<1>3. ASSUME NEW d \in Client, NEW j \in ReadCall, call'[d] = j
      PROVE  ReadOK(j)'
  <2>1. ReadOK(j)
    BY <1>1, <1>3, CallAssumption DEF AInv, CallsOK
  <2>2. Asks(j)
    BY <2>1 DEF ReadOK, Shape, Asks
  <2>3. NoRowGone(j)
    BY <1>1, <2>2, NoRowGoneIfSame DEF AInv
  <2> QED BY <2>1, <2>3, ReadStays DEF AInv
<1>4. ASSUME NEW d \in Client, NEW j \in PatchCall, call'[d] = j
      PROVE  PatchOK(j)'
  <2>1. PatchOK(j)
    BY <1>1, <1>4, CallAssumption DEF AInv, CallsOK
  <2> QED BY <1>1, <2>1 DEF PatchOK, Live
<1> QED BY <1>2, <1>3, <1>4 DEF AInv, CallsOK

-----------------------------------------------------------------------------
(* The worker's transactions leave what the calls rely on. *)

LEMMA WorkerPreservesCalls ==
  ASSUME AInv, IInv', WorkerSide
  PROVE  AInv'
<1>1. created' = created /\ call' = call
  BY DEF WorkerSide, apiVars
<1>2. created' \in [Monitor -> Time \cup {0}]
  BY <1>1 DEF AInv, TargetTypeOK
<1>3. StoreTypeOK
  BY DEF AInv, IInv
<1>4. /\ phase' = phase
      /\ \A n \in Monitor : /\ row'[n].interval = row[n].interval
                            /\ row'[n].enabled = row[n].enabled
      /\ \/ checklogs' = checklogs
         \/ \E m \in Monitor, x \in Result : checklogs' = [checklogs EXCEPT ![m] = Append(@, x)]
  <2>1. CASE ClaimStep
    BY <1>3, <2>1 DEF ClaimStep, ClaimDueMonitors, ClaimRows, StoreTypeOK, RowType
  <2>2. CASE Disconnect
    BY <2>2 DEF Disconnect
  <2>3. ASSUME NEW p \in Process, ApplyCommit(p)
        PROVE  <1>4!:
    <3>1. tx[p] \in TxType
      BY <1>3, <2>3 DEF ApplyCommit, StoreTypeOK
    <3>2. PICK m, x : m = tx[p].monitor /\ x = [outcome |-> tx[p].outcome, at |-> tx[p].at]
      OBVIOUS
    <3>3. phase' = phase
      BY <2>3 DEF ApplyCommit
    <3>4. \A n \in Monitor : row'[n].interval = row[n].interval /\ row'[n].enabled = row[n].enabled
      BY <1>3, <2>3 DEF ApplyCommit, StoreTypeOK, RowType
    <3>5. checklogs' = [checklogs EXCEPT ![m] = Append(@, x)]
      BY <2>3, <3>2 DEF ApplyCommit
    <3>6. m \in Monitor /\ x \in Result
      BY <3>1, <3>2 DEF TxType, Result
    <3> QED BY <3>3, <3>4, <3>5, <3>6
  <2>4. ASSUME UNCHANGED <<phase, row, checklogs>>
        PROVE  <1>4!:
    BY <2>4
  <2> QED BY <2>1, <2>2, <2>3, <2>4 DEF WorkerSide, ApplyStep, ApplyBegin, ApplyRollback
<1>5. ASSUME NEW k, Asks(k)
      PROVE  NoRowGone(k)
  <2>1. CASE k.op = "targets"
    BY <1>1, <1>4, <2>1 DEF NoRowGone, Live
  <2>2. CASE k.op # "targets"
    <3>1. PICK log : log = checklogs[k.of] /\ log \in Seq(Result)
      BY <1>5, <2>2, LogRows DEF AInv
    <3>2. \/ checklogs'[k.of] = log
          \/ \E x \in Result : checklogs'[k.of] = Append(log, x)
      BY <1>3, <1>4, <1>5, <2>2, <3>1 DEF StoreTypeOK, Asks
    <3>3. \A x \in Result : /\ Len(Append(log, x)) = Len(log) + 1
                            /\ \A i \in 1 .. Len(log) : Append(log, x)[i] = log[i]
      BY <3>1
    <3>4. Len(log) \in Nat
      BY <3>1
    <3> QED BY <2>2, <3>1, <3>2, <3>3, <3>4 DEF NoRowGone
  <2> QED BY <2>1, <2>2
<1>6. ASSUME NEW k \in PatchCall, PatchOK(k)
      PROVE  PatchOK(k)'
  BY <1>4, <1>6 DEF PatchOK, PatchCall, Live
<1> QED BY <1>1, <1>2, <1>5, <1>6, CallsStay

-----------------------------------------------------------------------------
(* The theorems. *)

LEMMA InitAInv == TargetInit => AInv
<1> SUFFICES ASSUME TargetInit PROVE AInv
  OBVIOUS
<1>1. IInv
  BY InitIInv DEF TargetInit
<1>2. TargetTypeOK
  BY DEF TargetInit, TargetTypeOK
<1>3. CallsOK
  BY CallAssumption DEF TargetInit, CallsOK
<1> QED BY <1>1, <1>2, <1>3 DEF AInv

LEMMA TargetStepPreserves == AInv /\ [TargetNext]_targetVars => AInv'
<1> SUFFICES ASSUME AInv, [TargetNext]_targetVars PROVE AInv'
  OBVIOUS
<1>1. IInv'
  BY StepKeepsStore
<1>2. ASSUME NEW m \in Monitor, PostTarget(m) \/ DeleteTarget(m)
      PROVE  AInv'
  BY <1>1, <1>2, PostPreservesCalls, DeletePreservesCalls
<1>3. ASSUME NEW c \in Client, CallStep(c)
      PROVE  AInv'
  <2>1. ASSUME NEW m \in Monitor, PatchRead(c, m)
        PROVE  AInv'
    BY <1>1, <2>1, PatchReadPreservesCalls
  <2>2. CASE PatchWrite(c)
    BY <1>1, <2>2, PatchWritePreservesCalls
  <2>3. ASSUME NEW raw \in AnySize
        PROVE  PageSize(raw) \in 0 .. maxPageSize
    BY DEF PageSize, maxPageSize
  <2>4. CASE List(c)
    <3>1. PICK raw \in AnySize : PageSize(raw) # 0 /\ Begin(c, "targets", None, Time, PageSize(raw))
      BY <2>4 DEF List
    <3> QED BY <2>3, <3>1, BeginPreservesCalls
  <2>5. ASSUME NEW window \in Windows
        PROVE  window \in SUBSET Time
    BY <2>5 DEF Windows
  <2>6. CASE Logs(c)
    <3>1. PICK m \in Monitor, window \in Windows, raw \in AnySize :
            PageSize(raw) # 0 /\ Begin(c, "logs", m, window, PageSize(raw))
      BY <2>6 DEF Logs
    <3> QED BY <2>3, <2>5, <3>1, BeginPreservesCalls
  <2>7. CASE GetMonitorStats(c)
    <3>1. PICK m \in Monitor, window \in Windows : Begin(c, "stats", m, window, 0)
      BY <2>7 DEF GetMonitorStats
    <3>2. 0 \in 0 .. maxPageSize
      BY DEF maxPageSize
    <3> QED BY <2>5, <3>1, <3>2, BeginPreservesCalls
  <2>8. CASE LogsExist(c) \/ Count(c) \/ Select(c) \/ Aggregate(c) \/ Timeline(c)
    BY <2>8, ExistPreservesCalls, CountPreservesCalls, SelectPreservesCalls,
       AggregatePreservesCalls, TimelinePreservesCalls
  <2>9. CASE CallEnds(c)
    BY <1>1, <2>9, EndPreservesCalls
  <2> QED BY <1>3, <2>1, <2>2, <2>4, <2>6, <2>7, <2>8, <2>9 DEF CallStep
<1>4. CASE WorkerSide
  BY <1>1, <1>4, WorkerPreservesCalls
<1>5. CASE UNCHANGED targetVars
  <2>1. UNCHANGED <<phase, row, checklogs, incidents, tx, created, call>>
    BY <1>5 DEF targetVars, storeVars, apiVars
  <2>2. \A k : Asks(k) => NoRowGone(k)
    BY <2>1, NoRowGoneIfSame DEF AInv
  <2>3. \A k \in PatchCall : PatchOK(k) => PatchOK(k)'
    BY <2>1 DEF PatchOK, Live
  <2>4. created' \in [Monitor -> Time \cup {0}]
    BY <2>1 DEF AInv, TargetTypeOK
  <2> QED BY <1>1, <2>1, <2>2, <2>3, <2>4, CallsStay
<1> QED BY <1>2, <1>3, <1>4, <1>5 DEF TargetNext

\* The inductive invariant of the calls and the tables.
THEOREM TargetInvariant == TargetSpec => []AInv
BY InitAInv, TargetStepPreserves, PTL DEF TargetSpec

\* The API and the worker together do to the tables what MonitorStore says:
\* what is proved of StoreSpec holds of them.
THEOREM TargetsUseStore == TargetSpec => StoreSpec
<1>1. TargetInit => StoreInit
  BY DEF TargetInit
<1>2. AInv /\ [TargetNext]_targetVars => [StoreNext]_storeVars
  BY StepUsesStore DEF AInv
<1> QED BY <1>1, <1>2, TargetInvariant, PTL DEF TargetSpec, StoreSpec

\* Calls in flight are well formed: what a PATCH is about to write is valid.
THEOREM TargetsTypeCorrect == TargetSpec => []TargetTypeOK
<1>1. AInv => TargetTypeOK
  BY DEF AInv
<1> QED BY <1>1, TargetInvariant, PTL

\* A PATCH that meets no other one changes nothing it was not asked to.
THEOREM PatchKeeps == TargetSpec => []PatchKeepsTheRest
<1>1. AInv => PatchKeepsTheRest
  <2> SUFFICES ASSUME AInv, NEW c \in Client, Patching(c), call[c].of \in Live,
                      NEW f \in call[c].kept
               PROVE  call[c].current[f] = row[call[c].of][f]
    BY DEF PatchKeepsTheRest
  <2>1. call[c] \in PatchCall
    BY DEF AInv, TargetTypeOK, Patching, Idle, ReadCall
  <2>2. PatchOK(call[c])
    BY <2>1 DEF AInv, CallsOK
  <2>3. f \in {"interval", "enabled"}
    BY <2>1 DEF PatchCall
  <2>4. CASE f = "interval"
    BY <2>2, <2>4 DEF PatchOK
  <2>5. CASE f = "enabled"
    BY <2>2, <2>5 DEF PatchOK
  <2> QED BY <2>3, <2>4, <2>5
<1> QED BY <1>1, TargetInvariant, PTL

\* A reader of all the pages has seen every row that was there, unless one was
\* deleted or the last page was counted before an insertion.
THEOREM PagesSkipNothing == TargetSpec => []NothingSkipped
<1>1. AInv => NothingSkipped
  BY CallOfReader DEF NothingSkipped, At, ReadOK, Complete, Listing
<1> QED BY <1>1, TargetInvariant, PTL

\* A check that is drawn and not counted was committed after the counting, and
\* one that is counted and not drawn is no older than the checks of a full timeline.
THEOREM TimelineMatchesStats == TargetSpec => []StatsAgree
<1>1. AInv => StatsAgree
  <2> SUFFICES ASSUME AInv, NEW c \in Client, At(c, "done"), call[c].op = "stats",
                      ~ call[c].shrunk, NEW k, k = call[c]
               PROVE  /\ \A i \in k.seen \ k.there : i > k.total
                      /\ \A i \in k.there \ k.seen :
                           /\ Cardinality(k.seen) = MaxTimeline
                           /\ \A j \in k.seen :
                                checklogs[k.of][j].at <= checklogs[k.of][i].at
    BY DEF StatsAgree
  <2>1. ReadOK(k) /\ k.step = "done"
    BY CallOfReader DEF At
  <2> QED BY <2>1 DEF ReadOK, Complete, Listing
<1> QED BY <1>1, TargetInvariant, PTL

\* The row summarises the log beside the API too.
THEOREM TargetsLoseNoUpdate == TargetSpec => []RowFollowsLog
BY TargetsUseStore, NoLostUpdate, PTL

\* Whatever calls the API has in flight beside the worker, no call can be seen
\* in the health of a target but the ones that create and delete it.
THEOREM TargetsKeepHealth == TargetSpec => HealthIsKept
BY TargetsUseStore, StoreKeepsHealth, PTL
=============================================================================
