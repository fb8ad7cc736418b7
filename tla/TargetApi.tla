----------------------------- MODULE TargetApi -------------------------------
(***************************************************************************)
(* The targets API (src/internal/handler/target.go, internal/monitor): the *)
(* calls that one user has in flight on the tables of MonitorStore, beside *)
(* the worker.  A call is a sequence of statements without a transaction   *)
(* around them: PATCH reads the row, merges and validates, then writes; a  *)
(* page of a list is a count and a select (after an existence check for    *)
(* logs); the statistics are an aggregate and a timeline.  Every statement *)
(* says "user_id = $n": to a call, another user's target is one that is    *)
(* not live.                                                               *)
(***************************************************************************)
EXTENDS MonitorStore, MachineInt, Functions

CONSTANTS
  Client,       \* calls that can be in flight at once
  AnyInterval,  \* values of "interval" in a request; 0 is also a missing one
  AnySize,      \* values of page_size in a request, None when it is left out
  MaxTimeline,  \* "limit 1000" of the timeline
  LogId,        \* LogId[m][i]: the place of the id of m's i-th result among its ids
  ReadsAlone    \* bound: a reading call has no other call beside it

MinIntervalSeconds == 30
MaxIntervalSeconds == 3600
defaultPageSize    == 20
maxPageSize        == 100

ASSUME TargetAssumption ==
  /\ Monitor \subseteq Nat /\ IsFiniteSet(Monitor)
  /\ AnyInterval \subseteq Int
  /\ Interval = AnyInterval \cap (MinIntervalSeconds .. MaxIntervalSeconds)
  /\ AnySize \subseteq Int \cup {None} /\ None \notin Int
  /\ MaxTimeline \in Nat \ {0}
  /\ \A m \in Monitor : /\ LogId[m] \in [1 .. MaxLogs -> 1 .. MaxLogs]
                        /\ IsInjective(LogId[m])
  /\ ReadsAlone \in BOOLEAN

VARIABLES
  created,   \* created[m]: created_at of a target, whose id is m
  call       \* call[c]: the call c is making, or None

apiVars    == <<created, call>>
targetVars == <<storeVars, apiVars>>

-----------------------------------------------------------------------------
(* Requests and their validation (parsePagination, normalizeURL,           *)
(* normalizeInterval).  A URL is right or wrong; a name is always right.   *)

\* Mutant: the lower bound is one too low.
ValidIntervalOffByOne(i) == i \in MinIntervalSeconds - 1 .. MaxIntervalSeconds

ValidInterval(i) == i \in MinIntervalSeconds .. MaxIntervalSeconds

\* None: the field is left out.  "text" stands for url and name.
UpdateRequest == [text : {None, "right", "wrong"}, interval : AnyInterval \cup {None},
                  enabled : BOOLEAN \cup {None}]

EmptyUpdate(req) == \A f \in DOMAIN req : req[f] = None

CreateRequest == [text : {"right", "wrong"}, interval : AnyInterval,
                  enabled : BOOLEAN \cup {None}]

Given(value, default) == IF value = None THEN default ELSE value

\* The handler's default for a new target.
EnabledOf(req) == Given(req.enabled, TRUE)

\* Mutant: the default of POST is taken for PATCH too.
MergedAsNew(req, m) == [interval |-> Given(req.interval, row[m].interval),
                        enabled  |-> Given(req.enabled, TRUE)]

\* The fields given over those of the row read; the stored url is right.
Merged(req, m) == [interval |-> Given(req.interval, row[m].interval),
                   enabled  |-> Given(req.enabled, row[m].enabled)]

\* page_size; 0 stands for a request that is refused with 400.
PageSize(raw) ==
  LET size == Given(raw, defaultPageSize)
  IN  IF size \in 1 .. maxPageSize THEN size ELSE 0

-----------------------------------------------------------------------------
(* The rows a reading call lists, in the order of its queries.             *)

\* order by created_at desc, id desc
TargetBefore(a, b) == created[a] > created[b] \/ (created[a] = created[b] /\ a > b)

\* gen_random_uuid(): a later result has any other id, smaller or greater.
IdOf(m, i) == IF i \in 1 .. MaxLogs THEN LogId[m][i] ELSE i

\* order by checked_at desc, id desc
LogBefore(m, i, j) ==
  \/ checklogs[m][i].at > checklogs[m][j].at
  \/ checklogs[m][i].at = checklogs[m][j].at /\ IdOf(m, i) > IdOf(m, j)

\* The instants that pass the filter "from" and "to", both optional; from
\* after to is refused.
Windows == {{t \in Time : w[1] <= t /\ t <= w[2]} : w \in {r \in Time \X Time : r[1] <= r[2]}}

RowsOf(k) ==
  IF k.op = "targets" THEN Live
  ELSE {i \in DOMAIN checklogs[k.of] : checklogs[k.of][i].at \in k.window}

Before(k, a, b) == IF k.op = "targets" THEN TargetBefore(a, b) ELSE LogBefore(k.of, a, b)

Rank(k, a) == Cardinality({b \in RowsOf(k) : Before(k, b, a)})

\* Mutant: pages are counted from 0.
OffsetFromZero(k) == Wrap(k.page * k.size)

\* The product is computed in an int.
Offset(k) == Wrap((k.page - 1) * k.size)

\* limit size offset Offset
OnPage(k) == {a \in RowsOf(k) : Offset(k) <= Rank(k, a) /\ Rank(k, a) < Offset(k) + k.size}

\* What "order by checked_at asc limit MaxTimeline" can return.
Timelines(k) ==
  {S \in SUBSET RowsOf(k) :
     /\ Cardinality(S) <= MaxTimeline
     /\ Cardinality(S) = MaxTimeline \/ S = RowsOf(k)
     /\ \A i \in S, j \in RowsOf(k) \ S : checklogs[k.of][i].at <= checklogs[k.of][j].at}

-----------------------------------------------------------------------------
(* The calls. *)

\* current: what PATCH will write; kept (auxiliary): the fields it was not
\* given, forgotten when another PATCH of the target is written first.
PatchCall == [op : {"patch"}, of : Monitor, current : [interval : Interval, enabled : BOOLEAN],
              kept : SUBSET {"interval", "enabled"}]

\* step: the statement to make next; there: the rows there were at the
\* first statement; seen: the rows returned so far; total: the count of this page,
\* for statistics (auxiliary) the length of the log when it was counted;
\* shrunk, grew (auxiliary): a row was deleted meanwhile, or one was inserted
\* between the count and the select.
ReadCall == [op : {"targets", "logs", "stats"}, of : Monitor \cup {None}, window : SUBSET Time,
             size : 0 .. maxPageSize, page : Nat \ {0},
             step : {"exists", "count", "select", "aggregate", "timeline", "done"},
             there : SUBSET Nat, seen : SUBSET Nat, total : Nat,
             shrunk : BOOLEAN, grew : BOOLEAN]

ASSUME CallAssumption == None \notin PatchCall \cup ReadCall

Idle(c) == call[c] = None
Patching(c) == ~ Idle(c) /\ call[c].op = "patch"
Reading(c) == ~ Idle(c) /\ call[c].op # "patch"
At(c, step) == Reading(c) /\ call[c].step = step

\* The bound on what is in flight together.
MayPatch(c) == Idle(c) /\ (ReadsAlone => \A d \in Client : ~ Reading(d))
MayRead(c) == Idle(c) /\ (ReadsAlone => \A d \in Client : Idle(d))

\* POST: one insert, whose now() is both next_check_at and created_at.
PostTarget(m) ==
  /\ \E req \in CreateRequest, now \in Time :
       /\ req.text = "right" /\ ValidInterval(req.interval)
       /\ CreateMonitor(m, EnabledOf(req), req.interval, now)
       /\ created' = [created EXCEPT ![m] = now]
  /\ UNCHANGED call

\* The rows listed by the calls in flight are fewer now.
DeleteTarget(m) ==
  /\ DeleteMonitor(m)
  /\ call' = [c \in Client |->
                IF Reading(c) /\ (call[c].op = "targets" \/ call[c].of = m)
                THEN [call[c] EXCEPT !.shrunk = TRUE] ELSE call[c]]
  /\ UNCHANGED created

\* PATCH, the first statement; ErrEmptyUpdate, ErrNotFound and a merged row
\* that is not valid end the call without a change.
PatchRead(c, m) ==
  /\ MayPatch(c)
  /\ m \in Live
  /\ \E req \in UpdateRequest :
       /\ ~ EmptyUpdate(req)
       /\ req.text # "wrong" /\ ValidInterval(Merged(req, m).interval)
       /\ call' = [call EXCEPT ![c] =
                     [op |-> "patch", of |-> m, current |-> Merged(req, m),
                      kept |-> {f \in {"interval", "enabled"} : req[f] = None}]]
  /\ UNCHANGED <<storeVars, created>>

\* PATCH, the second statement.
PatchWrite(c) ==
  /\ Patching(c)
  /\ UpdateMonitor(call[c].of, call[c].current.enabled, call[c].current.interval)
  /\ call' = [d \in Client |->
                IF d = c THEN None
                ELSE IF Patching(d) /\ call[d].of = call[c].of
                     THEN [call[d] EXCEPT !.kept = {}] ELSE call[d]]
  /\ UNCHANGED created

\* No row to update (ErrNotFound), a statement that fails, or a client that
\* has gone; at any statement of any call.
CallEnds(c) ==
  /\ ~ Idle(c)
  /\ call' = [call EXCEPT ![c] = None]
  /\ UNCHANGED <<storeVars, created>>

\* Mutant: the timeline is read first.
StatsQueriesSwapped == <<"timeline", "aggregate">>

StatsQueries == <<"aggregate", "timeline">>

FirstStep(op) ==
  CASE op = "targets" -> "count"
    [] op = "logs"    -> "exists"
    [] op = "stats"   -> StatsQueries[1]

Continue(c, k) ==
  /\ call' = [call EXCEPT ![c] = k]
  /\ UNCHANGED <<storeVars, created>>

\* A reading call begins.
Begin(c, op, of, window, size) ==
  /\ MayRead(c)
  /\ Continue(c, [op |-> op, of |-> of, window |-> window, size |-> size, page |-> 1,
                  step |-> FirstStep(op), there |-> {}, seen |-> {}, total |-> 0,
                  shrunk |-> FALSE, grew |-> FALSE])

\* One who lists asks for one page after the other.
List(c) ==
  \E raw \in AnySize : PageSize(raw) # 0 /\ Begin(c, "targets", None, Time, PageSize(raw))

Logs(c) ==
  \E m \in Monitor, window \in Windows, raw \in AnySize :
    PageSize(raw) # 0 /\ Begin(c, "logs", m, window, PageSize(raw))

GetMonitorStats(c) ==
  \E m \in Monitor, window \in Windows : Begin(c, "stats", m, window, 0)

\* ExistsByIDAndUserID; its refusal is CallEnds.
LogsExist(c) ==
  /\ At(c, "exists") /\ call[c].of \in Live
  /\ Continue(c, [call[c] EXCEPT !.step = "count"])

\* count(*) is a bigint; what it cannot hold is an error of the query.
Count(c) ==
  /\ At(c, "count")
  /\ LET rows == RowsOf(call[c])
     IN  /\ Cardinality(rows) \in MachineInts
         /\ Continue(c, [call[c] EXCEPT !.step = "select", !.total = Cardinality(rows),
                                        !.there = IF call[c].page = 1 THEN rows ELSE @])

\* The pages of the dashboard: max(1, ceil(total / page_size)).
PageCount(k) == IF k.total = 0 THEN 1 ELSE (k.total + k.size - 1) \div k.size

\* A negative offset is an error of the query.
Select(c) ==
  /\ At(c, "select")
  /\ Offset(call[c]) >= 0
  /\ LET k == call[c]
         last == k.page >= PageCount(k)
     IN  Continue(c, [k EXCEPT !.seen = @ \cup OnPage(k),
                               !.page = IF last THEN @ ELSE @ + 1,
                               !.step = IF last THEN "done" ELSE FirstStep(k.op),
                               !.grew = last /\ Cardinality(RowsOf(k)) > k.total])

StatsStep(c) == IF call[c].step = StatsQueries[1] THEN StatsQueries[2] ELSE "done"

\* Neither statement asks whether the target exists.
Aggregate(c) ==
  /\ At(c, "aggregate")
  /\ Continue(c, [call[c] EXCEPT !.step = StatsStep(c), !.there = RowsOf(call[c]),
                                 !.total = Len(checklogs[call[c].of])])

Timeline(c) ==
  /\ At(c, "timeline")
  /\ \E S \in Timelines(call[c]) :
       Continue(c, [call[c] EXCEPT !.step = StatsStep(c), !.seen = S])

-----------------------------------------------------------------------------

TargetInit ==
  /\ StoreInit
  /\ created = [m \in Monitor |-> 0]
  /\ call = [c \in Client |-> None]

CallStep(c) ==
  \/ \E m \in Monitor : PatchRead(c, m)
  \/ PatchWrite(c)
  \/ List(c) \/ Logs(c) \/ GetMonitorStats(c)
  \/ LogsExist(c) \/ Count(c) \/ Select(c)
  \/ Aggregate(c) \/ Timeline(c)
  \/ CallEnds(c)

WorkerSide == (ClaimStep \/ ApplyStep \/ Disconnect) /\ UNCHANGED apiVars

TargetNext ==
  \/ \E m \in Monitor : PostTarget(m) \/ DeleteTarget(m)
  \/ \E c \in Client : CallStep(c)
  \/ WorkerSide

TargetSpec == TargetInit /\ [][TargetNext]_targetVars

-----------------------------------------------------------------------------
(* Properties. *)

\* Every variable keeps its type: what a PATCH is about to write is valid.
TargetTypeOK ==
  /\ created \in [Monitor -> Time \cup {0}]
  /\ call \in [Client -> PatchCall \cup ReadCall \cup {None}]

\* A PATCH changes nothing it was not asked to change: unless another PATCH
\* of the target came in between, the fields it was not given are still in
\* the row what they were when it read them, so writing them back is no
\* change.  The worker, whose transactions write the same row, never makes
\* them stale.
PatchKeepsTheRest ==
  \A c \in Client :
    Patching(c) /\ call[c].of \in Live =>
      \A f \in call[c].kept : call[c].current[f] = row[call[c].of][f]

\* Who turns the pages up to the last one has seen every row that was there
\* at the start: rows that come meanwhile may show a row twice, and never
\* hide one.  It takes a deletion, which moves the rest up, or an insertion
\* between the count and the select of the last page, which is then not the
\* last one, to miss a row.
NothingSkipped ==
  \A c \in Client :
    At(c, "done") /\ call[c].op \in {"targets", "logs"} =>
      call[c].shrunk \/ call[c].grew \/ call[c].there \subseteq call[c].seen

\* The numbers and the timeline of one answer differ in two ways only: a check
\* that is drawn and not counted was committed after the counting, and one that
\* is counted and not drawn had no room on a full timeline of checks that are
\* no younger.  Nothing is lost or counted twice between the two statements,
\* unless the target is deleted between them.
StatsAgree ==
  \A c \in Client :
    At(c, "done") /\ call[c].op = "stats" /\ ~ call[c].shrunk =>
      LET k == call[c]
          log == checklogs[k.of]
      IN  /\ \A i \in k.seen \ k.there : i > k.total
          /\ \A i \in k.there \ k.seen :
               /\ Cardinality(k.seen) = MaxTimeline
               /\ \A j \in k.seen : log[j].at <= log[i].at
=============================================================================
