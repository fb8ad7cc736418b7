# A verification development for pingme-golang

PingMe checks URLs at intervals, keeps a log of the results, opens an incident
when a target goes down, and tells the owner's alert channels. This directory
holds TLA+ modules that model the parts of it where order, failure and
concurrency decide what happens, TLC configurations that check them on small
instances, and TLAPS proofs for every instance.

Paths below are relative to the repository (`src/`).

## 1. The system

Three processes share one PostgreSQL database: the API (`cmd/api`), the worker
(`cmd/worker`) and the Telegram bot (`cmd/bot`). A single-page frontend calls
the API.

| Component | State | Operations | Talks to |
|---|---|---|---|
| Worker: runner (`internal/worker/runner.go`) | scheduler goroutine, bounded channel `jobs`, N worker goroutines, context, `errCh` | claim and enqueue on every tick, take a job, stop on SIGTERM | repository, checker, notifier |
| Worker: repository (`worker/repository.go`) | tables `monitors`, `checklogs`, `incidents` | `ClaimDueMonitors`, `ApplyCheckResult`, `ListEnabledAlertChannels` | PostgreSQL |
| Worker: state machine (`worker/state.go`) | none | `evaluateStateTransition` | called inside `ApplyCheckResult` |
| Worker: checker, notifier | none | one HTTP check; one request per enabled channel | targets, Telegram, webhooks |
| Worker: configuration (`worker/config.go`) | none | `LoadConfigFromEnv` | sizes of the runner's pool, batch and channel |
| Targets API (`internal/handler/target.go`, `internal/monitor`) | `monitors` | create, PATCH, delete, lists, logs, statistics | the worker, through the rows |
| Alert channels API (`internal/alertchannel`) | `alert_channels` | create, PATCH, delete, list | worker and bot, through the rows |
| Telegram linking (`internal/telegramlink`) | `telegram_link_tokens`, the bot's offset | create a token; poll, consume the token, enable the channel, reply | Telegram, `alert_channels` |
| Auth (`internal/auth`, `internal/handler/auth.go`) | `auth_sessions` | register, login, refresh (rotation), logout | frontend |
| Frontend (`frontend/src`) | the token pair in React state and in localStorage | `authedRequest`, sign in, log out, the pages | API |
| Plumbing | none | routing, JSON, logging, health, the other configuration, migrations | |

What is hard, and what makes each component correct:

- **Repository.** Two results of one monitor, claims and API writes meet on the
  same row. The row must be the summary of all committed results, a monitor
  down exactly while its latest incident is open, one incident per outage; the
  unique index on open incidents must never refuse a transaction, since it would
  refuse every later one of that monitor too.
- **Runner.** A bounded channel between goroutines that all leave on SIGTERM; a
  process that may be killed between two steps; a database that fails, also
  after it has committed. It must always end when told to, serve every due
  monitor, never record an aborted check, never tell a channel twice or tell it
  what was rolled back.
- **Auth.** Rotation is three statements without a transaction, run by any
  number of concurrent requests with the same token. A login must own at most
  one live session, and none any more once a logout has found and revoked it.
- **Frontend.** Asynchronous functions keep the tokens of the render they were
  made in, while others replace them.
- **Telegram linking.** Updates are delivered again after a restart, tokens are
  for one use, replies are sent after the commit.
- **Channels, targets.** PATCH reads, merges, validates and writes in two
  statements; a page of a list, and the statistics of a target, are two or three
  statements too. A PATCH must not undo what the worker or the other calls did,
  a stored row must be valid, and who turns the pages must see every row.
- **Configuration.** The size of the channel is a product computed in an `int`;
  whatever the environment says, a job must fit and a worker must exist.

## 2. The modules

| Module | Models | Extends |
|---|---|---|
| `MonitorStatus` | `evaluateStateTransition`, and what a log of results means (streak, status, outages) defined without stepping | |
| `TargetHealth` | abstract: what the owner of targets is promised | |
| `MonitorStore` | the tables and every transaction on them; implements `TargetHealth` | `MonitorStatus` |
| `Runner` | the worker process on the store, beside the API; implements `MonitorStore` | `MonitorStore` |
| `MachineInt` | the program's `int` | |
| `WorkerConfig` | `LoadConfigFromEnv` | `MachineInt` |
| `TargetApi` | the calls of the targets API, statement by statement, beside the worker's transactions; implements `MonitorStore` | `MonitorStore`, `MachineInt` |
| `LoginChain` | abstract: what a signed-in user is promised | |
| `AuthSessions` | `auth_sessions` and the auth handlers, one statement per step; implements `LoginChain` | |
| `Frontend` | the tabs of a browser on top of the handlers; implements `AuthSessions` | `AuthSessions` |
| `AlertChannels` | `alert_channels`, its API and the bot's upsert | |
| `DeepLink` | abstract: what a user who opens deep links is promised | |
| `TelegramLink` | link tokens, Telegram's queue, the bot processes; implements `DeepLink` | `AlertChannels` |
| `MonitorStoreProofs`, `RunnerProofs`, `WorkerConfigProofs`, `TargetApiProofs`, `AuthSessionsProofs`, `FrontendProofs`, `AlertChannelsProofs`, `TelegramLinkProofs` | theorems | the module they are named after |
| `MC...` | small instances for TLC | the module they are named after; `MCRunner` also `WorkerConfig`, from which its instances take their sizes |

### State and actions against the code

**MonitorStore.** `row[m]` holds the columns that decide behaviour (`enabled`,
`interval_seconds`, `last_status`, `consecutive_failures`, `next_check_at`,
`last_checked_at`), `checklogs[m]` and `incidents[m]` the child rows in order
of their commit, `tx[p]` the open `ApplyCheckResult` of a connection.
`ClaimDueMonitors` and the API's statements are single actions: each locks and
writes in one transaction in which nothing else can be observed.
`ApplyCheckResult` is split where it matters: `ApplyBegin` is the
`select ... for update`, `ApplyCommit` everything from there to the commit.
`Claimable` skips rows that are locked (`for update skip locked`), API writes
wait for them. A deleted monitor keeps a blank row, and its id is never used
again.

**TargetHealth.** A target is `absent`, `unknown`, `up`, `down` or `removed`;
`Falls` opens an incident, `Recovers` resolves one. The refinement mapping
`Health` of `MonitorStore` reads the health off `last_status` and the counts off
`incidents`; logs, failure counts, claims, locks and open transactions vanish, so
that `HealthIsKept` says that none of them can be seen from outside.

**Runner.** One variable per program counter: `schedPc` for
`runScheduler`/`enqueueDueMonitors`, `pc[w]` for `runWorker`/`processMonitor`,
`proc` for `Run` and `main`. Each action is the code between two points at
which another goroutine, the database or the network can act. `Tick` is the
`time.Ticker` with its buffer of one. `CheckDone` may happen at any later time
with any outcome, `aborted` only when the context is done. `Exit` is the end of
the process: goroutines vanish and PostgreSQL rolls their transactions back.
`Cancel` is SIGTERM or SIGINT, `Kill` a crash, `Restart` a new start.

**WorkerConfig.** `LoadConfigFromEnv` with its defaults and clamps, as a function
of three settings; a setting that is missing or is not a number is `Unset`. The
default queue is `workers * 2` in an `int` of `2 * HalfRange` values, which wraps.

**TargetApi.** `call[c]` is one HTTP call and the statement it makes next,
`created` the column the list of targets is ordered by. POST and DELETE are one
statement. PATCH is `PatchRead` (read, merge, validate) and `PatchWrite` (write
the merged columns). A list is, for every page, `Count` and `Select`, for logs
after `LogsExist`; statistics are `Aggregate` and `Timeline`, in the order of the
code. `CallEnds` is a call that stops at any point: no row, a statement that
fails, a client that left. A page holds the rows whose rank in the query's order
is in the window that `limit` and `offset` cut out, the offset being a product
in an `int`. The fields `kept`, `there`, `shrunk` and `grew` are auxiliary: they
record what the properties speak of. Every statement of this API says
`user_id = $n`; another user's target is, to a call, one that is not live.

**AuthSessions.** `sessions` is the table in order of creation, `call[c]` the
handler of one HTTP request and the statement it is about to make. `Refresh`
is `LoadSession`, `RevokeSession` (which affects no row if another was first),
`CreateSession`; the failures are `StatementFails` (no effect), `AnswerLost`
(effect, but the handler sees an error), and `SignFails` followed by
`UndoSession`. Clients may send any refresh token that was ever issued, as often
as they like. `login` is a ghost: the first session of the chain.

**LoginChain.** A login is a chain of sessions: `SignIn` opens it, `Exchange`
spends its one honoured session, `Renew` issues the successor, `End` closes it
for good. The mapping `Chains` of `AuthSessions` reads off the table, per login,
the sessions issued, those not revoked, and whether a session is live or a
handler is between the revocation and the insertion of a rotation; all else that handlers
hold, their order and their failures vanish, so that `ChainIsKept` says what they
can do to a login at most.

**Frontend.** A task is one asynchronous function of the page in one tab, with
`held`, the tokens its closure captured. `RequestUnauthorized`, `Refreshed`,
`RefreshFailed` and `Retry` are the branches of `authedRequest`; `NextRequest`
is the second request that most functions make. `Fails` is a request that gets
no answer while the server goes on. The module composes with `AuthSessions`:
the page's requests are its `Login`, `Refresh` and `Logout`.

**AlertChannels.** `UpdateLoad` is PATCH up to its second statement (read, merge,
validate), `UpdateStore` that statement: it writes all columns, or finds the row
gone (404) or the key taken (409). `Upsert` is what the bot does to the table.

**TelegramLink.** `updates` and `confirmed` are Telegram's side of
`getUpdates`: an update is delivered until a request names a larger offset.
`bot[b]` is a process: its offset (in memory only), the rest of the batch, and
where it is in `handleUpdate`. `LinkBegin` waits for the row lock of the token
and then tests `used_at` and `expires_at` against the time at which `LinkChat`
was called; `LinkCommit`, `LinkCommitUnknown` and `LinkFails` are the ways the
transaction can end. `Stop` covers SIGTERM too: with the context done, no
request or statement has an effect and the next `getUpdates` leaves the loop.

**DeepLink.** A link connects one chat, alerts reach that chat from the same step
on (`Connect`), and a chat is told so only afterwards (`Tell`). The mapping of
`TelegramLink` reads the links off `used_at`, what is reached off the enabled
Telegram channels, and what was told off the replies; queues, offsets, batches,
locks, redeliveries and the processes themselves vanish. `LinksAreKept` therefore
also says that `ConsumeLinkToken` marks the token and enables the channel together.

## 3. What the runs check

| Run | Instance | Shows |
|---|---|---|
| `target_api` | 3 targets, 2 calls in flight, 1 connection of the worker, up to 3 checks of a target, a timeline of 2 | types, `RowFollowsLog`, `PatchKeepsTheRest`, `NothingSkipped`, `StatsAgree` |
| `runner_safety` | 1 monitor next to the threshold, 2 workers, API calls, a database fault, SIGTERM, SIGKILL, a restart | types, `RowFollowsLog`, `OpenIncidentIffDown`, `OneIncidentPerOutage`, `TransitionFitsIncidents`, `AlertsAtMostOnce`, `AlertsTellTheTruth`, `NoAbortedCheckLogged`; the health of a target is kept (`HealthIsKept`); `EveryConfigUsable` is evaluated for ints from -8 to 7 |
| `runner_liveness` | 2 monitors due again and again on a clock without end, batch, queue and pool of 1, a fault, signals | `DueIsServed`, `StopCompletes`, `StopProgresses` |
| `auth_sessions` | 3 concurrent calls, 3 sessions, tokens that expire, failures | types, `OneLivePerLogin`, `DeadLoginStaysDead`; every behaviour is one of `LoginChain` (`ChainIsKept`) |
| `frontend` | 2 tabs, failures, reloads | types, `CommitsAreOrdered` |
| `channels` | 2 overlapping PATCH calls, 3 rows | types, `ChannelsValid` |
| `telegram` | 2 bot processes, 2 chats, 2 messages, a fault, stops at any point | types, `OneLinkPerToken`, `ConfirmedWasHandled`, `RepliesTellTheTruth`, `StartAnswered`; every behaviour is one of `DeepLink` (`LinksAreKept`) |
| `alert_lost` | 1 monitor one failure from down, SIGTERM | `AlertNotLost` is violated |
| `out_of_order` | 1 monitor, 2 workers | `IncidentsMatchCheckedAt` is violated |
| `early_recheck` | 1 new monitor, interval 2 | `IntervalRespected` is violated |
| `session_dropped` | 1 tab, nothing fails | `SessionKept` is violated |
| `logged_in_again` | 1 tab, 2 tasks | `LoggedOutStaysOut` is violated |

Beside each property of a passing run stands a mutant (a definition whose
comment begins with "Mutant:"): a change of the model like a likely bug in the
code (no `for update`, `used_at is null` forgotten, an error ignored) under
which TLC finds the property violated. Mutants are not part of any
specification.

### What the violated properties say

1. **A notification can be lost** (`runner.go:148`). The incident is committed,
   then the channels are listed and called, once, under the same context. A
   SIGTERM or a failed query in between drops the alert; the status has changed
   already, so no later check announces it. `AlertNotLost` asks this of each
   event, `down` and `recovered`, and of each enabled channel.
2. **The log can contradict the incidents** (`runner.go:137`). `CheckedAt` is
   taken before the transaction, and failures are counted in commit order.
3. **A new target is checked at every tick** until its first result is stored
   (`worker/repository.go:51`), whatever its interval. This is also how two jobs
   of one monitor get into flight.
4. **A refresh in the middle of a page function signs the user out**
   (`App.tsx:151`). Its second request still holds the old pair; the refresh with
   the rotated token is refused and `endSession` clears the new pair.
5. **A logout can be undone** (`App.tsx:153`). A refresh whose rotation precedes
   the logout commits its pair when its answer arrives after it.

Three of them are delimited by theorems, which say where the property does hold:
the first by `UndisturbedAlertsArrive`, the second by `OneWorkerCountsInOrder`, the
fifth by `AloneStaysOut` (section 4).

### Bounds, and why they are enough

- Time is counted in scheduler ticks (`Runner`), or in units of a token's
  lifetime. `MaxTime` is 1 or 2: enough for a monitor to become due again, for a
  claim to run with an old tick, for a token to expire while it is in use.
- `runner_liveness` has time without end. A clock that stops would take away
  what can starve a monitor: others that are due again and again and are claimed
  before it. `EndlessSpec` of `MCRunner` therefore alternates steps of the program
  with `TidyUp`, which takes out of the clock every instant that is past and at
  which no `next_check_at` lies, and moves what is later down. This is exact: an
  instant before all those the process may still read matters by its order among
  the `next_check_at` alone, and `TidyUp` keeps that order. It also forgets the
  log and the times of the checks, which no step reads while targets answer
  (`TargetsAnswer`). What `MaxTime` bounds here is how far the clock can be ahead
  of the oldest instant that still matters. With two monitors, whose
  `next_check_at` can be two past instants, and the times of a claim with an old
  tick and of the clock, four instants (`MaxTime` 3) are enough for it to go on for
  ever: at the last one it waits for the scheduler, never for good. `MaxLogs` is 1
  and never reached, since the log is emptied.
- `MaxLogs` leaves room for a threshold of 3 and a recovery; `Histories`
  put a monitor next to the threshold from the start. In `target_api` it is 3:
  three checks are three pages of one row, so rows that come while a reader is on
  the first page shift the second, and one more than the timeline holds
  (`MaxTimeline` 2; 1000 in the code), which is not full with one check. So are
  three targets. Checks of the same time are listed by their ids, which are random
  (`IdOf`): `LogId` gives the third an id between the first two, so a new row also
  lands between old ones.
- `FirstOnly` keeps the changes of PATCH and the worker in `target_api` to the
  first of the targets; the others come and go and are listed. What a PATCH, a
  check or a claim does to one target it does not do to another. Since a claim and
  a creation are at time 0, what remains of the clock is the order of the checks.
  `ReadsOnly` keeps still what a call does not read: the checks while targets are
  listed, the other targets while one target is looked at.
- `ReadsAlone` keeps a reading call of `target_api` apart from other calls: it
  sees POST, DELETE and the worker between its statements, and PATCH writes no
  column by which a row is listed. `AnySize` and `AnyInterval` hold a valid value
  and the invalid one next to it (0 and 1, 29 and 30); pages hold one row or
  two.
- `HalfRange` is 8 instead of 2^63, so that products wrap in reach: `workers * 2`
  from 4 workers on.
- One monitor and two workers, or two monitors and one worker, in `Runner`, and
  two calls elsewhere: conflicts on a row are between two transactions, and a
  third waits behind the second. The sizes of pool, batch and queue are what
  `LoadConfigFromEnv` makes of an environment that asks for a batch and a queue
  of one: a queue of the size of the pool, full at once when every worker is
  busy, which is the interesting case.
- `MaxFaults` and `MaxStarts` count database failures and starts of the process:
  one failure at any place, one restart at any place. In `AuthSessions` and
  `Frontend` failures are not counted but switched on by `Failing`.
- `MaxSessions` 3 is a login, its rotation, and a second login or rotation.
- In `telegram`, `MaxChannels` 0 means that the API creates no channel there (the
  `channels` run does that); the bot still does, and the API deletes it. Two
  messages and one token: it is opened twice by one chat, or by two. The chats are
  alike, so the first message comes from `chat1` (`ChatsAlike`), and the time
  begins with the token (`TimeBegins`). With one token the upsert never meets a
  channel that the user has switched off; that it is enabled again
  (`on conflict ... do update`) is covered by the proof of `LinksAreKept` alone.
- In `frontend` each tab runs one task, so that two tabs with reloads and failures
  fit; `session_dropped` and `logged_in_again` have two tasks in one tab. That
  `CommitsAreOrdered` holds with several tasks in a tab is covered by its proof alone.
- Processes that check results, calls and monitors are interchangeable; symmetry
  is used where no liveness is checked.

### Fairness and deadlock

`Runner!Fairness` is weak fairness of the ticker, the scheduler, the main
goroutine and each worker: goroutines that can run do run, HTTP clients have
timeouts, statements answer. `WorkerApplyBegin` and the bot's `LinkBegin` have
strong fairness: PostgreSQL queues those who wait for a row lock. Faults,
signals, restarts and calls of clients have no fairness.

`StartAnswered` says that a process that keeps running comes again and again to a
time at which no message is left; nothing is said if all keep crashing. It rests
on two assumptions: polls do not fail for ever, and the answer of a poll can be
read. The bot reads up to 1 MiB of it (`telegramlink/bot.go:172`): a backlog whose
answer is larger is cut off, fails to decode, and is asked for again with the same
offset, so the bot would be stuck. The model leaves sizes out.

Deadlock is checked except in the runs of `Runner`, since the process may end
for good, and in `channels`, where nobody is obliged to call once every row the
bound admits is deleted.

## 4. What is proved

For every set of monitors, connections and calls, every width of the `int`, and
every value of the other constants that satisfies the named assumptions. Every
property of a passing run is proved but the three about liveness.

An action property of this kind, and the refinements, are proved from the
inductive invariant of their module: it holds in the state before each step, and
the step is looked at action by action.

- `MonitorStoreProofs`: `StoreTypeCorrect`, `NoLostUpdate` (`RowFollowsLog`),
  `StatusAgreesWithIncidents`, `IncidentsCountOutages`, `IndexNeverRefuses`. The
  properties are not inductive one by one. The invariant adds that at most one
  open transaction holds each live row and that the status and failure count it
  remembers are still those of the row: that is what the lock of
  `select ... for update` gives, and it makes a commit an update of the current
  row. Lemmas state how appending one result changes a streak and the set of
  outages; they are where the threshold of 3 is used. `StoreKeepsHealth` is the
  refinement of `TargetHealth`: under the invariant, a commit appends or resolves
  an incident exactly when it changes the status, and every other transaction
  leaves both alone. `TransitionFollowsLog` is about the pure state machine: it
  steps from a status and a count, and yet says of every log what the definitions
  by the whole log say.
- `RunnerProofs`: `RunnerImplementsStore` (each step of the process is a step of
  the store or leaves the tables alone), and with it `RunnerCountsOutages`,
  `RunnerLosesNoUpdate` and `RunnerKeepsHealth` for free; `RunnerTypeCorrect`;
  `ShutdownIsNotAnOutage` (`NoAbortedCheckLogged`), from the invariant that a
  worker holds an aborted result only when the context is done, and that a
  transaction is begun only when it is not. `RunnerAlertsOnce` and
  `RunnerAlertsTrue` rest on the ownership of news: an event is new when its
  transaction commits (its incident was not there before, or was open before)
  and from then on belongs to the worker that committed it, so no other worker,
  and no worker of a later process, announces it; and the incidents it tells of
  only go away with their target.
  `RunnerStopProgresses` (`StopProgresses`) is the safety part of the shutdown:
  from SIGTERM, or the return of the scheduler, on, every step of a goroutine
  lowers a measure (`SchedulerLeft`, then the sum of `WorkerLeft`) and no fault,
  signal or call of a client raises it, because there is no further claim, job or
  retry. That the steps are taken, and the process therefore ends, is
  `StopCompletes`, which needs fairness.
  `UndisturbedAlertsArrive` proves `AlertNotLost` for the configurations in which
  no signal is sent, no statement fails, the channels stay as they are and none is
  skipped for want of a bot token, and no monitor was down before the process
  started (`Undisturbed`): each enabled channel is asked to tell of each `down` and
  each `recovered`, or a worker is about to ask. Its invariant `CoverInv` follows
  each pair of an event and a channel from the commit to the request. Whether the
  request succeeds is not spoken of: one that fails is only logged.
  `OneWorkerCountsInOrder` proves `IncidentsMatchCheckedAt` for one worker
  goroutine (`OneWorker`), where results are committed in the order of their
  `checked_at` (`InOrderInv`); batches and queues of any size do not matter.
  The hypotheses speak of constants only, and the instances of the violation runs
  satisfy all of them but what the counterexample uses.
- `WorkerConfigProofs`: `ConfigAlwaysUsable`. The default queue size can wrap to
  a negative number; the clamp to the number of workers is what repairs it, and
  the result satisfies `RunnerAssumption`.
- `TargetApiProofs`: `TargetsUseStore` and with it `TargetsLoseNoUpdate`;
  `TargetsTypeCorrect`; `PatchKeeps` (`PatchKeepsTheRest`: the interval and the
  switch that a PATCH was not given, and writes back, are those in the row, unless
  another PATCH came in between), because the worker never writes these columns;
  `TargetsKeepHealth`, since each
  statement is one of the store's; `PagesSkipNothing`
  (`NothingSkipped`), from the invariant that the rows of the first call's time
  whose rank is below the offset have been seen: rows that are inserted move the
  others down, towards pages still to come, never up. Excepted are walks during
  which a row is deleted, or one is inserted between the count and the select of
  the page taken for the last (`shrunk`, `grew`). The rank of a row is its
  place in a strict total order, and lemmas state what an insertion does to it.
  `TimelineMatchesStats` (`StatsAgree`): the numbers and the chart can differ. A
  check that is drawn and not counted was committed after the counting, and one
  that is counted and not drawn is no older than any check of a full timeline;
  there is no other difference, because between the two statements checks are only
  added.
- `AuthSessionsProofs`: `AuthTypeCorrect`, `OneSessionPerLogin`,
  `DeadLoginsStayDead`. The strengthening is `RotationOwnsLogin`: from the
  revocation of a session to the insertion of its successor, the handler is the
  only one that may insert a session for the login, and none is live.
  `DeadLoginStaysDead` therefore speaks of logouts that find the session live. One
  that falls between these two statements (`auth.go:155`, `auth.go:165`) finds it
  revoked, changes nothing and is answered with 204, and the rotation then inserts
  a live session. The same invariant gives
  `AuthImplementsChain`: a revocation of a rotation is an `Exchange`, its
  insertion a `Renew`, and a failure or a logout an `End`, whichever statement it
  strikes.
- `FrontendProofs`: `FrontendTypeCorrect` (the page holds only pairs that were
  issued), `FrontendImplementsAuth` (each step of the page is one that
  `AuthSessions` allows a client) and with it `TabsShareOneSession`;
  `PairsGoForward` (`CommitsAreOrdered`), from the invariant `UnreadIsSecret`: the
  session of an answer that nobody has read yet is live, the latest of its login,
  and named by no other pair or call. So no second refresh can be under way with
  it, and the answers of two refreshes cannot overtake each other.
  `TabsKeepChain` carries the refinement of `LoginChain` over to the page.
  `AloneStaysOut` proves `LoggedOutStaysOut` for the behaviours in which a refresh
  with its repeated request, or a logout, has its tab to itself
  (`SessionCallsAlone`), whatever else runs side by side, fails or happens in other
  tabs: a function that is under way then finds its tab signed in
  (`TasksSignedIn`), so what it commits replaces tokens and never brings them back.
  The page does not see to that: `loadDashboard` alone sends three requests at once
  (`App.tsx:260`), each of which may refresh. The theorem says which overlap the
  finding needs, and what a repair has to exclude.
- `AlertChannelsProofs`: `ChannelsTypeCorrect`, and `ChannelsStayValid`, because
  the row that a PATCH is about to write has been validated as a whole, and the
  unique index looks at the table as it is when it is written.
- `TelegramLinkProofs`: `TelegramTypeCorrect`; `TokensAreOneTime`
  (`OneLinkPerToken`) and `BotTellsTheTruth` (`RepliesTellTheTruth`: "connected" is
  said to the chat that was linked only, "invalid" of a token that is used, expired
  or none, "temporary" after a failure), from the invariant that an open
  transaction is the only one on its token and the token is still unused
  (`LockedTokensAreUnused`); `NoUpdateSkipped`
  (`ConfirmedWasHandled`), from the invariant that a process has handled, or is
  handling, everything before its offset and before its batch (`TakenInOrder`);
  `ChannelsStayValidWithBot`. `BotImplementsDeepLink` rests on the same
  invariants: the commit of `LinkChat` is the `Connect` of an unused link, and
  every reply of success a `Tell` of one that is connected.

The assumptions are those of the modules, and TLC evaluates them in every run:

- `OutcomeAssumption`, `StoreAssumption`, `RunnerAssumption`, `TargetAssumption`,
  `AuthAssumption`, `FrontendAssumption`, `ChannelsAssumption`,
  `TelegramAssumption`: monitors, workers and channels are finite sets, numbers
  are numbers, intervals and lifetimes are positive, an address is not both a
  chat and a URL, each task belongs to a tab;
- `MachineIntAssumption`, `ConfigAssumption`: an `int` has values, the default of
  4 workers among them;
- `CallAssumption`, `HandlerAssumption`, `TaskAssumption`, `NoneAssumption`,
  `NoBotAssumption`: `None` differs from what it stands in for.

Only model-checked: liveness (`DueIsServed`, `StopCompletes`, `StartAnswered`),
whose proofs need fairness and `ENABLED`.

## 5. What is not modelled

- Texts, JSON, status codes, latencies and their averages; HTTP routing and
  logging.
- Passwords (two calls of bcrypt, no state) and signatures: a token can only name
  the session it was issued for.
- Time zones: `timestamp` columns are written from local times.
- The migrations and the rest of the configuration: they run before anything
  else does, in one process.
- The lists and forms of the frontend. An answer of `fetchLogs` for one target
  may arrive after the user has chosen another (`App.tsx:226`).
- The order in which two workers' alerts reach a channel: nothing in the
  repository promises one.
- Telegram's own limits (updates kept for a day, one poller at a time: two
  processes that both get answers are more than it allows).

Behaviours of the code that the models show, and that nothing in the repository
speaks against, are worth knowing:

- Of two overlapping PATCH calls of one target, the later one writes back what it
  read of the fields it was not given; a field that the other changed is lost.
  `PatchKeepsTheRest` says that this is the only way in which one can be.
- A user who is linked may be told otherwise: the answer of a commit that is lost
  is reported as "temporarily unavailable", and a message that is delivered again,
  after a restart or because the user opens the link again, as "invalid".
- A claim whose commit reports an error may have been committed
  (`worker/repository.go:88`): the scheduler ends, and a round of checks is skipped
  (`SchedClaimFails`).
- A logout that meets a rotation half-way ends nothing (section 4).
- A walk over the pages of a list can miss rows after a deletion, or when a row
  arrives between the count and the select of the last page.
- The timeline of the statistics keeps the oldest 1000 checks of its window.
- Statistics of a target that does not exist, or is deleted meanwhile, are
  answered with 200 and zeros, although `openapi.yaml` lists 404 for the call.

## 6. Plan

Done: `MonitorStore`, `Runner`, `AuthSessions`, `Frontend`, `AlertChannels`,
`TelegramLink`, `WorkerConfig`, `TargetApi`, the refinements
`Frontend` => `AuthSessions`, `Runner` and `TargetApi` => `MonitorStore` =>
`TargetHealth`, `AuthSessions` => `LoginChain` and `TelegramLink` => `DeepLink`,
and the proofs of section 4.

Left:

1. The lists of the frontend: answers of two requests for the logs of two
   targets, with the target selected when they arrive.
2. A table of pending notifications, written in the transaction of the incident,
   as an alternative to the call of `Notify` after it, to show which change
   repairs `AlertNotLost`.
3. Two worker processes on one database: the store allows any number of
   connections already, and its theorems hold for them; `Runner` has one process.
4. An abstract book of channels which the calls of `AlertChannels` implement, with
   what a PATCH may write back of the fields it was not given, as
   `PatchKeepsTheRest` says of targets.
