# LlamaSitter in TLA+

LlamaSitter is a local proxy that sits between agents and an Ollama server,
passes every request on, and records who used how many tokens in a SQLite
database that a dashboard reads. This directory holds TLA+ models of the
program, the TLC configurations that check them on small instances, and TLAPS
proofs of the properties that matter most, for every value of the constants.

Paths below are relative to the repository (`src/`). `PROJECT.json` maps each
definition that models code to the lines it stands for; it is the index to use
when a source file changes.

To check: `tlc -config X.cfg M` for a run, `tlapm M.tla` for a proof module.

1. [Inventory](#1-inventory)
2. [Modules](#2-modules)
3. [Runs, bounds and fairness](#3-runs-bounds-and-fairness)
4. [Where the program differs from what it says](#4-where-the-program-differs-from-what-it-says)
5. [Proofs](#5-proofs)
6. [Assumptions and what is left out](#6-assumptions-and-what-is-left-out)
7. [Plan](#7-plan)

## 1. Inventory

### Processes

| Process | Started by | Talks to |
| --- | --- | --- |
| the service (`llamasitter serve`) | a terminal, the Linux tray, the macOS menu agent | clients (HTTP), Ollama (HTTP), the database |
| a config command (`llamasitter config ...`) | a user | the config file |
| a reader (`stats`, `tail`, `export`, `doctor`) | a user | the database |
| the tray or menu agent | autostart, a user, `serve` in a graphical session | the service (a child, and by polling), the config file on first start |
| the dashboard window | a user, the tray | the service, by polling; the tray, by launching it |
| the page in that window, or in a browser | the dashboard | the API, by polling |

They share three things: the **addresses** of the listeners and of the UI
(whoever binds them is *the* service), the **config file**, and the
**database**. Nothing is locked but by SQLite and by `bind`.

### Components

**Chat exchange** (`internal/proxy/proxy.go`, `internal/usage`).
State: a handler goroutine's position, the event it fills in, the upstream
connection, what the client received.
Operations: `handleChat`, `handleStreamingResponse`,
`handleBufferedResponse`, `persistAsync`.
Hard: the client hangs up, the upstream breaks or falls silent, writes and
reads fail in any order; a client may stop reading; two relay paths with different
rules for usage.
Correct when: a success is a whole answer; an aborted stream is recorded as
one; usage is that of the final chunk; one event per exchange; the answer is
passed on unchanged; once either side is gone, only a client that does not read can
hold the handler.

**Request store, write side** (`internal/storage/sqlite.go`,
`internal/model`).
State: the tables `requests`, `request_tags`, `sessions`; a pool of four
connections; one write lock.
Operations: `InsertRequest`, `upsertSession`, called from one detached
goroutine per event with a 5 s context.
Hard: several statements to a transaction, failures and deadlines between
them, transactions meeting, commits out of order, a crash.
Correct when: an event is stored whole or not at all; the sessions table is
the summary of the requests table; recordings end.

**Request store, read side** (`internal/storage/sqlite.go`, `internal/api`).
State: none of its own; a call runs several queries.
Operations: `UsageSummary`, `ListSessions`, `GetSession`, `ListRequests`,
`GetRequest`, the desktop overview.
Hard: the store grows between two queries of one call.
Correct when: an answer is consistent enough to be shown: breakdowns cover the
total, a session's list covers its heading, listed requests have their tags.

**Analytics** (`internal/analytics`, the time functions of `sqlite.go`, the
windows of `web/static/app.js`).
Pure. Hard: bucket edges, whole seconds against fractions in compared texts,
time zones, changes of the clock.
Correct when: charts, totals, trends and heatmap of a window agree.

**Service lifecycle** (`internal/app/app.go`, `Serve` in `internal/proxy` and
`internal/api`).
State: the context, N listeners, the dashboard's server, the shared shutdown
deadline, the store.
Operations: bind, fail, drain, time out, collect results, close, exit.
Hard: two servers and N listeners that stop one after the other while
exchanges and recordings are in flight; recordings that nobody waits for, under a
store that is closed and a process that ends.
Correct when: every stop ends, closes every listener, and a clean one cuts
no exchange and starts no recording after it.

**Config and its editor** (`internal/config`, `internal/configedit`,
`internal/cli/config_commands.go`).
State: one YAML file, one temporary file per writer.
Operations: `init`, the mutations of `listener`, `ui` and `privacy`, the first
start of a desktop shell.
Hard: read, edit, rename without a lock; absent keys with defaults; chains of
accepted edits.
Correct when: what is written loads; a reported edit is only lost to a writer
that had read before it.

**Linux desktop shell** (`desktop/linux`).
State: the tray (status, backend, attached, menu), the dashboard (page,
remaining polls), the processes they spawned.
Operations: start, refresh, retry, quit, shutdown, exit reports; open, poll,
retry, close.
Hard: three kinds of process that race for one pair of addresses, asynchronous
exit reports, a poll that goes on behind an error page.
Correct when: no backend is left behind or launched twice, a served tray shows
Ready, a dashboard stops loading.

**Dashboard page** (`web/static/app.js`).
State: the range and the metric that are chosen, the last data, the token of
the newest load, what is drawn.
Operations: load (six requests at once), the 30 s interval, the controls.
Hard: loads overlap, and their answers come in any order, of another range, of
an earlier state of the store, or not at all; a click draws what is there.
Correct when: Ready means that what is drawn is what is chosen, and no figure
goes back in time.

**macOS desktop shell** (`desktop/macos`).
State: the service controller (status, task), a waiter thread per start, the
coordinator and its panel, overview requests in flight, the dashboard
application and its own waiter.
Operations: start, retry, quit, exit reports, waits and their reports, open
and close the panel, refresh; open, wait, retry, close the dashboard.
Hard: threads of earlier starts that report over later ones, tasks that die
between a probe and its report, waiters that have no task to compare with.
Correct when: no backend is left behind, only the newest start reports, every
start settles, and an open panel notices that its service is gone.

**Migrations** (`NewSQLiteStore` and `Migrate` in `sqlite.go`, `app.OpenStore`).
State: the migrations in the file, by their tables and by their versions; the place
of each process that opens it.
Operations: pragmas, registry, one transaction per migration, close.
Hard: the service and every reader migrate, and two of them may open a new database
at once: checked as not applied, applied twice, recorded once.
Correct when: an opened store has every table and version; who loses a race need only
be started again; opening ends.

**Identity** (`internal/identity`). A pure function of headers and listener tags,
but for the order of a map. Hard: two spellings of one key.
Correct when: a header goes before a tag, and a tag before nothing.

**Not modelled:** the pass-through proxy (`httputil.ReverseProxy` for all
other paths; no state), the CLI's tables, JSON and CSV, `doctor`, the desktop
paths and the autostart file (formatting and single-file I/O), build, install
and packaging scripts, benchmarks.

### Interactions

```
 client --> chat exchange --> Ollama            config command --> config file
                 |  one event                     desktop shell -----^
                 v                                       | launches, polls
            recording --> store (tables) <-- reads <-- API <-- page
                 \______________ service lifecycle ______________/
```

## 2. Modules

| Module | Models | Uses |
| --- | --- | --- |
| `ChatExchange` | one captured request, from the body to the recorded event | |
| `ServiceLifecycle` | the serve process from start to exit | |
| `ServeStore` | the serve process and its store together | `ServiceLifecycle`, `RequestStore`; implements both |
| `StoreOpening` | `NewSQLiteStore` and `Migrate`, in several processes on one file | |
| `Identity` | `identity.Resolve`, and the tags of it that are stored | |
| `UsageEvents` | what the store tells apart of an event; one row of `sessions` | |
| `UsageLedger` | **abstract**: a ledger to which whole events are appended | `UsageEvents` |
| `RequestStore` | `InsertRequest` as transactions on a connection pool | `UsageEvents`; implements `UsageLedger` |
| `UsageReads` | the calls of the API and `stats`, each several queries over a growing ledger | `UsageLedger`; its instance uses `Identity` |
| `AnalyticsWindows` | windows, buckets, heatmap and the order of stored times | |
| `ConfigEdit` | the config file and the processes that rewrite it | |
| `TrayAgent` | Linux tray, dashboard, backends, a service from a terminal | |
| `MenuAgent` | macOS menu agent, its waiter threads and panel, dashboard, backends, a service from a terminal | |
| `DashboardPage` | the page's loads, controls and interval over a growing store | |
| `MC*` | constants for TLC | |
| `*Proofs` | theorems about the module of that name; `RequestStoreProofs` has those of `StoreOpening` too, `ServeStoreProofs` those of `ServiceLifecycle`, `DashboardPageProofs` those of `AnalyticsWindows` | |

A definition whose comment begins with "Fault:" is not part of any
specification. It stands beside the definition it varies and says how a
plausible bug would read there; substituting it for its neighbour makes a
property fail (`PROJECT.json`, "mutants").

### How state and actions correspond to the code

**ChatExchange.** `pc` is the place in `handleChat`: `reading` (the body),
`dialing` (`client.Do`), `streaming` or `buffering` (the two relay functions),
`recording` (the tail that computes `Success`), `returning`, `returned`. `sent`
is what the upstream has produced, `seen` how much the handler has read,
`finalUsage` the local variable of that name (as an index into `sent`), `event`
the flags of the `RequestEvent`, `view` the client's side. Each early return and
error branch is an action: `RejectRequest`, `DialFails`, `RelayLineFails`,
`StreamFails`, `BufferFails`. `Return` is what net/http does after the handler:
a declared length that was not written cuts the connection, a chunked body just
ends. `NoticeHangUp` is net/http's background read cancelling `r.Context()`;
between `ClientLeaves` and it, writes may still succeed. `Writing` is where the handler
has something for a client that is connected, a line, a body or the rest of the
response: there it may wait as long as the client does not read.

**RequestStore.** `job[e]` is the place in `InsertRequest`: `waiting` (for a
connection in `BeginTx`), `begun`, `tagging` (after `INSERT INTO requests`),
`summed` (after `upsertSession`), and four ends. `draft` is what the transaction
that holds the write lock would commit. `opened` matters because `busy_timeout`
is set on `FirstConn` only. `Expire` is the 5 s context, `StatementFails` any
error return, `Crash` the death of the process and its restart.

**UsageLedger** has one action, `AppendEvent`, and no failures: it is what the
readers may rely on. `RequestStore` maps its `requests` to `stored` and
everything short of `Commit` to a stutter.

**StoreOpening.** `pc` is the place in `NewSQLiteStore` and `Migrate`: `opening` (the
pragmas), `preparing` (the registry), `checking` (`migrationApplied`), `begun`,
`applied`, `recorded`, and the ends; `at` is the index of the loop. `db` is what is
committed, `draft` what the transaction that holds the write lock sees. A body of
`CREATE ... IF NOT EXISTS` writes, and so locks, only when its tables are not there:
the second process to apply a migration gets to its `INSERT`, which violates the
primary key (`Conflict`). `lost` is history.

**UsageReads.** `call` is the handler being served, `todo` the queries it has
left, `answer` what they returned; its filters are `RequestFilter`s. `Plan` is the
sequence of queries of each handler, written out as it runs them; `ListSessions` and `ListRequests` add one query per row to it
(`hydrateSessionSummary`, `loadTags`). `Commit(e)` may happen between any two.
`loadStatsSnapshot` is a plan of its own: three windows, the rows of the last one twice,
and two lists. Calls do not change what they read, so one at a time is enough.

**Identity.** `Resolve` is the set of what the function may return, one for each order
in which the map of tags may be ranged over. `MCUsageReads` gives its four events
headers and listener tags, and assumes that what its constants say of them is all that
`Resolve` yields; a second assumption compares `Resolve` with the documented precedence.
TLC evaluates both.

**AnalyticsWindows.** Times are ticks. `Rank` and `TextLess` are the order of
RFC3339Nano texts, which leave out a zero fraction. `DashboardWindow` is
`currentWindow` and `previousWindow` of the page, `DefaultWindow` the server's;
`BucketIndex`, `BucketWindow` and `Slot` are the server's arithmetic.

**ServiceLifecycle.** `listener` is each listener's `ListenAndServe`, `serve`
the select and the shutdown loop of `Service.Serve` (`at` is the loop's index,
`timer` its one context), `ui` is `api.Serve`, `run` and `received` are the loop
of `app.Run` over its result channel. An `exchange` here is a single value:
`ChatExchange` has its inside.

**ServeStore** adds the store: `Answer` is a response and the recording that
`persistAsync` starts with it, `Record` a step of a recording, `End` the end of the
process, which is a `Crash` of the store, after an exit as after a kill. What `app.Run`
closes is the pool: a recording that has begun its transaction goes on under a closed
store, one that has not fails.

**ConfigEdit.** A `Document` is what the YAML says, keys that are absent
included; `Config` applies defaults and `Normalized`, `Valid` is
`Config.Validate`. A command is `Stat`, `Load`, `WriteTemp`, `Rename`, with the
edit and the validation (`Prepare`) in the step that reads. `read`, `renamed`
and `renames` are history.

**TrayAgent.** `agent` holds the fields of `LSTrayApp` and is changed only by
functions named for the C functions (`EnsureService`, `StartBackend`,
`Refreshed`, `Showing` for `ls_tray_update_menu`). `told` are the exits the main
loop has reported (`ls_tray_backend_wait_done`). `view` and `polls` are the
dashboard. `coming` are tray processes between `fork` and the uniqueness of the
application id.

**MenuAgent.** `app` is what the service controller and the coordinator hold:
`status`, the `current` task, the status the panel has `shown`, and whether the
runtime is `resolved`. A start is one call of `start`; `waiter` is the thread of
its `waitForReadyForTask`, which is `polling`, then has `seen` a service or is
`late`, and reports on the main queue (`WaiterReports`), where it looks at its task
once more (`Stale`). `TaskExits` is the termination handler. `fetches` are overview
requests; `AfterFetch` is what their completion changes. `wait` is the dashboard's
`waitForReady`. It solves the problem of `TrayAgent` with threads in place of one
main loop, and its properties are about what that adds.

**DashboardPage.** `range`, `metric`, `data` and `requestToken` are the fields of
the page's `state`; `loads` are the calls of `loadDashboard` that are still
awaited, each with the version of the store at which an answer was read; `pill` is
the status text, `shown` what the panels hold, `buttons` the choices that are drawn.
`Serve` is the server answering one request, `LoadEnds` and `LoadFails` what follows
`await Promise.all`.

## 3. Runs, bounds and fairness

### Runs that pass

| Run | Instance | States | Shows |
| --- | --- | --- | --- |
| `chat_exchange` | answers of up to 3 lines | 536,532 | types; a success is a whole answer; a finished answer is passed on unchanged; a stream without a final chunk is an abort; its usage is that of the last final chunk; one event per exchange; an ended exchange returns, but for a client that stays and never again reads |
| `request_store` | 4 events, 3 connections, 1 session | 32,475 | types; stored exactly when committed; sessions summarise requests; the ledger is implemented; recordings end |
| `usage_reads` | 4 events, 2 sessions, 5 filters | 98,010 | types; the token total in a session's row is that of its requests; a breakdown never has less than its total, and adds up when nothing is committed meanwhile; the parts of a page agree: a session's list covers its heading, an overview or a report that counts shows activity, a day has no more than its week and that no more than its trend; lists are whole: tags are complete, and a session with one client type has no other |
| `analytics_windows` | 14 ticks, 2 buckets, 2 requests | 70,938 | types; the heatmap adds up, and so does the chart of a window that fits; requests lie in the bucket they are drawn in, and buckets tile the window |
| `serve_process` | 2 listeners, the dashboard, 3 exchanges, 2 connections | 233,064 | types; Serve closes every listener; a clean exit cuts no exchange; a stop is bounded; nothing is recorded after a return with success |
| `store_opening` | 3 processes, 2 migrations, 2 starts each | 177,652 | an opened store is complete; a race is lost once; opening ends |
| `config_edit` | 2 commands, 5 initial files | 520,829 | types; reported edits are kept; what is written loads |
| `tray_agent` | 2 backends, 2 polls | 39,956 | no stray backend; a backend of one's own is kept; a served tray gets to Ready and a dashboard settles |
| `menu_agent` | 2 starts, 1 overview request | 59,808 | no stray backend; only the newest start reports; starts and dashboards settle; an open panel shows an outage |
| `dashboard_page` | 2 ranges, 2 metrics, 2 answers, 3 loads | 110,292 | Ready means that what is drawn is what is chosen; no figure goes back in time |

### Why these bounds

- **Three lines** give every order of a part, a final chunk, junk and a second
  final chunk, with a break after each. The proofs are for any number.
- **Four events on three connections**: two that share a session and overlap,
  one with no session, one whose random id collides; the pool runs out, and the
  one connection with a `busy_timeout` meets two without. The code's pool has
  four; with three the fourth event waits.
- **Limits of one and two** in `usage_reads` cut every list but the breakdown by
  listener.
- **A second of three ticks, an hour of two seconds**: a tick at a whole second
  and two in it, requests at each side of every edge. `Bucket` is one hour,
  two buckets; `Shift` half an hour stands for the change of the clock;
  `Zone` is an hour either way.
- **Three processes, two migrations, two starts**: one process that creates the
  tables, one that loses to it, and one that waits for either; a second migration to be
  lost after the first was won, and a second start to win after the first was lost. The
  code has one migration so far.
- **Two listeners** give a first one that does not drain and a last one that
  still accepts. The proofs are for any number.
- **Two commands**: a lost update needs two writers; a third could only undo
  what the second did. Five files: none, the default, one with two listeners
  and no sections, one with capitals in its list, one that does not load.
- **Two backends**: one to die and one to retry with. `MaxPolls` is 80 in the
  code; two is a poll that is not the last and one that is.
- **Two starts**: an earlier one whose waiter, task and exit report may meet a later
  one, each with or without a task. A second overview request at a time would do
  what the first does. The proofs are for any number of both.
- **Three loads, three versions, two answers**: a load, one that overtakes it and one
  after that; answers of one load on both sides of a change, so that a page mixes
  versions. Two answers stand for the page's six. The proofs are for any number.

A bound in a guard is named in the module: `MaxLines`, `MaxBackends`,
`MaxPolls`, `MaxStarts` (in `MenuAgent` and in `StoreOpening`), `MaxFetches`, `MaxLoads`, `MaxVersion`, `MaxTime`,
`MaxRows`. Nothing else is capped. Every run checks for
deadlock: a module whose processes may all have ended says so with a `Done` or
`Stopped` stutter of its own.

### Fairness

- `ChatExchange`: goroutines are scheduled, so the handler moves on when it can,
  except while it waits for a client that stays: for a body (no `ReadTimeout` is set),
  or for a write to be read (`Writing`; no `WriteTimeout` is set, `proxy.go:65`). The
  same holds, without exception, for net/http's watch (`NoticeHangUp`) and for the
  recording goroutine. The client and the upstream owe nothing: `EndedExchangeReturns`
  says that a handler either returns or stays for ever in `Writing`.
- `RequestStore`: only `Expire(e)`: the context of `persistAsync` has a
  deadline. Neither the lock nor the pool is assumed fair.
- `ServiceLifecycle`, `ServeStore`: goroutines are scheduled and deadlines pass. No
  exchange has to end, no recording has to be quick, and nobody has to interrupt.
- `StoreOpening`: a statement ends, if only by `busy_timeout`. The lock is not assumed
  fair, and nobody has to be started.
- `TrayAgent`: GLib timers fire and exits are reported. A probe may fail at any
  time, but a service that stays is seen to answer again and again
  (`WF(Refresh(TRUE))`). Users owe nothing.
- `MenuAgent`: the main queue is served, waiter threads run and their 20 s pass,
  requests end and timers fire. Users and services owe nothing: a service may never
  come, a panel may stay shut.
- `UsageReads`, `AnalyticsWindows`, `ConfigEdit`, `DashboardPage`: safety only.

## 4. Where the program differs from what it says

Two runs check one property each that a document, a comment or a test states
and the code does not keep. `PROJECT.json`, "findings", quotes them.

| Run | What TLC finds |
| --- | --- |
| `store_busy` | `PRAGMA busy_timeout` is run through the pool and reaches one connection; a recording on another that finds the lock taken fails at once and is lost (`sqlite.go:755`) |
| `windows_bounds` | times are compared as texts in which a whole second sorts after its fractions: requests in the first second of a window are left out, those just after its end counted (`sqlite.go:1027`) |

More that the models show and no run states as a property:

- **Records that a clean exit loses.** Nobody waits for `persistAsync`
  (`proxy.go:277`): a process that drained and exits with success has closed the store
  under a recording, or ends before its commit, and the record of a complete response is
  gone, although "The request record is persisted" (`docs/architecture.md:133`). What
  holds is a bound: only recordings that were under way when Run returned
  (`NoRecordingAfterTheReturn`).
- **The second to open a new database.** Of two processes that open it at once, say the
  service and `stats`, the second may fail with "record migration": the tables are there,
  and a UNIQUE constraint says so (`sqlite.go:104`). It must be started again, and then
  succeeds (`LosesARaceOnce`). Both may fail at the first pragma, for `busy_timeout` is
  the last one.
- **Two spellings of one tag.** With `client_type` and `Client-Type` both among the
  default tags of a listener, a request has either value (`identity.go:29`).
- **A client that does not read.** A client that stays connected and stops reading
  holds its handler for ever, also when the upstream has long ended or broken off: only
  headers have a timeout (`proxy.go:65`), and so no write has a deadline (`:206`,
  `:236`, `:242`). Without its first disjunct, TLC refutes `EndedExchangeReturns`. A
  line or body that is stuck keeps the event from being recorded; what is flushed after
  the handler comes too late for that.
- **A broken answer that ends cleanly.** The upstream breaks off, the handler returns
  normally, and a chunked answer ends as a finished one does: the record says it was
  aborted, the client cannot tell (`proxy.go:260`, `:197`).
- **Redacted headers.** Removing the last one brings the defaults back, adding the
  first one drops them, and a name in capitals cannot be removed (`editor.go:301`,
  `:326`, `:331`). `EditsAreKept` excepts these removals.
- **Tray, Retry greyed out.** A backend dies, another service answers, that
  service stops: the tray is back at Starting, with no backend, not attached,
  and Retry insensitive (`tray.c:245`). Only a service or Quit gets it out.
- **Attach-only tray.** The tray a dashboard spawns never launches a service, so
  the wait of that dashboard can only end in an error page unless somebody else
  does (`dashboard.c:46`).
- **Weeks with a change of the clock.** A window that is longer than its buckets
  leaves its newest requests out of the chart, not out of the total
  (`sqlite.go:888`); `DrawingsAddUp` has, for the chart, the precondition that the
  window fits.
- **Panel at Error over a ready service.** One overview request that fails sets the
  panel to Failed while the controller stays Ready (`LSDesktopCoordinator.m:151`). Those
  that succeed after it bring figures but leave that status (`:149`), so the panel shows
  Error until the user chooses Retry, which restarts a backend that was well.
- **Addresses by name.** `LSPortCheck.m:41` takes an address that is not dotted
  numbers, `localhost` say, for one in use: the agent waits for a service and never
  launches one. In the model such a config is the attach-only agent.
- **A page drawn between loads.** A click on the metric while another range loads, or
  over an error, draws the kept data under the new range's marks (`app.js:1052`);
  `ReadyIsCurrent` speaks of Ready only. Loads that take longer than the 30 s interval
  are overtaken one after the other and never drawn.

## 5. Proofs

All theorems are for every value of the constants: any number of lines, events,
connections, listeners, exchanges, launches, processes, migrations, starts, loads,
polls, commands, filters, limits, windows, buckets and any initial files. They rest on
the named `ASSUME`s of the modules, which give the constants their types and say little
more: for `ConfigEdit`, that the defaults are well formed, that lower-casing is
idempotent and that an absent key is no list of headers; for `AnalyticsWindows`, that
seconds divide hours and hours buckets, and that the clock is not changed by more than
the span of a chart; for `UsageReads`, that there are finitely many listeners and that
the week of a report contains its day. TLC evaluates each of them in a passing run.

Every safety property that a passing run checks is stated by a theorem.

| Theorem | States | Along |
| --- | --- | --- |
| `ExchangeTypeCorrect`, `SuccessIsEarned`, `RelayIsTransparent`, `IncompleteStreamsAbort`, `StreamUsageIsRight`, `ExchangeIsRecordedOnce` | the invariants of `chat_exchange` | `ExchangeInv` |
| `StoreTypeCorrect`, `StoreIsAtomic` | the invariants of `request_store` | `StoreInv` |
| `StoreIsolates` | one transaction at a time has written anything | `StoreInv` |
| `StoreImplementsLedger` | `Spec => Ledger!Spec` | `StoreInv`, step by step |
| `LedgerPromises` | ids are unique, sessions summarise, tags are complete | `LedgerInv` |
| `StoreTablesAgree` | the same of the store's tables | refinement and `LedgerPromises` |
| `ServiceTypeCorrect`, `ServeClosesListeners`, `CleanExitIsClean` | the invariants of `serve_process` | `ServiceInv` |
| `ServeImplementsService`, `ServeImplementsStore` | `ServeSpec` implies `Spec` and `Store!Spec` | step by step |
| `NothingIsRecordedAfterTheReturn` | its action property | both refinements, and both invariants |
| `OpenedStoresAreCurrent`, `RacesAreLostOnce` | the invariant of `store_opening`, and its action property | `OpeningInv` |
| `TrayInvariant`, `TrayLeavesNoBackend`, `TrayKeepsItsBackend` | the invariants of `tray_agent` | `TrayInv` |
| `MenuInvariant`, `MenuLeavesNoBackend`, `NewestStartReports` | the invariants of `menu_agent`, and its action property | `MenuInv` |
| `PageInvariant`, `PageReadyIsCurrent`, `PageNeverGoesBack` | the invariants of `dashboard_page`, and its action property | `PageInv` |
| `ConfigTypeCorrect`, `EveryWriteLoads` | types, and the action property `WritesLoad` | `Inv` |
| `EditsStay` | the invariant `EditsAreKept` | `Inv` and `KeepInv` |
| `ListsInvariant`, `ReadsTypeCorrect`, `SessionTotalsAgree`, `ListsComeWhole` | the invariants of `usage_reads` about rows | `ListsInv` |
| `PlanInvariant`, `SummariesMissNothing`, `PagesDoAgree` | those about calls of several queries | `ListsInv` and `PlanInv` |
| `WindowsTypeCorrect`, `WindowsDrawingsAddUp`, `WindowsRowsInBuckets` | the invariants of `analytics_windows` | `WindowsInv` |

Why the stronger invariants are needed:

- **`ExchangeInv`.** That an event of a success belongs to a whole answer does not
  survive a step by itself: it must be known what the event may say at each place
  of the handler (`EventFacts`), that `finalUsage` is the last final chunk among the
  lines *read* (`UsageFacts`), and that a client that stays has received exactly those
  lines (`ViewFacts`), line by line, with no bound on their number. Once the relay has
  ended, `FlawlessMeansWhole` and `StreamFacts` keep what was true at its end.
- **`StoreInv`.** `Commit` copies the draft. So atomicity needs
  `DraftFollowsTables`: the draft is the committed tables plus what this
  transaction has inserted so far, and its tags are those no longer in `todo`.
  That in turn needs that nobody else commits meanwhile
  (`TransactionsAreIsolated`). With it, `Commit` is `AppendEvent`, and every other
  step leaves the tables alone.
- **`LedgerInv`** (in `RequestStoreProofs`, of any behaviour of `Ledger!Spec`) adds finiteness of the requests table to the summary, since
  `Cardinality` says something of finite sets only.
- **`StoreTablesAgree`** proves nothing about transactions again: what holds of the
  ledger holds of anything that implements it.
- **`ServiceInv`.** Success means every listener was idle when Serve returned,
  although they drained one after the other. `DrainedSoFar` says the ones behind the
  loop's index are idle without an error so far, and they stay so because
  `ClosedSoFar` says they no longer accept. `ResultFollowsServe` carries this
  through the result channel to the exit status.
- **`ServeStore`.** The composition implements both of its parts, so that nothing that
  is proved of them has to be proved again: the tables of a store that is closed under
  its recordings are as atomic as before. `NothingIsRecordedAfterTheReturn` needs a fact
  of each part: a return with success has no exchange left that could be answered, and
  only the answer of an exchange starts its recording.
- **`OpeningInv`.** A process opens without looking at the tables. That they are there
  follows from its loop, which has passed every migration (`PlaceFacts`), from what a
  commit adds (`DraftFacts`: the file it found plus one migration, tables and version),
  and from both being committed together. A race is lost once because what was lost is
  recorded, and a process that runs a migration saw that it was not (`LostFacts`).
- **`TrayInv`.** `NoStrayBackend` needs that a tray that is off has forgotten its
  backend, that the one it knows was launched, and that Retry can be chosen only at
  Failed or Idle (`MenuFits`): otherwise Retry could drop a live backend.
- **`MenuInv`.** A waiter with a task is found out by comparing it with the
  controller's. One without has nothing to compare, and what keeps it from reporting
  over a later start is in another class: `TasklessAreNewest` says that while such a
  waiter is on its way, its start is the newest and the panel shows Starting, at which
  Retry is disabled, so that nothing can begin a later one.
- **`PageInv`.** The token alone gives that data come from the newest load. That they
  are newer than the data they replace needs `NewestIsAhead`: the data that are kept
  were complete before the newest load began, so each of its answers was read at their
  version or later, although answers of both may have been under way together.
- **`Inv`** (config). A rename puts a temporary file in place, so
  `TempsAreDrafts` and `DraftsLoad` say that it is what a command derived from
  what it read, and that this loads, also when what it read did not. The lemmas
  say that each edit yields a document and that the first of a name is a place in
  the list.
- **`KeepInv`** (config). An edit that is in the file is not safe there: a command that
  is about to write will put what it *read* in its place. So the edit must be in the
  base of every writer that read after it (`KeptInBases`), and that base must load
  (`BasesLoad`), for only in a list without a name twice is the first of a name the
  only one. `OtherEditsKeep` then says that an edit of something else leaves it alone,
  edit by edit, and `OwnEditIsKept` that what is accepted is there. A command that saw
  no file has read before every rename, since once a file is in place it stays
  (`RenamesEnd`); and a rename that excuses a loss goes on to excuse it, for a command
  that has renamed is at its end (`RenamedAreFrozen`, `StillOverridden`).
- **`ListsInv`.** A list is not whole until its rows have been read one by one, so the
  invariant is about what is left to run: a listed request has its tags or the query
  for them is still to come (`TagsFit`), and what has been named of a session covers
  what it had when the call began (`ClientsFit`). It stands on the ledger: an id names
  one event, so that the tags of an id are the tags of that event, and the row of a
  session counts and adds up its events (`RowsAgree`). Sums over sets are folds, which
  a prover cannot unfold by induction; `SumIsUnique` instead takes a smallest set on
  which two such functions differ, and `SumExists` counts pairs (`Units`), as many to
  an element as its weight.
- **`PlanInv`.** Two queries of a call see two states of the store, and the first state
  is contained in the second, because events are only appended: so each later total is
  no less. That needs to be known which query comes next: `Follows` says that what is
  left is the plan from its k-th query on, behind the queries that list rows add, and
  `SummaryFacts`, `OverviewFacts`, `StatsFacts` and `PageFacts` what the first k - 1
  have shown. A breakdown by a column that is never blank misses no row it matches
  unless it is cut off; with no more listeners than its limit it is not.
- **`WindowsInv`.** A request is drawn in the bucket of its time, which is right for the
  last bucket only if its time is before the window's end. The comparison of texts does
  not give that, for a fraction of the end's second comes before it; but a request that
  is stored lies in the past, and every window ends at the present or later. The start
  needs no such help where it is a whole second, as the dashboard's is: what is before
  it in time is before it as a text.

Checked by TLC only: liveness (`EndedExchangeReturns`, `RecordingEnds`,
`StopIsBounded`, `OpeningEnds`, `ShellSettles`, `StartsSettle`, `PanelShowsOutage`),
which is beyond the proof system, and what `MCUsageReads` assumes of `Identity`, an
evaluation of every small input. The two properties that the program violates are, of
course, not proved.

## 6. Assumptions and what is left out

- **Upstream.** Answers have a declared length or are chunked; one delimited by the
  end of the connection is not modelled. Lines are parts, final chunks or junk.
- **SQLite and `database/sql`.** Transactions are deferred and take the write lock at
  the first INSERT; a connection without `busy_timeout` fails at once when it finds the
  lock taken (the default of the driver). What is modelled is the death of the process,
  not of the machine. `RequestStore` begins with the migrations applied, `StoreOpening`
  ends there. Readers need no connection of its pool. A closed pool refuses new
  transactions and lets the open ones go on.
- **net/http.** `Shutdown` closes the listener at once, waits for busy connections,
  and returns an error when its context is done.
- **GLib.** One callback at a time; an application id has one instance. The parsing of
  arguments is not modelled. A service holds both its addresses or none.
- **AppKit.** The blocks of the main queue run one at a time, other threads in between;
  an application is opened once; stopping a task waits for its exit. A service holds
  both its addresses or none.
- **The page.** The contributor is a choice like the metric, which stands for both. A
  version of the store stands for its rows. What follows an `await` runs alone.
- **Two columns of five** in a breakdown and one attribute of four in a session stand
  for all: one that is never blank and one that may be. A request by its id is the list
  of one.
- **Times** in the store modules are positions in the order of the stored texts;
  `AnalyticsWindows` says what that order is, with one digit of fraction.
- **Config.** The upstream URL, the database path and `persist_bodies` are set like a
  listener's address and the UI's, and the JSON fields edited like the headers. Comments
  and layout of the YAML are left out. A command may be killed between any two steps;
  a temporary file that is left behind is never read.
- **The report of `stats`.** The breakdowns of its day and week are read and not shown,
  and left out. Its windows end at one instant, so that the week contains the day.
- **Formats** (tables, JSON, CSV, help, icons, menus, charts) are left out: no
  property is about them.

## 7. Plan

1. **Composition** of `ChatExchange` with `ServeStore`, so that what is recorded at a stop
   is the event of an exchange in each of its states; and a theorem that it implements
   both.
2. **`Identity`** for any order and number of spellings: that a header goes before a tag,
   and that `Resolve` is a function where no key has two spellings.
3. **An abstract specification** for the two desktop shells, which solve one problem with
   a main loop and with threads.

To make room for what is deeper, a shallower run or property gives way, `store_busy`
first.
