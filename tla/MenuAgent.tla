------------------------------ MODULE MenuAgent ------------------------------
(***************************************************************************)
(* The macOS desktop shell (desktop/macos/Sources): the menu agent with    *)
(* its service controller, the backends it launches, the threads that wait *)
(* for a service to be ready, the overview in its panel; the dashboard     *)
(* application; and a service that somebody started in a terminal.         *)
(*                                                                         *)
(* AppKit is external: the blocks of the main queue run one at a time, all *)
(* other threads in between; an application is opened at most once. A start*)
(* is one call of the controller's start: it has at most one task and one  *)
(* waiter, so they go by its number. attachedToExternalService, which      *)
(* nothing reads, and the figures of the overview are left out.            *)
(***************************************************************************)
EXTENDS Naturals, FiniteSets

CONSTANTS
  MaxStarts,    \* bound on the starts
  MaxFetches    \* bound on the overview requests in flight at once

ASSUME MenuAssumption == MaxStarts \in Nat /\ MaxFetches \in Nat \ {0}

VARIABLES
  external,    \* a service run by somebody else
  backend,     \* the task of each start
  orphans,     \* those that outlived their agent
  coming,      \* agents on their way up, by their attach-only flag
  agent,       \* the menu agent's process
  attachOnly,  \* runtime.isAttachOnly
  app,         \* its controller and coordinator
  started,     \* the number of starts
  waiter,      \* the thread of waitForReadyForTask of each start
  panel,       \* the panel is visible, and its refresh timer runs
  fetches,     \* overview requests in flight
  view,        \* what the dashboard shows
  wait         \* its waitForReady

services   == <<external, backend, orphans>>
agentVars  == <<agent, attachOnly, app, started, waiter, panel, fetches>>
dashboardVars == <<view, wait>>
vars == <<services, coming, agentVars, dashboardVars>>

Starts == 1 .. MaxStarts
Status == {"idle", "starting", "ready", "failed"}

(* status and task of the controller, the status the panel shows, and      *)
(* whether the coordinator has its runtime and controller                  *)
Apps == [status : Status, shown : Status, current : 0 .. MaxStarts,
         resolved : BOOLEAN]

FreshApp == [status |-> "idle", shown |-> "idle", current |-> 0,
             resolved |-> FALSE]

Alive(b) == backend[b] \in {"starting", "serving"}

(* LSPortCheck: an address is in use *)
Taken(processes) ==
  external = "serving" \/ \E b \in Starts : processes[b] = "serving"

Serving == Taken(backend)

Init ==
  /\ external = "off" /\ orphans = {} /\ coming = {}
  /\ backend = [b \in Starts |-> "none"]
  /\ agent = "off" /\ attachOnly = FALSE /\ app = FreshApp
  /\ started = 0 /\ waiter = [a \in Starts |-> "none"]
  /\ panel = FALSE /\ fetches = 0
  /\ view = "closed" /\ wait = "none"

-----------------------------------------------------------------------------
(* Services *)

(* "serve" in a terminal also opens an agent, attach-only. *)
ExternalStarts ==
  /\ ~Serving
  /\ external' = "serving" /\ coming' = coming \cup {TRUE}
  /\ UNCHANGED <<backend, orphans, agentVars, dashboardVars>>

ExternalStops ==
  /\ external = "serving"
  /\ external' = "off"
  /\ UNCHANGED <<backend, orphans, coming, agentVars, dashboardVars>>

(* A backend comes up: "serve" fails if an address is taken. *)
BackendBinds(b) ==
  /\ backend[b] = "starting"
  /\ backend' = [backend EXCEPT ![b] = IF Serving THEN "dead" ELSE "serving"]
  /\ UNCHANGED <<external, orphans, coming, agentVars, dashboardVars>>

BackendDies(b) ==
  /\ Alive(b)
  /\ backend' = [backend EXCEPT ![b] = "dead"]
  /\ UNCHANGED <<external, orphans, coming, agentVars, dashboardVars>>

-----------------------------------------------------------------------------
(* The service controller *)

(* updateStatus, and the coordinator's handleServiceStatus *)
Showing(a, status) == [a EXCEPT !.status = status, !.shown = status]

(* Fault: a new start leaves the task of the last one alone *)
StoppedForgotten == backend

(* stopTaskIfNeeded: terminate, then interrupt, and wait for the exit *)
Stopped == IF app.current # 0 THEN [backend EXCEPT ![app.current] = "dead"]
                              ELSE backend

(* No executable, no log, or no launch *)
LaunchFails(a) == app' = Showing(a, "failed") /\ UNCHANGED waiter

(* LSServiceController.start, on an app whose last task was stopped *)
Start(a, processes) ==
  /\ started < MaxStarts
  /\ started' = started + 1
  /\ IF Taken(processes) \/ attachOnly'
     THEN /\ app' = Showing(a, "starting")
          /\ backend' = processes
          /\ waiter' = [waiter EXCEPT ![started'] = "polling"]
     ELSE \/ LaunchFails(a) /\ backend' = processes
          \/ /\ app' = [Showing(a, "starting") EXCEPT !.current = started']
             /\ backend' = [processes EXCEPT ![started'] = "starting"]
             /\ waiter' = [waiter EXCEPT ![started'] = "polling"]

(* LSRuntimeConfig: directories, the config, the addresses *)
RuntimeFails(a) == ~a.resolved /\ app' = Showing(a, "failed")

(* ensureDesktopRuntime, then start; without a runtime there is no start. *)
StartService(a, processes) ==
  \/ Start([a EXCEPT !.resolved = TRUE], processes)
  \/ /\ RuntimeFails(a)
     /\ backend' = processes /\ UNCHANGED <<started, waiter>>

(* A waiter that was given a task *)
HasTask(s) == backend[s] # "none"

(* The thread has checked its task, now or before the probe, and finds a   *)
(* service that is ready, whoever it belongs to.                           *)
WaiterSees(s) ==
  /\ agent = "running" /\ waiter[s] = "polling" /\ Serving
  /\ waiter' = [waiter EXCEPT ![s] = "seen"]
  /\ UNCHANGED <<services, coming, agent, attachOnly, app, started, panel,
                 fetches, dashboardVars>>

WaiterGivesUp(s) ==
  /\ agent = "running" /\ waiter[s] = "polling"
  /\ HasTask(s) /\ (app.current # s \/ ~Alive(s))
  /\ waiter' = [waiter EXCEPT ![s] = "gone"]
  /\ UNCHANGED <<services, coming, agent, attachOnly, app, started, panel,
                 fetches, dashboardVars>>

(* Fault: the deadline is not looked at *)
WaiterLateNever(s) == FALSE /\ UNCHANGED vars

(* Its 20 s are over. *)
WaiterLate(s) ==
  /\ agent = "running" /\ waiter[s] = "polling"
  /\ waiter' = [waiter EXCEPT ![s] = "late"]
  /\ UNCHANGED <<services, coming, agent, attachOnly, app, started, panel,
                 fetches, dashboardVars>>

Fetching == IF fetches < MaxFetches THEN fetches + 1 ELSE fetches

(* Fault: the block on the main queue does not look at the task again *)
StaleNever(s) == FALSE

(* What the block on the main queue looks at again *)
Stale(s) == /\ HasTask(s)
            /\ app.current # s \/ (waiter[s] = "late" /\ ~Alive(s))

WaiterReports(s) ==
  /\ agent = "running" /\ waiter[s] \in {"seen", "late"}
  /\ waiter' = [waiter EXCEPT ![s] = "gone"]
  /\ IF Stale(s)
     THEN UNCHANGED <<app, fetches>>
     ELSE IF waiter[s] = "seen"
     THEN app' = Showing(app, "ready") /\ fetches' = Fetching
     ELSE app' = Showing(app, "failed") /\ UNCHANGED fetches
  /\ UNCHANGED <<services, coming, agent, attachOnly, started, panel,
                 dashboardVars>>

(* terminationHandler: of a task that is still the controller's; one that  *)
(* was stopped on purpose is not, so intentionalStop is never seen.        *)
TaskExits ==
  /\ agent = "running" /\ app.current # 0 /\ ~Alive(app.current)
  /\ app' = [Showing(app, "failed") EXCEPT !.current = 0]
  /\ UNCHANGED <<services, coming, agent, attachOnly, started, waiter, panel,
                 fetches, dashboardVars>>

-----------------------------------------------------------------------------
(* The menu agent *)

SpawnAgent(attach) ==
  /\ coming' = coming \cup {attach}
  /\ UNCHANGED <<services, agentVars, dashboardVars>>

AgentStarts(attach) ==
  /\ attach \in coming /\ agent = "off"
  /\ coming' = coming \ {attach}
  /\ agent' = "running" /\ attachOnly' = attach
  /\ StartService(FreshApp, backend)
  /\ UNCHANGED <<external, orphans, panel, fetches, dashboardVars>>

(* Another agent is there, or this one fails. *)
AgentLeaves(attach) ==
  /\ attach \in coming
  /\ coming' = coming \ {attach}
  /\ UNCHANGED <<services, agentVars, dashboardVars>>

(* The buttons of the panel are those of the status it shows. *)
RetryEnabled == panel /\ app.shown \in {"failed", "idle"}

Retry ==
  /\ agent = "running" /\ RetryEnabled
  /\ panel' = FALSE
  /\ UNCHANGED <<external, orphans, coming, agent, attachOnly, fetches,
                 dashboardVars>>
  /\ StartService([app EXCEPT !.current = 0], Stopped)

(* refreshOverviewIfNeeded *)
RefreshOverview ==
  IF app.status = "ready"
  THEN fetches' = Fetching /\ UNCHANGED app
  ELSE app' = [app EXCEPT !.shown = app.status] /\ UNCHANGED fetches

OpenPanel ==
  /\ agent = "running" /\ ~panel
  /\ panel' = TRUE /\ RefreshOverview
  /\ UNCHANGED <<services, coming, agent, attachOnly, started, waiter,
                 dashboardVars>>

(* refreshTimerFired, every 5 s *)
RefreshTimer ==
  /\ agent = "running" /\ panel
  /\ RefreshOverview
  /\ UNCHANGED <<services, coming, agent, attachOnly, started, waiter, panel,
                 dashboardVars>>

ClosePanel ==
  /\ agent = "running" /\ panel
  /\ panel' = FALSE
  /\ UNCHANGED <<services, coming, agent, attachOnly, app, started, waiter,
                 fetches, dashboardVars>>

(* Fault: a failed overview is not shown *)
AfterFetchSilent(ok) == app

(* What an answer to an overview request changes: the figures, or the      *)
(* status the panel shows                                                  *)
AfterFetch(ok) ==
  IF app.status = "ready" /\ ~ok THEN [app EXCEPT !.shown = "failed"]
                                 ELSE app

FetchEnds(ok) ==
  /\ agent = "running" /\ fetches > 0 /\ (ok => Serving)
  /\ fetches' = fetches - 1 /\ app' = AfterFetch(ok)
  /\ UNCHANGED <<services, coming, agent, attachOnly, started, waiter, panel,
                 dashboardVars>>

(* The process ends: its threads, requests and blocks are gone. *)
EndAgent ==
  /\ agent = "running" /\ agent' = "off"
  /\ app' = FreshApp /\ panel' = FALSE /\ fetches' = 0
  /\ waiter' = [s \in Starts |-> IF waiter[s] = "none" THEN "none" ELSE "gone"]
  /\ UNCHANGED <<attachOnly, started>>

(* prepareForTermination: the dashboard is terminated, then the task *)
Quit ==
  /\ EndAgent
  /\ view' = "closed" /\ wait' = "none"
  /\ backend' = Stopped
  /\ UNCHANGED <<external, orphans, coming>>

AgentKilled ==
  /\ EndAgent
  /\ orphans' = orphans \cup ({app.current} \ {0})
  /\ UNCHANGED <<external, backend, coming, dashboardVars>>

-----------------------------------------------------------------------------
(* The dashboard application *)

(* LSDashboardCoordinator.start: the runtime is missing, the agent runs,   *)
(* or it is opened first.                                                  *)
StartDashboard ==
  \/ view' = "error" /\ wait' = "none" /\ UNCHANGED coming
  \/ /\ view' = "loading" /\ wait' = "polling"
     /\ agent = "running" /\ UNCHANGED coming
  \/ /\ view' = "loading" /\ wait' = "launching"
     /\ agent = "off" /\ UNCHANGED coming

OpenDashboard ==
  /\ view = "closed" /\ StartDashboard
  /\ UNCHANGED <<services, agentVars>>

RetryDashboard ==
  /\ view = "error" /\ StartDashboard
  /\ UNCHANGED <<services, agentVars>>

(* The completion handler of openApplicationAtURL *)
AgentOpened(ok) ==
  /\ wait = "launching"
  /\ IF ok THEN wait' = "polling" /\ coming' = coming \cup {FALSE}
                /\ UNCHANGED view
           ELSE wait' = "none" /\ view' = "error" /\ UNCHANGED coming
  /\ UNCHANGED <<services, agentVars>>

(* The thread of waitForReady finds a service, or 20 s are over. *)
DashboardWaits ==
  /\ wait = "polling"
  /\ \/ wait' = "seen" /\ Serving
     \/ wait' = "late"
  /\ UNCHANGED <<services, coming, agentVars, view>>

DashboardReports ==
  /\ wait \in {"seen", "late"}
  /\ view' = IF wait = "seen" THEN "web" ELSE "error"
  /\ wait' = "none"
  /\ UNCHANGED <<services, coming, agentVars>>

(* The window is closed, and with it the application. *)
CloseDashboard ==
  /\ view # "closed"
  /\ view' = "closed" /\ wait' = "none"
  /\ UNCHANGED <<services, coming, agentVars>>

-----------------------------------------------------------------------------
Waits(s) == WaiterSees(s) \/ WaiterGivesUp(s) \/ WaiterLate(s)

Next ==
  \/ ExternalStarts \/ ExternalStops \/ TaskExits
  \/ \E b \in Starts :
       BackendBinds(b) \/ BackendDies(b) \/ Waits(b) \/ WaiterReports(b)
  \/ \E attach \in BOOLEAN :
       SpawnAgent(attach) \/ AgentStarts(attach) \/ AgentLeaves(attach)
  \/ \E ok \in BOOLEAN : FetchEnds(ok) \/ AgentOpened(ok)
  \/ Retry \/ OpenPanel \/ RefreshTimer \/ ClosePanel \/ Quit \/ AgentKilled
  \/ OpenDashboard \/ RetryDashboard \/ DashboardWaits \/ DashboardReports
  \/ CloseDashboard

Spec == Init /\ [][Next]_vars

(* Threads run and have deadlines, the main queue is served, requests end  *)
(* and timers fire. Users and services owe nothing.                        *)
FairSpec ==
  /\ Spec
  /\ WF_vars(TaskExits) /\ WF_vars(RefreshTimer)
  /\ WF_vars(\E ok \in BOOLEAN : FetchEnds(ok))
  /\ WF_vars(\E ok \in BOOLEAN : AgentOpened(ok))
  /\ WF_vars(DashboardWaits) /\ WF_vars(DashboardReports)
  /\ \A s \in Starts : WF_vars(Waits(s)) /\ WF_vars(WaiterReports(s))

-----------------------------------------------------------------------------
(* Properties *)

(* Every variable stays in its range, and a task that the controller has   *)
(* was launched.                                                           *)
TypeOK ==
  /\ external \in {"off", "serving"}
  /\ backend \in [Starts -> {"none", "starting", "serving", "dead"}]
  /\ orphans \subseteq Starts /\ coming \subseteq BOOLEAN
  /\ agent \in {"off", "running"} /\ attachOnly \in BOOLEAN
  /\ app \in Apps /\ (app.current # 0 => HasTask(app.current))
  /\ started \in 0 .. MaxStarts
  /\ waiter \in [Starts -> {"none", "polling", "seen", "late", "gone"}]
  /\ panel \in BOOLEAN /\ fetches \in 0 .. MaxFetches
  /\ view \in {"closed", "loading", "web", "error"}
  /\ wait \in {"none", "launching", "polling", "seen", "late"}

(* Every live backend is the task of the agent that launched it, unless    *)
(* that agent was killed: Retry replaces it and quitting stops it          *)
(* (stopTaskIfNeeded, prepareForTermination).                              *)
NoStrayBackend ==
  \A b \in Starts \ orphans :
    Alive(b) => agent = "running" /\ app.current = b

(* A waiter changes the status only on behalf of the newest start: one of  *)
(* an earlier start, also one that was given no task to compare with,      *)
(* never reports Ready or Failed over what came after it                   *)
(* (waitForReadyForTask, the enabling of the Retry button).                *)
ReportsAreOfTheNewestStart ==
  [][\A s \in Starts :
       (WaiterReports(s) /\ app' # app) => s = started]_vars

(* A start settles in Ready or Failed, or the agent ends; a dashboard that *)
(* is loading settles in the page or an error, or is closed: every wait    *)
(* has a deadline, and a waiter that gives up leaves the report to the     *)
(* exit of its task (waitForReadyForTask, LSDashboardCoordinator).         *)
StartsSettle ==
  /\ app.status = "starting" ~> app.status # "starting"
  /\ view = "loading" ~> view # "loading"

(* A panel that is left open over a service that has stopped does not go   *)
(* on showing Ready, although nothing watches a service that is not the    *)
(* agent's own but the overview's timer (refreshOverviewIfNeeded).         *)
PanelShowsOutage ==
  <>[](agent = "running" /\ panel /\ ~Serving) =>
    <>[](app.shown # "ready")
=============================================================================
