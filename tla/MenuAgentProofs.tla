--------------------------- MODULE MenuAgentProofs ---------------------------
(***************************************************************************)
(* The menu agent for any number of starts and of overview requests: it    *)
(* leaves no backend behind, and no waiter reports over a newer start.     *)
(***************************************************************************)
EXTENDS MenuAgent, TLAPS

Waiting == {"polling", "seen", "late"}

(* An agent that is off has forgotten everything; nothing is known of      *)
(* starts to come; and the task of the controller is that of the newest.   *)
AgentFacts ==
  /\ agent = "off" => /\ app = FreshApp
                      /\ \A s \in Starts : waiter[s] \notin Waiting
  /\ \A s \in Starts : s > started => backend[s] = "none" /\ waiter[s] = "none"
  /\ app.current \in {0, started}

(* A waiter without a task is that of the newest start, which is still     *)
(* Starting in the controller and in the panel, and has no task either.    *)
(* The panel is what keeps Retry from overtaking it.                       *)
TasklessAreNewest ==
  \A s \in Starts :
    (waiter[s] \in Waiting /\ ~HasTask(s)) =>
      /\ s = started /\ app.current = 0
      /\ app.status = "starting" /\ app.shown = "starting"

MenuInv == TypeOK /\ AgentFacts /\ NoStrayBackend /\ TasklessAreNewest

-----------------------------------------------------------------------------
(* A new status is shown at once, and changes nothing else. *)
LEMMA ShowingIs ==
  ASSUME NEW a \in Apps, NEW status \in Status
  PROVE  /\ Showing(a, status) \in Apps
         /\ Showing(a, status).status = status
         /\ Showing(a, status).shown = status
         /\ Showing(a, status).current = a.current
BY DEF Showing, Apps

(* Stopping the task leaves no live backend but orphans. *)
LEMMA StoppedIs ==
  ASSUME MenuInv
  PROVE  /\ Stopped \in [Starts -> {"none", "starting", "serving", "dead"}]
         /\ \A b \in Starts : (Stopped[b] = "none" <=> backend[b] = "none")
         /\ \A b \in Starts \ orphans : Stopped[b] \notin {"starting", "serving"}
<1>1. CASE app.current = 0
  BY <1>1 DEF MenuInv, TypeOK, NoStrayBackend, Alive, Stopped, Starts
<1>2. CASE app.current # 0
  <2>1. app.current \in Starts /\ backend[app.current] # "none"
    BY <1>2, MenuAssumption DEF MenuInv, TypeOK, Apps, Starts, HasTask
  <2>2. Stopped = [backend EXCEPT ![app.current] = "dead"]
    BY <1>2 DEF Stopped
  <2>. QED BY <2>1, <2>2 DEF MenuInv, TypeOK, NoStrayBackend, Alive
<1>. QED BY <1>1, <1>2

(* A start over a store of processes without a live task, by an agent that *)
(* has no task and no waiter without one *)
LEMMA StartKeepsInv ==
  ASSUME MenuInv,
         NEW a \in Apps, a.current = 0,
         NEW processes \in [Starts -> {"none", "starting", "serving", "dead"}],
         \A b \in Starts : processes[b] = "none" <=> backend[b] = "none",
         \A b \in Starts \ orphans : processes[b] \notin {"starting", "serving"},
         \A s \in Starts : waiter[s] \in Waiting => HasTask(s),
         agent' = "running", attachOnly' \in BOOLEAN, panel' \in BOOLEAN,
         coming' \subseteq BOOLEAN,
         UNCHANGED <<external, orphans, fetches, dashboardVars>>,
         StartService(a, processes)
  PROVE  MenuInv'
<1>. USE MenuAssumption
<1>. DEFINE resolved == [a EXCEPT !.resolved = TRUE]
<1>1. resolved \in Apps /\ resolved.current = 0
  BY DEF Apps
<1>2. CASE ~a.resolved /\ app' = Showing(a, "failed") /\ backend' = processes
           /\ UNCHANGED <<started, waiter>>
  <2>1. app' \in Apps /\ app'.current = 0
    BY <1>2, ShowingIs DEF Status
  <2>2. TypeOK'
    BY <1>2, <2>1 DEF MenuInv, TypeOK, dashboardVars
  <2>3. AgentFacts' /\ NoStrayBackend'
    BY <1>2, <2>1 DEF MenuInv, TypeOK, AgentFacts, NoStrayBackend, Alive
  <2>4. TasklessAreNewest'
    BY <1>2, <2>1 DEF MenuInv, TypeOK, TasklessAreNewest, HasTask
  <2>. QED BY <2>2, <2>3, <2>4 DEF MenuInv
<1>3. CASE Start(resolved, processes)
  <2>1. started' = started + 1 /\ started' \in Starts /\ started \in Nat
    BY <1>3 DEF Start, MenuInv, TypeOK, Starts
  <2>2. backend[started'] = "none" /\ waiter[started'] = "none"
    BY <2>1 DEF MenuInv, AgentFacts
  <2>. DEFINE shown(status) == Showing(resolved, status)
  <2>3. \A status \in Status :
          /\ shown(status) \in Apps /\ shown(status).status = status
          /\ shown(status).shown = status /\ shown(status).current = 0
    <3>. HIDE DEF resolved
    <3>. QED BY <1>1, ShowingIs
  <2>. HIDE DEF resolved
  <2>4. CASE /\ app' = shown("starting") /\ backend' = processes
             /\ waiter' = [waiter EXCEPT ![started'] = "polling"]
    <3>1. app' \in Apps /\ app'.current = 0 /\ app'.status = "starting"
          /\ app'.shown = "starting"
      BY <2>3, <2>4 DEF Status
    <3>2. TypeOK'
      BY <2>1, <2>4, <3>1 DEF MenuInv, TypeOK, Starts, dashboardVars
    <3>3. AgentFacts'
      BY <2>1, <2>4, <3>1 DEF MenuInv, TypeOK, AgentFacts, Starts
    <3>4. NoStrayBackend'
      BY <2>4 DEF NoStrayBackend, Alive
    <3>5. TasklessAreNewest'
      BY <2>1, <2>4, <3>1 DEF MenuInv, TypeOK, TasklessAreNewest, HasTask
    <3>. QED BY <3>2, <3>3, <3>4, <3>5 DEF MenuInv
  <2>5. CASE /\ app' = shown("failed") /\ UNCHANGED waiter
             /\ backend' = processes
    <3>1. app' \in Apps /\ app'.current = 0
      BY <2>3, <2>5 DEF Status
    <3>2. TypeOK'
      BY <2>1, <2>5, <3>1 DEF MenuInv, TypeOK, Starts, dashboardVars
    <3>3. AgentFacts'
      BY <2>1, <2>5, <3>1 DEF MenuInv, TypeOK, AgentFacts, Starts
    <3>4. NoStrayBackend'
      BY <2>5 DEF NoStrayBackend, Alive
    <3>5. TasklessAreNewest'
      BY <2>5 DEF TasklessAreNewest, HasTask
    <3>. QED BY <3>2, <3>3, <3>4, <3>5 DEF MenuInv
  <2>6. CASE /\ app' = [shown("starting") EXCEPT !.current = started']
             /\ backend' = [processes EXCEPT ![started'] = "starting"]
             /\ waiter' = [waiter EXCEPT ![started'] = "polling"]
    <3>1. app' \in Apps /\ app'.current = started'
      BY <2>1, <2>3, <2>6 DEF Status, Apps, Starts
    <3>2. TypeOK'
      BY <2>1, <2>6, <3>1 DEF MenuInv, TypeOK, HasTask, Starts, dashboardVars
    <3>3. AgentFacts'
      BY <2>1, <2>6, <3>1 DEF MenuInv, TypeOK, AgentFacts, Starts
    <3>4. NoStrayBackend'
      BY <2>1, <2>6, <3>1 DEF NoStrayBackend, Alive
    <3>5. TasklessAreNewest'
      BY <2>1, <2>6 DEF MenuInv, TypeOK, TasklessAreNewest, HasTask
    <3>. QED BY <3>2, <3>3, <3>4, <3>5 DEF MenuInv
  <2>. QED BY <1>3, <2>4, <2>5, <2>6 DEF Start, LaunchFails
<1>. QED BY <1>2, <1>3 DEF StartService, RuntimeFails

(* A fresh agent has no task and no waiter. *)
LEMMA AgentStartsKeepsInv ==
  ASSUME MenuInv, NEW attach \in BOOLEAN, AgentStarts(attach)
  PROVE  MenuInv'
<1>1. FreshApp \in Apps /\ FreshApp.current = 0
  BY MenuAssumption DEF FreshApp, Apps, Status
<1>2. backend \in [Starts -> {"none", "starting", "serving", "dead"}]
  BY DEF MenuInv, TypeOK
<1>3. \A b \in Starts \ orphans : backend[b] \notin {"starting", "serving"}
  BY DEF MenuInv, NoStrayBackend, Alive, AgentStarts
<1>4. \A s \in Starts : waiter[s] \in Waiting => HasTask(s)
  BY DEF MenuInv, AgentFacts, AgentStarts
<1>5. /\ agent' = "running" /\ attachOnly' \in BOOLEAN /\ panel' \in BOOLEAN
      /\ coming' \subseteq BOOLEAN /\ StartService(FreshApp, backend)
      /\ UNCHANGED <<external, orphans, fetches, dashboardVars>>
  BY DEF AgentStarts, MenuInv, TypeOK
<1>. HIDE DEF FreshApp
<1>. QED BY <1>1, <1>2, <1>3, <1>4, <1>5, StartKeepsInv

(* Retry can be chosen only where no waiter is without a task. *)
LEMMA RetryKeepsInv ==
  ASSUME MenuInv, Retry
  PROVE  MenuInv'
<1>. DEFINE forgotten == [app EXCEPT !.current = 0]
<1>1. forgotten \in Apps /\ forgotten.current = 0
  BY MenuAssumption DEF MenuInv, TypeOK, Apps
<1>2. \A s \in Starts : waiter[s] \in Waiting => HasTask(s)
  BY DEF MenuInv, TasklessAreNewest, Retry, RetryEnabled
<1>3. /\ agent' = "running" /\ attachOnly' \in BOOLEAN /\ panel' \in BOOLEAN
      /\ coming' \subseteq BOOLEAN /\ StartService(forgotten, Stopped)
      /\ UNCHANGED <<external, orphans, fetches, dashboardVars>>
  BY DEF Retry, MenuInv, TypeOK
<1>. HIDE DEF forgotten
<1>. QED BY <1>1, <1>2, <1>3, StoppedIs, StartKeepsInv

(* A thread looks; nothing else changes. *)
LEMMA WaitsKeepsInv ==
  ASSUME MenuInv, NEW s \in Starts, Waits(s)
  PROVE  MenuInv'
<1>1. /\ waiter[s] = "polling" /\ agent = "running"
      /\ \/ waiter' = [waiter EXCEPT ![s] = "seen"]
         \/ waiter' = [waiter EXCEPT ![s] = "late"]
         \/ waiter' = [waiter EXCEPT ![s] = "gone"]
      /\ UNCHANGED <<services, coming, agent, attachOnly, app, started, panel,
                     fetches, dashboardVars>>
  BY DEF Waits, WaiterSees, WaiterGivesUp, WaiterLate
<1>2. TypeOK'
  BY <1>1 DEF MenuInv, TypeOK, HasTask, services, dashboardVars
<1>3. AgentFacts'
  BY <1>1 DEF MenuInv, TypeOK, AgentFacts, services
<1>4. NoStrayBackend'
  BY <1>1 DEF MenuInv, NoStrayBackend, Alive, services
<1>5. TasklessAreNewest'
  BY <1>1 DEF MenuInv, TypeOK, TasklessAreNewest, HasTask, Waiting, services
<1>. QED BY <1>2, <1>3, <1>4, <1>5 DEF MenuInv

(* A report that is not stale is of the newest start: by its task, or by   *)
(* TasklessAreNewest.                                                      *)
LEMMA ReporterIsNewest ==
  ASSUME MenuInv, NEW s \in Starts, WaiterReports(s), ~Stale(s)
  PROVE  s = started
<1>1. CASE HasTask(s)
  BY <1>1 DEF Stale, MenuInv, AgentFacts, Starts
<1>2. CASE ~HasTask(s)
  BY <1>2 DEF WaiterReports, MenuInv, TasklessAreNewest, Waiting
<1>. QED BY <1>1, <1>2

(* A waiter that is not stale is of the newest start. *)
LEMMA WaiterReportsKeepsInv ==
  ASSUME MenuInv, NEW s \in Starts, WaiterReports(s)
  PROVE  MenuInv'
<1>. USE MenuAssumption
<1>1. /\ waiter' = [waiter EXCEPT ![s] = "gone"] /\ waiter[s] \in Waiting
      /\ agent = "running"
      /\ UNCHANGED <<services, coming, agent, attachOnly, started, panel,
                     dashboardVars>>
  BY DEF WaiterReports, Waiting
<1>2. /\ app' \in Apps /\ app'.current = app.current
      /\ Stale(s) => app' = app
  BY ShowingIs DEF WaiterReports, MenuInv, TypeOK, Status
<1>3. fetches' \in 0 .. MaxFetches
  BY DEF WaiterReports, MenuInv, TypeOK, Fetching
<1>4. TypeOK'
  BY <1>1, <1>2, <1>3 DEF MenuInv, TypeOK, HasTask, services, dashboardVars
<1>5. AgentFacts'
  BY <1>1, <1>2 DEF MenuInv, TypeOK, AgentFacts, Waiting, services
<1>6. NoStrayBackend'
  BY <1>1, <1>2 DEF MenuInv, NoStrayBackend, Alive, services
<1>7. TasklessAreNewest'
  <2>1. CASE Stale(s)
    BY <1>1, <1>2, <2>1 DEF MenuInv, TypeOK, TasklessAreNewest, HasTask,
       Waiting, services
  <2>2. CASE ~Stale(s)
    <3>1. s = started
      BY <2>2, ReporterIsNewest
    <3>. QED BY <1>1, <3>1 DEF MenuInv, TypeOK, TasklessAreNewest, HasTask,
           Waiting, services
  <2>. QED BY <2>1, <2>2
<1>. QED BY <1>4, <1>5, <1>6, <1>7 DEF MenuInv

(* The report of an exit clears the task it is about, and no other. *)
LEMMA TaskExitsKeepsInv ==
  ASSUME MenuInv, TaskExits
  PROVE  MenuInv'
<1>. DEFINE failed == Showing(app, "failed")
<1>1. failed \in Apps
  BY ShowingIs DEF MenuInv, TypeOK, Status
<1>2. app' = [failed EXCEPT !.current = 0]
  BY DEF TaskExits
<1>. HIDE DEF failed
<1>3. app' \in Apps /\ app'.current = 0
  BY <1>1, <1>2, MenuAssumption DEF Apps
<1>4. TypeOK'
  BY <1>3 DEF TaskExits, MenuInv, TypeOK, services, dashboardVars
<1>5. AgentFacts'
  BY <1>3 DEF TaskExits, MenuInv, AgentFacts, services
<1>6. NoStrayBackend'
  BY DEF TaskExits, MenuInv, NoStrayBackend, Alive, services
<1>7. TasklessAreNewest'
  BY DEF TaskExits, MenuInv, TasklessAreNewest, HasTask, services
<1>. QED BY <1>4, <1>5, <1>6, <1>7 DEF MenuInv

(* The panel: its status may change, but not while the controller starts. *)
LEMMA PanelKeepsInv ==
  ASSUME MenuInv,
         \/ OpenPanel \/ RefreshTimer \/ ClosePanel
         \/ \E ok \in BOOLEAN : FetchEnds(ok)
  PROVE  MenuInv'
<1>. USE MenuAssumption
<1>1. /\ UNCHANGED <<services, coming, agent, attachOnly, started, waiter,
                     dashboardVars>>
      /\ panel' \in BOOLEAN
  BY DEF OpenPanel, RefreshTimer, ClosePanel, FetchEnds, MenuInv, TypeOK
<1>2. \/ UNCHANGED app
      \/ app.status # "ready" /\ app' = [app EXCEPT !.shown = app.status]
      \/ app.status = "ready" /\ app' = [app EXCEPT !.shown = "failed"]
  BY DEF OpenPanel, RefreshTimer, ClosePanel, FetchEnds, RefreshOverview,
     AfterFetch
<1>3. /\ app' \in Apps /\ app'.current = app.current
      /\ app'.status = app.status
      /\ (app.status = "starting" /\ app.shown = "starting") =>
           app'.shown = "starting"
  BY <1>2 DEF MenuInv, TypeOK, Apps, Status
<1>4. fetches' \in 0 .. MaxFetches
  BY DEF OpenPanel, RefreshTimer, ClosePanel, FetchEnds, RefreshOverview,
     Fetching, MenuInv, TypeOK
<1>5. agent = "running"
  BY DEF OpenPanel, RefreshTimer, ClosePanel, FetchEnds
<1>6. TypeOK'
  BY <1>1, <1>3, <1>4 DEF MenuInv, TypeOK, HasTask, services, dashboardVars
<1>7. AgentFacts'
  BY <1>1, <1>3, <1>5 DEF MenuInv, AgentFacts, services
<1>8. NoStrayBackend'
  BY <1>1, <1>3 DEF MenuInv, NoStrayBackend, Alive, services
<1>9. TasklessAreNewest'
  BY <1>1, <1>3 DEF MenuInv, TasklessAreNewest, HasTask, services
<1>. QED BY <1>6, <1>7, <1>8, <1>9 DEF MenuInv

(* The agent ends: only a killed one leaves its backend, as an orphan. *)
LEMMA EndKeepsInv ==
  ASSUME MenuInv, Quit \/ AgentKilled
  PROVE  MenuInv'
<1>. USE MenuAssumption
<1>1. /\ agent' = "off" /\ app' = FreshApp /\ panel' = FALSE /\ fetches' = 0
      /\ waiter' = [s \in Starts |-> IF waiter[s] = "none" THEN "none" ELSE "gone"]
      /\ UNCHANGED <<attachOnly, started, external, coming>>
  BY DEF Quit, AgentKilled, EndAgent
<1>2. FreshApp \in Apps /\ FreshApp.current = 0
  BY DEF FreshApp, Apps, Status
<1>3. /\ backend' \in [Starts -> {"none", "starting", "serving", "dead"}]
      /\ \A b \in Starts : backend'[b] = "none" <=> backend[b] = "none"
      /\ \A b \in Starts \ orphans' : backend'[b] \notin {"starting", "serving"}
      /\ orphans' \subseteq Starts
  <2>1. CASE Quit
    BY <2>1, StoppedIs DEF Quit, MenuInv, TypeOK
  <2>2. CASE AgentKilled
    <3>1. /\ orphans' = orphans \cup ({app.current} \ {0}) /\ backend' = backend
      BY <2>2 DEF AgentKilled
    <3>2. {app.current} \ {0} \subseteq Starts
      BY DEF MenuInv, TypeOK, Apps, Starts
    <3>3. \A b \in Starts \ orphans' : backend[b] \notin {"starting", "serving"}
      BY <3>1 DEF MenuInv, NoStrayBackend, Alive, Starts
    <3>. QED BY <3>1, <3>2, <3>3 DEF MenuInv, TypeOK
  <2>. QED BY <2>1, <2>2
<1>4. view' \in {"closed", "loading", "web", "error"}
      /\ wait' \in {"none", "launching", "polling", "seen", "late"}
  BY DEF Quit, AgentKilled, MenuInv, TypeOK, dashboardVars
<1>. HIDE DEF FreshApp
<1>5. waiter' \in [Starts -> {"none", "polling", "seen", "late", "gone"}]
  BY <1>1
<1>6. app' \in Apps /\ app'.current = 0 /\ 0 \in 0 .. MaxFetches
  BY <1>1, <1>2
<1>7. TypeOK'
  BY <1>1, <1>3, <1>4, <1>5, <1>6 DEF MenuInv, TypeOK
<1>8. AgentFacts'
  BY <1>1, <1>2, <1>3 DEF MenuInv, AgentFacts, Waiting
<1>9. NoStrayBackend'
  BY <1>3 DEF NoStrayBackend, Alive
<1>10. TasklessAreNewest'
  BY <1>1 DEF TasklessAreNewest, Waiting
<1>. QED BY <1>7, <1>8, <1>9, <1>10 DEF MenuInv

(* The services, whoever runs them *)
LEMMA ServicesKeepInv ==
  ASSUME MenuInv,
         \/ ExternalStarts \/ ExternalStops
         \/ \E b \in Starts : BackendBinds(b) \/ BackendDies(b)
  PROVE  MenuInv'
<1>1. /\ UNCHANGED <<orphans, agentVars, dashboardVars>>
      /\ external' \in {"off", "serving"} /\ coming' \subseteq BOOLEAN
  BY DEF ExternalStarts, ExternalStops, BackendBinds, BackendDies, MenuInv, TypeOK
<1>2. /\ backend' \in [Starts -> {"none", "starting", "serving", "dead"}]
      /\ \A s \in Starts : backend'[s] = "none" <=> backend[s] = "none"
      /\ \A s \in Starts : Alive(s)' => Alive(s)
  BY DEF ExternalStarts, ExternalStops, BackendBinds, BackendDies, Alive,
     MenuInv, TypeOK
<1>3. TypeOK'
  BY <1>1, <1>2 DEF MenuInv, TypeOK, HasTask, Apps, Starts, agentVars,
     dashboardVars
<1>4. AgentFacts'
  BY <1>1, <1>2 DEF MenuInv, AgentFacts, agentVars
<1>5. NoStrayBackend'
  BY <1>1, <1>2 DEF MenuInv, NoStrayBackend, agentVars
<1>6. TasklessAreNewest'
  BY <1>1, <1>2 DEF MenuInv, TasklessAreNewest, HasTask, agentVars
<1>. QED BY <1>3, <1>4, <1>5, <1>6 DEF MenuInv

(* The dashboard application and the agents on their way up *)
LEMMA DashboardKeepsInv ==
  ASSUME MenuInv,
         \/ OpenDashboard \/ RetryDashboard \/ DashboardWaits
         \/ DashboardReports \/ CloseDashboard
         \/ \E ok \in BOOLEAN : AgentOpened(ok)
         \/ \E attach \in BOOLEAN : SpawnAgent(attach) \/ AgentLeaves(attach)
         \/ UNCHANGED vars
  PROVE  MenuInv'
<1>. USE DEF MenuInv, TypeOK
<1>1. /\ UNCHANGED <<services, agentVars>>
      /\ coming' \subseteq BOOLEAN
      /\ view' \in {"closed", "loading", "web", "error"}
      /\ wait' \in {"none", "launching", "polling", "seen", "late"}
  <2>1. CASE OpenDashboard \/ RetryDashboard
    BY <2>1 DEF OpenDashboard, RetryDashboard, StartDashboard
  <2>2. CASE DashboardWaits
    BY <2>2 DEF DashboardWaits
  <2>3. CASE DashboardReports \/ CloseDashboard
    BY <2>3 DEF DashboardReports, CloseDashboard
  <2>4. CASE \E ok \in BOOLEAN : AgentOpened(ok)
    <3>1. PICK ok \in BOOLEAN : AgentOpened(ok)
      BY <2>4
    <3>2. CASE ok
      <4>1. /\ UNCHANGED <<services, agentVars, view>> /\ wait' = "polling"
            /\ coming' = coming \cup {FALSE}
        BY <3>1, <3>2 DEF AgentOpened
      <4>2. coming' \subseteq BOOLEAN
        BY <4>1, Zenon
      <4>. QED BY <4>1, <4>2
    <3>3. CASE ~ok
      BY <3>1, <3>3 DEF AgentOpened
    <3>. QED BY <3>2, <3>3
  <2>5. CASE \E attach \in BOOLEAN : SpawnAgent(attach) \/ AgentLeaves(attach)
    BY <2>5 DEF SpawnAgent, AgentLeaves, dashboardVars
  <2>6. CASE UNCHANGED vars
    BY <2>6 DEF vars, dashboardVars
  <2>. QED BY <2>1, <2>2, <2>3, <2>4, <2>5, <2>6
<1>2. TypeOK'
  BY <1>1 DEF MenuInv, TypeOK, HasTask, services, agentVars
<1>3. AgentFacts'
  BY <1>1 DEF MenuInv, AgentFacts, services, agentVars
<1>4. NoStrayBackend'
  BY <1>1 DEF MenuInv, NoStrayBackend, Alive, services, agentVars
<1>5. TasklessAreNewest'
  BY <1>1 DEF MenuInv, TasklessAreNewest, HasTask, services, agentVars
<1>. QED BY <1>2, <1>3, <1>4, <1>5 DEF MenuInv

-----------------------------------------------------------------------------
(* Every step keeps the invariant. *)
LEMMA MenuStep == MenuInv /\ [Next]_vars => MenuInv'
<1>. SUFFICES ASSUME MenuInv, [Next]_vars PROVE MenuInv'
  OBVIOUS
<1>1. CASE \E attach \in BOOLEAN : AgentStarts(attach)
  BY <1>1, AgentStartsKeepsInv
<1>2. CASE Retry
  BY <1>2, RetryKeepsInv
<1>3. CASE \E s \in Starts : Waits(s) \/ WaiterReports(s)
  BY <1>3, WaitsKeepsInv, WaiterReportsKeepsInv
<1>4. CASE TaskExits
  BY <1>4, TaskExitsKeepsInv
<1>5. CASE \/ OpenPanel \/ RefreshTimer \/ ClosePanel
           \/ \E ok \in BOOLEAN : FetchEnds(ok)
  BY <1>5, PanelKeepsInv
<1>6. CASE Quit \/ AgentKilled
  BY <1>6, EndKeepsInv
<1>7. CASE \/ ExternalStarts \/ ExternalStops
           \/ \E b \in Starts : BackendBinds(b) \/ BackendDies(b)
  BY <1>7, ServicesKeepInv
<1>8. CASE \/ OpenDashboard \/ RetryDashboard \/ DashboardWaits
           \/ DashboardReports \/ CloseDashboard
           \/ \E ok \in BOOLEAN : AgentOpened(ok)
           \/ \E attach \in BOOLEAN : SpawnAgent(attach) \/ AgentLeaves(attach)
           \/ UNCHANGED vars
  BY <1>8, DashboardKeepsInv
<1>. QED BY <1>1, <1>2, <1>3, <1>4, <1>5, <1>6, <1>7, <1>8 DEF Next

(* The inductive invariant: the task of the controller is that of the      *)
(* newest start, every live backend is that task or an orphan, and a       *)
(* waiter without a task belongs to the newest start.                      *)
THEOREM MenuInvariant == Spec => []MenuInv
<1>1. ASSUME Init PROVE MenuInv
  <2>1. FreshApp \in Apps /\ FreshApp.current = 0
    BY MenuAssumption DEF FreshApp, Apps, Status
  <2>2. 0 \in 0 .. MaxStarts /\ 0 \in 0 .. MaxFetches
    BY MenuAssumption
  <2>3. TypeOK
    <3>. HIDE DEF FreshApp
    <3>. QED BY <1>1, <2>1, <2>2 DEF Init, TypeOK
  <2>. QED BY <1>1, <2>1, <2>3 DEF Init, MenuInv, AgentFacts, NoStrayBackend,
         TasklessAreNewest, Alive, Waiting
<1>. QED BY <1>1, MenuStep, PTL DEF Spec

(* Whatever the order of retries, deaths and quits, no backend that an     *)
(* agent has launched outlives it or its replacement, a killed agent's     *)
(* excepted (stopTaskIfNeeded, prepareForTermination).                     *)
THEOREM MenuLeavesNoBackend == Spec => []NoStrayBackend
<1>1. MenuInv => NoStrayBackend
  BY DEF MenuInv
<1>. QED BY <1>1, MenuInvariant, PTL

(* No waiter of an earlier start ever changes the status over a newer one, *)
(* for any number of starts (waitForReadyForTask).                         *)
THEOREM NewestStartReports == Spec => ReportsAreOfTheNewestStart
<1>1. ASSUME MenuInv, NEW s \in Starts, WaiterReports(s), app' # app
      PROVE  s = started
  <2>1. ~Stale(s)
    BY <1>1 DEF WaiterReports
  <2>. QED BY <1>1, <2>1, ReporterIsNewest
<1>2. MenuInv /\ [Next]_vars =>
        [\A s \in Starts : (WaiterReports(s) /\ app' # app) => s = started]_vars
  BY <1>1
<1>. QED BY <1>2, MenuInvariant, PTL DEF Spec, ReportsAreOfTheNewestStart
=============================================================================
