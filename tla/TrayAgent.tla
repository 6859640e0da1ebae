------------------------------ MODULE TrayAgent ------------------------------
(***************************************************************************)
(* The Linux desktop shell (desktop/linux): the tray agent, the dashboard  *)
(* window, the backends the tray launches, and a service that somebody     *)
(* started in a terminal. They meet at one pair of addresses, which at     *)
(* most one service can hold.                                              *)
(*                                                                         *)
(* GLib is external: one main loop per process runs its callbacks one at a *)
(* time; an application id keeps a second tray or dashboard from starting. *)
(***************************************************************************)
EXTENDS Naturals, FiniteSets

CONSTANTS
  MaxBackends,   \* bound on the backends ever launched
  MaxPolls       \* the dashboard's remaining_attempts, 80 in the code

ASSUME TrayAssumption ==
  /\ MaxBackends \in Nat
  /\ MaxPolls \in Nat \ {0}

VARIABLES
  external,    \* a service run by somebody else
  backend,     \* the processes launched by ls_launch_backend
  told,        \* those whose exit the main loop has reported
  orphans,     \* those that outlived their tray
  coming,      \* tray processes on their way up, by their attach_only flag
  tray,        \* the tray process
  attachOnly,  \* its runtime_info.attach_only
  stopping,    \* its intentionally_stopping
  agent,       \* the rest of LSTrayApp
  view,        \* the page the dashboard shows
  polls        \* its remaining_attempts, 0 for no timer

services     == <<external, backend, orphans>>
trayVars     == <<tray, attachOnly, stopping>>
dashboardVars == <<view, polls>>
vars == <<services, told, coming, trayVars, agent, dashboardVars>>

Backends == 1 .. MaxBackends
Status   == {"idle", "starting", "ready", "failed"}
Agents   == [status : Status, attached : BOOLEAN, current : 0 .. MaxBackends,
             retry : BOOLEAN]

FreshAgent ==
  [status |-> "idle", attached |-> FALSE, current |-> 0, retry |-> TRUE]

Alive(b) == backend[b] \in {"starting", "serving"}

(* Somebody holds the addresses: the probes of ls_tray_ensure_service find *)
(* them in use, and a backend that comes up now cannot bind them.          *)
Taken(processes) ==
  external = "serving" \/ \E b \in Backends : processes[b] = "serving"

Serving == Taken(backend)

Init ==
  /\ external = "off"
  /\ backend = [b \in Backends |-> "none"] /\ told = {} /\ orphans = {}
  /\ coming = {} /\ tray = "off" /\ attachOnly = FALSE /\ stopping = FALSE
  /\ agent = FreshAgent
  /\ view = "closed" /\ polls = 0

-----------------------------------------------------------------------------
(* Services *)

(* "serve" in a terminal of a graphical session also launches a tray.      *)
ExternalStarts ==
  /\ ~Serving
  /\ external' = "serving"
  /\ coming' = coming \cup {TRUE}
  /\ UNCHANGED <<backend, orphans, told, trayVars, agent, dashboardVars>>

ExternalStops ==
  /\ external = "serving"
  /\ external' = "off"
  /\ UNCHANGED <<backend, orphans, told, coming, trayVars, agent,
                 dashboardVars>>

(* A backend comes up: "serve" fails if an address is taken. *)
BackendBinds(b) ==
  /\ backend[b] = "starting"
  /\ backend' = [backend EXCEPT ![b] = IF Serving THEN "dead" ELSE "serving"]
  /\ UNCHANGED <<external, orphans, told, coming, trayVars, agent,
                 dashboardVars>>

BackendDies(b) ==
  /\ Alive(b)
  /\ backend' = [backend EXCEPT ![b] = "dead"]
  /\ UNCHANGED <<external, orphans, told, coming, trayVars, agent,
                 dashboardVars>>

-----------------------------------------------------------------------------
(* The tray's handlers, as functions of its state *)

(* A status, and the menu that ls_tray_update_menu makes of it *)
Showing(a, status) ==
  [a EXCEPT !.status = status, !.retry = status \in {"failed", "idle"}]

(* ls_tray_start_backend; 0 stands for a launch that failed *)
StartBackend(a, launched) ==
  IF a.current # 0 THEN a
  ELSE IF launched = 0 THEN Showing(a, "failed")
  ELSE Showing([a EXCEPT !.current = launched], "starting")

EnsureService(a, processes, launched) ==
  IF Taken(processes) \/ attachOnly'
  THEN Showing([a EXCEPT !.attached = TRUE], "starting")
  ELSE StartBackend([a EXCEPT !.attached = FALSE], launched)

(* Fault: an error stays until Retry *)
RefreshedKeepsFailure(a, ok) ==
  Showing(a, IF a.status = "failed" THEN "failed"
             ELSE IF ok THEN "ready" ELSE "starting")

(* ls_tray_refresh *)
Refreshed(a, ok) ==
  Showing(a, IF ok THEN "ready"
             ELSE IF a.status = "failed" THEN "failed" ELSE "starting")

(* The backend that a launch would be: the first unused one, or none *)
Launches ==
  {0} \cup {b \in Backends : /\ backend[b] = "none"
                             /\ \A c \in 1 .. b - 1 : backend[c] # "none"}

Launched(processes, a) ==
  IF a.current # 0 /\ processes[a.current] = "none"
  THEN [processes EXCEPT ![a.current] = "starting"]
  ELSE processes

(* Fault: the backend is signalled only by the menu's Quit *)
StoppedOnQuitOnly ==
  IF agent.current # 0 /\ stopping'
  THEN [backend EXCEPT ![agent.current] = "dead"] ELSE backend

(* ls_stop_backend: SIGTERM, and wait until the process is gone *)
Stopped ==
  IF agent.current # 0 THEN [backend EXCEPT ![agent.current] = "dead"]
                       ELSE backend

-----------------------------------------------------------------------------
(* The tray process *)

(* The user runs --mode=tray; autostart and "serve" do it with attach-only.*)
SpawnTray(attach) ==
  /\ coming' = coming \cup {attach}
  /\ UNCHANGED <<services, told, trayVars, agent, dashboardVars>>

(* No application is there yet: ls_tray_startup and ls_tray_activate *)
TrayStarts(attach) ==
  /\ attach \in coming /\ tray = "off"
  /\ coming' = coming \ {attach}
  /\ tray' = "running" /\ attachOnly' = attach /\ stopping' = FALSE
  /\ \E launched \in Launches, ok \in {FALSE, Serving} :
       /\ agent' = Refreshed(EnsureService(FreshAgent, backend, launched), ok)
       /\ backend' = Launched(backend, agent')
  /\ UNCHANGED <<external, orphans, told, dashboardVars>>

(* Another tray is there, which is only activated again; or the runtime    *)
(* cannot be resolved.                                                     *)
TrayLeaves(attach) ==
  /\ attach \in coming
  /\ coming' = coming \ {attach}
  /\ UNCHANGED <<services, told, trayVars, agent, dashboardVars>>

Refresh(ok) ==
  /\ tray \in {"running", "quitting"} /\ (ok => Serving)
  /\ agent' = Refreshed(agent, ok)
  /\ UNCHANGED <<services, told, coming, trayVars, dashboardVars>>

(* Fault: the process is not cleared when it has exited *)
WaitDoneKeepsProcess(b) ==
  /\ tray \in {"running", "quitting"}
  /\ backend[b] = "dead" /\ b \notin told \cup orphans
  /\ told' = told \cup {b}
  /\ agent' = IF stopping \/ b # agent.current THEN agent
              ELSE Showing(agent, "failed")
  /\ UNCHANGED <<services, coming, trayVars, dashboardVars>>

(* ls_tray_backend_wait_done *)
WaitDone(b) ==
  /\ tray \in {"running", "quitting"}
  /\ backend[b] = "dead" /\ b \notin told \cup orphans
  /\ told' = told \cup {b}
  /\ agent' = IF stopping \/ b # agent.current THEN agent
              ELSE Showing([agent EXCEPT !.current = 0], "failed")
  /\ UNCHANGED <<services, coming, trayVars, dashboardVars>>

Retry ==
  /\ tray = "running" /\ agent.retry
  /\ stopping' = FALSE /\ UNCHANGED <<tray, attachOnly>>
  /\ \E launched \in Launches :
       /\ agent' = EnsureService([agent EXCEPT !.status = "idle",
                                               !.current = 0],
                                 Stopped, launched)
       /\ backend' = Launched(Stopped, agent')
  /\ UNCHANGED <<external, orphans, told, coming, dashboardVars>>

(* The menu's Quit stops the backend itself; the fallback window's button  *)
(* only leaves the main loop.                                              *)
Quit ==
  /\ tray = "running"
  /\ tray' = "quitting"
  /\ \/ stopping' = TRUE /\ backend' = Stopped
     \/ UNCHANGED <<stopping, backend>>
  /\ UNCHANGED <<external, orphans, told, coming, attachOnly, agent,
                 dashboardVars>>

(* ls_tray_shutdown, after the callbacks of the loop's last turn *)
Shutdown ==
  /\ tray = "quitting"
  /\ tray' = "off" /\ UNCHANGED <<attachOnly, stopping>>
  /\ backend' = Stopped
  /\ told' = told \cup {b \in Backends : backend'[b] = "dead"}
  /\ agent' = FreshAgent
  /\ UNCHANGED <<external, orphans, coming, dashboardVars>>

(* The tray is killed: its backend lives on. *)
TrayKilled ==
  /\ tray # "off"
  /\ tray' = "off" /\ UNCHANGED <<attachOnly, stopping>>
  /\ orphans' = orphans \cup ({agent.current} \ {0})
  /\ told' = told \cup {b \in Backends : backend[b] = "dead"}
  /\ agent' = FreshAgent
  /\ UNCHANGED <<external, backend, coming, dashboardVars>>

-----------------------------------------------------------------------------
(* The dashboard *)

(* ls_dashboard_start_wait and ls_dashboard_ensure_tray: an error is shown *)
(* if no tray can be spawned, and the poll goes on behind it.              *)
StartWait ==
  /\ \E spawned \in BOOLEAN :
       /\ coming' = IF spawned THEN coming \cup {TRUE} ELSE coming
       /\ view' = IF spawned THEN "loading" ELSE "error"
  /\ polls' = MaxPolls

OpenDashboard ==
  /\ view = "closed"
  /\ StartWait
  /\ UNCHANGED <<services, told, trayVars, agent>>

RetryDashboard ==
  /\ view = "error"
  /\ StartWait
  /\ UNCHANGED <<services, told, trayVars, agent>>

Poll(ok) ==
  /\ polls > 0 /\ (ok => Serving)
  /\ IF ok THEN view' = "web" /\ polls' = 0
           ELSE /\ polls' = polls - 1
                /\ view' = IF polls = 1 THEN "error" ELSE view
  /\ UNCHANGED <<services, told, coming, trayVars, agent>>

CloseDashboard ==
  /\ view # "closed"
  /\ view' = "closed" /\ polls' = 0
  /\ UNCHANGED <<services, told, coming, trayVars, agent>>

Next ==
  \/ ExternalStarts \/ ExternalStops
  \/ \E b \in Backends : BackendBinds(b) \/ BackendDies(b) \/ WaitDone(b)
  \/ \E attach \in BOOLEAN :
       SpawnTray(attach) \/ TrayStarts(attach) \/ TrayLeaves(attach)
  \/ \E ok \in BOOLEAN : Refresh(ok) \/ Poll(ok)
  \/ Retry \/ Quit \/ Shutdown \/ TrayKilled
  \/ OpenDashboard \/ RetryDashboard \/ CloseDashboard

Spec == Init /\ [][Next]_vars

(* Main loops turn: timers fire, also with good answers from a service     *)
(* that stays, and exits are reported.                                     *)
FairSpec ==
  /\ Spec
  /\ WF_vars(Refresh(TRUE)) /\ WF_vars(\E ok \in BOOLEAN : Poll(ok))
  /\ WF_vars(Shutdown)
  /\ \A b \in Backends : WF_vars(WaitDone(b))

-----------------------------------------------------------------------------
(* Properties *)

TypeOK ==
  /\ external \in {"off", "serving"}
  /\ backend \in [Backends -> {"none", "starting", "serving", "dead"}]
  /\ told \subseteq Backends /\ orphans \subseteq Backends
  /\ coming \subseteq BOOLEAN
  /\ tray \in {"off", "running", "quitting"}
  /\ attachOnly \in BOOLEAN /\ stopping \in BOOLEAN
  /\ agent \in Agents
  /\ view \in {"closed", "loading", "web", "error"}
  /\ polls \in 0 .. MaxPolls

(* Every live backend is the one its tray knows of and will stop, unless   *)
(* that tray was killed: no way to quit leaves a backend behind, and no    *)
(* retry launches a second one (ls_tray_shutdown, ls_tray_retry).          *)
NoStrayBackend ==
  \A b \in Backends \ orphans :
    Alive(b) => tray # "off" /\ agent.current = b

(* A tray that has a backend of its own is not attached to another service *)
(* and does not offer Retry: Retry never takes down a backend that runs    *)
(* (ls_tray_update_menu, ls_tray_ensure_service).                          *)
OwnBackendIsKept ==
  (tray # "off" /\ agent.current # 0) => ~agent.attached /\ ~agent.retry

(* A tray beside a service that stays gets to show Ready again and again,  *)
(* whoever launched the service and whatever failed before; a dashboard    *)
(* that is loading settles in the page or an error, or is closed           *)
(* (ls_tray_refresh, ls_dashboard_poll_ready).                             *)
ShellSettles ==
  /\ <>[](Serving /\ tray = "running") => []<>(agent.status = "ready")
  /\ view = "loading" ~> view # "loading"
=============================================================================
