--------------------------- MODULE TrayAgentProofs ---------------------------
(***************************************************************************)
(* The tray keeps track of its backend, for any number of launches.        *)
(***************************************************************************)
EXTENDS TrayAgent, TLAPS

(* Retry can be chosen as the status says. *)
MenuFits(a) == a.retry <=> a.status \in {"failed", "idle"}

(* A tray that is off has forgotten everything, and one that runs knows a  *)
(* backend only after it was launched.                                     *)
AgentFacts ==
  /\ tray = "off" => agent = FreshAgent
  /\ agent.current # 0 => backend[agent.current] # "none"
  /\ \A b \in Backends : backend[b] = "none" => b \notin orphans
  /\ MenuFits(agent)

TrayInv == TypeOK /\ AgentFacts /\ NoStrayBackend /\ OwnBackendIsKept

-----------------------------------------------------------------------------
(* The tray's handlers *)

(* A change of status changes the menu with it, and nothing else. *)
LEMMA ShowingIs ==
  ASSUME NEW a \in Agents, NEW status \in Status
  PROVE  /\ Showing(a, status) \in Agents
         /\ Showing(a, status).status = status
         /\ Showing(a, status).retry <=> status \in {"failed", "idle"}
         /\ Showing(a, status).attached = a.attached
         /\ Showing(a, status).current = a.current
<1>. DEFINE sensitive == status \in {"failed", "idle"}
<1>1. sensitive \in BOOLEAN
  OBVIOUS
<1>2. Showing(a, status) = [a EXCEPT !.status = status, !.retry = sensitive]
  BY DEF Showing
<1>3. sensitive <=> status \in {"failed", "idle"}
  OBVIOUS
<1>. HIDE DEF sensitive
<1>. QED BY <1>1, <1>2, <1>3 DEF Agents

(* A refresh moves the status and keeps the backend and the attachment. *)
LEMMA RefreshedIs ==
  ASSUME NEW a \in Agents, NEW ok \in BOOLEAN
  PROVE  /\ Refreshed(a, ok) \in Agents
         /\ Refreshed(a, ok).attached = a.attached
         /\ Refreshed(a, ok).current = a.current
         /\ Refreshed(a, ok).retry => a.status = "failed"
         /\ MenuFits(Refreshed(a, ok))
<1>. DEFINE status == IF ok THEN "ready"
                      ELSE IF a.status = "failed" THEN "failed" ELSE "starting"
<1>1. status \in Status /\ (status \in {"failed", "idle"} => a.status = "failed")
  BY DEF Status
<1>2. Refreshed(a, ok) = Showing(a, status)
  BY DEF Refreshed
<1>. HIDE DEF status
<1>. QED BY <1>1, <1>2, ShowingIs DEF MenuFits

(* A tray without a backend attaches, or launches one, or has failed to.   *)
LEMMA EnsureServiceIs ==
  ASSUME NEW a \in Agents, a.current = 0, NEW processes,
         NEW launched \in 0 .. MaxBackends
  PROVE  LET e == EnsureService(a, processes, launched) IN
         /\ e \in Agents
         /\ e.current \in {0, launched}
         /\ e.current # 0 => ~e.attached /\ ~e.retry /\ e.status = "starting"
         /\ MenuFits(e)
<1>. DEFINE attaching == Taken(processes) \/ attachOnly'
            b == [a EXCEPT !.attached = TRUE]
            c == [a EXCEPT !.attached = FALSE]
            d == [c EXCEPT !.current = launched]
<1>1. b \in Agents /\ c \in Agents /\ b.current = 0 /\ c.current = 0
      /\ c.attached = FALSE
  BY DEF Agents
<1>2. d \in Agents /\ d.current = launched /\ d.attached = FALSE
  BY DEF Agents
<1>3. CASE attaching
  <2>1. EnsureService(a, processes, launched) = Showing(b, "starting")
    BY <1>3 DEF EnsureService
  <2>. HIDE DEF b
  <2>. QED BY <1>1, <2>1, ShowingIs DEF Status, MenuFits
<1>4. CASE ~attaching
  <2>1. EnsureService(a, processes, launched) =
          IF launched = 0 THEN Showing(c, "failed") ELSE Showing(d, "starting")
    BY <1>1, <1>4 DEF EnsureService, StartBackend
  <2>. HIDE DEF c, d
  <2>2. /\ Showing(c, "failed") \in Agents /\ Showing(c, "failed").current = 0
        /\ MenuFits(Showing(c, "failed"))
    BY <1>1, ShowingIs DEF Status, MenuFits
  <2>3. /\ Showing(d, "starting") \in Agents
        /\ Showing(d, "starting").current = launched
        /\ Showing(d, "starting").status = "starting"
        /\ ~Showing(d, "starting").attached /\ ~Showing(d, "starting").retry
        /\ MenuFits(Showing(d, "starting"))
    BY <1>2, ShowingIs DEF Status, MenuFits
  <2>. QED BY <2>1, <2>2, <2>3
<1>. QED BY <1>3, <1>4
-----------------------------------------------------------------------------
(* The steps of services and of the dashboard *)

(* What services, new processes and the dashboard do leaves the tray and   *)
(* its backends alone, but for the backends' own comings and goings.       *)
LEMMA OthersKeepInv ==
  ASSUME TrayInv,
         \/ ExternalStarts \/ ExternalStops
         \/ \E b \in Backends : BackendBinds(b) \/ BackendDies(b)
         \/ \E attach \in BOOLEAN : SpawnTray(attach) \/ TrayLeaves(attach)
         \/ \E ok \in BOOLEAN : Poll(ok)
         \/ OpenDashboard \/ RetryDashboard \/ CloseDashboard
  PROVE  TrayInv'
<1>. USE DEF TrayInv, services, trayVars, dashboardVars, Backends
<1>1. CASE ExternalStarts \/ ExternalStops
           \/ \E attach \in BOOLEAN : SpawnTray(attach) \/ TrayLeaves(attach)
  <2>1. TypeOK'
    BY <1>1 DEF ExternalStarts, ExternalStops, SpawnTray, TrayLeaves, TypeOK
  <2>2. AgentFacts' /\ NoStrayBackend' /\ OwnBackendIsKept'
    BY <1>1 DEF ExternalStarts, ExternalStops, SpawnTray, TrayLeaves,
           AgentFacts, MenuFits, NoStrayBackend, OwnBackendIsKept, Alive
  <2>. QED BY <2>1, <2>2
<1>2. CASE \E b \in Backends : BackendBinds(b) \/ BackendDies(b)
  <2>1. PICK b \in Backends : BackendBinds(b) \/ BackendDies(b)
    BY <1>2
  <2>2. \E outcome \in {"dead", "serving"} :
          Alive(b) /\ backend' = [backend EXCEPT ![b] = outcome]
    BY <2>1 DEF BackendBinds, BackendDies, Alive
  <2>3. UNCHANGED <<external, orphans, told, coming, trayVars, agent,
                    dashboardVars>>
    BY <2>1 DEF BackendBinds, BackendDies
  <2>4. TypeOK'
    BY <2>2, <2>3 DEF TypeOK
  <2>5. AgentFacts' /\ NoStrayBackend' /\ OwnBackendIsKept'
    BY <2>2, <2>3 DEF TypeOK, Agents, AgentFacts, MenuFits, NoStrayBackend,
           OwnBackendIsKept, Alive
  <2>. QED BY <2>4, <2>5
<1>3. CASE OpenDashboard \/ RetryDashboard \/ CloseDashboard
           \/ \E ok \in BOOLEAN : Poll(ok)
  <2>1. TypeOK'
    <3>1. CASE OpenDashboard \/ RetryDashboard
      <4>1. coming' \subseteq BOOLEAN /\ view' \in {"loading", "error"}
        BY <3>1 DEF OpenDashboard, RetryDashboard, StartWait, TypeOK
      <4>2. polls' = MaxPolls
        BY <3>1 DEF OpenDashboard, RetryDashboard, StartWait
      <4>3. polls' \in 0 .. MaxPolls
        BY <4>2, TrayAssumption
      <4>. QED BY <3>1, <4>1, <4>3 DEF OpenDashboard, RetryDashboard, TypeOK
    <3>2. CASE CloseDashboard \/ \E ok \in BOOLEAN : Poll(ok)
      <4>1. /\ polls' \in 0 .. MaxPolls
            /\ view' \in {"closed", "loading", "web", "error"}
        BY <3>2, TrayAssumption DEF CloseDashboard, Poll, TypeOK
      <4>. QED BY <3>2, <4>1 DEF CloseDashboard, Poll, TypeOK
    <3>. QED BY <1>3, <3>1, <3>2
  <2>2. AgentFacts' /\ NoStrayBackend' /\ OwnBackendIsKept'
    BY <1>3 DEF OpenDashboard, RetryDashboard, CloseDashboard, StartWait, Poll,
           AgentFacts, MenuFits, NoStrayBackend, OwnBackendIsKept, Alive
  <2>. QED BY <2>1, <2>2
<1>. QED BY <1>1, <1>2, <1>3

-----------------------------------------------------------------------------
(* The tray's own steps *)

(* A tray that starts knows only the backend it launched itself.           *)
LEMMA TrayStartsKeepsInv ==
  ASSUME TrayInv, NEW attach \in BOOLEAN, TrayStarts(attach)
  PROVE  TrayInv'
<1>. USE DEF TrayInv, services, trayVars, dashboardVars, Backends
<1>1. PICK launched \in Launches, ok \in {FALSE, Serving} :
        /\ agent' = Refreshed(EnsureService(FreshAgent, backend, launched), ok)
        /\ backend' = Launched(backend, agent')
  BY DEF TrayStarts
<1>2. launched \in 0 .. MaxBackends
      /\ (launched # 0 => backend[launched] = "none")
  BY TrayAssumption DEF Launches
<1>12. ok \in BOOLEAN
  <2>1. Serving \in BOOLEAN
    BY DEF Serving, Taken
  <2>. QED BY <2>1
<1>. DEFINE e == EnsureService(FreshAgent, backend, launched)
<1>3. FreshAgent \in Agents /\ FreshAgent.current = 0
  BY TrayAssumption DEF FreshAgent, Agents, Status
<1>4. /\ e \in Agents /\ e.current \in {0, launched}
      /\ e.current # 0 => ~e.attached /\ ~e.retry /\ e.status = "starting"
      /\ MenuFits(e)
  BY <1>2, <1>3, EnsureServiceIs
<1>. HIDE DEF e
<1>5. /\ agent' \in Agents /\ agent'.current \in {0, launched}
      /\ agent'.current # 0 => ~agent'.attached /\ ~agent'.retry
      /\ MenuFits(agent')
  BY <1>1, <1>2, <1>4, <1>12, RefreshedIs DEF e
<1>6. backend' = IF agent'.current # 0
                 THEN [backend EXCEPT ![agent'.current] = "starting"] ELSE backend
  BY <1>1, <1>2, <1>5 DEF Launched
<1>7. /\ tray' = "running" /\ tray = "off" /\ orphans' = orphans
      /\ agent'.current \in 0 .. MaxBackends
  <2>1. agent'.current \in 0 .. MaxBackends
    BY <1>5 DEF Agents
  <2>. QED BY <2>1 DEF TrayStarts
<1>8. TypeOK'
  BY <1>5, <1>6, <1>7, TrayAssumption DEF TypeOK, TrayStarts
<1>9. AgentFacts'
  BY <1>2, <1>5, <1>6, <1>7, TrayAssumption DEF AgentFacts, MenuFits, TypeOK
<1>10. NoStrayBackend'
  BY <1>2, <1>5, <1>6, <1>7, TrayAssumption DEF NoStrayBackend, Alive, TypeOK
<1>11. OwnBackendIsKept'
  BY <1>5 DEF OwnBackendIsKept
<1>. QED BY <1>8, <1>9, <1>10, <1>11

(* A refresh turns no failure of a live backend on. *)
LEMMA RefreshKeepsInv ==
  ASSUME TrayInv, NEW ok \in BOOLEAN, Refresh(ok)
  PROVE  TrayInv'
<1>. USE DEF TrayInv, services, trayVars, dashboardVars, Backends
<1>1. /\ agent' \in Agents /\ agent'.current = agent.current
      /\ agent'.attached = agent.attached
      /\ agent'.retry => agent.status = "failed"
      /\ MenuFits(agent')
  BY RefreshedIs DEF Refresh, TypeOK
<1>2. UNCHANGED <<services, told, coming, trayVars, dashboardVars>>
      /\ tray \in {"running", "quitting"}
  BY DEF Refresh
<1>3. TypeOK'
  BY <1>1, <1>2 DEF TypeOK
<1>4. AgentFacts' /\ NoStrayBackend' /\ OwnBackendIsKept'
  BY <1>1, <1>2 DEF AgentFacts, MenuFits, NoStrayBackend, OwnBackendIsKept, Alive
<1>. QED BY <1>3, <1>4

(* The exit of the tray's backend is the only one that clears it. *)
LEMMA WaitDoneKeepsInv ==
  ASSUME TrayInv, NEW b \in Backends, WaitDone(b)
  PROVE  TrayInv'
<1>. USE DEF TrayInv, services, trayVars, dashboardVars, Backends
<1>1. /\ UNCHANGED <<services, coming, trayVars, dashboardVars>>
      /\ told' = told \cup {b} /\ backend[b] = "dead"
      /\ tray \in {"running", "quitting"}
  BY DEF WaitDone
<1>2. CASE agent' = agent
  <2>1. TypeOK'
    BY <1>1, <1>2 DEF TypeOK
  <2>2. AgentFacts' /\ NoStrayBackend' /\ OwnBackendIsKept'
    BY <1>1, <1>2 DEF AgentFacts, MenuFits, NoStrayBackend, OwnBackendIsKept,
           Alive
  <2>. QED BY <2>1, <2>2
<1>3. CASE agent' # agent
  <2>. DEFINE a == [agent EXCEPT !.current = 0]
  <2>1. agent' = Showing(a, "failed") /\ b = agent.current
    BY <1>3 DEF WaitDone
  <2>2. a \in Agents /\ a.current = 0
    BY TrayAssumption DEF TypeOK, Agents
  <2>. HIDE DEF a
  <2>3. agent' \in Agents /\ agent'.current = 0 /\ MenuFits(agent')
    BY <2>1, <2>2, ShowingIs DEF Status, MenuFits
  <2>4. TypeOK'
    BY <1>1, <2>3 DEF TypeOK
  <2>5. AgentFacts' /\ NoStrayBackend' /\ OwnBackendIsKept'
    BY <1>1, <2>1, <2>3 DEF AgentFacts, MenuFits, NoStrayBackend,
           OwnBackendIsKept, Alive
  <2>. QED BY <2>4, <2>5
<1>. QED BY <1>2, <1>3

(* Retry is offered only while there is no backend: nothing is stopped,    *)
(* and what is launched is the only one.                                   *)
LEMMA RetryKeepsInv ==
  ASSUME TrayInv, Retry
  PROVE  TrayInv'
<1>. USE DEF TrayInv, services, trayVars, dashboardVars, Backends
<1>1. agent.current = 0 /\ tray = "running"
  BY DEF Retry, OwnBackendIsKept
<1>2. Stopped = backend
  BY <1>1 DEF Stopped
<1>. DEFINE a == [agent EXCEPT !.status = "idle", !.current = 0]
<1>3. PICK launched \in Launches :
        /\ agent' = EnsureService(a, backend, launched)
        /\ backend' = Launched(backend, agent')
  BY <1>2 DEF Retry
<1>4. launched \in 0 .. MaxBackends
      /\ (launched # 0 => backend[launched] = "none")
  BY TrayAssumption DEF Launches
<1>5. a \in Agents /\ a.current = 0
  <2>1. agent \in Agents /\ "idle" \in Status /\ 0 \in 0 .. MaxBackends
    BY TrayAssumption DEF TypeOK, Status
  <2>. QED BY <2>1 DEF Agents
<1>. HIDE DEF a
<1>6. /\ agent' \in Agents /\ agent'.current \in {0, launched}
      /\ agent'.current # 0 => ~agent'.attached /\ ~agent'.retry
      /\ MenuFits(agent')
  BY <1>3, <1>4, <1>5, EnsureServiceIs
<1>7. backend' = IF agent'.current # 0
                 THEN [backend EXCEPT ![agent'.current] = "starting"] ELSE backend
  BY <1>3, <1>4, <1>6 DEF Launched
<1>8. /\ tray' = "running" /\ orphans' = orphans
      /\ agent'.current \in 0 .. MaxBackends
  <2>1. agent'.current \in 0 .. MaxBackends
    BY <1>6 DEF Agents
  <2>. QED BY <1>1, <2>1 DEF Retry
<1>9. TypeOK'
  BY <1>6, <1>7, <1>8, TrayAssumption DEF TypeOK, Retry
<1>10. AgentFacts'
  BY <1>4, <1>6, <1>7, <1>8, TrayAssumption DEF AgentFacts, MenuFits, TypeOK
<1>11. NoStrayBackend'
  BY <1>1, <1>4, <1>6, <1>7, <1>8, TrayAssumption DEF NoStrayBackend, Alive, TypeOK
<1>12. OwnBackendIsKept'
  BY <1>6 DEF OwnBackendIsKept
<1>. QED BY <1>9, <1>10, <1>11, <1>12

(* However the tray ends, its backend has been stopped, or is an orphan.   *)
LEMMA EndsKeepInv ==
  ASSUME TrayInv, Quit \/ Shutdown \/ TrayKilled
  PROVE  TrayInv'
<1>. USE DEF TrayInv, services, trayVars, dashboardVars, Backends
<1>1. agent.current \in 0 .. MaxBackends /\ FreshAgent \in Agents
      /\ FreshAgent.current = 0 /\ MenuFits(FreshAgent)
  BY TrayAssumption DEF TypeOK, Agents, FreshAgent, Status, MenuFits
<1>2. CASE Quit
  <2>1. TypeOK'
    BY <1>1, <1>2 DEF Quit, Stopped, TypeOK
  <2>2. AgentFacts' /\ NoStrayBackend' /\ OwnBackendIsKept'
    BY <1>1, <1>2 DEF Quit, Stopped, TypeOK, AgentFacts, MenuFits,
           NoStrayBackend, OwnBackendIsKept, Alive
  <2>. QED BY <2>1, <2>2
<1>3. CASE Shutdown
  <2>1. TypeOK'
    BY <1>1, <1>3 DEF Shutdown, Stopped, TypeOK
  <2>2. AgentFacts'
    BY <1>1, <1>3 DEF Shutdown, Stopped, TypeOK, AgentFacts
  <2>3. NoStrayBackend' /\ OwnBackendIsKept'
    BY <1>1, <1>3 DEF Shutdown, Stopped, TypeOK, NoStrayBackend,
           OwnBackendIsKept, Alive
  <2>. QED BY <2>1, <2>2, <2>3
<1>4. CASE TrayKilled
  <2>1. TypeOK'
    <3>1. orphans' \subseteq Backends
      <4>1. orphans' = orphans \cup ({agent.current} \ {0})
        BY <1>4 DEF TrayKilled
      <4>2. ({agent.current} \ {0}) \subseteq 1 .. MaxBackends
        BY <1>1, TrayAssumption
      <4>. QED BY <4>1, <4>2 DEF TypeOK
    <3>2. told' \subseteq Backends
      BY <1>4 DEF TrayKilled, TypeOK
    <3>3. agent' \in Agents /\ tray' = "off"
      BY <1>1, <1>4 DEF TrayKilled
    <3>4. UNCHANGED <<external, backend, coming, attachOnly, stopping,
                      dashboardVars>>
      BY <1>4 DEF TrayKilled
    <3>. QED BY <3>1, <3>2, <3>3, <3>4 DEF TypeOK
  <2>2. AgentFacts'
    BY <1>1, <1>4 DEF TrayKilled, TypeOK, AgentFacts
  <2>3. NoStrayBackend' /\ OwnBackendIsKept'
    BY <1>1, <1>4 DEF TrayKilled, TypeOK, NoStrayBackend, OwnBackendIsKept,
           Alive
  <2>. QED BY <2>1, <2>2, <2>3
<1>. QED BY <1>2, <1>3, <1>4

-----------------------------------------------------------------------------
(* The tray's invariant, for any number of launches: what the two theorems *)
(* below are read off from.                                                *)
THEOREM TrayInvariant == Spec => []TrayInv
<1>1. Init => TrayInv
  <2>. SUFFICES ASSUME Init PROVE TrayInv
    OBVIOUS
  <2>1. FreshAgent \in Agents /\ MenuFits(FreshAgent)
    <3>1. 0 \in 0 .. MaxBackends
      BY TrayAssumption
    <3>. QED BY <3>1 DEF FreshAgent, Agents, Status, MenuFits
  <2>2. TypeOK
    <3>1. 0 \in 0 .. MaxPolls
      BY TrayAssumption
    <3>. QED BY <2>1, <3>1 DEF Init, TypeOK
  <2>3. AgentFacts /\ NoStrayBackend /\ OwnBackendIsKept
    BY <2>1 DEF Init, AgentFacts, NoStrayBackend, OwnBackendIsKept, Alive,
           FreshAgent
  <2>. QED BY <2>2, <2>3 DEF TrayInv
<1>2. TrayInv /\ [Next]_vars => TrayInv'
  <2>. SUFFICES ASSUME TrayInv, [Next]_vars PROVE TrayInv'
    OBVIOUS
  <2>1. CASE \E b \in Backends : WaitDone(b)
    BY <2>1, WaitDoneKeepsInv
  <2>2. CASE \E attach \in BOOLEAN : TrayStarts(attach)
    BY <2>2, TrayStartsKeepsInv
  <2>3. CASE \E ok \in BOOLEAN : Refresh(ok)
    BY <2>3, RefreshKeepsInv
  <2>4. CASE Retry
    BY <2>4, RetryKeepsInv
  <2>5. CASE Quit \/ Shutdown \/ TrayKilled
    BY <2>5, EndsKeepInv
  <2>6. CASE UNCHANGED vars
    <3>1. TypeOK'
      BY <2>6 DEF vars, services, trayVars, dashboardVars, TrayInv, TypeOK
    <3>2. AgentFacts' /\ NoStrayBackend' /\ OwnBackendIsKept'
      BY <2>6 DEF vars, services, trayVars, dashboardVars, TrayInv, AgentFacts,
             MenuFits, NoStrayBackend, OwnBackendIsKept, Alive
    <3>. QED BY <3>1, <3>2 DEF TrayInv
  <2>. QED BY <2>1, <2>2, <2>3, <2>4, <2>5, <2>6, OthersKeepInv DEF Next
<1>. QED BY <1>1, <1>2, PTL DEF Spec

(* No way to end a tray but killing it leaves a backend behind, and no     *)
(* retry launches a second one (ls_tray_shutdown, ls_tray_retry).          *)
THEOREM TrayLeavesNoBackend == Spec => []NoStrayBackend
<1>1. TrayInv => NoStrayBackend
  BY DEF TrayInv
<1>. QED BY <1>1, TrayInvariant, PTL

(* Retry is never offered, nor another service waited for, while the       *)
(* tray's own backend is there (ls_tray_update_menu).                      *)
THEOREM TrayKeepsItsBackend == Spec => []OwnBackendIsKept
<1>1. TrayInv => OwnBackendIsKept
  BY DEF TrayInv
<1>. QED BY <1>1, TrayInvariant, PTL
=============================================================================
