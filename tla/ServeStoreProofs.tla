-------------------------- MODULE ServeStoreProofs --------------------------
(***************************************************************************)
(* The serve process, for any number of listeners and exchanges, with or   *)
(* without the dashboard: Serve closes every listener, a process that ends *)
(* with success has cut no exchange; and with its store: the composition   *)
(* implements both of its parts, and after a return with success nothing   *)
(* is recorded that was not under way.                                     *)
(***************************************************************************)
EXTENDS ServeStore, TLAPS

(* shutdown has closed the listeners up to the one it waits for. *)
ClosedSoFar ==
  /\ serve = "shutting" => /\ at \in 1 .. N
                           /\ \A l \in 1 .. at : listener[l] = "closed"
  /\ serve \in {"ok", "err"} => \A l \in 1 .. N : listener[l] = "closed"

(* Without an error so far, the listeners behind it are idle, and stay so  *)
(* because they are closed.                                                *)
DrainedSoFar ==
  /\ serve = "shutting" /\ ~serveErr => \A l \in 1 .. at - 1 : Drained(l)
  /\ serve = "ok" => \A l \in 1 .. N : Drained(l)

(* Run reports success only after Serve returned nil. *)
ResultFollowsServe ==
  /\ "proxy" \in received => serve = "ok"
  /\ result = "ok" => "proxy" \in received
  /\ run = "waiting" => result = "none"

(* Exchanges are cut by the end of the process only. *)
CutAtExit ==
  (run # "exited" \/ result = "ok") => \A x \in Exchanges : exchange[x] # "cut"

ServiceInv ==
  /\ TypeOK
  /\ ClosedSoFar
  /\ DrainedSoFar
  /\ ResultFollowsServe
  /\ CutAtExit

(* The proxy's own steps *)
LEMMA ProxyKeepsInv ==
  ASSUME ServiceInv, Proxy
  PROVE  ServiceInv'
<1>. USE LifecycleAssumption DEF ServiceInv, Alive, serviceVars
<1>1. CASE StartShutdown
  <2>1. TypeOK'
    BY <1>1 DEF StartShutdown, TypeOK
  <2>2. ClosedSoFar'
    BY <1>1 DEF StartShutdown, TypeOK, ClosedSoFar
  <2>3. DrainedSoFar'
    BY <1>1 DEF StartShutdown, TypeOK, DrainedSoFar
  <2>4. ResultFollowsServe' /\ CutAtExit'
    BY <1>1 DEF StartShutdown, ResultFollowsServe, CutAtExit
  <2>. QED BY <2>1, <2>2, <2>3, <2>4
<1>2. CASE DrainTimeout
  BY <1>2 DEF DrainTimeout, TypeOK, ClosedSoFar, DrainedSoFar, Drained,
              ResultFollowsServe, CutAtExit
<1>3. CASE NextListener
  <2>1. at \in 1 .. N /\ \A l \in 1 .. at : listener[l] = "closed"
    BY <1>3 DEF NextListener, ClosedSoFar
  <2>2. ~serveErr' => \A l \in 1 .. at : Drained(l)
    <3>. SUFFICES ASSUME ~serveErr', NEW l \in 1 .. at PROVE Drained(l)
      OBVIOUS
    <3>1. ~serveErr /\ Drained(at)
      BY <1>3, Zenon DEF NextListener
    <3>2. \A k \in 1 .. at - 1 : Drained(k)
      BY <1>3, <3>1 DEF NextListener, DrainedSoFar
    <3>3. l = at \/ l \in 1 .. at - 1
      BY <2>1
    <3>. QED BY <3>1, <3>2, <3>3
  <2>3. TypeOK'
    BY <1>3, <2>1 DEF NextListener, MoreListeners, TypeOK
  <2>4. ClosedSoFar'
    BY <1>3, <2>1 DEF NextListener, MoreListeners, TypeOK, ClosedSoFar
  <2>5. \A l : Drained(l)' <=> Drained(l)
    BY <1>3 DEF NextListener, Drained
  <2>6. DrainedSoFar'
    BY <1>3, <2>1, <2>2, <2>5 DEF NextListener, MoreListeners, TypeOK,
                                  DrainedSoFar
  <2>7. ResultFollowsServe' /\ CutAtExit'
    BY <1>3 DEF NextListener, ResultFollowsServe, CutAtExit
  <2>. QED BY <2>3, <2>4, <2>6, <2>7
<1>. QED BY <1>1, <1>2, <1>3 DEF Proxy

(* The steps of app.Run and the end of the process *)
LEMMA RunnerKeepsInv ==
  ASSUME ServiceInv, Runner \/ Kill
  PROVE  ServiceInv'
<1>. USE LifecycleAssumption DEF ServiceInv, Alive, serviceVars
<1>1. ASSUME NEW who \in Expected, ReceiveNil(who) PROVE ServiceInv'
  <2>1. TypeOK'
    BY <1>1 DEF ReceiveNil, TypeOK
  <2>2. ClosedSoFar' /\ DrainedSoFar'
    BY <1>1 DEF ReceiveNil, ClosedSoFar, DrainedSoFar, Drained
  <2>3. ResultFollowsServe'
    BY <1>1 DEF ReceiveNil, AllReceived, Expected, Outcome, ResultFollowsServe
  <2>4. CutAtExit'
    BY <1>1 DEF ReceiveNil, CutAtExit
  <2>. QED BY <2>1, <2>2, <2>3, <2>4
<1>2. ASSUME NEW who \in Expected, ReceiveError(who) PROVE ServiceInv'
  BY <1>2 DEF ReceiveError, TypeOK, ClosedSoFar, DrainedSoFar, Drained,
              ResultFollowsServe, CutAtExit
<1>3. CASE CloseStore
  BY <1>3 DEF CloseStore, TypeOK, ClosedSoFar, DrainedSoFar, Drained,
              ResultFollowsServe, CutAtExit
<1>4. CASE Exit \/ Kill
  <2>1. TypeOK'
    BY <1>4 DEF Exit, Kill, CutExchanges, TypeOK
  <2>2. \A x \in Exchanges : exchange[x] # "active" => exchange'[x] # "active"
    BY <1>4 DEF Exit, Kill, CutExchanges, TypeOK
  <2>3. ClosedSoFar' /\ DrainedSoFar'
    BY <1>4, <2>2 DEF Exit, Kill, ClosedSoFar, DrainedSoFar, Drained
  <2>4. ResultFollowsServe'
    BY <1>4 DEF Exit, Kill, ResultFollowsServe
  <2>5. CutAtExit'
    <3>1. CASE Exit /\ result = "ok"
      <4>1. \A x \in Exchanges : exchange[x] \notin {"active", "cut"}
        BY <3>1 DEF Exit, ResultFollowsServe, DrainedSoFar, Drained, CutAtExit,
                    TypeOK
      <4>. QED BY <3>1, <4>1 DEF Exit, CutExchanges, CutAtExit, TypeOK
    <3>2. CASE ~(Exit /\ result = "ok")
      BY <1>4, <3>2 DEF Exit, Kill, CutAtExit
    <3>. QED BY <3>1, <3>2
  <2>. QED BY <2>1, <2>3, <2>4, <2>5
<1>. QED BY <1>1, <1>2, <1>3, <1>4 DEF Runner

(* The listeners' goroutines, the dashboard server and the signal *)
LEMMA ServerKeepsInv ==
  ASSUME ServiceInv,
         \/ Interrupt \/ API \/ UIBind \/ UIAcceptFails
         \/ \E l \in 1 .. N : Bind(l) \/ AcceptFails(l)
  PROVE  ServiceInv'
<1>. USE DEF ServiceInv, Alive, serviceVars
<1>1. CASE Interrupt \/ API \/ UIBind \/ UIAcceptFails
  <2>1. TypeOK'
    <3>1. CASE Interrupt
      BY <3>1 DEF Interrupt, TypeOK
    <3>2. CASE API
      BY <3>2 DEF API, UIStartShutdown, UIDrained, TypeOK
    <3>3. CASE UIBind \/ UIAcceptFails
      BY <3>3 DEF UIBind, UIAcceptFails, TypeOK
    <3>. QED BY <1>1, <3>1, <3>2, <3>3
  <2>. QED
    BY <1>1, <2>1
    DEF Interrupt, API, UIBind, UIAcceptFails, UIStartShutdown, UIDrained,
        ClosedSoFar, DrainedSoFar, Drained, ResultFollowsServe, CutAtExit
<1>2. ASSUME NEW l \in 1 .. N, Bind(l) \/ AcceptFails(l) PROVE ServiceInv'
  <2>1. TypeOK'
    BY <1>2 DEF Bind, AcceptFails, TypeOK
  <2>2. ClosedSoFar'
    BY <1>2, LifecycleAssumption DEF Bind, AcceptFails, TypeOK, ClosedSoFar
  <2>3. DrainedSoFar' /\ ResultFollowsServe' /\ CutAtExit'
    BY <1>2 DEF Bind, AcceptFails, DrainedSoFar, Drained, ResultFollowsServe,
                CutAtExit
  <2>. QED BY <2>1, <2>2, <2>3
<1>. QED BY <1>1, <1>2

(* The exchanges *)
LEMMA WorkKeepsInv ==
  ASSUME ServiceInv, NEW x \in Exchanges, Arrive(x) \/ Respond(x)
  PROVE  ServiceInv'
<1>. USE LifecycleAssumption DEF ServiceInv, Alive, serviceVars
<1>1. TypeOK'
  BY DEF Arrive, Respond, TypeOK
<1>2. ClosedSoFar' /\ ResultFollowsServe'
  BY DEF Arrive, Respond, ClosedSoFar, ResultFollowsServe
<1>3. ASSUME NEW l \in 1 .. N, listener[l] = "closed", Drained(l)
      PROVE  Drained(l)'
  BY <1>3 DEF Arrive, Respond, Drained, TypeOK
<1>4. DrainedSoFar'
  BY <1>3 DEF Arrive, Respond, DrainedSoFar, ClosedSoFar, TypeOK
<1>5. CutAtExit'
  BY DEF Arrive, Respond, CutAtExit, TypeOK
<1>. QED BY <1>1, <1>2, <1>4, <1>5

(* The inductive invariant of the stopping protocol *)
THEOREM ServiceInvariant == Spec => []ServiceInv
<1>1. Init => ServiceInv
  <2>. SUFFICES ASSUME Init PROVE ServiceInv
    OBVIOUS
  <2>1. TypeOK
    <3>1. ui \in {"starting", "off"}
      BY Zenon DEF Init
    <3>2. at \in 0 .. N + 1
      BY LifecycleAssumption DEF Init
    <3>. QED BY <3>1, <3>2 DEF Init, TypeOK
  <2>2. ClosedSoFar /\ DrainedSoFar /\ ResultFollowsServe /\ CutAtExit
    BY DEF Init, ClosedSoFar, DrainedSoFar, ResultFollowsServe, CutAtExit
  <2>. QED BY <2>1, <2>2 DEF ServiceInv
<1>2. ServiceInv /\ [Next]_vars => ServiceInv'
  <2>. SUFFICES ASSUME ServiceInv, [Next]_vars PROVE ServiceInv'
    OBVIOUS
  <2>1. CASE UNCHANGED vars
    BY <2>1 DEF vars, serviceVars, ServiceInv, TypeOK, ClosedSoFar,
                DrainedSoFar, Drained, ResultFollowsServe, CutAtExit
  <2>2. CASE Stopped
    BY <2>1, <2>2 DEF Stopped
  <2>3. CASE Next /\ ~Stopped
    BY <2>3, ProxyKeepsInv, RunnerKeepsInv, ServerKeepsInv, WorkKeepsInv
    DEF Next
  <2>. QED BY <2>1, <2>2, <2>3
<1>. QED BY <1>1, <1>2, PTL DEF Spec

(* Every variable of the serve process stays in its range (Serve, Run).    *)
THEOREM ServiceTypeCorrect == Spec => []TypeOK
<1>1. ServiceInv => TypeOK
  BY DEF ServiceInv
<1>. QED BY <1>1, ServiceInvariant, PTL

(* When Serve returns, however long an upstream kept a listener busy, no   *)
(* listener of the service is left open.                                   *)
THEOREM ServeClosesListeners == Spec => []ServeClosesEveryListener
<1>1. ServiceInv => ServeClosesEveryListener
  BY DEF ServiceInv, ClosedSoFar, ServeClosesEveryListener
<1>. QED BY <1>1, ServiceInvariant, PTL

(* A process that ends with success has cut no exchange. *)
THEOREM CleanExitIsClean == Spec => []CleanExitCutsNothing
<1>1. ServiceInv => CleanExitCutsNothing
  BY DEF ServiceInv, CutAtExit, CleanExitCutsNothing
<1>. QED BY <1>1, ServiceInvariant, PTL

-----------------------------------------------------------------------------
(* The composition *)

(* Every step of the process and its store together is a step of the       *)
(* process, or one of the store alone.                                     *)
LEMMA StepIsOfService == ServeNext => [Next]_vars
  BY DEF ServeNext, Serve, End, Answer, Record, Next, Runner

(* It is also a step of the store, or one of the process alone. *)
LEMMA StepIsOfStore == ServeNext => [Store!Next]_(Store!vars)
<1>. SUFFICES ASSUME ServeNext PROVE Store!Next \/ UNCHANGED Store!vars
  OBVIOUS
<1>1. UNCHANGED storeVars => UNCHANGED Store!vars
  BY DEF storeVars, Store!vars, Store!tables
<1>2. ASSUME NEW x \in Exchanges, Answer(x) \/ Record(x) PROVE Store!Next
  BY <1>2 DEF Answer, Record, Store!Next, Store!Insert
<1>3. CASE End
  BY <1>1, <1>3 DEF End, Store!Next
<1>4. CASE Serve
  BY <1>1, <1>4 DEF Serve
<1>. QED BY <1>2, <1>3, <1>4 DEF ServeNext

(* The serve process with its store is a serve process, so that what is    *)
(* proved of ServiceLifecycle holds of it.                                 *)
THEOREM ServeImplementsService == ServeSpec => ImplementsService
<1>1. UNCHANGED serveVars => UNCHANGED vars
  BY DEF serveVars
<1>. QED BY <1>1, StepIsOfService, PTL
         DEF ServeSpec, ServeInit, ImplementsService, Spec

(* The store under a process that closes it, exits or is killed at any     *)
(* moment is the store of RequestStore, so that what is proved of that     *)
(* holds of it: above all that a recording is stored whole or not at all.  *)
THEOREM ServeImplementsStore == ServeSpec => ImplementsStore
<1>1. UNCHANGED serveVars => UNCHANGED Store!vars
  BY DEF serveVars, storeVars, Store!vars, Store!tables
<1>. QED BY <1>1, StepIsOfStore, PTL
         DEF ServeSpec, ServeInit, ImplementsStore, Store!Spec

(* Success means that every listener was idle when Serve returned, and a   *)
(* closed listener stays idle: there is no exchange left to record.        *)
LEMMA SuccessLeavesNoExchange ==
  ASSUME ServiceInv, result = "ok", NEW x \in Exchanges
  PROVE  exchange[x] # "active"
<1>1. serve = "ok"
  BY DEF ServiceInv, ResultFollowsServe
<1>2. ListenerOf[x] \in 1 .. N
  BY LifecycleAssumption
<1>. QED BY <1>1, <1>2 DEF ServiceInv, DrainedSoFar, Drained

(* What a step of the composition does to the recordings: it starts the    *)
(* one of an exchange that answers, moves one that was under way, ends     *)
(* all of them, or touches none.                                           *)
JobsStep ==
  \/ job' = job
  \/ \E y \in Exchanges : /\ Answer(y) \/ job[y] # "idle"
                          /\ \E place : job' = [job EXCEPT ![y] = place]
  \/ job' = [y \in Exchanges |-> IF job[y] \in Store!Running THEN "gone" ELSE job[y]]

(* A step of the composition starts one recording, moves one on, or ends   *)
(* them all.                                                               *)
LEMMA StepOfJobs == ServeNext => JobsStep
<1>. SUFFICES ASSUME ServeNext PROVE JobsStep
  OBVIOUS
<1>1. UNCHANGED storeVars => JobsStep
  BY DEF storeVars, JobsStep
<1>2. ASSUME NEW y \in Exchanges, Answer(y) PROVE JobsStep
  BY <1>2, Zenon DEF Answer, Store!Start, JobsStep
<1>3. ASSUME NEW y \in Exchanges, Record(y) PROVE JobsStep
  <2>1. job[y] # "idle"
    BY <1>3 DEF Record, Store!Running, Store!Begin, Store!InsertRow,
                Store!InsertRowConflicts, Store!InsertRowBusy,
                Store!InsertTag, Store!UpsertSession, Store!Commit,
                Store!StatementFails, Store!Expire
  <2>2. job' = job \/ \E place : job' = [job EXCEPT ![y] = place]
    BY <1>3, Zenon
       DEF Record, Store!Begin, Store!InsertRow, Store!InsertRowConflicts,
           Store!InsertRowBusy, Store!InsertTag, Store!UpsertSession,
           Store!Commit, Store!StatementFails, Store!Expire, Store!Finish
  <2>. QED BY <2>1, <2>2, Zenon DEF JobsStep
<1>4. CASE End
  BY <1>1, <1>4, Zenon DEF End, Store!Crash, JobsStep
<1>5. CASE Serve
  BY <1>1, <1>5 DEF Serve
<1>. QED BY <1>2, <1>3, <1>4, <1>5 DEF ServeNext

(* The recordings stay a function of the exchanges. *)
LEMMA JobsAreOfExchanges == ServeSpec => [](job = [x \in Exchanges |-> job[x]])
<1>. DEFINE Shape == job = [x \in Exchanges |-> job[x]]
<1>1. ServeInit => Shape
  BY DEF ServeInit, Store!Init
<1>2. Shape /\ [ServeNext]_serveVars => Shape'
  <2>. SUFFICES ASSUME Shape, [ServeNext]_serveVars PROVE Shape'
    OBVIOUS
  <2>1. CASE UNCHANGED serveVars
    BY <2>1 DEF serveVars, storeVars
  <2>2. CASE ServeNext
    BY <2>2, StepOfJobs DEF JobsStep
  <2>. QED BY <2>1, <2>2
<1>. QED BY <1>1, <1>2, PTL DEF ServeSpec

(* Once Run has returned with success no recording starts any more         *)
(* (Service.shutdown, app.Run, persistAsync).                              *)
THEOREM NothingIsRecordedAfterTheReturn == ServeSpec => NoRecordingAfterTheReturn
<1>. DEFINE NoneStarts ==
       result = "ok" => \A x \in Exchanges : job[x] = "idle" => job'[x] = "idle"
       Shape == job = [x \in Exchanges |-> job[x]]
<1>1. ServiceInv /\ Shape /\ [ServeNext]_serveVars => [NoneStarts]_serveVars
  <2>. SUFFICES ASSUME ServiceInv, Shape, ServeNext, result = "ok",
                       NEW x \in Exchanges, job[x] = "idle"
                PROVE  job'[x] = "idle"
    OBVIOUS
  <2>1. ASSUME NEW y \in Exchanges, Answer(y) PROVE FALSE
    BY <2>1, SuccessLeavesNoExchange DEF Answer, Respond
  <2>. QED BY <2>1, StepOfJobs DEF JobsStep, Store!Running
<1>2. ServeSpec => []ServiceInv
  BY ServeImplementsService, ServiceInvariant, PTL DEF ImplementsService
<1>. QED BY <1>1, <1>2, JobsAreOfExchanges, PTL
         DEF ServeSpec, NoRecordingAfterTheReturn
=============================================================================
