-------------------------- MODULE ServiceLifecycle --------------------------
(***************************************************************************)
(* The serve process from start to exit: app.Run (internal/app/app.go),    *)
(* the proxy's Serve and shutdown (internal/proxy/proxy.go), api.Serve     *)
(* (internal/api/server.go), and the exchanges in flight while it stops.   *)
(*                                                                         *)
(* An exchange is one captured request (module ChatExchange has its        *)
(* inside). What happens to its record meanwhile is in module ServeStore.  *)
(* net/http is external: Shutdown closes a server's listener at once and   *)
(* returns when its connections are idle or its context is done.           *)
(***************************************************************************)
EXTENDS Naturals

CONSTANTS
  N,            \* number of proxy listeners; they shut down in this order
  Exchanges,    \* the captured requests
  ListenerOf,   \* the listener an exchange arrives at
  UIEnabled     \* cfg.UI.Enabled

ASSUME LifecycleAssumption ==
  /\ N \in Nat \ {0}
  /\ ListenerOf \in [Exchanges -> 1 .. N]
  /\ UIEnabled \in BOOLEAN

VARIABLES
  ctx,        \* childCtx is done: an interrupt, or Run's own cancel
  listener,   \* each listener's ListenAndServe
  serve,      \* Service.Serve
  at,         \* the listener that shutdown is waiting for
  timer,      \* the one 5 s deadline all listeners' Shutdown calls share
  serveErr,   \* Serve will return an error
  ui,         \* api.Serve
  received,   \* whose nil result Run's loop has received
  run,        \* app.Run and the process
  result,     \* what the process ended with
  exchange

serviceVars == <<listener, serve, at, timer, serveErr>>
vars == <<ctx, serviceVars, ui, received, run, result, exchange>>

Alive    == run # "exited"
Expected == IF UIEnabled THEN {"proxy", "ui"} ELSE {"proxy"}

Init ==
  /\ ctx = FALSE
  /\ listener = [l \in 1 .. N |-> "starting"]
  /\ serve = "running" /\ at = 0 /\ timer = "off" /\ serveErr = FALSE
  /\ ui = IF UIEnabled THEN "starting" ELSE "off"
  /\ received = {} /\ run = "waiting" /\ result = "none"
  /\ exchange = [x \in Exchanges |-> "none"]

(* signal.NotifyContext(os.Interrupt) *)
Interrupt ==
  /\ Alive /\ ~ctx
  /\ ctx' = TRUE
  /\ UNCHANGED <<serviceVars, ui, received, run, result, exchange>>

-----------------------------------------------------------------------------
(* Service.Serve and shutdown *)

(* The goroutine of a listener: the address is bound, or taken. *)
Bind(l) ==
  /\ Alive /\ listener[l] = "starting"
  /\ \E outcome \in {"accepting", "failed"} :
       listener' = [listener EXCEPT ![l] = outcome]
  /\ UNCHANGED <<ctx, serve, at, timer, serveErr, ui, received, run, result,
                 exchange>>

(* Accept fails for good. *)
AcceptFails(l) ==
  /\ Alive /\ listener[l] = "accepting"
  /\ listener' = [listener EXCEPT ![l] = "failed"]
  /\ UNCHANGED <<ctx, serve, at, timer, serveErr, ui, received, run, result,
                 exchange>>

(* The select of Serve: the first listener error, or the context. Shutdown *)
(* starts with the first listener; the others go on accepting.             *)
StartShutdown ==
  /\ Alive /\ serve = "running"
  /\ \E failure \in BOOLEAN :
       /\ IF failure THEN \E l \in 1 .. N : listener[l] = "failed" ELSE ctx
       /\ serveErr' = failure
  /\ serve' = "shutting" /\ timer' = "running" /\ at' = 1
  /\ listener' = [listener EXCEPT ![1] = "closed"]
  /\ UNCHANGED <<ctx, ui, received, run, result, exchange>>

DrainTimeout ==
  /\ Alive /\ timer = "running"
  /\ timer' = "expired"
  /\ UNCHANGED <<ctx, listener, serve, at, serveErr, ui, received, run,
                 result, exchange>>

Drained(l) == \A x \in Exchanges : ListenerOf[x] = l => exchange[x] # "active"

(* Fault: Shutdown is called without a deadline *)
ShutdownReturnsUntimed == Drained(at)

(* Shutdown of one listener returns: drained, or the shared deadline has   *)
(* passed.                                                                 *)
ShutdownReturns == Drained(at) \/ timer = "expired"

(* Fault: one listener too many *)
MoreListenersPastEnd == at <= N

(* Fault: shutdown gives up at the first listener that does not drain *)
MoreListenersIfDrained == at < N /\ Drained(at)

MoreListeners == at < N

(* A listener that did not drain is an error; the next one is closed only  *)
(* now, and after the last one Serve returns.                              *)
NextListener ==
  /\ Alive /\ serve = "shutting" /\ ShutdownReturns
  /\ serveErr' = (serveErr \/ ~Drained(at))
  /\ at' = at + 1
  /\ IF MoreListeners
     THEN /\ listener' = [listener EXCEPT ![at + 1] = "closed"]
          /\ UNCHANGED <<serve, timer>>
     ELSE /\ serve' = IF serveErr' THEN "err" ELSE "ok"
          /\ timer' = "off"
          /\ UNCHANGED listener
  /\ UNCHANGED <<ctx, ui, received, run, result, exchange>>

-----------------------------------------------------------------------------
(* api.Serve *)

UIBind ==
  /\ Alive /\ ui = "starting"
  /\ ui' \in {"serving", "err"}
  /\ UNCHANGED <<ctx, serviceVars, received, run, result, exchange>>

UIAcceptFails ==
  /\ Alive /\ ui = "serving"
  /\ ui' = "err"
  /\ UNCHANGED <<ctx, serviceVars, received, run, result, exchange>>

UIStartShutdown ==
  /\ Alive /\ ui \in {"starting", "serving"} /\ ctx
  /\ ui' = "draining"
  /\ UNCHANGED <<ctx, serviceVars, received, run, result, exchange>>

(* Its own 5 s deadline bounds this. *)
UIDrained ==
  /\ Alive /\ ui = "draining"
  /\ ui' \in {"ok", "err"}
  /\ UNCHANGED <<ctx, serviceVars, received, run, result, exchange>>

-----------------------------------------------------------------------------
(* app.Run *)

Outcome(who) == IF who = "proxy" THEN serve ELSE ui

(* Fault: the first nil result ends the loop *)
AllReceivedAtFirst == TRUE

AllReceived == received' = Expected

(* A nil result: the loop goes on until all expected ones have come. *)
ReceiveNil(who) ==
  /\ run = "waiting" /\ who \in Expected \ received /\ Outcome(who) = "ok"
  /\ received' = received \cup {who}
  /\ IF AllReceived THEN run' = "returned" /\ result' = "ok"
                    ELSE UNCHANGED <<run, result>>
  /\ UNCHANGED <<ctx, serviceVars, ui, exchange>>

(* The first error ends the loop: the other server is cancelled and not    *)
(* waited for.                                                             *)
ReceiveError(who) ==
  /\ run = "waiting" /\ who \in Expected \ received /\ Outcome(who) = "err"
  /\ run' = "returned" /\ result' = "err" /\ ctx' = TRUE
  /\ UNCHANGED <<serviceVars, ui, received, exchange>>

(* The deferred store.Close *)
CloseStore ==
  /\ run = "returned"
  /\ run' = "closed"
  /\ UNCHANGED <<ctx, serviceVars, ui, received, result, exchange>>

(* What the end of the process does to the work in flight *)
CutExchanges ==
  exchange' = [x \in Exchanges |-> IF exchange[x] = "active" THEN "cut"
                                   ELSE exchange[x]]

Exit ==
  /\ run = "closed"
  /\ run' = "exited"
  /\ CutExchanges
  /\ UNCHANGED <<ctx, serviceVars, ui, received, result>>

(* SIGTERM, which nothing catches (the tray's ls_stop_backend and the      *)
(* menu agent's terminate send it), or a crash                             *)
Kill ==
  /\ Alive
  /\ run' = "exited" /\ result' = "killed"
  /\ CutExchanges
  /\ UNCHANGED <<ctx, serviceVars, ui, received>>

-----------------------------------------------------------------------------
(* The work *)

(* A connection is accepted for the request; Shutdown waits for it from    *)
(* here on, also when the request is only read after the listener closed.  *)
Arrive(x) ==
  /\ Alive /\ exchange[x] = "none" /\ listener[ListenerOf[x]] = "accepting"
  /\ exchange' = [exchange EXCEPT ![x] = "active"]
  /\ UNCHANGED <<ctx, serviceVars, ui, received, run, result>>

(* The response is complete, and the handler calls persistAsync. *)
Respond(x) ==
  /\ Alive /\ exchange[x] = "active"
  /\ exchange' = [exchange EXCEPT ![x] = "responded"]
  /\ UNCHANGED <<ctx, serviceVars, ui, received, run, result>>

Stopped == ~Alive /\ UNCHANGED vars

(* Steps the runtime and its timers owe; UIBind and Bind may fail. *)
Proxy  == StartShutdown \/ DrainTimeout \/ NextListener
API    == UIStartShutdown \/ UIDrained
Runner == (\E who \in Expected : ReceiveNil(who) \/ ReceiveError(who))
          \/ CloseStore \/ Exit

Next ==
  \/ Interrupt \/ Kill \/ Stopped
  \/ Proxy \/ \E l \in 1 .. N : Bind(l) \/ AcceptFails(l)
  \/ API \/ UIBind \/ UIAcceptFails
  \/ Runner
  \/ \E x \in Exchanges : Arrive(x) \/ Respond(x)

Spec == Init /\ [][Next]_vars

(* Goroutines are scheduled and deadlines pass; no exchange has to end. *)
Fairness ==
  /\ WF_vars(StartShutdown) /\ WF_vars(DrainTimeout) /\ WF_vars(NextListener)
  /\ WF_vars(API) /\ WF_vars(Runner)

FairSpec == Spec /\ Fairness

-----------------------------------------------------------------------------
(* Properties *)

TypeOK ==
  /\ ctx \in BOOLEAN
  /\ listener \in [1 .. N -> {"starting", "accepting", "failed", "closed"}]
  /\ serve \in {"running", "shutting", "ok", "err"}
  /\ at \in 0 .. N + 1
  /\ timer \in {"off", "running", "expired"} /\ serveErr \in BOOLEAN
  /\ ui \in {"off", "starting", "serving", "draining", "ok", "err"}
  /\ received \in SUBSET Expected
  /\ run \in {"waiting", "returned", "closed", "exited"}
  /\ result \in {"none", "ok", "err", "killed"}
  /\ exchange \in [Exchanges -> {"none", "active", "responded", "cut"}]

(* When Serve has returned, with or without an error, every listener has   *)
(* been closed, also those behind one that did not drain in time           *)
(* (Service.shutdown goes through all of them).                            *)
ServeClosesEveryListener ==
  serve \in {"ok", "err"} => \A l \in 1 .. N : listener[l] = "closed"

(* A process that ends with success has cut no exchange, although the      *)
(* listeners drain one after the other and later ones go on accepting:     *)
(* Run waits for both servers and Serve returns nil only when every        *)
(* listener was idle (app.Run, Service.shutdown, api.Serve).               *)
CleanExitCutsNothing ==
  (run = "exited" /\ result = "ok") => \A x \in Exchanges : exchange[x] # "cut"

(* An interrupt, a listener that cannot bind or a dashboard that cannot    *)
(* bind ends the process, even when an upstream never answers: all drains  *)
(* are bounded by their deadlines.                                         *)
StopIsBounded ==
  (ctx \/ (\E l \in 1 .. N : listener[l] = "failed") \/ ui = "err") ~>
    run = "exited"
=============================================================================
