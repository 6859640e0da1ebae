----------------------------- MODULE ServeStore -----------------------------
(***************************************************************************)
(* The serve process and its store together: ServiceLifecycle, and the     *)
(* recordings of RequestStore that its exchanges start. Each response      *)
(* starts a recording (persistAsync, internal/proxy/proxy.go), nobody      *)
(* waits for it, Run closes the store under it (internal/app/app.go), and  *)
(* the end of the process takes it along.                                  *)
(*                                                                         *)
(* database/sql is external: Close fails those that wait for a connection  *)
(* and refuses a new transaction; one that has begun goes on.              *)
(***************************************************************************)
EXTENDS ServiceLifecycle

CONSTANTS
  Sessions, TagKeys, Clients, NoSession, NoClient,
  IdOf, SessionOf, StartOf, FinishOf, TokensOf, ClientOf, TagsOf,
  Conns, FirstConn, NoConn, NoOwner

VARIABLES requests, tagRows, sessions, draft, lock, todo, job, conn, opened

(* The event of an exchange is recorded under the exchange's own name. *)
Store == INSTANCE RequestStore WITH Events <- Exchanges

storeVars == <<requests, tagRows, sessions, draft, lock, todo, job, conn, opened>>
serveVars == <<vars, storeVars>>

ServeInit == Init /\ Store!Init

(* Fault: the recording is queued, and the handler returns before it runs *)
AnswerThenQueue(x) ==
  \/ Respond(x) /\ UNCHANGED storeVars
  \/ exchange[x] = "responded" /\ Alive /\ Store!Start(x) /\ UNCHANGED vars

(* The response and the recording it starts *)
Answer(x) == Respond(x) /\ Store!Start(x)

(* A transaction begins only in an open store; the rest of a recording     *)
(* needs no more than the process. Expire is also what Close does to one   *)
(* that waits.                                                             *)
Record(x) ==
  /\ Alive /\ UNCHANGED vars
  /\ \/ run # "closed" /\ Store!Begin(x)
     \/ Store!InsertRow(x) \/ Store!InsertRowConflicts(x)
     \/ Store!InsertRowBusy(x) \/ Store!InsertTag(x)
     \/ Store!UpsertSession(x) \/ Store!Commit(x)
     \/ Store!StatementFails(x) \/ Store!Expire(x)

(* The process ends, and every goroutine with it. *)
End ==
  /\ Exit \/ Kill
  /\ IF \E x \in Exchanges : job[x] \in Store!Running
     THEN Store!Crash ELSE UNCHANGED storeVars

(* Everything the process does that the store has no part in *)
Serve ==
  /\ \/ Interrupt \/ Stopped \/ Proxy \/ API \/ UIBind \/ UIAcceptFails
     \/ CloseStore
     \/ \E l \in 1 .. N : Bind(l) \/ AcceptFails(l)
     \/ \E who \in Expected : ReceiveNil(who) \/ ReceiveError(who)
     \/ \E x \in Exchanges : Arrive(x)
  /\ UNCHANGED storeVars

ServeNext == Serve \/ End \/ \E x \in Exchanges : Answer(x) \/ Record(x)

ServeSpec == ServeInit /\ [][ServeNext]_serveVars

FairServeSpec == ServeSpec /\ Fairness

-----------------------------------------------------------------------------
(* Properties *)

(* The composition is a behaviour of each of its parts, so that what holds *)
(* of them holds here.                                                     *)
ImplementsService == Spec
ImplementsStore   == Store!Spec

(* Once Run has returned with success no recording starts any more: what   *)
(* the Close of the store and the exit can still take away was under way   *)
(* before (Service.shutdown, the loop of app.Run, persistAsync).           *)
NoRecordingAfterTheReturn ==
  [][result = "ok" =>
       \A x \in Exchanges : job[x] = "idle" => job'[x] = "idle"]_serveVars
=============================================================================
