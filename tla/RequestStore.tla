---------------------------- MODULE RequestStore ----------------------------
(***************************************************************************)
(* SQLiteStore.InsertRequest (internal/storage/sqlite.go) as called by     *)
(* persistAsync (internal/proxy/proxy.go): one detached goroutine per      *)
(* event, each with a deadline of its own, sharing a pool of connections   *)
(* to one SQLite database with a single write lock.                        *)
(*                                                                         *)
(* SQLite and database/sql are external: a transaction is deferred and     *)
(* takes the write lock at its first INSERT; a statement that finds the    *)
(* lock taken waits on a connection with a busy_timeout and fails at once  *)
(* on any other; a context that is done rolls the transaction back.        *)
(***************************************************************************)
EXTENDS UsageEvents

CONSTANTS
  Conns,       \* the pool: SetMaxOpenConns(4)
  FirstConn,   \* the connection applyPragmas ran on
  NoConn, NoOwner

ASSUME StoreAssumption ==
  /\ FirstConn \in Conns /\ NoConn \notin Conns
  /\ NoOwner \notin Events

VARIABLES
  requests, tagRows, sessions,   \* the committed tables
  draft,       \* the tables as the open write transaction sees them
  lock,        \* the event whose transaction holds the write lock
  todo,        \* the tags that transaction has not inserted yet
  job,         \* the goroutine of each event
  conn,        \* the connection it holds
  opened       \* the connections the pool has opened

tables == <<requests, tagRows, sessions>>
vars == <<tables, draft, lock, todo, job, conn, opened>>

Running == {"waiting", "begun", "tagging", "summed"}
Ended   == {"stored", "failed", "busy", "gone"}

Tables  == [requests |-> requests, tagRows |-> tagRows, sessions |-> sessions]
NoDraft == [requests |-> {}, tagRows |-> {},
            sessions |-> [s \in Sessions |-> NoRow]]

Init ==
  /\ requests = {} /\ tagRows = {}
  /\ sessions = [s \in Sessions |-> NoRow]
  /\ draft = NoDraft
  /\ lock = NoOwner /\ todo = {}
  /\ job = [e \in Events |-> "idle"]
  /\ conn = [e \in Events |-> NoConn]
  /\ opened = {FirstConn}

-----------------------------------------------------------------------------
(* persistAsync *)
Start(e) ==
  /\ job[e] = "idle"
  /\ job' = [job EXCEPT ![e] = "waiting"]
  /\ UNCHANGED <<tables, draft, lock, todo, conn, opened>>

Idle == opened \ {conn[e] : e \in Events}

(* BeginTx: an idle connection if there is one, else a new one up to the   *)
(* limit of the pool, else the goroutine waits.                            *)
Begin(e) ==
  /\ job[e] = "waiting"
  /\ \E c \in IF Idle # {} THEN Idle ELSE Conns \ opened :
       /\ conn' = [conn EXCEPT ![e] = c]
       /\ opened' = opened \cup {c}
  /\ job' = [job EXCEPT ![e] = "begun"]
  /\ UNCHANGED <<tables, draft, lock, todo>>

(* The transaction ends and its connection goes back to the pool. *)
Finish(e, outcome) ==
  /\ job' = [job EXCEPT ![e] = outcome]
  /\ conn' = [conn EXCEPT ![e] = NoConn]
  /\ lock' = IF lock = e THEN NoOwner ELSE lock
  /\ todo' = IF lock = e THEN {} ELSE todo
  /\ draft' = IF lock = e THEN NoDraft ELSE draft
  /\ UNCHANGED opened

Duplicate(e) == \E f \in requests : IdOf[f] = IdOf[e]

(* Fault: the row is inserted through the pool, not the transaction *)
InsertRowOutsideTx(e) ==
  /\ job[e] = "begun" /\ lock = NoOwner /\ ~Duplicate(e)
  /\ lock' = e /\ todo' = TagsOf[e]
  /\ requests' = requests \cup {e}
  /\ draft' = [Tables EXCEPT !.requests = @ \cup {e}]
  /\ job' = [job EXCEPT ![e] = "tagging"]
  /\ UNCHANGED <<tagRows, sessions, conn, opened>>

(* Fault: blank tag keys are not skipped *)
InsertRowKeepsBlankTag(e) ==
  /\ job[e] = "begun" /\ lock = NoOwner /\ ~Duplicate(e)
  /\ lock' = e /\ todo' = TagsOf[e] \cup {""}
  /\ draft' = [Tables EXCEPT !.requests = @ \cup {e}]
  /\ job' = [job EXCEPT ![e] = "tagging"]
  /\ UNCHANGED <<tables, conn, opened>>

(* INSERT INTO requests: takes the write lock *)
InsertRow(e) ==
  /\ job[e] = "begun" /\ lock = NoOwner /\ ~Duplicate(e)
  /\ lock' = e /\ todo' = TagsOf[e]
  /\ draft' = [Tables EXCEPT !.requests = @ \cup {e}]
  /\ job' = [job EXCEPT ![e] = "tagging"]
  /\ UNCHANGED <<tables, conn, opened>>

(* request_id is the primary key. *)
InsertRowConflicts(e) ==
  /\ job[e] = "begun" /\ lock = NoOwner /\ Duplicate(e)
  /\ Finish(e, "failed")
  /\ UNCHANGED tables

(* SQLITE_BUSY: only the first connection has a busy_timeout *)
InsertRowBusy(e) ==
  /\ job[e] = "begun" /\ lock # NoOwner /\ conn[e] # FirstConn
  /\ Finish(e, "busy")
  /\ UNCHANGED tables

InsertTag(e) ==
  /\ job[e] = "tagging"
  /\ \E key \in todo :
       /\ todo' = todo \ {key}
       /\ draft' = [draft EXCEPT !.tagRows = @ \cup {<<IdOf[e], key>>}]
  /\ UNCHANGED <<tables, lock, job, conn, opened>>

(* Fault: the session is upserted through the pool, not the transaction *)
UpsertSessionOutsideTx(e) ==
  /\ job[e] = "tagging" /\ todo = {}
  /\ sessions' = WithSession(sessions, e)
  /\ draft' = [draft EXCEPT !.sessions = WithSession(@, e)]
  /\ job' = [job EXCEPT ![e] = "summed"]
  /\ UNCHANGED <<requests, tagRows, lock, todo, conn, opened>>

(* upsertSession, for an event that has a session *)
UpsertSession(e) ==
  /\ job[e] = "tagging" /\ todo = {}
  /\ draft' = [draft EXCEPT !.sessions = WithSession(@, e)]
  /\ job' = [job EXCEPT ![e] = "summed"]
  /\ UNCHANGED <<tables, lock, todo, conn, opened>>

Commit(e) ==
  /\ job[e] = "summed"
  /\ requests' = draft.requests
  /\ tagRows' = draft.tagRows
  /\ sessions' = draft.sessions
  /\ Finish(e, "stored")

-----------------------------------------------------------------------------
(* Fault: BeginTx is called without the deadline *)
ExpireAfterBegin(e) ==
  /\ job[e] \in Running \ {"waiting"}
  /\ Finish(e, "failed")
  /\ UNCHANGED tables

(* The deadline of persistAsync's context passes: database/sql rolls back. *)
Expire(e) ==
  /\ job[e] \in Running
  /\ Finish(e, "failed")
  /\ UNCHANGED tables

(* A statement or the COMMIT fails: tx.Rollback, and the event is lost. *)
StatementFails(e) ==
  /\ job[e] \in Running \ {"waiting"}
  /\ Finish(e, "failed")
  /\ UNCHANGED tables

(* The process dies and is started again: the goroutines are gone, SQLite  *)
(* recovers the committed state.                                           *)
Crash ==
  /\ \E e \in Events : job[e] \in Running
  /\ job' = [e \in Events |-> IF job[e] \in Running THEN "gone" ELSE job[e]]
  /\ conn' = [e \in Events |-> NoConn]
  /\ lock' = NoOwner /\ todo' = {} /\ draft' = NoDraft
  /\ opened' = {FirstConn}
  /\ UNCHANGED tables

Done == (\A e \in Events : job[e] \in Ended) /\ UNCHANGED vars

Insert(e) ==
  \/ Begin(e) \/ InsertRow(e) \/ InsertRowConflicts(e) \/ InsertRowBusy(e)
  \/ InsertTag(e) \/ UpsertSession(e) \/ Commit(e) \/ StatementFails(e)

Next ==
  \/ \E e \in Events : Start(e) \/ Insert(e) \/ Expire(e)
  \/ Crash
  \/ Done

Spec == Init /\ [][Next]_vars

(* Every context has a deadline and timers fire; the statements and the    *)
(* pool owe nothing.                                                       *)
FairSpec == Spec /\ \A e \in Events : WF_vars(Expire(e))

-----------------------------------------------------------------------------
(* Properties *)

TypeOK ==
  /\ requests \in SUBSET Events
  /\ tagRows \in SUBSET ({IdOf[e] : e \in Events} \X TagKeys)
  /\ sessions \in [Sessions -> SessionRow]
  /\ draft \in [requests : SUBSET Events,
                tagRows : SUBSET ({IdOf[e] : e \in Events} \X TagKeys),
                sessions : [Sessions -> SessionRow]]
  /\ lock \in Events \cup {NoOwner}
  /\ todo \in SUBSET TagKeys
  /\ job \in [Events -> {"idle"} \cup Running \cup Ended]
  /\ conn \in [Events -> Conns \cup {NoConn}]
  /\ opened \in SUBSET Conns

(* An event is in the database exactly when its goroutine got through      *)
(* Commit: a failure, a deadline or a crash at any statement leaves no     *)
(* part of it, and no later transaction undoes it.                         *)
StoredExactlyWhenCommitted ==
  \A e \in Events : e \in requests <=> job[e] = "stored"

(* One transaction writes at a time, and no two goroutines share a         *)
(* connection of the pool.                                                 *)
TransactionsAreIsolated ==
  /\ \A e \in Events : job[e] \in {"tagging", "summed"} <=> lock = e
  /\ \A e \in Events : conn[e] # NoConn <=> job[e] \in Running \ {"waiting"}
  /\ \A e, f \in Events : conn[e] = conn[f] /\ conn[e] # NoConn => e = f

(* The tables implement the ledger: a transaction of many statements, with *)
(* rollbacks and crashes between them, appends a whole event or nothing.   *)
Ledger == INSTANCE UsageLedger WITH stored <- requests
ImplementsLedger == Ledger!Spec

(* The sessions table is the summary of the committed requests: counts,    *)
(* first start and last finish of each session (upsertSession).            *)
SessionsSummarise == Ledger!SessionsSummarise

(* A session is given the client type of one of its requests as soon as    *)
(* one has any, and never loses it (the CASE of upsertSession).            *)
SessionClientIsKnown == Ledger!SessionClientIsKnown

(* A committed request has all its tags, and no tag is of a request that   *)
(* is not there.                                                           *)
TagsAreComplete == Ledger!TagsAreComplete

(* A recording goroutine ends and gives its connection back, however long  *)
(* the pool is full or the lock is held (persistAsync's 5 s context).      *)
RecordingEnds ==
  \A e \in Events : job[e] = "waiting" ~> job[e] \in Ended

(* README.md:28, "Works with multiple concurrent local agent frameworks":  *)
(* a recording is not lost to another that runs at the same time; that is  *)
(* what the busy_timeout of applyPragmas is for.                           *)
ConcurrentRecordingsSurvive == \A e \in Events : job[e] # "busy"
=============================================================================
