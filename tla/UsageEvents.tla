----------------------------- MODULE UsageEvents -----------------------------
(***************************************************************************)
(* The events the proxy records (internal/model/types.go) as far as the    *)
(* store tells them apart, and the arithmetic of one row of the sessions   *)
(* table (upsertSession in internal/storage/sqlite.go).                    *)
(*                                                                         *)
(* A time is the number of its place in the order of the stored texts.     *)
(***************************************************************************)
EXTENDS Integers, FiniteSets

CONSTANTS
  Events,      \* the events that are ever recorded
  Sessions,    \* the non-blank session ids
  TagKeys,     \* the non-blank tag keys
  Clients,     \* the non-empty client types
  NoSession,   \* a blank session id
  NoClient,    \* an empty client type
  IdOf,        \* request_id of an event: 8 random bytes, so perhaps not unique
  SessionOf, StartOf, FinishOf, TokensOf, ClientOf, TagsOf

ASSUME EventsAssumption ==
  /\ NoSession \notin Sessions
  /\ NoClient \notin Clients
  /\ SessionOf \in [Events -> Sessions \cup {NoSession}]
  /\ StartOf \in [Events -> Nat]
  /\ FinishOf \in [Events -> Nat]
  /\ TokensOf \in [Events -> Nat]
  /\ ClientOf \in [Events -> Clients \cup {NoClient}]
  /\ TagsOf \in [Events -> SUBSET TagKeys]

-----------------------------------------------------------------------------
(* A row of the sessions table; count = 0 stands for no row. *)
SessionRow == [count : Nat, first : Nat, last : Nat, tokens : Nat,
               client : Clients \cup {NoClient}]

NoRow == [count |-> 0, first |-> 0, last |-> 0, tokens |-> 0,
          client |-> NoClient]

(* Fault: the conflict branch replaces the last-seen time *)
UpsertedLatestWriter(row, e) ==
  [count  |-> row.count + 1,
   first  |-> IF row.count > 0 /\ row.first <= StartOf[e]
              THEN row.first ELSE StartOf[e],
   last   |-> FinishOf[e],
   tokens |-> row.tokens + TokensOf[e],
   client |-> IF ClientOf[e] # NoClient THEN ClientOf[e] ELSE row.client]

(* Fault: the conflict branch takes the excluded row's tokens *)
UpsertedTokensReplaced(row, e) ==
  [count  |-> row.count + 1,
   first  |-> IF row.count > 0 /\ row.first <= StartOf[e]
              THEN row.first ELSE StartOf[e],
   last   |-> IF row.count > 0 /\ row.last >= FinishOf[e]
              THEN row.last ELSE FinishOf[e],
   tokens |-> TokensOf[e],
   client |-> IF ClientOf[e] # NoClient THEN ClientOf[e] ELSE row.client]

(* INSERT ... ON CONFLICT(session_id) DO UPDATE *)
Upserted(row, e) ==
  [count  |-> row.count + 1,
   first  |-> IF row.count > 0 /\ row.first <= StartOf[e]
              THEN row.first ELSE StartOf[e],
   last   |-> IF row.count > 0 /\ row.last >= FinishOf[e]
              THEN row.last ELSE FinishOf[e],
   tokens |-> row.tokens + TokensOf[e],
   client |-> IF ClientOf[e] # NoClient THEN ClientOf[e] ELSE row.client]

(* upsertSession runs only for an event that has a session. *)
WithSession(table, e) ==
  [s \in Sessions |->
     IF s = SessionOf[e] THEN Upserted(table[s], e) ELSE table[s]]

(* The rows of request_tags for an event *)
TagRows(e) == {IdOf[e]} \X TagsOf[e]

MembersOf(s, rows) == {e \in rows : SessionOf[e] = s}

(* A row counts the events of a session and spans them from the first      *)
(* start to the last finish; there is no row for no events.                *)
Summarises(row, members) ==
  /\ row.count = Cardinality(members)
  /\ members = {} => row = NoRow
  /\ members # {} =>
       /\ \E e \in members : row.first = StartOf[e]
       /\ \E e \in members : row.last = FinishOf[e]
       /\ \A e \in members : row.first <= StartOf[e] /\ row.last >= FinishOf[e]
=============================================================================
