------------------------- MODULE RequestStoreProofs -------------------------
(***************************************************************************)
(* InsertRequest for every set of events, pool and assignment of ids: the  *)
(* transactions are isolated, an event is stored exactly when its commit   *)
(* went through, the tables implement the ledger, and so they agree; and   *)
(* opening the database, for any number of processes, migrations and       *)
(* starts.                                                                 *)
(***************************************************************************)
EXTENDS RequestStore, StoreOpening, FiniteSetTheorems, TLAPS

(* The connections in use were opened. *)
ConnsAreOpened == \A e \in Events : conn[e] # NoConn => conn[e] \in opened

(* What the open write transaction has done so far, relative to the        *)
(* committed tables: this is what Commit relies on.                        *)
DraftOf(e) ==
  /\ \A f \in requests : IdOf[f] # IdOf[e]
  /\ todo \subseteq TagsOf[e]
  /\ draft.requests = requests \cup {e}
  /\ draft.tagRows = tagRows \cup ({IdOf[e]} \X (TagsOf[e] \ todo))
  /\ job[e] = "tagging" => draft.sessions = sessions
  /\ job[e] = "summed" => /\ todo = {}
                          /\ draft.sessions = WithSession(sessions, e)

DraftFollowsTables == \A e \in Events : lock = e => DraftOf(e)

StoreInv ==
  /\ TypeOK
  /\ TransactionsAreIsolated
  /\ ConnsAreOpened
  /\ StoredExactlyWhenCommitted
  /\ DraftFollowsTables

(* An upsert leaves a table of session rows. *)
LEMMA WithSessionType ==
  ASSUME NEW e \in Events, NEW table \in [Sessions -> SessionRow]
  PROVE  WithSession(table, e) \in [Sessions -> SessionRow]
<1>1. ASSUME NEW row \in SessionRow PROVE Upserted(row, e) \in SessionRow
  BY EventsAssumption DEF Upserted, SessionRow
<1>. QED BY <1>1, EventsAssumption DEF WithSession

(* The empty draft is one. *)
LEMMA NoDraftType ==
  NoDraft \in [requests : SUBSET Events,
               tagRows : SUBSET ({IdOf[e] : e \in Events} \X TagKeys),
               sessions : [Sessions -> SessionRow]]
BY DEF NoDraft, NoRow, SessionRow

(* Every way out that commits nothing: a conflict, SQLITE_BUSY, a failed   *)
(* statement, a deadline.                                                  *)
LEMMA RollbackKeepsInv ==
  ASSUME StoreInv, NEW e \in Events, NEW outcome \in {"failed", "busy"},
         job[e] \in Running, Finish(e, outcome), UNCHANGED tables
  PROVE  StoreInv'
<1>. USE DEF Running, Ended
<1>1. TypeOK'
  BY NoDraftType DEF StoreInv, TypeOK, Finish, tables
<1>2. TransactionsAreIsolated'
  BY StoreAssumption DEF StoreInv, TypeOK, TransactionsAreIsolated, Finish
<1>3. ConnsAreOpened'
  BY StoreAssumption DEF StoreInv, TypeOK, ConnsAreOpened, Finish
<1>4. StoredExactlyWhenCommitted'
  BY DEF StoreInv, TypeOK, StoredExactlyWhenCommitted, Finish, tables
<1>5. DraftFollowsTables'
  <2>. SUFFICES ASSUME NEW f \in Events, lock' = f PROVE DraftOf(f)'
    BY DEF DraftFollowsTables
  <2>1. lock = f /\ f # e /\ UNCHANGED <<draft, todo, job[f]>>
    BY StoreAssumption DEF StoreInv, TypeOK, Finish
  <2>2. DraftOf(f)
    BY <2>1 DEF StoreInv, DraftFollowsTables
  <2>. QED BY <2>1, <2>2 DEF DraftOf, tables
<1>. QED BY <1>1, <1>2, <1>3, <1>4, <1>5 DEF StoreInv

(* A recording starts with nothing written. *)
LEMMA StartKeepsInv ==
  ASSUME StoreInv, NEW e \in Events, Start(e)
  PROVE  StoreInv'
<1>. USE DEF Running, Ended, Start, StoreInv
<1>1. TypeOK'
  BY DEF TypeOK, tables
<1>2. TransactionsAreIsolated'
  BY DEF TypeOK, TransactionsAreIsolated
<1>3. ConnsAreOpened'
  BY DEF ConnsAreOpened
<1>4. StoredExactlyWhenCommitted'
  BY DEF TypeOK, StoredExactlyWhenCommitted, tables
<1>5. DraftFollowsTables'
  BY DEF TypeOK, TransactionsAreIsolated, DraftFollowsTables, DraftOf, tables
<1>. QED BY <1>1, <1>2, <1>3, <1>4, <1>5

(* A transaction that begins has written nothing. *)
LEMMA BeginKeepsInv ==
  ASSUME StoreInv, NEW e \in Events, Begin(e)
  PROVE  StoreInv'
<1>. USE DEF Running, Ended, StoreInv
<1>1. PICK c \in IF Idle # {} THEN Idle ELSE Conns \ opened :
        /\ conn' = [conn EXCEPT ![e] = c]
        /\ opened' = opened \cup {c}
  BY DEF Begin
<1>2. c \in Conns /\ \A f \in Events : conn[f] # c
  BY StoreAssumption DEF Idle, TypeOK, ConnsAreOpened
<1>3. TypeOK'
  BY <1>1, <1>2 DEF Begin, TypeOK, tables
<1>4. TransactionsAreIsolated'
  BY <1>1, <1>2, StoreAssumption DEF Begin, TypeOK, TransactionsAreIsolated
<1>5. ConnsAreOpened'
  BY <1>1, <1>2 DEF Begin, TypeOK, ConnsAreOpened
<1>6. StoredExactlyWhenCommitted'
  BY DEF Begin, TypeOK, StoredExactlyWhenCommitted, tables
<1>7. DraftFollowsTables'
  BY DEF Begin, TypeOK, TransactionsAreIsolated, DraftFollowsTables, DraftOf,
         tables
<1>. QED BY <1>3, <1>4, <1>5, <1>6, <1>7

(* The first INSERT takes the write lock and drafts the committed tables   *)
(* with its row.                                                           *)
LEMMA InsertRowKeepsInv ==
  ASSUME StoreInv, NEW e \in Events, InsertRow(e)
  PROVE  StoreInv'
<1>. USE DEF Running, Ended, StoreInv, InsertRow
<1>1. TypeOK'
  BY EventsAssumption DEF TypeOK, tables, Tables
<1>2. TransactionsAreIsolated'
  BY StoreAssumption DEF TypeOK, TransactionsAreIsolated
<1>3. ConnsAreOpened'
  BY DEF ConnsAreOpened
<1>4. StoredExactlyWhenCommitted'
  BY DEF TypeOK, StoredExactlyWhenCommitted, tables
<1>5. DraftFollowsTables'
  BY DEF TypeOK, DraftFollowsTables, DraftOf, tables, Tables, Duplicate
<1>. QED BY <1>1, <1>2, <1>3, <1>4, <1>5

(* Each tag is drafted and leaves todo. *)
LEMMA InsertTagKeepsInv ==
  ASSUME StoreInv, NEW e \in Events, InsertTag(e)
  PROVE  StoreInv'
<1>. USE DEF Running, Ended, StoreInv
<1>1. PICK key \in todo :
        /\ todo' = todo \ {key}
        /\ draft' = [draft EXCEPT !.tagRows = @ \cup {<<IdOf[e], key>>}]
  BY DEF InsertTag
<1>2. lock = e
  BY DEF InsertTag, TransactionsAreIsolated
<1>3. DraftOf(e)
  BY <1>2 DEF DraftFollowsTables
<1>4. TypeOK'
  BY <1>1 DEF InsertTag, TypeOK, tables
<1>5. TransactionsAreIsolated' /\ ConnsAreOpened'
  BY DEF InsertTag, TransactionsAreIsolated, ConnsAreOpened
<1>6. StoredExactlyWhenCommitted'
  BY DEF InsertTag, StoredExactlyWhenCommitted, tables
<1>7. DraftOf(e)'
  BY <1>1, <1>3 DEF InsertTag, TypeOK, DraftOf, tables
<1>8. DraftFollowsTables'
  BY <1>2, <1>7 DEF InsertTag, DraftFollowsTables
<1>. QED BY <1>4, <1>5, <1>6, <1>8

(* The session is drafted once, after the tags. *)
LEMMA UpsertSessionKeepsInv ==
  ASSUME StoreInv, NEW e \in Events, UpsertSession(e)
  PROVE  StoreInv'
<1>. USE DEF Running, Ended, StoreInv
<1>1. lock = e
  BY DEF UpsertSession, TransactionsAreIsolated
<1>2. DraftOf(e)
  BY <1>1 DEF DraftFollowsTables
<1>3. TypeOK'
  BY WithSessionType DEF UpsertSession, TypeOK, tables
<1>4. TransactionsAreIsolated'
  BY DEF UpsertSession, TypeOK, TransactionsAreIsolated
<1>5. ConnsAreOpened'
  BY DEF UpsertSession, ConnsAreOpened
<1>6. StoredExactlyWhenCommitted'
  BY DEF UpsertSession, TypeOK, StoredExactlyWhenCommitted, tables
<1>7. DraftOf(e)'
  BY <1>2 DEF UpsertSession, TypeOK, DraftOf, tables
<1>8. DraftFollowsTables'
  BY <1>1, <1>7 DEF UpsertSession, DraftFollowsTables
<1>. QED BY <1>3, <1>4, <1>5, <1>6, <1>8

(* With the draft complete, the tables get the whole event. *)
LEMMA CommitKeepsInv ==
  ASSUME StoreInv, NEW e \in Events, Commit(e)
  PROVE  StoreInv'
<1>. USE DEF Running, Ended, StoreInv
<1>1. lock = e
  BY DEF Commit, TransactionsAreIsolated
<1>2. DraftOf(e)
  BY <1>1 DEF DraftFollowsTables
<1>3. TypeOK'
  BY NoDraftType DEF Commit, Finish, TypeOK
<1>4. TransactionsAreIsolated'
  BY StoreAssumption DEF Commit, Finish, TypeOK, TransactionsAreIsolated
<1>5. ConnsAreOpened'
  BY StoreAssumption DEF Commit, Finish, TypeOK, ConnsAreOpened
<1>6. StoredExactlyWhenCommitted'
  BY <1>2 DEF Commit, Finish, TypeOK, StoredExactlyWhenCommitted, DraftOf
<1>7. DraftFollowsTables'
  BY <1>1, StoreAssumption DEF Commit, Finish, DraftFollowsTables
<1>. QED BY <1>3, <1>4, <1>5, <1>6, <1>7

(* A crash ends every recording and drops the draft. *)
LEMMA CrashKeepsInv ==
  ASSUME StoreInv, Crash
  PROVE  StoreInv'
<1>. USE DEF Running, Ended, StoreInv, Crash
<1>1. TypeOK'
  BY NoDraftType, StoreAssumption DEF TypeOK, tables
<1>2. TransactionsAreIsolated'
  BY StoreAssumption DEF TypeOK, TransactionsAreIsolated
<1>3. ConnsAreOpened'
  BY DEF ConnsAreOpened
<1>4. StoredExactlyWhenCommitted'
  BY DEF TypeOK, StoredExactlyWhenCommitted, tables
<1>5. DraftFollowsTables'
  BY StoreAssumption DEF DraftFollowsTables
<1>. QED BY <1>1, <1>2, <1>3, <1>4, <1>5

(* The inductive invariant of the store: the type invariant, isolation of  *)
(* the transactions, and what the open transaction has done so far.        *)
THEOREM StoreInvariant == Spec => []StoreInv
<1>1. Init => StoreInv
  <2>. SUFFICES ASSUME Init PROVE StoreInv
    OBVIOUS
  <2>. USE DEF Init, Running, Ended
  <2>1. TypeOK
    BY NoDraftType, StoreAssumption DEF TypeOK, NoRow, SessionRow
  <2>2. TransactionsAreIsolated /\ ConnsAreOpened /\ StoredExactlyWhenCommitted
    BY StoreAssumption DEF TransactionsAreIsolated, ConnsAreOpened,
                           StoredExactlyWhenCommitted
  <2>3. DraftFollowsTables
    BY StoreAssumption DEF DraftFollowsTables
  <2>. QED BY <2>1, <2>2, <2>3 DEF StoreInv
<1>2. StoreInv /\ [Next]_vars => StoreInv'
  <2>. SUFFICES ASSUME StoreInv, [Next]_vars PROVE StoreInv'
    OBVIOUS
  <2>1. CASE UNCHANGED vars
    BY <2>1 DEF vars, tables, StoreInv, TypeOK, TransactionsAreIsolated,
                ConnsAreOpened, StoredExactlyWhenCommitted,
                DraftFollowsTables, DraftOf
  <2>2. ASSUME NEW e \in Events,
               Start(e) \/ Insert(e) \/ Expire(e)
        PROVE  StoreInv'
    <3>1. CASE Start(e)
      BY <3>1, StartKeepsInv
    <3>2. CASE Begin(e)
      BY <3>2, BeginKeepsInv
    <3>3. CASE InsertRow(e)
      BY <3>3, InsertRowKeepsInv
    <3>4. CASE InsertRowConflicts(e)
      BY <3>4, RollbackKeepsInv DEF InsertRowConflicts, Running
    <3>5. CASE InsertRowBusy(e)
      BY <3>5, RollbackKeepsInv DEF InsertRowBusy, Running
    <3>6. CASE InsertTag(e)
      BY <3>6, InsertTagKeepsInv
    <3>7. CASE UpsertSession(e)
      BY <3>7, UpsertSessionKeepsInv
    <3>8. CASE Commit(e)
      BY <3>8, CommitKeepsInv
    <3>9. CASE StatementFails(e) \/ Expire(e)
      BY <3>9, RollbackKeepsInv DEF StatementFails, Expire
    <3>. QED BY <2>2, <3>1, <3>2, <3>3, <3>4, <3>5, <3>6, <3>7, <3>8, <3>9
             DEF Insert
  <2>3. CASE Crash
    BY <2>3, CrashKeepsInv
  <2>4. CASE Done
    BY <2>1, <2>4 DEF Done
  <2>. QED BY <2>1, <2>2, <2>3, <2>4 DEF Next
<1>. QED BY <1>1, <1>2, PTL DEF Spec

(* Types, isolation, and all-or-nothing: no error, deadline or crash at    *)
(* any statement of InsertRequest leaves a part of an event behind.        *)
THEOREM StoreTypeCorrect == Spec => []TypeOK
<1>1. StoreInv => TypeOK
  BY DEF StoreInv
<1>. QED BY <1>1, StoreInvariant, PTL

(* Goroutines never share a connection or the write lock. *)
THEOREM StoreIsolates == Spec => []TransactionsAreIsolated
<1>1. StoreInv => TransactionsAreIsolated
  BY DEF StoreInv
<1>. QED BY <1>1, StoreInvariant, PTL

(* An event is in the requests table exactly when its Commit succeeded. *)
THEOREM StoreIsAtomic == Spec => []StoredExactlyWhenCommitted
<1>1. StoreInv => StoredExactlyWhenCommitted
  BY DEF StoreInv
<1>. QED BY <1>1, StoreInvariant, PTL

(* A Commit appends its event to the ledger, and every other step leaves   *)
(* the ledger alone.                                                       *)
LEMMA StepRefinesLedger ==
  StoreInv /\ [Next]_vars => [Ledger!Next]_(Ledger!ledgerVars)
<1>. SUFFICES ASSUME StoreInv, [Next]_vars
     PROVE  Ledger!Next \/ UNCHANGED Ledger!ledgerVars
  OBVIOUS
<1>1. ASSUME NEW e \in Events, Commit(e) PROVE Ledger!AppendEvent(e)
  <2>1. lock = e /\ DraftOf(e) /\ job[e] = "summed"
    BY <1>1 DEF Commit, StoreInv, TransactionsAreIsolated, DraftFollowsTables
  <2>2. {IdOf[e]} \X (TagsOf[e] \ todo) = TagRows(e)
    BY <2>1 DEF DraftOf, TagRows
  <2>. QED BY <1>1, <2>1, <2>2
           DEF Commit, DraftOf, Ledger!AppendEvent, Ledger!WithSession,
               Ledger!TagRows, Ledger!Upserted, WithSession, TagRows, Upserted
<1>2. UNCHANGED tables => UNCHANGED Ledger!ledgerVars
  BY DEF tables, Ledger!ledgerVars
<1>3. CASE \E e \in Events : Commit(e)
  BY <1>1, <1>3 DEF Ledger!Next
<1>4. CASE ~ \E e \in Events : Commit(e)
  BY <1>2, <1>4 DEF Next, Insert, Start, Begin, InsertRow, InsertRowConflicts,
        InsertRowBusy, InsertTag, UpsertSession, StatementFails, Expire, Crash,
        Done, vars, tables
<1>. QED BY <1>3, <1>4

(* InsertRequest, with its pool, lock, rollbacks, deadlines and crashes,   *)
(* implements the ledger.                                                  *)
THEOREM StoreImplementsLedger == Spec => ImplementsLedger
<1>1. Init => Ledger!Init
  BY DEF Init, Ledger!Init, NoRow, Ledger!NoRow
<1>. QED BY <1>1, StepRefinesLedger, StoreInvariant, PTL
         DEF Spec, ImplementsLedger, Ledger!Spec

-----------------------------------------------------------------------------
(* What a ledger keeps                                                     *)

(* The ledger is an instance, which has copies of the operators of this    *)
(* module: they are equal.                                                 *)
LEMMA LedgerCardinality == \A S : Ledger!Cardinality(S) = Cardinality(S)
BY Zenon DEF Ledger!Cardinality, Cardinality

(* The ledger's summary is that of this module, *)
LEMMA LedgerSummarises ==
  ASSUME NEW row, NEW members
  PROVE  Ledger!Summarises(row, members) <=> Summarises(row, members)
<1>1. Ledger!NoRow = NoRow
  BY Zenon DEF Ledger!NoRow, NoRow
<1>. QED BY <1>1, LedgerCardinality, Zenon DEF Ledger!Summarises, Summarises

(* its members of a session too, *)
LEMMA LedgerMembers ==
  ASSUME NEW s, NEW rows
  PROVE  Ledger!MembersOf(s, rows) = MembersOf(s, rows)
BY Zenon DEF Ledger!MembersOf, MembersOf

(* The ledger's action and promises, in the terms of this module *)
AppendStep(e) ==
  /\ \A f \in requests : IdOf[f] # IdOf[e]
  /\ requests' = requests \cup {e}
  /\ tagRows' = tagRows \cup TagRows(e)
  /\ sessions' = WithSession(sessions, e)

(* and so is what it appends. *)
LEMMA LedgerAppend ==
  ASSUME NEW e \in Events, Ledger!AppendEvent(e)
  PROVE  AppendStep(e)
BY DEF Ledger!AppendEvent, AppendStep, Ledger!WithSession, WithSession,
       Ledger!Upserted, Upserted, Ledger!TagRows, TagRows

Summaries ==
  \A s \in Sessions : Summarises(sessions[s], MembersOf(s, requests))

KnownClients ==
  \A s \in Sessions :
    LET named == {ClientOf[e] : e \in MembersOf(s, requests)} \ {NoClient} IN
    IF named = {} THEN sessions[s].client = NoClient
                  ELSE sessions[s].client \in named

(* The inductive invariant. Cardinality means something only of a finite   *)
(* set, so finiteness of the requests table goes with the summary.         *)
LedgerInv ==
  /\ requests \in SUBSET Events /\ IsFiniteSet(requests)
  /\ sessions \in [Sessions -> SessionRow]
  /\ Ledger!IdsAreUnique
  /\ Summaries
  /\ KnownClients
  /\ tagRows = UNION {TagRows(e) : e \in requests}

(* A session whose row is upserted with an event summarises one event      *)
(* more; the other rows are as they were.                                  *)
LEMMA AppendKeepsSummary ==
  ASSUME LedgerInv, NEW e \in Events, AppendStep(e)
  PROVE  Summaries'
<1>. SUFFICES ASSUME NEW s \in Sessions
     PROVE Summarises(sessions'[s], MembersOf(s, requests'))
  BY DEF Summaries
<1>. DEFINE old == MembersOf(s, requests)
            new == MembersOf(s, requests')
<1>1. /\ sessions[s] \in SessionRow /\ requests \in SUBSET Events
      /\ sessions'[s] = IF s = SessionOf[e] THEN Upserted(sessions[s], e)
                                            ELSE sessions[s]
      /\ requests' = requests \cup {e}
  BY DEF LedgerInv, AppendStep, WithSession
<1>2. Summarises(sessions[s], old)
  BY DEF LedgerInv, Summaries
<1>3. CASE s # SessionOf[e]
  <2>1. new = old
    BY <1>1, <1>3 DEF MembersOf
  <2>. QED BY <1>1, <1>2, <1>3, <2>1
<1>4. CASE s = SessionOf[e]
  <2>1. new = old \cup {e} /\ e \notin old
    BY <1>1, <1>4 DEF AppendStep, MembersOf
  <2>2. IsFiniteSet(old) /\ old \subseteq Events
    BY <1>1, FS_Subset DEF LedgerInv, MembersOf
  <2>3. Cardinality(new) = Cardinality(old) + 1
    BY <2>1, <2>2, FS_AddElement
  <2>4. sessions'[s] = Upserted(sessions[s], e)
    BY <1>1, <1>4
  <2>5. /\ sessions'[s].count = sessions[s].count + 1
        /\ sessions'[s].first =
             IF sessions[s].count > 0 /\ sessions[s].first <= StartOf[e]
             THEN sessions[s].first ELSE StartOf[e]
        /\ sessions'[s].last =
             IF sessions[s].count > 0 /\ sessions[s].last >= FinishOf[e]
             THEN sessions[s].last ELSE FinishOf[e]
    BY <2>4 DEF Upserted
  <2>6. old # {} <=> sessions[s].count > 0
    BY <1>2, <2>2, FS_EmptySet, FS_CardinalityType DEF Summarises
  <2>7. \A f \in Events : StartOf[f] \in Nat /\ FinishOf[f] \in Nat
    BY EventsAssumption
  <2>8. sessions[s].first \in Nat /\ sessions[s].last \in Nat
    BY <1>1 DEF SessionRow
  <2>9. CASE old = {}
    BY <1>2, <2>1, <2>3, <2>5, <2>6, <2>7, <2>9 DEF Summarises
  <2>10. CASE old # {}
    <3>1. \E f \in new : sessions'[s].first = StartOf[f]
      BY <1>2, <2>1, <2>5, <2>6, <2>10 DEF Summarises
    <3>2. \E f \in new : sessions'[s].last = FinishOf[f]
      BY <1>2, <2>1, <2>5, <2>6, <2>10 DEF Summarises
    <3>3. ASSUME NEW f \in new
          PROVE  /\ sessions'[s].first <= StartOf[f]
                 /\ sessions'[s].last >= FinishOf[f]
      <4>1. f \in Events
        BY <2>1, <2>2
      <4>2. CASE f = e
        BY <2>5, <2>6, <2>7, <2>8, <2>10, <4>2
      <4>3. CASE f \in old
        <5>1. sessions[s].first <= StartOf[f] /\ sessions[s].last >= FinishOf[f]
          BY <1>2, <4>3 DEF Summarises
        <5>. QED BY <2>5, <2>6, <2>7, <2>8, <2>10, <4>1, <5>1
      <4>. QED BY <2>1, <4>2, <4>3
    <3>. QED BY <1>2, <2>1, <2>3, <2>5, <3>1, <3>2, <3>3 DEF Summarises
  <2>. QED BY <2>9, <2>10
<1>. QED BY <1>3, <1>4

(* A client is kept until an event names another. *)
LEMMA AppendKeepsClient ==
  ASSUME LedgerInv, NEW e \in Events, AppendStep(e)
  PROVE  KnownClients'
<1>. SUFFICES ASSUME NEW s \in Sessions
     PROVE LET named == {ClientOf[f] : f \in MembersOf(s, requests')} \ {NoClient}
           IN IF named = {} THEN sessions'[s].client = NoClient
                            ELSE sessions'[s].client \in named
  BY DEF KnownClients
<1>. DEFINE old == {ClientOf[f] : f \in MembersOf(s, requests)} \ {NoClient}
            new == {ClientOf[f] : f \in MembersOf(s, requests')} \ {NoClient}
<1>1. /\ sessions'[s] = IF s = SessionOf[e] THEN Upserted(sessions[s], e)
                                            ELSE sessions[s]
      /\ requests' = requests \cup {e}
  BY DEF LedgerInv, AppendStep, WithSession
<1>2. IF old = {} THEN sessions[s].client = NoClient
                  ELSE sessions[s].client \in old
  BY DEF LedgerInv, KnownClients
<1>3. CASE s # SessionOf[e]
  <2>1. new = old
    BY <1>1, <1>3 DEF MembersOf
  <2>. QED BY <1>1, <1>2, <1>3, <2>1
<1>4. CASE s = SessionOf[e]
  <2>1. new = old \cup ({ClientOf[e]} \ {NoClient})
    BY <1>1, <1>4 DEF MembersOf
  <2>2. sessions'[s].client =
          IF ClientOf[e] # NoClient THEN ClientOf[e] ELSE sessions[s].client
    BY <1>1, <1>4 DEF Upserted
  <2>. QED BY <1>2, <2>1, <2>2
<1>. QED BY <1>3, <1>4

(* The promises of the ledger: unique ids, and a sessions table and a tags *)
(* table that are functions of the requests table (upsertSession, the tag  *)
(* loop of InsertRequest).                                                 *)
THEOREM LedgerPromises ==
  Ledger!Spec => [](/\ Ledger!IdsAreUnique /\ SessionsSummarise
                    /\ SessionClientIsKnown /\ TagsAreComplete)
<1>1. Ledger!Init => LedgerInv
  <2>. SUFFICES ASSUME Ledger!Init PROVE LedgerInv
    OBVIOUS
  <2>1. /\ requests = {} /\ tagRows = {}
        /\ sessions = [s \in Sessions |-> NoRow]
    BY DEF Ledger!Init, Ledger!NoRow, NoRow
  <2>2. \A s : MembersOf(s, requests) = {}
    BY <2>1 DEF MembersOf
  <2>3. Summaries
    BY <2>1, <2>2, FS_EmptySet DEF Summaries, Summarises, NoRow
  <2>4. KnownClients
    BY <2>1, <2>2 DEF KnownClients, NoRow
  <2>5. sessions \in [Sessions -> SessionRow]
    BY <2>1 DEF SessionRow, NoRow
  <2>6. requests \in SUBSET Events /\ IsFiniteSet(requests)
    BY <2>1, FS_EmptySet
  <2>7. Ledger!IdsAreUnique /\ tagRows = UNION {TagRows(e) : e \in requests}
    BY <2>1 DEF Ledger!IdsAreUnique
  <2>. QED BY <2>3, <2>4, <2>5, <2>6, <2>7 DEF LedgerInv
<1>2. LedgerInv /\ [Ledger!Next]_(Ledger!ledgerVars) => LedgerInv'
  <2>. SUFFICES ASSUME LedgerInv, [Ledger!Next]_(Ledger!ledgerVars)
       PROVE  LedgerInv'
    OBVIOUS
  <2>1. CASE UNCHANGED Ledger!ledgerVars
    BY <2>1 DEF LedgerInv, Ledger!ledgerVars, Ledger!IdsAreUnique, Summaries,
                KnownClients
  <2>2. CASE Ledger!Next
    <3>1. PICK e \in Events : AppendStep(e)
      BY <2>2, LedgerAppend DEF Ledger!Next
    <3>2. requests' \in SUBSET Events /\ IsFiniteSet(requests')
      BY <3>1, FS_AddElement DEF LedgerInv, AppendStep
    <3>3. sessions' \in [Sessions -> SessionRow]
      BY <3>1, WithSessionType DEF LedgerInv, AppendStep
    <3>4. Ledger!IdsAreUnique'
      BY <3>1 DEF LedgerInv, Ledger!IdsAreUnique, AppendStep
    <3>5. Summaries' /\ KnownClients'
      BY <3>1, AppendKeepsSummary, AppendKeepsClient
    <3>6. (tagRows = UNION {TagRows(f) : f \in requests})'
      BY <3>1 DEF LedgerInv, AppendStep
    <3>. QED BY <3>2, <3>3, <3>4, <3>5, <3>6 DEF LedgerInv
  <2>. QED BY <2>1, <2>2
<1>3. LedgerInv => /\ Ledger!IdsAreUnique /\ SessionsSummarise
                   /\ SessionClientIsKnown /\ TagsAreComplete
  <2>. SUFFICES ASSUME LedgerInv
       PROVE  SessionsSummarise /\ SessionClientIsKnown /\ TagsAreComplete
    BY DEF LedgerInv
  <2>1. SessionsSummarise
    BY LedgerSummarises, LedgerMembers, Zenon
    DEF LedgerInv, Summaries, SessionsSummarise, Ledger!SessionsSummarise
  <2>2. SessionClientIsKnown
    BY LedgerMembers, Zenon DEF LedgerInv, KnownClients, SessionClientIsKnown,
                                Ledger!SessionClientIsKnown
  <2>3. TagsAreComplete
    BY Zenon DEF LedgerInv, TagsAreComplete, Ledger!TagsAreComplete,
                 Ledger!TagRows, TagRows
  <2>. QED BY <2>1, <2>2, <2>3
<1>. QED BY <1>1, <1>2, <1>3, PTL DEF Ledger!Spec

(* With what every ledger keeps, the committed tables always agree: each   *)
(* session counts and spans its committed requests, carries the client     *)
(* type of one of them, and every request has all its tags.                *)
THEOREM StoreTablesAgree ==
  Spec => [](SessionsSummarise /\ SessionClientIsKnown /\ TagsAreComplete)
BY StoreImplementsLedger, LedgerPromises, PTL DEF ImplementsLedger

-----------------------------------------------------------------------------
(* Opening the database                                                    *)

(* Tables and versions are committed together. *)
VersionsFollowTables == db.schema = db.versions

(* What a process has behind it, by its place *)
PlaceFacts(p) ==
  /\ pc[p] \in {"opening", "preparing"} => at[p] = 1
  /\ pc[p] \notin {"opening", "off", "lost", "failed"} => wal
  /\ pc[p] \in InTransaction \cup {"checking", "open"} =>
       registry /\ \A m \in Migrations : m < at[p] => m \in db.versions
  /\ pc[p] = "open" => at[p] > M
  /\ pc[p] \in InTransaction => at[p] \in Migrations
  /\ pc[p] = "recorded" => writer = p

(* The transaction that holds the write lock sees the file and what it has *)
(* written itself: its migration's tables, and then its version.           *)
DraftFacts(p) ==
  writer = p =>
    /\ pc[p] \in {"applied", "recorded"}
    /\ written.schema = db.schema \cup {at[p]}
    /\ written.versions = IF pc[p] = "recorded" THEN db.versions \cup {at[p]}
                                              ELSE db.versions

(* A migration that was lost has been recorded by whoever won; a process   *)
(* that runs one has seen that it was not.                                 *)
LostFacts(p) ==
  /\ lost[p] \subseteq db.versions
  /\ pc[p] \in InTransaction => at[p] \notin lost[p]

OpeningInv ==
  /\ OpeningTypeOK
  /\ VersionsFollowTables
  /\ \A p \in Processes : PlaceFacts(p) /\ DraftFacts(p) /\ LostFacts(p)

(* Nothing is drafted at first. *)
LEMMA OpeningStarts == OpeningInit => OpeningInv
<1>. SUFFICES ASSUME OpeningInit PROVE OpeningInv
  OBVIOUS
<1>. USE OpeningAssumption DEF OpeningInit
<1>1. PICK k \in 0 .. M : /\ db = [schema |-> 1 .. k, versions |-> 1 .. k]
                          /\ wal = (k > 0) /\ registry = (k > 0)
  OBVIOUS
<1>2. 1 .. k \subseteq Migrations
  BY DEF Migrations
<1>3. wal \in BOOLEAN /\ registry \in BOOLEAN
  BY <1>1
<1>4. OpeningTypeOK
  BY <1>1, <1>2, <1>3 DEF OpeningTypeOK, Migrated, Finished
<1>5. VersionsFollowTables
  BY <1>1 DEF VersionsFollowTables
<1>6. ASSUME NEW p \in Processes
      PROVE  PlaceFacts(p) /\ DraftFacts(p) /\ LostFacts(p)
  BY DEF PlaceFacts, DraftFacts, LostFacts, InTransaction
<1>. QED BY <1>4, <1>5, <1>6 DEF OpeningInv

(* The steps that leave the committed migrations and the draft alone       *)
LEMMA QuietStepsKeepInv ==
  ASSUME OpeningInv, NEW p \in Processes,
         \/ StartOpening(p) \/ ApplyPragmas(p) \/ EnsureRegistry(p) \/ Skip(p)
         \/ BeginMigration(p) \/ Opened(p) \/ LockTimeout(p) \/ Fail(p)
         \/ Close(p) \/ Conflict(p)
  PROVE  OpeningInv'
<1>. USE OpeningAssumption DEF OpeningInv, OpeningTypeOK, Migrations, Opening, Finished,
                                InTransaction, file
<1>1. /\ db' = db /\ written' = written
      /\ wal' \in BOOLEAN /\ (wal => wal')
      /\ registry' \in BOOLEAN /\ (registry => registry')
      /\ writer' = writer \/ (writer = p /\ writer' = NoProcess /\ pc'[p] = "failed")
  BY DEF StartOpening, ApplyPragmas, EnsureRegistry, Skip, BeginMigration, Opened,
         LockTimeout, Fail, Close, Conflict, Move, Release
<1>2. /\ pc' = [pc EXCEPT ![p] = pc'[p]] /\ pc'[p] \in Opening \cup Finished
      /\ at' = [at EXCEPT ![p] = at'[p]] /\ at'[p] \in 1 .. M + 1
      /\ starts' = [starts EXCEPT ![p] = starts'[p]]
      /\ starts'[p] \in 0 .. MaxStarts
      /\ lost' = [lost EXCEPT ![p] = lost'[p]] /\ lost'[p] \subseteq Migrations
  <2>1. CASE StartOpening(p)
    BY <2>1 DEF StartOpening
  <2>2. CASE Skip(p)
    BY <2>2 DEF Skip
  <2>3. CASE Conflict(p)
    <3>1. at[p] \in Migrations
      BY <2>3 DEF Conflict, PlaceFacts
    <3>2. lost' = [lost EXCEPT ![p] = lost'[p]] /\ lost'[p] \subseteq Migrations
      BY <2>3, <3>1 DEF Conflict
    <3>. QED BY <2>3, <3>2 DEF Conflict
  <2>4. CASE \/ ApplyPragmas(p) \/ EnsureRegistry(p) \/ BeginMigration(p)
             \/ Opened(p) \/ LockTimeout(p) \/ Fail(p) \/ Close(p)
    BY <2>4 DEF ApplyPragmas, EnsureRegistry, BeginMigration, Opened,
                LockTimeout, Fail, Close, Move
  <2>. QED BY <2>1, <2>2, <2>3, <2>4
<1>3. OpeningTypeOK' /\ VersionsFollowTables'
  BY <1>1, <1>2 DEF VersionsFollowTables
<1>4. ASSUME NEW q \in Processes \ {p}
      PROVE  (PlaceFacts(q) /\ DraftFacts(q) /\ LostFacts(q))'
  <2>1. pc'[q] = pc[q] /\ at'[q] = at[q] /\ lost'[q] = lost[q]
    BY <1>2
  <2>2. writer' = q <=> writer = q
    BY <1>1
  <2>3. PlaceFacts(q) /\ DraftFacts(q) /\ LostFacts(q)
    OBVIOUS
  <2>4. PlaceFacts(q)'
    BY <1>1, <2>1, <2>2, <2>3 DEF PlaceFacts
  <2>5. DraftFacts(q)' /\ LostFacts(q)'
    BY <1>1, <2>1, <2>2, <2>3 DEF DraftFacts, LostFacts
  <2>. QED BY <2>4, <2>5
<1>5. PlaceFacts(p)'
  <2>1. CASE StartOpening(p)
    BY <2>1 DEF PlaceFacts, StartOpening
  <2>2. CASE ApplyPragmas(p)
    BY <2>2 DEF PlaceFacts, ApplyPragmas, Move
  <2>3. CASE EnsureRegistry(p)
    BY <2>3 DEF PlaceFacts, EnsureRegistry, Move
  <2>4. CASE Skip(p)
    BY <2>4 DEF PlaceFacts, Skip, MigrationApplied
  <2>5. CASE BeginMigration(p) \/ Opened(p)
    BY <2>5 DEF PlaceFacts, BeginMigration, Opened, Move
  <2>6. CASE LockTimeout(p) \/ Fail(p) \/ Close(p) \/ Conflict(p)
    BY <2>6 DEF PlaceFacts, LockTimeout, Fail, Close, Conflict, Move
  <2>. QED BY <2>1, <2>2, <2>3, <2>4, <2>5, <2>6
<1>6. DraftFacts(p)'
  <2>1. writer' # p
    <3>1. CASE Fail(p)
      BY <3>1 DEF Fail, Release
    <3>2. CASE LockTimeout(p) \/ Conflict(p)
      BY <3>2 DEF LockTimeout, Conflict
    <3>3. CASE \/ StartOpening(p) \/ ApplyPragmas(p) \/ EnsureRegistry(p) \/ Skip(p)
               \/ BeginMigration(p) \/ Opened(p) \/ Close(p)
      BY <3>3 DEF DraftFacts, StartOpening, ApplyPragmas, EnsureRegistry, Skip,
                  BeginMigration, Opened, Close, Move
    <3>. QED BY <3>1, <3>2, <3>3
  <2>. QED BY <2>1 DEF DraftFacts
<1>7. LostFacts(p)'
  BY <1>1 DEF LostFacts, StartOpening, ApplyPragmas, EnsureRegistry, Skip,
         MigrationApplied, BeginMigration, Opened, LockTimeout, Fail, Close,
         Conflict, Move
<1>. QED BY <1>3, <1>4, <1>5, <1>6, <1>7

(* The steps of a transaction that write *)
LEMMA WritingStepsKeepInv ==
  ASSUME OpeningInv, NEW p \in Processes,
         ApplyMigration(p) \/ RecordMigration(p) \/ CommitMigration(p)
  PROVE  OpeningInv'
<1>. USE OpeningAssumption DEF OpeningInv, OpeningTypeOK, Migrations, Opening, Finished,
                                InTransaction, file, Migrated
<1>1. CASE ApplyMigration(p)
  <2>1. OpeningTypeOK' /\ VersionsFollowTables'
    BY <1>1 DEF ApplyMigration, Move, VersionsFollowTables, PlaceFacts
  <2>2. ASSUME NEW q \in Processes PROVE PlaceFacts(q)' /\ LostFacts(q)'
    BY <1>1, <2>2 DEF ApplyMigration, Move, PlaceFacts, LostFacts
  <2>3. ASSUME NEW q \in Processes PROVE DraftFacts(q)'
    BY <1>1, <2>3 DEF ApplyMigration, Move, DraftFacts, PlaceFacts
  <2>. QED BY <2>1, <2>2, <2>3
<1>2. CASE RecordMigration(p)
  <2>1. OpeningTypeOK' /\ VersionsFollowTables'
    BY <1>2 DEF RecordMigration, Move, VersionsFollowTables, PlaceFacts
  <2>2. ASSUME NEW q \in Processes PROVE PlaceFacts(q)' /\ LostFacts(q)'
    BY <1>2, <2>2 DEF RecordMigration, Move, PlaceFacts, LostFacts
  <2>3. ASSUME NEW q \in Processes PROVE DraftFacts(q)'
    BY <1>2, <2>3 DEF RecordMigration, Move, DraftFacts, PlaceFacts
  <2>. QED BY <2>1, <2>2, <2>3
<1>3. CASE CommitMigration(p)
  <2>1. /\ writer = p /\ at[p] \in Migrations /\ db' = written
        /\ written.schema = db.schema \cup {at[p]}
        /\ written.versions = db.versions \cup {at[p]}
    BY <1>3 DEF CommitMigration, Move, PlaceFacts, DraftFacts
  <2>2. OpeningTypeOK' /\ VersionsFollowTables'
    BY <1>3, <2>1 DEF CommitMigration, Move, Release, VersionsFollowTables
  <2>3. ASSUME NEW q \in Processes PROVE PlaceFacts(q)'
    BY <1>3, <2>1, <2>3 DEF CommitMigration, Move, Release, PlaceFacts
  <2>4. ASSUME NEW q \in Processes PROVE DraftFacts(q)' /\ LostFacts(q)'
    BY <1>3, <2>1, <2>4 DEF CommitMigration, Move, Release, DraftFacts, LostFacts
  <2>. QED BY <2>2, <2>3, <2>4
<1>. QED BY <1>1, <1>2, <1>3

(* The inductive invariant of opening *)
THEOREM OpeningInvariant == OpeningSpec => []OpeningInv
<1>1. OpeningInv /\ [OpeningNext]_openingVars => OpeningInv'
  <2>. SUFFICES ASSUME OpeningInv, [OpeningNext]_openingVars PROVE OpeningInv'
    OBVIOUS
  <2>1. CASE UNCHANGED openingVars
    BY <2>1 DEF openingVars, file, OpeningInv, OpeningTypeOK, VersionsFollowTables,
                PlaceFacts, DraftFacts, LostFacts
  <2>2. CASE OpeningsDone
    BY <2>1, <2>2 DEF OpeningsDone
  <2>3. CASE OpeningNext /\ ~OpeningsDone
    BY <2>3, QuietStepsKeepInv, WritingStepsKeepInv DEF OpeningNext, Migrate
  <2>. QED BY <2>1, <2>2, <2>3
<1>. QED BY <1>1, OpeningStarts, PTL DEF OpeningSpec

(* However many processes migrate at once, fail and are started again, one *)
(* that has opened the store finds every table and version (app.OpenStore).*)
THEOREM OpenedStoresAreCurrent == OpeningSpec => []OpenedIsCurrent
<1>1. OpeningInv => OpenedIsCurrent
  <2>. SUFFICES ASSUME OpeningInv, NEW p \in Processes, pc[p] = "open"
       PROVE  /\ wal /\ registry
              /\ db = [schema |-> Migrations, versions |-> Migrations]
    BY DEF OpenedIsCurrent
  <2>1. wal /\ registry /\ Migrations \subseteq db.versions
    BY OpeningAssumption DEF OpeningInv, PlaceFacts, OpeningTypeOK, Migrations
  <2>. QED BY <2>1 DEF OpeningInv, OpeningTypeOK, Migrated, VersionsFollowTables
<1>. QED BY <1>1, OpeningInvariant, PTL

(* A process that lost a race and is started again does not lose the same  *)
(* one (migrationApplied).                                                 *)
THEOREM RacesAreLostOnce == OpeningSpec => LosesARaceOnce
<1>1. OpeningInv /\ [OpeningNext]_openingVars =>
        [\A p \in Processes :
           (pc[p] # "lost" /\ pc'[p] = "lost") => at[p] \notin lost[p]]_openingVars
  <2>. SUFFICES ASSUME OpeningInv, OpeningNext, NEW p \in Processes,
                       pc[p] # "lost", pc'[p] = "lost"
       PROVE  at[p] \notin lost[p]
    BY DEF LosesARaceOnce
  <2>1. pc[p] \in InTransaction
    BY DEF OpeningInv, OpeningTypeOK, OpeningNext, Migrate, StartOpening, ApplyPragmas,
           EnsureRegistry, Skip, BeginMigration, ApplyMigration,
           RecordMigration, CommitMigration, Opened, LockTimeout, Fail, Close,
           Conflict, OpeningsDone, openingVars, Move, InTransaction
  <2>. QED BY <2>1 DEF OpeningInv, LostFacts
<1>. QED BY <1>1, OpeningInvariant, PTL DEF OpeningSpec, LosesARaceOnce
=============================================================================
