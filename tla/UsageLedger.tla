----------------------------- MODULE UsageLedger -----------------------------
(***************************************************************************)
(* What the store promises: a ledger to which whole events are appended,   *)
(* one at a time. An append adds the event's row, all its tags and its     *)
(* share of its session in one step; nothing else ever changes, and an id  *)
(* is never used twice.                                                    *)
(***************************************************************************)
EXTENDS UsageEvents

VARIABLES
  stored,     \* the events in the requests table
  tagRows,    \* the rows of request_tags
  sessions    \* the sessions table

ledgerVars == <<stored, tagRows, sessions>>

Init ==
  /\ stored = {}
  /\ tagRows = {}
  /\ sessions = [s \in Sessions |-> NoRow]

AppendEvent(e) ==
  /\ \A f \in stored : IdOf[f] # IdOf[e]
  /\ stored' = stored \cup {e}
  /\ tagRows' = tagRows \cup TagRows(e)
  /\ sessions' = WithSession(sessions, e)

Next == \E e \in Events : AppendEvent(e)

Spec == Init /\ [][Next]_ledgerVars

-----------------------------------------------------------------------------
TypeOK ==
  /\ stored \in SUBSET Events
  /\ tagRows \in SUBSET ({IdOf[e] : e \in Events} \X TagKeys)
  /\ sessions \in [Sessions -> SessionRow]

(* A request id names one event. *)
IdsAreUnique == \A e, f \in stored : IdOf[e] = IdOf[f] => e = f

(* The sessions table is the summary of the requests table: every session  *)
(* counts its events, and spans them from first start to last finish.      *)
SessionsSummarise ==
  \A s \in Sessions : Summarises(sessions[s], MembersOf(s, stored))

(* A session has a client type as soon as one of its events has one, and   *)
(* then it is the client type of one of its events.                        *)
SessionClientIsKnown ==
  \A s \in Sessions :
    LET named == {ClientOf[e] : e \in MembersOf(s, stored)} \ {NoClient} IN
    IF named = {} THEN sessions[s].client = NoClient
                  ELSE sessions[s].client \in named

(* The tag rows are those of the stored events, all of them. *)
TagsAreComplete == tagRows = UNION {TagRows(e) : e \in stored}
=============================================================================
