----------------------------- MODULE UsageReads -----------------------------
(***************************************************************************)
(* The read side: what the dashboard's API (internal/api) and "tail",      *)
(* "export" and "stats" (internal/cli) answer from the store while the     *)
(* proxy appends to it. The store is the ledger RequestStore implements. A *)
(* query sees one state of it; a call runs several queries, without a      *)
(* transaction around them (internal/storage/sqlite.go).                   *)
(*                                                                         *)
(* Calls do not change what they read, so one at a time is enough.         *)
(***************************************************************************)
EXTENDS UsageLedger, SequencesExt

CONSTANTS
  Listeners, ListenerOf,   \* the listener an event came through
  Filters,                 \* the filters of the callers
  BreakdownLimit,          \* LIMIT 10 of a breakdown
  SessionsLimit,           \* the 50 sessions of a list without a limit
  OverviewLimit,           \* the five sessions and requests of an overview,
                           \* and of "stats"
  DetailLimit,             \* the 100 requests of a session's page
  DayStart, WeekStart, Now \* analytics.DefaultWindow for "stats"

RequestFilter ==
  [session : Sessions \cup {NoSession}, client : Clients \cup {NoClient},
   after : Nat, before : Nat, limit : Nat, offset : Nat]

ASSUME ReadsAssumption ==
  /\ ListenerOf \in [Events -> Listeners] /\ NoClient \notin Listeners
  /\ IsFiniteSet(Listeners)
  /\ {DayStart, WeekStart, Now} \subseteq Nat \ {0}
  /\ WeekStart <= DayStart /\ DayStart <= Now
  /\ {BreakdownLimit, SessionsLimit, OverviewLimit, DetailLimit} \subseteq Nat \ {0}
  /\ Filters \subseteq RequestFilter

VARIABLES
  call,     \* the kind of call being served, and its filter
  todo,     \* the queries it has still to run, in order
  answer,   \* what its queries have returned
  begun     \* history: the events stored when the call began

readVars == <<call, todo, answer, begun>>
vars == <<ledgerVars, readVars>>

(* Two of the five breakdowns: by a column that is never blank, and by one *)
(* that may be. The others are read in the same way.                       *)
Columns == {"listener_name", "client_type"}

Key(e, column) ==
  IF column = "listener_name" THEN ListenerOf[e] ELSE ClientOf[e]

(* The zero filter but for a limit; zero and blank fields stand for none.  *)
Everything(limit) ==
  [session |-> NoSession, client |-> NoClient, after |-> 0, before |-> 0,
   limit |-> limit, offset |-> 0]

OfSession(s, f) == [f EXCEPT !.session = s]
Since(start)    == [Everything(0) EXCEPT !.after = start, !.before = Now]

(* buildRequestWhere *)
Matching(f) ==
  {e \in stored : /\ f.session \in {NoSession, SessionOf[e]}
                  /\ f.client \in {NoClient, ClientOf[e]}
                  /\ f.after = 0 \/ StartOf[e] >= f.after
                  /\ f.before = 0 \/ StartOf[e] < f.before}

(* ORDER BY ... LIMIT n: the choices of n first elements; the order of     *)
(* equals is the database's.                                               *)
Firsts(S, Before(_, _), n) ==
  {T \in kSubset(IF Cardinality(S) < n THEN Cardinality(S) ELSE n, S) :
     \A t \in T, s \in S \ T : ~Before(s, t)}

Tokens(es) == MapThenSumSet(LAMBDA e : TokensOf[e], es)

-----------------------------------------------------------------------------
(* Queries, as functions of the tables *)

Totals(f) == [count |-> Cardinality(Matching(f)), tokens |-> Tokens(Matching(f)),
              active |-> Cardinality({SessionOf[e] : e \in Matching(f)}
                                       \ {NoSession})]

(* breakdown: GROUP BY column, without the blank key *)
Groups(f, column) ==
  {LET es == {e \in Matching(f) : Key(e, column) = k} IN
     [key |-> k, count |-> Cardinality(es), tokens |-> Tokens(es)] :
   k \in {Key(e, column) : e \in Matching(f)} \ {NoClient}}

Larger(g, h) ==
  g.tokens > h.tokens \/ (g.tokens = h.tokens /\ g.count > h.count)

(* Fault: the clause session_id <> '' is left out *)
SessionGroupsWithBlank(f) ==
  {LET es == MembersOf(s, Matching(f)) IN
     [id |-> s, count |-> Cardinality(es), tokens |-> Tokens(es),
      clients |-> {}] :
   s \in {SessionOf[e] : e \in Matching(f)}}

(* ListSessions: GROUP BY session_id *)
SessionGroups(f) ==
  {LET es == MembersOf(s, Matching(f)) IN
     [id |-> s, count |-> Cardinality(es), tokens |-> Tokens(es),
      clients |-> {}] :
   s \in {SessionOf[e] : e \in Matching(f)} \ {NoSession}}

(* loadDistinctSessionValues, for one of its four columns *)
DistinctClients(s, f) ==
  {ClientOf[e] : e \in Matching(OfSession(s, f))} \ {NoClient}

(* Fault: the first of several values is shown *)
SingleClientFirst(item) ==
  IF item.clients # {} THEN CHOOSE c \in item.clients : TRUE ELSE NoClient

(* singleValueOrEmpty: what a session is shown with *)
SingleClient(item) ==
  IF Cardinality(item.clients) = 1 THEN CHOOSE c \in item.clients : TRUE
                                   ELSE NoClient

Newer(e, f) == StartOf[e] > StartOf[f]

-----------------------------------------------------------------------------
(* Plans *)

Query(name, f, of) == [name |-> name, filter |-> f, of |-> of]

On(name, f) == Query(name, f, NoSession)
Breakdown(f, column) == Query("breakdown", f, column)

(* Fault: the totals are read last *)
SummaryPlanTotalsLast(f) ==
  <<Breakdown(f, "listener_name"), Breakdown(f, "client_type"),
    On("totals", f)>>

SummaryPlan(f) ==
  <<On("totals", f),
    Breakdown(f, "listener_name"), Breakdown(f, "client_type")>>

(* handleSessionByID: GetSession, then ListRequests *)
SessionPlan(s) ==
  <<Query("row", Everything(0), s),
    Query("clients", Everything(0), s),
    Query("requests", OfSession(s, Everything(DetailLimit)), NoSession)>>

All    == Everything(0)
Recent == Everything(OverviewLimit)

(* desktopOverview: a summary, then the recent sessions and requests *)
OverviewPlan ==
  <<On("totals", All),
    Breakdown(All, "listener_name"), Breakdown(All, "client_type"),
    On("sessions", Recent), On("requests", Recent)>>

(* Fault: the trend is read before the windows it is shown under *)
StatsPlanTrendFirst ==
  <<On("totals", All),
    Breakdown(All, "listener_name"), Breakdown(All, "client_type"),
    On("rows", Since(WeekStart)),
    On("totals", Since(DayStart)), On("totals", Since(WeekStart)),
    On("rows", Since(WeekStart)),
    On("sessions", Recent), On("requests", Recent)>>

(* loadStatsSnapshot: summaries of all of the time, a day and a week; the  *)
(* trend and the heatmap of that week; the recent sessions and requests.   *)
(* The breakdowns of a day and a week are read too, and not shown.         *)
StatsPlan ==
  <<On("totals", All),
    Breakdown(All, "listener_name"), Breakdown(All, "client_type"),
    On("totals", Since(DayStart)), On("totals", Since(WeekStart)),
    On("rows", Since(WeekStart)), On("rows", Since(WeekStart)),
    On("sessions", Recent), On("requests", Recent)>>

Plan(kind, f) ==
  CASE kind = "summary"  -> SummaryPlan(f)
    [] kind = "sessions" -> <<On("sessions", f)>>
    [] kind = "requests" -> <<On("requests", f)>>
    [] kind = "session"  -> SessionPlan(f.session)
    [] kind = "overview" -> OverviewPlan
    [] kind = "stats"    -> StatsPlan

Kinds == {"summary", "sessions", "requests", "session", "overview", "stats"}

NoAnswer ==
  [totals |-> <<>>,
   breakdown |-> [c \in Columns |-> {}],
   sessions |-> {}, requests |-> {}, tags |-> [e \in Events |-> {}]]

NoCall == [kind |-> "none", filter |-> Everything(0)]

ReadsInit ==
  /\ Init
  /\ call = NoCall /\ todo = <<>> /\ answer = NoAnswer /\ begun = {}

-----------------------------------------------------------------------------
Commit(e) == AppendEvent(e) /\ UNCHANGED readVars

(* The overview, the page of a session and "stats" fix their own filters. *)
FilterOf(kind, f) ==
  CASE kind \in {"overview", "stats"} -> Everything(OverviewLimit)
    [] kind = "session" -> OfSession(f.session, Everything(DetailLimit))
    [] OTHER -> f

(* A handler starts; a window that ends before it begins is refused.       *)
Call(kind, f) ==
  /\ call = NoCall
  /\ f.after = 0 \/ f.before = 0 \/ f.after < f.before
  /\ kind = "session" => f.session # NoSession
  /\ call' = [kind |-> kind, filter |-> FilterOf(kind, f)]
  /\ todo' = Plan(kind, f) /\ answer' = NoAnswer /\ begun' = stored
  /\ UNCHANGED ledgerVars

(* A query of the call is run, and "more" before the rest of the call. *)
Run(name, more) ==
  /\ Head(todo).name = name
  /\ todo' = more \o Tail(todo)
  /\ UNCHANGED <<ledgerVars, call, begun>>

ReadTotals(q) ==
  /\ Run("totals", <<>>)
  /\ answer' = [answer EXCEPT !.totals = Append(@, Totals(q.filter))]

(* analyticsRows, for a chart or a heatmap, in which all of them are drawn *)
(* when the window fits (AnalyticsWindows)                                 *)
ReadRows(q) ==
  /\ Run("rows", <<>>)
  /\ answer' = [answer EXCEPT !.totals = Append(@, Totals(q.filter))]

ReadBreakdown(q) ==
  /\ Run("breakdown", <<>>)
  /\ \E listed \in Firsts(Groups(q.filter, q.of), Larger, BreakdownLimit) :
       answer' = [answer EXCEPT !.breakdown[q.of] = listed]

(* The row GetSession scans; without one the call fails (404). *)
ReadRow(q) ==
  /\ Run("row", <<>>)
  /\ sessions[q.of].count > 0
  /\ answer' = [answer EXCEPT !.sessions =
       {[id |-> q.of, count |-> sessions[q.of].count,
         tokens |-> sessions[q.of].tokens, clients |-> {}]}]

ReadSessions(q) ==
  /\ q.name = "sessions"
  /\ \E listed \in Firsts(SessionGroups(q.filter), Larger,
                          IF q.filter.limit = 0 THEN SessionsLimit
                          ELSE q.filter.limit) :
       /\ Run("sessions", SetToSeq({Query("clients", q.filter, item.id) :
                                         item \in listed}))
       /\ answer' = [answer EXCEPT !.sessions = listed]

(* hydrateSessionSummary *)
ReadClients(q) ==
  /\ Run("clients", <<>>)
  /\ answer' = [answer EXCEPT !.sessions =
       {IF item.id = q.of
        THEN [item EXCEPT !.clients = DistinctClients(q.of, q.filter)]
        ELSE item : item \in @}]

(* ListRequests; a limit of 0 is none, and then there is no offset. *)
ReadRequests(q) ==
  LET all == Matching(q.filter) IN
  /\ q.name = "requests"
  /\ \E skipped \in Firsts(all, Newer, IF q.filter.limit = 0 THEN 0
                                       ELSE q.filter.offset) :
     \E listed \in Firsts(all \ skipped, Newer,
                          IF q.filter.limit = 0 THEN Cardinality(all)
                          ELSE q.filter.limit) :
       /\ Run("requests", SetToSeq({Query("tags", q.filter, e) :
                                         e \in listed}))
       /\ answer' = [answer EXCEPT !.requests = listed]

(* loadTags *)
ReadTags(q) ==
  /\ Run("tags", <<>>)
  /\ answer' = [answer EXCEPT !.tags[q.of] =
       {r[2] : r \in {t \in tagRows : t[1] = IdOf[q.of]}}]

EndCall ==
  /\ call' = NoCall /\ todo' = <<>> /\ answer' = NoAnswer /\ begun' = {}
  /\ UNCHANGED ledgerVars

Reply == call # NoCall /\ todo = <<>> /\ EndCall

(* A query fails, and with it the call. *)
Fail == todo # <<>> /\ EndCall

ReadsNext ==
  \/ \E e \in Events : Commit(e)
  \/ \E kind \in Kinds, f \in Filters : Call(kind, f)
  \/ /\ todo # <<>>
     /\ LET q == Head(todo) IN
        \/ ReadTotals(q) \/ ReadRows(q) \/ ReadBreakdown(q) \/ ReadRow(q)
        \/ ReadSessions(q) \/ ReadClients(q) \/ ReadRequests(q) \/ ReadTags(q)
  \/ Reply \/ Fail

ReadsSpec == ReadsInit /\ [][ReadsNext]_vars

-----------------------------------------------------------------------------
(* Properties *)

Answered(kind) == call.kind = kind /\ todo = <<>>

Total == answer.totals[1].count

SumOfCounts(groups) == MapThenSumSet(LAMBDA g : g.count, groups)

ReadsTypeOK ==
  /\ TypeOK
  /\ call = NoCall \/ \E kind \in Kinds, f \in Filters :
                        call = [kind |-> kind, filter |-> FilterOf(kind, f)]
  /\ begun \subseteq stored
  /\ answer.requests \subseteq stored
  /\ \A e \in Events : answer.tags[e] \subseteq TagKeys
  /\ \A item \in answer.sessions : /\ item.id \in Sessions /\ item.count > 0
                                   /\ item.clients \subseteq Clients
  /\ \A column \in Columns :
       Cardinality(answer.breakdown[column]) <= BreakdownLimit

(* The token total of a session's page, which is kept in a table of its    *)
(* own, is the sum over the session's requests that a list of sessions     *)
(* shows (upsertSession, GetSession, ListSessions).                        *)
SessionTokensAddUp ==
  \A s \in Sessions : sessions[s].tokens = Tokens(MembersOf(s, stored))

(* What a summary has counted in its total is in the breakdown by listener *)
(* too, whatever is committed between the two queries, unless LIMIT cuts   *)
(* the breakdown off; and it adds up exactly, the blank client types left  *)
(* aside, when nothing is committed meanwhile (UsageSummary).              *)
SummaryMissesNothing ==
  LET counted(column) == SumOfCounts(answer.breakdown[column]) IN
  (/\ Answered("summary") \/ Answered("overview") \/ Answered("stats")
   /\ Cardinality(Listeners) <= BreakdownLimit)
  => /\ counted("listener_name") >= Total
     /\ begun = stored =>
          /\ counted("listener_name") = Total
          /\ counted("client_type") <= Total

(* What is read row by row after a list is whole: a request comes with all *)
(* of its tags, and a session that is shown with one client type has no    *)
(* request of another one among those the call could count (ListRequests,  *)
(* hydrateSessionSummary).                                                 *)
ListsAreWhole ==
  (todo = <<>>) =>
    /\ \A e \in answer.requests : answer.tags[e] = TagsOf[e]
    /\ \A item \in answer.sessions :
         SingleClient(item) # NoClient =>
           \A e \in MembersOf(item.id, begun) :
             ClientOf[e] \in {NoClient, SingleClient(item)}
               \/ e \notin Matching(call.filter)

(* The parts of one page agree although each is another query. A session  *)
(* lists as many requests as its heading counts, which comes from another  *)
(* table, up to the limit (handleSessionByID). An overview or a report     *)
(* that counts a request shows some: "No activity yet" is never beside a   *)
(* positive count (desktopOverview). In a report a day has no more than    *)
(* its week, and that no more than the trend and the heatmap below it:     *)
(* "No activity recorded in the last 7 days" is never under a positive     *)
(* "Last 7d" (loadStatsSnapshot).                                          *)
PagesAgree ==
  /\ Answered("session") =>
       \A item \in answer.sessions :
         \/ Cardinality(answer.requests) >= item.count
         \/ Cardinality(answer.requests) = DetailLimit
  /\ (Answered("overview") \/ Answered("stats")) /\ Total > 0 =>
       answer.sessions # {} \/ answer.requests # {}
  /\ Answered("stats") =>
       \A i \in 2 .. 4 : answer.totals[i].count <= answer.totals[i + 1].count
=============================================================================
