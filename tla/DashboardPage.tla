---------------------------- MODULE DashboardPage ----------------------------
(***************************************************************************)
(* The dashboard's page (web/static/app.js): loads that overlap, the token *)
(* that tells which of them counts, and clicks that draw again what is     *)
(* there. The store grows meanwhile; a version of it stands for its rows,  *)
(* and each of the six answers of a load shows the version it was read at. *)
(*                                                                         *)
(* Each handler, and what follows an await, runs alone. The contributor is *)
(* a choice like the metric, which stands for both; charts, tables and     *)
(* texts are functions of the data and the choices and are left out.       *)
(***************************************************************************)
EXTENDS Naturals

CONSTANTS
  Ranges, Metrics,   \* the choices of the controls
  Answers,           \* the requests of one load
  MaxLoads,          \* bound on the loads
  MaxVersion         \* bound on the versions of the store

ASSUME PageAssumption ==
  /\ "day" \in Ranges /\ "none" \notin Ranges /\ "tokens" \in Metrics
  /\ Answers # {}
  /\ MaxLoads \in Nat \ {0} /\ MaxVersion \in Nat \ {0}

VARIABLES
  version,        \* of the store
  range, metric,  \* state.range, state.metric
  data,           \* state.data
  requestToken,   \* state.requestToken
  loads,          \* the loads in flight, by their token
  pill,           \* the status
  shown,          \* what the panels hold
  buttons         \* the choices that are marked as active, and drawn

vars == <<version, range, metric, data, requestToken, loads, pill, shown,
          buttons>>

Tokens == 1 .. MaxLoads
Unanswered == 0

(* What a load has got so far: the version of each answer *)
Load(r) == [range |-> r, seen |-> [a \in Answers |-> Unanswered]]
Nothing == Load("none")

InFlight(t) == loads[t] # Nothing

-----------------------------------------------------------------------------
(* The store, and the server's side of a load *)

StoreGrows ==
  /\ version < MaxVersion
  /\ version' = version + 1
  /\ UNCHANGED <<range, metric, data, requestToken, loads, pill, shown, buttons>>

Serve(t, a) ==
  /\ InFlight(t) /\ loads[t].seen[a] = Unanswered
  /\ loads' = [loads EXCEPT ![t].seen[a] = version]
  /\ UNCHANGED <<version, range, metric, data, requestToken, pill, shown, buttons>>

-----------------------------------------------------------------------------
(* loadDashboard *)

(* Fault: a new load leaves the status of the last one *)
LoadDashboardQuietly(r) ==
  /\ requestToken < MaxLoads
  /\ requestToken' = requestToken + 1
  /\ loads' = [loads EXCEPT ![requestToken'] = Load(r)]
  /\ UNCHANGED <<pill, version, metric, data, shown, buttons>>

LoadDashboard(r) ==
  /\ requestToken < MaxLoads
  /\ requestToken' = requestToken + 1
  /\ loads' = [loads EXCEPT ![requestToken'] = Load(r)]
  /\ pill' = "loading"
  /\ UNCHANGED <<version, metric, data, shown, buttons>>

(* Fault: every load that ends counts *)
CurrentAlways(t) == TRUE

Current(t) == t = requestToken

(* Promise.all *)
Answered(t) == \A a \in Answers : loads[t].seen[a] # Unanswered

(* renderDashboard *)
RenderDashboard(m) == /\ shown' = "data"
                      /\ buttons' = [range |-> range, metric |-> m]

LoadEnds(t) ==
  /\ InFlight(t) /\ Answered(t)
  /\ loads' = [loads EXCEPT ![t] = Nothing]
  /\ IF Current(t)
     THEN data' = loads[t] /\ pill' = "ready" /\ RenderDashboard(metric)
     ELSE UNCHANGED <<data, pill, shown, buttons>>
  /\ UNCHANGED <<version, range, metric, requestToken>>

(* An answer is an error or does not come; the others are not waited for,  *)
(* and the data of an earlier load are kept.                               *)
LoadFails(t) ==
  /\ InFlight(t)
  /\ loads' = [loads EXCEPT ![t] = Nothing]
  /\ IF Current(t) THEN pill' = "error" /\ shown' = "error"
                   ELSE UNCHANGED <<pill, shown>>
  /\ UNCHANGED <<version, range, metric, data, requestToken, buttons>>

-----------------------------------------------------------------------------
(* boot and bindControls *)

Init ==
  /\ version = 1 /\ range = "day" /\ metric = "tokens"
  /\ data = Nothing /\ requestToken = 1
  /\ loads = [t \in Tokens |-> IF t = 1 THEN Load("day") ELSE Nothing]
  /\ pill = "loading" /\ shown = "markup"
  /\ buttons = [range |-> "day", metric |-> "tokens"]

(* setInterval, every 30 s *)
Interval == LoadDashboard(range) /\ UNCHANGED range

ChooseRange(r) ==
  /\ r # range
  /\ range' = r
  /\ LoadDashboard(r)

(* Data that are there are drawn again, also while other data are loaded,  *)
(* and also over an error.                                                 *)
ChooseMetric(m) ==
  /\ metric' = m
  /\ IF data # Nothing THEN RenderDashboard(m) ELSE UNCHANGED <<shown, buttons>>
  /\ UNCHANGED <<version, range, data, requestToken, loads, pill>>

Next ==
  \/ StoreGrows \/ Interval
  \/ \E t \in Tokens : \/ LoadEnds(t) \/ LoadFails(t)
                       \/ \E a \in Answers : Serve(t, a)
  \/ \E r \in Ranges : ChooseRange(r)
  \/ \E m \in Metrics : ChooseMetric(m)

Spec == Init /\ [][Next]_vars

-----------------------------------------------------------------------------
(* Properties *)

Versions == 1 .. MaxVersion

(* Every variable stays in its range; data that are kept have all answers. *)
TypeOK ==
  /\ version \in Versions /\ range \in Ranges /\ metric \in Metrics
  /\ data \in [range : Ranges, seen : [Answers -> Versions]] \cup {Nothing}
  /\ requestToken \in Tokens
  /\ loads \in [Tokens -> [range : Ranges,
                           seen : [Answers -> Versions \cup {Unanswered}]]
                            \cup {Nothing}]
  /\ pill \in {"loading", "ready", "error"}
  /\ shown \in {"markup", "data", "error"}
  /\ buttons \in [range : Ranges, metric : Metrics]

(* Ready means that everything on the page, the marked buttons, the chart  *)
(* and the figures, is of the range and the metric that are chosen; and    *)
(* Loading means that the newest load is under way (loadDashboard,         *)
(* renderDashboard). Neither holds of what is drawn while loading.         *)
ReadyIsCurrent ==
  /\ pill = "ready" => /\ shown = "data" /\ data.range = range
                       /\ buttons = [range |-> range, metric |-> metric]
  /\ pill = "loading" <=> InFlight(requestToken)

(* However late the answers of an overtaken load come, no figure on the    *)
(* page ever goes back to an earlier state of the store (the token of      *)
(* loadDashboard).                                                         *)
NeverGoesBack ==
  [][\A a \in Answers : data.seen[a] <= data'.seen[a]]_vars
=============================================================================
