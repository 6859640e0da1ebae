------------------------- MODULE DashboardPageProofs -------------------------
(***************************************************************************)
(* The page for any number of loads, of answers and of versions of the     *)
(* store: what is Ready is what is chosen, and no figure goes back. And    *)
(* the windows it asks for, of any length, in any zone, over any change of *)
(* the clock, with any number of buckets: what is drawn adds up, and lies  *)
(* where its label says.                                                   *)
(***************************************************************************)
EXTENDS DashboardPage, AnalyticsWindows, FiniteSetTheorems, TLAPS

(* No load is newer than the newest; and the newest, while it is under     *)
(* way, is for the range that is chosen.                                   *)
NewestFacts ==
  /\ \A t \in Tokens : t > requestToken => ~InFlight(t)
  /\ InFlight(requestToken) => loads[requestToken].range = range

(* What the newest load has got was read no earlier than what is kept:     *)
(* data change only when no newer load has begun. The store is ahead.      *)
NewestIsAhead ==
  \A a \in Answers :
    /\ data.seen[a] <= version
    /\ (/\ InFlight(requestToken)
        /\ loads[requestToken].seen[a] # Unanswered)
         => data.seen[a] <= loads[requestToken].seen[a]

(* What is in flight was read in the past. *)
AnswersArePast ==
  \A t \in Tokens : InFlight(t) =>
    \A a \in Answers : loads[t].seen[a] <= version

PageInv ==
  TypeOK /\ ReadyIsCurrent /\ NewestFacts /\ NewestIsAhead /\ AnswersArePast

-----------------------------------------------------------------------------
Loads == [range : Ranges, seen : [Answers -> Versions \cup {Unanswered}]]

(* A load is never nothing, and has no answer at first. *)
LEMMA LoadIs ==
  ASSUME NEW r \in Ranges
  PROVE  /\ Load(r) \in Loads /\ Load(r) # Nothing /\ Load(r).range = r
         /\ \A a \in Answers : Load(r).seen[a] = Unanswered
<1>1. Nothing.range = "none" /\ Load(r).range = r
  BY DEF Nothing, Load
<1>2. r # "none"
  BY PageAssumption
<1>. QED BY <1>1, <1>2 DEF Load, Loads

(* No load is Nothing, which has no answers and no range. *)
LEMMA NothingIs ==
  /\ Nothing.range = "none" /\ Nothing.range \notin Ranges
  /\ \A a \in Answers : Nothing.seen[a] = Unanswered
  /\ \A l \in Loads : l # Nothing
BY PageAssumption DEF Nothing, Load, Loads

(* The data that are kept, and the loads, have versions for answers. *)
LEMMA SeenIs ==
  ASSUME TypeOK
  PROVE  /\ \A a \in Answers : data.seen[a] \in Nat
         /\ \A t \in Tokens : InFlight(t) =>
              /\ loads[t] \in Loads
              /\ \A a \in Answers : loads[t].seen[a] \in Nat
<1>1. \A a \in Answers : data.seen[a] \in Nat
  BY NothingIs DEF TypeOK, Versions, Unanswered
<1>2. \A t \in Tokens : InFlight(t) => loads[t] \in Loads
  BY DEF TypeOK, InFlight, Loads
<1>3. \A l \in Loads : \A a \in Answers : l.seen[a] \in Nat
  BY DEF Loads, Versions, Unanswered
<1>. QED BY <1>1, <1>2, <1>3

(* A commit puts the store ahead of what was read. *)
LEMMA StoreGrowsKeepsInv ==
  ASSUME PageInv, StoreGrows
  PROVE  PageInv'
<1>1. TypeOK'
  BY PageAssumption DEF StoreGrows, PageInv, TypeOK, Versions
<1>2. ReadyIsCurrent' /\ NewestFacts'
  BY DEF StoreGrows, PageInv, ReadyIsCurrent, NewestFacts, InFlight
<1>3. NewestIsAhead' /\ AnswersArePast'
  BY SeenIs DEF StoreGrows, PageInv, TypeOK, Versions, NewestIsAhead,
     AnswersArePast, InFlight
<1>. QED BY <1>1, <1>2, <1>3 DEF PageInv

(* An answer is of the present version. *)
LEMMA ServeKeepsInv ==
  ASSUME PageInv, NEW t \in Tokens, NEW a \in Answers, Serve(t, a)
  PROVE  PageInv'
<1>. DEFINE answered == [loads[t] EXCEPT !.seen[a] = version]
<1>1. /\ loads[t] \in Loads /\ version \in Versions
      /\ loads' = [loads EXCEPT ![t] = answered]
      /\ UNCHANGED <<version, range, metric, data, requestToken, pill, shown,
                     buttons>>
  BY SeenIs DEF Serve, PageInv, TypeOK
<1>2. /\ answered \in Loads /\ answered.range = loads[t].range
      /\ answered.seen[a] = version
      /\ \A b \in Answers \ {a} : answered.seen[b] = loads[t].seen[b]
  BY <1>1 DEF Loads
<1>3. answered # Nothing /\ InFlight(t)
  BY <1>2, NothingIs DEF Serve
<1>. HIDE DEF answered
<1>4. loads' \in [Tokens -> Loads \cup {Nothing}]
  BY <1>1, <1>2 DEF PageInv, TypeOK, Loads
<1>5. \A u \in Tokens : InFlight(u)' <=> InFlight(u)
  BY <1>1, <1>3, <1>4 DEF InFlight, PageInv, TypeOK
<1>6. TypeOK'
  BY <1>1, <1>4 DEF PageInv, TypeOK, Loads
<1>7. ReadyIsCurrent'
  BY <1>1, <1>5 DEF PageInv, TypeOK, ReadyIsCurrent
<1>8. NewestFacts'
  BY <1>1, <1>2, <1>5 DEF PageInv, TypeOK, NewestFacts
<1>9. NewestIsAhead'
  BY <1>1, <1>2, <1>5 DEF PageInv, TypeOK, NewestIsAhead
<1>10. AnswersArePast'
  BY <1>1, <1>2, <1>5 DEF PageInv, TypeOK, AnswersArePast, Versions
<1>. QED BY <1>6, <1>7, <1>8, <1>9, <1>10 DEF PageInv

(* A new load: whatever has gone before is older than its answers. *)
LEMMA LoadKeepsInv ==
  ASSUME PageInv, NEW r \in Ranges, range' = r, LoadDashboard(r)
  PROVE  PageInv'
<1>1. /\ requestToken' = requestToken + 1 /\ requestToken' \in Tokens
      /\ requestToken \in Nat
  BY PageAssumption DEF LoadDashboard, PageInv, TypeOK, Tokens
<1>2. /\ loads' = [loads EXCEPT ![requestToken'] = Load(r)]
      /\ pill' = "loading"
      /\ UNCHANGED <<version, metric, data, shown, buttons>>
  BY DEF LoadDashboard
<1>3. /\ loads' \in [Tokens -> Loads \cup {Nothing}]
      /\ loads'[requestToken'] = Load(r)
      /\ \A t \in Tokens \ {requestToken'} : loads'[t] = loads[t]
  BY <1>1, <1>2, LoadIs DEF PageInv, TypeOK, Loads
<1>4. TypeOK'
  BY <1>1, <1>2, <1>3 DEF PageInv, TypeOK, Loads
<1>5. ReadyIsCurrent'
  BY <1>2, <1>3, LoadIs DEF ReadyIsCurrent, InFlight
<1>6. NewestFacts'
  BY <1>1, <1>3, LoadIs DEF PageInv, NewestFacts, InFlight, Tokens
<1>7. NewestIsAhead' /\ AnswersArePast'
  BY <1>2, <1>3, LoadIs DEF PageInv, TypeOK, Versions, NewestIsAhead,
     AnswersArePast, InFlight, Unanswered
<1>. QED BY <1>4, <1>5, <1>6, <1>7 DEF PageInv

(* An older load that ends changes nothing but its own entry. *)
LEMMA OlderEnds ==
  ASSUME PageInv, NEW t \in Tokens, t # requestToken,
         loads' = [loads EXCEPT ![t] = Nothing],
         UNCHANGED <<version, range, metric, data, requestToken, pill, shown,
                     buttons>>
  PROVE  PageInv'
<1>1. /\ loads' \in [Tokens -> Loads \cup {Nothing}]
      /\ loads'[t] = Nothing
      /\ \A u \in Tokens \ {t} : loads'[u] = loads[u]
      /\ requestToken \in Tokens
  BY DEF PageInv, TypeOK, Loads
<1>2. TypeOK'
  BY <1>1 DEF PageInv, TypeOK, Loads
<1>3. ReadyIsCurrent'
  BY <1>1 DEF PageInv, ReadyIsCurrent, InFlight
<1>4. NewestFacts'
  BY <1>1 DEF PageInv, NewestFacts, InFlight
<1>5. NewestIsAhead' /\ AnswersArePast'
  BY <1>1 DEF PageInv, NewestIsAhead, AnswersArePast, InFlight
<1>. QED BY <1>2, <1>3, <1>4, <1>5 DEF PageInv

(* The data of the newest load are for the range that is chosen, and not   *)
(* behind the data they replace.                                           *)
LEMMA LoadEndsKeepsInv ==
  ASSUME PageInv, NEW t \in Tokens, LoadEnds(t)
  PROVE  /\ PageInv'
         /\ \A a \in Answers : data.seen[a] <= data'.seen[a]
<1>1. /\ InFlight(t) /\ Answered(t)
      /\ loads' = [loads EXCEPT ![t] = Nothing]
      /\ UNCHANGED <<version, range, metric, requestToken>>
  BY DEF LoadEnds
<1>2. CASE t # requestToken
  <2>1. UNCHANGED <<data, pill, shown, buttons>>
    BY <1>2 DEF LoadEnds, Current
  <2>2. \A a \in Answers : data.seen[a] <= data'.seen[a]
    BY <2>1, SeenIs DEF PageInv
  <2>. QED BY <1>1, <1>2, <2>1, <2>2, OlderEnds
<1>3. CASE t = requestToken
  <2>1. /\ data' = loads[t] /\ pill' = "ready" /\ shown' = "data"
        /\ buttons' = [range |-> range, metric |-> metric]
    BY <1>3 DEF LoadEnds, Current, RenderDashboard
  <2>2. /\ loads[t] \in [range : Ranges, seen : [Answers -> Versions]]
        /\ loads[t].range = range
    <3>1. loads[t] \in Loads /\ loads[t].range = range
      BY <1>1, <1>3, SeenIs DEF PageInv, NewestFacts
    <3>. QED BY <1>1, <3>1 DEF Answered, Loads
  <2>3. /\ loads' \in [Tokens -> Loads \cup {Nothing}]
        /\ loads'[t] = Nothing
        /\ \A u \in Tokens \ {t} : loads'[u] = loads[u]
    BY <1>1 DEF PageInv, TypeOK, Loads
  <2>4. \A a \in Answers : data.seen[a] <= loads[t].seen[a]
    BY <1>1, <1>3 DEF PageInv, NewestIsAhead, Answered
  <2>5. \A a \in Answers : loads[t].seen[a] <= version
    BY <1>1 DEF PageInv, AnswersArePast
  <2>6. TypeOK'
    BY <1>1, <2>1, <2>2, <2>3 DEF PageInv, TypeOK, Loads
  <2>7. ReadyIsCurrent'
    BY <1>1, <1>3, <2>1, <2>2, <2>3 DEF ReadyIsCurrent, InFlight
  <2>8. NewestFacts'
    BY <1>1, <1>3, <2>3 DEF PageInv, NewestFacts, InFlight
  <2>9. NewestIsAhead'
    BY <1>1, <1>3, <2>1, <2>3, <2>5 DEF NewestIsAhead, InFlight
  <2>10. AnswersArePast'
    BY <1>1, <2>3, NothingIs DEF PageInv, AnswersArePast, InFlight
  <2>. QED BY <2>1, <2>4, <2>6, <2>7, <2>8, <2>9, <2>10 DEF PageInv
<1>. QED BY <1>2, <1>3

(* A load that fails leaves the data, and says so only if it is the        *)
(* newest.                                                                 *)
LEMMA LoadFailsKeepsInv ==
  ASSUME PageInv, NEW t \in Tokens, LoadFails(t)
  PROVE  PageInv'
<1>1. /\ loads' = [loads EXCEPT ![t] = Nothing]
      /\ UNCHANGED <<version, range, metric, data, requestToken, buttons>>
  BY DEF LoadFails
<1>2. CASE t # requestToken
  <2>1. UNCHANGED <<pill, shown>>
    BY <1>2 DEF LoadFails, Current
  <2>. QED BY <1>1, <1>2, <2>1, OlderEnds
<1>3. CASE t = requestToken
  <2>1. pill' = "error" /\ shown' = "error"
    BY <1>3 DEF LoadFails, Current
  <2>2. /\ loads' \in [Tokens -> Loads \cup {Nothing}]
        /\ loads'[t] = Nothing
        /\ \A u \in Tokens \ {t} : loads'[u] = loads[u]
    BY <1>1 DEF PageInv, TypeOK, Loads
  <2>3. TypeOK'
    BY <1>1, <2>1, <2>2 DEF PageInv, TypeOK, Loads
  <2>4. ReadyIsCurrent'
    BY <1>1, <1>3, <2>1, <2>2 DEF ReadyIsCurrent, InFlight
  <2>5. NewestFacts'
    BY <1>1, <1>3, <2>2 DEF PageInv, NewestFacts, InFlight
  <2>6. NewestIsAhead' /\ AnswersArePast'
    BY <1>1, <1>3, <2>2 DEF PageInv, NewestIsAhead, AnswersArePast, InFlight
  <2>. QED BY <2>3, <2>4, <2>5, <2>6 DEF PageInv
<1>. QED BY <1>2, <1>3

(* What is drawn again is what is kept; the status does not change. *)
LEMMA ChooseMetricKeepsInv ==
  ASSUME PageInv, NEW m \in Metrics, ChooseMetric(m)
  PROVE  PageInv'
<1>1. /\ metric' = m
      /\ UNCHANGED <<version, range, data, requestToken, loads, pill>>
      /\ \/ /\ shown' = "data"
            /\ buttons' = [range |-> range, metric |-> m]
         \/ data = Nothing /\ UNCHANGED <<shown, buttons>>
  BY DEF ChooseMetric, RenderDashboard
<1>2. TypeOK'
  BY <1>1 DEF PageInv, TypeOK
<1>3. ReadyIsCurrent'
  <2>1. data = Nothing => pill # "ready"
    BY NothingIs DEF PageInv, TypeOK, ReadyIsCurrent
  <2>. QED BY <1>1, <2>1 DEF PageInv, ReadyIsCurrent, InFlight
<1>4. NewestFacts' /\ NewestIsAhead' /\ AnswersArePast'
  BY <1>1 DEF PageInv, NewestFacts, NewestIsAhead, AnswersArePast, InFlight
<1>. QED BY <1>2, <1>3, <1>4 DEF PageInv

-----------------------------------------------------------------------------
(* Every step keeps the invariant, and no step takes an answer back. *)
LEMMA PageStep ==
  ASSUME PageInv, [Next]_vars
  PROVE  PageInv' /\ \A a \in Answers : data.seen[a] <= data'.seen[a]
<1>. DEFINE Kept == \A a \in Answers : data.seen[a] <= data'.seen[a]
<1>1. data' = data => Kept
  BY SeenIs DEF PageInv
<1>2. CASE StoreGrows
  BY <1>1, <1>2, StoreGrowsKeepsInv DEF StoreGrows
<1>3. CASE Interval
  <2>1. range \in Ranges /\ range' = range /\ LoadDashboard(range)
    BY <1>3 DEF Interval, PageInv, TypeOK
  <2>2. data' = data
    BY <2>1 DEF LoadDashboard
  <2>. QED BY <1>1, <2>1, <2>2, LoadKeepsInv
<1>4. ASSUME NEW r \in Ranges, ChooseRange(r) PROVE PageInv' /\ Kept
  <2>1. range' = r /\ LoadDashboard(r)
    BY <1>4 DEF ChooseRange
  <2>2. data' = data
    BY <2>1 DEF LoadDashboard
  <2>. QED BY <1>1, <2>1, <2>2, LoadKeepsInv
<1>5. ASSUME NEW t \in Tokens, LoadEnds(t) PROVE PageInv' /\ Kept
  BY <1>5, LoadEndsKeepsInv
<1>6. ASSUME NEW t \in Tokens, LoadFails(t) PROVE PageInv' /\ Kept
  BY <1>1, <1>6, LoadFailsKeepsInv DEF LoadFails
<1>7. ASSUME NEW t \in Tokens, NEW a \in Answers, Serve(t, a)
      PROVE PageInv' /\ Kept
  BY <1>1, <1>7, ServeKeepsInv DEF Serve
<1>8. ASSUME NEW m \in Metrics, ChooseMetric(m) PROVE PageInv' /\ Kept
  BY <1>1, <1>8, ChooseMetricKeepsInv DEF ChooseMetric
<1>9. CASE UNCHANGED vars
  <2>1. PageInv'
    BY <1>9 DEF vars, PageInv, TypeOK, ReadyIsCurrent, NewestFacts,
       NewestIsAhead, AnswersArePast, InFlight
  <2>. QED BY <1>1, <1>9, <2>1 DEF vars
<1>10. CASE \E t \in Tokens : \/ LoadEnds(t) \/ LoadFails(t)
                               \/ \E a \in Answers : Serve(t, a)
  BY <1>5, <1>6, <1>7, <1>10
<1>11. CASE \E r \in Ranges : ChooseRange(r)
  BY <1>4, <1>11
<1>12. CASE \E m \in Metrics : ChooseMetric(m)
  BY <1>8, <1>12
<1>. QED BY <1>2, <1>3, <1>9, <1>10, <1>11, <1>12 DEF Next

(* The inductive invariant: it adds what the newest load has got so far,   *)
(* and its range, to what the page shows.                                  *)
THEOREM PageInvariant == Spec => []PageInv
<1>1. ASSUME Init PROVE PageInv
  <2>1. /\ Load("day") \in Loads /\ Load("day") # Nothing
        /\ Load("day").range = "day" /\ 1 \in Tokens
        /\ \A a \in Answers : Load("day").seen[a] = Unanswered
    BY LoadIs, PageAssumption DEF Tokens
  <2>2. /\ loads[1] = Load("day")
        /\ \A t \in Tokens \ {1} : loads[t] = Nothing
        /\ loads \in [Tokens -> Loads \cup {Nothing}]
    BY <1>1, <2>1 DEF Init
  <2>3. TypeOK
    BY <1>1, <2>1, <2>2, PageAssumption DEF Init, TypeOK, Loads, Versions
  <2>4. ReadyIsCurrent /\ NewestFacts
    BY <1>1, <2>1, <2>2 DEF Init, ReadyIsCurrent, NewestFacts, InFlight, Tokens
  <2>5. NewestIsAhead /\ AnswersArePast
    BY <1>1, <2>1, <2>2, NothingIs DEF Init, NewestIsAhead, AnswersArePast,
       Unanswered, InFlight
  <2>. QED BY <2>3, <2>4, <2>5 DEF PageInv
<1>2. PageInv /\ [Next]_vars => PageInv'
  BY PageStep
<1>. QED BY <1>1, <1>2, PTL DEF Spec

(* For any number of loads in flight, Ready and Loading mean what they     *)
(* say (loadDashboard, renderDashboard).                                   *)
THEOREM PageReadyIsCurrent == Spec => []ReadyIsCurrent
<1>1. PageInv => ReadyIsCurrent
  BY DEF PageInv
<1>. QED BY <1>1, PageInvariant, PTL

(* For any number of loads in flight, no figure goes back (the token of    *)
(* loadDashboard).                                                         *)
THEOREM PageNeverGoesBack == Spec => NeverGoesBack
<1>1. PageInv /\ [Next]_vars =>
        [\A a \in Answers : data.seen[a] <= data'.seen[a]]_vars
  BY PageStep
<1>. QED BY <1>1, PageInvariant, PTL DEF Spec, NeverGoesBack

-----------------------------------------------------------------------------
(* The windows that the page asks for, and what is counted in them *)

(* What div and mod are, in a form the provers take up. *)
LEMMA Division ==
  ASSUME NEW n \in Int, NEW d \in Nat \ {0}
  PROVE  \E q \in Int, r \in 0 .. d - 1 :
           n \div d = q /\ n % d = r /\ n = d * q + r
<1>1. n \div d \in Int /\ n % d \in 0 .. d - 1
  OBVIOUS
<1>2. PICK q \in Int : n \div d = q
  BY <1>1
<1>3. n % d = n - d * q
  BY <1>2
<1>. QED BY <1>1, <1>2, <1>3

(* A quotient is below a number when the dividend is below its multiple.   *)
LEMMA QuotientBelow ==
  ASSUME NEW n \in Nat, NEW d \in Nat \ {0}, NEW k \in Nat
  PROVE  /\ n \div d \in Nat
         /\ n < k * d => n \div d < k
         /\ n \div d = k => k * d <= n /\ n < (k + 1) * d
<1>1. PICK q \in Int, r \in 0 .. d - 1 : n \div d = q /\ n = d * q + r
  BY Division
<1>2. q * d \in Int /\ q * d <= n /\ n < q * d + d
  BY <1>1
<1>3. q >= 0
  <2>. SUFFICES ASSUME q <= -1 PROVE FALSE
    OBVIOUS
  <2>1. q * d <= (-1) * d
    OBVIOUS
  <2>. QED BY <1>2, <2>1
<1>4. ASSUME n < k * d PROVE q < k
  <2>. SUFFICES ASSUME k <= q PROVE FALSE
    OBVIOUS
  <2>1. k * d <= q * d
    OBVIOUS
  <2>. QED BY <1>2, <1>4, <2>1
<1>5. ASSUME q = k PROVE k * d <= n /\ n < (k + 1) * d
  <2>1. (k + 1) * d = k * d + d
    OBVIOUS
  <2>. QED BY <1>2, <1>5, <2>1
<1>. QED BY <1>1, <1>3, <1>4, <1>5

(* An end of one of the dashboard's windows: a boundary, after the clock.  *)
LEMMA NextBoundary ==
  ASSUME NEW t \in Nat
  PROVE  LET end == (t \div Unit + 1) * Unit IN
         end \in Nat /\ t < end /\ end % Second = 0
<1>. Unit \in Nat \ {0} /\ Second \in Nat \ {0}
  BY WindowsAssumption
<1>1. PICK q \in Int, r \in 0 .. Unit - 1 :
        t \div Unit = q /\ t = Unit * q + r
  BY Division
<1>2. PICK u \in Int : Unit = Second * u
  <2>1. Unit % Second = 0 /\ Unit \in Int
    BY WindowsAssumption
  <2>. QED BY <2>1, Division
<1>3. (q + 1) * Unit = Unit * q + Unit
  OBVIOUS
<1>4. (q + 1) * Unit = Second * ((q + 1) * u)
  BY <1>2
<1>5. (Second * ((q + 1) * u)) % Second = 0
  OBVIOUS
<1>. QED BY <1>1, <1>3, <1>4, <1>5

(* The order of the texts is that of the times, but within a second.       *)
LEMMA TextOrder ==
  ASSUME NEW t \in Int, NEW u \in Int
  PROVE  /\ ~TextLess(t, t)
         /\ t <= u /\ TextLess(t, u) => t < u
         /\ u % Second = 0 /\ ~TextLess(t, u) => u <= t
<1>. Second \in Nat \ {0}
  BY WindowsAssumption
<1>1. PICK p \in Int, x \in 0 .. Second - 1 :
        t \div Second = p /\ t % Second = x /\ t = Second * p + x
  BY Division
<1>2. PICK q \in Int, y \in 0 .. Second - 1 :
        u \div Second = q /\ u % Second = y /\ u = Second * q + y
  BY Division
<1>3. ~TextLess(t, t)
  <2>1. Rank(t) \in Int
    BY <1>1 DEF Rank
  <2>2. ~(Rank(t) < Rank(t)) /\ ~(t \div Second < t \div Second)
    BY <1>1, <2>1
  <2>. QED BY <2>2 DEF TextLess
<1>4. t <= u /\ TextLess(t, u) => t < u
  <2>. SUFFICES ASSUME t <= u, TextLess(t, u), ~(t < u) PROVE FALSE
    OBVIOUS
  <2>1. t = u
    OBVIOUS
  <2>. QED BY <1>3, <2>1
<1>5. ASSUME u % Second = 0, ~TextLess(t, u) PROVE u <= t
  <2>1. q <= p /\ y = 0
    BY <1>1, <1>2, <1>5 DEF TextLess
  <2>2. Second * q <= Second * p
    BY <2>1
  <2>. QED BY <1>1, <1>2, <2>1, <2>2
<1>. QED BY <1>3, <1>4, <1>5

-----------------------------------------------------------------------------
(* What was asked for, and what was counted: only requests of the past     *)
(* were selected, so none at or after the window's end.                    *)
AnswerFits ==
  LET start == window.start
      end   == window.end IN
  /\ \A b \in Buckets : \A t \in answer.buckets[b] :
       t \in Nat /\ BucketIndex(start, t) = b /\ t < end
  /\ Cardinality(InCells) = answer.total
  /\ (end - start <= Span /\ start % Second = 0 /\ end % Second = 0)
       => InBuckets = InCells

WindowsInv ==
  /\ WindowsTypeOK
  /\ IsFiniteSet(rows) /\ Cardinality(rows) <= MaxRows
  /\ \A t \in rows : t <= now
  /\ AnswerFits

(* Every window that is asked for ends no earlier than now.                *)
LEMMA WindowsAsked ==
  ASSUME NEW w, now \in Nat,
         \/ \E shift \in Shifts, earlier \in Shifts :
              w = DashboardWindow(shift, earlier)
         \/ w = DefaultWindow
  PROVE  /\ w \in [start : Int, end : Int, previous : Int]
         /\ w.previous <= w.start /\ w.start <= w.end /\ now <= w.end
<1>1. Span \in Nat /\ \A s \in Shifts : s \in Int /\ -Span <= s /\ s <= Span
  <2>1. Bucket \in Nat /\ BucketCount \in Nat /\ Shift \in 0 .. Span
    BY WindowsAssumption DEF Span
  <2>2. Span \in Nat
    BY <2>1 DEF Span
  <2>. QED BY <2>1, <2>2 DEF Shifts
<1>. DEFINE end == (now \div Unit + 1) * Unit
<1>2. end \in Nat /\ now < end
  BY NextBoundary
<1>. HIDE DEF end
<1>3. ASSUME NEW shift \in Shifts, NEW earlier \in Shifts,
             w = DashboardWindow(shift, earlier)
      PROVE  /\ w \in [start : Int, end : Int, previous : Int]
             /\ w.previous <= w.start /\ w.start <= w.end /\ now <= w.end
  <2>1. w = [start |-> end - Span - shift, end |-> end,
             previous |-> end - 2 * Span - shift - earlier]
    BY <1>3 DEF DashboardWindow, end, Span
  <2>. QED BY <1>1, <1>2, <2>1
<1>4. ASSUME w = DefaultWindow
      PROVE  /\ w \in [start : Int, end : Int, previous : Int]
             /\ w.previous <= w.start /\ w.start <= w.end /\ now <= w.end
  BY <1>1, <1>4 DEF DefaultWindow, Span
<1>. QED BY <1>3, <1>4

(* The rows are a finite set of times that have passed. *)
LEMMA RowsAre ==
  ASSUME WindowsInv
  PROVE  /\ rows \subseteq 0 .. MaxTime /\ rows \subseteq Nat
         /\ now \in Nat /\ \A t \in rows : t <= now
         /\ IsFiniteSet(rows) /\ Cardinality(rows) \in 0 .. MaxRows
         /\ MaxTime \in Nat /\ MaxRows \in Nat
<1>1. MaxTime \in Nat /\ MaxRows \in Nat
  BY WindowsAssumption
<1>2. IsFiniteSet(rows) /\ Cardinality(rows) <= MaxRows
  BY DEF WindowsInv
<1>3. Cardinality(rows) \in Nat
  BY <1>2, FS_CardinalityType
<1>4. rows \subseteq 0 .. MaxTime /\ now \in 0 .. MaxTime
  BY DEF WindowsInv, WindowsTypeOK
<1>. QED BY <1>1, <1>2, <1>3, <1>4 DEF WindowsInv

(* An answer over a window that ends now or later counts rows that fit it. *)
LEMMA AskKeepsInv ==
  ASSUME WindowsInv, NEW w, NEW offset \in Offsets, Ask(w, offset),
         w \in [start : Int, end : Int, previous : Int],
         w.previous <= w.start, w.start <= w.end, now <= w.end
  PROVE  WindowsInv'
<1>. DEFINE selected == InWindow(w.start, w.end)
<1>1. /\ window' = w /\ answer' = Counted(w, offset)
      /\ now' = now /\ rows' = rows
  BY DEF Ask
<1>2. /\ rows \subseteq Nat /\ IsFiniteSet(rows) /\ now \in Nat
      /\ Cardinality(rows) \in 0 .. MaxRows /\ MaxRows \in Nat
      /\ \A t \in rows : t <= now
  BY RowsAre
<1>3. \A start, end :
        /\ InWindow(start, end) \subseteq rows
        /\ Cardinality(InWindow(start, end)) \in 0 .. MaxRows
  <2>. TAKE start, end
  <2>1. InWindow(start, end) \subseteq rows
    BY DEF InWindow
  <2>2. /\ Cardinality(InWindow(start, end)) \in Nat
        /\ Cardinality(InWindow(start, end)) <= Cardinality(rows)
    BY <1>2, <2>1, FS_Subset, FS_CardinalityType
  <2>. QED BY <1>2, <2>1, <2>2
<1>4. \A t \in selected : t \in Nat /\ t < w.end
  <2>. SUFFICES ASSUME NEW t \in selected PROVE t \in Nat /\ t < w.end
    OBVIOUS
  <2>1. t \in rows /\ TextLess(t, w.end)
    BY DEF InWindow, TextLess, Rank
  <2>2. t \in Int /\ t \in Nat /\ t <= w.end
    BY <1>2, <2>1
  <2>. QED BY <2>1, <2>2, TextOrder
<1>5. /\ answer'.total = Cardinality(selected)
      /\ answer'.previous = Cardinality(InWindow(w.previous, w.start))
      /\ answer'.buckets = [b \in Buckets |->
                             {t \in selected : BucketIndex(w.start, t) = b}]
      /\ answer'.cells = [c \in Cells |->
                           {t \in selected : Slot(t, offset) = c}]
  BY <1>1 DEF Counted
<1>6. WindowsTypeOK'
  BY <1>1, <1>3, <1>5 DEF WindowsInv, WindowsTypeOK, Buckets, Cells
<1>7. InCells' = selected
  <2>1. \A t \in selected : Slot(t, offset) \in Cells
    <3>. SUFFICES ASSUME NEW t \in selected PROVE Slot(t, offset) \in Cells
      OBVIOUS
    <3>1. t - offset \in Int
      BY <1>4, WindowsAssumption DEF Offsets
    <3>2. Unit \in Nat \ {0} /\ Slots \in Nat \ {0}
      BY WindowsAssumption
    <3>3. (t - offset) \div Unit \in Int
      BY <3>1, <3>2, Division
    <3>. QED BY <3>2, <3>3, Division DEF Slot, Cells
  <2>. QED BY <1>5, <2>1 DEF InCells, Cells
<1>8. ASSUME w.end - w.start <= Span, w.start % Second = 0
      PROVE  InBuckets' = selected
  <2>1. \A t \in selected : BucketIndex(w.start, t) \in Buckets
    <3>. SUFFICES ASSUME NEW t \in selected
                  PROVE  BucketIndex(w.start, t) \in Buckets
      OBVIOUS
    <3>1. ~TextLess(t, w.start)
      BY DEF InWindow, TextLess, Rank
    <3>2. t \in Nat /\ t < w.end /\ w.start <= t
      BY <1>4, <1>8, <3>1, TextOrder
    <3>3. /\ Bucket \in Nat \ {0} /\ BucketCount \in Nat
          /\ t - w.start \in Nat /\ t - w.start < BucketCount * Bucket
      BY <1>8, <3>2, WindowsAssumption DEF Span
    <3>4. /\ (t - w.start) \div Bucket \in Nat
          /\ (t - w.start) \div Bucket < BucketCount
      BY <3>3, QuotientBelow
    <3>. QED BY <3>2, <3>3, <3>4 DEF BucketIndex, Buckets
  <2>. QED BY <1>5, <2>1 DEF InBuckets, Buckets
<1>9. AnswerFits'
  BY <1>1, <1>4, <1>5, <1>7, <1>8 DEF AnswerFits
<1>. QED BY <1>1, <1>6, <1>9 DEF WindowsInv

(* Time passes, rows are recorded at the present, and windows end there. *)
LEMMA WindowsStep == WindowsInv /\ [WindowsNext]_windowVars => WindowsInv'
<1>. SUFFICES ASSUME WindowsInv, [WindowsNext]_windowVars
              PROVE  WindowsInv'
  OBVIOUS
<1>1. ASSUME UNCHANGED <<window, answer>> PROVE AnswerFits'
  BY <1>1 DEF WindowsInv, AnswerFits, InCells, InBuckets
<1>2. CASE Tick
  <2>1. now \in Nat /\ rows \subseteq Nat /\ MaxTime \in Nat
    BY RowsAre
  <2>2. now' = now + 1 /\ now' \in 0 .. MaxTime /\ \A t \in rows : t <= now'
    BY <1>2, <2>1 DEF Tick, WindowsInv
  <2>. QED BY <1>1, <1>2, <2>2 DEF Tick, WindowsInv, WindowsTypeOK
<1>3. CASE Record
  <2>1. /\ IsFiniteSet(rows') /\ Cardinality(rows') <= MaxRows
        /\ \A t \in rows' : t <= now
        /\ rows' \subseteq 0 .. MaxTime /\ rows \subseteq rows'
    <3>1. /\ rows' = rows \cup {now} /\ Cardinality(rows) < MaxRows
          /\ now \in 0 .. MaxTime
      BY <1>3
         DEF Record, WindowsInv, WindowsTypeOK
    <3>2. IsFiniteSet(rows') /\ Cardinality(rows') <= Cardinality(rows) + 1
      <4>1. IsFiniteSet(rows) /\ Cardinality(rows) \in Nat
        BY RowsAre
      <4>. QED BY <3>1, <4>1, FS_AddElement
    <3>3. Cardinality(rows') \in Nat /\ Cardinality(rows') <= MaxRows
      <4>1. /\ Cardinality(rows) \in Nat /\ MaxRows \in Nat
            /\ Cardinality(rows') \in Nat
        BY <3>2, RowsAre, FS_CardinalityType
      <4>. QED BY <3>1, <3>2, <4>1
    <3>4. \A t \in rows' : t <= now
      BY <3>1, RowsAre
    <3>. QED BY <3>1, <3>2, <3>3, <3>4, RowsAre
  <2>2. WindowsTypeOK'
    BY <1>3, <2>1 DEF Record, WindowsInv, WindowsTypeOK
  <2>. QED BY <1>1, <1>3, <2>1, <2>2 DEF Record, WindowsInv
<1>4. ASSUME NEW offset \in Offsets,
             NEW shift \in Shifts, NEW earlier \in Shifts,
             Ask(DashboardWindow(shift, earlier), offset)
      PROVE  WindowsInv'
  BY <1>4, WindowsAsked, AskKeepsInv DEF WindowsInv, WindowsTypeOK
<1>5. ASSUME NEW offset \in Offsets, Ask(DefaultWindow, offset)
      PROVE  WindowsInv'
  BY <1>5, WindowsAsked, AskKeepsInv DEF WindowsInv, WindowsTypeOK
<1>6. CASE UNCHANGED windowVars
  BY <1>1, <1>6 DEF windowVars, WindowsInv, WindowsTypeOK
<1>. QED BY <1>2, <1>3, <1>4, <1>5, <1>6
            DEF WindowsNext, Offsets, Shifts

(* The inductive invariant: it adds that what was counted lies in the past *)
(* and before the window's end, although the texts do not order it so.     *)
THEOREM WindowsInvariant == WindowsSpec => []WindowsInv
<1>1. ASSUME WindowsInit PROVE WindowsInv
  <2>1. /\ now = 0 /\ rows = {} /\ answer = NoAnswer
        /\ window = [start |-> 0, end |-> 0, previous |-> 0]
    BY <1>1 DEF WindowsInit
  <2>2. IsFiniteSet(rows) /\ Cardinality(rows) = 0
    BY <2>1, FS_EmptySet
  <2>3. InCells = {} /\ InBuckets = {}
    BY <2>1 DEF InCells, InBuckets, NoAnswer
  <2>4. AnswerFits
    BY <2>1, <2>3, FS_EmptySet
       DEF AnswerFits, NoAnswer, Buckets
  <2>5. WindowsTypeOK
    BY <2>1, WindowsAssumption DEF WindowsTypeOK, NoAnswer
  <2>. QED BY <2>1, <2>2, <2>4, <2>5, WindowsAssumption DEF WindowsInv
<1>. QED BY <1>1, WindowsStep, PTL DEF WindowsSpec

(* The windows, the rows and the answers keep their types: no window ends  *)
(* before it begins, over any change of the clock (currentWindow).         *)
THEOREM WindowsTypeCorrect == WindowsSpec => []WindowsTypeOK
<1>1. WindowsInv => WindowsTypeOK
  BY DEF WindowsInv
<1>. QED BY <1>1, WindowsInvariant, PTL

(* For any window, zone and number of buckets the heatmap adds up to the   *)
(* total beside it, and the chart where its window fits its buckets        *)
(* (UsageHeatmap, bucketIndex).                                            *)
THEOREM WindowsDrawingsAddUp == WindowsSpec => []DrawingsAddUp
<1>1. WindowsInv => DrawingsAddUp
  <2>1. WindowsInv =>
          /\ Cardinality(InCells) = answer.total
          /\ (/\ window.end - window.start <= Span
              /\ window.start % Second = 0 /\ window.end % Second = 0)
               => InBuckets = InCells
    BY Zenon DEF WindowsInv, AnswerFits
  <2>. QED BY <2>1, Zenon DEF DrawingsAddUp
<1>. QED BY <1>1, WindowsInvariant, PTL

(* The labels of the buckets, for any length and number of them: they      *)
(* cover a window without gap or overlap (BucketWindows).                  *)
LEMMA BucketsCover ==
  ASSUME NEW start \in Int, NEW end \in Int, start < end
  PROVE  /\ BucketWindow(start, end, 0).start = start
         /\ BucketWindow(start, end, BucketCount - 1).end = end
         /\ \A b \in Buckets \ {0} :
              BucketWindow(start, end, b - 1).end
                = BucketWindow(start, end, b).start
<1>1. Bucket \in Nat /\ BucketCount \in Nat \ {0}
  BY WindowsAssumption
<1>2. start + 0 * Bucket = start
  BY <1>1
<1>3. ASSUME NEW b \in Buckets \ {0}
      PROVE  BucketWindow(start, end, b - 1).end
               = BucketWindow(start, end, b).start
  <2>1. b - 1 # BucketCount - 1 /\ (b - 1) + 1 = b
    BY <1>1 DEF Buckets
  <2>. QED BY <2>1 DEF BucketWindow
<1>. QED BY <1>2, <1>3 DEF BucketWindow

(* A row that has the index of a bucket lies between the bucket's labels.  *)
LEMMA RowInBucket ==
  ASSUME NEW start \in Int, NEW end \in Int, NEW b \in Buckets, NEW t \in Nat,
         BucketIndex(start, t) = b, t < end
  PROVE  /\ BucketWindow(start, end, b).start <= t
         /\ t < BucketWindow(start, end, b).end
<1>1. Bucket \in Nat \ {0} /\ b \in Nat
  BY WindowsAssumption DEF Buckets
<1>2. start <= t /\ (t - start) \div Bucket = b
  BY <1>1 DEF BucketIndex
<1>3. b * Bucket <= t - start /\ t - start < (b + 1) * Bucket
  BY <1>1, <1>2, QuotientBelow
<1>. DEFINE low  == b * Bucket
            high == (b + 1) * Bucket
<1>4. low \in Int /\ high \in Int
  BY <1>1
<1>5. start + low <= t /\ t < start + high
  BY <1>2, <1>3, <1>4
<1>. HIDE DEF low, high
<1>6. /\ BucketWindow(start, end, b).start =
           IF start + low > end THEN end ELSE start + low
      /\ BucketWindow(start, end, b).end =
           IF b = BucketCount - 1 THEN end
           ELSE IF start + high > end THEN end ELSE start + high
  BY DEF BucketWindow, low, high
<1>. QED BY <1>4, <1>5, <1>6

(* For any length and number of buckets a request is drawn between the     *)
(* labels of its bucket, and these cover the window (bucketIndex,          *)
(* BucketWindows).                                                         *)
THEOREM WindowsRowsInBuckets == WindowsSpec => []RowsLieInTheirBucket
<1>1. WindowsInv => RowsLieInTheirBucket
  <2>. SUFFICES ASSUME WindowsInv PROVE RowsLieInTheirBucket
    OBVIOUS
  <2>. DEFINE w(b) == BucketWindow(window.start, window.end, b)
  <2>1. window.start \in Int /\ window.end \in Int
    BY DEF WindowsInv, WindowsTypeOK
  <2>2. \A b \in Buckets : \A t \in answer.buckets[b] :
          w(b).start <= t /\ t < w(b).end
    BY <2>1, RowInBucket DEF WindowsInv, AnswerFits
  <2>3. window.start < window.end =>
          /\ w(0).start = window.start /\ w(BucketCount - 1).end = window.end
          /\ \A b \in Buckets \ {0} : w(b - 1).end = w(b).start
    BY <2>1, BucketsCover
  <2>. QED BY <2>2, <2>3 DEF RowsLieInTheirBucket
<1>. QED BY <1>1, WindowsInvariant, PTL
=============================================================================
