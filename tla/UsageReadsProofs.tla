-------------------------- MODULE UsageReadsProofs --------------------------
(***************************************************************************)
(* That what the read side answers agrees, for any events, filters, limits *)
(* and windows, and whatever is appended between the queries of a call.    *)
(*                                                                         *)
(* Two invariants. ListsInv is about the queries that are still to be run: *)
(* a row that is listed has its tags, or the query for them is to come;    *)
(* what is named of a session covers what it had when the call began.      *)
(* PlanInv says how far the plan of the call has come, and what has been   *)
(* shown until there. Both stand on the ledger: an id names one event, the *)
(* row of a session is the sum of its events, and nothing is ever removed. *)
(***************************************************************************)
EXTENDS UsageReads, FiniteSetTheorems, SequenceTheorems, TLAPS

(* Sums. g adds up w over the subsets of S.                                *)
Pick(s) == CHOOSE x \in s : TRUE

IsSum(w, g, S) ==
  g = [s \in SUBSET S |-> IF s = {} THEN 0 ELSE w[Pick(s)] + g[s \ {Pick(s)}]]

SumOver(w, S) == (CHOOSE g : IsSum(w, g, S))[S]

(* The fold the model adds up tokens with is such a sum,                   *)
LEMMA TokensAreSums ==
  ASSUME NEW S
  PROVE  Tokens(S) = SumOver(TokensOf, S)
BY DEF Tokens, MapThenSumSet, MapThenFoldSet, IsSum, SumOver, Pick

(* and so is the one that adds up the counts of a breakdown.               *)
LEMMA CountsAreSums ==
  ASSUME NEW S
  PROVE  SumOfCounts(S) = SumOver([g \in S |-> g.count], S)
<1>. DEFINE w == [g \in S |-> g.count]
            Adds(g) == g = [s \in SUBSET S |->
              IF s = {} THEN 0 ELSE Pick(s).count + g[s \ {Pick(s)}]]
<1>1. \A g : Adds(g) <=> IsSum(w, g, S)
  <2>. TAKE g
  <2>1. \A s \in SUBSET S : s # {} => Pick(s) \in S
    BY DEF Pick
  <2>2. [s \in SUBSET S |->
           IF s = {} THEN 0 ELSE Pick(s).count + g[s \ {Pick(s)}]]
         = [s \in SUBSET S |->
              IF s = {} THEN 0 ELSE w[Pick(s)] + g[s \ {Pick(s)}]]
    BY <2>1
  <2>. QED BY <2>2 DEF IsSum
<1>2. SumOfCounts(S) = (CHOOSE g : Adds(g))[S]
  BY DEF SumOfCounts, MapThenSumSet, MapThenFoldSet, Pick
<1>. HIDE DEF Adds
<1>3. (CHOOSE g : Adds(g)) = CHOOSE g : IsSum(w, g, S)
  BY <1>1
<1>. QED BY <1>2, <1>3 DEF SumOver

(* Only one function adds up w over the subsets of a finite set: a         *)
(* smallest subset two would differ on has none.                           *)
LEMMA SumIsUnique ==
  ASSUME NEW w, NEW S, IsFiniteSet(S), NEW g, NEW h,
         IsSum(w, g, S), IsSum(w, h, S)
  PROVE  g = h
<1>. DEFINE D == {s \in SUBSET S : g[s] # h[s]}
<1>1. D = {}
  <2>. SUFFICES ASSUME D # {} PROVE FALSE
    OBVIOUS
  <2>1. D \subseteq FiniteSubsetsOf(S)
    BY FS_FiniteSubsetsOfFinite
  <2>2. PICK s \in D : \A t \in D : <<t, s>> \notin StrictSubsetOrdering(S)
    <3>. HIDE DEF D
    <3>. QED BY <2>1, FS_StrictSubsetOrderingWellFounded, WFMin
  <2>3. s # {} /\ Pick(s) \in s
    BY DEF IsSum, Pick
  <2>4. s \ {Pick(s)} \in D
    BY <2>3 DEF IsSum
  <2>. QED BY <2>2, <2>3, <2>4 DEF StrictSubsetOrdering
<1>2. /\ g = [s \in SUBSET S |-> g[s]]
      /\ h = [s \in SUBSET S |-> h[s]]
  BY DEF IsSum
<1>. QED BY <1>1, <1>2

(* So a function known to add up is the one the fold chooses.              *)
LEMMA SumIs ==
  ASSUME NEW w, NEW S, IsFiniteSet(S), NEW h, IsSum(w, h, S)
  PROVE  SumOver(w, S) = h[S]
BY SumIsUnique DEF SumOver

(* As many pairs as the weights of s add up to: with them a sum exists.    *)
Units(w, s) == UNION {{x} \X (1 .. w[x]) : x \in s}

(* A finite set has a finite image, with no more elements.                 *)
LEMMA ImageIsFinite ==
  ASSUME NEW S, IsFiniteSet(S), NEW f, NEW T, T = {f[x] : x \in S}
  PROVE  IsFiniteSet(T) /\ Cardinality(T) <= Cardinality(S)
<1>. DEFINE g == [x \in S |-> f[x]]
<1>1. g \in Surjection(S, T)
  BY DEF Surjection
<1>. HIDE DEF g
<1>. QED BY <1>1, FS_Surjection

(* The units of finitely many weights are finite.                          *)
LEMMA UnitsAreFinite ==
  ASSUME NEW w, NEW s, IsFiniteSet(s), \A x \in s : w[x] \in Nat
  PROVE  IsFiniteSet(Units(w, s)) /\ Cardinality(Units(w, s)) \in Nat
<1>. DEFINE parts == {{x} \X (1 .. w[x]) : x \in s}
<1>1. IsFiniteSet(parts)
  <2>. DEFINE f == [x \in s |-> {x} \X (1 .. w[x])]
  <2>1. parts = {f[x] : x \in s}
    OBVIOUS
  <2>. HIDE DEF f, parts
  <2>. QED BY <2>1, ImageIsFinite
<1>2. ASSUME NEW x \in s PROVE IsFiniteSet({x} \X (1 .. w[x]))
  <2>1. IsFiniteSet({x})
    BY FS_Singleton
  <2>2. w[x] \in Int
    OBVIOUS
  <2>3. IsFiniteSet(1 .. w[x])
    BY <2>2, FS_Interval
  <2>. QED BY <2>1, <2>3, FS_Product
<1>3. IsFiniteSet(UNION parts)
  <2>1. \A T \in parts : IsFiniteSet(T)
    BY <1>2
  <2>. HIDE DEF parts
  <2>. QED BY <1>1, <2>1, FS_UNION
<1>. QED BY <1>3, FS_CardinalityType DEF Units

(* One more element adds its weight to the units.                          *)
LEMMA UnitsAdd ==
  ASSUME NEW w, NEW s, NEW x, IsFiniteSet(s), x \notin s,
         \A y \in s \cup {x} : w[y] \in Nat
  PROVE  Cardinality(Units(w, s \cup {x})) = w[x] + Cardinality(Units(w, s))
<1>. DEFINE own == {x} \X (1 .. w[x])
<1>1. IsFiniteSet(own) /\ Cardinality(own) = w[x]
  <2>. DEFINE n == w[x]
  <2>0. n \in Nat
    OBVIOUS
  <2>. HIDE DEF n
  <2>1. IsFiniteSet(1 .. n) /\ Cardinality(1 .. n) = n
    <3>1. n \in Int /\ 1 \in Int /\ n - 1 + 1 = n
      BY <2>0
    <3>. QED BY <2>0, <3>1, FS_Interval
  <2>2. IsFiniteSet({x}) /\ Cardinality({x}) = 1
    BY FS_Singleton
  <2>3. /\ IsFiniteSet({x} \X (1 .. n))
        /\ Cardinality({x} \X (1 .. n)) = 1 * n
    <3>. DEFINE A == {x}
                B == 1 .. n
    <3>1. /\ IsFiniteSet(A) /\ Cardinality(A) = 1
          /\ IsFiniteSet(B) /\ Cardinality(B) = n
      BY <2>1, <2>2
    <3>. HIDE DEF A, B, own
    <3>2. /\ IsFiniteSet(A \X B)
          /\ Cardinality(A \X B) = Cardinality(A) * Cardinality(B)
      BY <3>1, FS_Product
    <3>3. Cardinality(A) * Cardinality(B) = 1 * n
      BY <3>1
    <3>. QED BY <3>2, <3>3, Zenon DEF A, B
  <2>. QED BY <2>0, <2>3 DEF n
<1>2. Units(w, s \cup {x}) = Units(w, s) \cup own
  BY DEF Units
<1>3. Units(w, s) \cap own = {}
  BY DEF Units
<1>4. IsFiniteSet(Units(w, s)) /\ Cardinality(Units(w, s)) \in Nat
  BY UnitsAreFinite
<1>5. Cardinality(Units(w, s) \cap own) = 0
  BY <1>3, FS_EmptySet
<1>6. w[x] \in Nat
  OBVIOUS
<1>. HIDE DEF own
<1>7. Cardinality(Units(w, s) \cup own) =
        Cardinality(Units(w, s)) + Cardinality(own)
          - Cardinality(Units(w, s) \cap own)
  BY <1>1, <1>4, FS_Union
<1>8. Cardinality(Units(w, s \cup {x})) = Cardinality(Units(w, s)) + w[x] - 0
  BY <1>1, <1>2, <1>5, <1>7, Zenon
<1>. QED BY <1>4, <1>6, <1>8

(* A sum of natural weights is the number of their units.                  *)
LEMMA SumExists ==
  ASSUME NEW w, NEW S, IsFiniteSet(S), \A x \in S : w[x] \in Nat
  PROVE  SumOver(w, S) = Cardinality(Units(w, S))
<1>. DEFINE h == [s \in SUBSET S |-> Cardinality(Units(w, s))]
<1>1. Cardinality(Units(w, {})) = 0
  BY FS_EmptySet DEF Units
<1>2. ASSUME NEW s \in SUBSET S, s # {}
      PROVE  Cardinality(Units(w, s)) =
               w[Pick(s)] + Cardinality(Units(w, s \ {Pick(s)}))
  <2>1. Pick(s) \in s
    BY <1>2 DEF Pick
  <2>2. IsFiniteSet(s \ {Pick(s)})
    BY FS_Subset
  <2>3. (s \ {Pick(s)}) \cup {Pick(s)} = s
    BY <2>1
  <2>. QED BY <2>1, <2>2, <2>3, UnitsAdd
<1>3. IsSum(w, h, S)
  BY <1>1, <1>2 DEF IsSum
<1>. QED BY <1>3, SumIs

(* The tokens of one more event are added to those of the others.          *)
LEMMA TokensAdd ==
  ASSUME NEW S \in SUBSET Events, IsFiniteSet(S), NEW e \in Events, e \notin S
  PROVE  /\ Tokens(S) \in Nat
         /\ Tokens(S \cup {e}) = Tokens(S) + TokensOf[e]
<1>1. \A x \in S \cup {e} : TokensOf[x] \in Nat
  BY EventsAssumption
<1>2. IsFiniteSet(S \cup {e})
  BY FS_AddElement
<1>3. /\ Tokens(S) = Cardinality(Units(TokensOf, S))
      /\ Tokens(S \cup {e}) = Cardinality(Units(TokensOf, S \cup {e}))
  BY <1>1, <1>2, SumExists, TokensAreSums
<1>4. Cardinality(Units(TokensOf, S)) \in Nat
  BY <1>1, UnitsAreFinite
<1>5. Cardinality(Units(TokensOf, S \cup {e})) =
        TokensOf[e] + Cardinality(Units(TokensOf, S))
  BY <1>1, UnitsAdd
<1>. QED BY <1>1, <1>3, <1>4, <1>5

-----------------------------------------------------------------------------
(* The ledger *)

RowsAgree ==
  \A s \in Sessions :
    /\ sessions[s].count = Cardinality(MembersOf(s, stored))
    /\ sessions[s].tokens = Tokens(MembersOf(s, stored))

LedgerFacts ==
  /\ TypeOK /\ IsFiniteSet(stored)
  /\ IdsAreUnique /\ TagsAreComplete /\ RowsAgree

(* The members of a session are finitely many events.                      *)
LEMMA MembersAre ==
  ASSUME NEW rows \in SUBSET Events, IsFiniteSet(rows), NEW s
  PROVE  /\ MembersOf(s, rows) \in SUBSET Events
         /\ IsFiniteSet(MembersOf(s, rows))
         /\ Cardinality(MembersOf(s, rows)) \in Nat
BY FS_Subset, FS_CardinalityType DEF MembersOf

(* The facts hold of the empty store.                                      *)
LEMMA LedgerStarts == Init => LedgerFacts
<1>. SUFFICES ASSUME Init PROVE LedgerFacts
  OBVIOUS
<1>1. /\ stored = {} /\ tagRows = {}
      /\ sessions = [s \in Sessions |-> NoRow]
  BY DEF Init
<1>2. TypeOK
  BY <1>1 DEF TypeOK, SessionRow, NoRow
<1>3. IsFiniteSet(stored) /\ IdsAreUnique /\ TagsAreComplete
  BY <1>1, FS_EmptySet DEF IdsAreUnique, TagsAreComplete
<1>4. Cardinality({}) = 0 /\ Tokens({}) = 0
  <2>1. \A x \in {} : TokensOf[x] \in Nat
    OBVIOUS
  <2>2. Tokens({}) = Cardinality(Units(TokensOf, {}))
    BY <2>1, FS_EmptySet, SumExists, TokensAreSums
  <2>3. Units(TokensOf, {}) = {}
    BY DEF Units
  <2>. QED BY <2>2, <2>3, FS_EmptySet
<1>5. RowsAgree
  <2>. SUFFICES ASSUME NEW s \in Sessions
       PROVE  /\ sessions[s].count = Cardinality(MembersOf(s, stored))
              /\ sessions[s].tokens = Tokens(MembersOf(s, stored))
    BY DEF RowsAgree
  <2>1. MembersOf(s, stored) = {}
    BY <1>1 DEF MembersOf
  <2>. QED BY <1>1, <1>4, <2>1 DEF NoRow
<1>. QED BY <1>2, <1>3, <1>5 DEF LedgerFacts

(* An append keeps them: the row of a session takes on the event that      *)
(* joins its members.                                                      *)
LEMMA AppendKeepsFacts ==
  ASSUME LedgerFacts, NEW e \in Events, AppendEvent(e)
  PROVE  LedgerFacts' /\ e \notin stored /\ stored' = stored \cup {e}
<1>1. /\ stored \in SUBSET Events /\ IsFiniteSet(stored) /\ e \notin stored
      /\ stored' = stored \cup {e} /\ tagRows' = tagRows \cup TagRows(e)
      /\ sessions' = WithSession(sessions, e)
      /\ sessions \in [Sessions -> SessionRow]
  BY DEF LedgerFacts, TypeOK, AppendEvent
<1>2. IsFiniteSet(stored')
  BY <1>1, FS_AddElement
<1>3. TypeOK'
  <2>1. TagRows(e) \subseteq ({IdOf[f] : f \in Events} \X TagKeys)
    BY EventsAssumption DEF TagRows
  <2>2. ASSUME NEW row \in SessionRow PROVE Upserted(row, e) \in SessionRow
    BY EventsAssumption DEF Upserted, SessionRow
  <2>3. sessions' \in [Sessions -> SessionRow]
    BY <1>1, <2>2 DEF WithSession
  <2>. QED BY <1>1, <2>1, <2>3 DEF LedgerFacts, TypeOK
<1>4. IdsAreUnique' /\ TagsAreComplete'
  BY <1>1 DEF LedgerFacts, IdsAreUnique, TagsAreComplete, AppendEvent
<1>5. RowsAgree'
  <2>. SUFFICES ASSUME NEW s \in Sessions
       PROVE  /\ sessions'[s].count = Cardinality(MembersOf(s, stored'))
              /\ sessions'[s].tokens = Tokens(MembersOf(s, stored'))
    BY DEF RowsAgree
  <2>. DEFINE old == MembersOf(s, stored)
  <2>1. /\ old \in SUBSET Events /\ IsFiniteSet(old)
        /\ Cardinality(old) \in Nat /\ e \notin old
        /\ sessions[s].count = Cardinality(old)
        /\ sessions[s].tokens = Tokens(old)
    <3>1. e \notin old
      BY <1>1 DEF MembersOf
    <3>. QED BY <1>1, <3>1, MembersAre DEF LedgerFacts, RowsAgree
  <2>2. CASE SessionOf[e] = s
    <3>1. MembersOf(s, stored') = old \cup {e}
      BY <1>1, <2>2 DEF MembersOf
    <3>2. /\ sessions'[s].count = sessions[s].count + 1
          /\ sessions'[s].tokens = sessions[s].tokens + TokensOf[e]
      BY <1>1, <2>2 DEF WithSession, Upserted
    <3>. HIDE DEF old
    <3>3. Cardinality(old \cup {e}) = Cardinality(old) + 1
      BY <2>1, FS_AddElement
    <3>. QED BY <2>1, <3>1, <3>2, <3>3, TokensAdd
  <2>3. CASE SessionOf[e] # s
    <3>1. MembersOf(s, stored') = old
      BY <1>1, <2>3 DEF MembersOf
    <3>2. sessions'[s] = sessions[s]
      BY <1>1, <2>3 DEF WithSession
    <3>. QED BY <2>1, <3>1, <3>2
  <2>. QED BY <2>2, <2>3
<1>. QED BY <1>1, <1>2, <1>3, <1>4, <1>5 DEF LedgerFacts

(* The counts of some of a breakdown's groups add up to the requests that  *)
(* fall into them: a request falls into one.                               *)
LEMMA GroupsAddUp ==
  ASSUME IsFiniteSet(stored), NEW f, NEW column,
         NEW T \in SUBSET Groups(f, column)
  PROVE  SumOfCounts(T) =
           Cardinality({e \in Matching(f) : \E g \in T : Key(e, column) = g.key})
<1>. DEFINE In(s) == {e \in Matching(f) : \E g \in s : Key(e, column) = g.key}
            w == [g \in T |-> g.count]
            h == [s \in SUBSET T |-> Cardinality(In(s))]
<1>1. IsFiniteSet(Matching(f))
  BY FS_Subset DEF Matching
<1>2. \A s : IsFiniteSet(In(s)) /\ Cardinality(In(s)) \in Nat
  BY <1>1, FS_Subset, FS_CardinalityType
<1>3. \A g \in T :
        /\ g.count = Cardinality({e \in Matching(f) : Key(e, column) = g.key})
        /\ \A k \in T : k.key = g.key => k = g
  <2>. DEFINE of(k) == {e \in Matching(f) : Key(e, column) = k}
              group(k) == [key |-> k, count |-> Cardinality(of(k)),
                           tokens |-> Tokens(of(k))]
  <2>1. \A g \in T : \E k : g = group(k)
    BY DEF Groups
  <2>2. \A k : group(k).key = k /\ group(k).count = Cardinality(of(k))
    OBVIOUS
  <2>. HIDE DEF group
  <2>. QED BY <2>1, <2>2
<1>4. ASSUME NEW s \in SUBSET T, s # {}
      PROVE  Cardinality(In(s)) = w[Pick(s)] + Cardinality(In(s \ {Pick(s)}))
  <2>. DEFINE x == Pick(s)
              own == {e \in Matching(f) : Key(e, column) = x.key}
  <2>1. x \in s
    BY <1>4 DEF Pick
  <2>2. In(s) = own \cup In(s \ {x}) /\ own \cap In(s \ {x}) = {}
    BY <1>3, <2>1
  <2>3. w[x] = Cardinality(own)
    BY <1>3, <2>1
  <2>4. IsFiniteSet(own) /\ Cardinality(own) \in Nat
    BY <1>1, FS_Subset, FS_CardinalityType
  <2>5. IsFiniteSet(In(s \ {x})) /\ Cardinality(In(s \ {x})) \in Nat
    BY <1>2
  <2>. HIDE DEF x, own, In, w
  <2>6. Cardinality(own \cup In(s \ {x})) =
          Cardinality(own) + Cardinality(In(s \ {x}))
            - Cardinality(own \cap In(s \ {x}))
    BY <2>4, <2>5, FS_Union
  <2>7. Cardinality(In(s)) = Cardinality(own) + Cardinality(In(s \ {x})) - 0
    BY <2>2, <2>6, FS_EmptySet, Zenon
  <2>. QED BY <2>3, <2>4, <2>5, <2>7 DEF x
<1>5. In({}) = {} /\ Cardinality(In({})) = 0
  BY FS_EmptySet
<1>6. IsSum(w, h, T)
  <2>. HIDE DEF w, In
  <2>. QED BY <1>4, <1>5 DEF IsSum
<1>7. IsFiniteSet(T)
  <2>. DEFINE keyOf == [e \in Matching(f) |-> Key(e, column)]
              groupOf == [e \in Matching(f) |->
                LET es == {d \in Matching(f) : Key(d, column) = Key(e, column)}
                IN [key |-> Key(e, column), count |-> Cardinality(es),
                    tokens |-> Tokens(es)]]
              all == {groupOf[e] : e \in Matching(f)}
  <2>1. Groups(f, column) \subseteq all
    BY DEF Groups
  <2>2. IsFiniteSet(all)
    <3>. HIDE DEF groupOf
    <3>. QED BY <1>1, ImageIsFinite
  <2>. HIDE DEF all
  <2>. QED BY <2>1, <2>2, FS_Subset
<1>8. SumOver(w, T) = h[T]
  <2>. HIDE DEF w, h
  <2>. QED BY <1>6, <1>7, SumIs
<1>. QED BY <1>8, CountsAreSums

-----------------------------------------------------------------------------
(* Plans *)

(* What is left, t, are m queries for rows that have been returned, and    *)
(* then the plan P from its k-th query on.                                 *)
Follows(t, P, k, m) ==
  /\ \E S : t \in Seq(S)
  /\ k \in 1 .. Len(P) + 1 /\ m \in Nat
  /\ Len(t) = m + (Len(P) + 1 - k)
  /\ \A i \in 1 .. m : t[i].name \in {"clients", "tags"}
  /\ \A i \in k .. Len(P) : t[m + 1 + (i - k)] = P[i]

(* What a sequence looks like when its head is replaced by u.              *)
LEMMA Joined ==
  ASSUME NEW S, NEW t, t \in Seq(S), t # <<>>, NEW R, NEW u, u \in Seq(R)
  PROVE  LET v == u \o Tail(t) IN
         /\ v \in Seq(R \cup S)
         /\ Len(t) \in Nat \ {0} /\ Len(u) \in Nat /\ Len(v) = Len(u) + Len(t) - 1
         /\ \A i \in 1 .. Len(u) : v[i] = u[i]
         /\ \A i \in 2 .. Len(t) : v[Len(u) + i - 1] = t[i]
         /\ Head(t) = t[1]
<1>1. t \in Seq(R \cup S) /\ u \in Seq(R \cup S)
  BY SeqMonotonic
<1>. QED BY <1>1

(* A query for a row that was returned is taken: the plan stays.           *)
LEMMA OwnQuery ==
  ASSUME NEW P, Len(P) \in Nat, NEW t, NEW k, NEW m, Follows(t, P, k, m),
         t # <<>>, m > 0
  PROVE  /\ Head(t).name \in {"clients", "tags"}
         /\ Follows(<<>> \o Tail(t), P, k, m - 1)
<1>1. PICK S : t \in Seq(S)
  BY DEF Follows
<1>. DEFINE v == <<>> \o Tail(t)
<1>2. <<>> \in Seq({}) /\ Len(<<>>) = 0
  OBVIOUS
<1>3. /\ v \in Seq({} \cup S) /\ Len(v) = Len(t) - 1 /\ Head(t) = t[1]
      /\ \A i \in 2 .. Len(t) : v[i - 1] = t[i]
      /\ Len(t) \in Nat
  BY <1>1, <1>2, Joined
<1>. HIDE DEF v
<1>4. /\ k \in 1 .. Len(P) + 1 /\ m \in Nat /\ m - 1 \in Nat
      /\ Len(t) = m + (Len(P) + 1 - k)
  BY DEF Follows
<1>5. Len(v) = (m - 1) + (Len(P) + 1 - k)
  BY <1>3, <1>4
<1>6. \A i \in 1 .. m - 1 : v[i].name \in {"clients", "tags"}
  <2>. SUFFICES ASSUME NEW i \in 1 .. m - 1 PROVE v[i] = t[i + 1] /\ i + 1 \in 1 .. m
    BY DEF Follows
  <2>1. i + 1 \in 2 .. Len(t) /\ i + 1 \in 1 .. m /\ (i + 1) - 1 = i
    BY <1>4
  <2>. QED BY <1>3, <2>1
<1>7. \A i \in k .. Len(P) : v[(m - 1) + 1 + (i - k)] = P[i]
  <2>. SUFFICES ASSUME NEW i \in k .. Len(P)
                PROVE v[(m - 1) + 1 + (i - k)] = t[m + 1 + (i - k)]
    BY DEF Follows
  <2>. DEFINE j == m + 1 + (i - k)
  <2>1. j \in 2 .. Len(t) /\ j - 1 = (m - 1) + 1 + (i - k)
    BY <1>4
  <2>. QED BY <1>3, <2>1
<1>8. Head(t).name \in {"clients", "tags"}
  BY <1>3, <1>4 DEF Follows
<1>. QED BY <1>3, <1>4, <1>5, <1>6, <1>7, <1>8 DEF Follows, v

(* Without any, the next query is the plan's k-th;                         *)
LEMMA PlannedHead ==
  ASSUME NEW P, Len(P) \in Nat, NEW t, NEW k, Follows(t, P, k, 0), t # <<>>
  PROVE  k \in 1 .. Len(P) /\ Head(t) = P[k] /\ Len(t) = Len(P) + 1 - k
<1>1. PICK S : t \in Seq(S)
  BY DEF Follows
<1>2. k \in 1 .. Len(P) + 1 /\ Len(t) = Len(P) + 1 - k
  BY DEF Follows
<1>3. Len(t) \in Nat \ {0} /\ Head(t) = t[1]
  BY <1>1
<1>4. k \in 1 .. Len(P)
  BY <1>2, <1>3
<1>5. k \in k .. Len(P) /\ 0 + 1 + (k - k) = 1
  BY <1>4
<1>6. t[1] = P[k]
  BY <1>5 DEF Follows
<1>. QED BY <1>2, <1>3, <1>4, <1>6

(* when it is taken, with u put before the rest, the plan has moved on.    *)
LEMMA PlannedRest ==
  ASSUME NEW P, Len(P) \in Nat, NEW t, NEW k, Follows(t, P, k, 0), t # <<>>,
         NEW R, NEW u, u \in Seq(R),
         \A i \in 1 .. Len(u) : u[i].name \in {"clients", "tags"}
  PROVE  Follows(u \o Tail(t), P, k + 1, Len(u))
<1>1. PICK S : t \in Seq(S)
  BY DEF Follows
<1>2. k \in 1 .. Len(P) /\ Len(t) = Len(P) + 1 - k
  BY PlannedHead
<1>. DEFINE v == u \o Tail(t)
<1>3. /\ v \in Seq(R \cup S)
      /\ Len(t) \in Nat \ {0} /\ Len(u) \in Nat /\ Len(v) = Len(u) + Len(t) - 1
      /\ \A i \in 1 .. Len(u) : v[i] = u[i]
      /\ \A i \in 2 .. Len(t) : v[Len(u) + i - 1] = t[i]
  BY <1>1, Joined
<1>. HIDE DEF v
<1>4. k + 1 \in 1 .. Len(P) + 1 /\ Len(v) = Len(u) + (Len(P) + 1 - (k + 1))
  BY <1>2, <1>3
<1>5. \A i \in k + 1 .. Len(P) : v[Len(u) + 1 + (i - (k + 1))] = P[i]
  <2>. SUFFICES ASSUME NEW i \in k + 1 .. Len(P)
                PROVE  v[Len(u) + 1 + (i - (k + 1))] = P[i]
    OBVIOUS
  <2>. DEFINE j == 0 + 1 + (i - k)
  <2>0. Len(u) \in Nat
    BY <1>3
  <2>1. /\ j \in 2 .. Len(t) /\ i \in k .. Len(P)
        /\ Len(u) + j - 1 = Len(u) + 1 + (i - (k + 1))
    BY <1>2, <2>0
  <2>2. t[j] = P[i]
    BY <2>1 DEF Follows
  <2>3. v[Len(u) + j - 1] = t[j]
    BY <1>3, <2>1
  <2>. QED BY <2>1, <2>2, <2>3
<1>6. \A i \in 1 .. Len(u) : v[i].name \in {"clients", "tags"}
  BY <1>3
<1>. QED BY <1>3, <1>4, <1>5, <1>6 DEF Follows, v

(* The queries that remain when the head is replaced by u.                 *)
LEMMA NextQueries ==
  ASSUME NEW S, NEW t, t \in Seq(S), t # <<>>, NEW R, NEW u, u \in Seq(R)
  PROVE  /\ ToSet(u \o Tail(t)) = ToSet(u) \cup ToSet(Tail(t))
         /\ ToSet(t) = {Head(t)} \cup ToSet(Tail(t))
<1>. DEFINE v == u \o Tail(t)
<1>1. /\ v \in Seq(R \cup S)
      /\ Len(t) \in Nat \ {0} /\ Len(u) \in Nat /\ Len(v) = Len(u) + Len(t) - 1
      /\ \A i \in 1 .. Len(u) : v[i] = u[i]
      /\ \A i \in 2 .. Len(t) : v[Len(u) + i - 1] = t[i]
      /\ Head(t) = t[1]
  BY Joined
<1>2. /\ Tail(t) \in Seq(S) /\ Len(Tail(t)) = Len(t) - 1
      /\ \A i \in 1 .. Len(t) - 1 : Tail(t)[i] = t[i + 1]
  OBVIOUS
<1>3. /\ DOMAIN v = 1 .. Len(v) /\ DOMAIN u = 1 .. Len(u)
      /\ DOMAIN t = 1 .. Len(t) /\ DOMAIN Tail(t) = 1 .. Len(t) - 1
  BY <1>1, <1>2
<1>4. ToSet(v) = ToSet(u) \cup ToSet(Tail(t))
  <2>. HIDE DEF v
  <2>. DEFINE r == Tail(t)
  <2>. HIDE DEF r
  <2>1. ASSUME NEW i \in 1 .. Len(v) PROVE v[i] \in ToSet(u) \cup ToSet(r)
    <3>1. CASE i <= Len(u)
      <4>1. i \in 1 .. Len(u)
        BY <1>1, <3>1
      <4>. QED BY <1>1, <1>3, <4>1 DEF ToSet
    <3>2. CASE i > Len(u)
      <4>. DEFINE j == i - Len(u)
      <4>1. j + 1 \in 2 .. Len(t) /\ j \in 1 .. Len(t) - 1 /\ Len(u) + (j + 1) - 1 = i
        BY <1>1, <3>2
      <4>2. v[i] = t[j + 1] /\ r[j] = t[j + 1]
        BY <1>1, <1>2, <4>1 DEF r
      <4>. QED BY <1>3, <4>1, <4>2 DEF ToSet, r
    <3>. QED BY <1>1, <3>1, <3>2
  <2>2. ASSUME NEW i \in 1 .. Len(u) PROVE u[i] \in ToSet(v)
    BY <1>1, <1>3 DEF ToSet
  <2>3. ASSUME NEW i \in 1 .. Len(t) - 1 PROVE r[i] \in ToSet(v)
    <3>. DEFINE j == Len(u) + (i + 1) - 1
    <3>1. i + 1 \in 2 .. Len(t) /\ j \in 1 .. Len(v)
      BY <1>1
    <3>2. r[i] = v[j]
      BY <1>1, <1>2, <3>1 DEF r
    <3>. QED BY <1>3, <3>1, <3>2 DEF ToSet
  <2>. QED BY <1>3, <2>1, <2>2, <2>3 DEF ToSet, r
<1>5. ToSet(t) = {Head(t)} \cup ToSet(Tail(t))
  <2>1. ASSUME NEW i \in 1 .. Len(t) PROVE t[i] \in {Head(t)} \cup ToSet(Tail(t))
    <3>1. CASE i = 1
      BY <1>1, <3>1
    <3>2. CASE i # 1
      <4>1. i - 1 \in 1 .. Len(t) - 1 /\ (i - 1) + 1 = i
        BY <1>1, <3>2
      <4>. QED BY <1>2, <1>3, <4>1 DEF ToSet
    <3>. QED BY <3>1, <3>2
  <2>2. ASSUME NEW i \in 1 .. Len(t) - 1 PROVE Tail(t)[i] \in ToSet(t)
    BY <1>1, <1>2, <1>3 DEF ToSet
  <2>3. t[1] \in ToSet(t)
    BY <1>1, <1>3 DEF ToSet
  <2>. QED BY <1>1, <1>3, <2>1, <2>2, <2>3 DEF ToSet
<1>. QED BY <1>4, <1>5

(* A finite set as a sequence has its elements.                            *)
LEMMA SetAsSeq ==
  ASSUME NEW S, IsFiniteSet(S)
  PROVE  SetToSeq(S) \in Seq(S) /\ ToSet(SetToSeq(S)) = S /\ Len(SetToSeq(S)) \in Nat
<1>. DEFINE n == Cardinality(S)
            f == SetToSeq(S)
<1>1. n \in Nat /\ ExistsBijection(1 .. n, S)
  BY FS_CardinalityType
<1>2. \E g \in [1 .. n -> S] : IsInjective(g)
  BY <1>1 DEF ExistsBijection, Bijection, Injection
<1>3. f \in [1 .. n -> S] /\ IsInjective(f)
  BY <1>2 DEF SetToSeq
<1>4. f \in Surjection(1 .. n, S)
  <2>1. f \in Injection(1 .. n, S)
    BY <1>3 DEF Injection
  <2>2. Cardinality(1 .. n) = n
    <3>1. 1 \in Int /\ n \in Int /\ n - 1 + 1 = n /\ (1 > n => n = 0)
      BY <1>1
    <3>. QED BY <3>1, FS_Interval
  <2>. HIDE DEF n, f
  <2>3. Cardinality(1 .. n) = Cardinality(S)
    BY <2>2 DEF n
  <2>. QED BY <2>1, <2>3, FS_Injection
<1>5. f \in Seq(S) /\ Len(f) = n
  <2>. HIDE DEF n, f
  <2>. QED BY <1>1, <1>3
<1>6. DOMAIN f = 1 .. n /\ \A s \in S : \E i \in 1 .. n : f[i] = s
  BY <1>3, <1>4 DEF Surjection
<1>7. \A i \in 1 .. n : f[i] \in S
  BY <1>3
<1>. HIDE DEF f, n
<1>. QED BY <1>1, <1>5, <1>6, <1>7 DEF ToSet, f

-----------------------------------------------------------------------------
(* What every query leaves true, whichever call it is of *)

TotalsRow == [count : Nat, tokens : Nat, active : Nat]

GroupRow == [key : Listeners \cup Clients, count : Nat, tokens : Nat]

SessionItem == [id : Sessions, count : Nat \ {0}, tokens : Nat,
                clients : SUBSET Clients]

AnswerType ==
  [totals : Seq(TotalsRow), breakdown : [Columns -> SUBSET GroupRow],
   sessions : SUBSET SessionItem, requests : SUBSET Events,
   tags : [Events -> SUBSET TagKeys]]

AnswerFits ==
  /\ answer \in AnswerType /\ answer.requests \subseteq stored
  /\ \A column \in Columns :
       Cardinality(answer.breakdown[column]) <= BreakdownLimit

CallFits ==
  \/ call = NoCall
  \/ \E kind \in Kinds, f \in Filters :
       /\ kind = "session" => f.session \in Sessions
       /\ call = [kind |-> kind, filter |-> FilterOf(kind, f)]

(* f and g ask for the same of a session's requests. *)
SameQuestion(f, g) ==
  f.client = g.client /\ f.after = g.after /\ f.before = g.before

(* A query of a call with filter f *)
QueryFits(q, f, rows) ==
  /\ q.filter \in RequestFilter
  /\ q.name = "tags" => q.of \in rows
  /\ q.name = "row" => q.of \in Sessions
  /\ q.name \in {"clients", "sessions"} => SameQuestion(q.filter, f)

QueriesFit ==
  /\ \E S : todo \in Seq(S)
  /\ \A q \in ToSet(todo) : QueryFits(q, call.filter, stored)

(* The tags of a request are read, or will be. *)
TagsFit ==
  \A e \in answer.requests :
    \/ answer.tags[e] = TagsOf[e]
    \/ \E q \in ToSet(todo) : q.name = "tags" /\ q.of = e

(* The client types of the requests a session had when the call began *)
ClientsBegun(s) ==
  {ClientOf[e] : e \in MembersOf(s, begun) \cap Matching(call.filter)}
    \ {NoClient}

ClientsFit ==
  \A item \in answer.sessions :
    \/ item.clients = {}
    \/ ClientsBegun(item.id) \subseteq item.clients /\ IsFiniteSet(item.clients)

ListsInv ==
  /\ LedgerFacts /\ begun \subseteq stored
  /\ AnswerFits /\ CallFits /\ QueriesFit /\ TagsFit /\ ClientsFit

(* What a filter matches are finitely many stored events.                  *)
LEMMA MatchingAre ==
  ASSUME LedgerFacts, NEW f
  PROVE  /\ Matching(f) \subseteq stored /\ Matching(f) \in SUBSET Events
         /\ IsFiniteSet(Matching(f)) /\ Cardinality(Matching(f)) \in Nat
BY FS_Subset, FS_CardinalityType DEF Matching, LedgerFacts, TypeOK

(* Finitely many events have a natural number of tokens.                   *)
LEMMA TokensAreNat ==
  ASSUME NEW S \in SUBSET Events, IsFiniteSet(S)
  PROVE  Tokens(S) \in Nat
<1>1. \A x \in S : TokensOf[x] \in Nat
  BY EventsAssumption
<1>. QED BY <1>1, SumExists, TokensAreSums, UnitsAreFinite

(* ORDER BY ... LIMIT n of S, whatever the order: T is what it returns.    *)
LEMMA FirstsAre ==
  ASSUME NEW S, IsFiniteSet(S), NEW n \in Nat,
         NEW T \in kSubset(IF Cardinality(S) < n THEN Cardinality(S) ELSE n, S)
  PROVE  /\ T \subseteq S /\ IsFiniteSet(T) /\ Cardinality(S) \in Nat
         /\ Cardinality(T) = IF Cardinality(S) < n THEN Cardinality(S) ELSE n
         /\ Cardinality(S) <= n => T = S
<1>1. T \subseteq S /\ Cardinality(S) \in Nat
      /\ Cardinality(T) = IF Cardinality(S) < n THEN Cardinality(S) ELSE n
  BY FS_CardinalityType DEF kSubset
<1>2. IsFiniteSet(T)
  BY <1>1, FS_Subset
<1>3. Cardinality(S) <= n => Cardinality(T) = Cardinality(S)
  BY <1>1
<1>4. Cardinality(S) <= n => T = S
  BY <1>1, <1>3, FS_Subset
<1>. QED BY <1>1, <1>2, <1>4

(* The totals of a filter count what it matches.                           *)
LEMMA TotalsAre ==
  ASSUME LedgerFacts, NEW f
  PROVE  Totals(f) \in TotalsRow /\ Totals(f).count = Cardinality(Matching(f))
<1>1. Cardinality(Matching(f)) \in Nat /\ Tokens(Matching(f)) \in Nat
  BY MatchingAre, TokensAreNat
<1>. DEFINE ids == {SessionOf[e] : e \in Matching(f)}
<1>2. IsFiniteSet(Matching(f))
  BY MatchingAre
<1>3. IsFiniteSet(ids)
  BY <1>2, ImageIsFinite
<1>. HIDE DEF ids
<1>4. Cardinality(ids \ {NoSession}) \in Nat
  BY <1>3, FS_Subset, FS_CardinalityType
<1>. QED BY <1>1, <1>4 DEF Totals, TotalsRow, ids

(* A breakdown has one group for each key that is not blank.               *)
LEMMA GroupsAre ==
  ASSUME LedgerFacts, NEW f, NEW column \in Columns
  PROVE  /\ IsFiniteSet(Groups(f, column)) /\ Groups(f, column) \subseteq GroupRow
         /\ \A g \in Groups(f, column) :
              \E e \in Matching(f) : g.key = Key(e, column) /\ g.key # NoClient
         /\ \A e \in Matching(f) :
              Key(e, column) # NoClient =>
                \E g \in Groups(f, column) : g.key = Key(e, column)
         /\ \A g, h \in Groups(f, column) : g.key = h.key => g = h
<1>. DEFINE of(k) == {e \in Matching(f) : Key(e, column) = k}
            group(k) == [key |-> k, count |-> Cardinality(of(k)),
                         tokens |-> Tokens(of(k))]
            groupOf == [e \in Matching(f) |-> group(Key(e, column))]
            all == {groupOf[e] : e \in Matching(f)}
<1>1. Groups(f, column) =
        {group(k) : k \in {Key(e, column) : e \in Matching(f)} \ {NoClient}}
  BY DEF Groups
<1>2. IsFiniteSet(all)
  <2>1. IsFiniteSet(Matching(f))
    BY MatchingAre
  <2>. HIDE DEF groupOf
  <2>. QED BY <2>1, ImageIsFinite
<1>3. Groups(f, column) \subseteq all
  <2>. HIDE DEF group
  <2>. QED BY <1>1
<1>4. \A k : of(k) \in SUBSET Events /\ IsFiniteSet(of(k))
  BY MatchingAre, FS_Subset
<1>5. \A k : Cardinality(of(k)) \in Nat /\ Tokens(of(k)) \in Nat
  <2>. HIDE DEF of
  <2>. QED BY <1>4, FS_CardinalityType, TokensAreNat
<1>6. \A e \in Matching(f) : Key(e, column) \in Listeners \cup Clients \cup {NoClient}
  BY MatchingAre, EventsAssumption, ReadsAssumption DEF Key
<1>7. \A k : group(k).key = k
  OBVIOUS
<1>8. \A k \in Listeners \cup Clients : group(k) \in GroupRow
  <2>. HIDE DEF of
  <2>. QED BY <1>5 DEF GroupRow
<1>. HIDE DEF group, all
<1>. QED BY <1>1, <1>2, <1>3, <1>6, <1>7, <1>8, FS_Subset

(* A list of sessions names sessions only, each with a request.            *)
LEMMA SessionGroupsAre ==
  ASSUME LedgerFacts, NEW f
  PROVE  /\ IsFiniteSet(SessionGroups(f)) /\ SessionGroups(f) \subseteq SessionItem
         /\ \A item \in SessionGroups(f) : item.clients = {}
<1>. DEFINE of(k) == MembersOf(k, Matching(f))
            group(k) == [id |-> k, count |-> Cardinality(of(k)),
                         tokens |-> Tokens(of(k)), clients |-> {}]
            groupOf == [e \in Matching(f) |-> group(SessionOf[e])]
            all == {groupOf[e] : e \in Matching(f)}
<1>1. SessionGroups(f) =
        {group(k) : k \in {SessionOf[e] : e \in Matching(f)} \ {NoSession}}
  BY DEF SessionGroups
<1>2. IsFiniteSet(Matching(f))
  BY MatchingAre
<1>3. IsFiniteSet(all)
  <2>. HIDE DEF groupOf
  <2>. QED BY <1>2, ImageIsFinite
<1>4. SessionGroups(f) \subseteq all
  <2>. HIDE DEF group
  <2>. QED BY <1>1
<1>5. \A k : of(k) \in SUBSET Events /\ IsFiniteSet(of(k))
  BY MatchingAre, FS_Subset DEF MembersOf
<1>6. \A k : Cardinality(of(k)) \in Nat /\ Tokens(of(k)) \in Nat
  <2>. HIDE DEF of
  <2>. QED BY <1>5, FS_CardinalityType, TokensAreNat
<1>7. \A e \in Matching(f) : /\ SessionOf[e] \in Sessions \cup {NoSession}
                             /\ of(SessionOf[e]) # {}
  BY MatchingAre, EventsAssumption DEF MembersOf
<1>8. \A e \in Matching(f) : Cardinality(of(SessionOf[e])) # 0
  <2>. HIDE DEF of
  <2>. QED BY <1>5, <1>7, FS_EmptySet
<1>9. \A e \in Matching(f) :
        SessionOf[e] # NoSession => group(SessionOf[e]) \in SessionItem
  <2>. HIDE DEF of
  <2>. QED BY <1>6, <1>7, <1>8 DEF SessionItem
<1>10. \A k : group(k).clients = {}
  OBVIOUS
<1>. HIDE DEF group, all
<1>. QED BY <1>1, <1>3, <1>4, <1>9, <1>10, FS_Subset

(* The filter a call works with, which some calls fix themselves.          *)
LEMMA FilterOfIs ==
  ASSUME NEW kind \in Kinds, NEW f \in RequestFilter,
         kind = "session" => f.session \in Sessions
  PROVE  /\ FilterOf(kind, f) \in RequestFilter
         /\ kind \in {"overview", "stats"} =>
              FilterOf(kind, f) = Everything(OverviewLimit)
         /\ kind = "session" =>
              /\ FilterOf(kind, f) =
                   OfSession(f.session, Everything(DetailLimit))
              /\ FilterOf(kind, f).session = f.session
<1>1. Everything(OverviewLimit) \in RequestFilter
  BY ReadsAssumption DEF Everything, RequestFilter
<1>2. OfSession(f.session, Everything(DetailLimit)) \in RequestFilter
      /\ OfSession(f.session, Everything(DetailLimit)).session = f.session
  BY ReadsAssumption DEF OfSession, Everything, RequestFilter
<1>. QED BY <1>1, <1>2 DEF FilterOf

(* The plan of a call, and what its queries ask *)
LEMMA PlanFits ==
  ASSUME NEW kind \in Kinds, NEW f \in RequestFilter,
         kind = "session" => f.session \in Sessions
  PROVE  LET P == Plan(kind, f) IN
         /\ \E S : P \in Seq(S)
         /\ \A q \in ToSet(P) : /\ QueryFits(q, FilterOf(kind, f), {})
                                /\ q.name # "tags"
<1>. DEFINE Fits(q) == QueryFits(q, FilterOf(kind, f), {}) /\ q.name # "tags"
<1>1. \A i \in {0, OverviewLimit, DetailLimit} : Everything(i) \in RequestFilter
  BY ReadsAssumption DEF Everything, RequestFilter
<1>2. Since(DayStart) \in RequestFilter /\ Since(WeekStart) \in RequestFilter
  BY ReadsAssumption DEF Since, Everything, RequestFilter
<1>3. FilterOf(kind, f) \in RequestFilter
  BY FilterOfIs
<1>4. CASE kind = "summary"
  <2>1. Plan(kind, f) = SummaryPlan(f)
    BY <1>4 DEF Plan
  <2>2. \A q : q \in {On("totals", f), Breakdown(f, "listener_name"),
                      Breakdown(f, "client_type")} => Fits(q)
    BY DEF On, Breakdown, Query, QueryFits
  <2>3. SummaryPlan(f) \in Seq({On("totals", f), Breakdown(f, "listener_name"),
                      Breakdown(f, "client_type")})
    BY DEF SummaryPlan
  <2>. QED BY <2>1, <2>2, <2>3 DEF ToSet
<1>5. CASE kind \in {"sessions", "requests"}
  <2>1. Plan(kind, f) = <<On(kind, f)>> /\ FilterOf(kind, f) = f
    BY <1>5 DEF Plan, FilterOf
  <2>2. Fits(On(kind, f))
    BY <2>1, <1>5 DEF On, Query, QueryFits, SameQuestion
  <2>3. Plan(kind, f) \in Seq({On(kind, f)})
    BY <2>1
  <2>. QED BY <2>2, <2>3 DEF ToSet
<1>6. CASE kind = "session"
  <2>. DEFINE g == OfSession(f.session, Everything(DetailLimit))
              S == {Query("row", Everything(0), f.session),
                    Query("clients", Everything(0), f.session),
                    Query("requests", g, NoSession)}
  <2>1. Plan(kind, f) = SessionPlan(f.session) /\ FilterOf(kind, f) = g
    BY <1>6, FilterOfIs DEF Plan
  <2>2. SameQuestion(Everything(0), g)
    BY DEF SameQuestion, OfSession, Everything
  <2>3. \A q \in S : Fits(q)
    <3>. HIDE DEF g
    <3>. QED BY <1>1, <1>3, <1>6, <2>1, <2>2 DEF Query, QueryFits
  <2>4. SessionPlan(f.session) \in Seq(S)
    BY DEF SessionPlan
  <2>. HIDE DEF S
  <2>. QED BY <2>1, <2>3, <2>4 DEF ToSet
<1>7. CASE kind \in {"overview", "stats"}
  <2>. DEFINE S == {On("totals", All), Breakdown(All, "listener_name"),
                    Breakdown(All, "client_type"),
                    On("totals", Since(DayStart)), On("totals", Since(WeekStart)),
                    On("rows", Since(WeekStart)),
                    On("sessions", Recent), On("requests", Recent)}
  <2>1. Plan(kind, f) \in {OverviewPlan, StatsPlan} /\ FilterOf(kind, f) = Recent
    BY <1>7, FilterOfIs DEF Plan, Recent
  <2>2. OverviewPlan \in Seq(S) /\ StatsPlan \in Seq(S)
    BY DEF OverviewPlan, StatsPlan
  <2>3. All \in RequestFilter /\ Recent \in RequestFilter /\ SameQuestion(Recent, Recent)
    BY <1>1 DEF All, Recent, SameQuestion
  <2>4. \A q \in S : Fits(q)
    BY <1>2, <2>1, <2>3 DEF On, Breakdown, Query, QueryFits
  <2>. HIDE DEF S
  <2>. QED BY <2>1, <2>2, <2>4 DEF ToSet
<1>. QED BY <1>4, <1>5, <1>6, <1>7 DEF Kinds

(* The queries that are left when none is.                                 *)
LEMMA NoMore == <<>> \in Seq({}) /\ ToSet(<<>>) = {}
BY DEF ToSet

(* The ledger's facts hold as long as it is left alone.                    *)
LEMMA LedgerStays == LedgerFacts /\ UNCHANGED ledgerVars => LedgerFacts'
BY DEF LedgerFacts, ledgerVars, TypeOK, IdsAreUnique, TagsAreComplete, RowsAgree

(* The answer of a call that has read nothing has its type,                *)
LEMMA NoAnswerFits ==
  NoAnswer \in AnswerType /\ \A c \in Columns : NoAnswer.breakdown[c] = {}
<1>1. \A c \in Columns : {} \in SUBSET GroupRow
  OBVIOUS
<1>2. <<>> \in Seq(TotalsRow)
  OBVIOUS
<1>3. [c \in Columns |-> {}] \in [Columns -> SUBSET GroupRow]
  OBVIOUS
<1>4. [e \in Events |-> {}] \in [Events -> SUBSET TagKeys]
  OBVIOUS
<1>. QED BY <1>2, <1>3, <1>4 DEF NoAnswer, AnswerType

(* and nothing in it.                                                      *)
LEMMA FreshAnswerFits ==
         /\ NoAnswer \in AnswerType /\ NoAnswer.requests = {}
         /\ NoAnswer.sessions = {}
         /\ \A c \in Columns :
              Cardinality(NoAnswer.breakdown[c]) <= BreakdownLimit
<1>1. NoAnswer.requests = {} /\ NoAnswer.sessions = {}
  BY DEF NoAnswer
<1>2. Cardinality({}) = 0 /\ BreakdownLimit \in Nat
  BY FS_EmptySet, ReadsAssumption
<1>. QED BY <1>1, <1>2, NoAnswerFits

(* The invariant holds when the service starts,                            *)
LEMMA ListsStart == ReadsInit => ListsInv
<1>. SUFFICES ASSUME ReadsInit PROVE ListsInv
  OBVIOUS
<1>1. /\ LedgerFacts /\ call = NoCall /\ todo = <<>> /\ answer = NoAnswer
      /\ begun = {}
  BY LedgerStarts DEF ReadsInit
<1>2. AnswerFits /\ TagsFit /\ ClientsFit
  BY <1>1, FreshAnswerFits DEF AnswerFits, TagsFit, ClientsFit
<1>. QED BY <1>1, <1>2, NoMore DEF ListsInv, CallFits, QueriesFit

(* when a call ends, answered or not,                                      *)
LEMMA EndKeepsLists ==
  ASSUME ListsInv, EndCall
  PROVE  ListsInv'
<1>1. /\ LedgerFacts' /\ call' = NoCall /\ todo' = <<>> /\ answer' = NoAnswer
      /\ begun' = {}
  BY LedgerStays DEF EndCall, ListsInv
<1>2. AnswerFits' /\ TagsFit' /\ ClientsFit'
  BY <1>1, FreshAnswerFits DEF AnswerFits, TagsFit, ClientsFit
<1>. QED BY <1>1, <1>2, NoMore DEF ListsInv, CallFits, QueriesFit

(* when one begins, with the plan of its kind,                             *)
LEMMA CallKeepsLists ==
  ASSUME ListsInv, NEW kind \in Kinds, NEW f \in Filters, Call(kind, f)
  PROVE  ListsInv'
<1>1. /\ LedgerFacts' /\ call' = [kind |-> kind, filter |-> FilterOf(kind, f)]
      /\ todo' = Plan(kind, f) /\ answer' = NoAnswer /\ begun' = stored
      /\ stored' = stored
  BY LedgerStays DEF Call, ListsInv, ledgerVars
<1>2. f \in RequestFilter /\ (kind = "session" => f.session \in Sessions)
  BY ReadsAssumption DEF Call, RequestFilter
<1>3. AnswerFits' /\ TagsFit' /\ ClientsFit'
  BY <1>1, FreshAnswerFits DEF AnswerFits, TagsFit, ClientsFit
<1>4. QueriesFit'
  <2>1. \E S : todo' \in Seq(S)
    BY <1>1, <1>2, PlanFits
  <2>2. \A q \in ToSet(todo') : QueryFits(q, call'.filter, stored')
    BY <1>1, <1>2, PlanFits DEF QueryFits
  <2>. QED BY <2>1, <2>2 DEF QueriesFit
<1>. QED BY <1>1, <1>2, <1>3, <1>4 DEF ListsInv, CallFits

(* when an event is appended between two queries,                          *)
LEMMA CommitKeepsLists ==
  ASSUME ListsInv, NEW e \in Events, Commit(e)
  PROVE  ListsInv'
<1>1. /\ LedgerFacts' /\ stored' = stored \cup {e}
      /\ UNCHANGED <<call, todo, answer, begun>>
  BY AppendKeepsFacts DEF Commit, ListsInv, readVars
<1>2. AnswerFits' /\ CallFits' /\ TagsFit'
  BY <1>1 DEF ListsInv, AnswerFits, CallFits, TagsFit
<1>3. QueriesFit'
  BY <1>1 DEF ListsInv, QueriesFit, QueryFits
<1>4. \A s : ClientsBegun(s)' = ClientsBegun(s)
  BY <1>1 DEF ListsInv, ClientsBegun, Matching, MembersOf
<1>5. ClientsFit'
  BY <1>1, <1>4 DEF ListsInv, ClientsFit
<1>. QED BY <1>1, <1>2, <1>3, <1>5 DEF ListsInv

(* and when nothing happens.                                               *)
LEMMA StutterKeepsLists == ListsInv /\ UNCHANGED vars => ListsInv'
<1>. SUFFICES ASSUME ListsInv, UNCHANGED vars PROVE ListsInv'
  OBVIOUS
<1>1. LedgerFacts' /\ UNCHANGED <<stored, call, todo, answer, begun>>
  BY LedgerStays DEF ListsInv, vars, ledgerVars, readVars
<1>2. \A s : ClientsBegun(s)' = ClientsBegun(s)
  BY <1>1 DEF ClientsBegun, Matching, MembersOf
<1>3. ClientsFit'
  BY <1>1, <1>2 DEF ListsInv, ClientsFit
<1>. QED BY <1>1, <1>3 DEF ListsInv, AnswerFits, CallFits, QueriesFit, TagsFit

(* What every query has in common: the next query of the call is taken,    *)
(* and "more" put before the rest.                                         *)
LEMMA RunKeeps ==
  ASSUME ListsInv, todo # <<>>, NEW name, NEW more, NEW R, more \in Seq(R),
         Run(name, more)
  PROVE  /\ Head(todo).name = name
         /\ QueryFits(Head(todo), call.filter, stored)
         /\ UNCHANGED <<stored, tagRows, sessions, call, begun>>
         /\ LedgerFacts' /\ begun' \subseteq stored' /\ CallFits'
         /\ ToSet(todo') = ToSet(more) \cup ToSet(Tail(todo))
         /\ ToSet(todo) = {Head(todo)} \cup ToSet(Tail(todo))
         /\ (\A q \in ToSet(more) : QueryFits(q, call.filter, stored))
              => QueriesFit'
<1>1. /\ Head(todo).name = name /\ todo' = more \o Tail(todo)
      /\ UNCHANGED <<stored, tagRows, sessions, call, begun>>
      /\ UNCHANGED ledgerVars
  BY DEF Run, ledgerVars
<1>2. PICK S : todo \in Seq(S)
  BY DEF ListsInv, QueriesFit
<1>3. /\ ToSet(todo') = ToSet(more) \cup ToSet(Tail(todo))
      /\ ToSet(todo) = {Head(todo)} \cup ToSet(Tail(todo))
  BY <1>1, <1>2, NextQueries
<1>4. todo' \in Seq(R \cup S)
  BY <1>1, <1>2, Joined
<1>5. \A q \in ToSet(todo) : QueryFits(q, call.filter, stored)
  BY DEF ListsInv, QueriesFit
<1>6. LedgerFacts' /\ CallFits'
  BY <1>1, LedgerStays DEF ListsInv, CallFits
<1>7. (\A q \in ToSet(more) : QueryFits(q, call.filter, stored)) => QueriesFit'
  BY <1>1, <1>3, <1>4, <1>5 DEF QueriesFit
<1>. QED BY <1>1, <1>3, <1>5, <1>6, <1>7 DEF ListsInv

(* A query of another kind leaves the tags to be read as they are. *)
LEMMA TagsStayPending ==
  ASSUME ListsInv, todo # <<>>, NEW name, name # "tags",
         NEW more, NEW R, more \in Seq(R), Run(name, more),
         answer'.requests = answer.requests, answer'.tags = answer.tags
  PROVE  TagsFit'
<1>1. /\ Head(todo).name = name
      /\ ToSet(todo') = ToSet(more) \cup ToSet(Tail(todo))
      /\ ToSet(todo) = {Head(todo)} \cup ToSet(Tail(todo))
  BY RunKeeps
<1>2. \A q \in ToSet(todo) : q.name = "tags" => q \in ToSet(todo')
  BY <1>1
<1>. QED BY <1>2 DEF ListsInv, TagsFit

(* A query that leaves the sessions leaves their clients.                  *)
LEMMA ClientsStay ==
  ASSUME ListsInv, UNCHANGED <<stored, call, begun>>,
         answer'.sessions = answer.sessions
  PROVE  ClientsFit'
<1>1. \A s : ClientsBegun(s)' = ClientsBegun(s)
  BY DEF ClientsBegun, Matching, MembersOf
<1>. QED BY <1>1 DEF ListsInv, ClientsFit

(* UsageSummary, analyticsRows: a total is added to the answer.            *)
LEMMA TotalsKeepLists ==
  ASSUME ListsInv, todo # <<>>, NEW q, q = Head(todo),
         ReadTotals(q) \/ ReadRows(q)
  PROVE  ListsInv'
<1>1. PICK name \in {"totals", "rows"} : Run(name, <<>>)
  BY DEF ReadTotals, ReadRows
<1>2. answer' = [answer EXCEPT !.totals = Append(@, Totals(q.filter))]
  BY DEF ReadTotals, ReadRows
<1>3. /\ UNCHANGED <<stored, call, begun>>
      /\ LedgerFacts' /\ begun' \subseteq stored' /\ CallFits' /\ QueriesFit'
  BY <1>1, NoMore, RunKeeps
<1>4. /\ answer' \in AnswerType /\ answer'.requests = answer.requests
      /\ answer'.tags = answer.tags /\ answer'.sessions = answer.sessions
      /\ answer'.breakdown = answer.breakdown
  <2>1. Totals(q.filter) \in TotalsRow
    BY TotalsAre DEF ListsInv
  <2>2. \A t \in Seq(TotalsRow) : Append(t, Totals(q.filter)) \in Seq(TotalsRow)
    BY <2>1
  <2>3. answer \in AnswerType
    BY DEF ListsInv, AnswerFits
  <2>. HIDE DEF TotalsRow
  <2>. QED BY <1>2, <2>2, <2>3 DEF AnswerType
<1>5. AnswerFits'
  BY <1>3, <1>4 DEF ListsInv, AnswerFits
<1>6. TagsFit' /\ ClientsFit'
  BY <1>1, <1>3, <1>4, NoMore, TagsStayPending, ClientsStay
<1>. QED BY <1>3, <1>5, <1>6 DEF ListsInv

(* breakdown: no more groups than its limit.                               *)
LEMMA BreakdownKeepsLists ==
  ASSUME ListsInv, todo # <<>>, NEW q, q = Head(todo), ReadBreakdown(q)
  PROVE  ListsInv'
<1>1. Run("breakdown", <<>>)
  BY DEF ReadBreakdown
<1>2. PICK listed \in Firsts(Groups(q.filter, q.of), Larger, BreakdownLimit) :
        answer' = [answer EXCEPT !.breakdown[q.of] = listed]
  BY DEF ReadBreakdown
<1>3. /\ UNCHANGED <<stored, call, begun>>
      /\ LedgerFacts' /\ begun' \subseteq stored' /\ CallFits' /\ QueriesFit'
  BY <1>1, NoMore, RunKeeps
<1>4. q.of \in Columns =>
        /\ listed \in SUBSET GroupRow /\ Cardinality(listed) <= BreakdownLimit
  <2>. SUFFICES ASSUME q.of \in Columns
                PROVE  listed \in SUBSET GroupRow /\ Cardinality(listed) <= BreakdownLimit
    OBVIOUS
  <2>. DEFINE S == Groups(q.filter, q.of)
              n == BreakdownLimit
  <2>1. IsFiniteSet(S) /\ S \subseteq GroupRow
    BY GroupsAre DEF ListsInv
  <2>2. listed \in kSubset(IF Cardinality(S) < n THEN Cardinality(S) ELSE n, S)
    BY DEF Firsts
  <2>3. n \in Nat
    BY ReadsAssumption
  <2>. HIDE DEF S, n
  <2>4. /\ listed \subseteq S /\ Cardinality(S) \in Nat
        /\ Cardinality(listed) = IF Cardinality(S) < n THEN Cardinality(S) ELSE n
    BY <2>1, <2>2, <2>3, FirstsAre
  <2>. QED BY <2>1, <2>3, <2>4 DEF n
<1>5. answer \in AnswerType /\ answer.breakdown \in [Columns -> SUBSET GroupRow]
  BY DEF ListsInv, AnswerFits, AnswerType
<1>6. [answer.breakdown EXCEPT ![q.of] = listed] \in [Columns -> SUBSET GroupRow]
  BY <1>4, <1>5
<1>7. answer' = [answer EXCEPT !.breakdown = [answer.breakdown EXCEPT ![q.of] = listed]]
  BY <1>2
<1>8. /\ answer' \in AnswerType /\ answer'.requests = answer.requests
      /\ answer'.tags = answer.tags /\ answer'.sessions = answer.sessions
      /\ answer'.breakdown = [answer.breakdown EXCEPT ![q.of] = listed]
  BY <1>5, <1>6, <1>7 DEF AnswerType
<1>9. \A c \in Columns : Cardinality(answer'.breakdown[c]) <= BreakdownLimit
  BY <1>4, <1>5, <1>8 DEF ListsInv, AnswerFits
<1>10. AnswerFits'
  BY <1>3, <1>8, <1>9 DEF ListsInv, AnswerFits
<1>11. TagsFit' /\ ClientsFit'
  BY <1>1, <1>3, <1>8, NoMore, TagsStayPending, ClientsStay
<1>. QED BY <1>3, <1>10, <1>11 DEF ListsInv

(* GetSession: the row is that of a session.                               *)
LEMMA RowKeepsLists ==
  ASSUME ListsInv, todo # <<>>, NEW q, q = Head(todo), ReadRow(q)
  PROVE  ListsInv'
<1>. DEFINE item == [id |-> q.of, count |-> sessions[q.of].count,
                     tokens |-> sessions[q.of].tokens, clients |-> {}]
<1>1. Run("row", <<>>) /\ sessions[q.of].count > 0
      /\ answer' = [answer EXCEPT !.sessions = {item}]
  BY DEF ReadRow
<1>2. /\ UNCHANGED <<stored, call, begun>>
      /\ LedgerFacts' /\ begun' \subseteq stored' /\ CallFits' /\ QueriesFit'
      /\ q.of \in Sessions
  BY <1>1, NoMore, RunKeeps DEF QueryFits
<1>3. item \in SessionItem /\ item.clients = {}
  BY <1>1, <1>2 DEF ListsInv, LedgerFacts, TypeOK, SessionRow, SessionItem
<1>. HIDE DEF item
<1>4. answer \in AnswerType
  BY DEF ListsInv, AnswerFits
<1>5. /\ answer' \in AnswerType /\ answer'.requests = answer.requests
      /\ answer'.tags = answer.tags /\ answer'.sessions = {item}
      /\ answer'.breakdown = answer.breakdown
  BY <1>1, <1>3, <1>4 DEF AnswerType
<1>6. AnswerFits' /\ ClientsFit'
  BY <1>2, <1>3, <1>5 DEF ListsInv, AnswerFits, ClientsFit
<1>7. TagsFit'
  BY <1>1, <1>5, NoMore, TagsStayPending
<1>. QED BY <1>2, <1>6, <1>7 DEF ListsInv

(* ListSessions: the clients of each session are read next.                *)
LEMMA SessionsKeepLists ==
  ASSUME ListsInv, todo # <<>>, NEW q, q = Head(todo), ReadSessions(q)
  PROVE  ListsInv'
<1>. DEFINE S == SessionGroups(q.filter)
            n == IF q.filter.limit = 0 THEN SessionsLimit ELSE q.filter.limit
<1>1. PICK listed \in Firsts(S, Larger, n) :
        /\ Run("sessions", SetToSeq({Query("clients", q.filter, item.id) :
                                         item \in listed}))
        /\ answer' = [answer EXCEPT !.sessions = listed]
  BY DEF ReadSessions
<1>. DEFINE next == {Query("clients", q.filter, item.id) : item \in listed}
<1>2. q.name = "sessions"
  BY DEF ReadSessions
<1>3. QueryFits(q, call.filter, stored)
  <2>1. PICK T : todo \in Seq(T)
    BY DEF ListsInv, QueriesFit
  <2>2. Head(todo) \in ToSet(todo)
    BY <2>1, NoMore, NextQueries
  <2>. QED BY <2>2 DEF ListsInv, QueriesFit
<1>4. IsFiniteSet(S) /\ S \subseteq SessionItem /\ \A item \in S : item.clients = {}
  BY SessionGroupsAre DEF ListsInv
<1>5. n \in Nat
  BY <1>3, ReadsAssumption DEF QueryFits, RequestFilter
<1>6. listed \in kSubset(IF Cardinality(S) < n THEN Cardinality(S) ELSE n, S)
  BY <1>1 DEF Firsts
<1>7. listed \subseteq S /\ IsFiniteSet(listed)
  <2>. HIDE DEF S, n
  <2>. QED BY <1>4, <1>5, <1>6, FirstsAre
<1>8. IsFiniteSet(next)
  <2>. DEFINE asked == [item \in listed |-> Query("clients", q.filter, item.id)]
  <2>1. next = {asked[item] : item \in listed}
    OBVIOUS
  <2>. HIDE DEF asked, next
  <2>. QED BY <1>7, <2>1, ImageIsFinite
<1>9. \A r \in next : QueryFits(r, call.filter, stored)
  BY <1>2, <1>3 DEF Query, QueryFits
<1>. DEFINE more == SetToSeq(next)
<1>10. more \in Seq(next) /\ ToSet(more) = next
  <2>. HIDE DEF next
  <2>. QED BY <1>8, SetAsSeq
<1>11. Run("sessions", more)
  BY <1>1
<1>. HIDE DEF next, more, S, n
<1>12. /\ UNCHANGED <<stored, call, begun>>
       /\ LedgerFacts' /\ begun' \subseteq stored' /\ CallFits' /\ QueriesFit'
  BY <1>9, <1>10, <1>11, RunKeeps
<1>13. answer \in AnswerType
  BY DEF ListsInv, AnswerFits
<1>14. /\ answer' \in AnswerType /\ answer'.requests = answer.requests
       /\ answer'.tags = answer.tags /\ answer'.sessions = listed
       /\ answer'.breakdown = answer.breakdown
  BY <1>1, <1>4, <1>7, <1>13 DEF AnswerType
<1>15. AnswerFits' /\ ClientsFit'
  BY <1>4, <1>7, <1>12, <1>14 DEF ListsInv, AnswerFits, ClientsFit
<1>16. TagsFit'
  BY <1>10, <1>11, <1>14, TagsStayPending
<1>. QED BY <1>12, <1>15, <1>16 DEF ListsInv

(* hydrateSessionSummary: what is read covers the requests the session had *)
(* when the call began.                                                    *)
LEMMA ClientsKeepLists ==
  ASSUME ListsInv, todo # <<>>, NEW q, q = Head(todo), ReadClients(q)
  PROVE  ListsInv'
<1>. DEFINE D == DistinctClients(q.of, q.filter)
            read(item) == IF item.id = q.of THEN [item EXCEPT !.clients = D]
                                            ELSE item
<1>1. Run("clients", <<>>)
      /\ answer' = [answer EXCEPT !.sessions = {read(item) : item \in @}]
  BY DEF ReadClients
<1>2. /\ UNCHANGED <<stored, call, begun>>
      /\ LedgerFacts' /\ begun' \subseteq stored' /\ CallFits' /\ QueriesFit'
      /\ q.filter \in RequestFilter /\ SameQuestion(q.filter, call.filter)
  BY <1>1, NoMore, RunKeeps DEF QueryFits
<1>. DEFINE asked == Matching(OfSession(q.of, q.filter))
<1>3. D \subseteq Clients /\ IsFiniteSet(D)
  <2>1. asked \in SUBSET Events /\ IsFiniteSet(asked)
    BY MatchingAre DEF ListsInv
  <2>2. IsFiniteSet({ClientOf[e] : e \in asked})
    <3>. HIDE DEF asked
    <3>. QED BY <2>1, ImageIsFinite
  <2>3. D = {ClientOf[e] : e \in asked} \ {NoClient}
    BY DEF DistinctClients
  <2>4. IsFiniteSet(D)
    BY <2>2, <2>3, FS_Subset
  <2>. HIDE DEF asked
  <2>. QED BY <2>1, <2>3, <2>4, EventsAssumption
<1>4. ClientsBegun(q.of) \subseteq D
  <2>1. ASSUME NEW e \in MembersOf(q.of, begun) \cap Matching(call.filter)
        PROVE  e \in asked
    <3>1. LET g == OfSession(q.of, q.filter) IN
            /\ g.session = q.of /\ g.client = q.filter.client
            /\ g.after = q.filter.after /\ g.before = q.filter.before
      BY <1>2 DEF OfSession, RequestFilter
    <3>2. e \in Matching(call.filter) /\ SessionOf[e] = q.of
      BY DEF MembersOf
    <3>. QED BY <1>2, <3>1, <3>2 DEF Matching, SameQuestion
  <2>. QED BY <2>1 DEF ClientsBegun, DistinctClients
<1>5. answer \in AnswerType /\ answer.sessions \in SUBSET SessionItem
  BY DEF ListsInv, AnswerFits, AnswerType
<1>. HIDE DEF D
<1>6. \A item \in SessionItem :
        /\ read(item) \in SessionItem /\ read(item).id = item.id
        /\ read(item).clients = IF item.id = q.of THEN D ELSE item.clients
  BY <1>3 DEF SessionItem
<1>. HIDE DEF read
<1>7. /\ answer' \in AnswerType /\ answer'.requests = answer.requests
      /\ answer'.tags = answer.tags
      /\ answer'.sessions = {read(item) : item \in answer.sessions}
      /\ answer'.breakdown = answer.breakdown
  <2>1. {read(item) : item \in answer.sessions} \in SUBSET SessionItem
    BY <1>5, <1>6
  <2>. QED BY <1>1, <1>5, <2>1 DEF AnswerType
<1>8. \A s : ClientsBegun(s)' = ClientsBegun(s)
  BY <1>2 DEF ClientsBegun, Matching, MembersOf
<1>9. ClientsFit'
  <2>. SUFFICES ASSUME NEW item \in answer.sessions
       PROVE  \/ read(item).clients = {}
              \/ /\ ClientsBegun(read(item).id) \subseteq read(item).clients
                 /\ IsFiniteSet(read(item).clients)
    BY <1>7, <1>8 DEF ClientsFit
  <2>. QED BY <1>3, <1>4, <1>5, <1>6 DEF ListsInv, ClientsFit
<1>10. AnswerFits'
  BY <1>2, <1>7 DEF ListsInv, AnswerFits
<1>11. TagsFit'
  BY <1>1, <1>7, NoMore, TagsStayPending
<1>. QED BY <1>2, <1>9, <1>10, <1>11 DEF ListsInv

(* ListRequests returns "listed", whatever it skips. *)
Lists(q, listed) ==
  /\ IsFiniteSet(listed) /\ listed \subseteq Matching(q.filter)
  /\ Run("requests", SetToSeq({Query("tags", q.filter, e) : e \in listed}))
  /\ answer' = [answer EXCEPT !.requests = listed]
  /\ q.name = "requests" /\ QueryFits(q, call.filter, stored)
  /\ q.filter.limit > 0 /\ q.filter.offset = 0 =>
       Cardinality(listed) =
         IF Cardinality(Matching(q.filter)) < q.filter.limit
         THEN Cardinality(Matching(q.filter)) ELSE q.filter.limit

(* Each choice the query leaves is such a list.                            *)
LEMMA RequestsAre ==
  ASSUME ListsInv, todo # <<>>, NEW q, q = Head(todo), ReadRequests(q)
  PROVE  \E listed : Lists(q, listed)
<1>. DEFINE all == Matching(q.filter)
            skip == IF q.filter.limit = 0 THEN 0 ELSE q.filter.offset
            limit == IF q.filter.limit = 0 THEN Cardinality(all)
                                           ELSE q.filter.limit
<1>0. PICK skipped \in Firsts(all, Newer, skip) :
        \E listed \in Firsts(all \ skipped, Newer, limit) :
          /\ Run("requests", SetToSeq({Query("tags", q.filter, e) :
                                           e \in listed}))
          /\ answer' = [answer EXCEPT !.requests = listed]
  BY DEF ReadRequests
<1>1. PICK listed \in Firsts(all \ skipped, Newer, limit) :
        /\ Run("requests", SetToSeq({Query("tags", q.filter, e) :
                                         e \in listed}))
        /\ answer' = [answer EXCEPT !.requests = listed]
  BY <1>0
<1>2. q.name = "requests"
  BY DEF ReadRequests
<1>3. QueryFits(q, call.filter, stored)
  <2>1. PICK T : todo \in Seq(T)
    BY DEF ListsInv, QueriesFit
  <2>2. Head(todo) \in ToSet(todo)
    BY <2>1, NoMore, NextQueries
  <2>. QED BY <2>2 DEF ListsInv, QueriesFit
<1>4. IsFiniteSet(all) /\ Cardinality(all) \in Nat
  BY MatchingAre DEF ListsInv
<1>5. skip \in Nat /\ limit \in Nat /\ q.filter.limit \in Nat
  <2>. HIDE DEF all
  <2>. QED BY <1>3, <1>4 DEF QueryFits, RequestFilter
<1>6. skipped \in kSubset(IF Cardinality(all) < skip THEN Cardinality(all)
                                                     ELSE skip, all)
  BY DEF Firsts
<1>. DEFINE rest == all \ skipped
<1>7. listed \in kSubset(IF Cardinality(rest) < limit THEN Cardinality(rest)
                                                      ELSE limit, rest)
  BY <1>1 DEF Firsts
<1>8. IsFiniteSet(rest) /\ (skipped = {} => rest = all)
  BY <1>4, FS_Subset
<1>9. q.filter.limit > 0 /\ q.filter.offset = 0 =>
        skip = 0 /\ limit = q.filter.limit
  <2>. HIDE DEF all
  <2>. QED BY <1>5
<1>10. rest \subseteq all
  OBVIOUS
<1>. HIDE DEF rest, limit, skip, all
<1>11. /\ listed \subseteq rest /\ IsFiniteSet(listed)
       /\ Cardinality(listed) = IF Cardinality(rest) < limit
                                THEN Cardinality(rest) ELSE limit
  BY <1>5, <1>7, <1>8, FirstsAre
<1>12. skip = 0 => skipped = {}
  <2>1. /\ IsFiniteSet(skipped)
        /\ Cardinality(skipped) = IF Cardinality(all) < skip
                                  THEN Cardinality(all) ELSE skip
    BY <1>4, <1>5, <1>6, FirstsAre
  <2>2. skip = 0 => Cardinality(skipped) = 0
    BY <1>4, <2>1
  <2>. QED BY <2>1, <2>2, FS_EmptySet
<1>13. q.filter.limit > 0 /\ q.filter.offset = 0 =>
         Cardinality(listed) = IF Cardinality(all) < q.filter.limit
                               THEN Cardinality(all) ELSE q.filter.limit
  BY <1>8, <1>9, <1>11, <1>12
<1>14. Lists(q, listed)
  BY <1>1, <1>2, <1>3, <1>10, <1>11, <1>13 DEF all, Lists
<1>. QED BY <1>14

(* ListRequests: the tags of each request are read next.                   *)
LEMMA RequestsKeepLists ==
  ASSUME ListsInv, todo # <<>>, NEW q, q = Head(todo), ReadRequests(q)
  PROVE  ListsInv'
<1>0. PICK listed : Lists(q, listed)
  BY RequestsAre
<1>1. /\ IsFiniteSet(listed) /\ listed \subseteq Matching(q.filter)
      /\ Run("requests", SetToSeq({Query("tags", q.filter, e) : e \in listed}))
      /\ answer' = [answer EXCEPT !.requests = listed]
      /\ q.name = "requests" /\ QueryFits(q, call.filter, stored)
  BY <1>0 DEF Lists
<1>. DEFINE next == {Query("tags", q.filter, e) : e \in listed}
            more == SetToSeq(next)
<1>2. IsFiniteSet(next)
  <2>. DEFINE asked == [e \in listed |-> Query("tags", q.filter, e)]
  <2>1. next = {asked[e] : e \in listed}
    OBVIOUS
  <2>. HIDE DEF asked, next
  <2>. QED BY <1>1, <2>1, ImageIsFinite
<1>3. listed \subseteq stored /\ listed \in SUBSET Events
  BY <1>1, MatchingAre DEF ListsInv
<1>4. \A r \in next : QueryFits(r, call.filter, stored)
  BY <1>1, <1>3 DEF Query, QueryFits
<1>5. ASSUME NEW e \in listed
      PROVE  \E r \in next : r.name = "tags" /\ r.of = e
  <2>. DEFINE r == Query("tags", q.filter, e)
  <2>1. r \in next
    OBVIOUS
  <2>2. r.name = "tags" /\ r.of = e
    BY DEF Query
  <2>. QED BY <2>1, <2>2
<1>6. Run("requests", more)
  BY <1>1
<1>7. more \in Seq(next) /\ ToSet(more) = next
  <2>. HIDE DEF next
  <2>. QED BY <1>2, SetAsSeq
<1>. HIDE DEF next, more
<1>8. /\ UNCHANGED <<stored, call, begun>>
      /\ LedgerFacts' /\ begun' \subseteq stored' /\ CallFits' /\ QueriesFit'
      /\ ToSet(todo') = ToSet(more) \cup ToSet(Tail(todo))
  BY <1>4, <1>6, <1>7, RunKeeps
<1>9. answer \in AnswerType
  BY DEF ListsInv, AnswerFits
<1>10. /\ answer' \in AnswerType /\ answer'.requests = listed
       /\ answer'.tags = answer.tags /\ answer'.sessions = answer.sessions
       /\ answer'.breakdown = answer.breakdown
  BY <1>1, <1>3, <1>9 DEF AnswerType
<1>11. AnswerFits'
  BY <1>3, <1>8, <1>10 DEF ListsInv, AnswerFits
<1>12. TagsFit'
  BY <1>5, <1>7, <1>8, <1>10 DEF TagsFit
<1>13. ClientsFit'
  BY <1>8, <1>10, ClientsStay
<1>. QED BY <1>8, <1>11, <1>12, <1>13 DEF ListsInv

(* loadTags: an id names one stored event, so the rows are its tags.       *)
LEMMA TagsKeepLists ==
  ASSUME ListsInv, todo # <<>>, NEW q, q = Head(todo), ReadTags(q)
  PROVE  ListsInv'
<1>. DEFINE read == {r[2] : r \in {t \in tagRows : t[1] = IdOf[q.of]}}
<1>1. Run("tags", <<>>) /\ answer' = [answer EXCEPT !.tags[q.of] = read]
  BY DEF ReadTags
<1>2. /\ UNCHANGED <<stored, call, begun>>
      /\ LedgerFacts' /\ begun' \subseteq stored' /\ CallFits' /\ QueriesFit'
      /\ q.of \in stored /\ q.name = "tags"
      /\ ToSet(todo') = ToSet(Tail(todo))
      /\ ToSet(todo) = {q} \cup ToSet(Tail(todo))
  BY <1>1, NoMore, RunKeeps DEF QueryFits
<1>3. q.of \in Events /\ stored \in SUBSET Events
  BY <1>2 DEF ListsInv, LedgerFacts, TypeOK
<1>4. read = TagsOf[q.of] /\ read \in SUBSET TagKeys
  <2>1. tagRows = UNION {{IdOf[e]} \X TagsOf[e] : e \in stored}
    BY DEF ListsInv, LedgerFacts, TagsAreComplete, TagRows
  <2>2. \A e \in stored : IdOf[e] = IdOf[q.of] => e = q.of
    BY <1>2 DEF ListsInv, LedgerFacts, IdsAreUnique
  <2>3. ASSUME NEW x \in read PROVE x \in TagsOf[q.of]
    BY <2>1, <2>2
  <2>4. ASSUME NEW x \in TagsOf[q.of] PROVE x \in read
    <3>1. <<IdOf[q.of], x>> \in tagRows
      BY <1>2, <2>1
    <3>. QED BY <3>1
  <2>. QED BY <1>3, <2>3, <2>4, EventsAssumption
<1>. HIDE DEF read
<1>5. answer \in AnswerType /\ answer.tags \in [Events -> SUBSET TagKeys]
  BY DEF ListsInv, AnswerFits, AnswerType
<1>6. [answer.tags EXCEPT ![q.of] = read] \in [Events -> SUBSET TagKeys]
  BY <1>3, <1>4, <1>5
<1>7. answer' = [answer EXCEPT !.tags = [answer.tags EXCEPT ![q.of] = read]]
  BY <1>1
<1>8. /\ answer' \in AnswerType /\ answer'.requests = answer.requests
      /\ answer'.tags = [answer.tags EXCEPT ![q.of] = read]
      /\ answer'.sessions = answer.sessions
      /\ answer'.breakdown = answer.breakdown
  BY <1>5, <1>6, <1>7 DEF AnswerType
<1>9. AnswerFits' /\ ClientsFit'
  BY <1>2, <1>8, ClientsStay DEF ListsInv, AnswerFits
<1>10. TagsFit'
  <2>. SUFFICES ASSUME NEW e \in answer.requests
       PROVE  \/ answer'.tags[e] = TagsOf[e]
              \/ \E r \in ToSet(todo') : r.name = "tags" /\ r.of = e
    BY <1>8 DEF TagsFit
  <2>1. e \in Events
    BY <1>5 DEF AnswerType
  <2>2. CASE e = q.of
    BY <1>4, <1>5, <1>8, <2>1, <2>2
  <2>3. CASE e # q.of
    <3>1. answer'.tags[e] = answer.tags[e]
      BY <1>5, <1>8, <2>1, <2>3
    <3>. QED BY <1>2, <2>3, <3>1 DEF ListsInv, TagsFit
  <2>. QED BY <2>2, <2>3
<1>. QED BY <1>2, <1>9, <1>10 DEF ListsInv

(* Every step keeps the invariant.                                         *)
LEMMA ListsStep == ListsInv /\ [ReadsNext]_vars => ListsInv'
<1>. SUFFICES ASSUME ListsInv, [ReadsNext]_vars PROVE ListsInv'
  OBVIOUS
<1>1. CASE \E e \in Events : Commit(e)
  BY <1>1, CommitKeepsLists
<1>2. CASE \E kind \in Kinds, f \in Filters : Call(kind, f)
  BY <1>2, CallKeepsLists
<1>3. CASE /\ todo # <<>>
           /\ LET q == Head(todo) IN
              \/ ReadTotals(q) \/ ReadRows(q) \/ ReadBreakdown(q) \/ ReadRow(q)
              \/ ReadSessions(q) \/ ReadClients(q) \/ ReadRequests(q) \/ ReadTags(q)
  BY <1>3, TotalsKeepLists, BreakdownKeepsLists, RowKeepsLists,
     SessionsKeepLists, ClientsKeepLists, RequestsKeepLists, TagsKeepLists
<1>4. CASE Reply \/ Fail
  BY <1>4, EndKeepsLists DEF Reply, Fail
<1>5. CASE UNCHANGED vars
  BY <1>5, StutterKeepsLists
<1>. QED BY <1>1, <1>2, <1>3, <1>4, <1>5 DEF ReadsNext

(* The inductive invariant of a call, whatever it asks *)
THEOREM ListsInvariant == ReadsSpec => []ListsInv
<1>1. ReadsInit => ListsInv
  BY ListsStart
<1>2. ListsInv /\ [ReadsNext]_vars => ListsInv'
  BY ListsStep
<1>. QED BY <1>1, <1>2, PTL DEF ReadsSpec

(* Every variable has its type, and so does what a call has read: sessions *)
(* that are stored with their clients, breakdowns within their limit.      *)
THEOREM ReadsTypeCorrect == ReadsSpec => []ReadsTypeOK
<1>1. ListsInv => ReadsTypeOK
  <2>. SUFFICES ASSUME ListsInv PROVE ReadsTypeOK
    OBVIOUS
  <2>1. /\ answer.requests \subseteq stored
        /\ \A e \in Events : answer.tags[e] \subseteq TagKeys
        /\ \A item \in answer.sessions :
             item.id \in Sessions /\ item.count > 0 /\ item.clients \subseteq Clients
        /\ \A column \in Columns :
             Cardinality(answer.breakdown[column]) <= BreakdownLimit
    BY DEF ListsInv, AnswerFits, AnswerType, SessionItem
  <2>2. \/ call = NoCall
        \/ \E kind \in Kinds, f \in Filters :
             call = [kind |-> kind, filter |-> FilterOf(kind, f)]
    BY DEF ListsInv, CallFits
  <2>. QED BY <2>1, <2>2 DEF ListsInv, LedgerFacts, ReadsTypeOK
<1>. QED BY <1>1, ListsInvariant, PTL

(* The token total kept in the row of a session, to which every insert     *)
(* adds its own, is the sum a list of sessions computes from the requests, *)
(* for any events, any totals and any order of inserts.                    *)
THEOREM SessionTotalsAgree == ReadsSpec => []SessionTokensAddUp
<1>1. ListsInv => SessionTokensAddUp
  BY DEF ListsInv, LedgerFacts, RowsAgree, SessionTokensAddUp
<1>. QED BY <1>1, ListsInvariant, PTL

(* A call that has run its queries has all the tags of every request it    *)
(* lists, and names a single client of a session only where no request the *)
(* call could count has another, whatever was appended between the query   *)
(* that listed the row and the one that read its values.                   *)
THEOREM ListsComeWhole == ReadsSpec => []ListsAreWhole
<1>1. ASSUME ListsInv, todo = <<>>
      PROVE  \A e \in answer.requests : answer.tags[e] = TagsOf[e]
  BY <1>1, NoMore DEF ListsInv, TagsFit
<1>2. ASSUME ListsInv, NEW item \in answer.sessions,
             SingleClient(item) # NoClient,
             NEW e \in MembersOf(item.id, begun), e \in Matching(call.filter)
      PROVE  ClientOf[e] \in {NoClient, SingleClient(item)}
  <2>1. Cardinality(item.clients) = 1
    BY <1>2 DEF SingleClient
  <2>2. item.clients # {}
    BY <2>1, FS_EmptySet
  <2>3. ClientsBegun(item.id) \subseteq item.clients /\ IsFiniteSet(item.clients)
    BY <1>2, <2>2 DEF ListsInv, ClientsFit
  <2>4. PICK c : item.clients = {c}
    BY <2>1, <2>3, FS_Singleton
  <2>5. SingleClient(item) = c
    BY <2>1, <2>4 DEF SingleClient
  <2>. QED BY <1>2, <2>3, <2>4, <2>5 DEF ClientsBegun
<1>3. ListsInv => ListsAreWhole
  BY <1>1, <1>2 DEF ListsAreWhole
<1>. QED BY <1>3, ListsInvariant, PTL

-----------------------------------------------------------------------------
(* What the queries of a plan have shown so far *)

PlanOf == Plan(call.kind, call.filter)

Asked  == Cardinality(Matching(call.filter))
OfWeek == Cardinality(Matching(Since(WeekStart)))

CountedIn(column) == SumOfCounts(answer.breakdown[column])

(* Each of these speaks of a call whose plan goes on with its k-th query.  *)
SummaryFacts(k) ==
  /\ k = 1 => answer.totals = <<>>
  /\ k > 1 => /\ Len(answer.totals) >= 1 /\ Total <= Asked
              /\ begun = stored => Total = Asked
  /\ k > 2 /\ Cardinality(Listeners) <= BreakdownLimit =>
       /\ CountedIn("listener_name") >= Total
       /\ begun = stored => CountedIn("listener_name") = Total
  /\ k > 3 /\ begun = stored => CountedIn("client_type") <= Total

OverviewFacts(k) == k > Len(PlanOf) /\ Total > 0 => answer.requests # {}

StatsFacts(k) ==
  LET counts == answer.totals IN
  /\ Len(counts) = IF k = 1 THEN 0 ELSE IF k < 5 THEN 1
                   ELSE IF k < 9 THEN k - 3 ELSE 5
  /\ \A i \in 2 .. Len(counts) : counts[i].count <= OfWeek
  /\ \A i \in 2 .. Len(counts) - 1 : counts[i].count <= counts[i + 1].count

PageFacts(k) ==
  /\ k = 1 => answer.sessions = {}
  /\ \A item \in answer.sessions : item.count <= Asked
  /\ k > 3 => \A item \in answer.sessions :
                \/ Cardinality(answer.requests) >= item.count
                \/ Cardinality(answer.requests) = DetailLimit

Facts(k) ==
  /\ call.kind \in {"summary", "overview", "stats"} => SummaryFacts(k)
  /\ call.kind \in {"overview", "stats"} => OverviewFacts(k)
  /\ call.kind = "stats" => StatsFacts(k)
  /\ call.kind = "session" => PageFacts(k)

PlanInv ==
  \/ call = NoCall /\ todo = <<>> /\ answer = NoAnswer
  \/ /\ call # NoCall
     /\ \E k, m : Follows(todo, PlanOf, k, m) /\ Facts(k)

(* What a call that is being served looks like *)
Served(kind, f) ==
  /\ kind \in Kinds /\ f \in RequestFilter
  /\ kind \in {"overview", "stats"} => f = Recent
  /\ kind = "session" => /\ f.session \in Sessions
                         /\ f = OfSession(f.session, Everything(DetailLimit))

(* Such is every call in progress.                                         *)
LEMMA CallIsServed ==
  ASSUME CallFits, call # NoCall
  PROVE  Served(call.kind, call.filter)
<1>1. PICK kind \in Kinds, f \in Filters :
        /\ kind = "session" => f.session \in Sessions
        /\ call = [kind |-> kind, filter |-> FilterOf(kind, f)]
  BY DEF CallFits
<1>2. f \in RequestFilter /\ call.kind = kind /\ call.filter = FilterOf(kind, f)
  BY <1>1, ReadsAssumption
<1>. QED BY <1>1, <1>2, FilterOfIs DEF Served, Recent

(* A call's own filter leaves its plan as it was.                          *)
LEMMA PlanIsKept ==
  ASSUME NEW kind \in Kinds, NEW f \in RequestFilter,
         kind = "session" => f.session \in Sessions
  PROVE  Plan(kind, FilterOf(kind, f)) = Plan(kind, f)
<1>1. CASE kind \in {"overview", "stats"}
  BY <1>1 DEF Plan
<1>2. CASE kind = "session"
  BY <1>2, FilterOfIs DEF Plan
<1>3. CASE kind \in {"summary", "sessions", "requests"}
  BY <1>3 DEF FilterOf
<1>. QED BY <1>1, <1>2, <1>3 DEF Kinds

(* A summary begins with a total and its two breakdowns, of the same       *)
(* question.                                                               *)
LEMMA SummaryPlanIs ==
  ASSUME NEW kind, NEW f, Served(kind, f),
         kind \in {"summary", "overview", "stats"}
  PROVE  LET P == Plan(kind, f) IN
         /\ Len(P) \in Nat /\ Len(P) >= 3
         /\ P[1].name = "totals"
         /\ P[2].name = "breakdown" /\ P[2].of = "listener_name"
         /\ P[3].name = "breakdown" /\ P[3].of = "client_type"
         /\ \A i \in 4 .. Len(P) : P[i].name # "breakdown"
         /\ \A i \in 1 .. 3 : Matching(P[i].filter) = Matching(f)
<1>1. kind \in {"overview", "stats"} => Matching(All) = Matching(f)
  BY DEF Served, Matching, All, Recent, Everything
<1>2. CASE kind = "summary"
  BY <1>2 DEF Plan, SummaryPlan, On, Breakdown, Query
<1>3. CASE kind = "overview"
  BY <1>1, <1>3 DEF Plan, OverviewPlan, On, Breakdown, Query
<1>4. CASE kind = "stats"
  BY <1>1, <1>4 DEF Plan, StatsPlan, On, Breakdown, Query
<1>. QED BY <1>2, <1>3, <1>4

(* An overview and a report end with the recent requests.                  *)
LEMMA OverviewPlanIs ==
  ASSUME NEW kind, NEW f, kind \in {"overview", "stats"}
  PROVE  LET P == Plan(kind, f) IN
         /\ Len(P) \in Nat /\ Len(P) > 1
         /\ P[Len(P)].name = "requests" /\ P[Len(P)].filter = Recent
<1>1. CASE kind = "overview"
  BY <1>1 DEF Plan, OverviewPlan, On, Query
<1>2. CASE kind = "stats"
  BY <1>2 DEF Plan, StatsPlan, On, Query
<1>. QED BY <1>1, <1>2

(* A report reads totals of all time, a day and a week, and the rows of    *)
(* that week twice.                                                        *)
LEMMA StatsPlanIs ==
  ASSUME NEW f
  PROVE  LET P == Plan("stats", f) IN
         /\ Len(P) = 9
         /\ \A i \in 1 .. 9 :
              P[i].name \in {"totals", "rows"} <=> i \in {1, 4, 5, 6, 7}
         /\ P[4].filter = Since(DayStart)
         /\ \A i \in 5 .. 7 : P[i].filter = Since(WeekStart)
BY DEF Plan, StatsPlan, On, Breakdown, Query

(* A session's page reads its row, its clients and its requests.           *)
LEMMA SessionPlanIs ==
  ASSUME NEW f, Served("session", f)
  PROVE  LET P == Plan("session", f) IN
         /\ Len(P) = 3
         /\ P[1].name = "row" /\ P[1].of = f.session
         /\ P[2].name = "clients"
         /\ P[3].name = "requests" /\ P[3].filter = f
<1>. DEFINE g == OfSession(f.session, Everything(DetailLimit))
<1>1. f = g
  BY DEF Served
<1>. HIDE DEF g
<1>2. Plan("session", f) =
        <<Query("row", Everything(0), f.session),
          Query("clients", Everything(0), f.session),
          Query("requests", g, NoSession)>>
  BY DEF Plan, SessionPlan, g
<1>. QED BY <1>1, <1>2 DEF Query

(* A plan is a sequence.                                                   *)
LEMMA PlanLength ==
  ASSUME NEW kind, NEW f, Served(kind, f)
  PROVE  /\ \E S : Plan(kind, f) \in Seq(S)
         /\ Len(Plan(kind, f)) \in Nat
BY PlanFits DEF Served

-----------------------------------------------------------------------------
(* Every query of a call is one of these. *)
Read(q) ==
  \/ ReadTotals(q) \/ ReadRows(q) \/ ReadBreakdown(q) \/ ReadRow(q)
  \/ ReadSessions(q) \/ ReadClients(q) \/ ReadRequests(q) \/ ReadTags(q)

(* Which query it is its name tells.                                       *)
LEMMA ReadIs ==
  ASSUME NEW q, q = Head(todo), Read(q)
  PROVE  /\ UNCHANGED <<stored, tagRows, sessions, call, begun>>
         /\ q.name \in {"totals", "rows", "breakdown", "row", "sessions",
                        "clients", "requests", "tags"}
         /\ q.name \in {"totals", "rows"} => ReadTotals(q) \/ ReadRows(q)
         /\ q.name = "breakdown" => ReadBreakdown(q)
         /\ q.name = "row" => ReadRow(q)
         /\ q.name = "sessions" => ReadSessions(q)
         /\ q.name = "clients" => ReadClients(q)
         /\ q.name = "requests" => ReadRequests(q)
         /\ q.name = "tags" => ReadTags(q)
BY DEF Read, ReadTotals, ReadRows, ReadBreakdown, ReadRow, ReadSessions,
       ReadClients, ReadRequests, ReadTags, Run, ledgerVars

(* What a query leaves of an answer, unless it is the one that reads it *)
LEMMA ReadLeaves ==
  ASSUME ListsInv, todo # <<>>, NEW q, q = Head(todo), Read(q)
  PROVE  /\ q.name \notin {"totals", "rows"} => answer'.totals = answer.totals
         /\ q.name \in {"totals", "rows"} =>
              answer'.totals = Append(answer.totals, Totals(q.filter))
         /\ q.name # "breakdown" => answer'.breakdown = answer.breakdown
         /\ q.name # "requests" => answer'.requests = answer.requests
         /\ q.name \notin {"row", "sessions", "clients"} =>
              answer'.sessions = answer.sessions
<1>1. answer \in AnswerType
  BY DEF ListsInv, AnswerFits
<1>2. CASE q.name \in {"totals", "rows"}
  <2>1. answer' = [answer EXCEPT !.totals = Append(@, Totals(q.filter))]
    BY <1>2, ReadIs DEF ReadTotals, ReadRows
  <2>. QED BY <1>1, <1>2, <2>1 DEF AnswerType
<1>3. CASE q.name = "breakdown"
  <2>1. PICK listed : answer' = [answer EXCEPT !.breakdown[q.of] = listed]
    BY <1>3, ReadIs DEF ReadBreakdown
  <2>. QED BY <1>1, <1>3, <2>1 DEF AnswerType
<1>4. CASE q.name \in {"row", "sessions", "clients"}
  <2>1. PICK listed : answer' = [answer EXCEPT !.sessions = listed]
    BY <1>4, ReadIs DEF ReadRow, ReadSessions, ReadClients
  <2>. QED BY <1>1, <1>4, <2>1 DEF AnswerType
<1>5. CASE q.name = "requests"
  <2>1. PICK listed : answer' = [answer EXCEPT !.requests = listed]
    BY <1>5, ReadIs DEF ReadRequests
  <2>. QED BY <1>1, <1>5, <2>1 DEF AnswerType
<1>6. CASE q.name = "tags"
  <2>1. PICK read : answer' = [answer EXCEPT !.tags[q.of] = read]
    BY <1>6, ReadIs DEF ReadTags
  <2>. QED BY <1>1, <1>6, <2>1 DEF AnswerType
<1>. QED BY <1>2, <1>3, <1>4, <1>5, <1>6, ReadIs

(* A query puts nothing before the rest of the plan but queries for the    *)
(* rows it has returned.                                                   *)
Takes(q, R, u) ==
  /\ u \in Seq(R)
  /\ \A i \in 1 .. Len(u) : u[i].name \in {"clients", "tags"}
  /\ q.name \in {"clients", "tags"} => u = <<>>
  /\ todo' = u \o Tail(todo)

(* So does each query.                                                     *)
LEMMA ReadTakes ==
  ASSUME ListsInv, todo # <<>>, NEW q, q = Head(todo), Read(q)
  PROVE  \E R, u : Takes(q, R, u)
<1>1. CASE q.name \notin {"sessions", "requests"}
  <2>1. todo' = <<>> \o Tail(todo)
    BY <1>1, ReadIs DEF ReadTotals, ReadRows, ReadBreakdown, ReadRow,
       ReadClients, ReadTags, Run
  <2>2. <<>> \in Seq({}) /\ Len(<<>>) = 0
    OBVIOUS
  <2>3. Takes(q, {}, <<>>)
    BY <2>1, <2>2 DEF Takes
  <2>. QED BY <2>3
<1>2. CASE q.name = "sessions"
  <2>. DEFINE S == SessionGroups(q.filter)
              n == IF q.filter.limit = 0 THEN SessionsLimit ELSE q.filter.limit
  <2>0. ReadSessions(q)
    BY <1>2, ReadIs
  <2>1. PICK listed \in Firsts(S, Larger, n) :
          /\ Run("sessions", SetToSeq({Query("clients", q.filter, item.id) :
                                           item \in listed}))
          /\ answer' = [answer EXCEPT !.sessions = listed]
    BY <2>0 DEF ReadSessions
  <2>. DEFINE next == {Query("clients", q.filter, item.id) : item \in listed}
              u == SetToSeq(next)
  <2>2. listed \subseteq S
    <3>1. listed \in {T \in kSubset(IF Cardinality(S) < n THEN Cardinality(S)
                                                          ELSE n, S) :
                        \A t \in T, s \in S \ T : ~Larger(s, t)}
      BY <2>1 DEF Firsts
    <3>. HIDE DEF S, n
    <3>. QED BY <3>1 DEF kSubset
  <2>3. IsFiniteSet(listed)
    BY <2>2, SessionGroupsAre, FS_Subset DEF ListsInv
  <2>4. IsFiniteSet(next)
    <3>. DEFINE asked == [item \in listed |-> Query("clients", q.filter, item.id)]
    <3>1. next = {asked[item] : item \in listed}
      OBVIOUS
    <3>. HIDE DEF asked, next
    <3>. QED BY <2>3, <3>1, ImageIsFinite
  <2>5. \A r \in next : r.name = "clients"
    BY DEF Query
  <2>6. todo' = u \o Tail(todo)
    BY <2>1 DEF Run
  <2>7. u \in Seq(next)
    <3>. HIDE DEF next
    <3>. QED BY <2>4, SetAsSeq
  <2>. HIDE DEF next, u
  <2>8. Takes(q, next, u)
    BY <1>2, <2>5, <2>6, <2>7 DEF Takes
  <2>. QED BY <2>8
<1>3. CASE q.name = "requests"
  <2>1. PICK listed : Lists(q, listed)
    BY <1>3, ReadIs, RequestsAre
  <2>. DEFINE next == {Query("tags", q.filter, e) : e \in listed}
              u == SetToSeq(next)
  <2>2. IsFiniteSet(next)
    <3>. DEFINE asked == [e \in listed |-> Query("tags", q.filter, e)]
    <3>1. next = {asked[e] : e \in listed}
      OBVIOUS
    <3>2. IsFiniteSet(listed)
      BY <2>1 DEF Lists
    <3>. HIDE DEF asked, next
    <3>. QED BY <3>1, <3>2, ImageIsFinite
  <2>3. \A r \in next : r.name = "tags"
    BY DEF Query
  <2>4. todo' = u \o Tail(todo)
    BY <2>1 DEF Lists, Run
  <2>5. u \in Seq(next)
    <3>. HIDE DEF next
    <3>. QED BY <2>2, SetAsSeq
  <2>. HIDE DEF next, u
  <2>6. Takes(q, next, u)
    BY <1>3, <2>3, <2>4, <2>5 DEF Takes
  <2>. QED BY <2>6
<1>. QED BY <1>1, <1>2, <1>3

(* A breakdown that is not cut off counts every request under a listener.  *)
LEMMA ListenersCounted ==
  ASSUME LedgerFacts, NEW f, Cardinality(Listeners) <= BreakdownLimit,
         NEW listed \in Firsts(Groups(f, "listener_name"), Larger,
                               BreakdownLimit)
  PROVE  SumOfCounts(listed) = Cardinality(Matching(f))
<1>. DEFINE S == Groups(f, "listener_name")
            n == BreakdownLimit
<1>1. /\ IsFiniteSet(S)
      /\ \A g \in S : \E e \in Matching(f) : g.key = ListenerOf[e]
      /\ \A e \in Matching(f) : \E g \in S : g.key = ListenerOf[e]
      /\ \A g, h \in S : g.key = h.key => g = h
  <2>1. \A e \in Matching(f) : ListenerOf[e] \in Listeners
    BY MatchingAre, ReadsAssumption
  <2>. QED BY <2>1, GroupsAre, ReadsAssumption DEF Columns, Key
<1>2. listed \in kSubset(IF Cardinality(S) < n THEN Cardinality(S) ELSE n, S)
  BY DEF Firsts
<1>3. n \in Nat
  BY ReadsAssumption
<1>4. Cardinality(S) <= Cardinality(Listeners)
  <2>. DEFINE keyOf == [g \in S |-> g.key]
  <2>. HIDE DEF S
  <2>1. \A g \in S : g.key \in Listeners
    BY <1>1, MatchingAre, ReadsAssumption
  <2>2. keyOf \in Injection(S, Listeners)
    BY <1>1, <2>1 DEF Injection, IsInjective
  <2>. HIDE DEF keyOf
  <2>. QED BY <2>2, FS_Injection, ReadsAssumption
<1>5. listed = S
  <2>. HIDE DEF S, n
  <2>1. Cardinality(S) <= n
    <3>1. Cardinality(S) \in Nat /\ Cardinality(Listeners) \in Nat
      BY <1>1, FS_CardinalityType, ReadsAssumption
    <3>. QED BY <1>3, <1>4, <3>1 DEF n
  <2>. QED BY <1>1, <1>2, <1>3, <2>1, FirstsAre
<1>6. {e \in Matching(f) : \E g \in S : Key(e, "listener_name") = g.key}
        = Matching(f)
  <2>. HIDE DEF S
  <2>. QED BY <1>1 DEF Key
<1>7. IsFiniteSet(stored)
  BY DEF LedgerFacts
<1>8. SumOfCounts(S) = Cardinality(Matching(f))
  <2>1. S \in SUBSET Groups(f, "listener_name")
    OBVIOUS
  <2>2. SumOfCounts(S) =
          Cardinality({e \in Matching(f) : \E g \in S : Key(e, "listener_name") = g.key})
    <3>. HIDE DEF S
    <3>. QED BY <1>7, <2>1, GroupsAddUp
  <2>. HIDE DEF S
  <2>. QED BY <1>6, <2>2
<1>. QED BY <1>5, <1>8

(* No breakdown counts more requests than there are. *)
LEMMA ClientsCounted ==
  ASSUME LedgerFacts, NEW f, NEW column,
         NEW listed \in Firsts(Groups(f, column), Larger, BreakdownLimit)
  PROVE  SumOfCounts(listed) <= Cardinality(Matching(f))
<1>. DEFINE S == Groups(f, column)
            n == BreakdownLimit
            counted == {e \in Matching(f) : \E g \in listed : Key(e, column) = g.key}
<1>1. listed \in kSubset(IF Cardinality(S) < n THEN Cardinality(S) ELSE n, S)
  BY DEF Firsts
<1>2. listed \in SUBSET S
  <2>. HIDE DEF S, n
  <2>. QED BY <1>1 DEF kSubset
<1>3. SumOfCounts(listed) = Cardinality(counted)
  <2>1. IsFiniteSet(stored)
    BY DEF LedgerFacts
  <2>. QED BY <1>2, <2>1, GroupsAddUp
<1>4. counted \subseteq Matching(f) /\ IsFiniteSet(Matching(f))
  BY MatchingAre
<1>. HIDE DEF counted
<1>. QED BY <1>3, <1>4, FS_Subset

(* What a filter matches only grows. *)
LEMMA MatchingGrows ==
  ASSUME LedgerFacts, LedgerFacts', stored \subseteq stored', NEW f
  PROVE  /\ Cardinality(Matching(f)) \in Nat
         /\ Cardinality(Matching(f))' \in Nat
         /\ Cardinality(Matching(f)) <= Cardinality(Matching(f))'
<1>1. Matching(f) \subseteq Matching(f)'
  BY DEF Matching
<1>2. IsFiniteSet(stored')
  BY DEF LedgerFacts
<1>3. Matching(f)' \subseteq stored'
  BY DEF Matching
<1>4. IsFiniteSet(Matching(f)')
  BY <1>2, <1>3, FS_Subset
<1>. QED BY <1>1, <1>4, MatchingAre, FS_Subset, FS_CardinalityType

-----------------------------------------------------------------------------
(* A planned query adds what it has shown. *)

(* What a summary has asked for so far is counted by numbers. *)
LEMMA AskedAre ==
  ASSUME ListsInv
  PROVE  Asked \in Nat /\ OfWeek \in Nat
BY MatchingAre DEF ListsInv, Asked, OfWeek

(* A total that has been read is a number.                                 *)
LEMMA TotalIs ==
  ASSUME ListsInv, Len(answer.totals) >= 1
  PROVE  Total \in Nat
<1>1. answer.totals \in Seq(TotalsRow)
  BY DEF ListsInv, AnswerFits, AnswerType
<1>2. answer.totals[1] \in TotalsRow
  BY <1>1
<1>. QED BY <1>2 DEF Total, TotalsRow

(* The next query of a summary: first the total, then the breakdown by     *)
(* listener, which counts no less, then the one by client type, which      *)
(* counts no more.                                                         *)
LEMMA SummaryMoves ==
  ASSUME ListsInv, todo # <<>>, NEW q, q = Head(todo), Read(q),
         call.kind \in {"summary", "overview", "stats"}, call # NoCall,
         NEW k \in 1 .. Len(PlanOf), q = PlanOf[k], SummaryFacts(k)
  PROVE  SummaryFacts(k + 1)'
<1>. DEFINE f == call.filter
<1>1. Served(call.kind, f)
  BY CallIsServed DEF ListsInv
<1>2. /\ Len(PlanOf) \in Nat /\ Len(PlanOf) >= 3
      /\ PlanOf[1].name = "totals"
      /\ PlanOf[2].name = "breakdown" /\ PlanOf[2].of = "listener_name"
      /\ PlanOf[3].name = "breakdown" /\ PlanOf[3].of = "client_type"
      /\ \A i \in 4 .. Len(PlanOf) : PlanOf[i].name # "breakdown"
      /\ \A i \in 1 .. 3 : Matching(PlanOf[i].filter) = Matching(f)
  BY <1>1, SummaryPlanIs DEF PlanOf
<1>3. UNCHANGED <<stored, tagRows, sessions, call, begun>>
  BY ReadIs
<1>4. Asked' = Asked /\ Asked \in Nat
  BY <1>3, AskedAre DEF Asked, Matching
<1>5. /\ answer.totals \in Seq(TotalsRow)
      /\ answer.breakdown \in [Columns -> SUBSET GroupRow]
      /\ answer \in AnswerType
  BY DEF ListsInv, AnswerFits, AnswerType
<1>6. CASE k = 1
  <2>1. /\ answer.totals = <<>>
        /\ answer'.totals = Append(answer.totals, Totals(q.filter))
    BY <1>2, <1>6, ReadLeaves DEF SummaryFacts
  <2>2. Totals(q.filter).count = Asked
    <3>1. Matching(q.filter) = Matching(f)
      BY <1>2, <1>6
    <3>2. Totals(q.filter).count = Cardinality(Matching(q.filter))
      BY TotalsAre DEF ListsInv
    <3>. QED BY <3>1, <3>2 DEF Asked
  <2>3. Len(answer'.totals) = 1 /\ answer'.totals[1] = Totals(q.filter)
    BY <2>1
  <2>4. Total' = Asked
    BY <2>2, <2>3 DEF Total
  <2>. QED BY <1>4, <1>6, <2>3, <2>4 DEF SummaryFacts
<1>7. CASE k > 1
  <2>1. Len(answer.totals) >= 1 /\ Total <= Asked /\ (begun = stored => Total = Asked)
    BY <1>7 DEF SummaryFacts
  <2>2. Len(answer'.totals) >= 1 /\ answer'.totals[1] = answer.totals[1]
    <3>1. \/ answer'.totals = answer.totals
          \/ answer'.totals = Append(answer.totals, Totals(q.filter))
      BY ReadLeaves
    <3>. QED BY <1>5, <2>1, <3>1
  <2>3. Total' = Total /\ Total \in Nat
    BY <2>1, <2>2, TotalIs DEF Total
  <2>4. CASE k \in {2, 3}
    <3>1. /\ q.name = "breakdown" /\ Matching(q.filter) = Matching(f)
          /\ q.of = IF k = 2 THEN "listener_name" ELSE "client_type"
      BY <1>2, <2>4
    <3>2. PICK listed \in Firsts(Groups(q.filter, q.of), Larger, BreakdownLimit) :
            answer' = [answer EXCEPT !.breakdown[q.of] = listed]
      BY <3>1, ReadIs DEF ReadBreakdown
    <3>3. q.of \in Columns
      BY <3>1 DEF Columns
    <3>4. answer'.breakdown = [answer.breakdown EXCEPT ![q.of] = listed]
      BY <1>5, <3>2 DEF AnswerType
    <3>5. CountedIn(q.of)' = SumOfCounts(listed)
      BY <1>5, <3>3, <3>4 DEF CountedIn
    <3>6. CASE k = 2
      <4>1. Cardinality(Listeners) <= BreakdownLimit => SumOfCounts(listed) = Asked
        <5>1. listed \in Firsts(Groups(q.filter, "listener_name"), Larger, BreakdownLimit)
          BY <3>1, <3>2, <3>6
        <5>2. Cardinality(Listeners) <= BreakdownLimit =>
                SumOfCounts(listed) = Cardinality(Matching(q.filter))
          BY <5>1, ListenersCounted DEF ListsInv
        <5>. QED BY <3>1, <5>2 DEF Asked
      <4>2. CountedIn("listener_name")' = SumOfCounts(listed)
        BY <3>1, <3>5, <3>6
      <4>. QED BY <1>3, <1>4, <2>1, <2>2, <2>3, <3>6, <4>1, <4>2 DEF SummaryFacts
    <3>7. CASE k = 3
      <4>1. SumOfCounts(listed) <= Asked
        <5>1. SumOfCounts(listed) <= Cardinality(Matching(q.filter))
          BY <3>2, ClientsCounted DEF ListsInv
        <5>. QED BY <3>1, <5>1 DEF Asked
      <4>2. CountedIn("client_type")' = SumOfCounts(listed)
        BY <3>1, <3>5, <3>7
      <4>3. CountedIn("listener_name")' = CountedIn("listener_name")
        <5>1. "listener_name" \in Columns /\ "listener_name" # q.of
          BY <3>1, <3>7 DEF Columns
        <5>. QED BY <1>5, <3>4, <5>1 DEF CountedIn
      <4>. QED BY <1>3, <1>4, <2>1, <2>2, <2>3, <3>7, <4>1, <4>2, <4>3 DEF SummaryFacts
    <3>. QED BY <2>4, <3>6, <3>7
  <2>5. CASE k > 3
    <3>1. q.name # "breakdown"
      BY <1>2, <2>5
    <3>2. answer'.breakdown = answer.breakdown
      BY <3>1, ReadLeaves
    <3>3. \A c : CountedIn(c)' = CountedIn(c)
      BY <3>2 DEF CountedIn
    <3>. QED BY <1>3, <1>4, <2>1, <2>2, <2>3, <2>5, <3>3 DEF SummaryFacts
  <2>. QED BY <1>7, <2>4, <2>5
<1>. QED BY <1>6, <1>7

(* The requests of an overview are read last: a request its total has      *)
(* counted is still stored.                                                *)
LEMMA OverviewMoves ==
  ASSUME ListsInv, todo # <<>>, NEW q, q = Head(todo), Read(q),
         call.kind \in {"overview", "stats"}, call # NoCall,
         NEW k \in 1 .. Len(PlanOf), q = PlanOf[k], SummaryFacts(k)
  PROVE  OverviewFacts(k + 1)'
<1>1. call.filter = Recent /\ Served(call.kind, call.filter)
  BY CallIsServed DEF ListsInv, Served
<1>2. /\ Len(PlanOf) \in Nat /\ Len(PlanOf) > 1
      /\ PlanOf[Len(PlanOf)].name = "requests"
      /\ PlanOf[Len(PlanOf)].filter = Recent
  BY OverviewPlanIs DEF PlanOf
<1>3. UNCHANGED <<stored, tagRows, sessions, call, begun>>
  BY ReadIs
<1>4. PlanOf' = PlanOf
  BY <1>3 DEF PlanOf
<1>. SUFFICES ASSUME k = Len(PlanOf), Total' > 0
              PROVE  answer'.requests # {}
  BY <1>2, <1>4 DEF OverviewFacts
<1>5. q.name = "requests" /\ q.filter = Recent
  BY <1>2
<1>6. PICK listed : Lists(q, listed)
  BY <1>5, ReadIs, RequestsAre
<1>7. /\ Cardinality(listed) = IF Asked < OverviewLimit THEN Asked ELSE OverviewLimit
      /\ OverviewLimit > 0 /\ OverviewLimit \in Nat
  <2>1. Recent.limit = OverviewLimit /\ Recent.offset = 0
    BY DEF Recent, Everything
  <2>2. OverviewLimit \in Nat \ {0}
    BY ReadsAssumption
  <2>. QED BY <1>1, <1>5, <1>6, <2>1, <2>2 DEF Lists, Asked
<1>8. Asked > 0 /\ Asked \in Nat
  <2>1. Len(answer.totals) >= 1 /\ Total <= Asked
    BY <1>2 DEF SummaryFacts
  <2>2. Total' = Total
    BY <1>5, ReadLeaves DEF Total
  <2>3. Total \in Nat /\ Asked \in Nat
    BY <2>1, TotalIs, AskedAre
  <2>. QED BY <2>1, <2>2, <2>3
<1>9. listed # {}
  <2>1. Cardinality(listed) # 0
    BY <1>7, <1>8
  <2>. QED BY <2>1, FS_EmptySet
<1>10. answer \in AnswerType
  BY DEF ListsInv, AnswerFits
<1>11. answer'.requests = listed
  BY <1>6, <1>10 DEF Lists, AnswerType
<1>. QED BY <1>9, <1>11

(* The totals of a report are of windows that grow, read one after the     *)
(* other.                                                                  *)
LEMMA StatsMoves ==
  ASSUME ListsInv, todo # <<>>, NEW q, q = Head(todo), Read(q),
         call.kind = "stats",
         NEW k \in 1 .. Len(PlanOf), q = PlanOf[k], StatsFacts(k)
  PROVE  StatsFacts(k + 1)'
<1>. DEFINE c == answer.totals
            d == answer'.totals
            x == Totals(q.filter)
<1>1. /\ Len(PlanOf) = 9
      /\ \A i \in 1 .. 9 :
           PlanOf[i].name \in {"totals", "rows"} <=> i \in {1, 4, 5, 6, 7}
      /\ PlanOf[4].filter = Since(DayStart)
      /\ \A i \in 5 .. 7 : PlanOf[i].filter = Since(WeekStart)
  BY StatsPlanIs DEF PlanOf
<1>2. UNCHANGED <<stored, tagRows, sessions, call, begun>>
  BY ReadIs
<1>3. OfWeek' = OfWeek /\ OfWeek \in Nat
  BY <1>2, AskedAre DEF OfWeek, Matching
<1>4. c \in Seq(TotalsRow)
  BY DEF ListsInv, AnswerFits, AnswerType
<1>5. /\ Len(c) = IF k = 1 THEN 0 ELSE IF k < 5 THEN 1
                  ELSE IF k < 9 THEN k - 3 ELSE 5
      /\ \A i \in 2 .. Len(c) : c[i].count <= OfWeek
      /\ \A i \in 2 .. Len(c) - 1 : c[i].count <= c[i + 1].count
  BY DEF StatsFacts
<1>6. k \in 1 .. 9
  BY <1>1
<1>7. CASE k \notin {1, 4, 5, 6, 7}
  <2>1. d = c
    BY <1>1, <1>6, <1>7, ReadLeaves
  <2>2. Len(d) = IF k + 1 = 1 THEN 0 ELSE IF k + 1 < 5 THEN 1
                 ELSE IF k + 1 < 9 THEN (k + 1) - 3 ELSE 5
    BY <1>5, <1>6, <1>7, <2>1
  <2>. QED BY <1>3, <1>5, <2>1, <2>2 DEF StatsFacts
<1>8. CASE k \in {1, 4, 5, 6, 7}
  <2>1. d = Append(c, x)
    BY <1>1, <1>6, <1>8, ReadLeaves
  <2>2. x \in TotalsRow /\ x.count = Cardinality(Matching(q.filter)) /\ x.count \in Nat
    BY TotalsAre DEF ListsInv, TotalsRow
  <2>3. /\ Len(d) = Len(c) + 1 /\ d[Len(c) + 1] = x
        /\ \A i \in 1 .. Len(c) : d[i] = c[i]
    BY <1>4, <2>1, <2>2
  <2>4. k >= 5 => x.count = OfWeek
    <3>1. k >= 5 => q.filter = Since(WeekStart)
      BY <1>1, <1>8
    <3>. QED BY <2>2, <3>1 DEF OfWeek
  <2>5. k = 4 => x.count <= OfWeek
    <3>. SUFFICES ASSUME k = 4 PROVE x.count <= OfWeek
      OBVIOUS
    <3>1. Matching(Since(DayStart)) \subseteq Matching(Since(WeekStart))
      <4>1. /\ WeekStart \in Nat \ {0} /\ DayStart \in Nat \ {0}
            /\ WeekStart <= DayStart /\ StartOf \in [Events -> Nat]
            /\ stored \in SUBSET Events
        BY ReadsAssumption, EventsAssumption DEF ListsInv, LedgerFacts, TypeOK
      <4>2. \A s : /\ Since(s).after = s /\ Since(s).before = Now
                   /\ Since(s).session = NoSession /\ Since(s).client = NoClient
        BY DEF Since, Everything
      <4>. QED BY <4>1, <4>2 DEF Matching
    <3>2. IsFiniteSet(Matching(Since(WeekStart)))
      BY MatchingAre DEF ListsInv
    <3>. QED BY <1>1, <2>2, <3>1, <3>2, FS_Subset DEF OfWeek
  <2>6. Len(d) = IF k + 1 = 1 THEN 0 ELSE IF k + 1 < 5 THEN 1
                 ELSE IF k + 1 < 9 THEN (k + 1) - 3 ELSE 5
    BY <1>5, <1>8, <2>3
  <2>. HIDE DEF x, c, d
  <2>7. Len(c) \in Nat /\ (Len(c) >= 1 => k >= 4) /\ (Len(c) >= 2 => k >= 5)
    BY <1>4, <1>5, <1>8
  <2>8. ASSUME NEW i \in 2 .. Len(d) PROVE d[i].count <= OfWeek
    <3>1. CASE i <= Len(c)
      <4>1. i \in 2 .. Len(c) /\ i \in 1 .. Len(c)
        BY <2>7, <3>1
      <4>. QED BY <1>5, <2>3, <4>1
    <3>2. CASE i > Len(c)
      <4>1. i = Len(c) + 1 /\ k >= 4
        BY <2>3, <2>7, <3>2
      <4>2. k = 4 \/ k >= 5
        BY <1>8, <4>1
      <4>3. x.count <= OfWeek
        BY <1>3, <2>4, <2>5, <4>2
      <4>. QED BY <2>3, <4>1, <4>3
    <3>. QED BY <2>7, <3>1, <3>2
  <2>9. ASSUME NEW i \in 2 .. Len(d) - 1 PROVE d[i].count <= d[i + 1].count
    <3>0. i \in 2 .. Len(c) /\ i \in 1 .. Len(c)
      BY <2>3, <2>7
    <3>1. CASE i < Len(c)
      <4>1. i + 1 \in 1 .. Len(c) /\ i \in 2 .. Len(c) - 1
        BY <2>7, <3>0, <3>1
      <4>. QED BY <1>5, <2>3, <3>0, <4>1
    <3>2. CASE i = Len(c)
      <4>1. k >= 5 /\ d[i] = c[i] /\ d[i + 1] = x
        BY <2>3, <2>7, <3>0, <3>2
      <4>. QED BY <1>5, <2>4, <3>0, <4>1
    <3>. QED BY <2>7, <3>0, <3>1, <3>2
  <2>. QED BY <1>3, <2>6, <2>8, <2>9 DEF StatsFacts, d
<1>. QED BY <1>7, <1>8

(* What is read for a session's row leaves its count. *)
LEMMA CountsStay ==
  ASSUME ListsInv, todo # <<>>, NEW q, q = Head(todo), Read(q),
         q.name \in {"clients", "tags"}
  PROVE  \A t \in answer'.sessions : \E s \in answer.sessions : t.count = s.count
<1>. DEFINE read(s) == IF s.id = q.of
       THEN [s EXCEPT !.clients = DistinctClients(q.of, q.filter)] ELSE s
<1>1. answer \in AnswerType /\ answer.sessions \in SUBSET SessionItem
  BY DEF ListsInv, AnswerFits, AnswerType
<1>2. CASE q.name = "clients"
  <2>1. \A s \in SessionItem : read(s).count = s.count
    BY DEF SessionItem
  <2>2. answer' = [answer EXCEPT !.sessions = {read(s) : s \in @}]
    BY <1>2, ReadIs DEF ReadClients
  <2>. HIDE DEF read
  <2>3. answer'.sessions = {read(s) : s \in answer.sessions}
    BY <1>1, <2>2 DEF AnswerType
  <2>. QED BY <1>1, <2>1, <2>3
<1>3. CASE q.name = "tags"
  BY <1>3, ReadLeaves
<1>. QED BY <1>2, <1>3

(* The row of a session counts the requests that are listed later, or      *)
(* fewer.                                                                  *)
LEMMA PageMoves ==
  ASSUME ListsInv, todo # <<>>, NEW q, q = Head(todo), Read(q),
         call.kind = "session", call # NoCall,
         NEW k \in 1 .. Len(PlanOf), q = PlanOf[k], PageFacts(k)
  PROVE  PageFacts(k + 1)'
<1>. DEFINE f == call.filter
<1>1. /\ Served("session", f) /\ f.session \in Sessions
      /\ f = OfSession(f.session, Everything(DetailLimit))
  BY CallIsServed DEF ListsInv, Served
<1>2. /\ Len(PlanOf) = 3
      /\ PlanOf[1].name = "row" /\ PlanOf[1].of = f.session
      /\ PlanOf[2].name = "clients"
      /\ PlanOf[3].name = "requests" /\ PlanOf[3].filter = f
  BY <1>1, SessionPlanIs DEF PlanOf
<1>3. UNCHANGED <<stored, tagRows, sessions, call, begun>>
  BY ReadIs
<1>4. Asked' = Asked /\ Asked \in Nat
  BY <1>3, AskedAre DEF Asked, Matching
<1>5. answer \in AnswerType /\ answer.sessions \in SUBSET SessionItem
  BY DEF ListsInv, AnswerFits, AnswerType
<1>6. CASE k = 1
  <2>1. ReadRow(q) /\ q.of = f.session
    BY <1>2, <1>6, ReadIs
  <2>2. PICK item : item.count = sessions[q.of].count /\ answer'.sessions = {item}
    <3>. DEFINE row == [id |-> q.of, count |-> sessions[q.of].count,
                        tokens |-> sessions[q.of].tokens, clients |-> {}]
    <3>1. row.count = sessions[q.of].count
      OBVIOUS
    <3>2. answer' = [answer EXCEPT !.sessions = {row}]
      BY <2>1 DEF ReadRow
    <3>. HIDE DEF row
    <3>3. answer'.sessions = {row}
      BY <1>5, <3>2 DEF AnswerType
    <3>. QED BY <3>1, <3>3
  <2>3. Matching(f) = MembersOf(f.session, stored)
    <3>1. f.client = NoClient /\ f.after = 0 /\ f.before = 0
      BY <1>1 DEF OfSession, Everything
    <3>2. f.session # NoSession
      BY <1>1, EventsAssumption
    <3>. QED BY <3>1, <3>2 DEF Matching, MembersOf
  <2>4. item.count = Asked
    BY <1>1, <2>1, <2>2, <2>3 DEF ListsInv, LedgerFacts, RowsAgree, Asked
  <2>. QED BY <1>4, <1>6, <2>2, <2>4 DEF PageFacts
<1>7. CASE k = 2
  <2>1. q.name = "clients"
    BY <1>2, <1>7
  <2>2. \A t \in answer'.sessions : \E s \in answer.sessions : t.count = s.count
    BY <2>1, CountsStay
  <2>. QED BY <1>4, <1>7, <2>2 DEF PageFacts
<1>8. CASE k = 3
  <2>1. q.name = "requests" /\ q.filter = f
    BY <1>2, <1>8
  <2>2. PICK listed : Lists(q, listed)
    BY <2>1, ReadIs, RequestsAre
  <2>3. /\ answer'.requests = listed /\ answer'.sessions = answer.sessions
    BY <1>5, <2>2 DEF Lists, AnswerType
  <2>4. Cardinality(listed) = IF Asked < DetailLimit THEN Asked ELSE DetailLimit
    <3>1. f.limit = DetailLimit /\ f.offset = 0
      BY <1>1 DEF OfSession, Everything
    <3>2. DetailLimit \in Nat \ {0}
      BY ReadsAssumption
    <3>. QED BY <2>1, <2>2, <3>1, <3>2 DEF Lists, Asked
  <2>5. \A s \in answer.sessions : s.count <= Asked
    BY DEF PageFacts
  <2>6. \A s \in answer.sessions : s.count \in Nat
    BY <1>5 DEF SessionItem
  <2>. QED BY <1>4, <1>8, <2>3, <2>4, <2>5, <2>6 DEF PageFacts
<1>. QED BY <1>2, <1>6, <1>7, <1>8

(* Between two queries of a plan, rows and appends leave it as it is. *)
LEMMA FactsStay ==
  ASSUME ListsInv, ListsInv', stored \subseteq stored', UNCHANGED call,
         begun' = begun,
         answer'.totals = answer.totals, answer'.breakdown = answer.breakdown,
         answer'.requests = answer.requests,
         \A t \in answer'.sessions : \E s \in answer.sessions : t.count = s.count,
         NEW k, k \in Nat, Facts(k)
  PROVE  Facts(k)'
<1>1. /\ LedgerFacts /\ LedgerFacts' /\ begun \subseteq stored
      /\ answer \in AnswerType /\ answer' \in AnswerType
  BY DEF ListsInv, AnswerFits
<1>2. /\ Asked \in Nat /\ Asked' \in Nat /\ Asked <= Asked'
      /\ OfWeek \in Nat /\ OfWeek' \in Nat /\ OfWeek <= OfWeek'
  <2>1. \A f : /\ Cardinality(Matching(f)) \in Nat
               /\ Cardinality(Matching(f))' \in Nat
               /\ Cardinality(Matching(f)) <= Cardinality(Matching(f))'
    BY <1>1, MatchingGrows
  <2>2. /\ Asked' \in Nat /\ Asked <= Asked'
    BY <2>1 DEF Asked
  <2>. QED BY <2>1, <2>2, AskedAre DEF OfWeek
<1>3. begun' = stored' => stored' = stored /\ begun = stored
  BY <1>1
<1>4. begun' = stored' => Asked' = Asked
  BY <1>3 DEF Asked, Matching
<1>5. Total' = Total /\ (\A c : CountedIn(c)' = CountedIn(c)) /\ PlanOf' = PlanOf
  BY DEF Total, CountedIn, PlanOf
<1>6. Len(answer.totals) >= 1 => Total \in Nat
  BY TotalIs
<1>7. SummaryFacts(k) => SummaryFacts(k)'
  BY <1>2, <1>3, <1>4, <1>5, <1>6 DEF SummaryFacts
<1>8. OverviewFacts(k) => OverviewFacts(k)'
  BY <1>5 DEF OverviewFacts
<1>9. StatsFacts(k) => StatsFacts(k)'
  <2>1. answer.totals \in Seq(TotalsRow)
    BY <1>1 DEF AnswerType
  <2>2. \A i \in 1 .. Len(answer.totals) : answer.totals[i].count \in Nat
    <3>1. \A r \in TotalsRow : r.count \in Nat
      BY DEF TotalsRow
    <3>2. \A i \in 1 .. Len(answer.totals) : answer.totals[i] \in TotalsRow
      BY <2>1
    <3>. QED BY <3>1, <3>2
  <2>3. ASSUME NEW i \in 2 .. Len(answer.totals), answer.totals[i].count <= OfWeek
        PROVE  answer.totals[i].count <= OfWeek'
    <3>1. answer.totals[i].count \in Nat
      <4>1. i \in 1 .. Len(answer.totals)
        BY <2>1
      <4>. QED BY <2>2, <4>1
    <3>. QED BY <1>2, <2>3, <3>1
  <2>. QED BY <2>3 DEF StatsFacts
<1>10. PageFacts(k) => PageFacts(k)'
  <2>. SUFFICES ASSUME PageFacts(k) PROVE PageFacts(k)'
    OBVIOUS
  <2>1. \A s \in answer.sessions : s.count \in Nat
    BY <1>1 DEF AnswerType, SessionItem
  <2>2. k = 1 => answer'.sessions = {}
    BY DEF PageFacts
  <2>3. \A t \in answer'.sessions : t.count <= Asked'
    BY <1>2, <2>1 DEF PageFacts
  <2>. QED BY <2>2, <2>3 DEF PageFacts
<1>. QED BY <1>7, <1>8, <1>9, <1>10 DEF Facts

(* A query of a row leaves the place in the plan, a planned one moves it   *)
(* on.                                                                     *)
LEMMA ReadKeepsPlan ==
  ASSUME ListsInv, ListsInv', PlanInv, todo # <<>>, NEW q, q = Head(todo), Read(q)
  PROVE  PlanInv'
<1>1. call # NoCall
  BY DEF PlanInv
<1>2. PICK k, m : Follows(todo, PlanOf, k, m) /\ Facts(k)
  BY <1>1 DEF PlanInv
<1>3. Served(call.kind, call.filter)
  BY <1>1, CallIsServed DEF ListsInv
<1>4. Len(PlanOf) \in Nat
  BY <1>3, PlanLength DEF PlanOf
<1>5. UNCHANGED <<stored, tagRows, sessions, call, begun>>
  BY ReadIs
<1>6. PlanOf' = PlanOf /\ call' # NoCall
  BY <1>1, <1>5 DEF PlanOf
<1>7. PICK R, u : Takes(q, R, u)
  BY ReadTakes
<1>8. k \in Nat /\ m \in Nat
  BY <1>2, <1>4 DEF Follows
<1>9. CASE m > 0
  <2>1. q.name \in {"clients", "tags"} /\ Follows(<<>> \o Tail(todo), PlanOf, k, m - 1)
    BY <1>2, <1>4, <1>9, OwnQuery
  <2>2. Follows(todo', PlanOf, k, m - 1)
    BY <1>7, <2>1 DEF Takes
  <2>3. /\ answer'.totals = answer.totals /\ answer'.breakdown = answer.breakdown
        /\ answer'.requests = answer.requests
    BY <2>1, ReadLeaves
  <2>4. \A t \in answer'.sessions : \E s \in answer.sessions : t.count = s.count
    BY <2>1, CountsStay
  <2>5. Facts(k)'
    BY <1>2, <1>5, <1>8, <2>3, <2>4, FactsStay
  <2>. QED BY <1>6, <2>2, <2>5 DEF PlanInv
<1>10. CASE m = 0
  <2>1. k \in 1 .. Len(PlanOf) /\ q = PlanOf[k]
    BY <1>2, <1>4, <1>10, PlannedHead
  <2>2. Follows(todo', PlanOf, k + 1, Len(u))
    <3>1. Follows(u \o Tail(todo), PlanOf, k + 1, Len(u))
      BY <1>2, <1>4, <1>7, <1>10, PlannedRest DEF Takes
    <3>. QED BY <1>7, <3>1 DEF Takes
  <2>3. call.kind \in {"summary", "overview", "stats"} => SummaryFacts(k + 1)'
    BY <1>1, <1>2, <2>1, SummaryMoves DEF Facts
  <2>4. call.kind \in {"overview", "stats"} => OverviewFacts(k + 1)'
    BY <1>1, <1>2, <2>1, OverviewMoves DEF Facts
  <2>5. call.kind = "stats" => StatsFacts(k + 1)'
    BY <1>1, <1>2, <2>1, StatsMoves DEF Facts
  <2>6. call.kind = "session" => PageFacts(k + 1)'
    BY <1>1, <1>2, <2>1, PageMoves DEF Facts
  <2>7. Facts(k + 1)'
    BY <1>5, <2>3, <2>4, <2>5, <2>6 DEF Facts
  <2>. QED BY <1>6, <2>2, <2>7 DEF PlanInv
<1>. QED BY <1>8, <1>9, <1>10

(* An append moves nothing in the plan.                                    *)
LEMMA CommitKeepsPlan ==
  ASSUME ListsInv, ListsInv', PlanInv, NEW e \in Events, Commit(e)
  PROVE  PlanInv'
<1>1. /\ e \notin stored /\ stored' = stored \cup {e}
      /\ UNCHANGED <<call, todo, answer, begun>>
  BY AppendKeepsFacts DEF Commit, ListsInv, readVars
<1>2. PlanOf' = PlanOf
  BY <1>1 DEF PlanOf
<1>3. CASE call = NoCall
  BY <1>1, <1>3 DEF PlanInv
<1>4. CASE call # NoCall
  <2>1. PICK k, m : Follows(todo, PlanOf, k, m) /\ Facts(k)
    BY <1>4 DEF PlanInv
  <2>2. k \in Nat
    <3>1. Served(call.kind, call.filter)
      BY <1>4, CallIsServed DEF ListsInv
    <3>2. Len(PlanOf) \in Nat
      BY <3>1, PlanLength DEF PlanOf
    <3>. QED BY <2>1, <3>2 DEF Follows
  <2>3. Facts(k)'
    BY <1>1, <2>1, <2>2, FactsStay
  <2>. QED BY <1>1, <1>2, <1>4, <2>1, <2>3 DEF PlanInv
<1>. QED BY <1>3, <1>4

(* A call starts with the whole of its plan and nothing read.              *)
LEMMA CallStartsPlan ==
  ASSUME ListsInv, ListsInv', NEW kind \in Kinds, NEW f \in Filters, Call(kind, f)
  PROVE  PlanInv'
<1>1. /\ call' = [kind |-> kind, filter |-> FilterOf(kind, f)]
      /\ todo' = Plan(kind, f) /\ answer' = NoAnswer
      /\ f \in RequestFilter /\ (kind = "session" => f.session \in Sessions)
  BY ReadsAssumption DEF Call, RequestFilter
<1>2. call' # NoCall
  <2>1. call'.kind = kind /\ NoCall.kind = "none"
    BY <1>1 DEF NoCall
  <2>. QED BY <2>1 DEF Kinds
<1>3. PlanOf' = Plan(kind, f)
  BY <1>1, PlanIsKept DEF PlanOf
<1>4. Served(call'.kind, call'.filter)
  BY <1>1, FilterOfIs DEF Served, Recent
<1>5. (\E S : Plan(kind, f) \in Seq(S)) /\ Len(Plan(kind, f)) \in Nat
  <2>1. /\ \E S : Plan(call'.kind, call'.filter) \in Seq(S)
        /\ Len(Plan(call'.kind, call'.filter)) \in Nat
    BY <1>4, PlanLength
  <2>. QED BY <1>3, <2>1 DEF PlanOf
<1>6. Follows(Plan(kind, f), Plan(kind, f), 1, 0)
  BY <1>5 DEF Follows
<1>7. answer'.totals = <<>> /\ answer'.sessions = {}
  BY <1>1 DEF NoAnswer
<1>8. SummaryFacts(1)' /\ StatsFacts(1)' /\ PageFacts(1)'
  <2>1. Len(<<>>) = 0
    OBVIOUS
  <2>. QED BY <1>7, <2>1 DEF SummaryFacts, StatsFacts, PageFacts
<1>9. call'.kind \in {"overview", "stats"} => OverviewFacts(1)'
  BY <1>3, OverviewPlanIs, <1>1 DEF OverviewFacts
<1>10. Facts(1)'
  BY <1>8, <1>9 DEF Facts
<1>. QED BY <1>1, <1>2, <1>3, <1>6, <1>10 DEF PlanInv

(* Every step keeps the plan and what it has shown.                        *)
LEMMA PlanStep ==
  ListsInv /\ ListsInv' /\ PlanInv /\ [ReadsNext]_vars => PlanInv'
<1>. SUFFICES ASSUME ListsInv, ListsInv', PlanInv, [ReadsNext]_vars
              PROVE  PlanInv'
  OBVIOUS
<1>1. CASE \E e \in Events : Commit(e)
  BY <1>1, CommitKeepsPlan
<1>2. CASE \E kind \in Kinds, f \in Filters : Call(kind, f)
  BY <1>2, CallStartsPlan
<1>3. CASE todo # <<>> /\ Read(Head(todo))
  BY <1>3, ReadKeepsPlan
<1>4. CASE Reply \/ Fail
  BY <1>4 DEF Reply, Fail, EndCall, PlanInv
<1>5. CASE UNCHANGED vars
  <2>1. UNCHANGED <<stored, call, todo, answer, begun>>
    BY <1>5 DEF vars, ledgerVars, readVars
  <2>2. CASE call = NoCall
    BY <2>1, <2>2 DEF PlanInv
  <2>3. CASE call # NoCall
    <3>1. PICK k, m : Follows(todo, PlanOf, k, m) /\ Facts(k)
      BY <2>3 DEF PlanInv
    <3>2. PlanOf' = PlanOf
      BY <2>1 DEF PlanOf
    <3>3. Facts(k)'
      BY <2>1, <3>1 DEF Facts, SummaryFacts, OverviewFacts, StatsFacts, PageFacts,
         Total, CountedIn, PlanOf, Asked, OfWeek, Matching
    <3>. QED BY <2>1, <2>3, <3>1, <3>2, <3>3 DEF PlanInv
  <2>. QED BY <2>2, <2>3
<1>. QED BY <1>1, <1>2, <1>3, <1>4, <1>5 DEF ReadsNext, Read

(* The inductive invariant of the calls that are several queries: how far  *)
(* the plan has come, and what its queries have shown until there.         *)
THEOREM PlanInvariant == ReadsSpec => [](ListsInv /\ PlanInv)
<1>1. ReadsInit => ListsInv /\ PlanInv
  BY ListsStart DEF ReadsInit, PlanInv
<1>2. ListsInv /\ PlanInv /\ [ReadsNext]_vars => (ListsInv /\ PlanInv)'
  BY ListsStep, PlanStep
<1>. QED BY <1>1, <1>2, PTL DEF ReadsSpec

(* A call that has run its queries has come to the end of its plan.        *)
LEMMA AnsweredHas ==
  ASSUME ListsInv, PlanInv, NEW kind \in Kinds, Answered(kind)
  PROVE  /\ call # NoCall /\ Served(kind, call.filter)
         /\ Len(PlanOf) \in Nat /\ Facts(Len(PlanOf) + 1)
<1>1. call # NoCall
  BY DEF Answered, NoCall, Kinds
<1>2. Served(kind, call.filter)
  BY <1>1, CallIsServed DEF ListsInv, Answered
<1>3. Len(PlanOf) \in Nat
  BY <1>2, PlanLength DEF PlanOf, Answered
<1>4. PICK k, m : Follows(todo, PlanOf, k, m) /\ Facts(k)
  BY <1>1 DEF PlanInv
<1>5. k = Len(PlanOf) + 1
  <2>1. Len(todo) = 0
    BY DEF Answered
  <2>. QED BY <1>3, <1>4, <2>1 DEF Follows
<1>. QED BY <1>1, <1>2, <1>3, <1>4, <1>5

(* What a summary has counted in its total its breakdown by listener has   *)
(* too, for any number of listeners within the limit and any appends       *)
(* between the queries; with none, the sums are exact.                     *)
THEOREM SummariesMissNothing == ReadsSpec => []SummaryMissesNothing
<1>1. ASSUME ListsInv, PlanInv, NEW kind \in {"summary", "overview", "stats"},
             Answered(kind)
      PROVE  /\ SummaryFacts(Len(PlanOf) + 1)
             /\ Len(PlanOf) \in Nat /\ Len(PlanOf) >= 3
  <2>1. /\ Served(kind, call.filter) /\ Len(PlanOf) \in Nat
        /\ Facts(Len(PlanOf) + 1)
    BY <1>1, AnsweredHas DEF Kinds
  <2>2. Len(PlanOf) >= 3
    BY <1>1, <2>1, SummaryPlanIs DEF PlanOf, Answered
  <2>. QED BY <1>1, <2>1, <2>2 DEF Facts, Answered
<1>2. ListsInv /\ PlanInv => SummaryMissesNothing
  <2>. SUFFICES ASSUME ListsInv, PlanInv,
                       NEW kind \in {"summary", "overview", "stats"}, Answered(kind),
                       Cardinality(Listeners) <= BreakdownLimit
                PROVE  /\ CountedIn("listener_name") >= Total
                       /\ begun = stored =>
                            /\ CountedIn("listener_name") = Total
                            /\ CountedIn("client_type") <= Total
    BY DEF SummaryMissesNothing, CountedIn
  <2>. QED BY <1>1 DEF SummaryFacts
<1>. QED BY <1>2, PlanInvariant, PTL

(* The parts of one page agree, whatever is appended between the queries   *)
(* they come from and however far back the windows reach.                  *)
THEOREM PagesDoAgree == ReadsSpec => []PagesAgree
<1>1. ASSUME ListsInv, PlanInv, Answered("session"), NEW item \in answer.sessions
      PROVE  \/ Cardinality(answer.requests) >= item.count
             \/ Cardinality(answer.requests) = DetailLimit
  <2>1. /\ Served("session", call.filter) /\ Facts(Len(PlanOf) + 1)
    BY <1>1, AnsweredHas DEF Kinds
  <2>2. Len(PlanOf) = 3
    BY <1>1, <2>1, SessionPlanIs DEF PlanOf, Answered
  <2>. QED BY <1>1, <2>1, <2>2 DEF Facts, PageFacts, Answered
<1>2. ASSUME ListsInv, PlanInv, Answered("overview") \/ Answered("stats"), Total > 0
      PROVE  answer.requests # {}
  <2>1. Facts(Len(PlanOf) + 1) /\ Len(PlanOf) \in Nat
    BY <1>2, AnsweredHas DEF Kinds
  <2>. QED BY <1>2, <2>1 DEF Facts, OverviewFacts, Answered
<1>3. ASSUME ListsInv, PlanInv, Answered("stats"), NEW i \in 2 .. 4
      PROVE  answer.totals[i].count <= answer.totals[i + 1].count
  <2>1. Facts(Len(PlanOf) + 1)
    BY <1>3, AnsweredHas DEF Kinds
  <2>2. Len(PlanOf) = 9
    BY <1>3, StatsPlanIs DEF PlanOf, Answered
  <2>3. Len(answer.totals) = 5
    BY <1>3, <2>1, <2>2 DEF Facts, StatsFacts, Answered
  <2>. QED BY <1>3, <2>1, <2>3 DEF Facts, StatsFacts, Answered
<1>4. ListsInv /\ PlanInv => PagesAgree
  BY <1>1, <1>2, <1>3 DEF PagesAgree
<1>. QED BY <1>4, PlanInvariant, PTL
=============================================================================
