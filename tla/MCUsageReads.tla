---------------------------- MODULE MCUsageReads ----------------------------
(***************************************************************************)
(* Four events, of two sessions and of none, with three client types and a *)
(* blank one, through two listeners; limits of one and two, so that every  *)
(* list but the breakdown by listener is cut off somewhere. Who they are   *)
(* from is resolved from their headers and their listeners' tags.          *)
(***************************************************************************)
EXTENDS UsageReads, Identity

CONSTANTS e1, e2, e3, e4, s1, s2, t1, t2, c1, c2, c3, l1, l2, on

MCEvents     == {e1, e2, e3, e4}
MCIdOf       == (e1 :> 1) @@ (e2 :> 2) @@ (e3 :> 3) @@ (e4 :> 4)
MCStartOf    == (e1 :> 2) @@ (e2 :> 1) @@ (e3 :> 3) @@ (e4 :> 3)
MCFinishOf   == (e1 :> 3) @@ (e2 :> 5) @@ (e3 :> 4) @@ (e4 :> 4)
MCTokensOf   == (e1 :> 2) @@ (e2 :> 1) @@ (e3 :> 4) @@ (e4 :> 2)
MCListenerOf == (e1 :> l1) @@ (e2 :> l2) @@ (e3 :> l1) @@ (e4 :> l2)

-----------------------------------------------------------------------------
(* Who the events are from *)

MCFields    == {"client_type", "session_id"}
MCSpellings == {"client_type", "Client-Type", t1, t2, " "}
MCKeys      == MCFields \cup {t1, t2, Blank}
MCTexts     == Sessions \cup Clients \cup {on, Blank}
MCKeyOf     == [k \in MCSpellings |->
                  IF k = "Client-Type" THEN "client_type"
                  ELSE IF k = " " THEN Blank ELSE k]

Sent(client, session) ==
  ("client_type" :> client) @@ ("session_id" :> session)

HeadersOf == (e1 :> Sent(c1, s1)) @@ (e2 :> Sent(c2, s1))
               @@ (e3 :> Sent(Blank, Blank)) @@ (e4 :> Sent(Blank, s2))

Defaults(tags) == tags @@ [k \in MCSpellings |-> Blank]

DefaultTagsOf == (l1 :> Defaults((t1 :> on) @@ (t2 :> on) @@ (" " :> on)))
                   @@ (l2 :> Defaults(("Client-Type" :> c3) @@ (t1 :> on)))

MCClientOf  == (e1 :> c1) @@ (e2 :> c2) @@ (e3 :> Blank) @@ (e4 :> c3)
MCSessionOf == (e1 :> s1) @@ (e2 :> s1) @@ (e3 :> Blank) @@ (e4 :> s2)
MCTagsOf    == (e1 :> {t1, t2}) @@ (e2 :> {t1}) @@ (e3 :> {t1, t2}) @@ (e4 :> {t1})

ASSUME ResolvedAssumption ==
  \A e \in MCEvents :
    \A known \in Resolve(HeadersOf[e], DefaultTagsOf[MCListenerOf[e]]) :
      /\ known["client_type"] = MCClientOf[e]
      /\ known["session_id"] = MCSessionOf[e]
      /\ StoredTags(known) = MCTagsOf[e]

(* The reference definition (docs/identity.md, "Precedence Rules"): a      *)
(* header first, then a default tag, then nothing. Every value that may be *)
(* returned is of that kind, each such value may be, and only two          *)
(* spellings of one key that disagree leave a choice.                      *)
Candidates(headers, tags, key) ==
  LET set == {tags[k] : k \in {k \in Spellings : KeyOf[k] = key}} \ {Blank} IN
  IF key \in Fields /\ headers[key] # Blank THEN {headers[key]}
  ELSE IF set = {} THEN {Blank} ELSE set

ASSUME PrecedenceAssumption ==
  \A client \in {Blank, c2}, session \in {Blank, s1},
     tags \in [Spellings -> {Blank, c1, on}] :
    LET headers == Sent(client, session)
        results == Resolve(headers, tags)
    IN \A key \in Keys :
         {known[key] : known \in results} = Candidates(headers, tags, key)

-----------------------------------------------------------------------------
MCFilters == {Everything(2), OfSession(s1, Everything(2)),
              [Everything(2) EXCEPT !.client = c2],
              [Everything(0) EXCEPT !.after = 2, !.before = 3],
              [Everything(1) EXCEPT !.offset = 1]}
=============================================================================
