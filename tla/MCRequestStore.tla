--------------------------- MODULE MCRequestStore ---------------------------
(***************************************************************************)
(* Four events: e1 and e2 share a session and overlap in time, the second  *)
(* without a client type; e3 has no session; e4 drew e1's request id.      *)
(* Three pooled connections: transactions meet, and the pool runs out.     *)
(***************************************************************************)
EXTENDS RequestStore, TLC

CONSTANTS e1, e2, e3, e4, s1, t1, t2, c1, c2, k1, k2, k3

MCEvents    == {e1, e2, e3, e4}
MCIdOf      == (e1 :> 1) @@ (e2 :> 2) @@ (e3 :> 3) @@ (e4 :> 1)
MCSessionOf == (e1 :> s1) @@ (e2 :> s1) @@ (e3 :> NoSession) @@ (e4 :> s1)
MCStartOf   == (e1 :> 2) @@ (e2 :> 1) @@ (e3 :> 1) @@ (e4 :> 3)
MCFinishOf  == (e1 :> 3) @@ (e2 :> 5) @@ (e3 :> 2) @@ (e4 :> 4)
MCTokensOf  == (e1 :> 2) @@ (e2 :> 1) @@ (e3 :> 4) @@ (e4 :> 8)
MCClientOf  == (e1 :> c1) @@ (e2 :> NoClient) @@ (e3 :> c2) @@ (e4 :> c2)
MCTagsOf    == (e1 :> {t1, t2}) @@ (e2 :> {t1}) @@ (e3 :> {}) @@ (e4 :> {t1})
=============================================================================
