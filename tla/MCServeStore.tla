---------------------------- MODULE MCServeStore ----------------------------
(***************************************************************************)
(* Two listeners, an exchange on the first and two on the second, the      *)
(* three recordings of one session on two pooled connections.              *)
(***************************************************************************)
EXTENDS ServeStore, TLC

CONSTANTS x1, x2, x3, s1, k1, k2

MCExchanges  == {x1, x2, x3}
MCListenerOf == (x1 :> 1) @@ (x2 :> 1) @@ (x3 :> 2)
MCIdOf       == (x1 :> 1) @@ (x2 :> 2) @@ (x3 :> 3)
MCOnes       == [x \in MCExchanges |-> 1]
MCSessionOf  == [x \in MCExchanges |-> s1]
MCClientOf   == [x \in MCExchanges |-> NoClient]
MCTagsOf     == [x \in MCExchanges |-> {}]
=============================================================================
