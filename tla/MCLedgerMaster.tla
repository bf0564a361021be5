--------------------------- MODULE MCLedgerMaster ---------------------------
(***************************************************************************)
(* Model values for LedgerMaster: a chain of four ledgers and a fork of    *)
(* its second one, with the ledger tables an earlier run may have left.    *)
(* v1 signs what makes the stream run on, fall behind and jump; v2 and v3  *)
(* only sign the fork.                                                     *)
(***************************************************************************)
EXTENDS LedgerMaster, TLC

CONSTANTS g, a2, b2, a3, a4, v1, v2, v3

MCLedger == {g, a2, b2, a3, a4}
MCLedgerSeq == (g :> 1) @@ (a2 :> 2) @@ (b2 :> 2) @@ (a3 :> 3) @@ (a4 :> 4)
MCParent == (g :> NoLedger) @@ (a2 :> g) @@ (b2 :> g) @@ (a3 :> a2) @@ (a4 :> a3)
MCNoRows == [s \in 1 .. 4 |-> NoLedger]
MCPriorIndex == {[MCNoRows EXCEPT ![1] = g, ![2] = b2], [MCNoRows EXCEPT ![2] = a2]}
MCValidated == (v1 :> {g, b2, a4}) @@ (v2 :> {b2}) @@ (v3 :> {b2})
=============================================================================
