-------------------------- MODULE MCOperatingMode --------------------------
(***************************************************************************)
(* Model values for OperatingMode: two ledgers that fork from the genesis  *)
(* ledger.                                                                 *)
(***************************************************************************)
EXTENDS OperatingMode, TLC

CONSTANTS g, a, b

MCLedger == {g, a, b}
MCParent == (g :> NoLedger) @@ (a :> g) @@ (b :> g)
=============================================================================
