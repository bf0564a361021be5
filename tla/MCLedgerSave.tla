---------------------------- MODULE MCLedgerSave ----------------------------
(***************************************************************************)
(* Requests for LedgerSave: a is published or fetched again by the ledger  *)
(* cleaner, b (a fork of a) comes from history; both may compete for one   *)
(* sequence, c is the ledger after them.                                   *)
(***************************************************************************)
EXTENDS LedgerSave, TLC

CONSTANTS a, b, c

MCLedgerSeq == (a :> 1) @@ (b :> 1) @@ (c :> 2)
Call(l, sync, then) == [l |-> l, sync |-> sync, then |-> then]

MCRequest == {Call(a, TRUE, "publish"), Call(a, TRUE, "return"), Call(b, FALSE, "full"),
              Call(c, TRUE, "publish"), Call(c, FALSE, "return")}
=============================================================================
