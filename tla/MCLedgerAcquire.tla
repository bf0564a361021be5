-------------------------- MODULE MCLedgerAcquire --------------------------
(* A ledger with transactions, which may come in a fetch pack; one of      *)
(* history without transactions, of which the header is stored and a node  *)
(* of the state tree is misplaced; the hash of another object, which a     *)
(* fetch pack brings; and a stored header with a zero account hash.  One   *)
(* is acquired, swept and acquired again, or two are acquired.             *)
EXTENDS LedgerAcquire, TLC
CONSTANTS a, b, c, d

MCAcq == 1 .. 2
MCReasons ==
  (a :> {"fcCONSENSUS", "fcGENERIC"}) @@ (b :> {"fcHISTORY"}) @@ (c :> {"fcGENERIC"}) @@ (d :> {"fcGENERIC"})
MCStored == (a :> {}) @@ (b :> {"header"}) @@ (c :> {}) @@ (d :> {"header"})
MCPack == {<<a, "tx">>, <<c, "header">>}
MCMisplaced == {<<b, "state">>}
=============================================================================
