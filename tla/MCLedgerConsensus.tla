------------------------- MODULE MCLedgerConsensus -------------------------
(***************************************************************************)
(* Small networks for the consensus round.                                 *)
(***************************************************************************)
EXTENDS LedgerConsensus, TLC

MCLedgerInfo ==
  [l \in Ledger |-> [seq |-> 6, closeTime |-> 44, closeAgree |-> TRUE,
                     closeTimeResolution |-> 30]]

Symmetry == Permutations(Peer) \cup Permutations(Tx)
=============================================================================
