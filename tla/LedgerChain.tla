---------------------------- MODULE LedgerChain ----------------------------
(***************************************************************************)
(* What LedgerMaster promises to everyone who listens to the validated     *)
(* ledger stream, without saying how: ledgers are accepted with rising     *)
(* sequence numbers, and published one sequence after another, each one an *)
(* ancestor of a ledger that was accepted; only when the stream lags by    *)
(* more than MaxGap ledgers does it jump to the accepted ledger.           *)
(***************************************************************************)
EXTENDS Integers

CONSTANTS
  Ledger,        \* ledgers, named by their hashes
  NoLedger,      \* no ledger
  LedgerSeq,     \* LedgerSeq[l]: the sequence number of l
  Parent,        \* Parent[l]: the ledger before l, or NoLedger
  MaxGap         \* MAX_LEDGER_GAP

VARIABLES
  accepted,      \* every ledger that was ever accepted
  valid,         \* the last accepted ledger
  published      \* the last published ledger

vars == <<accepted, valid, published>>

SeqOf(l) == IF l = NoLedger THEN 0 ELSE LedgerSeq[l]

(***************************************************************************)
(* hashOfSeq: the ledger at sequence s in the chain that ends in l.        *)
(***************************************************************************)
HashOfSeq(l, s) ==
  LET up[n \in 0 .. LedgerSeq[l]] == IF n = 0 THEN l ELSE Parent[up[n - 1]]
  IN  up[LedgerSeq[l] - s]

Init == accepted = {} /\ valid = NoLedger /\ published = NoLedger

\* The first accepted ledger begins the stream.
Accept(l) ==
  /\ LedgerSeq[l] > SeqOf(valid)
  /\ accepted' = accepted \cup {l}
  /\ valid' = l
  /\ published' = IF published = NoLedger THEN l ELSE published

PublishNext ==
  /\ published # NoLedger
  /\ \E l \in accepted :
       /\ LedgerSeq[l] > SeqOf(published)
       /\ published' = HashOfSeq(l, SeqOf(published) + 1)
  /\ UNCHANGED <<accepted, valid>>

Jump ==
  /\ SeqOf(valid) > SeqOf(published) + MaxGap
  /\ published' = valid
  /\ UNCHANGED <<accepted, valid>>

Next == (\E l \in Ledger : Accept(l)) \/ PublishNext \/ Jump

Spec == Init /\ [][Next]_vars
=============================================================================
