SPECIFICATION FairSpec
CONSTANTS
  Peer = {p1}
  Tx = {t1}
  Ledger = {L1, L2}
  LedgerInfo <- MCLedgerInfo
  NoLedger = NoLedger
  NewLedger = NewLedger
  CloseTime = {50}
  LaterTime = {60}
  LastValidation = NoLedger
  IsValidator = TRUE
  PreviousProposers = 2
  PreviousMSeconds = 5000
  Instant = {70000}
  MaxProposeSeq = 1
  MaxProposals = 2
  ProposalsKept = 2
INVARIANTS
  ProposingInSync
PROPERTIES
  DisputesCoverDifferences
  DisputedTriedAgain
  RoundEnds
CHECK_DEADLOCK FALSE
