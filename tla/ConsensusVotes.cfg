SPECIFICATION Spec
CONSTANTS
  Peer = {p1, p2}
  Tx = {t1, t2}
  Ledger = {L1}
  LedgerInfo <- MCLedgerInfo
  NoLedger = NoLedger
  NewLedger = NewLedger
  CloseTime = {50}
  LaterTime = {50}
  LastValidation = L1
  IsValidator = TRUE
  PreviousProposers = 2
  PreviousMSeconds = 5000
  Instant = {11000}
  MaxProposeSeq = 1
  MaxProposals = 3
  ProposalsKept = 1
INVARIANTS
  VotesAreConsistent
PROPERTIES
  VotesReflectPositions
SYMMETRY Symmetry
CHECK_DEADLOCK FALSE
