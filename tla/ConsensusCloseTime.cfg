SPECIFICATION Spec
CONSTANTS
  Peer = {p1, p2, p3}
  Tx = {}
  Ledger = {L1}
  LedgerInfo <- MCLedgerInfo
  NoLedger = NoLedger
  NewLedger = NewLedger
  CloseTime = {40, 50}
  LaterTime = {0, 45}
  LastValidation = L1
  IsValidator = TRUE
  PreviousProposers = 2
  PreviousMSeconds = 5000
  Instant = {2100, 12000}
  MaxProposeSeq = 1
  MaxProposals = 3
  ProposalsKept = 1
INVARIANTS
  CloseTimesIncrease
PROPERTIES
  FinishesByAgreement
  ProposalsAdvance
SYMMETRY Symmetry
CHECK_DEADLOCK FALSE
