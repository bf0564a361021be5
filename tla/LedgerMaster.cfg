SPECIFICATION FairSpec
CONSTANTS
  g = g
  a2 = a2
  b2 = b2
  a3 = a3
  a4 = a4
  v1 = v1
  v2 = v2
  v3 = v3
  NoLedger = NoLedger
  Ledger <- MCLedger
  LedgerSeq <- MCLedgerSeq
  Parent <- MCParent
  Genesis = g
  Validator = {v1, v2, v3}
  Self = self
  Builder = builder
  MinValidations = 1
  Strict = FALSE
  MaxGap = 2
  Skip = 2
  MaxAcquire = 1
  LedgerHistory = 3
  CanDelete = 0
  FetchSize = 1
  PriorIndex <- MCPriorIndex
  Validated <- MCValidated
  Built = {a2}
INVARIANTS
  NothingOverlooked
  CompleteIsChain
PROPERTIES
  ImplementsLedgerChain
  CatchesUp
CHECK_DEADLOCK FALSE
