SPECIFICATION FairSpec
CONSTANTS
  a = a
  b = b
  c = c
  NoLedger = NoLedger
  Ledger = {a, b, c}
  LedgerSeq <- MCLedgerSeq
  Caller = {c1, c2}
  Worker = {w1}
  Request <- MCRequest
  MayFail = {a, b}
  MaxCalls = 3
INVARIANTS
  OneSaver
  NoSaveLost
  RangeIsReadable
PROPERTIES
  CallsReturn
CHECK_DEADLOCK FALSE
