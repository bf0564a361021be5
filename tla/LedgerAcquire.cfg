SPECIFICATION Spec
CONSTANTS
  a = a
  b = b
  c = c
  d = d
  Ledger = {a, b, c, d}
  Reasons <- MCReasons
  NotLedger = {c}
  NoTx = {b}
  NoState = {d}
  Misplaced <- MCMisplaced
  Worker = {w1, w2}
  Acq <- MCAcq
  Stored <- MCStored
  Pack <- MCPack
  RetriesMax = 1
  Aggressive = 0
  MaxReplies = 2
INVARIANTS
  CompleteIsWhole
  NothingForgotten
  NoOutcomeLost
PROPERTIES
  OutcomeIsFinal
CHECK_DEADLOCK FALSE
