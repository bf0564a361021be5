SPECIFICATION ModeSpec
CONSTANTS
  g = g
  a = a
  b = b
  NoLedger = NoLedger
  Genesis = g
  Ledger <- MCLedger
  Parent <- MCParent
  Peer = {1}
  Validator = {4, 5}
  OurNode = 2
  NetworkQuorum = 1
  MaxEvents = 1
INVARIANTS
  FullIsJustified
  PreferenceIsUnique
PROPERTIES
  BeginsOnClosedLedger
