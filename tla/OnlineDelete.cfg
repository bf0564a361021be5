SPECIFICATION FairSpec
CONSTANTS
  x = x
  y = y
  Node = {x, y}
  LastSeq = 6
  Contents <- MCContents
  Backend = {b1, b2, b3, b4}
  NoBackend = NoBackend
  DeleteInterval = 2
  DeleteBatch = 1
  AdvisoryDelete = TRUE
  MaxCrashes = 1
INVARIANTS
  LastValidatedKept
  StartNeverFails
  DeletesWhatItMay
  FetchFinds
PROPERTIES
  StopsWhenTold
CHECK_DEADLOCK FALSE
