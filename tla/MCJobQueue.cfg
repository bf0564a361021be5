SPECIFICATION Spec
CONSTANTS
  JobType = {1, 2}
  SkipOnStop = {2}
  Limit <- MCLimit
  Worker = {w1, w2}
  Client = {c1}
  MaxJobs = 4
INVARIANTS
  WokenFindsJob
  StoppedIsQuiet
PROPERTIES
  EveryJobLeaves
  StopCompletes
CHECK_DEADLOCK FALSE
