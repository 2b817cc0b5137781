SPECIFICATION FairSpec
CONSTANT
  Job = {j1, j2, j3}
INVARIANTS
  TypeOK
  OneUpdateAtATime
  ExitsBetweenUpdates
  LockAccountedFor
PROPERTIES
  ShutdownCompletes
  TicksComplete
CHECK_DEADLOCK FALSE
