SPECIFICATION FairSpec
CONSTANTS
  AutoRemoves = {TRUE, FALSE}
  MaxNetworks = 2
  MaxFaults = 2
INVARIANTS
  TypeOK
  StopNilMeansGone
  FailureHasCause
  StartedOnAllNetworks
PROPERTIES
  GraceBeforeForce
  ClientReturns
CHECK_DEADLOCK FALSE
