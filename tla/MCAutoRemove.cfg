SPECIFICATION Spec
CONSTANTS
  AutoRemoves = {TRUE, FALSE}
  MaxNetworks = 2
  MaxFaults = 0
PROPERTIES
  StopAwaitsRemoval
CHECK_DEADLOCK FALSE
