SPECIFICATION Spec
CONSTANTS
  n1 = n1
  n2 = n2
  t1 = t1
  web = web
  p1 = p1
  p2 = p2
  Nodes = {n1, n2}
  Tasks = {t1}
  Services = {web}
  ServiceOf <- MCServiceOf
  InitialSwarms <- MCInitialSwarms
  Polls = {p1, p2}
  MaxEvents = 2
INVARIANT TypeOK
PROPERTIES FailsOnlyOnNews EventuallyAccurate
