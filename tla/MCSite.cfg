SPECIFICATION Spec
CONSTANTS
  alice = alice
  root = root
  b1 = b1
  t1 = t1
  t2 = t2
  a1 = a1
  a2 = a2
  None = None
  Users = {alice, root}
  Browsers = {b1}
  Tabs = {t1, t2}
  BrowserOf <- MCBrowserOf
  Articles = {a1, a2}
  InitialRoles <- MCInitialRoles
  InitialAuthors <- MCInitialAuthors
  InitialSessions <- MCInitialSessions
  Visited <- MCVisited
  MaxSteps = 5
INVARIANTS SameOrder 
PROPERTY OnlyAuthorOrAdmin
CHECK_DEADLOCK FALSE
SYMMETRY MCTabs
