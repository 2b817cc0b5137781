SPECIFICATION Spec
CONSTANTS
  ann = ann
  root = root
  fresh = fresh
  fb = fb
  tw = tw
  None = None
  b1 = b1
  b2 = b2
  Ids = {ann, root, fresh}
  Browsers = {b1, b2}
  Identities = {fb, tw}
  NumRequests = 3
  Routes <- MCRoutes
  MaxInFlight = 2
  Profile <- MCProfile
  LocalPart <- MCLocalPart
  Typed = {0, 1}
  InitialSessions <- MCInitialSessions
  Edits <- MCEdits
  InitialUsers <- MCInitialUsers
INVARIANT TypeOK
PROPERTIES OwnedFields DeletedStaysDeleted LinksKept UsedTokenIsSpent RequestsAreAnswered
CHECK_DEADLOCK FALSE
