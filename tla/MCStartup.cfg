SPECIFICATION Spec
CONSTANTS
  None = None
  Names <- MCNames
  Emails <- MCEmails
  SeedUser <- MCSeedUser
  SeedAdmin <- MCSeedAdmin
  NodeEnvs <- MCNodeEnvs
  Environments <- MCEnvironments
  InitialUsers <- MCInitialUsers
  MaxStarts = 3
  MaxRequests = 3
INVARIANT AnnouncedPasswordWorks
PROPERTIES SeedsReplaceThemselves SeedingEnds
CHECK_DEADLOCK FALSE
