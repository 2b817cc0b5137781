SPECIFICATION FairSpec
CONSTANTS
  db = db
  api = api
  web = web
  img = img
  img2 = img2
  img3 = img3
  Own = own
  App = {db, api, web}
  Instance = {1}
  Launchable = {}
  ImageOf <- SharedImage
  Configs <- Various
  Links <- ChainLinks
  MaxVersion = 2
  MaxFaults = 1
INVARIANTS
  TypeOK
  DownIsReported
PROPERTIES
  StopsDependentsFirst
  FailuresFollowLinks
  EventuallyUpToDate
CHECK_DEADLOCK FALSE
