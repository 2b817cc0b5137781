SPECIFICATION FairSpec
CONSTANTS
  db = db
  api = api
  web = web
  img = img
  img2 = img2
  img3 = img3
  Own = own
  App = {}
  Instance = {1, 2, 3}
  Launchable = {3}
  ImageOf <- OneImageEach
  Configs <- CleanOrNot
  Links <- NoLinks
  MaxVersion = 2
  MaxFaults = 2
INVARIANTS
  SomeWatchtowerRuns
PROPERTIES
  EventuallyOneWatchtower
CHECK_DEADLOCK FALSE
