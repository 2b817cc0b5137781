SPECIFICATION Spec
CONSTANTS
  db = db
  api = api
  web = web
  img = img
  img2 = img2
  img3 = img3
  Own = own
  App = {db}
  Instance = {1, 2}
  Launchable = {}
  ImageOf <- OneImageEach
  Configs <- All
  Links <- NoLinks
  MaxVersion = 2
  MaxFaults = 0
INVARIANTS
  DownIsReported
CHECK_DEADLOCK FALSE
