SPECIFICATION Spec
CONSTANTS
  lab = lab
  island = island
  mock = mock
  app = app
  db = db
  Composed = {lab, island}
  Mock = {mock}
  Services = {app, db}
  Target = app
  Networked = {lab}
  MaxRequests = 4
  MaxFailures = 2
  MaxExits = 1
  MaxCrashes = 1
INVARIANTS ShownIsReachable NoOrphans
CHECK_DEADLOCK FALSE
