SPECIFICATION FilesSpec
CONSTANTS
  h1 = h1
  h2 = h2
  git = git
  sink = sink
  capture = capture
  seeded = seeded
  upgrade = upgrade
  staging = staging
  Base = base
  None = None
  Bindings = {"b"}
  Assets = {git, sink, capture}
  Handlers <- OneHandler
  Warm <- MCWarm
  Port <- MCPort
  Variants <- MCVariants
  Static = {sink}
  Artifacts <- MCArtifacts
  MaxActions = 2
  MaxRequests = 2
  MaxFailures = 1
  MaxExits = 1
  MaxCrashes = 0
CHECK_DEADLOCK FALSE
INVARIANTS OneRunningRecord BackendsExist PortLeadsToWanted CluesAreServed
PROPERTIES RecordsMoveOn NothingVanishes
