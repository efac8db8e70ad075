SPECIFICATION FilesSpec
CONSTANTS
  h1 = h1
  h2 = h2
  git = git
  sink = sink
  capture = capture
  seeded = seeded
  upgrade = upgrade
  staging = staging
  Base = base
  None = None
  Bindings = {"b"}
  Assets = {git, capture}
  Handlers <- TwoHandlers
  Warm <- MCWarm
  Port <- MCPort
  Variants <- MCVariants
  Static = {}
  Artifacts <- MCArtifacts
  MaxActions = 1
  MaxRequests = 3
  MaxFailures = 1
  MaxExits = 0
  MaxCrashes = 1
CHECK_DEADLOCK FALSE
SYMMETRY Symmetry
INVARIANTS HiddenUntilRevealed ReachableIfExposed
