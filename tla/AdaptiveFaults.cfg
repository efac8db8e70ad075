SPECIFICATION Spec
CONSTANTS
  portal = portal
  git = git
  share = share
  links = links
  seeded = seeded
  None = None
  Deps <- MCDeps
  Variants <- MCBoth
  N = 1
  Assets = {portal, git, share}
  HttpAssets = {portal}
  UnlockCap = 2
  MaxActions = 2
  RecentIds = 2
  ChainWindow = 1
  FeedbackWindow = 0
  BatchSpan = 0
  MaxClock = 1
  MaxEvidence = 3
  MaxRebinds = 1
  MaxTimeouts = 1
  MaxCrashes = 1
INVARIANTS LoopInv UnseenStaysNew RowsNameOpenAssets OneRowPerAsset DependenciesHold
PROPERTIES GateHoldsUndisturbed EvidenceServesOnce
CONSTRAINT AnyTwo
