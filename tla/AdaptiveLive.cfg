SPECIFICATION FairSpec
CONSTANTS
  portal = portal
  git = git
  share = share
  links = links
  seeded = seeded
  None = None
  Deps <- MCDeps
  Variants <- MCNone
  N = 2
  Assets = {portal}
  HttpAssets = {}
  UnlockCap = 3
  MaxActions = 2
  RecentIds = 2
  ChainWindow = 1
  FeedbackWindow = 0
  BatchSpan = 0
  MaxClock = 1
  MaxEvidence = 2
  MaxRebinds = 0
  MaxTimeouts = 1
  MaxCrashes = 0
PROPERTIES EvidenceServed TouchReopensGate
