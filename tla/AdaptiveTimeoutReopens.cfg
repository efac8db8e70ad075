SPECIFICATION Spec
CONSTANTS
  portal = portal
  git = git
  share = share
  links = links
  seeded = seeded
  None = None
  Deps <- MCDeps
  Variants <- MCNone
  N = 1
  Assets = {portal, git}
  HttpAssets = {portal}
  UnlockCap = 3
  MaxActions = 2
  RecentIds = 2
  ChainWindow = 1
  FeedbackWindow = 0
  BatchSpan = 0
  MaxClock = 0
  MaxEvidence = 1
  MaxRebinds = 0
  MaxTimeouts = 1
  MaxCrashes = 0
PROPERTY EvidenceUsedOnce
