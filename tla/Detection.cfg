SPECIFICATION Spec
CONSTANTS
  Conditions <- MCConditions
  HttpSelections <- MCHttpSelections
  ShellSelections <- MCShellSelections
  CandidateTags <- MCCandidateTags
  SensorRules <- MCSensorRules
  ReviewedRules <- MCReviewedRules
  HttpEvents <- MCHttpEvents
  PublicRequests <- MCPublicRequests
  CanaryLogs <- MCCanaryLogs
  SensorEvents <- MCSensorEvents
  Messages <- MCMessages
  Commands <- MCCommands
  Typed <- MCTyped
  PortOf <- MCPortOf
  Catalog <- MCCatalog
  PriorFile <- MCPriorFile
  TacticOf <- MCTacticOf
  Tactics <- MCTactics
  Portal = "internal-portal"
  UnlockCap = 3
  TopK = 2
  SupportThreshold = 150
  ObservedThreshold = 500
  ChainWindow = 1
  MaxRead = 2
  MaxDelay = 1
  MaxClock = 2
  MaxEvents = 3
INVARIANTS RulesMeanTheirConditions CoalescedReadsInventNothing PlanIsTwoDirections
PROPERTIES ConfidenceOnlyFades RepeatsChangeNothing
CHECK_DEADLOCK FALSE
