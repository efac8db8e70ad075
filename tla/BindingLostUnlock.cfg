SPECIFICATION WatchedSpec
CONSTANTS
  w1 = w1
  w2 = w2
  a1 = a1
  a2 = a2
  Workers <- TwoWorkers
  Attackers <- OneAttacker
  Assets = {"db"}
  Configs = {}
  TTL = 1
  MaxLag = 0
  MaxClock = 1
  MaxBindings = 1
SYMMETRY Symmetry
PROPERTIES RevealsAreKept
