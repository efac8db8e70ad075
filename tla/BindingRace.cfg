SPECIFICATION WatchedSpec
CONSTANTS
  w1 = w1
  w2 = w2
  a1 = a1
  a2 = a2
  Workers <- TwoWorkers
  Attackers <- TwoAttackers
  Assets = {"db"}
  Configs = {}
  TTL = 1
  MaxLag = 0
  MaxClock = 1
  MaxBindings = 2
SYMMETRY Symmetry
VIEW View
INVARIANTS SessionNeverRegresses NoForeignUnlock StickyAlone
PROPERTIES RevealsAreKeptAlone
