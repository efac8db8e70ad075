SPECIFICATION FairSpec
CONSTANTS
  p1 = p1
  p2 = p2
  p3 = p3
  Procs <- MCProcs
  MaxUpdates = 2
  NoOwner = NoOwner
INVARIANTS NoLostUpdate StoreInv
PROPERTIES ImplementsAtomicStore EveryUpdateEnds
