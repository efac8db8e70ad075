SPECIFICATION Spec
CONSTANTS
  c1 = c1
  c2 = c2
  alice = alice
  bob = bob
  b1 = b1
  b2 = b2
  portal = portal
  capture = capture
  redis = redis
  Conns = {c1}
  Clients = {alice, bob}
  Bindings = {b1, b2}
  Owner <- MCOwner
  Assets = {portal, capture, redis}
  Port <- MCPort
  HttpPorts = {"http"}
  Portal = portal
  Observed = {capture, redis}
  Capture = {capture}
  Fallback = TRUE
  MaxUnits = 2
  MaxReplies = 1
  MaxWrites = 2
  MaxCuts = 1
INVARIANTS RightAttacker ObservedOnce
PROPERTIES Transparent EveryConnectionEnds
CHECK_DEADLOCK FALSE
