SPECIFICATION Spec
CONSTANTS
  canary = canary
  dionaea = dionaea
  alice = alice
  bob = bob
  proxy = proxy
  Feeds = {canary, dionaea}
  Routed = {canary}
  Plain = {dionaea}
  Owner <- MCOwner
 Kept = {canary}
  Attackers = {alice, bob}
  Proxy = proxy
  Ips = {"ip1", "ip2"}
  FromStart = FALSE
  MaxLines = 2
  MaxTroubles = 1
 MaxMoves = 1
INVARIANTS OnceAtMost NobodyElsesDoing QuietProfile
 
CHECK_DEADLOCK FALSE
