SPECIFICATION FairSpec
CONSTANTS
  c1 = c1 c2 = c2
  Conns = {c1, c2}
  Subs = {s1}
  Destinations <- MCDestinations
  Targets <- MCTargets
  Patterns <- MCPatterns
  Starred <- MCStarred
  NoDest = NoDest NoConn = NoConn
  Lossy = {c2}
  High = 0
  Relays <- MCRelays
  MaxPublished = 2
  MaxMessages = 3
INVARIANTS TypeOK NoGhostSubscriber
PROPERTIES FansOutOnce EveryoneServed
CHECK_DEADLOCK FALSE
