SPECIFICATION FairSpec
CONSTANTS
  p1 = p1 p2 = p2
  Strategies <- MCStrategies
  Products = {p1, p2}
  Tables <- MCTables
  Requests = {t1, t2}
  Flushers = {loop, f1}
  Loop = loop
  Nothing = Nothing
  MaxWrites = 2
  MaxFailures = 1
INVARIANTS TypeOK Coherent
PROPERTY Converges
CHECK_DEADLOCK FALSE
