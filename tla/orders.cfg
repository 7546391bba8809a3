SPECIFICATION FairSpec
CONSTANTS
  k1 = k1 k2 = k2 p1 = p1 p2 = p2 p3 = p3 e1 = e1 e2 = e2 e3 = e3
  Calls = {1, 2, 3}
  Seeded = {k1, k2}
  Products = {p1, p2, p3}
  Emails = {e1, e2, e3}
  Position <- MCPosition
  FirstEmail <- MCFirstEmail
  OnOffer = {p1, p2}
  Asked <- MCAsked
  Wanted = {e3}
  None = None
  MaxFaults = 1
INVARIANTS TypeOK StuckOutOfOrder
PROPERTIES ServedAsOne Answered
CHECK_DEADLOCK FALSE
