SPECIFICATION Spec
CONSTANTS
  p1 = p1
  p2 = p2
  p3 = p3
  w1 = w1
  w2 = w2
  Tenants = {t1, t2}
  Phones <- MCPhones
  Wabas = {w1, w2}
  Belongs <- MCBelongs
  Handlers = {h1, h2}
  None = None
  MaxRequests = 4
  MaxEvents = 1
SYMMETRY Alike
CHECK_DEADLOCK FALSE
INVARIANTS ActiveIsReady NumberIsProved ApprovedFirst
