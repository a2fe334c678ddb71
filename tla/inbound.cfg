SPECIFICATION FairSpec
CONSTANTS
  m1 = m1
  m2 = m2
  Messages <- MCMessages
  Kind <- MCKind
  Stamp <- MCStamp
  ReplyTimes = {2}
  Requests = {r1, r2}
  PageSize = 1
  MaxEvents = 2
CHECK_DEADLOCK FALSE
INVARIANTS HandledOnce ThreadIsComplete
PROPERTY HandledOrDropped
