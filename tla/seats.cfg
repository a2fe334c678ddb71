SPECIFICATION Spec
CONSTANTS
  Invites = {i1, i2}
  NoOne = NoOne
  Handlers = {h1, h2, h3}
  Faults = {"crash", "response_lost", "idp_fails"}
CHECK_DEADLOCK FALSE
INVARIANTS EnteredByOne SeatsMatchAccounts
PROPERTIES RemovedStaysOut JoinedIsKept
SYMMETRY AnyHandler
VIEW StillRead
