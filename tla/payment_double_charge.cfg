SPECIFICATION Spec
CONSTANTS
  r1 = r1
  r2 = r2
  NoRun = NoRun
  Runs <- TwoRuns
  PaymentRouting <- OmariTenant
  MaxHooks = 2
  Faults = {}
SYMMETRY AnyRun
CHECK_DEADLOCK FALSE
INVARIANTS AtMostOneCharge
