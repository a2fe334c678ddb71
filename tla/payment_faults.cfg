SPECIFICATION Spec
CONSTANTS
  r1 = r1
  r2 = r2
  NoRun = NoRun
  Runs <- TwoRuns
  PaymentRouting <- OmariTenant
  MaxHooks = 2
  Faults = {"commit_fails", "interrupted", "response_lost", "reordered", "ack_lost"}
VIEW Live
CHECK_DEADLOCK FALSE
INVARIANTS PaidIsConfirmed ConfirmedIsBacked PaidOnlyIfCharged
PROPERTY ImplementsLedger
