SPECIFICATION FairSpec
CONSTANTS
  r1 = r1
  r2 = r2
  NoRun = NoRun
  Runs <- TwoRuns
  PaymentRouting <- DefaultTenant
  MaxHooks = 2
  Faults = {"ack_lost"}
VIEW LiveThanks
CHECK_DEADLOCK FALSE
INVARIANTS OneOpenPush ThankedOnce
PROPERTY ChargeConfirmsOrder
