SPECIFICATION SpecMC
CONSTANTS
  Handlers = {h1, h2, h3}
  Tapping = {h3}
  ItemsTotal = 10
  Fees = {2, 3}
  CanCrash = TRUE
INVARIANTS LatchBeforeMoney ChargedAsOffered
PROPERTIES PriceIsFinal LatchedFeeReachesTotal
VIEW StillRead
