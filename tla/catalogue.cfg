SPECIFICATION FairSpec
CONSTANTS
  Tenants = {t1, t2}
  Skus = {s1}
  Staff = {h1, h2}
  None = None
  Garbage = Garbage
  Bodies <- MCBodies
  Images = {"url"}
  Patches <- MCPatches
  Sheets <- MCSheets
  Legacy <- MCLegacy
  Stocks <- MCStocks
  MaxRequests = 3
  MaxFaults = 1
CHECK_DEADLOCK FALSE
INVARIANTS StockAgrees ImportReported
PROPERTIES RestockIsAsked ListingFollows
