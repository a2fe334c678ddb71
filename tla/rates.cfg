SPECIFICATION Spec
CONSTANTS
  Handlers = {h1, h2}
  Pins <- MCPins
  Names = {"Inner", "Citywide", "Edge"}
  Distance <- MCDistance
  Carts <- MCCarts
  Setups <- MCSetups
  ZoneInputs <- MCZoneInputs
  ZonePatches <- MCZonePatches
  VehicleInputs <- MCVehicleInputs
  VehiclePatches <- MCVehiclePatches
  TiersPriced = {"bike", "van"}
  Pricings <- MCPricings
  None = None
  MaxEdits = 2
SYMMETRY Alike
CHECK_DEADLOCK FALSE
INVARIANTS CellAsRequested ZoneHasMatcher NoStrayCells QuoteIsRight
