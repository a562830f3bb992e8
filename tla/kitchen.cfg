CONSTANTS
  dish = dish
  drink = drink
  Lines = {dish, drink}
  StationOf <- MCStationOf
  MaxQty <- MCMaxQty
  MaxAmends = 1
SPECIFICATION Spec
INVARIANTS KitchenKnows ReadyIsReady StockDeductedOnce
CHECK_DEADLOCK FALSE
