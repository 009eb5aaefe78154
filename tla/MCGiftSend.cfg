SPECIFICATION Spec
CONSTANTS
  None = None
  Sends = {s1, s2}
  Updates = {u1}
  Keys = {k1, k2}
  Prices = {1, 2}
  Coins = 3
  MaxFaults = 1
SYMMETRY Symmetry
CHECK_DEADLOCK FALSE
INVARIANTS ChargedOnce ChargedPriceWasCurrent ShownIsComplete
