SPECIFICATION Spec
CONSTANTS
  ann = ann
  bea = bea
  None = None
  NoKey = NoKey
  Senders = {ann, bea}
  Hosts = {bea}
  SameDevice = FALSE
  Sends = {s1, s2}
  Keys = {k1}
  Cost = 1
  Coins <- MCCoins
  RateLimit = 1
  MaxFaults = 2
SYMMETRY Symmetry
CHECK_DEADLOCK FALSE
INVARIANTS ChargedOnce NothingUnpaid ShownIsStored OneMessagePerKey
