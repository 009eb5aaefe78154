SPECIFICATION FairSpec
CONSTANTS
  ann = ann
  bea = bea
  own = own
  k1 = k1
  k2 = k2
  NoKey = NoKey
  None = None
  Users = {ann, bea, own}
  Requests = {r1, r2, r3}
  Keys = {k1, k2}
  Calls <- CrossCalls
  Upline <- MCUpline
  HasWallet <- MCHasWallet
  OpeningBalance <- MCBalance
  CoinRatio <- MCPar
  DiamondRatio <- MCRatio
  MaxFaults = 1
PROPERTIES EveryRequestEnds
