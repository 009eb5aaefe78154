SPECIFICATION Spec
CONSTANTS
  h1 = h1
  h2 = h2
  Nobody = Nobody
  Hosts = {h1, h2}
  Attempts = {a1, a2, a3}
  Decisions = {d1, d2, d3}
  MinWithdrawal = 2
  Amounts <- MCAmounts
  Opening <- MCOpening
  AdminsInFlight = 2
  ClockMayStall = TRUE
  MaxFaults = 2
SYMMETRY Symmetry
INVARIANTS SettlementsBounded RejectedMeansRefunded LockedWhilePending SettledOnce
