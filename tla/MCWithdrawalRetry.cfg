SPECIFICATION Spec
CONSTANTS
  h1 = h1
  h2 = h2
  Nobody = Nobody
  Hosts = {h1, h2}
  Attempts = {a1, a2}
  Decisions = {d1, d2}
  MinWithdrawal = 2
  Amounts <- MCAmounts
  Opening <- MCOpening
  AdminsInFlight = 1
  ClockMayStall = FALSE
  MaxFaults = 1
SYMMETRY Symmetry
INVARIANTS RefundedOnce
