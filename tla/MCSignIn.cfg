SPECIFICATION Spec
CONSTANTS
  Nobody = Nobody
  Calls = {c1, c2}
  Tokens = {t1, t2, t3}
  Users = {p1, e1}
  Phones = {p1}
  Emails = {e1}
  Subs = {g1, g2}
  VerifiedSubs = {g1}
  Devices = {d1}
  MaxPerDevice = 1
  MaxAttempts = 2
  MaxCodes = 2
  MaxAsks = 5
  MaxFaults = 1
SYMMETRY Symmetry
CHECK_DEADLOCK FALSE
INVARIANTS OneLiveToken LogoutEndsChain TriesBounded CodeUsedOnce BonusPerDevice
