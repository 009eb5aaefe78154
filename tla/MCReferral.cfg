SPECIFICATION ReferralSpec
CONSTANTS
  Users = {u1, u2, u3, u4}
  Calls = {c1, c2}
  Nobody = Nobody
  MaxDepth = 3
  MaxAsks = 5
  MaxFaults = 1
SYMMETRY Symmetry
CHECK_DEADLOCK FALSE
INVARIANTS CirclesAreLong RewardedOnce
