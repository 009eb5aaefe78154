SPECIFICATION Spec
CONSTANTS
  None = None
  NoProfile = NoProfile
  a1 = a1
  a2 = a2
  a3 = a3
  h1 = h1
  Agencies = {a1, a2, a3, h1}
  Trees <- Chain
  Hosts = {h1}
  Calls = {c1, c2}
  MaxAsks = 2
  MaxCrashes = 1
  Gifts = {g1, g2}
  Amounts = {25, 100}
  Tiers <- SmallTiers
  MaxBans = 1
  MaxAborts = 1
SYMMETRY Symmetry
CHECK_DEADLOCK FALSE
INVARIANTS LogsExplainDiamonds RollingMatchesLogs ReversalIsWhole AdjacentWithinParentsRate OwnersSeeTheirHosts NobodyHostsForHimself
PROPERTIES EntersFreely
