SPECIFICATION Spec
CONSTANTS
  ann = ann
  Nobody = Nobody
  Calls = {c1, c2, c3}
  Hosts = {ann}
  Women = {ann}
  Banned = {}
  InAgency = {ann}
  Tiers <- MCTiers
  RequiredHours = 2
  EligibleDays = 1
  NewReward = 7
  OrdinaryReward = 3
  StarTiers <- MCStarTiers
  Gifts = {1}
  FirstWeekday = 0
  RegisteredAt = 1
  LastTick = 3
  ByHand = TRUE
  MaxSigning = 1
  MaxFaults = 1
SYMMETRY Symmetry
CHECK_DEADLOCK FALSE
INVARIANTS OncePerDay AwardIsJustified WeekIsSumOfDays StarPaidOnce
PROPERTIES NewBeforeOrdinary
