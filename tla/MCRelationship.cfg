SPECIFICATION RelationSpec
CONSTANTS
  ann = ann
  bob = bob
  Nobody = Nobody
  Calls = {c1, c2}
  Users = {ann, bob}
  Pairs <- OnePair
  EngineLevels <- MCEngineLevels
  ChatLevels <- MCChatLevels
  ChatCap = 1
  Points = {1}
  MessagePoints <- MCMessagePoints
  Decay = 1
  FirstScores = {0, 2}
  MaxScore = 2
  MaxFaults = 1
  MaxAsks = 3
  Prices = {3}
  RequiredLevel = 3
  MaxCouples = 1
  MaxFriends = 1
  CostPerLevel = 1
  OpeningCoins <- MCOpeningCoins
SYMMETRY Symmetry
CHECK_DEADLOCK FALSE
INVARIANTS AnswerMeetsInvite InviteWasEarned
