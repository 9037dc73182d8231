SPECIFICATION WoodSpec
CONSTANTS
  a1 = a1
  a2 = a2
  m1 = m1
  x1 = x1
  b1 = b1
  b2 = b2
  U64Bits = 10
  Authorities = {a1}
  Miners = {m1}
  Assets = {}
  IssuedAssets <- NoAssets
  Buses = {b1, b2}
  ONE_MINUTE = 3
  EPOCH_MINUTES = 2
  TOLERANCE = 1
  TARGET_COAL_REWARDS = 2
  MAX_COAL_SUPPLY = 5
  BASE_COAL_REWARD_RATE_MIN_THRESHOLD = 2
  BASE_COAL_REWARD_RATE_MAX_THRESHOLD = 5
  INITIAL_MIN_DIFFICULTY = 1
  SMOOTHING_FACTOR = 2
  BASE_TOOL_MULTIPLIER = 300
  MAX_TOOL_MULTIPLIER = 600
  ATTRIBUTE_PRECISION = 8
  WOOD_LIVENESS_TOLERANCE = 4
  INITIAL_WOOD_EPOCH_REWARDS = 3
  MIN_WOOD_EPOCH_REWARDS = 2
  MAX_WOOD_EPOCH_REWARDS = 8
  WOOD_PROPOGATION_RATE = 4
  BASE_WOOD_REWARD_RATE_MIN_THRESHOLD = 2
  BASE_WOOD_REWARD_RATE_MAX_THRESHOLD = 5
  WOOD_DECREMENTAL_SMOOTHING_FACTOR = 10
  MaxDifficulty = 3
  Amounts = {2}
  MaxReprocessed = 2
  Advances = {3}
  InitialTime = 6
  MaxTime = 15
INVARIANT LifetimeRewardsWerePaid
