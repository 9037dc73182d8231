SPECIFICATION RetargetSpec
CONSTANTS
  U64Bits = 26
  Buses = {1}
  ONE_MINUTE = 60
  EPOCH_MINUTES = 5
  TOLERANCE = 5
  TARGET_COAL_REWARDS = 3664
  MAX_COAL_SUPPLY = 2100000
  BASE_COAL_REWARD_RATE_MIN_THRESHOLD = 250
  BASE_COAL_REWARD_RATE_MAX_THRESHOLD = 2000
  INITIAL_MIN_DIFFICULTY = 1
  SMOOTHING_FACTOR = 2
  BASE_TOOL_MULTIPLIER = 300
  MAX_TOOL_MULTIPLIER = 600
  HashCounts = {0, 1, 2, 3, 5, 7, 11, 20, 40, 41, 72}
  HashDifficulty = 5
  FewRewards = {1, 5, 7}
PROPERTIES
  PayAtMostDoublesOrHalves
  PayFollowsScarcity
  EmissionSettles
  EmissionApproaches
