SPECIFICATION LateSpec
CONSTANTS
  U64Bits = 15
  Buses = {1}
  ONE_MINUTE = 60
  EPOCH_MINUTES = 5
  TOLERANCE = 5
  TARGET_COAL_REWARDS = 400
  MAX_COAL_SUPPLY = 30000
  BASE_COAL_REWARD_RATE_MIN_THRESHOLD = 250
  BASE_COAL_REWARD_RATE_MAX_THRESHOLD = 2000
  INITIAL_MIN_DIFFICULTY = 1
  SMOOTHING_FACTOR = 2
  BASE_TOOL_MULTIPLIER = 300
  MAX_TOOL_MULTIPLIER = 600
  WOOD_LIVENESS_TOLERANCE = 65
  INITIAL_WOOD_EPOCH_REWARDS = 400
  MIN_WOOD_EPOCH_REWARDS = 100
  MAX_WOOD_EPOCH_REWARDS = 4000
  WOOD_PROPOGATION_RATE = 20
  BASE_WOOD_REWARD_RATE_MIN_THRESHOLD = 320
  BASE_WOOD_REWARD_RATE_MAX_THRESHOLD = 2560
  WOOD_DECREMENTAL_SMOOTHING_FACTOR = 10
  Rewards = {0, 1, 2, 3, 5, 7, 250, 999, 1023, 1024, 32767}
  MaxMinutes = 17
INVARIANTS
  PenaltyIsBounded
PROPERTIES
  WaitingNeverPays
CHECK_DEADLOCK FALSE
