SPECIFICATION ReprocessingSpec
CONSTANTS
  a1 = a1
  a2 = a2
  m1 = m1
  b1 = b1
  U64Bits = 10
  Authorities = {a1}
  Miners = {m1}
  Assets = {}
  IssuedAssets <- NoAssets
  GuildBonuses <- NoGuilds
  Buses = {b1}
  ONE_MINUTE = 3
  EPOCH_MINUTES = 3
  TOLERANCE = 1
  TARGET_COAL_REWARDS = 4
  MAX_COAL_SUPPLY = 20
  BASE_COAL_REWARD_RATE_MIN_THRESHOLD = 2
  BASE_COAL_REWARD_RATE_MAX_THRESHOLD = 5
  INITIAL_MIN_DIFFICULTY = 1
  SMOOTHING_FACTOR = 2
  BASE_TOOL_MULTIPLIER = 300
  MAX_TOOL_MULTIPLIER = 600
  SCALING_FACTOR = 4
  REPROCESS_MAX_MULTIPLIER = 2
  ROOT_PRECISION = 8
  ATTRIBUTE_PRECISION = 8
  MaxDifficulty = 2
  Amounts = {4}
  MaxReprocessed = 4
  Advances = {3}
  InitialTime = 9
  MaxTime = 18
  REPROCESS_TARGET_SLOT = 1
  REPROCESS_SLOT_BUFFER = 1
  MaxSlot = 5
INVARIANTS
  SplittingNeverPays
  SupplyWithinWorth
PROPERTIES
  DelayNeverPays
  NoReprocessorIsStuck
