SPECIFICATION Spec
CONSTANTS
  a1 = a1
  a2 = a2
  m1 = m1
  x1 = x1
  x2 = x2
  b1 = b1
  b2 = b2
  U64Bits = 10
  Authorities = {a1, a2}
  Miners = {m1}
  Assets = {}
  IssuedAssets <- NoAssets
  GuildBonuses <- NoGuilds
  Buses = {b1}
  ONE_MINUTE = 3
  EPOCH_MINUTES = 2
  TOLERANCE = 1
  TARGET_COAL_REWARDS = 2
  MAX_COAL_SUPPLY = 5
  BASE_COAL_REWARD_RATE_MIN_THRESHOLD = 2
  BASE_COAL_REWARD_RATE_MAX_THRESHOLD = 5
  INITIAL_MIN_DIFFICULTY = 1
  SMOOTHING_FACTOR = 2
  BASE_TOOL_MULTIPLIER = 300
  MAX_TOOL_MULTIPLIER = 600
  SCALING_FACTOR = 2
  REPROCESS_MAX_MULTIPLIER = 1
  ROOT_PRECISION = 8
  ATTRIBUTE_PRECISION = 8
  MaxDifficulty = 2
  Amounts = {2}
  MaxReprocessed = 2
  Advances = {3, 4}
  InitialTime = 6
  MaxTime = 13
SYMMETRY Interchangeable
INVARIANTS
  TypeOK
  Backing
  SupplyConserved
  Solvent
  Emission
PROPERTIES
  ShortfallOnlyAtCap
  ImplementsVault
