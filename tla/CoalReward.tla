----------------------------- MODULE CoalReward -----------------------------
(***************************************************************************)
(* What one accepted hash earns: the arithmetic of process_mine_coal from  *)
(* the difficulty of the solution to the amount paid, in the order of the  *)
(* code, with the machine widths of every intermediate result.             *)
(*                                                                         *)
(* Inputs: cfg is the coal config, p the proof, b the bus, tl the equipped *)
(* tool, g the guild bonus, d the difficulty of the solution, t the time.  *)
(***************************************************************************)
EXTENDS Consts

(* What the handler does without the optional accounts. *)
NoTool == [durability |-> 0, multiplier |-> 0]
NoGuild == [stake |-> 0, total_stake |-> 1, total_multiplier |-> 0]

TargetTime(p) == p.last_hash_at + ONE_MINUTE

(* A slip: an early hash booked at the time it came. *)
HashTimeAsCalled(p, t) == t

(* A hash that comes early is booked at its target time. *)
HashTime(p, t) == Greater(t, TargetTime(p))

NormalizedDifficulty(cfg, d) == d - cfg.min_difficulty

BaseReward(cfg, d) == cfg.base_reward_rate * Pow2[NormalizedDifficulty(cfg, d)]

(* Stake counts only when the last deposit is more than a minute old. *)
StakeIsActive(p, t) == p.balance > 0 /\ p.last_stake_at + ONE_MINUTE < t

StakingReward(cfg, p, reward) ==
  (reward * Lesser(p.balance, cfg.top_balance)) \div cfg.top_balance

WithStaking(cfg, p, reward, t) ==
  IF StakeIsActive(p, t) /\ cfg.top_balance > 0
  THEN reward + 12 * StakingReward(cfg, p, reward)
  ELSE reward

(* A slip: a minute that has only begun counts as whole. *)
HalvedAhead(reward, tardiness) == reward \div SatPow2(tardiness \div ONE_MINUTE + 1)

(* Halved for every whole minute of tardiness, and linear in between. *)
Halved(reward, tardiness) == reward \div SatPow2(tardiness \div ONE_MINUTE)

(* A slip: a second of tardiness costs its share of the whole reward, as   *)
(* if a minute brought it to zero and not to one half.                     *)
DecayedToZero(reward, seconds) ==
  reward - SatMul(reward, seconds) \div ONE_MINUTE

Decayed(reward, seconds) ==
  reward - SatMul(reward \div 2, seconds) \div ONE_MINUTE

Penalized(p, reward, t) ==
  LET tardiness == t - TargetTime(p)
  IN  Decayed(Halved(reward, tardiness), tardiness % ONE_MINUTE)

WithLivenessPenalty(p, reward, t) ==
  IF t > TargetTime(p) + TOLERANCE THEN Penalized(p, reward, t) ELSE reward

(* The tool pays its multiple of the reward as long as its durability lasts. *)
ToolReward(tl, reward) ==
  LET multiplier == Lesser(Greater(tl.multiplier, BASE_TOOL_MULTIPLIER), MAX_TOOL_MULTIPLIER)
  IN  Lesser(AsU64((reward * multiplier) \div 100), tl.durability)

(* A slip: durability pays for the whole bonus, whatever the bus holds. *)
DurabilityChargeInFull(b, reward, tool_reward) == tool_reward

(* The part of tool_reward that durability is charged: what the bus could  *)
(* still pay on top of the reward.                                         *)
DurabilityCharge(b, reward, tool_reward) == Lesser(tool_reward, SatSub(b.rewards, reward))

GuildProduct(g, reward) == reward * g.total_multiplier * g.stake

CalculateStakeMultiplier(g, reward) == AsU64(GuildProduct(g, reward) \div g.total_stake)

(* A slip: the payout forgets what is left in the bus. *)
PayoutBeyondBus(b, reward) == Lesser(reward, TARGET_COAL_REWARDS)

Payout(b, reward) == Lesser(Lesser(reward, b.rewards), TARGET_COAL_REWARDS)

(* The whole computation.  `panics` is the disjunction of its unwraps.     *)
MineOutcome(cfg, p, b, tl, g, d, t) ==
  LET base == BaseReward(cfg, d)
      staked == WithStaking(cfg, p, base, t)
      timely == WithLivenessPenalty(p, staked, t)
      tool_reward == ToolReward(tl, timely)
      worked == timely + tool_reward
      stake_reward == CalculateStakeMultiplier(g, worked)
      reward == worked + stake_reward
      reward_actual == Payout(b, reward)
  IN [ reward        |-> reward,
       reward_actual |-> reward_actual,
       durability    |-> DurabilityCharge(b, timely, tool_reward),
       panics        |-> \/ base \notin U64
                         \/ staked \notin U64
                         \/ GuildProduct(g, worked) > U128Max
                         \/ b.theoretical_rewards + reward \notin U64
                         \/ p.balance + reward_actual \notin U64 ]

(* The first two unwraps come before any value exists to compute with:     *)
(* 2^n must fit a u64, and the guild must have stake to share.             *)
CanCompute(cfg, g, d) ==
  /\ NormalizedDifficulty(cfg, d) \in 0 .. U64Bits - 1
  /\ g.total_stake > 0
=============================================================================
