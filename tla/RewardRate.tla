----------------------------- MODULE RewardRate -----------------------------
(***************************************************************************)
(* The retargeting of the base reward rate at a reset: the function        *)
(* calculate_new_reward_rate shared by coal and wood, and the adjustment   *)
(* of the minimum difficulty that keeps the rate inside its thresholds.    *)
(***************************************************************************)
EXTENDS Consts

(* The proportional correction, before smoothing.  The product is computed *)
(* in u128, where it cannot overflow, and cast back to u64, where it can.  *)
ProportionalRate(current_rate, epoch_rewards, target_rewards) ==
  AsU64((current_rate * target_rewards) \div epoch_rewards)

(* Slips: the upper limit taken for a lower one; no upper limit. *)
SmoothedUpwards(new_rate, current_rate, decremental, incremental) ==
  Greater(Greater(new_rate, SatMul(current_rate, incremental)),
          current_rate \div decremental)
SmoothedDownOnly(new_rate, current_rate, decremental, incremental) ==
  Greater(new_rate, current_rate \div decremental)

Smoothed(new_rate, current_rate, decremental, incremental) ==
  Greater(Lesser(new_rate, SatMul(current_rate, incremental)),
          current_rate \div decremental)

(* A slip: the rate may fall to zero. *)
RateWithoutFloor(current_rate, epoch_rewards, target_rewards, bus_rewards, decremental, incremental) ==
  IF epoch_rewards = 0
  THEN current_rate
  ELSE Lesser(Smoothed(ProportionalRate(current_rate, epoch_rewards, target_rewards),
                       current_rate, decremental, incremental),
              bus_rewards)

CalculateNewRewardRate(current_rate, epoch_rewards, target_rewards, bus_rewards, decremental, incremental) ==
  IF epoch_rewards = 0
  THEN current_rate
  ELSE LET new_rate == ProportionalRate(current_rate, epoch_rewards, target_rewards)
       IN  Lesser(Greater(Smoothed(new_rate, current_rate, decremental, incremental), 1),
                  bus_rewards)

(* A slip: the difficulty is raised and the rate is not. *)
RaisedDifficultyOnly(r, min_threshold) ==
  IF r.base_reward_rate <= min_threshold
  THEN [r EXCEPT !.min_difficulty = @ + 1]
  ELSE r

(* One notch of difficulty is worth a factor of two in the rate: a rate    *)
(* that fell to the minimum threshold is doubled and the difficulty raised. *)
RaisedDifficulty(r, min_threshold) ==
  IF r.base_reward_rate <= min_threshold
  THEN [base_reward_rate |-> r.base_reward_rate * 2, min_difficulty |-> r.min_difficulty + 1]
  ELSE r

(* A slip: the difficulty is lowered and the rate is not. *)
LoweredDifficultyOnly(r, max_threshold) ==
  IF r.base_reward_rate >= max_threshold /\ r.min_difficulty > 1
  THEN [r EXCEPT !.min_difficulty = @ - 1]
  ELSE r

(* A rate at the maximum threshold is halved and the difficulty lowered,   *)
(* unless the difficulty is already 1.                                     *)
LoweredDifficulty(r, max_threshold) ==
  IF r.base_reward_rate >= max_threshold /\ r.min_difficulty > 1
  THEN [base_reward_rate |-> r.base_reward_rate \div 2, min_difficulty |-> r.min_difficulty - 1]
  ELSE r

(* The two tests run one after the other on the rate just computed. *)
AdjustedDifficulty(rate, difficulty, min_threshold, max_threshold) ==
  LoweredDifficulty(
    RaisedDifficulty([base_reward_rate |-> rate, min_difficulty |-> difficulty], min_threshold),
    max_threshold)

(* The rate and difficulty of the coal config after an epoch in which the  *)
(* buses owed theoretical_rewards.                                         *)
NextCoalRate(cfg, theoretical_rewards) ==
  AdjustedDifficulty(
    CalculateNewRewardRate(cfg.base_reward_rate, theoretical_rewards,
                           TARGET_COAL_EPOCH_REWARDS, BUS_COAL_EPOCH_REWARDS,
                           SMOOTHING_FACTOR, SMOOTHING_FACTOR),
    cfg.min_difficulty,
    BASE_COAL_REWARD_RATE_MIN_THRESHOLD, BASE_COAL_REWARD_RATE_MAX_THRESHOLD)
-----------------------------------------------------------------------------
(* The band of the coal rate: at least the lower threshold, at most a bus, *)
(* and under the upper threshold unless the difficulty is at its lowest.   *)
InBand(cfg) ==
  /\ cfg.min_difficulty \in Nat \ {0}
  /\ cfg.base_reward_rate \in Nat
  /\ cfg.base_reward_rate >= BASE_COAL_REWARD_RATE_MIN_THRESHOLD
  /\ cfg.base_reward_rate <= BUS_COAL_EPOCH_REWARDS
  /\ cfg.min_difficulty > 1 =>
       cfg.base_reward_rate < BASE_COAL_REWARD_RATE_MAX_THRESHOLD
=============================================================================
