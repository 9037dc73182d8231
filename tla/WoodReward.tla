----------------------------- MODULE WoodReward -----------------------------
(***************************************************************************)
(* What one accepted hash earns in wood: the arithmetic of                 *)
(* process_chop_wood.  Where the code is that of process_mine_coal line by *)
(* line, the operators of CoalReward stand for both.  Wood differs in its  *)
(* staking bonus, its patience and its payout, and it knows no guilds.     *)
(***************************************************************************)
EXTENDS CoalReward, WoodConsts

(* At most twice the reward, for the top stake of the last epoch. *)
WithWoodStaking(cfg, p, reward, t) ==
  IF StakeIsActive(p, t) /\ cfg.top_balance > 0
  THEN reward + StakingReward(cfg, p, reward)
  ELSE reward

(* The penalty sets in late, and then at what it would have been by now. *)
WithWoodLivenessPenalty(p, reward, t) ==
  IF t > TargetTime(p) + WOOD_LIVENESS_TOLERANCE THEN Penalized(p, reward, t) ELSE reward

(* A slip: the payout forgets what is left in the bus. *)
WoodPayoutBeyondBus(b, reward) == reward

(* No limit per hash but the bus. *)
WoodPayout(b, reward) == Lesser(reward, b.rewards)

ChopOutcome(cfg, p, b, tl, d, t) ==
  LET base == BaseReward(cfg, d)
      staked == WithWoodStaking(cfg, p, base, t)
      timely == WithWoodLivenessPenalty(p, staked, t)
      tool_reward == ToolReward(tl, timely)
      reward == timely + tool_reward
      reward_actual == WoodPayout(b, reward)
  IN [ reward        |-> reward,
       reward_actual |-> reward_actual,
       durability    |-> DurabilityCharge(b, timely, tool_reward),
       panics        |-> \/ base \notin U64
                         \/ staked \notin U64
                         \/ reward \notin U64
                         \/ b.theoretical_rewards + reward \notin U64
                         \/ p.balance + reward_actual \notin U64 ]

(* 2^n must fit a u64 before there is a value to compute with. *)
CanChop(cfg, d) == NormalizedDifficulty(cfg, d) \in 0 .. U64Bits - 1
=============================================================================
