----------------------------- MODULE Retargeting -----------------------------
(***************************************************************************)
(* The feedback loop of the coal difficulty: what each reset makes of the  *)
(* base reward rate and the minimum difficulty, epoch after epoch, for any *)
(* hash power and for a steady one.                                        *)
(***************************************************************************)
EXTENDS RewardRate

CONSTANTS
  HashCounts,          \* hashes per epoch that the sweep tries (bound)
  HashDifficulty,      \* the difficulty of these hashes
  FewRewards           \* theoretical rewards of epochs with late hashes only (bound)

ASSUME RetargetingAssumption ==
  /\ HashCounts \subseteq Nat
  /\ HashDifficulty \in INITIAL_MIN_DIFFICULTY .. U64Bits - 1
  /\ FewRewards \subseteq Nat

VARIABLES
  config,    \* base_reward_rate and min_difficulty of the coal config
  hashes,    \* the number of hashes that miners find per epoch
  steady,    \* from here on the miners stay the same
  owed       \* history: theoretical rewards of the last epoch

retargetVars == <<config, hashes, steady, owed>>

(* What a timely hash without stake, tool or guild earns. *)
HashPay(cfg) == cfg.base_reward_rate * Pow2[HashDifficulty - cfg.min_difficulty]

RetargetInit ==
  /\ config = [base_reward_rate |-> INITIAL_BASE_COAL_REWARD_RATE,
               min_difficulty |-> INITIAL_MIN_DIFFICULTY]
  /\ hashes \in HashCounts
  /\ steady = FALSE
  /\ owed = 0

(* Hashes below the minimum difficulty are rejected: the loop is followed  *)
(* as long as the miners can meet it.                                      *)
EpochOwing(theoretical_rewards) ==
  /\ config' = NextCoalRate(config, theoretical_rewards)
  /\ config'.min_difficulty <= HashDifficulty
  /\ owed' = theoretical_rewards

(* Hash power comes and goes, and hashes may be as late as they like. *)
AnyEpoch ==
  /\ ~steady
  /\ \/ \E n \in HashCounts : EpochOwing(n * HashPay(config)) /\ hashes' = n
     \/ \E rewards \in FewRewards : EpochOwing(rewards) /\ UNCHANGED hashes
  /\ UNCHANGED steady

(* One day the same miners mine epoch after epoch. *)
BecomeSteady == ~steady /\ steady' = TRUE /\ UNCHANGED <<config, hashes, owed>>

SteadyEpoch ==
  steady /\ EpochOwing(hashes * HashPay(config)) /\ UNCHANGED <<hashes, steady>>

RetargetNext == AnyEpoch \/ BecomeSteady \/ SteadyEpoch

(* Somebody calls Reset when it is due. *)
RetargetSpec ==
  RetargetInit /\ [][RetargetNext]_retargetVars /\ WF_retargetVars(SteadyEpoch)

-----------------------------------------------------------------------------
(* A reset at most doubles and at most halves what a hash is paid, up to   *)
(* the rounding of the rate, also when it moves the difficulty: a notch of *)
(* difficulty and the factor of two in the rate cancel out.                *)
PayAtMostDoublesOrHalves ==
  [][/\ HashPay(config') <= 2 * HashPay(config)
     /\ HashPay(config) <= 2 * HashPay(config') + 4 * Pow2[HashDifficulty - config'.min_difficulty]
    ]_retargetVars

(* Whether the proportional correction survives its cast to a u64.  Only a *)
(* rate far above its thresholds, which the lowest difficulty allows, and  *)
(* an epoch with next to nothing but late hashes make it too large.        *)
CorrectionFits ==
  (config.base_reward_rate * TARGET_COAL_EPOCH_REWARDS) \div owed' \in U64

(* The loop turns the right way: after an epoch that owed less than the    *)
(* target the pay of a hash does not fall, unless the correction loses     *)
(* high bits, and after one that owed more it does not rise, whatever      *)
(* notch the difficulty moves by.  An epoch that owed nothing leaves it as *)
(* it is.                                                                  *)
PayFollowsScarcity ==
  [][/\ owed' # 0 /\ owed' <= TARGET_COAL_EPOCH_REWARDS /\ CorrectionFits =>
          HashPay(config) <= HashPay(config') + Pow2[HashDifficulty - config'.min_difficulty]
     /\ owed' >= TARGET_COAL_EPOCH_REWARDS => HashPay(config') <= HashPay(config)
     /\ owed' = 0 => HashPay(config') = HashPay(config)
    ]_retargetVars

(* What steady miners are owed per epoch. *)
Owing == hashes * HashPay(config)

(* The emission is within a factor of two of its target, if there is any   *)
(* mining.  The limit of a bus never stands in the way: a bus holds the    *)
(* target of all of them.                                                  *)
OnTarget ==
  hashes # 0 => /\ Owing <= 2 * TARGET_COAL_EPOCH_REWARDS
                /\ 2 * Owing >= TARGET_COAL_EPOCH_REWARDS

(* Each reset brings the emission of steady miners nearer to the target.   *)
(* Above the target it halves at least, and does not fall past it; below,  *)
(* it doubles, whatever notch the difficulty moves by; and on target it    *)
(* stays, through rounding and notches of difficulty.                      *)
EmissionApproaches ==
  [][steady =>
       /\ OnTarget => OnTarget'
       /\ Owing > 2 * TARGET_COAL_EPOCH_REWARDS =>
            2 * Owing' <= Owing /\ 2 * Owing' >= TARGET_COAL_EPOCH_REWARDS
       /\ 2 * Owing < TARGET_COAL_EPOCH_REWARDS => Owing' = 2 * Owing
    ]_retargetVars

(* Whatever epochs came before, once hash power is steady the emission     *)
(* settles on its target.                                                  *)
EmissionSettles == [](steady => <>[]OnTarget)
=============================================================================
