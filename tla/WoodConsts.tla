----------------------------- MODULE WoodConsts -----------------------------
(***************************************************************************)
(* The protocol constants of api/src/consts.rs that only wood uses.        *)
(***************************************************************************)
EXTENDS Consts

CONSTANTS
  WOOD_LIVENESS_TOLERANCE,           \* seconds
  INITIAL_WOOD_EPOCH_REWARDS,        \* grains in a bus
  MIN_WOOD_EPOCH_REWARDS, MAX_WOOD_EPOCH_REWARDS,
  WOOD_PROPOGATION_RATE,             \* a bus grows by one part in so many
  BASE_WOOD_REWARD_RATE_MIN_THRESHOLD,
  BASE_WOOD_REWARD_RATE_MAX_THRESHOLD,
  WOOD_DECREMENTAL_SMOOTHING_FACTOR

WOOD_EPOCH_DURATION == ONE_MINUTE * EPOCH_MINUTES
INITIAL_BASE_WOOD_REWARD_RATE == BASE_WOOD_REWARD_RATE_MIN_THRESHOLD

(* The limits of a bus and the thresholds of the rate are in order, the    *)
(* program adds up full buses without overflow, and the propagation rate   *)
(* can be halved.  Wood is more patient than a minute.                     *)
ASSUME WoodConstsAssumption ==
  /\ WOOD_LIVENESS_TOLERANCE \in Nat /\ WOOD_LIVENESS_TOLERANCE >= ONE_MINUTE
  /\ MIN_WOOD_EPOCH_REWARDS \in Nat \ {0}
  /\ INITIAL_WOOD_EPOCH_REWARDS \in MIN_WOOD_EPOCH_REWARDS .. MAX_WOOD_EPOCH_REWARDS
  /\ MAX_WOOD_EPOCH_REWARDS \in Nat
  /\ 2 * BUS_COUNT * MAX_WOOD_EPOCH_REWARDS \in U64
  /\ WOOD_PROPOGATION_RATE \in Nat /\ WOOD_PROPOGATION_RATE >= 2
  /\ BASE_WOOD_REWARD_RATE_MIN_THRESHOLD \in Nat \ {0}
  /\ BASE_WOOD_REWARD_RATE_MAX_THRESHOLD \in U64
  /\ 2 * BASE_WOOD_REWARD_RATE_MIN_THRESHOLD < BASE_WOOD_REWARD_RATE_MAX_THRESHOLD
  /\ WOOD_DECREMENTAL_SMOOTHING_FACTOR \in Nat \ {0}
=============================================================================
