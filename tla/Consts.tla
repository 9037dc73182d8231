------------------------------- MODULE Consts -------------------------------
(***************************************************************************)
(* The protocol constants of api/src/consts.rs.  The independent ones are  *)
(* parameters, the derived ones are derived as the program derives them.   *)
(* ConstsAssumption names what the program's values satisfy and the proofs *)
(* need.                                                                   *)
(***************************************************************************)
EXTENDS MachineInt, FiniteSets

CONSTANTS
  Buses,                                \* the BUS_COUNT bus accounts
  ONE_MINUTE, EPOCH_MINUTES, TOLERANCE, \* seconds, minutes, seconds
  TARGET_COAL_REWARDS,                  \* grains per minute
  MAX_COAL_SUPPLY,
  BASE_COAL_REWARD_RATE_MIN_THRESHOLD,
  BASE_COAL_REWARD_RATE_MAX_THRESHOLD,
  INITIAL_MIN_DIFFICULTY,
  SMOOTHING_FACTOR,
  BASE_TOOL_MULTIPLIER, MAX_TOOL_MULTIPLIER \* percent

BUS_COUNT == Cardinality(Buses)
COAL_EPOCH_DURATION == ONE_MINUTE * EPOCH_MINUTES
TARGET_COAL_EPOCH_REWARDS == TARGET_COAL_REWARDS * EPOCH_MINUTES
MAX_COAL_EPOCH_REWARDS == TARGET_COAL_EPOCH_REWARDS * BUS_COUNT
BUS_COAL_EPOCH_REWARDS == MAX_COAL_EPOCH_REWARDS \div BUS_COUNT
INITIAL_BASE_COAL_REWARD_RATE == BASE_COAL_REWARD_RATE_MIN_THRESHOLD

ASSUME ConstsAssumption ==
  /\ IsFiniteSet(Buses) /\ Buses # {}
  /\ ONE_MINUTE \in Nat \ {0}
  /\ EPOCH_MINUTES \in Nat \ {0}
  /\ TOLERANCE \in 0 .. ONE_MINUTE - 1
  /\ TARGET_COAL_REWARDS \in Nat \ {0}
  /\ MAX_COAL_SUPPLY \in U64
  /\ MAX_COAL_EPOCH_REWARDS \in U64
  /\ INITIAL_MIN_DIFFICULTY \in Nat \ {0}
  /\ SMOOTHING_FACTOR = 2
  /\ BASE_TOOL_MULTIPLIER \in Nat /\ MAX_TOOL_MULTIPLIER \in Nat

(* Of the two thresholds: the lower is even, and the upper is more than    *)
(* twice the lower, so that raising the difficulty never makes the same    *)
(* reset lower it again.  A full bus holds at least twice the lower one.   *)
ASSUME ThresholdAssumption ==
  /\ BASE_COAL_REWARD_RATE_MIN_THRESHOLD \in Nat \ {0}
  /\ BASE_COAL_REWARD_RATE_MIN_THRESHOLD % 2 = 0
  /\ BASE_COAL_REWARD_RATE_MAX_THRESHOLD \in Nat
  /\ 2 * BASE_COAL_REWARD_RATE_MIN_THRESHOLD < BASE_COAL_REWARD_RATE_MAX_THRESHOLD
  /\ 2 * BASE_COAL_REWARD_RATE_MIN_THRESHOLD <= BUS_COAL_EPOCH_REWARDS
=============================================================================
