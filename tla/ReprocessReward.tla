--------------------------- MODULE ReprocessReward ---------------------------
(***************************************************************************)
(* What the lifetime statistics of a coal proof are traded for: a product  *)
(* of the hashes and of the cube root of the rewards, times a pseudo       *)
(* random number.                                                          *)
(***************************************************************************)
EXTENDS MachineInt

CONSTANTS
  SCALING_FACTOR, REPROCESS_MAX_MULTIPLIER,
  ROOT_PRECISION \* how closely a number is told from a cube above it

ASSUME ReprocessRewardAssumption ==
  /\ SCALING_FACTOR \in Nat
  /\ REPROCESS_MAX_MULTIPLIER \in Nat \ {0}
  /\ ROOT_PRECISION \in Nat \ {0}

(* `(total_rewards as f64).cbrt() as u64`.  The conversion is off by at    *)
(* most a part in 2^53 of the number and the root by less than a unit in   *)
(* its last place, a part in 2^52: a number within a part in 2^50 below a  *)
(* cube may round up to it, and none rounds down from it.  ROOT_PRECISION  *)
(* is that 2^50; the model lets every number so close round up or not.     *)
CubeRoots(n) ==
  {c \in 0 .. n : /\ c * c * c <= n + (c * c * c) \div ROOT_PRECISION
                  /\ n < (c + 1) * (c + 1) * (c + 1)}

CalculateReward(hashes, root) == SatMul(SatMul(SCALING_FACTOR, hashes), root)

(* All that statistics can be traded for, with any number, late or not.    *)
ReprocessRewards(hashes, rewards) ==
  {SatMul(CalculateReward(hashes, root), number) :
     root \in CubeRoots(rewards), number \in 1 .. REPROCESS_MAX_MULTIPLIER}
=============================================================================
