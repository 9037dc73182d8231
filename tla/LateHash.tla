------------------------------- MODULE LateHash -------------------------------
(***************************************************************************)
(* A miner that holds back a solution: how the reward of one hash changes  *)
(* with every second the miner waits.  The stake of the proof is taken as  *)
(* settled, so that the liveness penalty is alone at work.                 *)
(***************************************************************************)
EXTENDS WoodReward

CONSTANTS
  Rewards,   \* rewards before the penalty (bound)
  MaxMinutes \* how long the miner waits at most (bound)

ASSUME LateHashAssumption ==
  /\ Rewards \subseteq U64
  /\ MaxMinutes \in Nat

VARIABLES resource, now, proof, reward

lateVars == <<resource, now, proof, reward>>

(* Coal and wood differ in when the penalty sets in. *)
Earned ==
  IF resource = "coal"
  THEN WithLivenessPenalty(proof, reward, now)
  ELSE WithWoodLivenessPenalty(proof, reward, now)

LateInit ==
  /\ resource \in {"coal", "wood"}
  /\ proof = [last_hash_at |-> 0]
  /\ reward \in Rewards
  /\ now = TargetTime(proof) - TOLERANCE

Wait ==
  /\ now < TargetTime(proof) + MaxMinutes * ONE_MINUTE
  /\ now' = now + 1
  /\ UNCHANGED <<resource, proof, reward>>

LateSpec == LateInit /\ [][Wait]_lateVars

-----------------------------------------------------------------------------
(* Holding a solution back never pays: not by a second, and not across the *)
(* minute marks where the linear decay starts again from a halved reward.  *)
WaitingNeverPays == [][Earned' <= Earned]_lateVars

(* The penalty is never harsher than one halving for each minute begun.    *)
PenaltyIsBounded ==
  LET begun == Greater(now - TargetTime(proof) + ONE_MINUTE - 1, 0) \div ONE_MINUTE
  IN  reward \div SatPow2(begun) <= Earned

=============================================================================
