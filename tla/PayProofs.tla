------------------------------ MODULE PayProofs ------------------------------
(***************************************************************************)
(* What a hash is paid over time: how the liveness penalty treats a miner  *)
(* that waits, and how the retargeting treats the pay of a hash from one   *)
(* epoch to the next, for every width of the integers, every minute and    *)
(* every reward.                                                           *)
(***************************************************************************)
EXTENDS LateHash, Retargeting, RewardTheorems

(* The whole minutes of a tardiness, and the seconds after the last. *)
LEMMA Minutes ==
  ASSUME NEW n \in Nat
  PROVE  /\ n \div ONE_MINUTE \in Nat /\ n % ONE_MINUTE \in 0 .. ONE_MINUTE - 1
         /\ n = ONE_MINUTE * (n \div ONE_MINUTE) + (n % ONE_MINUTE)
  BY ConstsAssumption

(* A quotient is the only number with a remainder below the divisor. *)
LEMMA MinutesAre ==
  ASSUME NEW n \in Nat, NEW k \in Nat, NEW s \in 0 .. ONE_MINUTE - 1,
         n = ONE_MINUTE * k + s
  PROVE  n \div ONE_MINUTE = k /\ n % ONE_MINUTE = s
  BY ConstsAssumption

(* Beyond the next halving: what is left after one more minute is at most  *)
(* the smaller half of what is left now, also where the power of two       *)
(* saturates.                                                              *)
LEMMA NextHalving ==
  ASSUME NEW n \in U64, NEW k \in Nat
  PROVE  LET kept == n \div SatPow2(k)
         IN  /\ kept \in Nat /\ n \div SatPow2(k + 1) \in Nat
             /\ n \div SatPow2(k + 1) <= kept - kept \div 2
<1> DEFINE kept == n \div SatPow2(k)
           left == n \div SatPow2(k + 1)
<1>1. n \in Nat /\ n <= U64Max /\ U64Max \in Nat \ {0} /\ U64Bits \in Nat \ {0}
  BY U64MaxPositive, U64BitsAssumption DEF U64
<1>2. SatPow2(k) \in Nat \ {0} /\ SatPow2(k + 1) \in Nat \ {0}
  BY SatPow2Positive
<1>3. /\ kept \in Nat /\ SatPow2(k) * kept <= n /\ n < SatPow2(k) * kept + SatPow2(k)
      /\ left \in Nat /\ SatPow2(k + 1) * left <= n
  BY <1>1, <1>2, Division
<1>4. kept - kept \div 2 \in Nat /\ kept \div 2 <= kept - kept \div 2
      /\ (kept = 1 => kept - kept \div 2 = 1) /\ kept <= 2 * (kept - kept \div 2)
  <2> HIDE DEF kept
  <2> QED
    BY <1>3
<1>5. CASE k + 1 < U64Bits
  <2>1. SatPow2(k) = Pow2[k] /\ SatPow2(k + 1) = 2 * Pow2[k]
    BY <1>1, <1>5, Pow2Equation DEF SatPow2
  <2>2. SatPow2(k) * (2 * left) <= n
    <3>1. \A p, m \in Nat : (2 * p) * m = p * (2 * m)
      OBVIOUS
    <3>2. (2 * SatPow2(k)) * left = SatPow2(k) * (2 * left)
      <4> HIDE DEF left
      <4> QED
        BY <1>2, <1>3, <3>1
    <3> QED
      BY <1>3, <2>1, <3>2
  <2>3. 2 * left <= kept
    <3> HIDE DEF kept, left
    <3>1. SUFFICES ASSUME kept + 1 <= 2 * left PROVE FALSE
      BY <1>3
    <3>2. SatPow2(k) * (kept + 1) <= SatPow2(k) * (2 * left)
      BY <1>2, <1>3, <3>1, ProductMonotone
    <3>3. SatPow2(k) * (kept + 1) = SatPow2(k) * kept + SatPow2(k)
          /\ SatPow2(k) * kept \in Nat /\ SatPow2(k) * (2 * left) \in Nat
      BY <1>2, <1>3
    <3> QED
      BY <1>1, <1>2, <1>3, <2>2, <3>2, <3>3
  <2> HIDE DEF kept, left
  <2>4. left <= kept - kept \div 2
    BY <1>3, <1>4, <2>3
  <2> QED
    BY <1>3, <2>4 DEF kept, left
<1>6. CASE ~(k + 1 < U64Bits)
  <2>1. SatPow2(k + 1) = U64Max
    BY <1>6 DEF SatPow2
  <2>2. left <= 1 /\ (left = 1 => n = U64Max)
    <3> HIDE DEF left
    <3>1. left >= 2 => U64Max * 2 <= U64Max * left
      BY <1>1, <1>3, ProductMonotone
    <3>2. U64Max * left \in Nat /\ U64Max * left <= n
      BY <1>1, <1>3, <2>1
    <3> QED
      BY <1>1, <1>3, <3>1, <3>2
  <2>3. SatPow2(k) <= U64Max
    <3>1. CASE k < U64Bits
      <4>1. k + 1 = U64Bits
        BY <1>1, <1>6, <3>1
      <4>2. Pow2[U64Bits] = 2 * Pow2[k] /\ Pow2[k] \in Nat \ {0}
        BY <1>1, <4>1, Pow2Equation, Pow2Positive
      <4> QED
        BY <3>1, <4>2 DEF SatPow2, U64Max
    <3>2. CASE ~(k < U64Bits)
      BY <1>1, <3>2 DEF SatPow2
    <3> QED
      BY <3>1, <3>2
  <2>4. left = 1 => kept # 0
    <3> HIDE DEF left, kept
    <3>1. SatPow2(k) * 0 = 0
      BY <1>2
    <3> QED
      BY <1>1, <1>2, <1>3, <2>2, <2>3, <3>1
  <2> HIDE DEF kept, left
  <2>5. left <= kept - kept \div 2
    BY <1>3, <1>4, <2>2, <2>4
  <2> QED
    BY <1>3, <2>5 DEF kept, left
<1> QED
  BY <1>5, <1>6


(* Division is monotone. *)
LEMMA QuotientMonotone ==
  ASSUME NEW m \in Nat \ {0}, NEW a \in Nat, NEW b \in Nat, a <= b
  PROVE  a \div m <= b \div m
<1>1. SUFFICES ASSUME (b \div m) + 1 <= a \div m PROVE FALSE
  BY Division
<1>2. m * ((b \div m) + 1) <= m * (a \div m)
  BY <1>1, Division, ProductMonotone
<1>3. b < m * (b \div m) + m /\ m * (a \div m) <= a
      /\ b \div m \in Nat /\ a \div m \in Nat
  BY Division
<1>4. m * ((b \div m) + 1) = m * (b \div m) + m /\ m * (b \div m) \in Nat
      /\ m * (a \div m) \in Nat
  BY <1>3
<1> QED
  BY <1>2, <1>3, <1>4

(* Within a minute the decay starts at nothing, grows with every second    *)
(* and stays below one half.                                               *)
LEMMA DecayWithinMinute ==
  ASSUME NEW n \in Nat, NEW s \in 0 .. ONE_MINUTE - 1
  PROVE  /\ Decayed(n, 0) = n
         /\ Decayed(n, s) \in Nat
         /\ n - n \div 2 <= Decayed(n, s)
         /\ s + 1 <= ONE_MINUTE - 1 => Decayed(n, s + 1) <= Decayed(n, s)
<1> DEFINE half == n \div 2
           charged(x) == SatMul(half, x) \div ONE_MINUTE
<1>1. half \in Nat /\ s \in Nat /\ s < ONE_MINUTE /\ ONE_MINUTE \in Nat \ {0}
      /\ U64Max \in Nat \ {0}
  BY ConstsAssumption, U64MaxPositive
<1>2. \A x : Decayed(n, x) = n - charged(x)
  BY DEF Decayed
<1>3. SatMul(half, 0) = 0 /\ 0 \div ONE_MINUTE = 0
  <2>1. half * 0 = 0
    BY <1>1
  <2> QED
    BY <1>1, <2>1 DEF SatMul, Lesser
<1>4. /\ SatMul(half, s) \in Nat /\ SatMul(half, s + 1) \in Nat
      /\ SatMul(half, s) <= SatMul(half, s + 1)
      /\ SatMul(half, s) <= ONE_MINUTE * half
  <2> HIDE DEF half
  <2>1. half * s <= half * (s + 1) /\ half * s \in Nat /\ half * (s + 1) \in Nat
    BY <1>1, ProductMonotone
  <2>2. half * s <= half * ONE_MINUTE /\ half * ONE_MINUTE = ONE_MINUTE * half
        /\ ONE_MINUTE * half \in Nat
    BY <1>1, ProductMonotone
  <2> QED
    BY <1>1, <2>1, <2>2 DEF SatMul, Lesser
<1>5. /\ charged(s) \in Nat /\ charged(s + 1) \in Nat
      /\ charged(s) <= charged(s + 1) /\ charged(s) <= half
  <2> HIDE DEF half
  <2> QED
    BY <1>1, <1>4, QuotientMonotone, QuotientBound, Division
<1>6. charged(0) = 0
  BY <1>3
<1>7. half <= n
  BY <1>1
<1> HIDE DEF charged, half
<1>8. /\ n - charged(0) = n /\ n - charged(s) \in Nat /\ n - half <= n - charged(s)
      /\ n - charged(s + 1) <= n - charged(s)
  BY <1>1, <1>5, <1>6, <1>7
<1>9. n - n \div 2 <= n - charged(s)
  BY <1>8 DEF half
<1> QED
  BY <1>2, <1>8, <1>9

(* A second later, once the penalty has set in, there is no more to earn:  *)
(* within a minute by the decay, across a minute mark by the next halving. *)
LEMMA SecondLater ==
  ASSUME NEW p, p.last_hash_at \in Nat, NEW n \in U64, NEW t \in Nat, t >= TargetTime(p)
  PROVE  Penalized(p, n, t + 1) <= Penalized(p, n, t)
<1> DEFINE T == t - TargetTime(p)
           k == T \div ONE_MINUTE
           s == T % ONE_MINUTE
           kept == n \div SatPow2(k)
<1>1. TargetTime(p) \in Nat /\ T \in Nat /\ (t + 1) - TargetTime(p) = T + 1
      /\ ONE_MINUTE \in Nat \ {0}
  BY ConstsAssumption DEF TargetTime
<1>2. k \in Nat /\ s \in 0 .. ONE_MINUTE - 1 /\ T = ONE_MINUTE * k + s
  <2> HIDE DEF T
  <2> QED
    BY <1>1, Minutes
<1>3. Penalized(p, n, t) = Decayed(kept, s)
  BY DEF Penalized, Halved
<1>4. Penalized(p, n, t + 1) = Decayed(n \div SatPow2((T + 1) \div ONE_MINUTE), (T + 1) % ONE_MINUTE)
  BY <1>1 DEF Penalized, Halved
<1>5. kept \in Nat /\ n \div SatPow2(k + 1) \in Nat
      /\ n \div SatPow2(k + 1) <= kept - kept \div 2
  <2> HIDE DEF k
  <2> QED
    BY <1>2, NextHalving
<1>6. Decayed(kept, s) \in Nat /\ kept - kept \div 2 <= Decayed(kept, s)
      /\ (s + 1 <= ONE_MINUTE - 1 => Decayed(kept, s + 1) <= Decayed(kept, s))
  <2> HIDE DEF kept, s
  <2> QED
    BY <1>2, <1>5, DecayWithinMinute
<1> HIDE DEF T, k, s
<1>7. CASE s + 1 <= ONE_MINUTE - 1
  <2>1. T + 1 = ONE_MINUTE * k + (s + 1) /\ s + 1 \in 0 .. ONE_MINUTE - 1
    BY <1>1, <1>2, <1>7
  <2>2. (T + 1) \div ONE_MINUTE = k /\ (T + 1) % ONE_MINUTE = s + 1
    BY <1>1, <1>2, <2>1, MinutesAre
  <2> QED
    BY <1>3, <1>4, <1>6, <1>7, <2>2
<1>8. CASE ~(s + 1 <= ONE_MINUTE - 1)
  <2>1. T + 1 = ONE_MINUTE * (k + 1) + 0 /\ 0 \in 0 .. ONE_MINUTE - 1
    BY <1>1, <1>2, <1>8
  <2>2. (T + 1) \div ONE_MINUTE = k + 1 /\ (T + 1) % ONE_MINUTE = 0
    BY <1>1, <1>2, <2>1, MinutesAre
  <2>3. Decayed(n \div SatPow2(k + 1), 0) = n \div SatPow2(k + 1)
    BY <1>1, <1>5, DecayWithinMinute
  <2> HIDE DEF kept
  <2>4. kept - kept \div 2 \in Int
    BY <1>5
  <2> QED
    BY <1>3, <1>4, <1>5, <1>6, <2>2, <2>3, <2>4
<1> QED
  BY <1>7, <1>8

(* One halving for each minute begun is the worst the penalty does. *)
LEMMA PenaltyAtMostHalves ==
  ASSUME NEW p, p.last_hash_at \in Nat, NEW n \in U64, NEW t \in Nat, t >= TargetTime(p)
  PROVE  n \div SatPow2(((t - TargetTime(p)) + ONE_MINUTE - 1) \div ONE_MINUTE)
           <= Penalized(p, n, t)
<1> DEFINE T == t - TargetTime(p)
           k == T \div ONE_MINUTE
           s == T % ONE_MINUTE
           kept == n \div SatPow2(k)
           begun == (T + ONE_MINUTE - 1) \div ONE_MINUTE
<1>1. TargetTime(p) \in Nat /\ T \in Nat /\ ONE_MINUTE \in Nat \ {0}
  BY ConstsAssumption DEF TargetTime
<1>2. k \in Nat /\ s \in 0 .. ONE_MINUTE - 1 /\ T = ONE_MINUTE * k + s
  <2> HIDE DEF T
  <2> QED
    BY <1>1, Minutes
<1>3. Penalized(p, n, t) = Decayed(kept, s)
  BY DEF Penalized, Halved
<1>4. kept \in Nat /\ n \div SatPow2(k + 1) \in Nat
      /\ n \div SatPow2(k + 1) <= kept - kept \div 2
  <2> HIDE DEF k
  <2> QED
    BY <1>2, NextHalving
<1>5. Decayed(kept, 0) = kept /\ Decayed(kept, s) \in Nat
      /\ kept - kept \div 2 <= Decayed(kept, s)
  <2> HIDE DEF kept, s
  <2> QED
    BY <1>2, <1>4, DecayWithinMinute
<1>6. n \div SatPow2(begun) <= Decayed(kept, s)
  <2> HIDE DEF T, k, s
  <2>1. CASE s = 0
    <3>1. T + ONE_MINUTE - 1 = ONE_MINUTE * k + (ONE_MINUTE - 1)
          /\ ONE_MINUTE - 1 \in 0 .. ONE_MINUTE - 1 /\ T + ONE_MINUTE - 1 \in Nat
      BY <1>1, <1>2, <2>1
    <3>2. begun = k
      BY <1>1, <1>2, <3>1, MinutesAre
    <3> QED
      BY <1>4, <1>5, <2>1, <3>2
  <2>2. CASE s # 0
    <3>1. T + ONE_MINUTE - 1 = ONE_MINUTE * (k + 1) + (s - 1)
          /\ s - 1 \in 0 .. ONE_MINUTE - 1 /\ T + ONE_MINUTE - 1 \in Nat /\ k + 1 \in Nat
      BY <1>1, <1>2, <2>2
    <3>2. begun = k + 1
      BY <3>1, MinutesAre
    <3> HIDE DEF kept
    <3>3. kept - kept \div 2 \in Int
      BY <1>4
    <3> QED
      BY <1>4, <1>5, <3>2, <3>3
  <2> QED
    BY <2>1, <2>2
<1> QED
  BY <1>3, <1>6

-----------------------------------------------------------------------------
(* The miner of LateHash. *)
LateInv ==
  /\ resource \in {"coal", "wood"}
  /\ proof = [last_hash_at |-> 0]
  /\ reward \in U64
  /\ now \in Nat

(* How late a hash may be without a penalty. *)
patience == IF resource = "coal" THEN TOLERANCE ELSE WOOD_LIVENESS_TOLERANCE

(* The miner's proof and its patience are numbers. *)
LEMMA LateFacts ==
  ASSUME LateInv
  PROVE  /\ proof.last_hash_at \in Nat /\ TargetTime(proof) \in Nat
         /\ patience \in Nat /\ ONE_MINUTE \in Nat \ {0}
  BY ConstsAssumption, WoodConstsAssumption DEF LateInv, TargetTime, patience

(* It starts like that. *)
LEMMA LateInitInv == LateInit => LateInv
  BY ConstsAssumption, LateHashAssumption DEF LateInit, LateInv, TargetTime

(* Waiting keeps the types. *)
LEMMA LateStep == LateInv /\ [Wait]_lateVars => LateInv'
  BY DEF LateInv, Wait, lateVars

(* Before the penalty sets in, the whole reward is earned; then what the   *)
(* penalty leaves of it, and that is never more.                           *)
LEMMA EarnedIs ==
  ASSUME LateInv, NEW t \in Nat
  PROVE  LET earned == IF resource = "coal"
                       THEN WithLivenessPenalty(proof, reward, t)
                       ELSE WithWoodLivenessPenalty(proof, reward, t)
         IN  /\ t > TargetTime(proof) + patience => earned = Penalized(proof, reward, t)
             /\ ~(t > TargetTime(proof) + patience) => earned = reward
             /\ t >= TargetTime(proof) =>
                  Penalized(proof, reward, t) \in Nat /\ Penalized(proof, reward, t) <= reward
<1>1. reward \in Nat
  BY U64MaxPositive DEF LateInv
<1> QED
  BY <1>1, LateFacts, PenalizedType
     DEF WithLivenessPenalty, WithWoodLivenessPenalty, patience

(* Waiting a second never pays. *)
LEMMA WaitPaysNothing ==
  ASSUME LateInv, Wait
  PROVE  Earned' <= Earned
<1>1. now' = now + 1 /\ UNCHANGED <<resource, proof, reward>> /\ now \in Nat /\ reward \in Nat
  BY U64MaxPositive DEF Wait, LateInv
<1>2. patience \in Nat
  BY LateFacts
<1> DEFINE EarnedAt(t) == IF resource = "coal"
                          THEN WithLivenessPenalty(proof, reward, t)
                          ELSE WithWoodLivenessPenalty(proof, reward, t)
<1>3. Earned = EarnedAt(now) /\ Earned' = EarnedAt(now + 1)
  BY <1>1 DEF Earned
<1>4. \A t \in Nat :
        /\ t > TargetTime(proof) + patience => EarnedAt(t) = Penalized(proof, reward, t)
        /\ ~(t > TargetTime(proof) + patience) => EarnedAt(t) = reward
        /\ t >= TargetTime(proof) =>
             Penalized(proof, reward, t) \in Nat /\ Penalized(proof, reward, t) <= reward
  BY <1>2, EarnedIs
<1>5. now >= TargetTime(proof) =>
        Penalized(proof, reward, now + 1) <= Penalized(proof, reward, now)
  BY LateFacts, SecondLater DEF LateInv
<1> HIDE DEF EarnedAt
<1>6. EarnedAt(now + 1) <= EarnedAt(now)
  <2>1. CASE now > TargetTime(proof) + patience
    <3>1. now >= TargetTime(proof) /\ now + 1 > TargetTime(proof) + patience /\ now + 1 \in Nat
      BY <1>1, <1>2, <2>1, LateFacts
    <3> QED
      BY <1>1, <1>4, <1>5, <2>1, <3>1
  <2>2. CASE ~(now > TargetTime(proof) + patience)
    <3>1. now + 1 \in Nat
          /\ (now + 1 > TargetTime(proof) + patience => now + 1 >= TargetTime(proof))
      BY <1>1, <1>2, LateFacts
    <3> QED
      BY <1>1, <1>4, <2>2, <3>1
  <2> QED
    BY <2>1, <2>2
<1> QED
  BY <1>3, <1>6

(* Holding a solution back never pays, for coal and for wood, whatever the *)
(* reward, however long a minute is and whatever the tolerances are: not   *)
(* when the penalty sets in, not across the minute marks where the linear  *)
(* decay starts again, and not where 2^minutes saturates.                  *)
THEOREM HoldingBackNeverPays == LateSpec => WaitingNeverPays
<1>1. LateInv /\ [Wait]_lateVars => [Earned' <= Earned]_lateVars
  BY WaitPaysNothing
<1>2. LateSpec => []LateInv
  BY LateInitInv, LateStep, PTL DEF LateSpec
<1>3. QED
  BY <1>1, <1>2, PTL DEF LateSpec, WaitingNeverPays

(* The penalty never takes more than one halving for each minute begun. *)
THEOREM PenaltyStaysBounded == LateSpec => []PenaltyIsBounded
<1>1. ASSUME LateInv PROVE PenaltyIsBounded
  <2>1. now \in Nat /\ reward \in Nat /\ reward \in U64
    BY <1>1, U64MaxPositive DEF LateInv
  <2>2. patience \in Nat
    BY <1>1, LateFacts
  <2> DEFINE waited == now - TargetTime(proof) + ONE_MINUTE - 1
             begun == Greater(waited, 0) \div ONE_MINUTE
  <2>3. begun \in Nat
    <3>1. Greater(waited, 0) \in Nat
      BY <1>1, <2>1, LateFacts DEF Greater
    <3> HIDE DEF waited
    <3> QED
      BY <1>1, <3>1, LateFacts, Division
  <2>4. reward \div SatPow2(begun) <= reward
    <3> HIDE DEF begun
    <3>1. SatPow2(begun) \in Nat \ {0}
      BY <2>3, SatPow2Positive
    <3>2. 1 * reward <= SatPow2(begun) * reward
      BY <2>1, <3>1
    <3> QED
      BY <2>1, <3>1, <3>2, QuotientBound
  <2>5. CASE now > TargetTime(proof) + patience
    <3>1. now >= TargetTime(proof)
      BY <1>1, <2>1, <2>2, <2>5, LateFacts
    <3>2. Earned = Penalized(proof, reward, now)
      BY <1>1, <2>1, <2>2, <2>5, EarnedIs DEF Earned
    <3>3. Greater(waited, 0) = (now - TargetTime(proof)) + ONE_MINUTE - 1
      <4>1. now \in Nat /\ TargetTime(proof) \in Nat /\ ONE_MINUTE \in Nat \ {0}
        BY <1>1, <2>1, LateFacts
      <4>2. waited \in Nat
        BY <3>1, <4>1
      <4>3. waited = (now - TargetTime(proof)) + ONE_MINUTE - 1
        OBVIOUS
      <4> HIDE DEF waited
      <4>4. Greater(waited, 0) = waited
        BY <4>2 DEF Greater
      <4> QED
        BY <4>3, <4>4
    <3>4. reward \div SatPow2(begun) <= Penalized(proof, reward, now)
      BY <1>1, <2>1, <3>1, <3>3, LateFacts, PenaltyAtMostHalves
    <3> QED
      BY <3>2, <3>4 DEF PenaltyIsBounded
  <2>6. CASE ~(now > TargetTime(proof) + patience)
    <3>1. Earned = reward
      BY <1>1, <2>1, <2>2, <2>6, EarnedIs DEF Earned
    <3> QED
      BY <2>4, <3>1 DEF PenaltyIsBounded
  <2> QED
    BY <2>5, <2>6
<1>2. LateSpec => []LateInv
  BY LateInitInv, LateStep, PTL DEF LateSpec
<1>3. QED
  BY <1>1, <1>2, PTL

-----------------------------------------------------------------------------
(* The loop of Retargeting: the rate stays in its band, and the miners can *)
(* meet the difficulty.                                                    *)
RetargetInv ==
  /\ InBand(config)
  /\ config.min_difficulty <= HashDifficulty
  /\ hashes \in Nat
  /\ steady \in BOOLEAN
  /\ owed \in Nat

(* The powers of two that scale a rate to the pay of a hash. *)
LEMMA Scale ==
  ASSUME NEW cfg, InBand(cfg), cfg.min_difficulty <= HashDifficulty
  PROVE  /\ HashDifficulty - cfg.min_difficulty \in 0 .. U64Bits
         /\ Pow2[HashDifficulty - cfg.min_difficulty] \in Nat \ {0}
         /\ HashPay(cfg) \in Nat
<1>1. HashDifficulty - cfg.min_difficulty \in 0 .. U64Bits
  BY RetargetingAssumption, ConstsAssumption, U64BitsAssumption DEF InBand
<1>2. Pow2[HashDifficulty - cfg.min_difficulty] \in Nat \ {0}
  BY <1>1, Pow2Positive
<1>3. HashPay(cfg) \in Nat
  BY <1>2 DEF HashPay, InBand
<1> QED
  BY <1>1, <1>2, <1>3

(* The loop starts in its band. *)
LEMMA RetargetInitInv == RetargetInit => RetargetInv
<1> SUFFICES ASSUME RetargetInit PROVE RetargetInv
  OBVIOUS
<1>1. BUS_COAL_EPOCH_REWARDS \in Nat
  BY DerivedConstants
<1>2. config.base_reward_rate = BASE_COAL_REWARD_RATE_MIN_THRESHOLD
      /\ config.min_difficulty = INITIAL_MIN_DIFFICULTY
  BY DEF RetargetInit, INITIAL_BASE_COAL_REWARD_RATE
<1>3. InBand(config)
  BY <1>1, <1>2, ThresholdAssumption, ConstsAssumption DEF InBand
<1>4. INITIAL_MIN_DIFFICULTY <= HashDifficulty
  BY ConstsAssumption, U64BitsAssumption, RetargetingAssumption
<1> QED
  BY <1>2, <1>3, <1>4, RetargetingAssumption DEF RetargetInit, RetargetInv

(* Every epoch owes some natural number, and retargets by it. *)
LEMMA Epochs ==
  ASSUME RetargetInv, RetargetNext
  PROVE  \/ UNCHANGED <<config, owed, hashes>> /\ steady' \in BOOLEAN
         \/ /\ owed' \in Nat /\ hashes' \in Nat /\ steady' \in BOOLEAN
            /\ config' = NextCoalRate(config, owed')
            /\ config'.min_difficulty <= HashDifficulty
<1>1. HashPay(config) \in Nat
  BY Scale DEF RetargetInv
<1>2. ASSUME NEW n \in Nat PROVE n * HashPay(config) \in Nat
  BY <1>1
<1>3. CASE AnyEpoch
  <2>1. CASE \E n \in HashCounts : EpochOwing(n * HashPay(config)) /\ hashes' = n
    BY <1>2, <1>3, <2>1, RetargetingAssumption DEF AnyEpoch, EpochOwing, RetargetInv
  <2>2. CASE \E rewards \in FewRewards : EpochOwing(rewards) /\ UNCHANGED hashes
    BY <1>3, <2>2, RetargetingAssumption DEF AnyEpoch, EpochOwing, RetargetInv
  <2> QED
    BY <1>3, <2>1, <2>2 DEF AnyEpoch
<1>4. CASE BecomeSteady
  BY <1>4 DEF BecomeSteady
<1>5. CASE SteadyEpoch
  BY <1>2, <1>5 DEF SteadyEpoch, EpochOwing, RetargetInv
<1> QED
  BY <1>3, <1>4, <1>5 DEF RetargetNext

(* Every epoch keeps the loop in its band. *)
LEMMA RetargetStep == RetargetInv /\ [RetargetNext]_retargetVars => RetargetInv'
<1> SUFFICES ASSUME RetargetInv, [RetargetNext]_retargetVars PROVE RetargetInv'
  OBVIOUS
<1>1. CASE UNCHANGED retargetVars
  BY <1>1 DEF retargetVars, RetargetInv, InBand
<1>2. CASE RetargetNext
  <2>1. CASE UNCHANGED <<config, owed, hashes>> /\ steady' \in BOOLEAN
    BY <2>1 DEF RetargetInv, InBand
  <2>2. CASE /\ owed' \in Nat /\ hashes' \in Nat /\ steady' \in BOOLEAN
             /\ config' = NextCoalRate(config, owed')
             /\ config'.min_difficulty <= HashDifficulty
    <3>1. InBand(NextCoalRate(config, owed'))
      BY <2>2, RetargetKeepsBand DEF RetargetInv
    <3>2. InBand(config)'
      BY <2>2, <3>1 DEF InBand
    <3> QED
      BY <2>2, <3>2 DEF RetargetInv
  <2> QED
    BY <1>2, <2>1, <2>2, Epochs
<1> QED
  BY <1>1, <1>2

(* What coal makes of the old rate before the difficulty is adjusted. *)
Retargeted(rate, n) ==
  CalculateNewRewardRate(rate, n, TARGET_COAL_EPOCH_REWARDS, BUS_COAL_EPOCH_REWARDS,
                         SMOOTHING_FACTOR, SMOOTHING_FACTOR)

(* It is at least one half and at most the double of the old rate, it does *)
(* not fall when less than the target was owed, and does not rise when     *)
(* more was.                                                               *)
LEMMA RetargetedFollows ==
  ASSUME NEW rate \in Nat \ {0}, rate <= BUS_COAL_EPOCH_REWARDS, NEW n \in Nat
  PROVE  LET new == Retargeted(rate, n)
         IN  /\ new \in Nat /\ rate <= 2 * new + 1 /\ new <= 2 * rate
             /\ n = 0 => new = rate
             /\ n # 0 /\ n <= TARGET_COAL_EPOCH_REWARDS
                  /\ (rate * TARGET_COAL_EPOCH_REWARDS) \div n \in U64 => rate <= new
             /\ n >= TARGET_COAL_EPOCH_REWARDS => new <= rate
<1> DEFINE target == TARGET_COAL_EPOCH_REWARDS
           limit == BUS_COAL_EPOCH_REWARDS
           new == Retargeted(rate, n)
           exact == (rate * target) \div n
           proportional == ProportionalRate(rate, n, target)
           smoothed == Smoothed(proportional, rate, 2, 2)
<1>1. /\ target \in Nat \ {0} /\ limit \in Nat \ {0} /\ limit <= U64Max
      /\ rate * target \in Nat /\ SMOOTHING_FACTOR = 2 /\ U64Max \in Nat \ {0}
  BY DerivedConstants, ConstsAssumption, U64MaxPositive DEF U64
<1>2. new \in Nat /\ rate \div 2 <= new
  BY CalculatedRateFacts DEF Retargeted
<1>3. rate <= 2 * (rate \div 2) + 1 /\ rate \div 2 \in Nat /\ rate \div 2 <= rate
  BY Halving
<1>4. n = 0 => new = rate
  BY DEF Retargeted, CalculateNewRewardRate
<1>5. ASSUME n # 0
      PROVE  /\ exact \in Nat /\ proportional \in Nat
             /\ exact \in U64 => proportional = exact
             /\ n <= target => rate <= exact
             /\ n >= target => exact <= rate
             /\ new = Lesser(Greater(smoothed, 1), limit)
  <2>1. exact \in Nat
    <3> HIDE DEF target
    <3> QED
      BY <1>1, <1>5, Division
  <2>2. proportional = AsU64(exact)
    BY DEF ProportionalRate
  <2>3. proportional \in Nat
    <3> HIDE DEF exact, proportional
    <3> QED
      BY <2>1, <2>2, AsU64Type, U64MaxPositive
  <2>4. exact \in U64 => proportional = exact
    <3> HIDE DEF exact, proportional
    <3>1. Pow2[U64Bits] \in Nat \ {0}
      BY Pow2Positive, U64BitsAssumption
    <3>2. exact \in U64 => exact \in Nat /\ exact < Pow2[U64Bits]
      BY <2>1, <3>1 DEF U64, U64Max
    <3> QED
      BY <2>1, <2>2, <3>1, <3>2 DEF AsU64
  <2>5. n <= target => rate <= exact
    <3> HIDE DEF target
    <3>1. SUFFICES ASSUME n <= target, exact + 1 <= rate PROVE FALSE
      BY <2>1
    <3>2. rate * n <= rate * target /\ rate * n \in Nat
      BY <1>1, <3>1, ProductMonotone
    <3>3. n * (exact + 1) <= n * rate /\ n * rate = rate * n
      BY <2>1, <3>1, ProductMonotone
    <3>4. rate * target < n * exact + n /\ n * exact \in Nat
      BY <1>1, <1>5, Division
    <3> HIDE DEF exact
    <3>5. n * (exact + 1) = n * exact + n
      BY <2>1
    <3> QED
      BY <1>1, <3>2, <3>3, <3>4, <3>5
  <2>6. n >= target => exact <= rate
    <3> HIDE DEF target
    <3>1. n >= target => rate * target <= rate * n /\ rate * n = n * rate
      BY <1>1, ProductMonotone
    <3> QED
      BY <1>1, <1>5, <3>1, QuotientBound
  <2>7. new = Lesser(Greater(smoothed, 1), limit)
    BY <1>1, <1>5 DEF Retargeted, CalculateNewRewardRate
  <2> QED
    BY <2>1, <2>3, <2>4, <2>5, <2>6, <2>7
<1>6. SatMul(rate, 2) \in Nat /\ SatMul(rate, 2) <= 2 * rate /\ rate <= SatMul(rate, 2)
  BY <1>1 DEF SatMul, Lesser
<1>7. ASSUME n # 0
      PROVE  /\ new <= 2 * rate
             /\ n <= target /\ exact \in U64 => rate <= new
             /\ n >= target => new <= rate
  <2>1. smoothed = Greater(Lesser(proportional, SatMul(rate, 2)), rate \div 2)
    BY DEF Smoothed
  <2> HIDE DEF smoothed, proportional, exact, target, limit, new
  <2>2. /\ smoothed \in Nat /\ smoothed <= 2 * rate
        /\ rate <= proportional => rate <= smoothed
        /\ proportional <= rate => smoothed <= rate
    BY <1>3, <1>5, <1>6, <1>7, <2>1 DEF Lesser, Greater
  <2>3. n >= target => proportional <= rate
    <3>1. rate \in U64
      BY <1>1 DEF U64, limit
    <3>2. n >= target => exact <= rate /\ exact \in U64
      BY <1>1, <1>5, <1>7, <3>1 DEF U64
    <3> QED
      BY <1>5, <1>7, <3>2
  <2>4. n <= target /\ exact \in U64 => rate <= proportional
    BY <1>5, <1>7
  <2>5. new = Lesser(Greater(smoothed, 1), limit) /\ rate <= limit
    BY <1>5, <1>7 DEF limit
  <2> QED
    BY <1>1, <2>2, <2>3, <2>4, <2>5 DEF Lesser, Greater
<1> HIDE DEF new, exact, target
<1>8. /\ rate <= 2 * new + 1 /\ new <= 2 * rate
      /\ n # 0 /\ n <= target /\ exact \in U64 => rate <= new
      /\ n >= target => new <= rate
  BY <1>1, <1>2, <1>3, <1>4, <1>7
<1> QED
  BY <1>2, <1>4, <1>8 DEF new, exact, target


(* A notch of difficulty and the factor of two in the rate cancel out: the *)
(* pay of a hash is that of the new rate at the old difficulty, up to the  *)
(* grain that halving may lose where a rate has risen to the threshold.    *)
LEMMA NotchCancels ==
  ASSUME NEW cfg, InBand(cfg), cfg.min_difficulty <= HashDifficulty,
         NEW n \in Nat, NextCoalRate(cfg, n).min_difficulty <= HashDifficulty
  PROVE  LET next == NextCoalRate(cfg, n)
             new == Retargeted(cfg.base_reward_rate, n)
             scale == Pow2[HashDifficulty - cfg.min_difficulty]
             scale2 == Pow2[HashDifficulty - next.min_difficulty]
         IN  /\ scale \in Nat \ {0} /\ scale2 \in Nat \ {0} /\ new \in Nat
             /\ scale <= 2 * scale2
             /\ HashPay(next) \in Nat
             /\ HashPay(next) <= new * scale
             /\ new * scale <= HashPay(next) + scale2
             /\ \/ HashPay(next) = new * scale
                \/ /\ new >= BASE_COAL_REWARD_RATE_MAX_THRESHOLD /\ cfg.min_difficulty > 1
                   /\ HashPay(next) = (2 * (new \div 2)) * scale
<1> DEFINE MIN == BASE_COAL_REWARD_RATE_MIN_THRESHOLD
           MAX == BASE_COAL_REWARD_RATE_MAX_THRESHOLD
           next == NextCoalRate(cfg, n)
           new == Retargeted(cfg.base_reward_rate, n)
           calculated == [base_reward_rate |-> new, min_difficulty |-> cfg.min_difficulty]
           raised == RaisedDifficulty(calculated, MIN)
           scale == Pow2[HashDifficulty - cfg.min_difficulty]
           scale2 == Pow2[HashDifficulty - next.min_difficulty]
<1>1. InBand(next)
  BY RetargetKeepsBand
<1>2. /\ cfg.min_difficulty \in Nat \ {0} /\ next.min_difficulty \in Nat \ {0}
      /\ HashDifficulty - cfg.min_difficulty \in 0 .. U64Bits
      /\ HashDifficulty - next.min_difficulty \in 0 .. U64Bits
      /\ scale \in Nat \ {0} /\ scale2 \in Nat \ {0} /\ HashPay(next) \in Nat
  <2> HIDE DEF next
  <2> QED
    BY <1>1, Scale DEF InBand, next
<1>3. new \in Nat
  <2>1. cfg.base_reward_rate \in Nat \ {0} /\ cfg.base_reward_rate <= BUS_COAL_EPOCH_REWARDS
    BY ThresholdAssumption DEF InBand
  <2> QED
    BY <2>1, RetargetedFollows
<1>4. next = LoweredDifficulty(raised, MAX) /\ HashPay(next) = next.base_reward_rate * scale2
  BY DEF NextCoalRate, AdjustedDifficulty, Retargeted, HashPay
<1>5. HashDifficulty \in Nat
  BY RetargetingAssumption, ConstsAssumption, U64BitsAssumption
<1> HIDE DEF new
<1>6. \A d \in Nat \ {0} :
        d + 1 <= HashDifficulty /\ HashDifficulty - d \in 0 .. U64Bits
          => Pow2[HashDifficulty - d] = 2 * Pow2[HashDifficulty - (d + 1)]
  <2> TAKE d \in Nat \ {0}
  <2> HAVE d + 1 <= HashDifficulty /\ HashDifficulty - d \in 0 .. U64Bits
  <2>1. HashDifficulty - d # 0 /\ (HashDifficulty - d) - 1 = HashDifficulty - (d + 1)
    BY <1>5
  <2> QED
    BY <2>1, Pow2Equation
<1>7. /\ scale <= 2 * scale2
      /\ HashPay(next) <= new * scale
      /\ new * scale <= HashPay(next) + scale2
      /\ \/ HashPay(next) = new * scale
         \/ /\ new >= MAX /\ cfg.min_difficulty > 1
            /\ HashPay(next) = (2 * (new \div 2)) * scale
  <2>1. CASE new <= MIN
    <3>1. raised = [base_reward_rate |-> new * 2, min_difficulty |-> cfg.min_difficulty + 1]
      BY <2>1 DEF RaisedDifficulty
    <3>2. next = raised
      <4>1. ~(new * 2 >= MAX)
        BY <1>3, <2>1, ThresholdAssumption
      <4> QED
        BY <1>4, <3>1, <4>1 DEF LoweredDifficulty
    <3>3. next.base_reward_rate = 2 * new /\ next.min_difficulty = cfg.min_difficulty + 1
      BY <1>3, <3>1, <3>2
    <3>4. scale = 2 * scale2
      BY <1>2, <1>6, <3>3
    <3> HIDE DEF scale, scale2, next
    <3>5. \A a, b \in Nat : (2 * a) * b = a * (2 * b) /\ a * (2 * b) \in Nat
      OBVIOUS
    <3>6. HashPay(next) = new * scale /\ new * scale \in Nat
      BY <1>2, <1>3, <1>4, <3>3, <3>4, <3>5
    <3>7. scale <= 2 * scale2 /\ new * scale <= HashPay(next) + scale2
      BY <1>2, <3>4, <3>6
    <3> QED
      BY <3>6, <3>7
  <2>2. CASE ~(new <= MIN) /\ new >= MAX /\ cfg.min_difficulty > 1
    <3>1. raised = calculated
      BY <2>2 DEF RaisedDifficulty
    <3>2. next.base_reward_rate = new \div 2 /\ next.min_difficulty = cfg.min_difficulty - 1
      BY <1>4, <2>2, <3>1 DEF LoweredDifficulty
    <3>3. scale2 = 2 * scale
      <4>1. next.min_difficulty + 1 = cfg.min_difficulty
        BY <1>2, <3>2
      <4> HIDE DEF next
      <4> QED
        BY <1>2, <1>6, <4>1
    <3> HIDE DEF scale, scale2, next
    <3>4. new \div 2 \in Nat /\ 2 * (new \div 2) <= new /\ new <= 2 * (new \div 2) + 1
      BY <1>3, Halving
    <3>5. \A a, b \in Nat : (2 * a) * b = a * (2 * b) /\ (2 * a) * b \in Nat
                            /\ (2 * a + 1) * b = (2 * a) * b + b
      OBVIOUS
    <3>6. HashPay(next) = (2 * (new \div 2)) * scale
      BY <1>2, <1>4, <3>2, <3>3, <3>4, <3>5
    <3>7. (2 * (new \div 2)) * scale <= new * scale
          /\ new * scale <= (2 * (new \div 2) + 1) * scale /\ new * scale \in Nat
      <4>1. \A a, b, c \in Nat : a <= b => a * c <= b * c /\ b * c \in Nat
        <5> TAKE a, b, c \in Nat
        <5> HAVE a <= b
        <5>1. c * a <= c * b /\ c * a \in Nat
          BY ProductMonotone
        <5> QED
          BY <5>1
      <4>2. 2 * (new \div 2) \in Nat /\ 2 * (new \div 2) + 1 \in Nat
        BY <3>4
      <4> QED
        BY <1>2, <1>3, <3>4, <4>1, <4>2
    <3>8. /\ scale <= 2 * scale2
          /\ HashPay(next) <= new * scale
          /\ new * scale <= HashPay(next) + scale2
      BY <1>2, <3>3, <3>4, <3>5, <3>6, <3>7
    <3> QED
      BY <2>2, <3>6, <3>8
  <2>3. CASE ~(new <= MIN) /\ ~(new >= MAX /\ cfg.min_difficulty > 1)
    <3>1. raised = calculated
      BY <2>3 DEF RaisedDifficulty
    <3>2. next = calculated
      BY <1>4, <2>3, <3>1 DEF LoweredDifficulty
    <3>3. next.base_reward_rate = new /\ scale2 = scale
      BY <3>2
    <3>4. new * scale \in Nat
      <4> HIDE DEF scale
      <4> QED
        BY <1>2, <1>3
    <3>5. HashPay(next) = new * scale
      BY <1>4, <3>3
    <3> HIDE DEF scale, scale2, next
    <3>6. /\ scale <= 2 * scale2
          /\ HashPay(next) <= new * scale
          /\ new * scale <= HashPay(next) + scale2
      BY <1>2, <3>3, <3>4, <3>5
    <3> QED
      BY <3>5, <3>6
  <2> QED
    BY <2>1, <2>2, <2>3
<1> QED
  BY <1>2, <1>3, <1>7 DEF new


(* What an epoch does to the pay of a hash. *)
LEMMA EpochPay ==
  ASSUME RetargetInv, owed' \in Nat,
         config' = NextCoalRate(config, owed'), config'.min_difficulty <= HashDifficulty
  PROVE  /\ HashPay(config') <= 2 * HashPay(config)
         /\ HashPay(config) <= 2 * HashPay(config') + 4 * Pow2[HashDifficulty - config'.min_difficulty]
         /\ owed' # 0 /\ owed' <= TARGET_COAL_EPOCH_REWARDS /\ CorrectionFits =>
              HashPay(config) <= HashPay(config') + Pow2[HashDifficulty - config'.min_difficulty]
         /\ owed' >= TARGET_COAL_EPOCH_REWARDS => HashPay(config') <= HashPay(config)
         /\ owed' = 0 => HashPay(config') = HashPay(config)
<1> DEFINE rate == config.base_reward_rate
           new == Retargeted(rate, owed')
           scale == Pow2[HashDifficulty - config.min_difficulty]
           scale2 == Pow2[HashDifficulty - config'.min_difficulty]
           pay == HashPay(config)
           pay2 == HashPay(config')
           scarce == owed' # 0 /\ owed' <= TARGET_COAL_EPOCH_REWARDS /\ CorrectionFits
           plenty == owed' >= TARGET_COAL_EPOCH_REWARDS
<1>1. /\ scale \in Nat \ {0} /\ scale2 \in Nat \ {0} /\ new \in Nat
      /\ scale <= 2 * scale2 /\ pay2 \in Nat
      /\ pay2 <= new * scale /\ new * scale <= pay2 + scale2
      /\ pay2 = new * scale
           \/ (new >= BASE_COAL_REWARD_RATE_MAX_THRESHOLD /\ config.min_difficulty > 1)
  <2>1. InBand(config) /\ config.min_difficulty <= HashDifficulty
    BY DEF RetargetInv
  <2>2. NextCoalRate(config, owed').min_difficulty <= HashDifficulty
    OBVIOUS
  <2> QED
    BY <2>1, <2>2, NotchCancels
<1>2. rate \in Nat \ {0} /\ rate <= BUS_COAL_EPOCH_REWARDS
  BY ThresholdAssumption DEF RetargetInv, InBand
<1>3. /\ rate <= 2 * new + 1 /\ new <= 2 * rate
      /\ owed' = 0 => new = rate
      /\ scarce => rate <= new
      /\ plenty => new <= rate
  BY <1>2, RetargetedFollows DEF CorrectionFits
<1>4. pay = rate * scale
  BY DEF HashPay
<1>10. config.min_difficulty > 1 => rate < BASE_COAL_REWARD_RATE_MAX_THRESHOLD
  BY DEF RetargetInv, InBand
<1> HIDE DEF rate, new, scale, scale2, pay, pay2, scarce, plenty
<1>5. \A a, b, c \in Nat : a <= b => a * c <= b * c /\ a * c \in Nat /\ b * c \in Nat
  <2> TAKE a, b, c \in Nat
  <2> HAVE a <= b
  <2>1. c * a <= c * b /\ c * a \in Nat
    BY ProductMonotone
  <2> QED
    BY <2>1
<1>6. pay \in Nat /\ new * scale \in Nat
  BY <1>1, <1>2, <1>4, <1>5
<1>7. /\ rate * scale <= 2 * (new * scale) + scale
      /\ new * scale <= 2 * (rate * scale)
  <2>1. \A a, c \in Nat : (2 * a) * c = 2 * (a * c) /\ (2 * a + 1) * c = 2 * (a * c) + c
    OBVIOUS
  <2>2. rate * scale <= (2 * new + 1) * scale
    BY <1>1, <1>2, <1>3, <1>5
  <2>3. new * scale <= (2 * rate) * scale
    BY <1>1, <1>2, <1>3, <1>5
  <2> QED
    BY <1>1, <1>2, <2>1, <2>2, <2>3
<1>8. /\ scarce => rate * scale <= new * scale
      /\ plenty => new * scale <= rate * scale
  BY <1>1, <1>2, <1>3, <1>5
<1>9. /\ pay2 <= 2 * pay
      /\ pay <= 2 * pay2 + 4 * scale2
      /\ scarce => pay <= pay2 + scale2
      /\ plenty => pay2 <= pay
  BY <1>1, <1>4, <1>6, <1>7, <1>8
<1>11. owed' = 0 => pay2 = pay
  <2>1. ~(rate >= BASE_COAL_REWARD_RATE_MAX_THRESHOLD /\ config.min_difficulty > 1)
    BY <1>2, <1>10, ThresholdAssumption
  <2> QED
    BY <1>1, <1>3, <1>4, <2>1
<1> QED
  BY <1>9, <1>11 DEF pay, pay2, scale2, scarce, plenty

(* What a step of the loop does: that, or nothing. *)
LEMMA RetargetPay ==
  ASSUME RetargetInv, [RetargetNext]_retargetVars
  PROVE  /\ HashPay(config') <= 2 * HashPay(config)
         /\ HashPay(config) <= 2 * HashPay(config') + 4 * Pow2[HashDifficulty - config'.min_difficulty]
         /\ owed' # 0 /\ owed' <= TARGET_COAL_EPOCH_REWARDS /\ CorrectionFits =>
              HashPay(config) <= HashPay(config') + Pow2[HashDifficulty - config'.min_difficulty]
         /\ owed' >= TARGET_COAL_EPOCH_REWARDS => HashPay(config') <= HashPay(config)
         /\ owed' = 0 => HashPay(config') = HashPay(config)
<1>1. CASE config' = config
  <2> DEFINE pay == HashPay(config)
             scale == Pow2[HashDifficulty - config.min_difficulty]
  <2>1. pay \in Nat /\ scale \in Nat
    BY Scale DEF RetargetInv
  <2> HIDE DEF pay, scale
  <2>2. pay <= 2 * pay /\ pay <= 2 * pay + 4 * scale /\ pay <= pay + scale
    BY <2>1
  <2> QED
    BY <1>1, <2>1, <2>2 DEF pay, scale
<1>2. CASE /\ owed' \in Nat
           /\ config' = NextCoalRate(config, owed')
           /\ config'.min_difficulty <= HashDifficulty
  BY <1>2, EpochPay
<1> QED
  BY <1>1, <1>2, Epochs DEF retargetVars

(* The invariant of the loop, for any hash power. *)
LEMMA RetargetInvariant == RetargetSpec => []RetargetInv
  BY RetargetInitInv, RetargetStep, PTL DEF RetargetSpec

(* Whatever an epoch owed, also when the correction wraps: a reset at most *)
(* doubles and at most halves the pay of a hash, up to the rounding of the *)
(* rate, whichever way the difficulty moves.                               *)
THEOREM ResetsChangePaySlowly == RetargetSpec => PayAtMostDoublesOrHalves
<1>1. RetargetInv /\ [RetargetNext]_retargetVars =>
        [/\ HashPay(config') <= 2 * HashPay(config)
         /\ HashPay(config) <= 2 * HashPay(config') + 4 * Pow2[HashDifficulty - config'.min_difficulty]
        ]_retargetVars
  BY RetargetPay
<1>2. QED
  BY <1>1, RetargetInvariant, PTL DEF RetargetSpec, PayAtMostDoublesOrHalves

(* Scarcity never lowers the pay of a hash, as long as the correction fits *)
(* its cast, and plenty never raises it.                                   *)
THEOREM ResetsFollowScarcity == RetargetSpec => PayFollowsScarcity
<1>1. RetargetInv /\ [RetargetNext]_retargetVars =>
        [/\ owed' # 0 /\ owed' <= TARGET_COAL_EPOCH_REWARDS /\ CorrectionFits =>
              HashPay(config) <= HashPay(config') + Pow2[HashDifficulty - config'.min_difficulty]
         /\ owed' >= TARGET_COAL_EPOCH_REWARDS => HashPay(config') <= HashPay(config)
         /\ owed' = 0 => HashPay(config') = HashPay(config)
        ]_retargetVars
  BY RetargetPay
<1>2. QED
  BY <1>1, RetargetInvariant, PTL DEF RetargetSpec, PayFollowsScarcity

-----------------------------------------------------------------------------
(* Miners that stay the same: the correction is exact, since what they owe *)
(* is a multiple of the rate.  On target it is taken as it is; above, the  *)
(* rate halves, and below it doubles.                                      *)
LEMMA SteadyRate ==
  ASSUME NEW rate \in Nat, 2 <= rate, rate <= TARGET_COAL_EPOCH_REWARDS,
         NEW m \in Nat \ {0}
  PROVE  LET new == Retargeted(rate, m * rate)
             target == TARGET_COAL_EPOCH_REWARDS
         IN  /\ m * rate <= 2 * target /\ target <= 2 * (m * rate) =>
                  m * new <= target /\ target < m * new + m /\ new # 0
             /\ m * rate > 2 * target => new = rate \div 2
             /\ 2 * (m * rate) < target => new = 2 * rate
<1> DEFINE target == TARGET_COAL_EPOCH_REWARDS
           limit == BUS_COAL_EPOCH_REWARDS
           new == Retargeted(rate, m * rate)
           q == target \div m
           proportional == ProportionalRate(rate, m * rate, target)
           half == rate \div 2
           double == SatMul(rate, 2)
<1>1. /\ target \in Nat \ {0} /\ limit = target /\ target <= U64Max
      /\ SMOOTHING_FACTOR = 2 /\ U64Max \in Nat \ {0}
  BY DerivedConstants, ConstsAssumption, U64MaxPositive DEF U64
<1>2. m * rate \in Nat \ {0}
  <2>1. \A a, b \in Nat \ {0} : a * b \in Nat \ {0}
    OBVIOUS
  <2> QED
    BY <2>1
<1>3. /\ q \in Nat /\ m * q \in Nat /\ m * q <= target /\ target < m * q + m /\ q <= target
  <2> HIDE DEF target
  <2>1. q \in Nat /\ m * q <= target /\ target < m * q + m
    BY <1>1, Division
  <2> HIDE DEF q
  <2>2. m * q \in Nat
    BY <2>1
  <2>3. 1 * q <= m * q
    <3>1. \A a \in Nat \ {0}, b \in Nat : 1 * b <= a * b
      OBVIOUS
    <3> QED
      BY <2>1, <3>1
  <2> QED
    BY <1>1, <2>1, <2>2, <2>3
<1>4. (rate * target) \div (m * rate) = q
  <2> DEFINE e == (rate * target) \div (m * rate)
  <2> HIDE DEF target, q
  <2>1. rate * target \in Nat
    BY <1>1
  <2>2. e \in Nat /\ (m * rate) * e <= rate * target /\ rate * target < (m * rate) * e + m * rate
    BY <1>2, <2>1, Division
  <2> HIDE DEF e
  <2>3. \A a, b, c \in Nat : (a * b) * c = b * (a * c) /\ (a * b) * c + a * b = b * (a * c + a)
                             /\ a * c \in Nat
    OBVIOUS
  <2>4. \A b \in Nat \ {0}, x, y \in Nat : (b * x <= b * y => x <= y) /\ (b * x < b * y => x < y)
    <3> TAKE b \in Nat \ {0}, x, y \in Nat
    <3>1. x >= y + 1 => b * x >= b * (y + 1) /\ b * (y + 1) = b * y + b
      BY ProductMonotone
    <3>2. y <= x => b * y <= b * x
      BY ProductMonotone
    <3>3. b * x \in Nat /\ b * y \in Nat
      OBVIOUS
    <3>4. b * x <= b * y => x <= y
      <4>1. SUFFICES ASSUME b * x <= b * y, x >= y + 1 PROVE FALSE
        OBVIOUS
      <4> QED
        BY <3>1, <3>3, <4>1
    <3>5. b * x < b * y => x < y
      <4>1. SUFFICES ASSUME b * x < b * y, y <= x PROVE FALSE
        OBVIOUS
      <4> QED
        BY <3>2, <3>3, <4>1
    <3> QED
      BY <3>4, <3>5
  <2>5. m * e \in Nat /\ m * e <= target /\ target < m * e + m
    <3>1. (m * rate) * e = rate * (m * e) /\ (m * rate) * e + m * rate = rate * (m * e + m)
          /\ m * e \in Nat
      BY <2>2, <2>3
    <3>2. m * e + m \in Nat /\ rate \in Nat \ {0}
      BY <3>1
    <3> QED
      BY <1>1, <2>2, <2>4, <3>1, <3>2
  <2>6. m * e < m * (q + 1) /\ m * q < m * (e + 1)
    <3>1. m * (q + 1) = m * q + m /\ m * (e + 1) = m * e + m
      BY <1>3, <2>2
    <3> QED
      BY <1>1, <1>3, <2>5, <3>1
  <2>7. e < q + 1 /\ q < e + 1
    BY <1>3, <2>2, <2>4, <2>6
  <2> QED
    BY <1>3, <2>2, <2>7 DEF e
<1>5. proportional = q
  <2>1. proportional = AsU64((rate * target) \div (m * rate))
    BY DEF ProportionalRate
  <2> HIDE DEF target, q, proportional
  <2>2. proportional = AsU64(q)
    BY <1>4, <2>1
  <2>3. Pow2[U64Bits] \in Nat \ {0} /\ U64Max = Pow2[U64Bits] - 1
    BY Pow2Positive, U64BitsAssumption DEF U64Max
  <2>4. q < Pow2[U64Bits]
    BY <1>1, <1>3, <2>3
  <2>5. q % Pow2[U64Bits] = q
    BY <1>3, <2>3, <2>4
  <2> QED
    BY <2>2, <2>5 DEF AsU64
<1>6. new = Lesser(Greater(Greater(Lesser(q, double), half), 1), limit)
  <2>1. m * rate # 0
    BY <1>2
  <2> HIDE DEF q, target
  <2> QED
    BY <1>1, <1>5, <2>1 DEF Retargeted, CalculateNewRewardRate, Smoothed, target
<1>7. /\ half \in Nat /\ 2 * half <= rate /\ rate <= 2 * half + 1 /\ 1 <= half
      /\ double = Lesser(2 * rate, U64Max)
  <2>1. half \in Nat /\ 2 * half <= rate /\ rate <= 2 * half + 1
    BY Halving
  <2>2. double = Lesser(2 * rate, U64Max)
    BY DEF SatMul
  <2> HIDE DEF half
  <2> QED
    BY <2>1, <2>2
<1>12. rate <= target
  OBVIOUS
<1> HIDE DEF target, limit, new, q, proportional, half, double
<1>8. \A b \in Nat \ {0}, x, y \in Nat : x <= y => b * x <= b * y /\ b * x \in Nat /\ b * y \in Nat
  BY ProductMonotone
<1>9. ASSUME m * rate <= 2 * target, target <= 2 * (m * rate)
      PROVE  m * new <= target /\ target < m * new + m /\ new # 0
  <2>1. half <= q
    <3>1. SUFFICES ASSUME q + 1 <= half PROVE FALSE
      BY <1>3, <1>7
    <3>2. m * (q + 1) <= m * half /\ m * half \in Nat
      BY <1>3, <1>7, <1>8, <3>1
    <3>3. m * (q + 1) = m * q + m
      BY <1>3
    <3>4. m * (2 * half) <= m * rate
      BY <1>7, <1>8
    <3>5. m * (2 * half) = 2 * (m * half)
      BY <1>7
    <3> QED
      BY <1>1, <1>2, <1>3, <1>9, <3>2, <3>3, <3>4, <3>5
  <2>2. q <= 2 * rate
    <3>1. SUFFICES ASSUME 2 * rate + 1 <= q PROVE FALSE
      BY <1>3
    <3>2. m * (2 * rate + 1) <= m * q
      BY <1>3, <1>8, <3>1
    <3>3. m * (2 * rate + 1) = 2 * (m * rate) + m
      OBVIOUS
    <3> QED
      BY <1>1, <1>2, <1>3, <1>9, <3>2, <3>3
  <2>3. q <= double
    BY <1>1, <1>3, <1>7, <2>2 DEF Lesser
  <2>4. new = q /\ q # 0
    BY <1>1, <1>3, <1>6, <1>7, <2>1, <2>3 DEF Lesser, Greater
  <2> QED
    BY <1>3, <2>4
<1>10. ASSUME m * rate > 2 * target PROVE new = half
  <2>1. q <= half
    <3>1. SUFFICES ASSUME half + 1 <= q PROVE FALSE
      BY <1>3, <1>7
    <3>2. m * (half + 1) <= m * q /\ m * half \in Nat
      BY <1>3, <1>7, <1>8, <3>1
    <3>3. m * (half + 1) = m * half + m
      BY <1>7
    <3>4. m * rate <= m * (2 * half + 1)
      BY <1>7, <1>8
    <3>5. m * (2 * half + 1) = 2 * (m * half) + m
      BY <1>7
    <3> QED
      BY <1>1, <1>2, <1>3, <1>10, <3>2, <3>3, <3>4, <3>5
  <2>3. new = half
    <3>1. Lesser(q, double) <= half /\ Lesser(q, double) \in Nat
      BY <1>1, <1>3, <1>7, <2>1 DEF Lesser
    <3>2. Greater(Greater(Lesser(q, double), half), 1) = half
      BY <1>7, <3>1 DEF Greater
    <3>3. half <= limit
      BY <1>1, <1>7, <1>12
    <3> QED
      BY <1>6, <3>2, <3>3 DEF Lesser
  <2> QED
    BY <2>3
<1>11. ASSUME 2 * (m * rate) < target PROVE new = 2 * rate
  <2>1. 2 * rate <= q
    <3>1. SUFFICES ASSUME q + 1 <= 2 * rate PROVE FALSE
      BY <1>3
    <3>2. m * (q + 1) <= m * (2 * rate)
      BY <1>3, <1>8, <3>1
    <3>3. m * (q + 1) = m * q + m /\ m * (2 * rate) = 2 * (m * rate)
      BY <1>3
    <3> QED
      BY <1>1, <1>2, <1>3, <1>11, <3>2, <3>3
  <2>2. double = 2 * rate
    BY <1>1, <1>3, <1>7, <2>1 DEF Lesser
  <2> QED
    BY <1>1, <1>3, <1>6, <1>7, <2>1, <2>2 DEF Lesser, Greater
<1> QED
  BY <1>9, <1>10, <1>11 DEF new, target, half

(* What an epoch makes of the emission of steady miners: the pay of a hash *)
(* follows the new rate exactly, but for a grain of it where the rate has  *)
(* risen to the threshold above the lowest difficulty.                     *)
LEMMA SteadyStep ==
  ASSUME RetargetInv, SteadyEpoch
  PROVE  /\ OnTarget => OnTarget'
         /\ Owing > 2 * TARGET_COAL_EPOCH_REWARDS =>
              2 * Owing' <= Owing /\ 2 * Owing' >= TARGET_COAL_EPOCH_REWARDS
         /\ 2 * Owing < TARGET_COAL_EPOCH_REWARDS => Owing' = 2 * Owing
<1> DEFINE rate == config.base_reward_rate
           scale == Pow2[HashDifficulty - config.min_difficulty]
           pay2 == HashPay(config')
           m == hashes * scale
           new == Retargeted(rate, m * rate)
           target == TARGET_COAL_EPOCH_REWARDS
           MAX == BASE_COAL_REWARD_RATE_MAX_THRESHOLD
<1>1. /\ hashes \in Nat /\ scale \in Nat \ {0} /\ target \in Nat \ {0}
      /\ rate \in Nat /\ 2 <= rate /\ rate <= target
      /\ MAX \in Nat /\ 4 < MAX
      /\ config.min_difficulty > 1 => rate < MAX
  <2>1. scale \in Nat \ {0}
    BY Scale DEF RetargetInv
  <2>2. /\ rate \in Nat /\ rate >= BASE_COAL_REWARD_RATE_MIN_THRESHOLD /\ rate <= target
        /\ config.min_difficulty > 1 => rate < MAX
    BY DerivedConstants DEF RetargetInv, InBand
  <2>3. BASE_COAL_REWARD_RATE_MIN_THRESHOLD >= 2 /\ MAX \in Nat /\ 4 < MAX
        /\ BASE_COAL_REWARD_RATE_MIN_THRESHOLD \in Nat
    <3>1. \A a \in Nat \ {0} : a % 2 = 0 => a >= 2
      OBVIOUS
    <3>2. BASE_COAL_REWARD_RATE_MIN_THRESHOLD >= 2
      BY <3>1, ThresholdAssumption
    <3> QED
      BY <3>2, ThresholdAssumption
  <2> HIDE DEF scale, rate, target, MAX
  <2>4. 2 <= rate
    BY <2>2, <2>3
  <2> QED
    BY <2>1, <2>2, <2>3, <2>4, DerivedConstants DEF target, RetargetInv
<1>2. Owing = m * rate /\ m \in Nat /\ hashes * HashPay(config) = m * rate
  <2>1. HashPay(config) = rate * scale
    BY DEF HashPay
  <2>2. \A a, b, c \in Nat : a * (b * c) = (a * c) * b /\ a * c \in Nat
    OBVIOUS
  <2> HIDE DEF rate, scale
  <2> QED
    BY <1>1, <2>1, <2>2 DEF Owing
<1>3. config' = NextCoalRate(config, m * rate) /\ config'.min_difficulty <= HashDifficulty
      /\ hashes' = hashes
  BY <1>2 DEF SteadyEpoch, EpochOwing
<1>4. Owing' = hashes * pay2
  BY <1>3 DEF Owing, HashPay
<1>5. m * rate \in Nat
  <2> HIDE DEF m, rate
  <2> QED
    BY <1>1, <1>2
<1>6. /\ pay2 \in Nat /\ new \in Nat
      /\ \/ pay2 = new * scale
         \/ /\ new >= MAX /\ config.min_difficulty > 1
            /\ pay2 = (2 * (new \div 2)) * scale
  <2>1. InBand(config) /\ config.min_difficulty <= HashDifficulty
    BY DEF RetargetInv
  <2>2. NextCoalRate(config, m * rate).min_difficulty <= HashDifficulty
    BY <1>3
  <2> HIDE DEF m
  <2>3. m * rate \in Nat
    BY <1>5
  <2> QED
    BY <1>3, <2>1, <2>2, <2>3, NotchCancels
<1>7. CASE hashes = 0
  <2>1. Owing = 0 /\ Owing' = 0
    <3> HIDE DEF scale, pay2, rate
    <3>1. \A a \in Nat : 0 * a = 0
      OBVIOUS
    <3> QED
      BY <1>1, <1>2, <1>4, <1>6, <1>7, <3>1
  <2>2. OnTarget'
    BY <1>3, <1>7 DEF OnTarget
  <2> QED
    BY <1>1, <2>1, <2>2
<1>8. CASE hashes # 0
  <2>1. m \in Nat \ {0}
    <3>1. \A a, b \in Nat \ {0} : a * b \in Nat \ {0}
      OBVIOUS
    <3> HIDE DEF scale
    <3> QED
      BY <1>1, <1>8, <3>1
  <2>2. /\ m * rate <= 2 * target /\ target <= 2 * (m * rate) =>
             m * new <= target /\ target < m * new + m /\ new # 0
        /\ m * rate > 2 * target => new = rate \div 2
        /\ 2 * (m * rate) < target => new = 2 * rate
    <3> HIDE DEF m, rate
    <3> QED
      BY <1>1, <2>1, SteadyRate DEF target
  <2>3. /\ m * new \in Nat /\ new \div 2 \in Nat
        /\ \/ Owing' = m * new
           \/ /\ new >= MAX /\ config.min_difficulty > 1
              /\ Owing' = m * (2 * (new \div 2))
    <3>1. \A a, b, c \in Nat : a * (b * c) = (a * c) * b
      OBVIOUS
    <3>2. new \div 2 \in Nat /\ 2 * (new \div 2) \in Nat
      BY <1>6, Halving
    <3> HIDE DEF new, scale, pay2
    <3> QED
      BY <1>1, <1>4, <1>6, <2>1, <3>1, <3>2
  <2> HIDE DEF m, rate, new, scale, pay2, target, MAX
  <2>4. /\ OnTarget <=> (Owing <= 2 * target /\ 2 * Owing >= target)
        /\ OnTarget' <=> (Owing' <= 2 * target /\ 2 * Owing' >= target)
    BY <1>3, <1>8 DEF OnTarget, target
  <2>5. \A a, b \in Nat : a <= b => m * a <= m * b /\ m * a \in Nat /\ m * b \in Nat
    BY <2>1, ProductMonotone
  <2>6. \A a \in Nat : m * (2 * a) = 2 * (m * a) /\ m * (a + 1) = m * a + m /\ m * (3 * a) = 3 * (m * a)
    BY <2>1
  <2>7. OnTarget => OnTarget'
    <3> SUFFICES ASSUME m * rate <= 2 * target, target <= 2 * (m * rate)
                 PROVE  Owing' <= 2 * target /\ 2 * Owing' >= target
      BY <1>1, <1>2, <1>5, <2>4
    <3>1. m * new <= target /\ target < m * new + m /\ new \in Nat \ {0}
      BY <1>6, <2>2
    <3>2. m * 1 <= m * new /\ m * 1 = m
      BY <2>1, <2>5, <3>1
    <3>3. CASE Owing' = m * new
      BY <1>1, <2>1, <2>3, <3>1, <3>2, <3>3
    <3>4. CASE new >= MAX /\ Owing' = m * (2 * (new \div 2))
      <4> DEFINE even == 2 * (new \div 2)
      <4>1. even \in Nat /\ even <= new /\ new <= even + 1
        BY <3>1, Halving
      <4> HIDE DEF even
      <4>2. 2 <= even
        BY <1>1, <3>1, <3>4, <4>1
      <4>3. m * even <= m * new /\ m * new <= m * (even + 1) /\ m * 2 <= m * even
        BY <2>5, <3>1, <4>1, <4>2
      <4>4. m * (even + 1) = m * even + m /\ m * 2 = m + m /\ m * even \in Nat
        BY <2>1, <4>1
      <4>5. Owing' = m * even
        BY <3>4 DEF even
      <4> QED
        BY <1>1, <2>1, <2>3, <3>1, <4>3, <4>4, <4>5
    <3> QED
      BY <2>3, <3>3, <3>4
  <2>8. Owing > 2 * target => 2 * Owing' <= Owing /\ 2 * Owing' >= target
    <3> SUFFICES ASSUME m * rate > 2 * target
                 PROVE  2 * Owing' <= m * rate /\ 2 * Owing' >= target
      BY <1>2
    <3>1. new = rate \div 2
      BY <2>2
    <3>2. 2 * new <= rate /\ rate <= 3 * new /\ new <= rate
      <4>1. 2 * new <= rate /\ rate <= 2 * new + 1
        BY <1>1, <3>1, Halving
      <4> QED
        BY <1>1, <1>6, <4>1
    <3>3. Owing' = m * new
      <4>1. ~(new >= MAX /\ config.min_difficulty > 1)
        BY <1>1, <1>6, <3>2
      <4> QED
        BY <2>3, <4>1
    <3>4. 2 * (m * new) <= m * rate /\ m * rate <= 3 * (m * new)
      <4>1. m * (2 * new) <= m * rate /\ m * rate <= m * (3 * new)
        BY <1>1, <1>6, <2>5, <3>2
      <4> QED
        BY <1>6, <2>6, <4>1
    <3> QED
      BY <1>1, <1>5, <2>3, <3>3, <3>4
  <2>9. 2 * Owing < target => Owing' = 2 * Owing
    <3> SUFFICES ASSUME 2 * (m * rate) < target
                 PROVE  Owing' = 2 * (m * rate)
      BY <1>2
    <3>1. new = 2 * rate
      BY <2>2
    <3>2. 2 * (new \div 2) = new
      BY <1>1, <3>1
    <3>3. Owing' = m * new
      BY <2>3, <3>2
    <3> QED
      BY <1>1, <2>6, <3>1, <3>3
  <2> QED
    BY <2>7, <2>8, <2>9 DEF target
<1> QED
  BY <1>1, <1>7, <1>8

(* With steady miners every reset brings the emission nearer to its target *)
(* and keeps it there, for every hash power, rate, difficulty and width:   *)
(* the safety part of the settling that TLC checks.                        *)
THEOREM SteadyEmissionApproaches == RetargetSpec => EmissionApproaches
<1>1. ASSUME RetargetInv, [RetargetNext]_retargetVars
      PROVE  [steady =>
                /\ OnTarget => OnTarget'
                /\ Owing > 2 * TARGET_COAL_EPOCH_REWARDS =>
                     2 * Owing' <= Owing /\ 2 * Owing' >= TARGET_COAL_EPOCH_REWARDS
                /\ 2 * Owing < TARGET_COAL_EPOCH_REWARDS => Owing' = 2 * Owing
             ]_retargetVars
  <2>1. CASE UNCHANGED retargetVars
    BY <2>1
  <2>2. CASE AnyEpoch \/ BecomeSteady
    <3>1. ~steady
      BY <2>2 DEF AnyEpoch, BecomeSteady
    <3> QED
      BY <3>1
  <2>3. CASE SteadyEpoch
    BY <1>1, <2>3, SteadyStep
  <2> QED
    BY <1>1, <2>1, <2>2, <2>3 DEF RetargetNext
<1>2. QED
  BY <1>1, RetargetInvariant, PTL DEF RetargetSpec, EmissionApproaches
=============================================================================
