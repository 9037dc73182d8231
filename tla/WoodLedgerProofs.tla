-------------------------- MODULE WoodLedgerProofs --------------------------
(***************************************************************************)
(* Proofs about the wood ledger, for every value of the constants.         *)
(*                                                                         *)
(* WoodInv is inductive.  A reset mints what the config and the buses say  *)
(* was mined, and that this is what miners are owed (WoodBacking) needs    *)
(* PoolAddsUp, which needs that the buses never hold more than the program *)
(* can add up (WoodBusBound) and that no hash is accepted before the first *)
(* reset (ResetsAreLate): the config then knows no pool yet.               *)
(***************************************************************************)
EXTENDS WoodLedger, RewardTheorems, ToolsProofs

WoodBusBound == \A b \in Buses : bus[b].rewards <= MAX_WOOD_EPOCH_REWARDS

(* The clock of the cluster is far from zero, which is what the config     *)
(* starts with: the first epoch begins with a reset.                       *)
ResetsAreLate ==
  /\ clock >= WOOD_EPOCH_DURATION
  /\ config.last_reset_at = 0 \/ config.last_reset_at >= WOOD_EPOCH_DURATION

WoodInv ==
  /\ WoodTypeOK /\ CustodyMatches
  /\ WoodBusBound /\ ResetsAreLate
  /\ WoodBacking /\ PoolAddsUp /\ WoodRateBand

(* The derived constants: an epoch takes time, and full buses hold no more *)
(* than a u64.                                                             *)
LEMMA WoodConstants ==
  /\ BUS_COUNT \in Nat \ {0} /\ BUS_COUNT = Cardinality(Buses)
  /\ WOOD_EPOCH_DURATION \in Nat \ {0}
  /\ MIN_WOOD_EPOCH_REWARDS \in Nat \ {0} /\ MAX_WOOD_EPOCH_REWARDS \in U64
  /\ MIN_WOOD_EPOCH_REWARDS <= MAX_WOOD_EPOCH_REWARDS
  /\ MAX_WOOD_EPOCH_REWARDS * BUS_COUNT <= U64Max
  /\ BASE_WOOD_REWARD_RATE_MIN_THRESHOLD \in U64
<1>1. BUS_COUNT \in Nat \ {0} /\ BUS_COUNT = Cardinality(Buses)
  BY DerivedConstants DEF BUS_COUNT
<1>2. WOOD_EPOCH_DURATION \in Nat \ {0}
  BY ConstsAssumption DEF WOOD_EPOCH_DURATION
<1> DEFINE M == MAX_WOOD_EPOCH_REWARDS
<1>3. /\ MIN_WOOD_EPOCH_REWARDS \in Nat \ {0} /\ M \in Nat
      /\ MIN_WOOD_EPOCH_REWARDS <= M
  BY WoodConstsAssumption
<1>4. M * BUS_COUNT <= U64Max /\ M <= M * BUS_COUNT /\ M * BUS_COUNT \in Nat
  <2>1. 2 * BUS_COUNT * M \in U64
    BY WoodConstsAssumption
  <2>2. \A n \in Nat \ {0}, m \in Nat :
          m * n \in Nat /\ m <= m * n /\ 2 * n * m = m * n + m * n
    <3>1. \A n \in Nat, m \in Nat : m * (n + 1) = m * n + m /\ m * n \in Nat
      OBVIOUS
    <3>2. ASSUME NEW n \in Nat \ {0}, NEW m \in Nat PROVE m <= m * n
      <4>1. m * 1 <= m * n
        BY <3>2, ProductMonotone
      <4> QED
        BY <4>1
    <3> QED
      BY <3>2
  <2> HIDE DEF M
  <2> QED
    BY <1>1, <1>3, <2>1, <2>2, U64MaxPositive DEF U64
<1>5. M \in U64
  BY <1>3, <1>4, U64MaxPositive DEF U64
<1>6. BASE_WOOD_REWARD_RATE_MIN_THRESHOLD \in U64
  BY WoodConstsAssumption, U64MaxPositive DEF U64
<1> QED
  BY <1>1, <1>2, <1>3, <1>4, <1>5, <1>6

(* The sums of the ledger are naturals. *)
LEMMA WoodSumsType ==
  ASSUME WoodTypeOK
  PROVE  /\ BusRewards \in Nat /\ Balances \in Nat
         /\ \A b \in Buses : bus[b].rewards \in Nat /\ bus[b].theoretical_rewards \in Nat
         /\ \A a \in Authorities : BalanceOf(a) \in Nat
<1>1. \A b \in Buses : bus[b].rewards \in Nat /\ bus[b].theoretical_rewards \in Nat
  BY U64MaxPositive DEF WoodTypeOK, WoodBus
<1>2. \A a \in Authorities : BalanceOf(a) \in Nat
  BY U64MaxPositive DEF WoodTypeOK, ProofV2, BalanceOf
<1>3. BusRewards \in Nat
  BY <1>1, ConstsAssumption, SumOverNat DEF BusRewards
<1>4. Balances \in Nat
  BY <1>2, WoodLedgerAssumption, SumOverNat DEF Balances
<1> QED
  BY <1>1, <1>2, <1>3, <1>4

(* What the buses hold fits a u64, so that a reset adds it up exactly.     *)
LEMMA RemainingIsExact ==
  ASSUME WoodTypeOK, WoodBusBound
  PROVE  BusRewards <= U64Max /\ TotalRemainingRewards = BusRewards
<1> DEFINE f == [b \in Buses |-> bus[b].rewards]
           g == [b \in Buses |-> MAX_WOOD_EPOCH_REWARDS]
<1>1. IsFiniteSet(Buses) /\ MAX_WOOD_EPOCH_REWARDS \in Nat
  BY ConstsAssumption, WoodConstants, U64MaxPositive
<1>2. \A b \in Buses : f[b] \in Int /\ g[b] \in Int /\ f[b] <= g[b]
  BY <1>1, WoodSumsType DEF WoodBusBound
<1>3. SumOver(f, Buses) <= SumOver(g, Buses)
  <2> HIDE DEF f, g
  <2> QED
    BY <1>1, <1>2, SumOverMonotone
<1>4. SumOver(g, Buses) = MAX_WOOD_EPOCH_REWARDS * BUS_COUNT
  <2>1. \A b \in Buses : g[b] = MAX_WOOD_EPOCH_REWARDS
    OBVIOUS
  <2> HIDE DEF g
  <2> QED
    BY <1>1, <2>1, SumOverConstant DEF BUS_COUNT
<1>5. BusRewards <= U64Max
  <2>1. MAX_WOOD_EPOCH_REWARDS * BUS_COUNT \in Nat /\ BusRewards \in Nat /\ U64Max \in Nat
    BY <1>1, WoodConstants, WoodSumsType, U64MaxPositive
  <2>2. BusRewards = SumOver(f, Buses)
    BY DEF BusRewards
  <2> HIDE DEF f, g
  <2> QED
    BY <1>3, <1>4, <2>1, <2>2, WoodConstants
<1> QED
  BY <1>5 DEF TotalRemainingRewards, Lesser

(* What a reset mints is what was mined since the last one. *)
LEMMA MintsWhatWasMined ==
  ASSUME WoodInv
  PROVE  TotalEpochRewards = unminted /\ PropagationRate \in Nat \ {0}
<1> USE DEF WoodInv
<1>1. BusRewards \in Nat /\ unminted \in Nat /\ TotalRemainingRewards = BusRewards
  BY WoodSumsType, RemainingIsExact DEF WoodTypeOK
<1>2. TotalEpochRewards = unminted
  BY <1>1 DEF PoolAddsUp, TotalEpochRewards, SatSub
<1>3. PropagationRate \in Nat \ {0}
  BY WoodConstsAssumption DEF PropagationRate
<1> QED
  BY <1>2, <1>3

(* The next pool: every bus is refilled within its limits, and the config  *)
(* records exactly what the buses then hold.                               *)
LEMMA NextPool ==
  ASSUME WoodInv
  PROVE  /\ \A b \in Buses : /\ NextBusRewards(b) \in Nat
                             /\ MIN_WOOD_EPOCH_REWARDS <= NextBusRewards(b)
                             /\ NextBusRewards(b) <= MAX_WOOD_EPOCH_REWARDS
         /\ NextEpochRewards = SumOver([b \in Buses |-> NextBusRewards(b)], Buses)
         /\ NextEpochRewards \in U64
         /\ TargetRewards \in Nat \ {0} /\ TargetRewards <= MAX_WOOD_EPOCH_REWARDS
<1> USE DEF WoodInv
<1> DEFINE low == MIN_WOOD_EPOCH_REWARDS
           high == MAX_WOOD_EPOCH_REWARDS
           f == [b \in Buses |-> NextBusRewards(b)]
           lows == [b \in Buses |-> low]
           highs == [b \in Buses |-> high]
<1>1. IsFiniteSet(Buses) /\ low \in Nat \ {0} /\ high \in Nat /\ low <= high
      /\ BUS_COUNT \in Nat \ {0} /\ high * BUS_COUNT <= U64Max /\ U64Max \in Nat
  BY ConstsAssumption, WoodConstants, U64MaxPositive
<1>2. ASSUME NEW b \in Buses
      PROVE  NextBusRewards(b) \in Nat /\ low <= NextBusRewards(b) /\ NextBusRewards(b) <= high
  <2>1. /\ TotalRemainingRewards \div BUS_COUNT \in Nat
        /\ bus[b].rewards \div PropagationRate \in Nat
    <3>1. TotalRemainingRewards \in Nat /\ bus[b].rewards \in Nat
      BY WoodSumsType, RemainingIsExact
    <3> QED
      BY <1>1, <3>1, MintsWhatWasMined, Division
  <2>2. SatAdd(TotalRemainingRewards \div BUS_COUNT, bus[b].rewards \div PropagationRate) \in Nat
    BY <1>1, <2>1 DEF SatAdd, Lesser
  <2> QED
    BY <1>1, <2>2 DEF NextBusRewards, Lesser, Greater
<1>3. \A b \in Buses : f[b] \in Nat /\ low <= f[b] /\ f[b] <= high
  BY <1>2
<1>4. \A b \in Buses : lows[b] = low /\ highs[b] = high
  OBVIOUS
<1>5. SumOver(lows, Buses) = low * BUS_COUNT /\ SumOver(highs, Buses) = high * BUS_COUNT
  <2> HIDE DEF lows, highs, low, high
  <2> QED
    BY <1>1, <1>4, SumOverConstant DEF BUS_COUNT
<1>6. SumOver(f, Buses) \in Nat
  <2> HIDE DEF f
  <2> QED
    BY <1>1, <1>3, SumOverNat
<1>7. SumOver(f, Buses) <= SumOver(highs, Buses)
  <2> HIDE DEF f, highs, low, high
  <2> QED
    BY <1>1, <1>3, <1>4, SumOverMonotone
<1>8. SumOver(lows, Buses) <= SumOver(f, Buses)
  <2> HIDE DEF f, lows, low, high
  <2> QED
    BY <1>1, <1>3, <1>4, SumOverMonotone
<1> DEFINE total == SumOver(f, Buses)
<1>9. /\ total \in Nat /\ low * BUS_COUNT <= total /\ total <= high * BUS_COUNT
      /\ total <= U64Max
  <2>1. high * BUS_COUNT \in Nat /\ low * BUS_COUNT \in Nat
    BY <1>1
  <2> HIDE DEF f, lows, highs, low, high
  <2> QED
    BY <1>1, <1>5, <1>6, <1>7, <1>8, <2>1
<1>10. NextEpochRewards = total
  BY <1>9 DEF NextEpochRewards, Lesser
<1> HIDE DEF total, low, high
<1>11. NextEpochRewards \in U64
  BY <1>1, <1>9, <1>10, U64MaxPositive DEF U64
<1>12. total \div BUS_COUNT \in Nat \ {0} /\ total \div BUS_COUNT <= high
  <2>1. total \div BUS_COUNT \in Nat /\ total < BUS_COUNT * (total \div BUS_COUNT) + BUS_COUNT
    BY <1>1, <1>9, Division
  <2>2. BUS_COUNT * high = high * BUS_COUNT
    BY <1>1
  <2>3. total \div BUS_COUNT <= high
    BY <1>1, <1>9, <2>2, QuotientBound
  <2>4. total \div BUS_COUNT # 0
    <3>1. SUFFICES ASSUME total \div BUS_COUNT = 0 PROVE FALSE
      OBVIOUS
    <3>2. total < BUS_COUNT
      BY <1>1, <2>1, <3>1
    <3>3. BUS_COUNT * 1 <= BUS_COUNT * low /\ BUS_COUNT * low = low * BUS_COUNT
      BY <1>1, ProductMonotone
    <3>4. low * BUS_COUNT \in Nat
      BY <1>1
    <3> QED
      BY <1>1, <1>9, <3>2, <3>3, <3>4
  <2> QED
    BY <2>1, <2>3, <2>4
<1> QED
  BY <1>2, <1>10, <1>11, <1>12 DEF total, low, high, TargetRewards

(* A reset keeps the rate positive and a u64, and below the upper          *)
(* threshold unless the difficulty is at its lowest.                       *)
LEMMA NextWoodRateFacts ==
  ASSUME WoodInv
  PROVE  /\ NextWoodRate.min_difficulty \in Nat \ {0}
         /\ NextWoodRate.base_reward_rate \in U64
         /\ NextWoodRate.base_reward_rate >= 1
         /\ NextWoodRate.min_difficulty > 1 =>
              NextWoodRate.base_reward_rate < BASE_WOOD_REWARD_RATE_MAX_THRESHOLD
<1> USE DEF WoodInv
<1> DEFINE rate == config.base_reward_rate
           owed == TotalTheoreticalRewards
           MIN == BASE_WOOD_REWARD_RATE_MIN_THRESHOLD
           MAX == BASE_WOOD_REWARD_RATE_MAX_THRESHOLD
           calculated == CalculateNewRewardRate(rate, owed, TargetRewards, TargetRewards,
                           WOOD_DECREMENTAL_SMOOTHING_FACTOR, SMOOTHING_FACTOR)
           new == IF TotalEpochRewards > 0 THEN calculated ELSE rate
<1>1. /\ rate \in Nat \ {0} /\ rate <= U64Max
      /\ config.min_difficulty \in Nat \ {0}
      /\ config.min_difficulty > 1 => rate < MAX
  BY U64MaxPositive DEF WoodTypeOK, WoodConfig, WoodRateBand, U64
<1>2. owed \in Nat
  <2>1. SumOver([b \in Buses |-> bus[b].theoretical_rewards], Buses) \in Nat
    BY ConstsAssumption, WoodSumsType, SumOverNat
  <2> QED
    BY <2>1, U64MaxPositive DEF TotalTheoreticalRewards, Lesser
<1>3. /\ MIN \in Nat \ {0} /\ MAX \in Nat /\ MAX <= U64Max /\ 2 * MIN < MAX
      /\ WOOD_DECREMENTAL_SMOOTHING_FACTOR \in Nat \ {0} /\ U64Max \in Nat
      /\ TargetRewards \in Nat \ {0} /\ TargetRewards <= U64Max
  BY WoodConstsAssumption, WoodConstants, NextPool, U64MaxPositive DEF U64
<1>4. /\ calculated \in Nat \ {0} /\ calculated <= 2 * rate + 1
      /\ calculated <= U64Max
  <2>1. /\ calculated \in Nat /\ calculated <= 2 * rate + 1
        /\ owed = 0 => calculated = rate
        /\ owed # 0 => 1 <= calculated /\ calculated <= TargetRewards
    BY <1>1, <1>2, <1>3, SmoothedRateFacts
  <2> HIDE DEF calculated, rate, owed
  <2> QED
    BY <1>1, <1>3, <2>1
<1> HIDE DEF calculated
<1>5. new \in Nat \ {0} /\ new <= 2 * rate + 1 /\ new <= U64Max
  BY <1>1, <1>3, <1>4
<1>6. NextWoodRate = AdjustedDifficulty(new, config.min_difficulty, MIN, MAX)
  BY DEF NextWoodRate, calculated
<1> DEFINE r == AdjustedDifficulty(new, config.min_difficulty, MIN, MAX)
<1> HIDE DEF new, MIN, MAX
<1>7. /\ r.min_difficulty \in Nat \ {0} /\ r.base_reward_rate \in Nat \ {0}
      /\ r.min_difficulty > 1 => r.base_reward_rate < MAX
      /\ r.base_reward_rate <= new \/ r.base_reward_rate < MAX
  BY <1>1, <1>3, <1>5, AdjustedDifficultyFacts
<1> HIDE DEF r
<1>8. r.base_reward_rate <= U64Max
  BY <1>3, <1>5, <1>7
<1> QED
  BY <1>3, <1>6, <1>7, <1>8 DEF r, MAX, U64

(* An accepted wood hash: it is paid no more than its bus holds, the       *)
(* counters it raises stay in their width, and what it charges its tool is *)
(* within the tool's durability and within the pay.                        *)
LEMMA ChopOutcomeFacts ==
  ASSUME NEW cfg, NEW p, p.last_hash_at \in Nat, NEW b, b.rewards \in U64,
         NEW tl, tl.durability \in Nat, tl.multiplier \in Nat,
         NEW d, NEW t \in Nat, ~ChopOutcome(cfg, p, b, tl, d, t).panics
  PROVE  LET out == ChopOutcome(cfg, p, b, tl, d, t)
         IN  /\ out.reward \in Nat /\ out.reward_actual \in Nat /\ out.durability \in Nat
             /\ out.reward_actual <= b.rewards
             /\ p.balance + out.reward_actual \in U64
             /\ b.theoretical_rewards + out.reward \in U64
             /\ out.durability <= tl.durability
             /\ out.durability <= out.reward_actual
<1> DEFINE base == BaseReward(cfg, d)
           staked == WithWoodStaking(cfg, p, base, t)
           timely == WithWoodLivenessPenalty(p, staked, t)
           tool_reward == ToolReward(tl, timely)
           reward == timely + tool_reward
           actual == WoodPayout(b, reward)
           charge == DurabilityCharge(b, timely, tool_reward)
           out == ChopOutcome(cfg, p, b, tl, d, t)
<1>1. /\ out.reward = reward /\ out.reward_actual = actual /\ out.durability = charge
      /\ staked \in U64
      /\ p.balance + actual \in U64
      /\ b.theoretical_rewards + reward \in U64
  BY DEF ChopOutcome
<1>2. timely \in Nat
  <2>1. TargetTime(p) \in Nat /\ WOOD_LIVENESS_TOLERANCE \in Nat
    BY ConstsAssumption, WoodConstsAssumption DEF TargetTime
  <2>2. t > TargetTime(p) + WOOD_LIVENESS_TOLERANCE => t >= TargetTime(p)
    BY <2>1
  <2>3. staked \in Nat
    <3> HIDE DEF staked
    <3> QED
      BY <1>1, U64MaxPositive
  <2> HIDE DEF staked
  <2> QED
    BY <2>2, <2>3, PenalizedType DEF WithWoodLivenessPenalty
<1>3. tool_reward \in Nat /\ tool_reward <= tl.durability
  <2> HIDE DEF timely
  <2> QED
    BY <1>2, ToolRewardType
<1>4. b.rewards \in Nat
  BY U64MaxPositive
<1> HIDE DEF timely, tool_reward, out
<1>5. reward \in Nat /\ tool_reward <= reward /\ timely <= reward
  BY <1>2, <1>3
<1>6. /\ actual \in Nat /\ actual <= b.rewards
      /\ actual = reward \/ actual = b.rewards
  <2> HIDE DEF reward
  <2> QED
    BY <1>4, <1>5 DEF WoodPayout, Lesser
<1>7. charge \in Nat /\ charge <= tool_reward /\ charge <= b.rewards
  BY <1>2, <1>3, <1>4 DEF DurabilityCharge, SatSub, Lesser
<1> HIDE DEF reward, actual, charge
<1>8. charge <= actual /\ charge <= tl.durability
  BY <1>3, <1>4, <1>5, <1>6, <1>7
<1> QED
  BY <1>1, <1>5, <1>6, <1>7, <1>8 DEF out

(* The balances when at most one of them changes. *)
LEMMA BalancesChange ==
  ASSUME NEW c \in Authorities,
         \A a \in Authorities : BalanceOf(a) \in Nat /\ BalanceOf(a)' \in Nat,
         \A a \in Authorities \ {c} : BalanceOf(a)' = BalanceOf(a)
  PROVE  Balances' = Balances - BalanceOf(c) + BalanceOf(c)'
<1> DEFINE f == [a \in Authorities |-> BalanceOf(a)]
           g == [a \in Authorities |-> BalanceOf(a)']
<1>1. IsFiniteSet(Authorities)
  BY WoodLedgerAssumption
<1>2. /\ \A a \in Authorities : f[a] \in Int /\ g[a] \in Int
      /\ \A a \in Authorities \ {c} : f[a] = g[a]
      /\ f[c] = BalanceOf(c) /\ g[c] = BalanceOf(c)'
  OBVIOUS
<1>3. SumOver(g, Authorities) = SumOver(f, Authorities) - f[c] + g[c]
  <2> HIDE DEF f, g
  <2> QED
    BY <1>1, <1>2, SumOverChangeOne
<1>4. Balances = SumOver(f, Authorities) /\ Balances' = SumOver(g, Authorities)
  BY DEF Balances
<1> QED
  BY <1>2, <1>3, <1>4

(* The pool when one bus changes. *)
LEMMA BusRewardsChange ==
  ASSUME NEW c \in Buses,
         \A b \in Buses : bus[b].rewards \in Nat /\ bus'[b].rewards \in Nat,
         \A b \in Buses \ {c} : bus'[b].rewards = bus[b].rewards
  PROVE  BusRewards' = BusRewards - bus[c].rewards + bus'[c].rewards
<1> DEFINE f == [b \in Buses |-> bus[b].rewards]
           g == [b \in Buses |-> bus'[b].rewards]
<1>1. IsFiniteSet(Buses)
  BY ConstsAssumption
<1>2. f[c] = bus[c].rewards /\ g[c] = bus'[c].rewards
  OBVIOUS
<1>3. \A b \in Buses : f[b] \in Int /\ g[b] \in Int
  OBVIOUS
<1>4. \A b \in Buses \ {c} : f[b] = g[b]
  OBVIOUS
<1>5. SumOver(g, Buses) = SumOver(f, Buses) - f[c] + g[c]
  <2> HIDE DEF f, g
  <2> QED
    BY <1>1, <1>3, <1>4, SumOverChangeOne
<1>6. BusRewards = SumOver(f, Buses) /\ BusRewards' = SumOver(g, Buses)
  BY DEF BusRewards
<1> QED
  BY <1>2, <1>5, <1>6

(* What a step leaves alone keeps its facts. *)
LEMMA BusUnchanged ==
  ASSUME bus' = bus
  PROVE  BusRewards' = BusRewards /\ (WoodBusBound => WoodBusBound')
  BY DEF BusRewards, WoodBusBound

(* The same, of the balances. *)
LEMMA BalancesUnchanged ==
  ASSUME \A a \in Authorities : BalanceOf(a)' = BalanceOf(a)
  PROVE  Balances' = Balances
<1>1. [a \in Authorities |-> BalanceOf(a)'] = [a \in Authorities |-> BalanceOf(a)]
  OBVIOUS
<1> QED
  BY <1>1 DEF Balances

(* The same, of the tools. *)
LEMMA ToolsUnchanged ==
  ASSUME toolVars' = toolVars
  PROVE  (ToolTypeOK => ToolTypeOK') /\ (CustodyMatches => CustodyMatches')
  BY DEF toolVars, ToolTypeOK, CustodyMatches

(* The same, of the config, the buses, the clock and what is unminted: the *)
(* parts of the invariant that do not speak of balances and tokens.        *)
LEMMA EpochUnchanged ==
  ASSUME WoodInv, UNCHANGED <<clock, config, bus, unminted>>
  PROVE  WoodBusBound' /\ ResetsAreLate' /\ PoolAddsUp' /\ WoodRateBand'
  BY BusUnchanged DEF WoodInv, ResetsAreLate, PoolAddsUp, WoodRateBand
-----------------------------------------------------------------------------
(* One lemma per action: WoodInv is preserved. *)

(* Opening a proof preserves the invariant: the new balance is zero. *)
LEMMA OpenStep ==
  ASSUME WoodInv, NEW a \in Authorities, NEW m \in Miners, OpenWood(a, m)
  PROVE  WoodInv'
<1> USE DEF WoodInv
<1>1. /\ DOMAIN proof' = DOMAIN proof \cup {a}
      /\ a \notin DOMAIN proof
      /\ \A c \in DOMAIN proof : proof'[c] = proof[c]
      /\ proof'[a] = [miner |-> m, balance |-> 0, last_hash_at |-> clock,
                      last_stake_at |-> clock, total_hashes |-> 0, total_rewards |-> 0]
  BY DEF OpenWood
<1>2. WoodTypeOK'
  <2>1. proof'[a] \in ProofV2
    BY <1>1, U64MaxPositive DEF ProofV2, U64, WoodTypeOK
  <2>2. DOMAIN proof' \subseteq Authorities /\ proof' \in [DOMAIN proof' -> ProofV2]
    BY <1>1, <2>1 DEF WoodTypeOK, OpenWood
  <2>3. paid' \in [Authorities -> Nat]
    BY DEF WoodTypeOK, OpenWood
  <2>4. ToolTypeOK'
    BY ToolsUnchanged DEF WoodTypeOK, OpenWood
  <2> QED
    BY <2>2, <2>3, <2>4 DEF WoodTypeOK, OpenWood
<1>3. \A c \in Authorities : BalanceOf(c)' = BalanceOf(c)
  BY <1>1 DEF BalanceOf
<1>4. Balances' = Balances
  BY <1>3, BalancesUnchanged
<1> QED
  BY <1>2, <1>4, EpochUnchanged, ToolsUnchanged DEF OpenWood, WoodBacking

(* Claiming preserves it: the balance and the treasury fall together, or   *)
(* the claim is a donation.                                                *)
LEMMA ClaimStep ==
  ASSUME WoodInv, NEW a \in Authorities, NEW amount \in U64, ClaimWood(a, amount)
  PROVE  WoodInv'
<1> USE DEF WoodInv
<1>1. /\ a \in DOMAIN proof /\ proof[a] \in ProofV2
      /\ amount <= proof[a].balance /\ amount <= treasury
      /\ DOMAIN proof' = DOMAIN proof
      /\ \A c \in DOMAIN proof \ {a} : proof'[c] = proof[c]
      /\ proof'[a] = [proof[a] EXCEPT !.balance = @ - amount]
  BY DEF ClaimWood, WoodTypeOK
<1>2. /\ amount \in Nat /\ treasury \in Nat /\ circulating \in Nat /\ donated \in Nat
      /\ supply \in Nat /\ supply <= U64Max /\ unminted \in Nat
      /\ proof[a].balance \in U64 /\ proof[a].balance \in Nat
  BY <1>1, U64MaxPositive DEF WoodTypeOK, ProofV2, U64
<1>3. /\ proof[a].balance - amount \in U64
      /\ proof'[a].balance = proof[a].balance - amount
      /\ proof'[a] \in ProofV2
  BY <1>1, <1>2, U64MaxPositive DEF ProofV2, U64
<1>4. \/ /\ donated' = donated + amount
         /\ treasury' = treasury /\ circulating' = circulating
      \/ /\ treasury' = treasury - amount
         /\ circulating' = circulating + amount
         /\ donated' = donated
  BY DEF ClaimWood
<1>5. supply' = supply /\ supply = treasury + circulating /\ unminted' = unminted
  BY DEF ClaimWood, WoodBacking
<1>6. /\ treasury' \in U64 /\ circulating' \in U64 /\ donated' \in Nat
      /\ supply' = treasury' + circulating'
  BY <1>1, <1>2, <1>4, <1>5, U64MaxPositive DEF U64
<1>7. WoodTypeOK'
  <2>1. proof' \in [DOMAIN proof' -> ProofV2]
    BY <1>1, <1>3 DEF ClaimWood, WoodTypeOK
  <2>2. ToolTypeOK'
    BY ToolsUnchanged DEF WoodTypeOK, ClaimWood
  <2> QED
    BY <1>1, <1>6, <2>1, <2>2 DEF ClaimWood, WoodTypeOK
<1>8. Balances' = Balances - amount
  <2>1. BalanceOf(a) = proof[a].balance /\ BalanceOf(a)' = proof[a].balance - amount
    BY <1>1, <1>3 DEF BalanceOf
  <2>2. \A c \in Authorities \ {a} : BalanceOf(c)' = BalanceOf(c)
    BY <1>1 DEF BalanceOf
  <2>3. \A c \in Authorities : BalanceOf(c) \in Nat /\ BalanceOf(c)' \in Nat
    BY <1>2, <1>3, <2>1, <2>2, WoodSumsType, U64MaxPositive
  <2>4. Balances' = Balances - BalanceOf(a) + BalanceOf(a)'
    BY <1>1, <2>2, <2>3, BalancesChange DEF WoodTypeOK
  <2> QED
    BY <1>2, <2>1, <2>4, WoodSumsType
<1>9. WoodBacking'
  <2>1. treasury + unminted = Balances + donated /\ Balances \in Nat
    BY WoodSumsType DEF WoodBacking
  <2>2. treasury' + unminted' = Balances' + donated'
    BY <1>2, <1>4, <1>5, <1>8, <2>1
  <2> QED
    BY <1>6, <2>2 DEF WoodBacking
<1> QED
  BY <1>7, <1>9, EpochUnchanged, ToolsUnchanged DEF ClaimWood

(* Staking preserves it: the balance and the treasury rise together. *)
LEMMA StakeStep ==
  ASSUME WoodInv, NEW a \in Authorities, NEW amount \in U64, StakeWood(a, amount)
  PROVE  WoodInv'
<1> USE DEF WoodInv
<1>1. /\ a \in DOMAIN proof /\ proof[a] \in ProofV2
      /\ proof[a].balance + amount \in U64 /\ amount <= circulating
      /\ DOMAIN proof' = DOMAIN proof
      /\ \A c \in DOMAIN proof \ {a} : proof'[c] = proof[c]
      /\ proof'[a] = [proof[a] EXCEPT !.balance = @ + amount, !.last_stake_at = clock]
  BY DEF StakeWood, WoodTypeOK
<1>2. /\ amount \in Nat /\ treasury \in Nat /\ circulating \in Nat /\ donated \in Nat
      /\ supply \in Nat /\ supply <= U64Max /\ unminted \in Nat /\ proof[a].balance \in Nat
  BY <1>1, U64MaxPositive DEF WoodTypeOK, ProofV2, U64
<1>3. proof'[a] \in ProofV2 /\ proof'[a].balance = proof[a].balance + amount
  BY <1>1 DEF ProofV2, WoodTypeOK
<1>4. /\ treasury' = treasury + amount /\ circulating' = circulating - amount
      /\ supply' = supply /\ unminted' = unminted /\ donated' = donated
      /\ supply = treasury + circulating
  BY DEF StakeWood, historyVars, WoodBacking
<1>5. treasury' \in U64 /\ circulating' \in U64 /\ supply' = treasury' + circulating'
  BY <1>1, <1>2, <1>4, U64MaxPositive DEF U64
<1>6. WoodTypeOK'
  <2>1. proof' \in [DOMAIN proof' -> ProofV2]
    BY <1>1, <1>3 DEF StakeWood, WoodTypeOK
  <2>2. ToolTypeOK'
    BY ToolsUnchanged DEF WoodTypeOK, StakeWood
  <2> QED
    BY <1>1, <1>5, <2>1, <2>2 DEF StakeWood, WoodTypeOK, historyVars
<1>7. Balances' = Balances + amount
  <2>1. BalanceOf(a) = proof[a].balance /\ BalanceOf(a)' = proof[a].balance + amount
    BY <1>1, <1>3 DEF BalanceOf
  <2>2. \A c \in Authorities \ {a} : BalanceOf(c)' = BalanceOf(c)
    BY <1>1 DEF BalanceOf
  <2>3. \A c \in Authorities : BalanceOf(c) \in Nat /\ BalanceOf(c)' \in Nat
    BY <1>2, <2>1, <2>2, WoodSumsType
  <2>4. Balances' = Balances - BalanceOf(a) + BalanceOf(a)'
    BY <1>1, <2>2, <2>3, BalancesChange DEF WoodTypeOK
  <2> QED
    BY <1>2, <2>1, <2>4, WoodSumsType
<1>8. WoodBacking'
  BY <1>2, <1>4, <1>5, <1>7, WoodSumsType DEF WoodBacking
<1> QED
  BY <1>6, <1>8, EpochUnchanged, ToolsUnchanged DEF StakeWood, historyVars

(* Closing a proof preserves it: its balance is zero. *)
LEMMA CloseStep ==
  ASSUME WoodInv, NEW a \in Authorities, CloseWood(a)
  PROVE  WoodInv'
<1> USE DEF WoodInv
<1>1. /\ DOMAIN proof' = DOMAIN proof \ {a} /\ proof[a].balance = 0
      /\ \A c \in DOMAIN proof \ {a} : proof'[c] = proof[c]
      /\ proof' \in [DOMAIN proof' -> ProofV2]
  BY DEF CloseWood, WoodTypeOK
<1>2. WoodTypeOK'
  BY <1>1, ToolsUnchanged DEF CloseWood, WoodTypeOK, historyVars
<1>3. \A c \in Authorities : BalanceOf(c)' = BalanceOf(c)
  BY <1>1 DEF BalanceOf
<1>4. Balances' = Balances
  BY <1>3, BalancesUnchanged
<1> QED
  BY <1>2, <1>4, EpochUnchanged, ToolsUnchanged DEF CloseWood, WoodBacking, historyVars

(* Donating and burning preserve it: the token program moves wood that     *)
(* nobody is owed.                                                         *)
LEMMA TransferStep ==
  ASSUME WoodInv, NEW amount \in U64, Donate(amount) \/ Burn(amount)
  PROVE  WoodInv'
<1> USE DEF WoodInv
<1>1. /\ amount \in Nat /\ treasury \in Nat /\ circulating \in Nat /\ donated \in Nat
      /\ supply \in Nat /\ supply <= U64Max /\ unminted \in Nat /\ amount <= circulating
      /\ supply = treasury + circulating
  BY U64MaxPositive DEF WoodTypeOK, Donate, Burn, WoodBacking, U64
<1>2. /\ clock' = clock /\ bus' = bus /\ proof' = proof /\ config' = config
      /\ toolVars' = toolVars /\ unminted' = unminted
  BY DEF Donate, Burn, historyVars
<1>3. \/ /\ treasury' = treasury + amount /\ circulating' = circulating - amount
         /\ donated' = donated + amount /\ supply' = supply
      \/ /\ treasury' = treasury /\ circulating' = circulating - amount
         /\ donated' = donated /\ supply' = supply - amount
  BY DEF Donate, Burn, historyVars
<1>4. /\ treasury' \in U64 /\ circulating' \in U64 /\ supply' \in U64 /\ donated' \in Nat
      /\ supply' = treasury' + circulating'
  BY <1>1, <1>3, U64MaxPositive DEF U64
<1>5. WoodTypeOK'
  BY <1>2, <1>4, ToolsUnchanged DEF WoodTypeOK, Donate, Burn, historyVars
<1>6. Balances' = Balances
  BY <1>2, BalancesUnchanged DEF BalanceOf
<1>7. WoodBacking'
  BY <1>1, <1>2, <1>3, <1>4, <1>6, WoodSumsType DEF WoodBacking
<1> QED
  BY <1>2, <1>5, <1>7, EpochUnchanged, ToolsUnchanged

(* A reprocess into wood preserves it: what it mints is in a wallet, or in *)
(* the treasury and nobody's.                                              *)
LEMMA ReprocessStep ==
  ASSUME WoodInv, NEW amount \in U64, ReprocessIntoWood(amount)
  PROVE  WoodInv'
<1> USE DEF WoodInv
<1>1. /\ amount \in Nat /\ treasury \in Nat /\ circulating \in Nat /\ donated \in Nat
      /\ supply \in Nat /\ reprocessed \in Nat /\ unminted \in Nat /\ U64Max \in Nat
      /\ supply = treasury + circulating
  BY U64MaxPositive DEF WoodTypeOK, WoodBacking, U64
<1>2. /\ clock' = clock /\ bus' = bus /\ proof' = proof /\ config' = config
      /\ toolVars' = toolVars /\ unminted' = unminted /\ paid' = paid
      /\ supply' = supply + amount /\ reprocessed' = reprocessed + amount
      /\ supply + amount \in 0 .. U64Max
  BY DEF ReprocessIntoWood, U64
<1>3. \/ /\ circulating' = circulating + amount
         /\ treasury' = treasury /\ donated' = donated
      \/ /\ treasury' = treasury + amount /\ donated' = donated + amount
         /\ circulating' = circulating
  BY DEF ReprocessIntoWood
<1>4. /\ treasury' \in U64 /\ circulating' \in U64 /\ supply' \in U64
      /\ donated' \in Nat /\ reprocessed' \in Nat /\ supply' = treasury' + circulating'
  BY <1>1, <1>2, <1>3 DEF U64
<1>5. WoodTypeOK'
  BY <1>2, <1>4, ToolsUnchanged DEF WoodTypeOK
<1>6. Balances' = Balances
  BY <1>2, BalancesUnchanged DEF BalanceOf
<1>7. WoodBacking'
  BY <1>1, <1>2, <1>3, <1>4, <1>6, WoodSumsType DEF WoodBacking
<1> QED
  BY <1>2, <1>5, <1>7, EpochUnchanged, ToolsUnchanged

(* What an accepted hash does, in terms of the facts about its outcome.    *)
LEMMA ChopFacts ==
  ASSUME WoodTypeOK, NEW a \in DOMAIN proof, NEW b \in Buses, NEW d,
         NEW t \in [durability : Nat, multiplier : Nat], ChoppedWith(a, b, d, t)
  PROVE  LET out == ChopOutcome(config, proof[a], bus[b], t, d, clock)
         IN  /\ out.reward_actual \in Nat /\ out.durability \in Nat
             /\ out.durability <= t.durability
             /\ out.durability <= out.reward_actual
             /\ out.reward_actual <= bus[b].rewards
             /\ unminted' = unminted + out.reward_actual
             /\ bus'[b].rewards = bus[b].rewards - out.reward_actual
             /\ \A c \in Buses \ {b} : bus'[c] = bus[c]
             /\ bus' \in [Buses -> WoodBus]
             /\ proof'[a].balance = proof[a].balance + out.reward_actual
             /\ \A c \in DOMAIN proof \ {a} : proof'[c] = proof[c]
             /\ DOMAIN proof' = DOMAIN proof /\ proof' \in [DOMAIN proof -> ProofV2]
             /\ paid' \in [Authorities -> Nat]
<1> DEFINE out == ChopOutcome(config, proof[a], bus[b], t, d, clock)
<1>1. /\ proof[a] \in ProofV2 /\ bus[b] \in WoodBus /\ clock \in Nat
      /\ a \in Authorities /\ paid \in [Authorities -> Nat]
  BY DEF WoodTypeOK
<1>2. /\ out.reward \in Nat /\ out.reward_actual \in Nat /\ out.durability \in Nat
      /\ out.reward_actual <= bus[b].rewards
      /\ proof[a].balance + out.reward_actual \in U64
      /\ bus[b].theoretical_rewards + out.reward \in U64
      /\ out.durability <= t.durability
      /\ out.durability <= out.reward_actual
  <2>1. ~out.panics
    BY DEF ChoppedWith
  <2>2. proof[a].last_hash_at \in Nat
    BY <1>1 DEF ProofV2
  <2>3. bus[b].rewards \in U64
    BY <1>1 DEF WoodBus
  <2>4. t.durability \in Nat /\ t.multiplier \in Nat
    OBVIOUS
  <2> QED
    BY <1>1, <2>1, <2>2, <2>3, <2>4, ChopOutcomeFacts
<1>3. /\ bus' = [bus EXCEPT ![b] =
           [rewards |-> @.rewards - out.reward_actual,
            theoretical_rewards |-> @.theoretical_rewards + out.reward,
            top_balance |-> IF StakeIsActive(proof[a], clock)
                            THEN Greater(@.top_balance, proof[a].balance)
                            ELSE @.top_balance]]
      /\ proof' = [proof EXCEPT
           ![a].balance = @ + out.reward_actual,
           ![a].last_hash_at = HashTime(proof[a], clock),
           ![a].total_hashes = SatAdd(@, 1),
           ![a].total_rewards = SatAdd(@, out.reward)]
      /\ unminted' = unminted + out.reward_actual
      /\ paid' = [paid EXCEPT ![a] = @ + out.reward_actual]
  BY DEF ChoppedWith
<1> HIDE DEF out
<1>4. bus[b].rewards - out.reward_actual \in U64
  BY <1>1, <1>2, U64MaxPositive DEF WoodBus, U64
<1>5. Greater(bus[b].top_balance, proof[a].balance) \in U64 /\ bus[b].top_balance \in U64
  BY <1>1 DEF Greater, WoodBus, ProofV2
<1>6. bus' \in [Buses -> WoodBus]
  BY <1>2, <1>3, <1>4, <1>5 DEF WoodTypeOK, WoodBus
<1>7. \A n \in U64, m \in Nat : SatAdd(n, m) \in U64
  BY U64MaxPositive DEF SatAdd, Lesser, U64
<1>8. HashTime(proof[a], clock) \in Nat
  BY <1>1, ConstsAssumption DEF HashTime, Greater, TargetTime, ProofV2
<1>9. proof' \in [DOMAIN proof -> ProofV2]
  BY <1>1, <1>2, <1>3, <1>7, <1>8 DEF WoodTypeOK, ProofV2
<1>10. bus'[b].rewards = bus[b].rewards - out.reward_actual
       /\ \A c \in Buses \ {b} : bus'[c] = bus[c]
  BY <1>3 DEF WoodTypeOK
<1>11. /\ proof'[a].balance = proof[a].balance + out.reward_actual
       /\ \A c \in DOMAIN proof \ {a} : proof'[c] = proof[c]
       /\ DOMAIN proof' = DOMAIN proof
  BY <1>1, <1>3 DEF WoodTypeOK, ProofV2
<1>12. paid' \in [Authorities -> Nat]
  <2>1. paid[a] + out.reward_actual \in Nat
    BY <1>1, <1>2
  <2> QED
    BY <1>1, <1>3, <2>1
<1> QED
  BY <1>2, <1>3, <1>6, <1>9, <1>10, <1>11, <1>12 DEF out

(* Every hash is a ChoppedWith, with a typed tool, and leaves the tools    *)
(* alone or wears one of them within its durability.                       *)
LEMMA ChopCases ==
  ASSUME WoodTypeOK, Chop
  PROVE  \E a \in DOMAIN proof, b \in Buses, d \in 0 .. MaxDifficulty,
            t \in [durability : Nat, multiplier : Nat] :
           /\ ChoppedWith(a, b, d, t)
           /\ \/ UNCHANGED toolVars
              \/ \E c \in DOMAIN tool :
                   /\ tool[c].durability = t.durability
                   /\ Wear(c, ChopOutcome(config, proof[a], bus[b], t, d, clock).durability)
<1>1. PICK a \in DOMAIN proof, b \in Buses, d \in 0 .. MaxDifficulty :
        \/ ChopBare(a, b, d)
        \/ \E c \in DOMAIN tool : ChopEquipped(a, b, d, c)
  BY DEF Chop
<1>2. CASE ChopBare(a, b, d)
  <2>1. NoTool \in [durability : Nat, multiplier : Nat]
    BY DEF NoTool
  <2> QED
    BY <1>2, <2>1 DEF ChopBare
<1>3. CASE \E c \in DOMAIN tool : ChopEquipped(a, b, d, c)
  <2>1. PICK c \in DOMAIN tool : ChopEquipped(a, b, d, c)
    BY <1>3
  <2> DEFINE t == [durability |-> tool[c].durability, multiplier |-> tool[c].multiplier]
  <2>2. t \in [durability : Nat, multiplier : Nat]
    BY U64MaxPositive DEF WoodTypeOK, ToolTypeOK, Tool
  <2>3. ChopOutcome(config, proof[a], bus[b], tool[c], d, clock)
          = ChopOutcome(config, proof[a], bus[b], t, d, clock)
    BY DEF ChopOutcome, ToolReward
  <2>4. ChoppedWith(a, b, d, t)
    BY <2>1, <2>3 DEF ChopEquipped, ChoppedWith
  <2>5. Wear(c, ChopOutcome(config, proof[a], bus[b], t, d, clock).durability)
    BY <2>1, <2>3 DEF ChopEquipped
  <2>6. tool[c].durability = t.durability
    OBVIOUS
  <2> HIDE DEF t
  <2> QED
    BY <2>2, <2>4, <2>5, <2>6
<1> QED
  BY <1>1, <1>2, <1>3

(* A hash preserves the invariant: what the bus loses is what the balance  *)
(* gains and what the next reset will mint.                                *)
LEMMA ChopStep ==
  ASSUME WoodInv, Chop
  PROVE  WoodInv'
<1> USE DEF WoodInv
<1>1. PICK a \in DOMAIN proof, b \in Buses, d \in 0 .. MaxDifficulty,
           t \in [durability : Nat, multiplier : Nat] :
        /\ ChoppedWith(a, b, d, t)
        /\ \/ UNCHANGED toolVars
           \/ \E c \in DOMAIN tool :
                /\ tool[c].durability = t.durability
                /\ Wear(c, ChopOutcome(config, proof[a], bus[b], t, d, clock).durability)
  BY ChopCases
<1> DEFINE out == ChopOutcome(config, proof[a], bus[b], t, d, clock)
           pay == out.reward_actual
<1>2. /\ pay \in Nat /\ out.durability \in Nat
      /\ pay <= bus[b].rewards
      /\ unminted' = unminted + pay
      /\ bus'[b].rewards = bus[b].rewards - pay
      /\ \A c \in Buses \ {b} : bus'[c] = bus[c]
      /\ bus' \in [Buses -> WoodBus]
      /\ proof'[a].balance = proof[a].balance + pay
      /\ \A c \in DOMAIN proof \ {a} : proof'[c] = proof[c]
      /\ DOMAIN proof' = DOMAIN proof /\ proof' \in [DOMAIN proof -> ProofV2]
      /\ paid' \in [Authorities -> Nat]
  BY <1>1, ChopFacts
<1>3. /\ config' = config /\ clock' = clock /\ supply' = supply
      /\ treasury' = treasury /\ circulating' = circulating /\ donated' = donated
      /\ reprocessed' = reprocessed
  BY <1>1 DEF ChoppedWith
<1>4. ToolTypeOK' /\ CustodyMatches'
  <2>1. CASE UNCHANGED toolVars
    BY <2>1, ToolsUnchanged DEF WoodTypeOK
  <2>2. CASE \E c \in DOMAIN tool : Wear(c, out.durability)
    <3> HIDE DEF out
    <3> QED
      BY <1>2, <2>2, WearStep DEF WoodTypeOK
  <2> QED
    BY <1>1, <2>1, <2>2
<1> HIDE DEF out, pay
<1>5. unminted \in Nat /\ unminted' \in Nat /\ donated \in Nat /\ treasury \in Nat
  BY <1>2, U64MaxPositive DEF WoodTypeOK
<1>6. WoodTypeOK'
  BY <1>2, <1>3, <1>4, <1>5 DEF WoodTypeOK
<1>7. WoodBusBound' /\ BusRewards' = BusRewards - pay
  <2>1. \A c \in Buses : bus[c].rewards \in Nat /\ bus'[c].rewards \in Nat
    BY <1>2, WoodSumsType, U64MaxPositive DEF WoodBus
  <2>2. BusRewards' = BusRewards - bus[b].rewards + bus'[b].rewards
    BY <1>2, <2>1, BusRewardsChange
  <2>3. MAX_WOOD_EPOCH_REWARDS \in Nat
    BY WoodConstants, U64MaxPositive
  <2>4. WoodBusBound'
    BY <1>2, <2>1, <2>3 DEF WoodBusBound
  <2> QED
    BY <1>2, <2>1, <2>2, <2>4, WoodSumsType
<1>8. Balances' = Balances + pay
  <2>1. a \in Authorities /\ proof[a].balance \in Nat
    BY U64MaxPositive DEF WoodTypeOK, ProofV2
  <2>2. BalanceOf(a) = proof[a].balance /\ BalanceOf(a)' = proof[a].balance + pay
    BY <1>2 DEF BalanceOf
  <2>3. \A c \in Authorities \ {a} : BalanceOf(c)' = BalanceOf(c)
    BY <1>2 DEF BalanceOf
  <2>4. \A c \in Authorities : BalanceOf(c) \in Nat /\ BalanceOf(c)' \in Nat
    BY <1>2, <2>1, <2>2, <2>3, WoodSumsType
  <2>5. Balances' = Balances - BalanceOf(a) + BalanceOf(a)'
    BY <2>1, <2>3, <2>4, BalancesChange
  <2> QED
    BY <1>2, <2>1, <2>2, <2>5, WoodSumsType
<1>9. WoodBacking'
  BY <1>2, <1>3, <1>5, <1>8, WoodSumsType DEF WoodBacking
<1>10. PoolAddsUp'
  <2>1. config.last_reset_at # 0
    <3>1. clock < config.last_reset_at + WOOD_EPOCH_DURATION
      BY <1>1 DEF ChoppedWith, WoodEpochIsActive
    <3>2. clock \in Nat /\ clock >= WOOD_EPOCH_DURATION /\ WOOD_EPOCH_DURATION \in Nat
      BY WoodConstants DEF WoodTypeOK, ResetsAreLate
    <3> QED
      BY <3>1, <3>2
  <2>2. config.total_epoch_rewards = BusRewards + unminted
    BY <2>1 DEF PoolAddsUp
  <2>3. config.total_epoch_rewards = BusRewards' + unminted'
    BY <1>2, <1>5, <1>7, <2>2, WoodSumsType
  <2> QED
    BY <1>3, <2>1, <2>3 DEF PoolAddsUp
<1>11. ResetsAreLate' /\ WoodRateBand'
  BY <1>3 DEF ResetsAreLate, WoodRateBand
<1> QED
  BY <1>4, <1>6, <1>7, <1>9, <1>10, <1>11

(* A reset preserves it: it mints what was mined, and the config records   *)
(* what it puts into the buses.                                            *)
LEMMA WoodResetStep ==
  ASSUME WoodInv, ResetWood
  PROVE  WoodInv'
<1> USE DEF WoodInv
<1>1. PICK top \in TopBalances :
        config' = [last_reset_at       |-> clock,
                   min_difficulty      |-> NextWoodRate.min_difficulty,
                   base_reward_rate    |-> NextWoodRate.base_reward_rate,
                   top_balance         |-> top,
                   total_epoch_rewards |-> NextEpochRewards]
  BY DEF ResetWood
<1>2. /\ supply' = supply + unminted /\ supply' \in U64
      /\ treasury' = treasury + unminted /\ unminted' = 0
      /\ clock' = clock /\ proof' = proof /\ circulating' = circulating
      /\ toolVars' = toolVars /\ donated' = donated /\ paid' = paid
      /\ reprocessed' = reprocessed
  BY MintsWhatWasMined DEF ResetWood
<1>3. bus' = [b \in Buses |-> [rewards |-> NextBusRewards(b), theoretical_rewards |-> 0,
                               top_balance |-> 0]]
  BY DEF ResetWood
<1>4. top \in U64
  BY U64MaxPositive DEF TopBalances, WoodTypeOK, WoodBus, U64
<1>5. config' \in WoodConfig /\ WoodRateBand'
  <2> DEFINE difficulty == NextWoodRate.min_difficulty
             rate == NextWoodRate.base_reward_rate
  <2>1. /\ difficulty \in Nat /\ difficulty >= 1 /\ rate \in U64 /\ rate >= 1
        /\ difficulty > 1 => rate < BASE_WOOD_REWARD_RATE_MAX_THRESHOLD
    BY NextWoodRateFacts
  <2>2. NextEpochRewards \in U64 /\ clock \in Nat
    BY NextPool DEF WoodTypeOK
  <2> HIDE DEF difficulty, rate
  <2>3. config' \in WoodConfig
    BY <1>1, <1>4, <2>1, <2>2 DEF WoodConfig, difficulty, rate
  <2>4. config'.min_difficulty = difficulty /\ config'.base_reward_rate = rate
    BY <1>1 DEF difficulty, rate
  <2>5. WoodRateBand'
    BY <2>1, <2>4 DEF WoodRateBand
  <2> QED
    BY <2>3, <2>5
<1>6. bus' \in [Buses -> WoodBus] /\ WoodBusBound'
  <2>1. \A b \in Buses : NextBusRewards(b) \in U64
                         /\ NextBusRewards(b) <= MAX_WOOD_EPOCH_REWARDS
    <3>1. MAX_WOOD_EPOCH_REWARDS \in Nat /\ MAX_WOOD_EPOCH_REWARDS <= U64Max
      BY WoodConstants, U64MaxPositive DEF U64
    <3> QED
      BY <3>1, NextPool, U64MaxPositive DEF U64
  <2>2. 0 \in U64
    BY U64MaxPositive DEF U64
  <2> QED
    BY <1>3, <2>1, <2>2 DEF WoodBus, WoodBusBound
<1>7. /\ supply \in Nat /\ treasury \in Nat /\ circulating \in Nat /\ unminted \in Nat
      /\ donated \in Nat /\ supply = treasury + circulating
      /\ treasury + unminted = Balances + donated /\ Balances \in Nat
  BY U64MaxPositive, WoodSumsType DEF WoodTypeOK, WoodBacking
<1>8. treasury' \in U64 /\ supply' = treasury' + circulating'
  BY <1>2, <1>7, U64MaxPositive DEF U64
<1>9. WoodTypeOK' /\ CustodyMatches'
  <2>1. ToolTypeOK' /\ CustodyMatches'
    BY <1>2, ToolsUnchanged DEF WoodTypeOK
  <2> QED
    BY <1>2, <1>5, <1>6, <1>8, <2>1 DEF WoodTypeOK
<1>10. WoodBacking'
  <2>1. Balances' = Balances
    BY <1>2, BalancesUnchanged DEF BalanceOf
  <2> QED
    BY <1>2, <1>7, <1>8, <2>1 DEF WoodBacking
<1>11. PoolAddsUp' /\ ResetsAreLate'
  <2>1. BusRewards' = NextEpochRewards
    <3>1. [b \in Buses |-> bus'[b].rewards] = [b \in Buses |-> NextBusRewards(b)]
      BY <1>3
    <3> QED
      BY <3>1, NextPool DEF BusRewards
  <2>2. config'.total_epoch_rewards = NextEpochRewards /\ config'.last_reset_at = clock
    BY <1>1
  <2>3. clock \in Nat /\ clock >= WOOD_EPOCH_DURATION /\ WOOD_EPOCH_DURATION \in Nat \ {0}
    BY WoodConstants DEF WoodTypeOK, ResetsAreLate
  <2>4. NextEpochRewards \in Nat
    BY NextPool, U64MaxPositive
  <2>5. ResetsAreLate'
    BY <1>2, <2>2, <2>3 DEF ResetsAreLate
  <2>6. PoolAddsUp'
    BY <1>2, <2>1, <2>2, <2>3, <2>4 DEF PoolAddsUp
  <2> QED
    BY <2>5, <2>6
<1> QED
  BY <1>5, <1>6, <1>9, <1>10, <1>11

(* The passing of time preserves it. *)
LEMMA TickStep ==
  ASSUME WoodInv, Tick
  PROVE  WoodInv'
<1> USE DEF WoodInv
<1>1. clock' \in Nat /\ clock <= clock' /\ UNCHANGED <<chainVars, historyVars>>
  BY WoodLedgerAssumption DEF Tick, WoodTypeOK
<1>2. WoodTypeOK' /\ CustodyMatches'
  BY <1>1, ToolsUnchanged DEF WoodTypeOK, chainVars, historyVars
<1>3. Balances' = Balances
  BY <1>1, BalancesUnchanged DEF BalanceOf, chainVars
<1>4. ResetsAreLate'
  BY <1>1, WoodConstants DEF ResetsAreLate, WoodTypeOK, chainVars
<1> QED
  BY <1>1, <1>2, <1>3, <1>4, BusUnchanged
     DEF chainVars, historyVars, WoodBacking, PoolAddsUp, WoodRateBand

(* Equipping, unequipping and trading tools preserve it. *)
LEMMA ToolMoveStep ==
  ASSUME WoodInv, ToolStep
  PROVE  WoodInv'
<1> USE DEF WoodInv
<1>1. ToolNext
  BY DEF ToolStep, ToolNext
<1>2. ToolTypeOK' /\ CustodyMatches'
  BY <1>1, ToolStepFacts DEF WoodTypeOK
<1>3. UNCHANGED <<clock, config, bus, proof, supply, treasury, circulating, historyVars>>
  BY DEF ToolStep
<1>4. WoodTypeOK'
  BY <1>2, <1>3 DEF WoodTypeOK, historyVars
<1>5. Balances' = Balances
  BY <1>3, BalancesUnchanged DEF BalanceOf
<1> QED
  BY <1>2, <1>3, <1>4, <1>5, EpochUnchanged DEF historyVars, WoodBacking

(* A reset that comes too soon preserves it, and so does stuttering. *)
LEMMA StutterStep ==
  ASSUME WoodInv, UNCHANGED vars
  PROVE  WoodInv'
<1> USE DEF WoodInv
<1>1. Balances' = Balances
  BY BalancesUnchanged DEF BalanceOf, vars, chainVars
<1>2. WoodTypeOK' /\ CustodyMatches'
  BY ToolsUnchanged DEF WoodTypeOK, vars, chainVars, historyVars
<1> QED
  BY <1>1, <1>2, EpochUnchanged DEF vars, chainVars, historyVars, WoodBacking

(* The state at deployment satisfies it. *)
LEMMA WoodStart == WoodInit => WoodInv
<1> SUFFICES ASSUME WoodInit PROVE WoodInv
  OBVIOUS
<1>1. ToolTypeOK /\ CustodyMatches
  BY ToolStart DEF WoodInit
<1>2. DOMAIN proof = {} /\ proof \in [DOMAIN proof -> ProofV2]
  BY DEF WoodInit
<1>3. /\ INITIAL_BASE_WOOD_REWARD_RATE \in U64 /\ INITIAL_BASE_WOOD_REWARD_RATE >= 1
      /\ INITIAL_BASE_WOOD_REWARD_RATE < BASE_WOOD_REWARD_RATE_MAX_THRESHOLD
      /\ INITIAL_MIN_DIFFICULTY \in Nat /\ INITIAL_MIN_DIFFICULTY >= 1
      /\ INITIAL_WOOD_EPOCH_REWARDS \in U64
      /\ INITIAL_WOOD_EPOCH_REWARDS <= MAX_WOOD_EPOCH_REWARDS
      /\ 0 \in U64
  BY WoodConstsAssumption, WoodConstants, ConstsAssumption, U64MaxPositive
     DEF U64, INITIAL_BASE_WOOD_REWARD_RATE
<1>7. config \in WoodConfig /\ bus \in [Buses -> WoodBus]
  BY <1>3 DEF WoodInit, WoodConfig, WoodBus
<1>8. WoodTypeOK
  BY <1>1, <1>2, <1>3, <1>7, WoodLedgerAssumption DEF WoodInit, WoodTypeOK
<1>9. WoodBusBound /\ WoodRateBand
  BY <1>3 DEF WoodInit, WoodBusBound, WoodRateBand
<1>4. ResetsAreLate /\ PoolAddsUp
  BY WoodLedgerAssumption DEF WoodInit, ResetsAreLate, PoolAddsUp
<1>5. Balances = 0
  <2> DEFINE f == [a \in Authorities |-> BalanceOf(a)]
  <2>1. \A a \in Authorities : f[a] = 0
    BY <1>2 DEF BalanceOf
  <2>2. SumOver(f, Authorities) = 0 * Cardinality(Authorities)
    <3> HIDE DEF f
    <3> QED
      BY <2>1, WoodLedgerAssumption, SumOverConstant
  <2>3. Cardinality(Authorities) \in Nat
    BY WoodLedgerAssumption, FS_CardinalityType
  <2> QED
    BY <2>2, <2>3 DEF Balances
<1>6. WoodBacking
  BY <1>5 DEF WoodInit, WoodBacking
<1> QED
  BY <1>1, <1>4, <1>6, <1>8, <1>9 DEF WoodInv

(* Every step preserves it. *)
LEMMA WoodStep == WoodInv /\ [WoodNext]_vars => WoodInv'
<1> SUFFICES ASSUME WoodInv, [WoodNext]_vars PROVE WoodInv'
  OBVIOUS
<1>1. \A amount \in Amounts : amount \in U64
  BY WoodLedgerAssumption
<1>2. CASE \E a \in Authorities, m \in Miners : OpenWood(a, m)
  BY <1>2, OpenStep
<1>3. CASE Chop
  BY <1>3, ChopStep
<1>4. CASE \E a \in Authorities, amount \in Amounts : ClaimWood(a, amount)
  BY <1>1, <1>4, ClaimStep
<1>5. CASE \E a \in Authorities, amount \in Amounts : StakeWood(a, amount)
  BY <1>1, <1>5, StakeStep
<1>6. CASE \E a \in Authorities : CloseWood(a)
  BY <1>6, CloseStep
<1>7. CASE ResetWood
  BY <1>7, WoodResetStep
<1>8. CASE \E amount \in Amounts : Donate(amount) \/ Burn(amount)
  BY <1>1, <1>8, TransferStep
<1>9. CASE Tick
  BY <1>9, TickStep
<1>10. CASE ToolStep
  BY <1>10, ToolMoveStep
<1>11. CASE ResetWoodTooSoon \/ UNCHANGED vars
  BY <1>11, StutterStep DEF ResetWoodTooSoon
<1>12. CASE \E amount \in Amounts : ReprocessIntoWood(amount)
  BY <1>1, <1>12, ReprocessStep
<1> QED
  BY <1>2, <1>3, <1>4, <1>5, <1>6, <1>7, <1>8, <1>9, <1>10, <1>11, <1>12 DEF WoodNext

(* The wood ledger's invariant holds in every state. *)
THEOREM WoodInvariant == WoodSpec => []WoodInv
  BY WoodStart, WoodStep, PTL DEF WoodSpec

(* Every wood account keeps its type: no counter leaves its width. *)
THEOREM WoodTypes == WoodSpec => []WoodTypeOK
<1>1. WoodInv => WoodTypeOK
  BY DEF WoodInv
<1> QED
  BY <1>1, WoodInvariant, PTL

(* Every grain that miners own is in the treasury or minted by the next    *)
(* reset, and the supply is what the wallets and the treasury hold.        *)
THEOREM WoodIsBacked == WoodSpec => []WoodBacking
<1>1. WoodInv => WoodBacking
  BY DEF WoodInv
<1> QED
  BY <1>1, WoodInvariant, PTL

(* What the config records of the pool is what is left and what was paid.  *)
THEOREM WoodPoolAddsUp == WoodSpec => []PoolAddsUp
<1>1. WoodInv => PoolAddsUp
  BY DEF WoodInv
<1> QED
  BY <1>1, WoodInvariant, PTL

(* The wood rate never sticks at zero nor, above difficulty 1, at its cap. *)
THEOREM WoodRateStaysInBand == WoodSpec => []WoodRateBand
<1>1. WoodInv => WoodRateBand
  BY DEF WoodInv
<1> QED
  BY <1>1, WoodInvariant, PTL

-----------------------------------------------------------------------------
(* A bus gets no more than its share of the remainder, the fraction of its *)
(* own rewards, and what lifts it to its minimum.                          *)
LEMMA BusGrowth ==
  ASSUME WoodInv, NEW b \in Buses
  PROVE  PropagationRate * NextBusRewards(b)
           <= bus[b].rewards + (PropagationRate * (TotalRemainingRewards \div BUS_COUNT)
                                  + PropagationRate * MIN_WOOD_EPOCH_REWARDS)
<1> USE DEF WoodInv
<1> DEFINE P == PropagationRate
           share == TotalRemainingRewards \div BUS_COUNT
           own == bus[b].rewards \div P
           low == MIN_WOOD_EPOCH_REWARDS
           high == MAX_WOOD_EPOCH_REWARDS
           next == NextBusRewards(b)
           r == bus[b].rewards
<1>1. /\ P \in Nat \ {0} /\ low \in Nat /\ high \in Nat /\ U64Max \in Nat
      /\ BUS_COUNT \in Nat \ {0} /\ low <= high
  BY MintsWhatWasMined, WoodConstants, U64MaxPositive
<1>2. r \in Nat /\ TotalRemainingRewards \in Nat
  BY WoodSumsType, RemainingIsExact
<1>3. share \in Nat
  BY <1>1, <1>2, Division
<1>4. own \in Nat /\ P * own <= r
  <2>1. own = r \div P
    OBVIOUS
  <2> HIDE DEF own, P, r
  <2> QED
    BY <1>1, <1>2, <2>1, Division
<1>5. next \in Nat /\ next <= share + own + low
  <2>1. next = Lesser(Greater(SatAdd(share, own), low), high)
    BY DEF NextBusRewards
  <2> HIDE DEF share, own, next, low, high
  <2> QED
    BY <1>1, <1>3, <1>4, <2>1 DEF SatAdd, Lesser, Greater
<1> HIDE DEF P, share, own, low, next, r
<1>6. P * next <= P * (share + own + low)
  BY <1>1, <1>3, <1>4, <1>5, ProductMonotone
<1>7. P * (share + own + low) = P * share + P * own + P * low
      /\ P * next \in Nat /\ P * share \in Nat /\ P * own \in Nat /\ P * low \in Nat
  <2>1. \A k, m, n, l \in Nat : k * (m + n + l) = k * m + k * n + k * l /\ k * m \in Nat
    OBVIOUS
  <2> QED
    BY <1>1, <1>3, <1>4, <1>5, <2>1
<1>8. P * next <= r + (P * share + P * low)
  BY <1>2, <1>4, <1>6, <1>7
<1> QED
  BY <1>8 DEF P, share, low, next, r

(* The same of the whole pool. *)
LEMMA PoolGrowth ==
  ASSUME WoodInv
  PROVE  PropagationRate * NextEpochRewards
           <= (PropagationRate + 1) * BusRewards
                + PropagationRate * BUS_COUNT * MIN_WOOD_EPOCH_REWARDS
<1> USE DEF WoodInv
<1> DEFINE P == PropagationRate
           share == TotalRemainingRewards \div BUS_COUNT
           low == MIN_WOOD_EPOCH_REWARDS
           d == P * share + P * low
           f == [b \in Buses |-> NextBusRewards(b)]
           g == [b \in Buses |-> bus[b].rewards]
           next == NextEpochRewards
           held == BusRewards
           n == BUS_COUNT
<1>1. /\ P \in Nat \ {0} /\ low \in Nat /\ IsFiniteSet(Buses)
      /\ n \in Nat \ {0} /\ n = Cardinality(Buses)
  BY MintsWhatWasMined, WoodConstants, ConstsAssumption
<1>2. held \in Nat /\ TotalRemainingRewards = held /\ next \in Nat
  BY WoodSumsType, RemainingIsExact, NextPool, U64MaxPositive
<1>3. share \in Nat /\ n * share <= held
  <2>1. share = held \div n
    BY <1>2
  <2> HIDE DEF share, n, held
  <2> QED
    BY <1>1, <1>2, <2>1, Division
<1>4. \A b \in Buses : P * f[b] <= g[b] + d
  BY BusGrowth
<1>5. \A b \in Buses : f[b] \in Nat /\ g[b] \in Nat
  BY NextPool, WoodSumsType
<1>6. next = SumOver(f, Buses) /\ held = SumOver(g, Buses)
  BY NextPool DEF BusRewards
<1> HIDE DEF P, share, low, f, g, next, held, n
<1>7. P * share \in Nat /\ P * low \in Nat /\ d \in Nat
  BY <1>1, <1>3
<1>8. P * next <= held + d * n
  <2> HIDE DEF d
  <2> QED
    BY <1>1, <1>4, <1>5, <1>6, <1>7, SumOverScaledBound
<1>9. d * n = P * (n * share) + P * n * low
  <2>1. \A k, m, l, c \in Nat : (k * m + k * l) * c = k * (c * m) + k * c * l
    OBVIOUS
  <2> QED
    BY <1>1, <1>3, <2>1
<1>10. P * (n * share) <= P * held /\ n * share \in Nat
  <2>1. n * share \in Nat
    BY <1>1, <1>3
  <2> QED
    BY <1>1, <1>2, <1>3, <2>1, ProductMonotone
<1>11. /\ (P + 1) * held = P * held + held
       /\ P * held \in Nat /\ P * (n * share) \in Nat /\ P * n * low \in Nat /\ P * next \in Nat
  <2>1. \A k, m, l \in Nat : (k + 1) * m = k * m + m /\ k * m \in Nat /\ k * m * l \in Nat
    OBVIOUS
  <2> QED
    BY <1>1, <1>2, <1>10, <2>1
<1>12. P * next <= (P + 1) * held + P * n * low
  <2> HIDE DEF d
  <2> QED
    BY <1>2, <1>8, <1>9, <1>10, <1>11
<1> QED
  BY <1>12 DEF P, low, next, held, n

(* Only a reset touches the config, and only a hash a tool that stays in   *)
(* its account.                                                            *)
LEMMA OtherSteps ==
  ASSUME [WoodNext]_vars, ~Chop
  PROVE  /\ UNCHANGED toolVars \/ ToolStep
         /\ ResetWood \/ UNCHANGED config
<1>1. CASE \E a \in Authorities, m \in Miners : OpenWood(a, m)
  BY <1>1 DEF OpenWood
<1>2. CASE \E a \in Authorities, amount \in Amounts : ClaimWood(a, amount) \/ StakeWood(a, amount)
  BY <1>2 DEF ClaimWood, StakeWood
<1>3. CASE \E a \in Authorities : CloseWood(a)
  BY <1>3 DEF CloseWood
<1>4. CASE ResetWood
  BY <1>4 DEF ResetWood
<1>5. CASE \E amount \in Amounts : Donate(amount) \/ Burn(amount)
  BY <1>5 DEF Donate, Burn
<1>6. CASE Tick \/ ResetWoodTooSoon \/ UNCHANGED vars
  BY <1>6 DEF Tick, ResetWoodTooSoon, vars, chainVars
<1>7. CASE ToolStep
  BY <1>7 DEF ToolStep
<1>8. CASE \E amount \in Amounts : ReprocessIntoWood(amount)
  BY <1>8 DEF ReprocessIntoWood
<1> QED
  BY <1>1, <1>2, <1>3, <1>4, <1>5, <1>6, <1>7, <1>8 DEF WoodNext

(* No reset inflates the pool, however unevenly the buses were used.       *)
THEOREM WoodPoolGrowsSlowly == WoodSpec => PoolGrowsSlowly
<1> DEFINE Slow == config'.last_reset_at # config.last_reset_at =>
                     PropagationRate * config'.total_epoch_rewards
                       <= (PropagationRate + 1) * BusRewards
                            + PropagationRate * BUS_COUNT * MIN_WOOD_EPOCH_REWARDS
<1>1. WoodInv /\ [WoodNext]_vars => [Slow]_vars
  <2> SUFFICES ASSUME WoodInv, [WoodNext]_vars, UNCHANGED config \/ ResetWood PROVE Slow
    <3>1. ASSUME WoodInv, Chop PROVE UNCHANGED config
      <4>1. PICK a \in DOMAIN proof, b \in Buses, d \in 0 .. MaxDifficulty,
                 t \in [durability : Nat, multiplier : Nat] : ChoppedWith(a, b, d, t)
        BY <3>1, ChopCases DEF WoodInv
      <4> QED
        BY <4>1 DEF ChoppedWith
    <3> QED
      BY <3>1, OtherSteps
  <2>1. CASE UNCHANGED config
    BY <2>1
  <2>2. CASE ResetWood
    <3>1. config'.total_epoch_rewards = NextEpochRewards
      BY <2>2 DEF ResetWood
    <3> QED
      BY <3>1, PoolGrowth
  <2> QED
    BY <2>1, <2>2
<1> QED
  BY <1>1, WoodInvariant, PTL DEF WoodSpec, PoolGrowsSlowly

(* The staking bonus of wood, for any stake and whatever the top balance   *)
(* of the last epoch was: between one and two times the reward, as the     *)
(* comment of process_chop_wood says, and never less for a larger stake.   *)
THEOREM WoodStakingIsBounded ==
  ASSUME NEW cfg, cfg.top_balance \in Nat, NEW reward \in Nat, NEW t \in Nat,
         NEW p, p.balance \in Nat, NEW q, q.balance \in Nat,
         p.balance <= q.balance, p.last_stake_at = q.last_stake_at
  PROVE  /\ reward <= WithWoodStaking(cfg, p, reward, t)
         /\ WithWoodStaking(cfg, p, reward, t) <= 2 * reward
         /\ WithWoodStaking(cfg, p, reward, t) <= WithWoodStaking(cfg, q, reward, t)
         /\ StakeIsActive(p, t) /\ cfg.top_balance > 0 /\ p.balance >= cfg.top_balance =>
              WithWoodStaking(cfg, p, reward, t) = 2 * reward
<1>1. CASE cfg.top_balance > 0
  <2> DEFINE sp == StakingReward(cfg, p, reward)
             sq == StakingReward(cfg, q, reward)
  <2>1. /\ sp \in Nat /\ sq \in Nat /\ sp <= reward /\ sp <= sq
        /\ p.balance >= cfg.top_balance => sp = reward
    BY <1>1, StakingRewardFacts
  <2>2. StakeIsActive(p, t) => StakeIsActive(q, t)
    BY DEF StakeIsActive
  <2>3. /\ WithWoodStaking(cfg, p, reward, t) = IF StakeIsActive(p, t) THEN reward + sp ELSE reward
        /\ WithWoodStaking(cfg, q, reward, t) = IF StakeIsActive(q, t) THEN reward + sq ELSE reward
    BY <1>1 DEF WithWoodStaking
  <2> HIDE DEF sp, sq
  <2> QED
    BY <2>1, <2>2, <2>3
<1>2. CASE ~(cfg.top_balance > 0)
  BY <1>2 DEF WithWoodStaking
<1> QED
  BY <1>1, <1>2

(* What is left of an axe grows by no more than the rounding of its        *)
(* attribute, and a hash takes no more of it than it pays.                 *)
THEOREM WoodWearIsPaid == WoodSpec => WoodWearWithinPay
<1> DEFINE Fair == \A x \in Assets :
                     /\ NotRepaired(x)
                     /\ WornWithin(x, SatSub(unminted', unminted) + Rounding(x))
<1>1. WoodInv /\ [WoodNext]_vars => [Fair]_vars
  <2> SUFFICES ASSUME WoodInv, WoodNext PROVE Fair
    OBVIOUS
  <2>1. ToolTypeOK /\ CustodyMatches /\ unminted \in Nat /\ unminted' \in Nat
    <3>1. WoodInv'
      BY WoodStep
    <3> QED
      BY <3>1, U64MaxPositive DEF WoodInv, WoodTypeOK
  <2>2. SatSub(unminted', unminted) \in Nat
        /\ (unminted' >= unminted => SatSub(unminted', unminted) = unminted' - unminted)
    <3>1. \A n, m \in Nat : SatSub(n, m) \in Nat /\ (n >= m => SatSub(n, m) = n - m)
      BY DEF SatSub
    <3> QED
      BY <2>1, <3>1
  <2>3. CASE Chop
    <3>1. PICK a \in DOMAIN proof, b \in Buses, d \in 0 .. MaxDifficulty,
               t \in [durability : Nat, multiplier : Nat] :
            /\ ChoppedWith(a, b, d, t)
            /\ \/ UNCHANGED toolVars
               \/ \E e \in DOMAIN tool :
                    /\ tool[e].durability = t.durability
                    /\ Wear(e, ChopOutcome(config, proof[a], bus[b], t, d, clock).durability)
      BY <2>3, ChopCases DEF WoodInv
    <3> DEFINE out == ChopOutcome(config, proof[a], bus[b], t, d, clock)
    <3>2. /\ out.durability \in Nat /\ out.reward_actual \in Nat
          /\ unminted' = unminted + out.reward_actual
          /\ out.durability <= out.reward_actual
      BY <3>1, ChopFacts DEF WoodInv
    <3>3. UNCHANGED toolVars \/ \E e \in DOMAIN tool : Wear(e, out.durability)
      BY <3>1
    <3> HIDE DEF out
    <3>4. SatSub(unminted', unminted) = out.reward_actual
      BY <2>1, <2>2, <3>2
    <3> QED
      BY <2>1, <3>2, <3>3, <3>4, HashWear
  <2>4. CASE ~Chop
    <3>1. \A x \in Assets : NotRepaired(x) /\ WornWithin(x, Rounding(x))
      <4>1. UNCHANGED toolVars \/ ToolStep
        BY <2>4, OtherSteps
      <4> QED
        BY <2>1, <4>1, HandlingFacts DEF ToolStep
    <3>2. ASSUME NEW x \in Assets PROVE WornWithin(x, SatSub(unminted', unminted) + Rounding(x))
      <4>1. Rounding(x) \in Nat /\ Remaining(x) \in Nat
        BY <2>1, RoundingType, RemainingType
      <4>2. Remaining(x)' \in Nat
        <5>1. ToolTypeOK' /\ CustodyMatches'
          BY WoodStep DEF WoodInv, WoodTypeOK
        <5> QED
          BY <5>1, U64MaxPositive DEF Remaining, ToolTypeOK, Tool, Asset, CustodyMatches
      <4> QED
        BY <2>2, <3>1, <4>1, <4>2 DEF WornWithin
    <3> QED
      BY <3>1, <3>2
  <2> QED
    BY <2>3, <2>4
<1> QED
  BY <1>1, WoodInvariant, PTL DEF WoodSpec, WoodWearWithinPay

-----------------------------------------------------------------------------
(* The refinement of the vault: one lemma per way in which an instruction  *)
(* treats the balances.                                                    *)
balances == [a \in Authorities |-> BalanceOf(a)]

(* What an instruction does when it changes the balance of a alone. *)
Changes(a, n) ==
  /\ a \in Authorities
  /\ BalanceOf(a)' = n
  /\ \A c \in Authorities \ {a} : BalanceOf(c)' = BalanceOf(c)

(* The balances after such an instruction. *)
LEMMA ChangedBalances ==
  ASSUME NEW a, NEW n, Changes(a, n)
  PROVE  balances' = [balances EXCEPT ![a] = n] /\ balances'[a] = n
  BY DEF Changes, balances

(* No instruction that keeps every balance, the wallets and the donations  *)
(* is seen by the vault.                                                   *)
LEMMA VaultStutters ==
  ASSUME \A c \in Authorities : BalanceOf(c)' = BalanceOf(c),
         UNCHANGED <<circulating, donated, reprocessed>>
  PROVE  UNCHANGED Promise!vaultVars
<1>1. [a \in Authorities |-> BalanceOf(a)]' = [a \in Authorities |-> BalanceOf(a)]
  OBVIOUS
<1> QED
  BY <1>1 DEF Promise!vaultVars

(* A hash earns. *)
LEMMA ChopEarns ==
  ASSUME WoodInv, Chop
  PROVE  \E a \in Authorities : Promise!Earn(a)
<1>1. PICK a \in DOMAIN proof, b \in Buses, d \in 0 .. MaxDifficulty,
           t \in [durability : Nat, multiplier : Nat] : ChoppedWith(a, b, d, t)
  BY ChopCases DEF WoodInv
<1> DEFINE pay == ChopOutcome(config, proof[a], bus[b], t, d, clock).reward_actual
<1>2. /\ pay \in Nat
      /\ proof'[a].balance = proof[a].balance + pay
      /\ \A c \in DOMAIN proof \ {a} : proof'[c] = proof[c]
      /\ DOMAIN proof' = DOMAIN proof
  BY <1>1, ChopFacts DEF WoodInv
<1>3. a \in Authorities /\ BalanceOf(a) \in Nat
  BY WoodSumsType DEF WoodInv, WoodTypeOK
<1> HIDE DEF pay
<1>4. Changes(a, BalanceOf(a) + pay)
  BY <1>2, <1>3 DEF Changes, BalanceOf
<1>5. /\ balances' = [balances EXCEPT ![a] = BalanceOf(a) + pay]
      /\ balances'[a] = BalanceOf(a) + pay /\ balances[a] = BalanceOf(a)
  BY <1>3, <1>4, ChangedBalances DEF balances
<1>6. balances'[a] >= balances[a] /\ balances' = [balances EXCEPT ![a] = balances'[a]]
  <2>1. balances'[a] >= balances[a]
    <3>1. BalanceOf(a) + pay >= BalanceOf(a)
      BY <1>2, <1>3
    <3> QED
      BY <1>5, <3>1
  <2>2. balances' = [balances EXCEPT ![a] = balances'[a]]
    BY <1>5, Zenon
  <2> QED
    BY <2>1, <2>2
<1>7. UNCHANGED <<circulating, donated, reprocessed>>
  BY <1>1 DEF ChoppedWith
<1>8. Promise!Earn(a)
  BY <1>6, <1>7 DEF Promise!Earn, balances
<1> QED
  BY <1>3, <1>8

(* A claim withdraws, or forfeits when the treasury is its beneficiary. *)
LEMMA ClaimWithdraws ==
  ASSUME WoodInv, NEW a \in Authorities, NEW amount \in U64, ClaimWood(a, amount)
  PROVE  \E n \in 0 .. BalanceOf(a) : Promise!Withdraw(a, n) \/ Promise!Forfeit(a, n)
<1>1. /\ a \in DOMAIN proof /\ DOMAIN proof' = DOMAIN proof
      /\ \A c \in DOMAIN proof \ {a} : proof'[c] = proof[c]
      /\ proof'[a].balance = proof[a].balance - amount
      /\ amount <= proof[a].balance
  BY DEF ClaimWood, WoodInv, WoodTypeOK, ProofV2
<1>2. amount \in Nat /\ BalanceOf(a) \in Nat /\ amount <= BalanceOf(a)
  BY <1>1, WoodSumsType, U64MaxPositive DEF WoodInv, BalanceOf
<1>3. Changes(a, BalanceOf(a) - amount)
  BY <1>1 DEF Changes, BalanceOf
<1>4. balances' = [balances EXCEPT ![a] = @ - amount] /\ balances[a] = BalanceOf(a)
  BY <1>3, ChangedBalances DEF balances
<1>7. reprocessed' = reprocessed
  BY DEF ClaimWood
<1>5. CASE circulating' = circulating /\ donated' = donated + amount
  <2>1. Promise!Forfeit(a, amount)
    BY <1>2, <1>4, <1>5, <1>7 DEF Promise!Forfeit, balances
  <2> QED
    BY <1>2, <2>1
<1>6. CASE circulating' = circulating + amount /\ donated' = donated
  <2>1. Promise!Withdraw(a, amount)
    BY <1>2, <1>4, <1>6, <1>7 DEF Promise!Withdraw, balances
  <2> QED
    BY <1>2, <2>1
<1> QED
  BY <1>5, <1>6 DEF ClaimWood

(* A stake deposits. *)
LEMMA StakeDeposits ==
  ASSUME WoodInv, NEW a \in Authorities, NEW amount \in U64, StakeWood(a, amount)
  PROVE  \E n \in 0 .. circulating : Promise!Deposit(a, n)
<1>1. /\ a \in DOMAIN proof /\ DOMAIN proof' = DOMAIN proof
      /\ \A c \in DOMAIN proof \ {a} : proof'[c] = proof[c]
      /\ proof'[a].balance = proof[a].balance + amount
  BY DEF StakeWood, WoodInv, WoodTypeOK, ProofV2
<1>2. amount \in 0 .. circulating
  BY U64MaxPositive DEF StakeWood, WoodInv, WoodTypeOK
<1>3. Changes(a, BalanceOf(a) + amount)
  BY <1>1 DEF Changes, BalanceOf
<1>4. balances' = [balances EXCEPT ![a] = @ + amount]
  BY <1>3, ChangedBalances DEF balances
<1>5. /\ amount <= circulating /\ circulating' = circulating - amount
      /\ donated' = donated /\ reprocessed' = reprocessed
  BY DEF StakeWood, historyVars
<1>6. Promise!Deposit(a, amount)
  BY <1>4, <1>5 DEF Promise!Deposit, balances
<1> QED
  BY <1>2, <1>6

(* Wood in wallets is given away or destroyed. *)
LEMMA TransfersLeaveBalances ==
  ASSUME WoodInv, NEW amount \in U64, Donate(amount) \/ Burn(amount)
  PROVE  \E n \in 0 .. circulating : Promise!Give(n) \/ Promise!Destroy(n)
<1>1. amount \in 0 .. circulating /\ amount <= circulating
  BY U64MaxPositive DEF Donate, Burn, WoodInv, WoodTypeOK
<1>2. proof' = proof
  BY DEF Donate, Burn
<1>3. [a \in Authorities |-> BalanceOf(a)]' = [a \in Authorities |-> BalanceOf(a)]
  BY <1>2 DEF BalanceOf
<1>4. CASE Donate(amount)
  BY <1>1, <1>3, <1>4 DEF Donate, Promise!Give
<1>5. CASE Burn(amount)
  BY <1>1, <1>3, <1>5 DEF Burn, historyVars, Promise!Destroy
<1> QED
  BY <1>4, <1>5

(* A reprocess into wood issues. *)
LEMMA ReprocessIssues ==
  ASSUME WoodInv, NEW amount \in U64, ReprocessIntoWood(amount)
  PROVE  Promise!Issue
<1>1. amount \in Nat /\ reprocessed \in Nat /\ reprocessed' = reprocessed + amount
  BY U64MaxPositive DEF ReprocessIntoWood, WoodInv, WoodTypeOK
<1>2. reprocessed' >= reprocessed /\ reprocessed' - reprocessed = amount
  BY <1>1
<1>3. proof' = proof
  BY DEF ReprocessIntoWood
<1>4. [a \in Authorities |-> BalanceOf(a)]' = [a \in Authorities |-> BalanceOf(a)]
  BY <1>3 DEF BalanceOf
<1>5. \/ circulating' = circulating + (reprocessed' - reprocessed) /\ donated' = donated
      \/ donated' = donated + (reprocessed' - reprocessed) /\ circulating' = circulating
  BY <1>2 DEF ReprocessIntoWood
<1> QED
  BY <1>2, <1>4, <1>5 DEF Promise!Issue

(* Opening and closing a proof, resets, time and tools are not seen.       *)
LEMMA UnseenSteps ==
  ASSUME WoodInv,
         \/ \E a \in Authorities, m \in Miners : OpenWood(a, m)
         \/ \E a \in Authorities : CloseWood(a)
         \/ ResetWood \/ ResetWoodTooSoon \/ Tick \/ ToolStep \/ UNCHANGED vars
  PROVE  UNCHANGED Promise!vaultVars
<1>1. CASE \E a \in Authorities, m \in Miners : OpenWood(a, m)
  <2>1. \A c \in Authorities : BalanceOf(c)' = BalanceOf(c)
    BY <1>1 DEF OpenWood, BalanceOf
  <2> QED
    BY <1>1, <2>1, VaultStutters DEF OpenWood
<1>2. CASE \E a \in Authorities : CloseWood(a)
  <2>1. \A c \in Authorities : BalanceOf(c)' = BalanceOf(c)
    BY <1>2 DEF CloseWood, BalanceOf
  <2> QED
    BY <1>2, <2>1, VaultStutters DEF CloseWood, historyVars
<1>3. CASE ResetWood \/ ResetWoodTooSoon \/ Tick \/ ToolStep \/ UNCHANGED vars
  <2>1. UNCHANGED <<proof, circulating, donated, reprocessed>>
    BY <1>3 DEF ResetWood, ResetWoodTooSoon, Tick, ToolStep, vars, chainVars, historyVars
  <2> QED
    BY <2>1, VaultStutters DEF BalanceOf
<1> QED
  BY <1>1, <1>2, <1>3

(* The wood ledger keeps the promises of the vault, although it mints what *)
(* it owes only afterwards: what a reprocess mints (reprocess.rs) is in no *)
(* balance, and takes from none.                                           *)
THEOREM WoodKeepsItsPromise == WoodSpec => WoodImplementsVault
<1>1. WoodInit => Promise!VaultInit
  <2> SUFFICES ASSUME WoodInit PROVE Promise!VaultInit
    OBVIOUS
  <2>1. \A a \in Authorities : BalanceOf(a) = 0
    BY DEF WoodInit, BalanceOf
  <2> QED
    BY <2>1 DEF WoodInit, Promise!VaultInit
<1>2. WoodInv /\ [WoodNext]_vars => [Promise!VaultNext]_(Promise!vaultVars)
  <2> SUFFICES ASSUME WoodInv, [WoodNext]_vars
               PROVE  Promise!VaultNext \/ UNCHANGED Promise!vaultVars
    OBVIOUS
  <2>1. \A amount \in Amounts : amount \in U64
    BY WoodLedgerAssumption
  <2>2. \A a \in Authorities : [c \in Authorities |-> BalanceOf(c)][a] = BalanceOf(a)
    OBVIOUS
  <2>3. CASE Chop
    BY <2>3, ChopEarns DEF Promise!VaultNext
  <2>4. CASE \E a \in Authorities, amount \in Amounts : ClaimWood(a, amount)
    BY <2>1, <2>2, <2>4, ClaimWithdraws DEF Promise!VaultNext
  <2>5. CASE \E a \in Authorities, amount \in Amounts : StakeWood(a, amount)
    BY <2>1, <2>5, StakeDeposits DEF Promise!VaultNext
  <2>6. CASE \E amount \in Amounts : Donate(amount) \/ Burn(amount)
    BY <2>1, <2>6, TransfersLeaveBalances DEF Promise!VaultNext
  <2>7. CASE \/ \E a \in Authorities, m \in Miners : OpenWood(a, m)
             \/ \E a \in Authorities : CloseWood(a)
             \/ ResetWood \/ ResetWoodTooSoon \/ Tick \/ ToolStep \/ UNCHANGED vars
    BY <2>7, UnseenSteps
  <2>8. CASE \E amount \in Amounts : ReprocessIntoWood(amount)
    BY <2>1, <2>8, ReprocessIssues DEF Promise!VaultNext
  <2> QED
    BY <2>3, <2>4, <2>5, <2>6, <2>7, <2>8 DEF WoodNext
<1> QED
  BY <1>1, <1>2, WoodInvariant, PTL DEF WoodSpec, WoodImplementsVault, Promise!VaultSpec


-----------------------------------------------------------------------------
(* An epoch of wood that is over can be followed by a new one, while its   *)
(* mint has room for what was mined: liveness, less its fairness.          *)

(* What would make a reset fail: no top balance to be found, a rate or a   *)
(* pool that does not fit, no room for the mint.                           *)
WoodResetSucceeds ==
  /\ WoodResetIsDue
  /\ \E top \in TopBalances : top \in U64 /\ \A other \in TopBalances : other <= top
  /\ NextWoodRate.base_reward_rate \in U64 /\ NextEpochRewards \in U64
  /\ supply + TotalEpochRewards \in U64 /\ treasury + TotalEpochRewards \in U64

EndedWoodEpochsCanBeReset ==
  ~WoodEpochIsActive /\ supply + unminted \in U64 => WoodResetSucceeds

(* However hashes, stakes and late resets have left the accounts, the      *)
(* reset of an epoch that is over fails only if the mint, a u64, has no    *)
(* room for what miners were credited since the last one (reset_wood.rs).  *)
THEOREM WoodResetsSucceed == WoodSpec => []EndedWoodEpochsCanBeReset
<1>1. WoodInv => EndedWoodEpochsCanBeReset
  <2> SUFFICES ASSUME WoodInv, ~WoodEpochIsActive, supply + unminted \in U64
               PROVE  WoodResetSucceeds
    BY DEF EndedWoodEpochsCanBeReset
  <2> USE DEF WoodInv
  <2>1. WoodResetIsDue
    <3>1. clock \in Nat /\ config.last_reset_at \in Nat /\ WOOD_EPOCH_DURATION \in Nat
      BY WoodConstants DEF WoodTypeOK, WoodConfig
    <3> QED
      BY <3>1 DEF WoodResetIsDue, WoodEpochIsActive
  <2>2. PICK top \in TopBalances : \A other \in TopBalances : other <= top
    <3>1. TopBalances \subseteq 0 .. U64Max /\ TopBalances # {} /\ U64Max \in Nat
      BY U64MaxPositive DEF TopBalances, WoodTypeOK, WoodBus, U64
    <3> QED
      BY <3>1, LargestNatural
  <2>3. top \in U64
    BY U64MaxPositive DEF TopBalances, WoodTypeOK, WoodBus, U64
  <2>4. NextWoodRate.base_reward_rate \in U64 /\ NextEpochRewards \in U64
    BY NextWoodRateFacts, NextPool
  <2>5. supply + TotalEpochRewards \in U64 /\ treasury + TotalEpochRewards \in U64
    <3>1. supply \in Nat /\ treasury \in Nat /\ circulating \in Nat /\ unminted \in Nat
          /\ supply = treasury + circulating /\ U64Max \in Nat
      BY U64MaxPositive DEF WoodTypeOK, WoodBacking
    <3>2. supply + unminted \in 0 .. U64Max
      BY DEF U64
    <3>3. treasury + unminted \in 0 .. U64Max
      BY <3>1, <3>2
    <3> QED
      BY <3>2, <3>3, MintsWhatWasMined DEF U64
  <2> QED
    BY <2>1, <2>2, <2>3, <2>4, <2>5 DEF WoodResetSucceeds
<1> QED
  BY <1>1, WoodInvariant, PTL

(* An epoch that is over stays over until a reset begins the next one, and *)
(* what the reset would bring the supply to grows by reprocesses alone.    *)
EndedWoodEpochsWait ==
  [][~WoodEpochIsActive =>
       \/ ResetWood /\ WoodEpochIsActive'
       \/ /\ ~WoodEpochIsActive'
          /\ supply' + unminted'
               <= supply + unminted + (reprocessed' - reprocessed)]_vars

(* A step other than a hash or a reset does not turn back the clock, nor   *)
(* owe, nor mint but by a reprocess.                                       *)
LEMMA TimeAndSupply ==
  ASSUME WoodInv, [WoodNext]_vars, ~Chop, ~ResetWood
  PROVE  /\ config' = config /\ clock' \in Nat /\ clock <= clock'
         /\ supply' \in Int /\ reprocessed' \in Int /\ unminted' = unminted
         /\ supply' <= supply + (reprocessed' - reprocessed)
<1>1. clock \in Nat /\ supply \in Nat /\ reprocessed \in Nat
  BY U64MaxPositive DEF WoodInv, WoodTypeOK
<1>2. clock <= clock /\ supply <= supply + (reprocessed - reprocessed)
  BY <1>1
<1>3. CASE \E a \in Authorities, m \in Miners : OpenWood(a, m)
  BY <1>1, <1>2, <1>3 DEF OpenWood
<1>4. CASE \E a \in Authorities, amount \in Amounts : ClaimWood(a, amount) \/ StakeWood(a, amount)
  BY <1>1, <1>2, <1>4 DEF ClaimWood, StakeWood, historyVars
<1>5. CASE \E a \in Authorities : CloseWood(a)
  BY <1>1, <1>2, <1>5 DEF CloseWood, historyVars
<1>6. CASE \E amount \in Amounts : Donate(amount)
  BY <1>1, <1>2, <1>6 DEF Donate
<1>7. CASE \E amount \in Amounts : Burn(amount)
  <2>1. PICK amount \in Amounts : Burn(amount)
    BY <1>7
  <2>2. /\ supply' = supply - amount /\ clock' = clock /\ config' = config
        /\ unminted' = unminted /\ reprocessed' = reprocessed
    BY <2>1 DEF Burn, historyVars
  <2>3. amount \in Nat
    BY WoodLedgerAssumption, U64MaxPositive
  <2> QED
    BY <1>1, <2>2, <2>3
<1>8. CASE Tick
  <2>1. PICK d \in Advances : clock' = clock + d
    BY <1>8 DEF Tick
  <2>2. d \in Nat
    BY WoodLedgerAssumption
  <2> QED
    BY <1>1, <1>2, <1>8, <2>1, <2>2 DEF Tick, chainVars, historyVars
<1>9. CASE ToolStep \/ ResetWoodTooSoon \/ UNCHANGED vars
  BY <1>1, <1>2, <1>9 DEF ToolStep, ResetWoodTooSoon, vars, chainVars, historyVars
<1>10. CASE \E amount \in Amounts : ReprocessIntoWood(amount)
  <2>1. PICK amount \in Amounts : ReprocessIntoWood(amount)
    BY <1>10
  <2>2. /\ supply' = supply + amount /\ clock' = clock /\ config' = config
        /\ unminted' = unminted /\ reprocessed' = reprocessed + amount
    BY <2>1 DEF ReprocessIntoWood
  <2>3. amount \in Nat
    BY WoodLedgerAssumption, U64MaxPositive
  <2> QED
    BY <1>1, <2>2, <2>3
<1> QED
  BY <1>3, <1>4, <1>5, <1>6, <1>7, <1>8, <1>9, <1>10 DEF WoodNext

(* Room that the mint of wood has when an epoch ends, it keeps until the   *)
(* reset, but for what reprocesses take: no hash counts in between         *)
(* (chop_wood.rs, reset_wood.rs, reprocess.rs).                            *)
THEOREM WoodEpochsWait == WoodSpec => EndedWoodEpochsWait
<1>1. WoodInv /\ [WoodNext]_vars =>
        [~WoodEpochIsActive =>
           \/ ResetWood /\ WoodEpochIsActive'
           \/ /\ ~WoodEpochIsActive'
              /\ supply' + unminted'
                   <= supply + unminted + (reprocessed' - reprocessed)]_vars
  <2> SUFFICES ASSUME WoodInv, [WoodNext]_vars, ~WoodEpochIsActive
               PROVE  \/ ResetWood /\ WoodEpochIsActive'
                      \/ /\ ~WoodEpochIsActive'
                         /\ supply' + unminted'
                              <= supply + unminted + (reprocessed' - reprocessed)
    OBVIOUS
  <2>1. clock \in Nat /\ config.last_reset_at \in Nat /\ WOOD_EPOCH_DURATION \in Nat \ {0}
        /\ supply \in Nat /\ unminted \in Nat /\ reprocessed \in Nat
    BY WoodConstants, U64MaxPositive DEF WoodInv, WoodTypeOK, WoodConfig
  <2>2. ~Chop
    <3> SUFFICES ASSUME Chop PROVE FALSE
      OBVIOUS
    <3>1. PICK e \in DOMAIN proof, b \in Buses, d \in 0 .. MaxDifficulty,
               t \in [durability : Nat, multiplier : Nat] :
            ChoppedWith(e, b, d, t)
      BY ChopCases DEF WoodInv
    <3> QED
      BY <3>1 DEF ChoppedWith
  <2>3. CASE ResetWood
    <3>1. config'.last_reset_at = clock /\ clock' = clock
      BY <2>3 DEF ResetWood
    <3>2. WoodEpochIsActive'
      BY <2>1, <3>1 DEF WoodEpochIsActive
    <3> QED
      BY <2>3, <3>2
  <2>4. CASE ~ResetWood
    <3>1. /\ config' = config /\ clock' \in Nat /\ clock <= clock'
          /\ supply' \in Int /\ reprocessed' \in Int /\ unminted' = unminted
          /\ supply' <= supply + (reprocessed' - reprocessed)
      BY <2>2, <2>4, TimeAndSupply
    <3>2. ~(clock < config.last_reset_at + WOOD_EPOCH_DURATION)
      BY DEF WoodEpochIsActive
    <3>3. ~(clock' < config'.last_reset_at + WOOD_EPOCH_DURATION)
      BY <2>1, <3>1, <3>2
    <3>4. ~WoodEpochIsActive'
      BY <3>3 DEF WoodEpochIsActive
    <3>5. supply' + unminted' <= supply + unminted + (reprocessed' - reprocessed)
      <4>1. \A s, s2, u, k \in Int : s2 <= s + k => s2 + u <= s + u + k
        OBVIOUS
      <4>2. supply \in Int /\ unminted \in Int /\ reprocessed' - reprocessed \in Int
        BY <2>1, <3>1
      <4>3. supply' + unminted <= supply + unminted + (reprocessed' - reprocessed)
        BY <3>1, <4>1, <4>2
      <4> QED
        BY <3>1, <4>3
    <3> QED
      BY <3>4, <3>5
  <2> QED
    BY <2>3, <2>4
<1> QED
  BY <1>1, WoodInvariant, PTL DEF WoodSpec, EndedWoodEpochsWait
=============================================================================
