----------------------------- MODULE WoodLedger -----------------------------
(***************************************************************************)
(* The wood side of the program: the wood config, buses and proofs, the    *)
(* wood mint and the treasury's wood token account, with one action per    *)
(* instruction that touches them.  Its accounts are disjoint from those of *)
(* coal, and so are its tools: they have seeds and a type of their own.    *)
(*                                                                         *)
(* Unlike coal, wood is mined first and minted afterwards: a reset mints   *)
(* what the past epoch paid out, and the pool of the next one grows out of *)
(* what is left in the buses.                                              *)
(***************************************************************************)
EXTENDS WoodReward, RewardRate, Tools, FunctionSums

CONSTANTS
  MaxDifficulty, \* the best solution a miner finds (bound)
  Amounts,       \* the amounts of transfers and reprocesses (bound)
  MaxReprocessed, \* what reprocesses mint in all (bound)
  Advances,      \* the steps of the cluster clock, in seconds (bound)
  InitialTime, MaxTime \* the clock runs between them (bound)

ASSUME WoodLedgerAssumption ==
  /\ IsFiniteSet(Authorities)
  /\ MaxDifficulty \in Nat
  /\ Amounts \subseteq U64
  /\ MaxReprocessed \in Nat
  /\ Advances \subseteq Nat
  /\ InitialTime \in Nat /\ InitialTime >= WOOD_EPOCH_DURATION
  /\ MaxTime \in Nat

VARIABLES
  clock,       \* Clock::unix_timestamp
  config,      \* the WoodConfig account
  bus,         \* the wood Bus accounts
  proof,       \* the open ProofV2 accounts, by authority
  supply,      \* supply of the wood mint
  treasury,    \* balance of the treasury's wood token account
  circulating, \* wood in every other token account
  (* history *)
  unminted,    \* rewards credited to proofs since the last reset
  donated,     \* wood that reached the treasury without an owner
  reprocessed, \* wood minted by reprocesses
  paid         \* rewards ever credited to each authority's current proof

chainVars == <<config, bus, proof, supply, treasury, circulating, toolVars>>
historyVars == <<unminted, donated, reprocessed, paid>>
vars == <<clock, chainVars, historyVars>>

WoodConfig == [last_reset_at : Nat, min_difficulty : Nat, base_reward_rate : U64,
               top_balance : U64, total_epoch_rewards : U64]

WoodBus == [rewards : U64, theoretical_rewards : U64, top_balance : U64]

(* The challenge, the last hash and the resource are left out. *)
ProofV2 == [miner : Miners, balance : U64, last_hash_at : Nat, last_stake_at : Nat,
            total_hashes : U64, total_rewards : U64]

WoodTypeOK ==
  /\ clock \in Nat
  /\ config \in WoodConfig
  /\ bus \in [Buses -> WoodBus]
  /\ DOMAIN proof \subseteq Authorities /\ proof \in [DOMAIN proof -> ProofV2]
  /\ supply \in U64 /\ treasury \in U64 /\ circulating \in U64
  /\ unminted \in Nat /\ donated \in Nat /\ reprocessed \in Nat
  /\ paid \in [Authorities -> Nat]
  /\ ToolTypeOK

(* InitWood ran once; the instruction is not dispatched any more. *)
WoodInit ==
  /\ clock = InitialTime
  /\ config = [last_reset_at |-> 0, min_difficulty |-> INITIAL_MIN_DIFFICULTY,
               base_reward_rate |-> INITIAL_BASE_WOOD_REWARD_RATE, top_balance |-> 0,
               total_epoch_rewards |-> 0]
  /\ bus = [b \in Buses |-> [rewards |-> INITIAL_WOOD_EPOCH_REWARDS,
                             theoretical_rewards |-> 0, top_balance |-> 0]]
  /\ proof = [a \in {} |-> {}]
  /\ supply = 0 /\ treasury = 0 /\ circulating = 0
  /\ unminted = 0 /\ donated = 0 /\ reprocessed = 0 /\ paid = [a \in Authorities |-> 0]
  /\ ToolInit

-----------------------------------------------------------------------------
OpenWood(a, m) ==
  /\ a \notin DOMAIN proof
  /\ proof' = [c \in DOMAIN proof \cup {a} |->
                 IF c = a
                 THEN [miner |-> m, balance |-> 0, last_hash_at |-> clock,
                       last_stake_at |-> clock, total_hashes |-> 0, total_rewards |-> 0]
                 ELSE proof[c]]
  /\ paid' = [paid EXCEPT ![a] = 0]
  /\ UNCHANGED <<clock, config, bus, supply, treasury, circulating, toolVars,
                 unminted, donated, reprocessed>>

WoodEpochIsActive == clock < config.last_reset_at + WOOD_EPOCH_DURATION

(* The miner of a's proof submits a solution of difficulty d to bus b.     *)
ChoppedWith(a, b, d, t) ==
  /\ WoodEpochIsActive
  /\ clock >= TargetTime(proof[a]) - TOLERANCE
  /\ d >= config.min_difficulty
  /\ CanChop(config, d)
  /\ LET out == ChopOutcome(config, proof[a], bus[b], t, d, clock)
     IN  /\ ~out.panics
         /\ bus' = [bus EXCEPT ![b] =
              [rewards |-> @.rewards - out.reward_actual,
               theoretical_rewards |-> @.theoretical_rewards + out.reward,
               top_balance |-> IF StakeIsActive(proof[a], clock)
                               THEN Greater(@.top_balance, proof[a].balance)
                               ELSE @.top_balance]]
         /\ proof' = [proof EXCEPT
              ![a].balance = @ + out.reward_actual,
              ![a].last_hash_at = HashTime(proof[a], clock),
              ![a].total_hashes = SatAdd(@, 1),
              ![a].total_rewards = SatAdd(@, out.reward)]
         /\ unminted' = unminted + out.reward_actual
         /\ paid' = [paid EXCEPT ![a] = @ + out.reward_actual]
  /\ UNCHANGED <<clock, config, supply, treasury, circulating, donated, reprocessed>>

(* No tool account, or one at which nothing is equipped. *)
ChopBare(a, b, d) == ChoppedWith(a, b, d, NoTool) /\ UNCHANGED toolVars

ChopEquipped(a, b, d, c) ==
  /\ c \in DOMAIN tool /\ tool[c].miner = proof[a].miner
  /\ ChoppedWith(a, b, d, tool[c])
  /\ Wear(c, ChopOutcome(config, proof[a], bus[b], tool[c], d, clock).durability)

Chop ==
  \E a \in DOMAIN proof, b \in Buses, d \in 0 .. MaxDifficulty :
    \/ ChopBare(a, b, d)
    \/ \E c \in DOMAIN tool : ChopEquipped(a, b, d, c)

(* As with coal, the beneficiary may be the treasury itself. *)
ClaimWood(a, amount) ==
  /\ a \in DOMAIN proof
  /\ amount <= proof[a].balance /\ amount <= treasury
  /\ proof' = [proof EXCEPT ![a].balance = @ - amount]
  /\ \/ /\ treasury' = treasury - amount
        /\ circulating' = circulating + amount
        /\ UNCHANGED donated
     \/ /\ donated' = donated + amount
        /\ UNCHANGED <<treasury, circulating>>
  /\ UNCHANGED <<clock, config, bus, supply, toolVars, unminted, reprocessed, paid>>

StakeWood(a, amount) ==
  /\ a \in DOMAIN proof
  /\ proof[a].balance + amount \in U64 /\ amount <= circulating
  /\ proof' = [proof EXCEPT ![a].balance = @ + amount, ![a].last_stake_at = clock]
  /\ treasury' = treasury + amount
  /\ circulating' = circulating - amount
  /\ UNCHANGED <<clock, config, bus, supply, toolVars, historyVars>>

(* A slip: the balance is not looked at. *)
CloseWoodUnchecked(a) ==
  /\ a \in DOMAIN proof
  /\ proof' = [c \in DOMAIN proof \ {a} |-> proof[c]]
  /\ UNCHANGED <<clock, config, bus, supply, treasury, circulating, toolVars, historyVars>>

CloseWood(a) ==
  /\ a \in DOMAIN proof /\ proof[a].balance = 0
  /\ proof' = [c \in DOMAIN proof \ {a} |-> proof[c]]
  /\ UNCHANGED <<clock, config, bus, supply, treasury, circulating, toolVars, historyVars>>

-----------------------------------------------------------------------------
BusRewards == SumOver([b \in Buses |-> bus[b].rewards], Buses)

TotalRemainingRewards == Lesser(BusRewards, U64Max)

TotalTheoreticalRewards ==
  Lesser(SumOver([b \in Buses |-> bus[b].theoretical_rewards], Buses), U64Max)

WoodResetIsDue == config.last_reset_at + WOOD_EPOCH_DURATION <= clock

(* A slip: what the hashes would have been paid by bottomless buses. *)
TheoreticalEpochRewards == TotalTheoreticalRewards

(* What the miners took since the last reset. *)
TotalEpochRewards == SatSub(config.total_epoch_rewards, TotalRemainingRewards)

(* Growth doubles after an epoch in which nobody mined. *)
PropagationRate ==
  IF TotalEpochRewards = 0 THEN WOOD_PROPOGATION_RATE \div 2 ELSE WOOD_PROPOGATION_RATE

(* Slips: every bus gets the whole remainder; the limits are left out of   *)
(* what the config records.                                                *)
WholeRemainder(b) ==
  Lesser(Greater(SatAdd(TotalRemainingRewards, bus[b].rewards \div PropagationRate),
                 MIN_WOOD_EPOCH_REWARDS),
         MAX_WOOD_EPOCH_REWARDS)

(* A bus gets its share of the remainder and a fraction of its own rewards. *)
NextBusRewards(b) ==
  Lesser(Greater(SatAdd(TotalRemainingRewards \div BUS_COUNT,
                        bus[b].rewards \div PropagationRate),
                 MIN_WOOD_EPOCH_REWARDS),
         MAX_WOOD_EPOCH_REWARDS)

UnlimitedEpochRewards ==
  SumOver([b \in Buses |-> SatAdd(TotalRemainingRewards \div BUS_COUNT,
                                  bus[b].rewards \div PropagationRate)], Buses)

NextEpochRewards == Lesser(SumOver([b \in Buses |-> NextBusRewards(b)], Buses), U64Max)

TargetRewards == NextEpochRewards \div BUS_COUNT

(* The rate is left alone after an epoch in which nobody mined, but the    *)
(* difficulty is adjusted after every epoch.                               *)
NextWoodRate ==
  AdjustedDifficulty(
    IF TotalEpochRewards > 0
    THEN CalculateNewRewardRate(config.base_reward_rate, TotalTheoreticalRewards,
                                TargetRewards, TargetRewards,
                                WOOD_DECREMENTAL_SMOOTHING_FACTOR, SMOOTHING_FACTOR)
    ELSE config.base_reward_rate,
    config.min_difficulty,
    BASE_WOOD_REWARD_RATE_MIN_THRESHOLD, BASE_WOOD_REWARD_RATE_MAX_THRESHOLD)

TopBalances == {0} \cup {bus[b].top_balance : b \in Buses}

(* A new epoch.  There is no cap, but the supply of a mint is a u64: a     *)
(* mint that would overflow it fails, and the instruction as a whole.      *)
ResetWood ==
  /\ WoodResetIsDue
  /\ supply + TotalEpochRewards \in U64
  /\ \E top \in TopBalances :
       /\ \A other \in TopBalances : other <= top
       /\ config' = [last_reset_at       |-> clock,
                     min_difficulty      |-> NextWoodRate.min_difficulty,
                     base_reward_rate    |-> NextWoodRate.base_reward_rate,
                     top_balance         |-> top,
                     total_epoch_rewards |-> NextEpochRewards]
  /\ bus' = [b \in Buses |-> [rewards |-> NextBusRewards(b), theoretical_rewards |-> 0,
                              top_balance |-> 0]]
  /\ supply' = supply + TotalEpochRewards
  /\ treasury' = treasury + TotalEpochRewards
  /\ unminted' = 0
  /\ UNCHANGED <<clock, proof, circulating, toolVars, donated, reprocessed, paid>>

(* A reset that comes early succeeds and changes nothing. *)
ResetWoodTooSoon == ~WoodResetIsDue /\ UNCHANGED vars

(* A reprocess trades the statistics of a coal proof, and what it mints is *)
(* of the mint that its caller names: perhaps wood, into any wood token    *)
(* account, the treasury's too.                                            *)
ReprocessIntoWood(amount) ==
  /\ reprocessed + amount <= MaxReprocessed
  /\ supply + amount \in U64
  /\ supply' = supply + amount
  /\ reprocessed' = reprocessed + amount
  /\ \/ circulating' = circulating + amount /\ UNCHANGED <<treasury, donated>>
     \/ treasury' = treasury + amount /\ donated' = donated + amount /\ UNCHANGED circulating
  /\ UNCHANGED <<clock, config, bus, proof, toolVars, unminted, paid>>

Donate(amount) ==
  /\ amount <= circulating
  /\ circulating' = circulating - amount
  /\ treasury' = treasury + amount
  /\ donated' = donated + amount
  /\ UNCHANGED <<clock, config, bus, proof, supply, toolVars, unminted, reprocessed, paid>>

Burn(amount) ==
  /\ amount <= circulating
  /\ circulating' = circulating - amount
  /\ supply' = supply - amount
  /\ UNCHANGED <<clock, config, bus, proof, treasury, toolVars, historyVars>>

Tick ==
  /\ \E d \in Advances : clock + d <= MaxTime /\ clock' = clock + d
  /\ UNCHANGED <<chainVars, historyVars>>

ToolStep ==
  /\ \/ \E a \in Authorities, m \in Miners, x \in Assets : Equip(a, m, x)
     \/ \E a \in Authorities, x \in Assets : Unequip(a, x)
     \/ \E x \in Assets, c \in Authorities : Trade(x, c)
  /\ UNCHANGED <<clock, config, bus, proof, supply, treasury, circulating, historyVars>>

WoodNext ==
  \/ \E a \in Authorities, m \in Miners : OpenWood(a, m)
  \/ Chop
  \/ \E a \in Authorities, amount \in Amounts : ClaimWood(a, amount)
  \/ \E a \in Authorities, amount \in Amounts : StakeWood(a, amount)
  \/ \E a \in Authorities : CloseWood(a)
  \/ ResetWood
  \/ ResetWoodTooSoon
  \/ \E amount \in Amounts : ReprocessIntoWood(amount)
  \/ \E amount \in Amounts : Donate(amount)
  \/ \E amount \in Amounts : Burn(amount)
  \/ Tick
  \/ ToolStep

WoodSpec == WoodInit /\ [][WoodNext]_vars

-----------------------------------------------------------------------------
BalanceOf(a) == IF a \in DOMAIN proof THEN proof[a].balance ELSE 0

Balances == SumOver([a \in Authorities |-> BalanceOf(a)], Authorities)

(* Every grain that miners own is in the treasury or will be minted at the *)
(* next reset: no grain is mined without ever being minted, none is minted *)
(* twice, whatever hashes, claims, late resets and reprocesses come in     *)
(* between.                                                                *)
WoodBacking ==
  /\ supply = treasury + circulating
  /\ treasury + unminted = Balances + donated

(* A reset can tell what was mined from the config and the buses alone:    *)
(* the recorded size of the pool is what is left of it and what was paid.  *)
PoolAddsUp ==
  IF config.last_reset_at = 0
  THEN unminted = 0 /\ config.total_epoch_rewards = 0
  ELSE config.total_epoch_rewards = BusRewards + unminted

(* A reset cannot inflate the pool, however unevenly the buses were used:  *)
(* it grows by 5%, by 10% after an epoch without hashes, and by what lifts *)
(* empty buses to their minimum.                                           *)
PoolGrowsSlowly ==
  [][config'.last_reset_at # config.last_reset_at =>
       PropagationRate * config'.total_epoch_rewards
         <= (PropagationRate + 1) * BusRewards
              + PropagationRate * BUS_COUNT * MIN_WOOD_EPOCH_REWARDS]_vars

(* The wood rate may fall by more than a notch of difficulty makes up for, *)
(* and is capped by what a bus holds.  It never sticks at zero all the     *)
(* same, and a rate at the upper threshold is left only at difficulty 1.   *)
WoodRateBand ==
  /\ config.min_difficulty >= 1
  /\ config.base_reward_rate >= 1
  /\ config.min_difficulty > 1 =>
       config.base_reward_rate < BASE_WOOD_REWARD_RATE_MAX_THRESHOLD

(* What is left of an axe grows by no more than rounding, whoever holds    *)
(* it, and a hash costs it no more than it pays: wood has no cap per hash  *)
(* that the charge could overlook.                                         *)
WoodWearWithinPay ==
  [][\A x \in Assets :
       /\ NotRepaired(x)
       /\ WornWithin(x, SatSub(unminted', unminted) + Rounding(x))]_vars

(* The wood ledger keeps the same promises to its owners as the coal one,  *)
(* although it mints what they mined only afterwards.                      *)
Promise == INSTANCE Vault WITH
  Owners <- Authorities, balance <- [a \in Authorities |-> BalanceOf(a)],
  outside <- circulating, given <- donated, issued <- reprocessed

WoodImplementsVault == Promise!VaultSpec

-----------------------------------------------------------------------------
(* proof_v2.rs, on total_rewards: "The total lifetime rewards distributed  *)
(* to this miner."                                                         *)
LifetimeRewardsWerePaid == \A a \in DOMAIN proof : proof[a].total_rewards <= paid[a]
=============================================================================
