-------------------------- MODULE CoalLedgerProofs --------------------------
(***************************************************************************)
(* Proofs about the coal ledger, for every value of the constants: any     *)
(* number of miners and buses, any word size, clock and amounts.           *)
(*                                                                         *)
(* LedgerInv is inductive.  TypeOK needs its other conjuncts: the treasury *)
(* stays a u64 because it is within the supply, and the supply because a   *)
(* reset mints up to the cap and the token program refuses what a          *)
(* reprocess would mint past a u64; a bus stays a u64 because no payout    *)
(* exceeds it.  Backing needs BusBound, because a reset mints the pool     *)
(* less what the buses still hold, saturating at zero.                     *)
(***************************************************************************)
EXTENDS CoalLedger, RewardTheorems, ToolsProofs

BusBound == \A b \in Buses : bus[b].rewards <= BUS_COAL_EPOCH_REWARDS

LedgerInv ==
  TypeOK /\ CustodyMatches /\ RateBand /\ BusBound /\ Backing /\ SupplyConserved

(* The sums of the ledger are naturals. *)
LEMMA SumsType ==
  ASSUME TypeOK
  PROVE  /\ BusRewards \in Nat /\ Balances \in Nat
         /\ \A b \in Buses : bus[b].rewards \in Nat
         /\ \A a \in Authorities : BalanceOf(a) \in Nat
<1>1. \A b \in Buses : bus[b].rewards \in Nat
  BY U64MaxPositive DEF TypeOK, Bus
<1>2. \A a \in Authorities : BalanceOf(a) \in Nat
  BY U64MaxPositive DEF TypeOK, Proof, BalanceOf
<1>3. BusRewards \in Nat
  BY <1>1, ConstsAssumption, SumOverNat DEF BusRewards
<1>4. Balances \in Nat
  BY <1>2, LedgerAssumption, SumOverNat DEF Balances
<1> QED
  BY <1>1, <1>2, <1>3, <1>4

(* The buses together hold at most a full pool. *)
LEMMA PoolBound ==
  ASSUME TypeOK, BusBound
  PROVE  BusRewards <= MAX_COAL_EPOCH_REWARDS
<1> DEFINE f == [b \in Buses |-> bus[b].rewards]
           g == [b \in Buses |-> BUS_COAL_EPOCH_REWARDS]
<1>1. IsFiniteSet(Buses) /\ BUS_COAL_EPOCH_REWARDS \in Nat
  BY ConstsAssumption, DerivedConstants
<1>2. \A b \in Buses : f[b] \in Int /\ g[b] \in Int /\ f[b] <= g[b]
  BY <1>1, SumsType DEF BusBound
<1>3. SumOver(f, Buses) <= SumOver(g, Buses)
  <2> HIDE DEF f, g
  <2> QED
    BY <1>1, <1>2, SumOverMonotone
<1>4. SumOver(g, Buses) = BUS_COAL_EPOCH_REWARDS * Cardinality(Buses)
  <2>1. \A b \in Buses : g[b] = BUS_COAL_EPOCH_REWARDS
    OBVIOUS
  <2> HIDE DEF g
  <2> QED
    BY <1>1, <2>1, SumOverConstant
<1> QED
  BY <1>3, <1>4, DerivedConstants DEF BusRewards, BUS_COUNT

(* Full buses hold a full pool. *)
LEMMA FullPool ==
  ASSUME bus' = Refilled
  PROVE  BusRewards' = MAX_COAL_EPOCH_REWARDS
<1> DEFINE g == [b \in Buses |-> bus'[b].rewards]
<1>1. IsFiniteSet(Buses) /\ BUS_COAL_EPOCH_REWARDS \in Nat
  BY ConstsAssumption, DerivedConstants
<1>2. \A b \in Buses : g[b] = BUS_COAL_EPOCH_REWARDS
  BY DEF Refilled
<1>3. SumOver(g, Buses) = BUS_COAL_EPOCH_REWARDS * Cardinality(Buses)
  <2> HIDE DEF g
  <2> QED
    BY <1>1, <1>2, SumOverConstant
<1> QED
  BY <1>3, DerivedConstants DEF BusRewards, BUS_COUNT

(* The balances when at most one of them changes. *)
LEMMA BalancesChange ==
  ASSUME NEW c \in Authorities,
         \A a \in Authorities : BalanceOf(a) \in Nat /\ BalanceOf(a)' \in Nat,
         \A a \in Authorities \ {c} : BalanceOf(a)' = BalanceOf(a)
  PROVE  Balances' = Balances - BalanceOf(c) + BalanceOf(c)'
<1> DEFINE f == [a \in Authorities |-> BalanceOf(a)]
           g == [a \in Authorities |-> BalanceOf(a)']
<1>1. IsFiniteSet(Authorities)
  BY LedgerAssumption
<1>2. /\ \A a \in Authorities : f[a] \in Int /\ g[a] \in Int
      /\ \A a \in Authorities \ {c} : f[a] = g[a]
      /\ f[c] = BalanceOf(c) /\ g[c] = BalanceOf(c)'
  OBVIOUS
<1>3. SumOver(g, Authorities) = SumOver(f, Authorities) - f[c] + g[c]
  <2> HIDE DEF f, g
  <2> QED
    BY <1>1, <1>2, SumOverChangeOne
<1>4. Balances = SumOver(f, Authorities) /\ Balances' = SumOver(g, Authorities)
  BY DEF Balances
<1> QED
  BY <1>2, <1>3, <1>4

(* The pool when one bus changes. *)
LEMMA BusRewardsChange ==
  ASSUME NEW c \in Buses,
         \A b \in Buses : bus[b].rewards \in Nat /\ bus'[b].rewards \in Nat,
         \A b \in Buses \ {c} : bus'[b].rewards = bus[b].rewards
  PROVE  BusRewards' = BusRewards - bus[c].rewards + bus'[c].rewards
<1> DEFINE f == [b \in Buses |-> bus[b].rewards]
           g == [b \in Buses |-> bus'[b].rewards]
<1>1. IsFiniteSet(Buses)
  BY ConstsAssumption
<1>2. f[c] = bus[c].rewards /\ g[c] = bus'[c].rewards
  OBVIOUS
<1>3. \A b \in Buses : f[b] \in Int /\ g[b] \in Int
  OBVIOUS
<1>4. \A b \in Buses \ {c} : f[b] = g[b]
  OBVIOUS
<1>5. SumOver(g, Buses) = SumOver(f, Buses) - f[c] + g[c]
  <2> HIDE DEF f, g
  <2> QED
    BY <1>1, <1>3, <1>4, SumOverChangeOne
<1>6. BusRewards = SumOver(f, Buses) /\ BusRewards' = SumOver(g, Buses)
  BY DEF BusRewards
<1> QED
  BY <1>2, <1>5, <1>6

(* What a step leaves alone keeps its facts. *)
LEMMA BusUnchanged ==
  ASSUME bus' = bus
  PROVE  BusRewards' = BusRewards /\ (BusBound => BusBound')
  BY DEF BusRewards, BusBound

(* The same, of the miners' balances. *)
LEMMA BalancesUnchanged ==
  ASSUME \A a \in Authorities : BalanceOf(a)' = BalanceOf(a)
  PROVE  Balances' = Balances
<1>1. [a \in Authorities |-> BalanceOf(a)'] = [a \in Authorities |-> BalanceOf(a)]
  OBVIOUS
<1> QED
  BY <1>1 DEF Balances

(* The same, of the config. *)
LEMMA ConfigUnchanged ==
  ASSUME config' = config
  PROVE  RateBand => RateBand'
  BY DEF RateBand, InBand

(* The same, of the tools. *)
LEMMA ToolsUnchanged ==
  ASSUME toolVars' = toolVars
  PROVE  (ToolTypeOK => ToolTypeOK') /\ (CustodyMatches => CustodyMatches')
  BY DEF toolVars, ToolTypeOK, CustodyMatches
-----------------------------------------------------------------------------
(* One lemma per action: LedgerInv is preserved. *)

(* Opening a proof preserves the invariant: the new balance is zero. *)
LEMMA OpenStep ==
  ASSUME LedgerInv, NEW a \in Authorities, NEW m \in Miners, Open(a, m)
  PROVE  LedgerInv'
<1> USE DEF LedgerInv
<1>1. /\ DOMAIN proof' = DOMAIN proof \cup {a}
      /\ a \notin DOMAIN proof
      /\ \A c \in DOMAIN proof : proof'[c] = proof[c]
      /\ proof'[a] = [miner |-> m, balance |-> 0, last_hash_at |-> clock,
                      last_stake_at |-> clock, total_hashes |-> 0, total_rewards |-> 0]
  BY DEF Open
<1>2. TypeOK'
  <2>1. proof'[a] \in Proof
    BY <1>1, U64MaxPositive DEF Proof, U64, TypeOK
  <2>2. DOMAIN proof' \subseteq Authorities /\ proof' \in [DOMAIN proof' -> Proof]
    BY <1>1, <2>1 DEF TypeOK, Open
  <2>3. opened_at' \in [Authorities -> Nat]
    BY DEF TypeOK, Open
  <2>4. ToolTypeOK'
    BY ToolsUnchanged DEF TypeOK, Open
  <2> QED
    BY <2>2, <2>3, <2>4 DEF TypeOK, Open
<1>3. \A c \in Authorities : BalanceOf(c)' = BalanceOf(c)
  BY <1>1 DEF BalanceOf
<1>4. Balances' = Balances
  BY <1>3, BalancesUnchanged
<1> QED
  BY <1>2, <1>4, BusUnchanged, ConfigUnchanged, ToolsUnchanged
     DEF Open, Backing, SupplyConserved

(* Claiming preserves it: the balance and the treasury fall together, or   *)
(* the claim is a donation.                                                *)
LEMMA ClaimStep ==
  ASSUME LedgerInv, NEW a \in Authorities, NEW amount \in U64, Claim(a, amount)
  PROVE  LedgerInv'
<1> USE DEF LedgerInv
<1>1. PICK beneficiary \in {"wallet", "treasury"} : ClaimTo(a, amount, beneficiary)
  BY DEF Claim
<1>2. /\ a \in DOMAIN proof /\ proof[a] \in Proof
      /\ amount <= proof[a].balance /\ amount <= treasury
      /\ DOMAIN proof' = DOMAIN proof
      /\ \A c \in DOMAIN proof \ {a} : proof'[c] = proof[c]
      /\ proof'[a] = [proof[a] EXCEPT !.balance = @ - amount]
  BY <1>1 DEF ClaimTo, TypeOK
<1>3. /\ amount \in Nat /\ treasury \in Nat /\ circulating \in Nat /\ donated \in Nat
      /\ supply \in Nat /\ unfunded \in Nat
      /\ proof[a].balance \in U64 /\ proof[a].balance \in Nat
  BY <1>2, U64MaxPositive DEF TypeOK, Proof
<1>4. /\ proof[a].balance - amount \in U64
      /\ proof'[a].balance = proof[a].balance - amount
      /\ proof'[a] \in Proof
  BY <1>2, <1>3, U64MaxPositive DEF Proof, U64
<1>5. \/ /\ donated' = donated + amount
         /\ treasury' = treasury /\ circulating' = circulating
      \/ /\ treasury' = treasury - amount
         /\ circulating' = circulating + amount
         /\ donated' = donated
  BY <1>1 DEF ClaimTo
<1>6. /\ treasury' \in U64 /\ circulating' \in U64 /\ donated' \in Nat
      /\ supply' = treasury' + circulating' /\ supply' <= MAX_COAL_SUPPLY + reprocessed'
  <2>1. /\ supply' = supply /\ supply \in U64 /\ reprocessed' = reprocessed
        /\ supply = treasury + circulating /\ supply <= MAX_COAL_SUPPLY + reprocessed
    BY <1>1 DEF ClaimTo, TypeOK, SupplyConserved
  <2> QED
    BY <1>2, <1>3, <1>5, <2>1, U64MaxPositive DEF U64
<1>7. TypeOK'
  <2>1. proof' \in [DOMAIN proof' -> Proof]
    BY <1>1, <1>2, <1>4 DEF ClaimTo, TypeOK
  <2>2. ToolTypeOK'
    BY <1>1, ToolsUnchanged DEF TypeOK, ClaimTo
  <2> QED
    BY <1>1, <1>2, <1>6, <2>1, <2>2 DEF ClaimTo, TypeOK
<1>8. Balances' = Balances - amount
  <2>1. /\ BalanceOf(a) = proof[a].balance
        /\ BalanceOf(a)' = proof[a].balance - amount
    BY <1>2, <1>4 DEF BalanceOf
  <2>2. \A c \in Authorities \ {a} : BalanceOf(c)' = BalanceOf(c)
    BY <1>2 DEF BalanceOf
  <2>3. \A c \in Authorities : BalanceOf(c) \in Nat /\ BalanceOf(c)' \in Nat
    BY <1>3, <1>4, <2>1, <2>2, SumsType, U64MaxPositive
  <2>4. Balances' = Balances - BalanceOf(a) + BalanceOf(a)'
    BY <2>2, <2>3, BalancesChange
  <2> QED
    BY <1>3, <2>1, <2>4, SumsType
<1>9. Backing'
  <2>1. BusRewards' = BusRewards /\ unfunded' = unfunded
    BY <1>1, BusUnchanged DEF ClaimTo
  <2> QED
    BY <1>3, <1>5, <1>8, <2>1, SumsType DEF Backing
<1> QED
  BY <1>1, <1>6, <1>7, <1>9, BusUnchanged, ConfigUnchanged, ToolsUnchanged
     DEF ClaimTo, SupplyConserved

(* Staking preserves it: the balance and the treasury rise together. *)
LEMMA StakeStep ==
  ASSUME LedgerInv, NEW a \in Authorities, NEW amount \in U64, Stake(a, amount)
  PROVE  LedgerInv'
<1> USE DEF LedgerInv
<1>1. /\ a \in DOMAIN proof /\ proof[a] \in Proof
      /\ proof[a].balance + amount \in U64 /\ amount <= circulating
      /\ DOMAIN proof' = DOMAIN proof
      /\ \A c \in DOMAIN proof \ {a} : proof'[c] = proof[c]
      /\ proof'[a] = [proof[a] EXCEPT !.balance = @ + amount, !.last_stake_at = clock]
  BY DEF Stake, TypeOK
<1>2. /\ amount \in Nat /\ treasury \in Nat /\ circulating \in Nat /\ donated \in Nat
      /\ supply \in Nat /\ unfunded \in Nat /\ proof[a].balance \in Nat
  BY <1>1, U64MaxPositive DEF TypeOK, Proof
<1>3. proof'[a] \in Proof /\ proof'[a].balance = proof[a].balance + amount
  BY <1>1 DEF Proof, TypeOK
<1>4. /\ treasury' = treasury + amount /\ circulating' = circulating - amount
      /\ supply' = supply /\ unfunded' = unfunded /\ donated' = donated
      /\ reprocessed' = reprocessed
  BY DEF Stake, historyVars
<1>5. /\ treasury' \in U64 /\ circulating' \in U64
      /\ supply' = treasury' + circulating' /\ supply' <= MAX_COAL_SUPPLY + reprocessed'
  BY <1>1, <1>2, <1>4, U64MaxPositive DEF U64, TypeOK, SupplyConserved
<1>6. TypeOK'
  <2>1. proof' \in [DOMAIN proof' -> Proof]
    BY <1>1, <1>3 DEF Stake, TypeOK
  <2>2. ToolTypeOK'
    BY ToolsUnchanged DEF TypeOK, Stake
  <2> QED
    BY <1>1, <1>5, <2>1, <2>2 DEF Stake, TypeOK, historyVars
<1>7. Balances' = Balances + amount
  <2>1. BalanceOf(a) = proof[a].balance /\ BalanceOf(a)' = proof[a].balance + amount
    BY <1>1, <1>3 DEF BalanceOf
  <2>2. \A c \in Authorities \ {a} : BalanceOf(c)' = BalanceOf(c)
    BY <1>1 DEF BalanceOf
  <2>3. \A c \in Authorities : BalanceOf(c) \in Nat /\ BalanceOf(c)' \in Nat
    BY <1>2, <2>1, <2>2, SumsType
  <2>4. Balances' = Balances - BalanceOf(a) + BalanceOf(a)'
    BY <2>2, <2>3, BalancesChange
  <2> QED
    BY <1>2, <2>1, <2>4, SumsType
<1>8. Backing'
  <2>1. BusRewards' = BusRewards
    BY BusUnchanged DEF Stake
  <2> QED
    BY <1>2, <1>4, <1>7, <2>1, SumsType DEF Backing
<1> QED
  BY <1>5, <1>6, <1>8, BusUnchanged, ConfigUnchanged, ToolsUnchanged
     DEF Stake, SupplyConserved

(* Closing a proof preserves it: its balance is zero. *)
LEMMA CloseStep ==
  ASSUME LedgerInv, NEW a \in Authorities, Close(a)
  PROVE  LedgerInv'
<1> USE DEF LedgerInv
<1>1. /\ DOMAIN proof' = DOMAIN proof \ {a} /\ proof[a].balance = 0
      /\ \A c \in DOMAIN proof \ {a} : proof'[c] = proof[c]
      /\ proof' \in [DOMAIN proof' -> Proof]
  BY DEF Close, TypeOK
<1>2. TypeOK'
  BY <1>1, ToolsUnchanged DEF Close, TypeOK, historyVars
<1>3. \A c \in Authorities : BalanceOf(c)' = BalanceOf(c)
  BY <1>1 DEF BalanceOf
<1>4. Balances' = Balances
  BY <1>3, BalancesUnchanged
<1> QED
  BY <1>2, <1>4, BusUnchanged, ConfigUnchanged, ToolsUnchanged
     DEF Close, Backing, SupplyConserved, historyVars

(* Whatever statistics are traded for is a u64. *)
LEMMA ReprocessRewardType ==
  ASSUME NEW hashes \in Nat, NEW rewards \in Nat
  PROVE  \A n \in ReprocessRewards(hashes, rewards) : n \in U64
<1>1. \A n, m \in Nat : n * m \in Nat
  OBVIOUS
<1>2. \A n, m \in Nat : SatMul(n, m) \in U64 /\ SatMul(n, m) \in Nat
  BY <1>1, U64MaxPositive DEF SatMul, Lesser, U64
<1>3. \A root \in CubeRoots(rewards) : CalculateReward(hashes, root) \in Nat
  BY <1>2, ReprocessRewardAssumption DEF CubeRoots, CalculateReward
<1>4. \A number \in 1 .. REPROCESS_MAX_MULTIPLIER : number \in Nat
  OBVIOUS
<1> QED
  BY <1>2, <1>3, <1>4 DEF ReprocessRewards

(* A reprocess keeps every balance.  It mints nothing of coal, or an       *)
(* amount that reaches a wallet, or the treasury and nobody.               *)
LEMMA ReprocessFacts ==
  ASSUME TypeOK, NEW a \in Authorities, NEW n \in Nat, NEW mint, NEW beneficiary,
         ReprocessFor(a, n, mint, beneficiary)
  PROVE  /\ a \in DOMAIN proof /\ DOMAIN proof' = DOMAIN proof
         /\ proof' \in [DOMAIN proof -> Proof]
         /\ proof'[a] = [proof[a] EXCEPT !.total_hashes = 0, !.total_rewards = 0]
         /\ \A c \in DOMAIN proof \ {a} : proof'[c] = proof[c]
         /\ \A c \in Authorities : BalanceOf(c)' = BalanceOf(c)
         /\ UNCHANGED <<clock, config, bus, toolVars, unfunded, mined, genesis, opened_at>>
         /\ \E k \in Nat :
              /\ supply' = supply + k /\ supply' \in U64
              /\ reprocessed' = reprocessed + k
              /\ \/ treasury' = treasury + k /\ donated' = donated + k
                    /\ circulating' = circulating
                 \/ circulating' = circulating + k /\ treasury' = treasury
                    /\ donated' = donated
<1>1. /\ a \in DOMAIN proof
      /\ proof' = [proof EXCEPT ![a].total_hashes = 0, ![a].total_rewards = 0]
      /\ UNCHANGED <<clock, config, bus, toolVars, unfunded, mined, genesis, opened_at>>
  BY DEF ReprocessFor, StatisticsTraded
<1>2. /\ DOMAIN proof' = DOMAIN proof /\ proof' \in [DOMAIN proof -> Proof]
      /\ proof'[a] = [proof[a] EXCEPT !.total_hashes = 0, !.total_rewards = 0]
      /\ \A c \in DOMAIN proof \ {a} : proof'[c] = proof[c]
  BY <1>1, U64MaxPositive DEF TypeOK, Proof, U64
<1>3. \A c \in Authorities : BalanceOf(c)' = BalanceOf(c)
  <2>1. proof'[a].balance = proof[a].balance
    BY <1>1, <1>2 DEF TypeOK, Proof
  <2> QED
    BY <1>1, <1>2, <2>1 DEF BalanceOf
<1>4. CASE mint = "coal"
  BY <1>1, <1>2, <1>3, <1>4 DEF ReprocessFor, CoalMinted
<1>5. CASE mint # "coal"
  <2>1. UNCHANGED <<supply, treasury, circulating, reprocessed, donated>>
    BY <1>5 DEF ReprocessFor
  <2>2. /\ supply' = supply + 0 /\ supply' \in U64 /\ reprocessed' = reprocessed + 0
        /\ circulating' = circulating + 0
    BY <2>1, U64MaxPositive DEF TypeOK
  <2> QED
    BY <1>1, <1>2, <1>3, <2>1, <2>2
<1> QED
  BY <1>4, <1>5

(* Reprocessing preserves the invariant: no balance changes, and what is   *)
(* minted belongs to its wallet, or to nobody.                             *)
LEMMA ReprocessForStep ==
  ASSUME LedgerInv, NEW a \in Authorities, NEW n \in Nat, NEW mint, NEW beneficiary,
         ReprocessFor(a, n, mint, beneficiary)
  PROVE  LedgerInv'
<1> USE DEF LedgerInv
<1>1. /\ DOMAIN proof' = DOMAIN proof /\ proof' \in [DOMAIN proof -> Proof]
      /\ \A c \in Authorities : BalanceOf(c)' = BalanceOf(c)
      /\ UNCHANGED <<clock, config, bus, toolVars, unfunded, mined, genesis, opened_at>>
  BY ReprocessFacts
<1>2. PICK k \in Nat :
        /\ supply' = supply + k /\ supply' \in U64
        /\ reprocessed' = reprocessed + k
        /\ \/ treasury' = treasury + k /\ donated' = donated + k /\ circulating' = circulating
           \/ circulating' = circulating + k /\ treasury' = treasury /\ donated' = donated
  BY ReprocessFacts
<1>3. /\ supply \in Nat /\ treasury \in Nat /\ circulating \in Nat /\ donated \in Nat
      /\ reprocessed \in Nat /\ MAX_COAL_SUPPLY \in Nat /\ unfunded \in Nat
  BY U64MaxPositive, ConstsAssumption DEF TypeOK
<1>4. /\ treasury' \in U64 /\ circulating' \in U64 /\ donated' \in Nat
      /\ reprocessed' \in Nat
      /\ supply' = treasury' + circulating' /\ supply' <= MAX_COAL_SUPPLY + reprocessed'
  BY <1>2, <1>3, U64MaxPositive DEF SupplyConserved, U64
<1>5. TypeOK'
  BY <1>1, <1>2, <1>4, ToolsUnchanged DEF TypeOK
<1>6. Balances' = Balances
  BY <1>1, BalancesUnchanged
<1>7. Backing'
  BY <1>1, <1>2, <1>3, <1>6, BusUnchanged, SumsType DEF Backing
<1> QED
  BY <1>1, <1>4, <1>5, <1>7, BusUnchanged, ConfigUnchanged, ToolsUnchanged
     DEF SupplyConserved

(* A reprocess is one for some amount, which is a u64. *)
LEMMA ReprocessCases ==
  ASSUME TypeOK, NEW a \in Authorities, Reprocess(a)
  PROVE  \E n \in Nat, mint \in Mints, beneficiary \in {"wallet", "treasury"} :
           ReprocessFor(a, n, mint, beneficiary)
<1>1. proof[a].total_hashes \in Nat /\ proof[a].total_rewards \in Nat
  BY U64MaxPositive DEF Reprocess, TypeOK, Proof
<1>2. \A n \in ReprocessRewards(proof[a].total_hashes, proof[a].total_rewards) : n \in Nat
  BY <1>1, ReprocessRewardType, U64MaxPositive
<1> QED
  BY <1>2 DEF Reprocess

LEMMA ReprocessStep ==
  ASSUME LedgerInv, NEW a \in Authorities, Reprocess(a)
  PROVE  LedgerInv'
  BY ReprocessCases, ReprocessForStep DEF LedgerInv

(* Donating and burning preserve it: the token program moves coal that     *)
(* nobody is owed.                                                         *)
LEMMA TransferStep ==
  ASSUME LedgerInv, NEW amount \in U64, Donate(amount) \/ Burn(amount)
  PROVE  LedgerInv'
<1> USE DEF LedgerInv
<1>1. /\ amount \in Nat /\ treasury \in Nat /\ circulating \in Nat /\ donated \in Nat
      /\ supply \in Nat /\ unfunded \in Nat /\ amount <= circulating
  BY U64MaxPositive DEF TypeOK, Donate, Burn
<1>2. /\ bus' = bus /\ proof' = proof /\ config' = config /\ toolVars' = toolVars
      /\ unfunded' = unfunded
  BY DEF Donate, Burn, historyVars
<1>3. \/ /\ treasury' = treasury + amount /\ circulating' = circulating - amount
         /\ donated' = donated + amount /\ supply' = supply
      \/ /\ treasury' = treasury /\ circulating' = circulating - amount
         /\ donated' = donated /\ supply' = supply - amount
  BY DEF Donate, Burn, historyVars
<1>4. /\ treasury' \in U64 /\ circulating' \in U64 /\ supply' \in U64 /\ donated' \in Nat
      /\ supply' = treasury' + circulating' /\ supply' <= MAX_COAL_SUPPLY + reprocessed'
  <2>1. /\ reprocessed' = reprocessed /\ reprocessed \in Nat /\ MAX_COAL_SUPPLY \in Nat
        /\ supply \in U64
    BY U64MaxPositive, ConstsAssumption DEF Donate, Burn, historyVars, TypeOK
  <2> QED
    BY <1>1, <1>3, <2>1, U64MaxPositive DEF U64, SupplyConserved
<1>5. TypeOK'
  BY <1>2, <1>4, ToolsUnchanged DEF TypeOK, Donate, Burn, historyVars
<1>6. Balances' = Balances
  BY <1>2, BalancesUnchanged DEF BalanceOf
<1>7. Backing'
  BY <1>1, <1>2, <1>3, <1>6, BusUnchanged, SumsType DEF Backing
<1> QED
  BY <1>2, <1>4, <1>5, <1>7, BusUnchanged, ConfigUnchanged, ToolsUnchanged
     DEF SupplyConserved

(* What an accepted hash does, in terms of the facts about its outcome.    *)
LEMMA MinedFacts ==
  ASSUME TypeOK, NEW a \in DOMAIN proof, NEW b \in Buses, NEW d,
         NEW t \in [durability : Nat, multiplier : Nat],
         NEW g \in [stake : Nat, total_stake : Nat, total_multiplier : Nat],
         MinedWith(a, b, d, t, g)
  PROVE  LET out == MineOutcome(config, proof[a], bus[b], t, g, d, clock)
         IN  /\ out.reward \in Nat /\ out.reward_actual \in Nat
             /\ out.durability \in Nat /\ out.durability <= t.durability
             /\ out.reward_actual < TARGET_COAL_REWARDS => out.durability <= out.reward_actual
             /\ out.reward_actual <= out.reward
             /\ out.reward_actual <= bus[b].rewards
             /\ proof[a].balance + out.reward_actual \in U64
             /\ bus[b].theoretical_rewards + out.reward \in U64
             /\ mined' = mined + out.reward_actual
             /\ bus'[b].rewards = bus[b].rewards - out.reward_actual
             /\ bus'[b].theoretical_rewards = bus[b].theoretical_rewards + out.reward
             /\ bus'[b].top_balance \in U64
             /\ \A c \in Buses \ {b} : bus'[c] = bus[c]
             /\ bus' \in [Buses -> Bus]
             /\ proof'[a].balance = proof[a].balance + out.reward_actual
             /\ proof'[a].last_hash_at = HashTime(proof[a], clock)
             /\ proof'[a].total_hashes = SatAdd(proof[a].total_hashes, 1)
             /\ \A c \in DOMAIN proof \ {a} : proof'[c] = proof[c]
             /\ DOMAIN proof' = DOMAIN proof /\ proof' \in [DOMAIN proof -> Proof]
<1> DEFINE out == MineOutcome(config, proof[a], bus[b], t, g, d, clock)
<1>1. /\ proof[a] \in Proof /\ bus[b] \in Bus /\ config \in Config /\ clock \in Nat
  BY DEF TypeOK
<1>2. /\ out.reward \in Nat /\ out.reward_actual \in Nat
      /\ out.durability \in Nat /\ out.durability <= t.durability
      /\ out.reward_actual < TARGET_COAL_REWARDS => out.durability <= out.reward_actual
      /\ out.reward_actual <= out.reward
      /\ out.reward_actual <= bus[b].rewards
      /\ proof[a].balance + out.reward_actual \in U64
      /\ bus[b].theoretical_rewards + out.reward \in U64
  <2>1. CanCompute(config, g, d) /\ ~out.panics
    BY DEF MinedWith
  <2>2. config.base_reward_rate \in U64
    BY <1>1 DEF Config
  <2>3. proof[a].last_hash_at \in Nat /\ proof[a].balance \in U64
    BY <1>1 DEF Proof
  <2>4. bus[b].rewards \in U64 /\ bus[b].theoretical_rewards \in U64
    BY <1>1 DEF Bus
  <2>5. /\ t.durability \in Nat /\ t.multiplier \in Nat
        /\ g.stake \in Nat /\ g.total_stake \in Nat /\ g.total_multiplier \in Nat
    OBVIOUS
  <2> QED
    BY <1>1, <2>1, <2>2, <2>3, <2>4, <2>5, MineOutcomeFacts
<1>3. /\ bus' = [bus EXCEPT ![b] =
           [rewards |-> @.rewards - out.reward_actual,
            theoretical_rewards |-> @.theoretical_rewards + out.reward,
            top_balance |-> IF StakeIsActive(proof[a], clock)
                            THEN Greater(@.top_balance, proof[a].balance)
                            ELSE @.top_balance]]
      /\ proof' = [proof EXCEPT
           ![a].balance = @ + out.reward_actual,
           ![a].last_hash_at = HashTime(proof[a], clock),
           ![a].total_hashes = SatAdd(@, 1),
           ![a].total_rewards = SatAdd(@, out.reward_actual)]
      /\ mined' = mined + out.reward_actual
  BY DEF MinedWith
<1> HIDE DEF out
<1>4. bus[b].rewards - out.reward_actual \in U64
  BY <1>1, <1>2, U64MaxPositive DEF Bus, U64
<1>5. Greater(bus[b].top_balance, proof[a].balance) \in U64 /\ bus[b].top_balance \in U64
  BY <1>1 DEF Greater, Bus, Proof
<1>6. bus' \in [Buses -> Bus] /\ bus'[b].top_balance \in U64
  BY <1>2, <1>3, <1>4, <1>5 DEF TypeOK, Bus
<1>7. \A n \in U64, m \in Nat : SatAdd(n, m) \in U64
  BY U64MaxPositive DEF SatAdd, Lesser, U64
<1>8. HashTime(proof[a], clock) \in Nat
  BY <1>1, ConstsAssumption DEF HashTime, Greater, TargetTime, Proof
<1>9. proof' \in [DOMAIN proof -> Proof]
  BY <1>1, <1>2, <1>3, <1>7, <1>8 DEF TypeOK, Proof
<1>10. /\ bus'[b].rewards = bus[b].rewards - out.reward_actual
       /\ bus'[b].theoretical_rewards = bus[b].theoretical_rewards + out.reward
       /\ \A c \in Buses \ {b} : bus'[c] = bus[c]
  BY <1>3 DEF TypeOK
<1>11. /\ proof'[a].balance = proof[a].balance + out.reward_actual
       /\ proof'[a].last_hash_at = HashTime(proof[a], clock)
       /\ proof'[a].total_hashes = SatAdd(proof[a].total_hashes, 1)
       /\ \A c \in DOMAIN proof \ {a} : proof'[c] = proof[c]
       /\ DOMAIN proof' = DOMAIN proof
  BY <1>1, <1>3 DEF TypeOK, Proof
<1> QED
  BY <1>2, <1>3, <1>6, <1>9, <1>10, <1>11 DEF out

(* Every hash is a MinedWith, with typed tool and guild inputs, and leaves *)
(* the tools alone or wears one of them within its durability.             *)
LEMMA MineCases ==
  ASSUME TypeOK, Mine
  PROVE  \E a \in DOMAIN proof, b \in Buses, d \in 0 .. MaxDifficulty,
            t \in [durability : Nat, multiplier : Nat],
            g \in [stake : Nat, total_stake : Nat, total_multiplier : Nat] :
           /\ MinedWith(a, b, d, t, g)
           /\ \/ UNCHANGED toolVars
              \/ \E c \in DOMAIN tool :
                   /\ tool[c].durability = t.durability
                   /\ Wear(c, MineOutcome(config, proof[a], bus[b], t, g, d, clock).durability)
<1>1. PICK a \in DOMAIN proof, b \in Buses, d \in 0 .. MaxDifficulty,
           g \in GuildBonuses \cup {NoGuild} :
        \/ MineBare(a, b, d, g)
        \/ \E c \in DOMAIN tool : MineEquipped(a, b, d, c, g)
  BY DEF Mine
<1>2. g \in [stake : Nat, total_stake : Nat, total_multiplier : Nat]
  <2>1. CASE g = NoGuild
    BY <2>1 DEF NoGuild
  <2>2. CASE g \in GuildBonuses
    <3>1. g \in [stake : U64, total_stake : U64, total_multiplier : U64]
      BY <2>2, LedgerAssumption
    <3>2. \A n \in U64 : n \in Nat
      BY U64MaxPositive
    <3> QED
      BY <3>1, <3>2
  <2> QED
    BY <2>1, <2>2
<1>3. CASE MineBare(a, b, d, g)
  <2>1. NoTool \in [durability : Nat, multiplier : Nat]
    BY DEF NoTool
  <2> QED
    BY <1>2, <1>3, <2>1 DEF MineBare
<1>4. CASE \E c \in DOMAIN tool : MineEquipped(a, b, d, c, g)
  <2>1. PICK c \in DOMAIN tool : MineEquipped(a, b, d, c, g)
    BY <1>4
  <2> DEFINE t == [durability |-> tool[c].durability, multiplier |-> tool[c].multiplier]
  <2>2. t \in [durability : Nat, multiplier : Nat]
    BY U64MaxPositive DEF TypeOK, ToolTypeOK, Tool
  <2>3. MineOutcome(config, proof[a], bus[b], tool[c], g, d, clock)
          = MineOutcome(config, proof[a], bus[b], t, g, d, clock)
    BY DEF MineOutcome, ToolReward
  <2>4. MinedWith(a, b, d, t, g)
    BY <2>1, <2>3 DEF MineEquipped, MinedWith
  <2>5. Wear(c, MineOutcome(config, proof[a], bus[b], t, g, d, clock).durability)
    BY <2>1, <2>3 DEF MineEquipped
  <2>6. tool[c].durability = t.durability
    OBVIOUS
  <2> HIDE DEF t
  <2> QED
    BY <1>2, <2>2, <2>4, <2>5, <2>6
<1> QED
  BY <1>1, <1>3, <1>4

(* Mining preserves it: what the bus loses is what the balance gains. *)
LEMMA MineStep ==
  ASSUME LedgerInv, Mine
  PROVE  LedgerInv'
<1> USE DEF LedgerInv
<1>1. PICK a \in DOMAIN proof, b \in Buses, d \in 0 .. MaxDifficulty,
           t \in [durability : Nat, multiplier : Nat],
           g \in [stake : Nat, total_stake : Nat, total_multiplier : Nat] :
        /\ MinedWith(a, b, d, t, g)
        /\ \/ UNCHANGED toolVars
           \/ \E c \in DOMAIN tool :
                /\ tool[c].durability = t.durability
                /\ Wear(c, MineOutcome(config, proof[a], bus[b], t, g, d, clock).durability)
  BY MineCases
<1> DEFINE out == MineOutcome(config, proof[a], bus[b], t, g, d, clock)
           paid == out.reward_actual
<1>2. /\ paid \in Nat /\ out.durability \in Nat
      /\ paid <= bus[b].rewards
      /\ proof[a].balance + paid \in U64
      /\ mined' = mined + paid
      /\ bus'[b].rewards = bus[b].rewards - paid
      /\ \A c \in Buses \ {b} : bus'[c] = bus[c]
      /\ bus' \in [Buses -> Bus]
      /\ proof'[a].balance = proof[a].balance + paid
      /\ \A c \in DOMAIN proof \ {a} : proof'[c] = proof[c]
      /\ DOMAIN proof' = DOMAIN proof /\ proof' \in [DOMAIN proof -> Proof]
  BY <1>1, MinedFacts
<1>3. /\ config' = config /\ clock' = clock /\ supply' = supply
      /\ treasury' = treasury /\ circulating' = circulating
      /\ unfunded' = unfunded /\ donated' = donated /\ genesis' = genesis
      /\ opened_at' = opened_at /\ reprocessed' = reprocessed
  BY <1>1 DEF MinedWith
<1>4. ToolTypeOK' /\ CustodyMatches'
  <2>1. CASE UNCHANGED toolVars
    BY <2>1, ToolsUnchanged DEF TypeOK
  <2>2. CASE \E c \in DOMAIN tool : Wear(c, out.durability)
    <3> HIDE DEF out
    <3> QED
      BY <1>2, <2>2, WearStep DEF TypeOK
  <2> QED
    BY <1>1, <2>1, <2>2
<1> HIDE DEF out, paid
<1>5. TypeOK'
  <2>1. mined' \in Nat
    BY <1>2 DEF TypeOK
  <2> QED
    BY <1>2, <1>3, <1>4, <2>1 DEF TypeOK
<1>6. BusBound' /\ BusRewards' = BusRewards - paid
  <2>1. \A c \in Buses : bus[c].rewards \in Nat /\ bus'[c].rewards \in Nat
    BY <1>2, SumsType, U64MaxPositive DEF Bus
  <2>2. BusRewards' = BusRewards - bus[b].rewards + bus'[b].rewards
    BY <1>2, <2>1, BusRewardsChange
  <2>3. BusBound'
    BY <1>2, <2>1, DerivedConstants, U64MaxPositive DEF BusBound
  <2> QED
    BY <1>2, <2>1, <2>2, <2>3, SumsType
<1>7. Balances' = Balances + paid
  <2>1. a \in Authorities /\ proof[a].balance \in Nat
    BY U64MaxPositive DEF TypeOK, Proof
  <2>2. BalanceOf(a) = proof[a].balance /\ BalanceOf(a)' = proof[a].balance + paid
    BY <1>2 DEF BalanceOf
  <2>3. \A c \in Authorities \ {a} : BalanceOf(c)' = BalanceOf(c)
    BY <1>2 DEF BalanceOf
  <2>4. \A c \in Authorities : BalanceOf(c) \in Nat /\ BalanceOf(c)' \in Nat
    BY <1>2, <2>1, <2>2, <2>3, SumsType
  <2>5. Balances' = Balances - BalanceOf(a) + BalanceOf(a)'
    BY <2>1, <2>3, <2>4, BalancesChange
  <2> QED
    BY <1>2, <2>1, <2>2, <2>5, SumsType
<1>8. Backing'
  <2>1. donated \in Nat /\ treasury \in Int /\ unfunded \in Nat
    BY U64MaxPositive DEF TypeOK
  <2> QED
    BY <1>2, <1>3, <1>6, <1>7, <2>1, SumsType DEF Backing
<1>9. SupplyConserved' /\ RateBand'
  BY <1>3, ConfigUnchanged DEF SupplyConserved
<1> QED
  BY <1>4, <1>5, <1>6, <1>8, <1>9

(* What a reset mints is what the buses lack, up to the cap.               *)
LEMMA MintFacts ==
  ASSUME LedgerInv, supply < MAX_COAL_SUPPLY
  PROVE  /\ TotalEpochRewards = MAX_COAL_EPOCH_REWARDS - BusRewards
         /\ TotalEpochRewards \in Nat
         /\ MintAmount \in Nat /\ MintAmount <= TotalEpochRewards
         /\ supply + MintAmount <= MAX_COAL_SUPPLY
         /\ MintAmount # TotalEpochRewards => supply + MintAmount = MAX_COAL_SUPPLY
<1> USE DEF LedgerInv
<1>1. BusRewards \in Nat /\ BusRewards <= MAX_COAL_EPOCH_REWARDS
  BY SumsType, PoolBound
<1>2. MAX_COAL_EPOCH_REWARDS \in Nat /\ MAX_COAL_EPOCH_REWARDS <= U64Max
      /\ MAX_COAL_SUPPLY \in Nat /\ supply \in Nat
  BY ConstsAssumption, U64MaxPositive DEF U64, TypeOK
<1>3. TotalRemainingRewards = BusRewards
  BY <1>1, <1>2, U64MaxPositive DEF TotalRemainingRewards, Lesser
<1>4. TotalEpochRewards = MAX_COAL_EPOCH_REWARDS - BusRewards
  BY <1>1, <1>2, <1>3 DEF TotalEpochRewards, SatSub
<1> QED
  BY <1>1, <1>2, <1>4 DEF MintAmount, SatSub, Lesser

(* A reset preserves it: what it mints and what stays unfunded together    *)
(* fill the buses.                                                         *)
LEMMA ResetStep ==
  ASSUME LedgerInv, Reset
  PROVE  LedgerInv' /\ BusRewards' = MAX_COAL_EPOCH_REWARDS
<1> USE DEF LedgerInv
<1>1. supply < MAX_COAL_SUPPLY
  BY DEF Reset
<1>2. PICK top \in TopBalances :
        config' = [last_reset_at    |-> clock,
                   min_difficulty   |-> NextRate.min_difficulty,
                   base_reward_rate |-> NextRate.base_reward_rate,
                   top_balance      |-> top]
  BY DEF Reset
<1>3. /\ bus' = Refilled /\ supply' = supply + MintAmount
      /\ treasury' = treasury + MintAmount
      /\ unfunded' = unfunded + (TotalEpochRewards - MintAmount)
      /\ genesis' \in {clock, genesis}
      /\ clock' = clock /\ proof' = proof /\ circulating' = circulating
      /\ toolVars' = toolVars /\ donated' = donated /\ mined' = mined
      /\ opened_at' = opened_at /\ reprocessed' = reprocessed
  BY DEF Reset
<1>4. top \in U64
  BY U64MaxPositive DEF TopBalances, TypeOK, Bus, U64
<1>5. InBand(NextRate)
  <2>1. TotalTheoreticalRewards \in Nat
    <3>1. \A b \in Buses : [c \in Buses |-> bus[c].theoretical_rewards][b] \in Nat
      BY U64MaxPositive DEF TypeOK, Bus
    <3>2. SumOver([c \in Buses |-> bus[c].theoretical_rewards], Buses) \in Nat
      BY <3>1, ConstsAssumption, SumOverNat
    <3> QED
      BY <3>2, U64MaxPositive DEF TotalTheoreticalRewards, Lesser
  <2> QED
    BY <2>1, RetargetKeepsBand DEF NextRate, RateBand
<1>6. RateBand' /\ config' \in Config
  <2>1. NextRate.base_reward_rate \in U64
    BY <1>5, DerivedConstants, U64MaxPositive DEF InBand, U64
  <2> QED
    BY <1>2, <1>4, <1>5, <2>1 DEF RateBand, InBand, Config, TypeOK
<1>7. bus' \in [Buses -> Bus] /\ BusBound'
  BY <1>3, DerivedConstants, U64MaxPositive DEF Refilled, Bus, BusBound, U64
<1>8. /\ supply' \in U64 /\ treasury' \in U64 /\ unfunded' \in Nat
      /\ supply' = treasury' + circulating' /\ supply' <= MAX_COAL_SUPPLY + reprocessed'
  <2>1. supply \in Nat /\ treasury \in Nat /\ circulating \in Nat /\ unfunded \in Nat
        /\ reprocessed \in Nat /\ MAX_COAL_SUPPLY \in U64
    BY U64MaxPositive, ConstsAssumption DEF TypeOK
  <2> QED
    BY <1>1, <1>3, <2>1, MintFacts, U64MaxPositive DEF SupplyConserved, U64
<1>9. TypeOK'
  <2>1. ToolTypeOK' /\ CustodyMatches'
    BY <1>3, ToolsUnchanged DEF TypeOK
  <2> QED
    BY <1>3, <1>6, <1>7, <1>8, <2>1 DEF TypeOK
<1>10. BusRewards' = MAX_COAL_EPOCH_REWARDS /\ Balances' = Balances
  BY <1>3, FullPool, BalancesUnchanged DEF BalanceOf
<1>11. Backing'
  <2>1. treasury \in Nat /\ unfunded \in Nat /\ donated \in Nat
        /\ MAX_COAL_EPOCH_REWARDS \in Nat
    BY U64MaxPositive, ConstsAssumption DEF TypeOK
  <2> QED
    BY <1>1, <1>3, <1>10, <2>1, MintFacts, SumsType DEF Backing
<1> QED
  BY <1>3, <1>6, <1>7, <1>8, <1>9, <1>10, <1>11, ToolsUnchanged DEF SupplyConserved

(* The passing of time preserves it. *)
LEMMA TickStep ==
  ASSUME LedgerInv, Tick
  PROVE  LedgerInv'
<1> USE DEF LedgerInv
<1>1. clock' \in Nat /\ UNCHANGED <<chainVars, historyVars>>
  BY LedgerAssumption DEF Tick, TypeOK
<1>2. TypeOK' /\ CustodyMatches'
  BY <1>1, ToolsUnchanged DEF TypeOK, chainVars, historyVars
<1>3. Balances' = Balances
  BY <1>1, BalancesUnchanged DEF BalanceOf, chainVars
<1> QED
  BY <1>1, <1>2, <1>3, BusUnchanged, ConfigUnchanged
     DEF chainVars, historyVars, Backing, SupplyConserved

(* Equipping, unequipping and trading tools preserve it. *)
LEMMA ToolMoveStep ==
  ASSUME LedgerInv, ToolStep
  PROVE  LedgerInv'
<1> USE DEF LedgerInv
<1>1. ToolNext
  BY DEF ToolStep, ToolNext
<1>2. ToolTypeOK' /\ CustodyMatches'
  BY <1>1, ToolStepFacts DEF TypeOK
<1>3. UNCHANGED <<clock, config, bus, proof, supply, treasury, circulating, historyVars>>
  BY DEF ToolStep
<1>4. TypeOK'
  BY <1>2, <1>3 DEF TypeOK, historyVars
<1>5. Balances' = Balances
  BY <1>3, BalancesUnchanged DEF BalanceOf
<1> QED
  BY <1>2, <1>3, <1>4, <1>5, BusUnchanged, ConfigUnchanged
     DEF historyVars, Backing, SupplyConserved

(* A reset that comes too soon preserves it, and so does stuttering. *)
LEMMA StutterStep ==
  ASSUME LedgerInv, UNCHANGED vars
  PROVE  LedgerInv'
<1> USE DEF LedgerInv
<1>1. Balances' = Balances
  BY BalancesUnchanged DEF BalanceOf, vars, chainVars
<1>2. TypeOK' /\ CustodyMatches'
  BY ToolsUnchanged DEF TypeOK, vars, chainVars, historyVars
<1> QED
  BY <1>1, <1>2, BusUnchanged, ConfigUnchanged
     DEF vars, chainVars, historyVars, Backing, SupplyConserved

(* The state at deployment satisfies it. *)
LEMMA LedgerStart == Init => LedgerInv
<1> SUFFICES ASSUME Init PROVE LedgerInv
  OBVIOUS
<1>1. ToolTypeOK /\ CustodyMatches
  BY ToolStart DEF Init
<1>2. InBand(config)
  BY ConstsAssumption, ThresholdAssumption, DerivedConstants
     DEF Init, InBand, INITIAL_BASE_COAL_REWARD_RATE
<1>3. 0 \in U64 /\ INITIAL_BASE_COAL_REWARD_RATE \in U64
  BY ThresholdAssumption, DerivedConstants, U64MaxPositive
     DEF INITIAL_BASE_COAL_REWARD_RATE, U64
<1>4. DOMAIN proof = {} /\ proof \in [DOMAIN proof -> Proof]
  BY DEF Init
<1>5. TypeOK
  BY <1>1, <1>3, <1>4, ConstsAssumption, LedgerAssumption DEF Init, TypeOK, Config, Bus
<1>6. BusBound
  BY DerivedConstants, U64MaxPositive DEF Init, BusBound
<1>7. BusRewards = 0
  <2> DEFINE f == [b \in Buses |-> bus[b].rewards]
  <2>1. \A b \in Buses : f[b] = 0
    BY DEF Init
  <2>2. SumOver(f, Buses) = 0 * Cardinality(Buses)
    <3> HIDE DEF f
    <3> QED
      BY <2>1, ConstsAssumption, SumOverConstant
  <2> QED
    BY <2>2, DerivedConstants DEF BusRewards, BUS_COUNT
<1>8. Balances = 0
  <2> DEFINE f == [a \in Authorities |-> BalanceOf(a)]
  <2>1. \A a \in Authorities : f[a] = 0
    BY <1>4 DEF BalanceOf
  <2>2. SumOver(f, Authorities) = 0 * Cardinality(Authorities)
    <3> HIDE DEF f
    <3> QED
      BY <2>1, LedgerAssumption, SumOverConstant
  <2>3. Cardinality(Authorities) \in Nat
    BY LedgerAssumption, FS_CardinalityType
  <2> QED
    BY <2>2, <2>3 DEF Balances
<1>9. Backing /\ SupplyConserved
  BY <1>7, <1>8, ConstsAssumption, U64MaxPositive DEF Init, Backing, SupplyConserved
<1> QED
  BY <1>1, <1>2, <1>5, <1>6, <1>9 DEF LedgerInv, RateBand

-----------------------------------------------------------------------------
(* Every step preserves LedgerInv. *)
LEMMA LedgerStep == LedgerInv /\ [Next]_vars => LedgerInv'
<1> SUFFICES ASSUME LedgerInv, [Next]_vars PROVE LedgerInv'
  OBVIOUS
<1>1. \A amount \in Amounts : amount \in U64
  BY LedgerAssumption
<1>2. CASE \E a \in Authorities, m \in Miners : Open(a, m)
  BY <1>2, OpenStep
<1>3. CASE Mine
  BY <1>3, MineStep
<1>4. CASE \E a \in Authorities, amount \in Amounts : Claim(a, amount)
  BY <1>1, <1>4, ClaimStep
<1>5. CASE \E a \in Authorities, amount \in Amounts : Stake(a, amount)
  BY <1>1, <1>5, StakeStep
<1>6. CASE \E a \in Authorities : Close(a)
  BY <1>6, CloseStep
<1>7. CASE Reset
  BY <1>7, ResetStep
<1>8. CASE ResetTooSoon \/ UNCHANGED vars
  BY <1>8, StutterStep DEF ResetTooSoon
<1>9. CASE \E amount \in Amounts : Donate(amount) \/ Burn(amount)
  BY <1>1, <1>9, TransferStep
<1>10. CASE Tick
  BY <1>10, TickStep
<1>11. CASE ToolStep
  BY <1>11, ToolMoveStep
<1>12. CASE \E a \in Authorities : Reprocess(a)
  BY <1>12, ReprocessStep
<1> QED
  BY <1>2, <1>3, <1>4, <1>5, <1>6, <1>7, <1>8, <1>9, <1>10, <1>11, <1>12 DEF Next

(* The invariant of the ledger. *)
THEOREM LedgerInvariant == Spec => []LedgerInv
  BY LedgerStart, LedgerStep, PTL DEF Spec

(* Every account keeps its type: no path through the instructions wraps a  *)
(* u64 or overdraws a balance, a bus or the treasury.                      *)
THEOREM LedgerTypes == Spec => []TypeOK
<1>1. LedgerInv => TypeOK
  BY DEF LedgerInv
<1> QED
  BY <1>1, LedgerInvariant, PTL

(* The treasury and the unfunded rewards are exactly what the miners and   *)
(* the buses are owed, and donations.                                      *)
THEOREM LedgerBacking == Spec => []Backing
<1>1. LedgerInv => Backing
  BY DEF LedgerInv
<1> QED
  BY <1>1, LedgerInvariant, PTL

(* The supply is what the token accounts hold, and within its cap.         *)
THEOREM LedgerSupply == Spec => []SupplyConserved
<1>1. LedgerInv => SupplyConserved
  BY DEF LedgerInv
<1> QED
  BY <1>1, LedgerInvariant, PTL

(* While every reset minted in full, all balances can be claimed at once.  *)
THEOREM LedgerSolvent == Spec => []Solvent
<1>1. LedgerInv => Solvent
  <2> SUFFICES ASSUME LedgerInv, unfunded = 0 PROVE Balances <= treasury
    BY DEF Solvent
  <2>1. treasury \in Nat /\ donated \in Nat
    BY U64MaxPositive DEF LedgerInv, TypeOK
  <2> QED
    BY <2>1, SumsType DEF LedgerInv, Backing
<1> QED
  BY <1>1, LedgerInvariant, PTL

(* The base reward rate stays between its thresholds.                      *)
THEOREM LedgerRateBand == Spec => []RateBand
<1>1. LedgerInv => RateBand
  BY DEF LedgerInv
<1> QED
  BY <1>1, LedgerInvariant, PTL

(* Only a reset that reaches the supply cap leaves rewards unfunded.       *)
THEOREM LedgerShortfall == Spec => ShortfallOnlyAtCap
<1>1. LedgerInv /\ [Next]_vars => [unfunded' # unfunded => supply' = MAX_COAL_SUPPLY]_vars
  <2> SUFFICES ASSUME LedgerInv, Next, unfunded' # unfunded
               PROVE  supply' = MAX_COAL_SUPPLY
    OBVIOUS
  <2>1. Reset
    <3>1. Mine => unfunded' = unfunded
      <4>1. \A a, b, d, t, g : MinedWith(a, b, d, t, g) => unfunded' = unfunded
        BY DEF MinedWith
      <4> QED
        BY <4>1, MineCases DEF LedgerInv
    <3>2. \A a \in Authorities, m \in Miners : Open(a, m) => unfunded' = unfunded
      BY DEF Open
    <3>3. \A a \in Authorities, amount \in Amounts :
            (Claim(a, amount) => unfunded' = unfunded)
            /\ (Stake(a, amount) => unfunded' = unfunded)
      BY DEF Claim, ClaimTo, Stake, historyVars
    <3>4. \A a \in Authorities : Close(a) \/ Reprocess(a) => unfunded' = unfunded
      BY DEF Close, Reprocess, ReprocessFor, historyVars
    <3>5. \A amount \in Amounts : Donate(amount) \/ Burn(amount) => unfunded' = unfunded
      BY DEF Donate, Burn, historyVars
    <3>6. ResetTooSoon \/ Tick \/ ToolStep => unfunded' = unfunded
      BY DEF ResetTooSoon, Tick, ToolStep, vars, historyVars
    <3> QED
      BY <3>1, <3>2, <3>3, <3>4, <3>5, <3>6 DEF Next
  <2>2. supply < MAX_COAL_SUPPLY /\ supply' = supply + MintAmount
        /\ unfunded' = unfunded + (TotalEpochRewards - MintAmount)
    BY <2>1 DEF Reset
  <2>3. unfunded \in Nat
    BY DEF LedgerInv, TypeOK
  <2> QED
    BY <2>2, <2>3, MintFacts
<1> QED
  BY <1>1, LedgerInvariant, PTL DEF Spec, ShortfallOnlyAtCap

-----------------------------------------------------------------------------
(* The steps that touch neither the buses, nor the reset schedule, nor the *)
(* history of what was mined.                                              *)
Quiet == UNCHANGED <<bus, config, mined, genesis>>

(* Only hashes and resets are not quiet. *)
LEMMA QuietSteps == [Next]_vars => Mine \/ Reset \/ Quiet
<1> SUFFICES ASSUME [Next]_vars PROVE Mine \/ Reset \/ Quiet
  OBVIOUS
<1>1. CASE \E a \in Authorities, m \in Miners : Open(a, m)
  BY <1>1 DEF Open, Quiet
<1>2. CASE \E a \in Authorities, amount \in Amounts : Claim(a, amount) \/ Stake(a, amount)
  BY <1>2 DEF Claim, ClaimTo, Stake, historyVars, Quiet
<1>3. CASE \E a \in Authorities : Close(a) \/ Reprocess(a)
  BY <1>3 DEF Close, Reprocess, ReprocessFor, StatisticsTraded, historyVars, Quiet
<1>4. CASE \E amount \in Amounts : Donate(amount) \/ Burn(amount)
  BY <1>4 DEF Donate, Burn, historyVars, Quiet
<1>5. CASE ResetTooSoon \/ Tick \/ ToolStep \/ UNCHANGED vars
  BY <1>5 DEF ResetTooSoon, Tick, ToolStep, vars, chainVars, historyVars, Quiet
<1> QED
  BY <1>1, <1>2, <1>3, <1>4, <1>5 DEF Next

(* What a hash does to the pool. *)
LEMMA MineMovesRewards ==
  ASSUME LedgerInv, Mine
  PROVE  /\ mined' \in Nat /\ BusRewards' \in Nat
         /\ mined' + BusRewards' = mined + BusRewards
         /\ mined <= mined'
         /\ config' = config /\ genesis' = genesis
<1> USE DEF LedgerInv
<1>1. PICK a \in DOMAIN proof, b \in Buses, d \in 0 .. MaxDifficulty,
           t \in [durability : Nat, multiplier : Nat],
           g \in [stake : Nat, total_stake : Nat, total_multiplier : Nat] :
        MinedWith(a, b, d, t, g)
  BY MineCases
<1> DEFINE paid == MineOutcome(config, proof[a], bus[b], t, g, d, clock).reward_actual
<1>2. /\ paid \in Nat /\ mined' = mined + paid
      /\ bus'[b].rewards = bus[b].rewards - paid
      /\ \A c \in Buses \ {b} : bus'[c] = bus[c]
  BY <1>1, MinedFacts
<1>3. TypeOK'
  BY MineStep
<1>4. /\ \A c \in Buses : bus[c].rewards \in Nat /\ bus'[c].rewards \in Nat
      /\ BusRewards' \in Nat
  <2>1. \A c \in Buses : bus'[c].rewards \in Nat
    BY <1>3, U64MaxPositive DEF TypeOK, Bus
  <2>2. SumOver([c \in Buses |-> bus'[c].rewards], Buses) \in Nat
    BY <2>1, ConstsAssumption, SumOverNat
  <2> QED
    BY <2>1, <2>2, SumsType DEF BusRewards
<1> HIDE DEF paid
<1>5. BusRewards' = BusRewards - bus[b].rewards + bus'[b].rewards
  BY <1>2, <1>4, BusRewardsChange
<1>6. config' = config /\ genesis' = genesis
  BY <1>1 DEF MinedWith
<1>7. mined \in Nat
  BY DEF TypeOK
<1> QED
  BY <1>2, <1>4, <1>5, <1>6, <1>7, SumsType

(* The time between two resets is at least the epoch that the full pool    *)
(* pays for.                                                               *)
LEMMA EmissionStep == LedgerInv /\ LedgerInv' /\ Emission /\ [Next]_vars => Emission'
<1> SUFFICES ASSUME LedgerInv, LedgerInv', Emission, [Next]_vars PROVE Emission'
  OBVIOUS
<1> DEFINE D == COAL_EPOCH_DURATION
           M == MAX_COAL_EPOCH_REWARDS
<1>1. D \in Nat \ {0} /\ M \in Nat
  BY DerivedConstants, U64MaxPositive
<1>2. /\ mined \in Nat /\ genesis \in Nat /\ clock \in Nat
      /\ config.last_reset_at \in Nat /\ BusRewards \in Nat
  BY SumsType DEF LedgerInv, TypeOK, Config
<1>3. CASE Quiet
  BY <1>3, BusUnchanged DEF Quiet, Emission
<1>4. CASE Mine
  <2>1. /\ mined' \in Nat /\ BusRewards' \in Nat
        /\ mined' + BusRewards' = mined + BusRewards
        /\ config' = config /\ genesis' = genesis
    BY <1>4, MineMovesRewards
  <2>2. CASE genesis = 0
    <3>1. mined = 0 /\ BusRewards = 0
      BY <2>2 DEF Emission
    <3>2. mined' = 0 /\ BusRewards' = 0
      <4>1. mined + BusRewards = 0
        BY <3>1
      <4>2. \A m, n \in Nat : m + n = 0 => m = 0 /\ n = 0
        OBVIOUS
      <4> QED
        BY <2>1, <4>1, <4>2
    <3> QED
      BY <2>1, <2>2, <3>2 DEF Emission
  <2>3. CASE genesis # 0
    BY <2>1, <2>3 DEF Emission
  <2> QED
    BY <2>2, <2>3
<1>5. CASE Reset
  <2>1. /\ BusRewards' = M /\ mined' = mined
        /\ config'.last_reset_at = clock
        /\ genesis' = IF genesis = 0 THEN clock ELSE genesis
        /\ config.last_reset_at + D <= clock
    BY <1>5, ResetStep DEF Reset, ResetIsDue
  <2>2. genesis' # 0
    BY <1>1, <1>2, <2>1
  <2>3. CASE genesis = 0
    <3>1. mined = 0 /\ genesis' = clock
      BY <2>1, <2>3 DEF Emission
    <3>2. (0 + M) * D = M * (clock - clock + D)
      BY <1>1, <1>2
    <3> HIDE DEF D, M
    <3>3. (mined' + BusRewards') * D <= M * (config'.last_reset_at - genesis' + D)
      <4>1. M * (clock - clock + D) \in Int
        BY <1>1, <1>2
      <4> QED
        BY <1>1, <1>2, <2>1, <3>1, <3>2, <4>1
    <3> QED
      BY <2>2, <3>3 DEF Emission, D, M
  <2>4. CASE genesis # 0
    <3> DEFINE before == config.last_reset_at - genesis + D
               after == clock - genesis + D
    <3>1. (mined + BusRewards) * D <= M * before /\ genesis' = genesis
      BY <2>1, <2>4 DEF Emission
    <3>2. before \in Int /\ after \in Int /\ before + D <= after
      BY <1>1, <1>2, <2>1
    <3> HIDE DEF before, after, D, M
    <3>3. (mined + M) * D <= (mined + BusRewards) * D + M * D
      <4>1. (mined + BusRewards) * D + M * D = (mined + M) * D + BusRewards * D
        BY <1>1, <1>2
      <4>2. BusRewards * D \in Nat /\ (mined + M) * D \in Nat
        BY <1>1, <1>2
      <4> QED
        BY <4>1, <4>2
    <3>4. M * (before + D) <= M * after
      <4>1. PICK e \in Nat : after = before + D + e
        BY <1>1, <3>2, after - (before + D) \in Nat
      <4>2. M * after = M * (before + D) + M * e /\ M * e \in Nat /\ M * (before + D) \in Int
        BY <1>1, <3>2, <4>1
      <4> QED
        BY <4>2
    <3>5. M * (before + D) = M * before + M * D
      BY <1>1, <3>2
    <3>6. (mined + M) * D <= M * after
      <4>1. /\ (mined + M) * D \in Int /\ (mined + BusRewards) * D \in Int
            /\ M * D \in Int /\ M * before \in Int /\ M * after \in Int
            /\ M * (before + D) \in Int
        BY <1>1, <1>2, <3>2
      <4> QED
        BY <3>1, <3>3, <3>4, <3>5, <4>1
    <3> QED
      BY <2>1, <2>2, <3>1, <3>6 DEF Emission, after, D, M
  <2> QED
    BY <2>3, <2>4
<1> QED
  BY <1>3, <1>4, <1>5, QuietSteps

(* The emission never runs ahead of the epochs that have begun.            *)
THEOREM LedgerEmission == Spec => []Emission
<1>1. Init => Emission
  <2> SUFFICES ASSUME Init PROVE BusRewards = 0 /\ mined = 0 /\ genesis = 0
    BY DEF Emission
  <2>1. LedgerInv
    BY LedgerStart
  <2>2. treasury = 0 /\ unfunded = 0 /\ donated = 0
    BY DEF Init
  <2> QED
    BY <2>1, <2>2, SumsType DEF LedgerInv, Backing, Init
<1>2. LedgerInv /\ LedgerInv' /\ Emission /\ [Next]_vars => Emission'
  BY EmissionStep
<1> QED
  BY <1>1, <1>2, LedgerInvariant, PTL DEF Spec

(* What a bus has paid since the last reset is within its theoretical      *)
(* rewards.                                                                *)
LEMMA BusTallyStep == LedgerInv /\ LedgerInv' /\ BusTally /\ [Next]_vars => BusTally'
<1> SUFFICES ASSUME LedgerInv, LedgerInv', BusTally, [Next]_vars PROVE BusTally'
  OBVIOUS
<1>1. CASE Quiet
  BY <1>1 DEF Quiet, BusTally
<1>2. CASE Mine
  <2>1. PICK a \in DOMAIN proof, b \in Buses, d \in 0 .. MaxDifficulty,
             t \in [durability : Nat, multiplier : Nat],
             g \in [stake : Nat, total_stake : Nat, total_multiplier : Nat] :
          MinedWith(a, b, d, t, g)
    BY <1>2, MineCases DEF LedgerInv
  <2> DEFINE out == MineOutcome(config, proof[a], bus[b], t, g, d, clock)
  <2>2. /\ out.reward \in Nat /\ out.reward_actual \in Nat /\ out.reward_actual <= out.reward
        /\ bus'[b].rewards = bus[b].rewards - out.reward_actual
        /\ bus'[b].theoretical_rewards = bus[b].theoretical_rewards + out.reward
        /\ \A c \in Buses \ {b} : bus'[c] = bus[c]
    BY <2>1, MinedFacts DEF LedgerInv
  <2>3. genesis' = genesis
    BY <1>2, MineMovesRewards
  <2>4. /\ BUS_COAL_EPOCH_REWARDS \in Nat
        /\ bus[b].rewards \in Nat /\ bus[b].theoretical_rewards \in Nat
    BY DerivedConstants, U64MaxPositive DEF LedgerInv, TypeOK, Bus
  <2> HIDE DEF out
  <2> QED
    BY <2>2, <2>3, <2>4 DEF BusTally
<1>3. CASE Reset
  <2>1. bus' = Refilled
    BY <1>3 DEF Reset
  <2> QED
    BY <2>1, DerivedConstants, U64MaxPositive DEF Refilled, BusTally
<1> QED
  BY <1>1, <1>2, <1>3, QuietSteps

(* The theoretical rewards of a bus cover what it has paid. *)
THEOREM LedgerBusTally == Spec => []BusTally
<1>1. Init => BusTally
  BY DEF Init, BusTally
<1>2. LedgerInv /\ LedgerInv' /\ BusTally /\ [Next]_vars => BusTally'
  BY BusTallyStep
<1> QED
  BY <1>1, <1>2, LedgerInvariant, PTL DEF Spec

-----------------------------------------------------------------------------
(* One proof's share of HashRate. *)
HashRateOf(a) ==
  /\ ONE_MINUTE * proof[a].total_hashes <= proof[a].last_hash_at - opened_at[a]
  /\ proof[a].last_hash_at <= clock + TOLERANCE

(* A hash books one minute, and no more than the tolerance ahead.          *)
LEMMA MineHashRate ==
  ASSUME LedgerInv, HashRate, Mine
  PROVE  HashRate'
<1>1. PICK a \in DOMAIN proof, b \in Buses, d \in 0 .. MaxDifficulty,
           t \in [durability : Nat, multiplier : Nat],
           g \in [stake : Nat, total_stake : Nat, total_multiplier : Nat] :
        MinedWith(a, b, d, t, g)
  BY MineCases DEF LedgerInv
<1>2. /\ proof'[a].last_hash_at = HashTime(proof[a], clock)
      /\ proof'[a].total_hashes = SatAdd(proof[a].total_hashes, 1)
      /\ \A c \in DOMAIN proof \ {a} : proof'[c] = proof[c]
      /\ DOMAIN proof' = DOMAIN proof
  BY <1>1, MinedFacts DEF LedgerInv
<1>3. /\ clock' = clock /\ opened_at' = opened_at
      /\ clock >= TargetTime(proof[a]) - TOLERANCE
  BY <1>1 DEF MinedWith
<1> DEFINE total == proof[a].total_hashes
           last == proof[a].last_hash_at
           opened == opened_at[a]
<1>4. /\ total \in Nat /\ last \in Nat /\ opened \in Nat /\ clock \in Nat
      /\ ONE_MINUTE \in Nat \ {0} /\ TOLERANCE \in Nat
  BY ConstsAssumption, U64MaxPositive DEF LedgerInv, TypeOK, Proof
<1>5. ONE_MINUTE * total <= last - opened /\ last <= clock + TOLERANCE
  BY DEF HashRate
<1>6. /\ HashTime(proof[a], clock) \in Nat
      /\ last + ONE_MINUTE <= HashTime(proof[a], clock)
      /\ HashTime(proof[a], clock) <= clock + TOLERANCE
  BY <1>3, <1>4 DEF HashTime, TargetTime, Greater
<1>7. SatAdd(total, 1) \in Nat /\ SatAdd(total, 1) <= total + 1
  BY <1>4, U64MaxPositive DEF SatAdd, Lesser
<1>8. ONE_MINUTE * SatAdd(total, 1) <= HashTime(proof[a], clock) - opened
  <2> DEFINE n == SatAdd(total, 1)
  <2>1. n \in Nat /\ n <= total + 1
    BY <1>7
  <2> HIDE DEF n, total, last, opened
  <2>2. ONE_MINUTE * n <= ONE_MINUTE * (total + 1) /\ ONE_MINUTE * n \in Nat
    BY <1>4, <2>1, ProductMonotone
  <2>3. ONE_MINUTE * (total + 1) = ONE_MINUTE * total + ONE_MINUTE
        /\ ONE_MINUTE * total \in Nat
    BY <1>4
  <2> QED
    BY <1>4, <1>5, <1>6, <2>2, <2>3 DEF n
<1> QED
  BY <1>2, <1>3, <1>6, <1>8 DEF HashRate

(* What the other steps do to the schedule of proofs. *)
LEMMA ScheduleSteps ==
  ASSUME LedgerInv, [Next]_vars, ~Mine
  PROVE  /\ clock' \in Nat /\ clock <= clock'
         /\ \A c \in DOMAIN proof' :
              \/ /\ c \in DOMAIN proof /\ opened_at'[c] = opened_at[c]
                 /\ proof'[c].total_hashes \in {0, proof[c].total_hashes}
                 /\ proof'[c].last_hash_at = proof[c].last_hash_at
              \/ /\ opened_at'[c] = clock /\ clock' = clock
                 /\ proof'[c].total_hashes = 0 /\ proof'[c].last_hash_at = clock
<1> USE DEF LedgerInv
<1>1. clock \in Nat
  BY DEF TypeOK
<1>2. CASE \E a \in Authorities, m \in Miners : Open(a, m)
  BY <1>1, <1>2 DEF Open, TypeOK
<1>3. CASE \E a \in Authorities, amount \in Amounts : Claim(a, amount)
  BY <1>1, <1>3 DEF Claim, ClaimTo, TypeOK, Proof
<1>4. CASE \E a \in Authorities, amount \in Amounts : Stake(a, amount)
  BY <1>1, <1>4 DEF Stake, TypeOK, Proof, historyVars
<1>5. CASE \E a \in Authorities : Close(a)
  BY <1>1, <1>5 DEF Close, historyVars
<1>6. CASE Reset
  BY <1>1, <1>6 DEF Reset
<1>7. CASE \E amount \in Amounts : Donate(amount) \/ Burn(amount)
  BY <1>1, <1>7 DEF Donate, Burn, historyVars
<1>8. CASE Tick
  <2>1. clock' \in Nat /\ clock <= clock'
    BY <1>1, <1>8, LedgerAssumption DEF Tick
  <2> QED
    BY <1>8, <2>1 DEF Tick, chainVars, historyVars
<1>9. CASE ToolStep
  BY <1>1, <1>9 DEF ToolStep, historyVars
<1>10. CASE ResetTooSoon \/ UNCHANGED vars
  BY <1>1, <1>10 DEF ResetTooSoon, vars, chainVars, historyVars
<1>11. CASE \E a \in Authorities : Reprocess(a)
  <2>1. PICK a \in Authorities, n \in Nat, mint \in Mints,
             beneficiary \in {"wallet", "treasury"} : ReprocessFor(a, n, mint, beneficiary)
    BY <1>11, ReprocessCases
  <2>2. /\ a \in DOMAIN proof /\ proof[a] \in Proof /\ DOMAIN proof' = DOMAIN proof
        /\ proof'[a] = [proof[a] EXCEPT !.total_hashes = 0, !.total_rewards = 0]
        /\ \A c \in DOMAIN proof \ {a} : proof'[c] = proof[c]
        /\ clock' = clock /\ opened_at' = opened_at
    BY <2>1, ReprocessFacts DEF TypeOK
  <2>3. proof'[a].total_hashes = 0 /\ proof'[a].last_hash_at = proof[a].last_hash_at
    BY <2>2 DEF Proof
  <2>4. \A c \in DOMAIN proof :
          /\ proof'[c].total_hashes \in {0, proof[c].total_hashes}
          /\ proof'[c].last_hash_at = proof[c].last_hash_at
    BY <2>2, <2>3
  <2>5. clock <= clock
    BY <1>1
  <2> QED
    BY <1>1, <2>2, <2>4, <2>5
<1> QED
  BY <1>2, <1>3, <1>4, <1>5, <1>6, <1>7, <1>8, <1>9, <1>10, <1>11 DEF Next

(* No step lets a proof count more hashes than minutes. *)
LEMMA HashRateStep == LedgerInv /\ HashRate /\ [Next]_vars => HashRate'
<1> SUFFICES ASSUME LedgerInv, HashRate, [Next]_vars PROVE HashRate'
  OBVIOUS
<1>1. CASE Mine
  BY <1>1, MineHashRate
<1>2. CASE ~Mine
  <2> SUFFICES ASSUME NEW c \in DOMAIN proof' PROVE HashRateOf(c)'
    BY DEF HashRate, HashRateOf
  <2>1. /\ clock \in Nat /\ TOLERANCE \in Nat /\ ONE_MINUTE \in Nat
        /\ clock' \in Nat /\ clock <= clock'
    BY <1>2, ScheduleSteps, ConstsAssumption DEF LedgerInv, TypeOK
  <2>2. CASE /\ c \in DOMAIN proof /\ opened_at'[c] = opened_at[c]
             /\ proof'[c].total_hashes \in {0, proof[c].total_hashes}
             /\ proof'[c].last_hash_at = proof[c].last_hash_at
    <3>1. /\ HashRateOf(c) /\ proof[c].last_hash_at \in Nat /\ opened_at[c] \in Nat
          /\ ONE_MINUTE * proof[c].total_hashes \in Nat
      BY <2>1, <2>2, U64MaxPositive DEF HashRate, HashRateOf, LedgerInv, TypeOK, Proof
    <3> QED
      BY <2>1, <2>2, <3>1 DEF HashRateOf
  <2>3. CASE /\ opened_at'[c] = clock /\ clock' = clock
             /\ proof'[c].total_hashes = 0 /\ proof'[c].last_hash_at = clock
    BY <2>1, <2>3 DEF HashRateOf
  <2> QED
    BY <1>2, <2>2, <2>3, ScheduleSteps
<1> QED
  BY <1>1, <1>2

(* A proof never has more hashes than minutes.                             *)
THEOREM LedgerHashRate == Spec => []HashRate
<1>1. Init => HashRate
  BY DEF Init, HashRate
<1>2. LedgerInv /\ HashRate /\ [Next]_vars => HashRate'
  BY HashRateStep
<1> QED
  BY <1>1, <1>2, LedgerInvariant, PTL DEF Spec

-----------------------------------------------------------------------------
(* What the steps other than hashes do to tools. *)
LEMMA ToolsBesideMining ==
  ASSUME [Next]_vars, ~Mine
  PROVE  UNCHANGED toolVars \/ (ToolStep /\ mined' = mined)
<1>1. CASE \E a \in Authorities, m \in Miners : Open(a, m)
  BY <1>1 DEF Open
<1>2. CASE \E a \in Authorities, amount \in Amounts : Claim(a, amount) \/ Stake(a, amount)
  BY <1>2 DEF Claim, ClaimTo, Stake
<1>3. CASE \E a \in Authorities : Close(a) \/ Reprocess(a)
  BY <1>3 DEF Close, Reprocess, ReprocessFor
<1>4. CASE Reset
  BY <1>4 DEF Reset
<1>5. CASE \E amount \in Amounts : Donate(amount) \/ Burn(amount)
  BY <1>5 DEF Donate, Burn
<1>6. CASE Tick \/ ResetTooSoon \/ UNCHANGED vars
  BY <1>6 DEF Tick, ResetTooSoon, vars, chainVars
<1>7. CASE ToolStep
  BY <1>7 DEF ToolStep, historyVars
<1> QED
  BY <1>1, <1>2, <1>3, <1>4, <1>5, <1>6, <1>7 DEF Next

(* What is left of a tool grows by no more than rounding, and a hash that  *)
(* the cap per minute does not cut takes no more of it than it pays        *)
(* (mine_coal.rs, equip.rs, unequip.rs).                                   *)
THEOREM LedgerWearWithinPay == Spec => WearWithinPay
<1> DEFINE Fair == \A x \in Assets :
                     /\ NotRepaired(x)
                     /\ mined' - mined < TARGET_COAL_REWARDS =>
                          WornWithin(x, (mined' - mined) + Rounding(x))
<1>1. LedgerInv /\ [Next]_vars => [Fair]_vars
  <2> SUFFICES ASSUME LedgerInv, Next PROVE Fair
    OBVIOUS
  <2>1. ToolTypeOK /\ CustodyMatches /\ mined \in Nat
    BY U64MaxPositive DEF LedgerInv, TypeOK
  <2>2. CASE Mine
    <3>1. PICK a \in DOMAIN proof, b \in Buses, d \in 0 .. MaxDifficulty,
               t \in [durability : Nat, multiplier : Nat],
               g \in [stake : Nat, total_stake : Nat, total_multiplier : Nat] :
            /\ MinedWith(a, b, d, t, g)
            /\ \/ UNCHANGED toolVars
               \/ \E e \in DOMAIN tool :
                    /\ tool[e].durability = t.durability
                    /\ Wear(e, MineOutcome(config, proof[a], bus[b], t, g, d, clock).durability)
      BY <2>2, MineCases DEF LedgerInv
    <3> DEFINE out == MineOutcome(config, proof[a], bus[b], t, g, d, clock)
    <3>2. /\ out.durability \in Nat /\ out.reward_actual \in Nat
          /\ mined' = mined + out.reward_actual
          /\ out.reward_actual < TARGET_COAL_REWARDS => out.durability <= out.reward_actual
      BY <3>1, MinedFacts DEF LedgerInv
    <3>3. UNCHANGED toolVars \/ \E e \in DOMAIN tool : Wear(e, out.durability)
      BY <3>1
    <3> HIDE DEF out
    <3>4. mined' - mined = out.reward_actual
      BY <2>1, <3>2
    <3> QED
      BY <2>1, <3>2, <3>3, <3>4, HashWear
  <2>3. CASE ~Mine
    <3>1. mined' - mined = 0
      BY <2>1, <2>3, QuietSteps DEF Quiet, Reset
    <3>2. \A x \in Assets : NotRepaired(x) /\ WornWithin(x, Rounding(x))
      <4>1. UNCHANGED toolVars \/ ToolStep
        BY <2>3, ToolsBesideMining
      <4> QED
        BY <2>1, <4>1, HandlingFacts DEF ToolStep
    <3>3. \A x \in Assets : 0 + Rounding(x) = Rounding(x)
      BY <2>1, RoundingType
    <3> QED
      BY <3>1, <3>2, <3>3
  <2> QED
    BY <2>2, <2>3
<1> QED
  BY <1>1, LedgerInvariant, PTL DEF Spec, WearWithinPay


-----------------------------------------------------------------------------
(* An epoch that is over can be followed by a new one: the part of         *)
(* EpochsFollow that needs no fairness.                                    *)

(* What would make a reset fail, and does not: a top balance to be found,  *)
(* room for the mint in the supply and in the treasury, a rate that fits.  *)
ResetSucceeds ==
  /\ ResetIsDue /\ supply < MAX_COAL_SUPPLY
  /\ \E top \in TopBalances : top \in U64 /\ \A other \in TopBalances : other <= top
  /\ NextRate.base_reward_rate \in U64
  /\ supply + MintAmount \in U64 /\ treasury + MintAmount \in U64

EndedEpochsCanBeReset == ~EpochIsActive /\ supply < MAX_COAL_SUPPLY => ResetSucceeds

(* However hashes, stakes and late resets have left the accounts, the      *)
(* reset of an epoch that is over finds a top balance, a rate that fits    *)
(* and room for its mint (reset_coal.rs), until the supply is at its cap.  *)
THEOREM LedgerResetsSucceed == Spec => []EndedEpochsCanBeReset
<1>1. LedgerInv => EndedEpochsCanBeReset
  <2> SUFFICES ASSUME LedgerInv, ~EpochIsActive, supply < MAX_COAL_SUPPLY
               PROVE  ResetSucceeds
    BY DEF EndedEpochsCanBeReset
  <2> USE DEF LedgerInv
  <2>1. ResetIsDue
    <3>1. clock \in Nat /\ config.last_reset_at \in Nat /\ COAL_EPOCH_DURATION \in Nat
      BY ConstsAssumption DEF TypeOK, Config, COAL_EPOCH_DURATION
    <3> QED
      BY <3>1 DEF ResetIsDue, EpochIsActive
  <2>2. PICK top \in TopBalances : \A other \in TopBalances : other <= top
    <3>1. TopBalances \subseteq 0 .. U64Max /\ TopBalances # {} /\ U64Max \in Nat
      BY U64MaxPositive DEF TopBalances, TypeOK, Bus, U64
    <3> QED
      BY <3>1, LargestNatural
  <2>3. top \in U64
    BY U64MaxPositive DEF TopBalances, TypeOK, Bus, U64
  <2>4. NextRate.base_reward_rate \in U64
    <3>1. TotalTheoreticalRewards \in Nat
      <4>1. \A b \in Buses : [c \in Buses |-> bus[c].theoretical_rewards][b] \in Nat
        BY U64MaxPositive DEF TypeOK, Bus
      <4>2. SumOver([c \in Buses |-> bus[c].theoretical_rewards], Buses) \in Nat
        BY <4>1, ConstsAssumption, SumOverNat
      <4> QED
        BY <4>2, U64MaxPositive DEF TotalTheoreticalRewards, Lesser
    <3>2. InBand(NextRate)
      BY <3>1, RetargetKeepsBand DEF NextRate, RateBand
    <3> QED
      BY <3>2, DerivedConstants, U64MaxPositive DEF InBand, U64
  <2>5. supply + MintAmount \in U64 /\ treasury + MintAmount \in U64
    <3>1. supply \in Nat /\ treasury \in Nat /\ circulating \in Nat
          /\ MAX_COAL_SUPPLY \in 0 .. U64Max /\ U64Max \in Nat
          /\ supply = treasury + circulating
      BY U64MaxPositive, ConstsAssumption DEF TypeOK, SupplyConserved, U64
    <3>2. MintAmount \in Nat /\ supply + MintAmount <= MAX_COAL_SUPPLY
      BY MintFacts
    <3>3. supply + MintAmount \in 0 .. U64Max /\ treasury + MintAmount \in 0 .. U64Max
      BY <3>1, <3>2
    <3> QED
      BY <3>3 DEF U64
  <2> QED
    BY <2>1, <2>2, <2>3, <2>4, <2>5 DEF ResetSucceeds
<1> QED
  BY <1>1, LedgerInvariant, PTL

(* An epoch that is over stays over until a reset begins the next one, and *)
(* nothing but reprocesses uses up the room in the supply.                 *)
EndedEpochsWait ==
  [][~EpochIsActive =>
       \/ Reset /\ EpochIsActive'
       \/ ~EpochIsActive' /\ supply' <= supply + (reprocessed' - reprocessed)]_vars

(* A step other than a hash or a reset does not turn back the clock, nor   *)
(* mint but by a reprocess.                                                *)
LEMMA TimeAndSupply ==
  ASSUME LedgerInv, [Next]_vars, ~Mine, ~Reset
  PROVE  /\ config' = config /\ clock' \in Nat /\ clock <= clock'
         /\ supply' <= supply + (reprocessed' - reprocessed)
<1>1. clock \in Nat /\ supply \in Nat /\ reprocessed \in Nat
  BY U64MaxPositive DEF LedgerInv, TypeOK
<1>2. clock <= clock /\ supply <= supply + (reprocessed - reprocessed)
  BY <1>1
<1>3. CASE \E a \in Authorities, m \in Miners : Open(a, m)
  BY <1>1, <1>2, <1>3 DEF Open
<1>4. CASE \E a \in Authorities, amount \in Amounts : Claim(a, amount) \/ Stake(a, amount)
  BY <1>1, <1>2, <1>4 DEF Claim, ClaimTo, Stake, historyVars
<1>5. CASE \E a \in Authorities : Close(a)
  BY <1>1, <1>2, <1>5 DEF Close, historyVars
<1>10. CASE \E a \in Authorities : Reprocess(a)
  <2>1. PICK a \in Authorities, n \in Nat, mint \in Mints,
             beneficiary \in {"wallet", "treasury"} : ReprocessFor(a, n, mint, beneficiary)
    BY <1>10, ReprocessCases DEF LedgerInv
  <2>2. PICK k \in Nat : supply' = supply + k /\ reprocessed' = reprocessed + k
    BY <2>1, ReprocessFacts DEF LedgerInv
  <2>3. config' = config /\ clock' = clock
    BY <2>1 DEF ReprocessFor
  <2> QED
    BY <1>1, <2>2, <2>3
<1>6. CASE \E amount \in Amounts : Donate(amount)
  BY <1>1, <1>2, <1>6 DEF Donate
<1>7. CASE \E amount \in Amounts : Burn(amount)
  <2>1. PICK amount \in Amounts : Burn(amount)
    BY <1>7
  <2>2. /\ supply' = supply - amount /\ clock' = clock /\ config' = config
        /\ reprocessed' = reprocessed
    BY <2>1 DEF Burn, historyVars
  <2>3. amount \in Nat
    BY LedgerAssumption, U64MaxPositive
  <2> QED
    BY <1>1, <2>2, <2>3
<1>8. CASE Tick
  <2>1. PICK d \in Advances : clock' = clock + d
    BY <1>8 DEF Tick
  <2>2. d \in Nat
    BY LedgerAssumption
  <2> QED
    BY <1>1, <1>2, <1>8, <2>1, <2>2 DEF Tick, chainVars, historyVars
<1>9. CASE ToolStep \/ ResetTooSoon \/ UNCHANGED vars
  BY <1>1, <1>2, <1>9 DEF ToolStep, ResetTooSoon, vars, chainVars, historyVars
<1> QED
  BY <1>3, <1>4, <1>5, <1>6, <1>7, <1>8, <1>9, <1>10 DEF Next

(* No hash counts between two epochs, and no other instruction ends the    *)
(* wait but the reset, after which hashes count again (mine_coal.rs,       *)
(* reset_coal.rs).  A reprocess may mint meanwhile (reprocess.rs), and is  *)
(* all that takes room from the reset.                                     *)
THEOREM LedgerEpochsWait == Spec => EndedEpochsWait
<1>1. LedgerInv /\ [Next]_vars =>
        [~EpochIsActive =>
           \/ Reset /\ EpochIsActive'
           \/ ~EpochIsActive' /\ supply' <= supply + (reprocessed' - reprocessed)]_vars
  <2> SUFFICES ASSUME LedgerInv, [Next]_vars, ~EpochIsActive
               PROVE  \/ Reset /\ EpochIsActive'
                      \/ ~EpochIsActive' /\ supply' <= supply + (reprocessed' - reprocessed)
    OBVIOUS
  <2>1. clock \in Nat /\ config.last_reset_at \in Nat /\ COAL_EPOCH_DURATION \in Nat \ {0}
    BY ConstsAssumption DEF LedgerInv, TypeOK, Config, COAL_EPOCH_DURATION
  <2>2. ~Mine
    <3> SUFFICES ASSUME Mine PROVE FALSE
      OBVIOUS
    <3>1. PICK e \in DOMAIN proof, b \in Buses, d \in 0 .. MaxDifficulty,
               t \in [durability : Nat, multiplier : Nat],
               g \in [stake : Nat, total_stake : Nat, total_multiplier : Nat] :
            MinedWith(e, b, d, t, g)
      BY MineCases DEF LedgerInv
    <3> QED
      BY <3>1 DEF MinedWith
  <2>3. CASE Reset
    <3>1. config'.last_reset_at = clock /\ clock' = clock
      BY <2>3 DEF Reset
    <3>2. EpochIsActive'
      BY <2>1, <3>1 DEF EpochIsActive
    <3> QED
      BY <2>3, <3>2
  <2>4. CASE ~Reset
    <3>1. /\ config' = config /\ clock' \in Nat /\ clock <= clock'
          /\ supply' <= supply + (reprocessed' - reprocessed)
      BY <2>2, <2>4, TimeAndSupply
    <3>2. ~(clock < config.last_reset_at + COAL_EPOCH_DURATION)
      BY DEF EpochIsActive
    <3>3. ~(clock' < config'.last_reset_at + COAL_EPOCH_DURATION)
      BY <2>1, <3>1, <3>2
    <3>4. ~EpochIsActive'
      BY <3>3 DEF EpochIsActive
    <3> QED
      BY <3>1, <3>4
  <2> QED
    BY <2>3, <2>4
<1> QED
  BY <1>1, LedgerInvariant, PTL DEF Spec, EndedEpochsWait
=============================================================================
