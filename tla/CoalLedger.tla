----------------------------- MODULE CoalLedger -----------------------------
(***************************************************************************)
(* The coal side of the program as one state machine: the singleton        *)
(* config, the buses, the proofs, the coal mint and the treasury's token   *)
(* account, with one action per instruction that touches them.             *)
(*                                                                         *)
(* An instruction is atomic: an error or a panic rolls the transaction     *)
(* back, so a handler is an action whose guard is "no early return".       *)
(*                                                                         *)
(* Beside the accounts there are history variables, which no action reads: *)
(* they record what the properties are about.                              *)
(***************************************************************************)
EXTENDS CoalReward, RewardRate, ReprocessReward, Tools, FunctionSums

CONSTANTS
  GuildBonuses,  \* what the guild accounts of a hash can say
  MaxDifficulty, \* the best solution a miner finds (bound)
  Amounts,       \* the amounts of transfers (bound)
  MaxReprocessed, \* the coal that reprocesses mint in all (bound)
  Advances,      \* the steps of the cluster clock, in seconds (bound)
  InitialTime, MaxTime \* the clock runs between them (bound)

ASSUME LedgerAssumption ==
  /\ IsFiniteSet(Authorities)
  /\ GuildBonuses \subseteq [stake : U64, total_stake : U64, total_multiplier : U64]
  /\ MaxDifficulty \in Nat
  /\ Amounts \subseteq U64
  /\ MaxReprocessed \in Nat
  /\ Advances \subseteq Nat
  /\ InitialTime \in Nat /\ InitialTime >= COAL_EPOCH_DURATION
  /\ MaxTime \in Nat

VARIABLES
  clock,       \* Clock::unix_timestamp
  config,      \* the coal Config account
  bus,         \* the coal Bus accounts
  proof,       \* the open coal Proof accounts, by authority
  supply,      \* supply of the coal mint
  treasury,    \* balance of the treasury's coal token account
  circulating, \* coal in every other token account
  (* history *)
  unfunded,    \* rewards put in the buses that the supply cap kept unminted
  donated,     \* coal that reached the treasury without an owner
  reprocessed, \* coal minted by reprocesses
  mined,       \* all rewards ever credited to proofs
  genesis,     \* time of the first reset, 0 before it
  opened_at    \* when each authority's current proof was opened

chainVars == <<config, bus, proof, supply, treasury, circulating, toolVars>>
historyVars == <<unfunded, donated, reprocessed, mined, genesis, opened_at>>
vars == <<clock, chainVars, historyVars>>

Config == [last_reset_at : Nat, min_difficulty : Nat, base_reward_rate : U64,
           top_balance : U64]

Bus == [rewards : U64, theoretical_rewards : U64, top_balance : U64]

(* The challenge, the last hash and their keccak chain are left out.       *)
Proof == [miner : Miners, balance : U64, last_hash_at : Nat, last_stake_at : Nat,
          total_hashes : U64, total_rewards : U64]

TypeOK ==
  /\ clock \in Nat
  /\ config \in Config
  /\ bus \in [Buses -> Bus]
  /\ DOMAIN proof \subseteq Authorities /\ proof \in [DOMAIN proof -> Proof]
  /\ supply \in U64 /\ treasury \in U64 /\ circulating \in U64
  /\ unfunded \in Nat /\ donated \in Nat /\ reprocessed \in Nat
  /\ mined \in Nat /\ genesis \in Nat
  /\ opened_at \in [Authorities -> Nat]
  /\ ToolTypeOK

(* InitCoal ran at deployment; the instruction is not dispatched any more. *)
Init ==
  /\ clock = InitialTime
  /\ config = [last_reset_at |-> 0, min_difficulty |-> INITIAL_MIN_DIFFICULTY,
               base_reward_rate |-> INITIAL_BASE_COAL_REWARD_RATE, top_balance |-> 0]
  /\ bus = [b \in Buses |-> [rewards |-> 0, theoretical_rewards |-> 0, top_balance |-> 0]]
  /\ proof = [a \in {} |-> {}]
  /\ supply = 0 /\ treasury = 0 /\ circulating = 0
  /\ unfunded = 0 /\ donated = 0 /\ reprocessed = 0 /\ mined = 0 /\ genesis = 0
  /\ opened_at = [a \in Authorities |-> 0]
  /\ ToolInit

-----------------------------------------------------------------------------
(* A proof account is created for authority a, with miner m as its signer. *)
Open(a, m) ==
  /\ a \notin DOMAIN proof
  /\ proof' = [c \in DOMAIN proof \cup {a} |->
                 IF c = a
                 THEN [miner |-> m, balance |-> 0, last_hash_at |-> clock,
                       last_stake_at |-> clock, total_hashes |-> 0, total_rewards |-> 0]
                 ELSE proof[c]]
  /\ opened_at' = [opened_at EXCEPT ![a] = clock]
  /\ UNCHANGED <<clock, config, bus, supply, treasury, circulating, toolVars,
                 unfunded, donated, reprocessed, mined, genesis>>

EpochIsActive == clock < config.last_reset_at + COAL_EPOCH_DURATION

(* The miner of a's proof submits a solution of difficulty d to bus b.  t  *)
(* is the tool state and g the guild bonus the optional accounts yield.    *)
MinedWith(a, b, d, t, g) ==
  /\ EpochIsActive
  /\ clock >= TargetTime(proof[a]) - TOLERANCE
  /\ d >= config.min_difficulty
  /\ CanCompute(config, g, d)
  /\ LET out == MineOutcome(config, proof[a], bus[b], t, g, d, clock)
     IN  /\ ~out.panics
         /\ bus' = [bus EXCEPT ![b] =
              [rewards |-> @.rewards - out.reward_actual,
               theoretical_rewards |-> @.theoretical_rewards + out.reward,
               top_balance |-> IF StakeIsActive(proof[a], clock)
                               THEN Greater(@.top_balance, proof[a].balance)
                               ELSE @.top_balance]]
         /\ proof' = [proof EXCEPT
              ![a].balance = @ + out.reward_actual,
              ![a].last_hash_at = HashTime(proof[a], clock),
              ![a].total_hashes = SatAdd(@, 1),
              ![a].total_rewards = SatAdd(@, out.reward_actual)]
         /\ mined' = mined + out.reward_actual
  /\ UNCHANGED <<clock, config, supply, treasury, circulating,
                 unfunded, donated, reprocessed, genesis, opened_at>>

(* The caller passes no tool account, or the address of an authority's     *)
(* tool PDA at which no tool is equipped.  An empty account is skipped,    *)
(* but it shifts the guild accounts that follow it, and the hash fails.    *)
MineBare(a, b, d, g) ==
  /\ MinedWith(a, b, d, NoTool, g)
  /\ UNCHANGED toolVars

(* The caller passes the tool account of c, which must name this miner.    *)
MineEquipped(a, b, d, c, g) ==
  /\ c \in DOMAIN tool /\ tool[c].miner = proof[a].miner
  /\ MinedWith(a, b, d, tool[c], g)
  /\ Wear(c, MineOutcome(config, proof[a], bus[b], tool[c], g, d, clock).durability)

Mine ==
  \E a \in DOMAIN proof, b \in Buses, d \in 0 .. MaxDifficulty,
     g \in GuildBonuses \cup {NoGuild} :
    \/ MineBare(a, b, d, g)
    \/ \E c \in DOMAIN tool : MineEquipped(a, b, d, c, g)

(* A slip: claiming more than the balance takes the balance to zero. *)
ClaimToSaturating(a, amount, beneficiary) ==
  /\ a \in DOMAIN proof /\ amount <= treasury
  /\ proof' = [proof EXCEPT ![a].balance = SatSub(@, amount)]
  /\ treasury' = IF beneficiary = "treasury" THEN treasury ELSE treasury - amount
  /\ circulating' = circulating + (treasury - treasury')
  /\ donated' = IF beneficiary = "treasury" THEN donated + amount ELSE donated
  /\ UNCHANGED <<clock, config, bus, supply, toolVars,
                 unfunded, reprocessed, mined, genesis, opened_at>>

(* The beneficiary is any coal token account.  The treasury's own is one:  *)
(* the transfer to itself moves nothing and the claim is given up.         *)
ClaimTo(a, amount, beneficiary) ==
  /\ a \in DOMAIN proof
  /\ amount <= proof[a].balance /\ amount <= treasury
  /\ proof' = [proof EXCEPT ![a].balance = @ - amount]
  /\ IF beneficiary = "treasury"
     THEN /\ donated' = donated + amount
          /\ UNCHANGED <<treasury, circulating>>
     ELSE /\ treasury' = treasury - amount
          /\ circulating' = circulating + amount
          /\ UNCHANGED donated
  /\ UNCHANGED <<clock, config, bus, supply, toolVars,
                 unfunded, reprocessed, mined, genesis, opened_at>>

Claim(a, amount) == \E beneficiary \in {"wallet", "treasury"} : ClaimTo(a, amount, beneficiary)

Stake(a, amount) ==
  /\ a \in DOMAIN proof
  /\ proof[a].balance + amount \in U64 /\ amount <= circulating
  /\ proof' = [proof EXCEPT ![a].balance = @ + amount, ![a].last_stake_at = clock]
  /\ treasury' = treasury + amount
  /\ circulating' = circulating - amount
  /\ UNCHANGED <<clock, config, bus, supply, toolVars, historyVars>>

(* A slip: the balance is not looked at. *)
CloseUnchecked(a) ==
  /\ a \in DOMAIN proof
  /\ proof' = [c \in DOMAIN proof \ {a} |-> proof[c]]
  /\ UNCHANGED <<clock, config, bus, supply, treasury, circulating, toolVars, historyVars>>

Close(a) ==
  /\ a \in DOMAIN proof /\ proof[a].balance = 0
  /\ proof' = [c \in DOMAIN proof \ {a} |-> proof[c]]
  /\ UNCHANGED <<clock, config, bus, supply, treasury, circulating, toolVars, historyVars>>

(* Slips: the statistics are left as they are; only the rewards start over. *)
StatisticsKept(a) ==
  /\ a \in DOMAIN proof
  /\ proof[a].total_hashes # 0 /\ proof[a].total_rewards # 0
  /\ UNCHANGED proof
StatisticsHalfTraded(a) ==
  /\ a \in DOMAIN proof
  /\ proof[a].total_hashes # 0 /\ proof[a].total_rewards # 0
  /\ proof' = [proof EXCEPT ![a].total_rewards = 0]

(* The lifetime statistics of a's proof start over. *)
StatisticsTraded(a) ==
  /\ a \in DOMAIN proof
  /\ proof[a].total_hashes # 0 /\ proof[a].total_rewards # 0
  /\ proof' = [proof EXCEPT ![a].total_hashes = 0, ![a].total_rewards = 0]

(* The token program mints n grains of coal into a token account, perhaps  *)
(* the treasury's own.                                                     *)
CoalMinted(n, account) ==
  /\ reprocessed + n <= MaxReprocessed
  /\ supply + n \in U64
  /\ supply' = supply + n
  /\ reprocessed' = reprocessed + n
  /\ IF account = "treasury"
     THEN treasury' = treasury + n /\ donated' = donated + n /\ UNCHANGED circulating
     ELSE circulating' = circulating + n /\ UNCHANGED <<treasury, donated>>

(* The mints whose authority is the treasury. *)
Mints == {"chromium", "coal", "wood"}

(* The statistics are traded for n grains.  The handler compares neither   *)
(* the mint nor the token account with anything, and the treasury signs:   *)
(* the grains are of the mint and in the account that the caller names.    *)
ReprocessFor(a, n, mint, account) ==
  /\ StatisticsTraded(a)
  /\ IF mint = "coal"
     THEN CoalMinted(n, account)
     ELSE UNCHANGED <<supply, treasury, circulating, reprocessed, donated>>
  /\ UNCHANGED <<clock, config, bus, toolVars, unfunded, mined, genesis, opened_at>>

(* The reprocessor account, its slots and the chromium belong to another   *)
(* part of the program; here a reprocess happens at any time.              *)
Reprocess(a) ==
  /\ a \in DOMAIN proof
  /\ \E n \in ReprocessRewards(proof[a].total_hashes, proof[a].total_rewards),
        mint \in Mints, account \in {"wallet", "treasury"} :
       ReprocessFor(a, n, mint, account)

-----------------------------------------------------------------------------
BusRewards == SumOver([b \in Buses |-> bus[b].rewards], Buses)

TotalRemainingRewards == Lesser(BusRewards, U64Max)

TotalTheoreticalRewards ==
  Lesser(SumOver([b \in Buses |-> bus[b].theoretical_rewards], Buses), U64Max)

(* Slips: an epoch lasts a minute; the clock must pass the end of the      *)
(* epoch by a whole epoch.                                                 *)
ResetIsDueEveryMinute == config.last_reset_at + ONE_MINUTE <= clock
ResetIsDueLate == config.last_reset_at + 2 * COAL_EPOCH_DURATION <= clock

ResetIsDue == config.last_reset_at + COAL_EPOCH_DURATION <= clock

(* A slip: a full pool is minted whatever the buses still hold. *)
TotalEpochRewardsInFull == MAX_COAL_EPOCH_REWARDS

(* The epoch pool: what the miners took since the last reset is topped up. *)
TotalEpochRewards == SatSub(MAX_COAL_EPOCH_REWARDS, TotalRemainingRewards)

NextRate == NextCoalRate(config, TotalTheoreticalRewards)

TopBalances == {0} \cup {bus[b].top_balance : b \in Buses}

(* A slip: the rewards are left as they are. *)
TrackersCleared ==
  [b \in Buses |-> [bus[b] EXCEPT !.theoretical_rewards = 0, !.top_balance = 0]]

(* Every bus starts the epoch full, with empty trackers. *)
Refilled ==
  [b \in Buses |-> [rewards |-> BUS_COAL_EPOCH_REWARDS, theoretical_rewards |-> 0,
                    top_balance |-> 0]]

(* Slips: the cap is forgotten; a pool that does not fit is not minted.    *)
MintAmountUncapped == TotalEpochRewards
MintAmountAllOrNothing ==
  IF supply + TotalEpochRewards <= MAX_COAL_SUPPLY THEN TotalEpochRewards ELSE 0

MintAmount == Lesser(SatSub(MAX_COAL_SUPPLY, supply), TotalEpochRewards)

(* A new epoch.  Past the supply cap the instruction fails as a whole.     *)
Reset ==
  /\ ResetIsDue
  /\ supply < MAX_COAL_SUPPLY
  /\ \E top \in TopBalances :
       /\ \A other \in TopBalances : other <= top
       /\ config' = [last_reset_at    |-> clock,
                     min_difficulty   |-> NextRate.min_difficulty,
                     base_reward_rate |-> NextRate.base_reward_rate,
                     top_balance      |-> top]
  /\ bus' = Refilled
  /\ supply' = supply + MintAmount
  /\ treasury' = treasury + MintAmount
  /\ unfunded' = unfunded + (TotalEpochRewards - MintAmount)
  /\ genesis' = IF genesis = 0 THEN clock ELSE genesis
  /\ UNCHANGED <<clock, proof, circulating, toolVars, donated, reprocessed, mined,
                 opened_at>>

(* A reset that comes early succeeds and changes nothing.                  *)
ResetTooSoon == ~ResetIsDue /\ UNCHANGED vars

(* Coal holders may send coal to the treasury's token account, or burn it. *)
Donate(amount) ==
  /\ amount <= circulating
  /\ circulating' = circulating - amount
  /\ treasury' = treasury + amount
  /\ donated' = donated + amount
  /\ UNCHANGED <<clock, config, bus, proof, supply, toolVars,
                 unfunded, reprocessed, mined, genesis, opened_at>>

Burn(amount) ==
  /\ amount <= circulating
  /\ circulating' = circulating - amount
  /\ supply' = supply - amount
  /\ UNCHANGED <<clock, config, bus, proof, treasury, toolVars, historyVars>>

Tick ==
  /\ \E d \in Advances : clock + d <= MaxTime /\ clock' = clock + d
  /\ UNCHANGED <<chainVars, historyVars>>

ToolStep ==
  /\ \/ \E a \in Authorities, m \in Miners, x \in Assets : Equip(a, m, x)
     \/ \E a \in Authorities, x \in Assets : Unequip(a, x)
     \/ \E x \in Assets, c \in Authorities : Trade(x, c)
  /\ UNCHANGED <<clock, config, bus, proof, supply, treasury, circulating, historyVars>>

Next ==
  \/ \E a \in Authorities, m \in Miners : Open(a, m)
  \/ Mine
  \/ \E a \in Authorities, amount \in Amounts : Claim(a, amount)
  \/ \E a \in Authorities, amount \in Amounts : Stake(a, amount)
  \/ \E a \in Authorities : Close(a)
  \/ \E a \in Authorities : Reprocess(a)
  \/ Reset
  \/ ResetTooSoon
  \/ \E amount \in Amounts : Donate(amount)
  \/ \E amount \in Amounts : Burn(amount)
  \/ Tick
  \/ ToolStep

Spec == Init /\ [][Next]_vars

(* Anyone may call Reset, and no miner can earn until somebody does.       *)
FairSpec == Spec /\ WF_vars(Reset)

-----------------------------------------------------------------------------
BalanceOf(a) == IF a \in DOMAIN proof THEN proof[a].balance ELSE 0

Balances == SumOver([a \in Authorities |-> BalanceOf(a)], Authorities)

(* Every grain in the treasury has one owner: a miner's balance, a bus, or *)
(* nobody (a donation).  The sums drift apart if any handler credits one   *)
(* account without debiting another, on any path through any instruction.  *)
Backing == treasury + unfunded = Balances + BusRewards + donated

(* Minting and burning are the only changes of the supply.  Resets stop at *)
(* the cap of 21 million: what is above it has come out of reprocesses,    *)
(* which do not look at the cap.                                           *)
SupplyConserved ==
  /\ supply = treasury + circulating
  /\ supply <= MAX_COAL_SUPPLY + reprocessed

(* Until the supply cap bites, the treasury can pay every balance at once. *)
Solvent == unfunded = 0 => Balances <= treasury

(* The cap of the supply is the only cause of a shortfall: any reset that  *)
(* fills the buses with more than it mints ends at the cap.                *)
ShortfallOnlyAtCap == [][unfunded' # unfunded => supply' = MAX_COAL_SUPPLY]_vars

(* The emission schedule: however miners, claims, stakes and late resets   *)
(* interleave, no more is mined than the epochs that have begun allow.     *)
Emission ==
  IF genesis = 0
  THEN mined = 0 /\ BusRewards = 0
  ELSE (mined + BusRewards) * COAL_EPOCH_DURATION
         <= MAX_COAL_EPOCH_REWARDS * (config.last_reset_at - genesis + COAL_EPOCH_DURATION)

(* The hashes a proof counts take a minute each.  The tolerance lets a     *)
(* miner be early once, and the schedule of last_hash_at takes it back.    *)
HashRate ==
  \A a \in DOMAIN proof :
    /\ ONE_MINUTE * proof[a].total_hashes <= proof[a].last_hash_at - opened_at[a]
    /\ proof[a].last_hash_at <= clock + TOLERANCE

(* The base rate never falls under its minimum threshold, and reaches the  *)
(* maximum threshold only at difficulty 1, where it cannot be traded for   *)
(* an easier difficulty any more.                                          *)
RateBand == InBand(config)

(* The bus's theoretical rewards, from which the next rate is computed,    *)
(* account at least for what the bus paid in this epoch.                   *)
BusTally ==
  genesis # 0 =>
    \A b \in Buses :
      /\ bus[b].rewards <= BUS_COAL_EPOCH_REWARDS
      /\ BUS_COAL_EPOCH_REWARDS - bus[b].rewards <= bus[b].theoretical_rewards

(* An epoch that is over is followed by a new one, unless the coal supply  *)
(* has reached its cap: no state of the accounts makes a due reset panic.  *)
EpochsFollow == ~EpochIsActive ~> (EpochIsActive \/ supply >= MAX_COAL_SUPPLY)

(* Whoever holds an asset, in a tool account or not, what is left of it    *)
(* grows by no more than rounding, and a hash that is paid less than the   *)
(* target per minute never costs it more than it paid: an empty bus does   *)
(* not eat tools.                                                          *)
WearWithinPay ==
  [][\A x \in Assets :
       /\ NotRepaired(x)
       /\ mined' - mined < TARGET_COAL_REWARDS =>
            WornWithin(x, (mined' - mined) + Rounding(x))]_vars

(* Whatever miners, epochs and the supply cap do, the ledger keeps the     *)
(* promises of Vault: no instruction touches two balances, only a claim    *)
(* lets coal out of the treasury, no balance is ever lost, and coal comes  *)
(* from nowhere but the treasury and the reprocesses.                      *)
Promise == INSTANCE Vault WITH
  Owners <- Authorities, balance <- [a \in Authorities |-> BalanceOf(a)],
  outside <- circulating, given <- donated, issued <- reprocessed

ImplementsVault == Promise!VaultSpec

-----------------------------------------------------------------------------
(* What the documentation says and the code does not do.                   *)

(* README.md: the treasury "holds onto user stake". *)
StakeIsHeld == Balances <= treasury
=============================================================================
