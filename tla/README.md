# Verification of the coal program

TLA+ models, model-checking runs and TLAPS proofs for the on-chain program in
`src/program` and its API crate `src/api`. The program lets miners submit
proof-of-work hashes and earns them *coal* or *wood*, two tokens with their own
configuration, buses, proofs, mint and treasury account; tools raise the pay of
a hash and wear out.

Contents: [the system](#the-system), [the modules](#the-modules),
[correspondence with the code](#correspondence-with-the-code),
[the runs](#the-runs), [bounds](#bounds-and-why-they-are-enough),
[fairness](#fairness), [the proofs](#the-proofs),
[findings](#disagreements-between-code-and-documentation),
[what is not modelled](#what-is-not-modelled), [plan](#plan).

## The system

All state lives in accounts. An instruction is atomic: it takes the accounts it
names, and an error or a panic rolls the transaction back. Instructions of
different users interleave in any order; the cluster clock advances between
them. There are no threads, queues or callbacks in the program. What makes it
hard is that many users share buses and a treasury, that time passes by any
amount between two instructions, and that amounts owed and tokens held are
separate accounts which must agree.

| Component | State | Operations | What makes it correct |
|---|---|---|---|
| Coal ledger | `Config` (rate, difficulty, last reset, top stake), 8 `Bus` accounts, a `Proof` per authority, coal mint, treasury token account | open, mine, claim, stake, close, reset; reprocess changes a proof, and may mint | the treasury holds what is owed; resets keep to the supply cap; emission keeps to the epochs; a hash a minute |
| Reward of a hash | none | the arithmetic of `process_mine_coal` and `process_chop_wood` | no overflow goes unnoticed; pay within the bus; late hashes never gain |
| Retargeting | rate and difficulty | `calculate_new_reward_rate`, difficulty adjustment | the rate keeps its band; emission settles |
| Wood ledger | `WoodConfig` (with the size of the pool), 8 buses, a `ProofV2` per authority, wood mint, treasury account | open, chop, claim, stake, close, reset; reprocess may mint | what is mined is minted exactly once; the pool adds up and grows slowly |
| Tools | `Tool` and `WoodTool` accounts, Metaplex Core assets | equip, unequip, wear by a hash | an asset is behind one tool account, its holder's; wear is permanent |
| Reprocess | `Reprocessor` account, chromium mint | init, finalise from a slot on | statistics are traded once, for whatever mint; delay never pays |
| Transactions | noop instructions, the challenge of each proof | authentication of a proof, challenge chain, commit and abort | a solution counts once, and is not computed ahead |
| Builders, dispatch and loaders | which account is at which address | builders compose accounts; a discriminator selects the coal or wood handler; loaders validate accounts | every handler gets the accounts it assumes |
| Update | miner of a proof | `process_update`, which refuses every call | |
| Initialisation | none after deployment | `InitCoal`, `InitWood` (not dispatched), `InitChromium` | |
| Events, errors, layout of accounts | none | plain data | |

Interactions. A hash reads the config, debits a bus, credits a proof and wears a
tool; it moves no tokens. A reset reads all buses, writes the config and the
buses, and mints into the treasury. Claim and stake move tokens between the
treasury and wallets and change a proof. Equip and unequip move an asset between
a wallet and a tool account by calls to Metaplex Core. Reprocess reads and zeroes
the statistics of a coal proof and has the treasury sign a mint of what they are
worth. The client passes the chromium mint; the handler compares neither the mint
nor the token account with anything, and the treasury is the authority of the
mints of coal and wood as well, so that a finalisation is an interaction with
either ledger. The guilds program is only read: its accounts yield a bonus.

The behaviours that are hard to test, with the lines where they bite and the
properties that watch them, are the `hazards` of `PROJECT.json`.

## The modules

| Module | Content |
|---|---|
| `MachineInt` | u64 and u128 of any width: saturating operations, casts, powers of two |
| `FunctionSums` | the sum of a function over a finite set |
| `Consts`, `WoodConsts` | the protocol constants, derived as `consts.rs` derives them, and what is assumed of them |
| `CoalReward` | what a coal hash earns: staking, liveness penalty, tool, guild, payout |
| `WoodReward` | the same for wood, where it differs |
| `RewardRate` | retargeting of the rate and the minimum difficulty |
| `Tools` | custody and wear of tools: a state machine of its own |
| `ReprocessReward` | what lifetime statistics are traded for |
| `CoalLedger` | the coal side: composes `CoalReward`, `RewardRate`, `ReprocessReward`, `Tools`, `FunctionSums` |
| `WoodLedger` | the wood side: composes `WoodReward`, `RewardRate`, `Tools`, `FunctionSums` |
| `Vault` | what either ledger promises its owners, without epochs, buses, hashes or supply |
| `Reprocessing` | the two transactions of a reprocess, composed with `CoalLedger` |
| `Transactions` | challenges, noops, transactions that commit or abort |
| `Accounts` | addresses and types of accounts; builders, dispatcher and loaders; composes `Tools` twice |
| `LateHash` | a miner who waits: the penalty second by second |
| `Retargeting` | the feedback loop of rate and hash power, epoch after epoch |
| `MCCoalLedger`, `MCWoodLedger`, `MCReprocessing`, `MCTransactions`, `MCAccounts` | small instances for TLC |
| `RewardTheorems` | lemmas about sums, machine integers and division; what the arithmetic of a hash and of a reset guarantees |
| `ToolsProofs`, `CoalLedgerProofs`, `WoodLedgerProofs`, `TransactionsProofs`, `AccountsProofs` | theorems about the state machines, the refinements of `WoodLedger` and `Accounts` among them |
| `PayProofs` | theorems about the pay of a hash: `LateHash` and `Retargeting` |
| `RefinementProofs` | the coal ledger implements `Vault`; what the two transactions of a reprocess keep, and what they pay |

Two modules are abstract specifications. `Tools` says what may happen to a tool
and its asset, `Vault` what may happen to what an owner can withdraw. These
refinements are checked by TLC and proved:

| Property | Says |
|---|---|
| `CoalLedger!ImplementsVault`, `WoodLedger!WoodImplementsVault` | `Promise == INSTANCE Vault` with the balances of proofs for `balance`, `circulating` for `outside` and `donated` for `given`: an instruction changes one owner's balance, and what leaves it arrives in a wallet or, when claimed to the treasury itself, is given up. Nothing else appears in a wallet but what a reprocess mints there (`reprocessed` for `issued`) |
| `Accounts!ImplementsCustody` | tool accounts at their addresses and the holders of assets are `Tools`, once for coal and once for wood |

Two compositions are refinements by construction and are not listed: the tool steps
of a ledger are the actions of `Tools`, and `Reprocessing` conjoins actions of
`CoalLedger` with its own. `WearWithinPay`, `WoodWearWithinPay` and
`CustodyMatches` say what the first is for. The second is the lemma
`ReprocessingIsLedger`, by which the theorems of the ledger hold of the
composition.

Operators marked "a slip" are not part of the model. Each is the form that a
plausible mistake would give to the definition after it, and substituting it
makes one of the properties fail.

## Correspondence with the code

| Code | Model |
|---|---|
| a `Proof` or `ProofV2` account at a seed | in the ledgers `proof[a]`, present while the account is open; its challenge is in `Transactions`, its address and type in `Accounts` |
| `Config`, `WoodConfig`, `Bus` | records with the code's field names |
| `Clock::unix_timestamp` | `clock`, advanced by `Tick` |
| supply and token accounts of the SPL program | `supply`, `treasury`, and `circulating` for all others; holders may also send to the treasury (`Donate`) or burn |
| a handler with its early returns and `unwrap`s | one action; its guard is "no error, no panic" |
| an early `Reset`, which returns `Ok` | `ResetTooSoon`, a stutter |
| optional accounts of a hash | `NoTool` or an open tool account naming the miner; `NoGuild` or a record of the guild accounts' numbers |
| the decimal attribute of an asset, an f64 | `FromAttribute`: reading it back may lose one indivisible unit, and from 2^51 units on lose or gain a part in 2^51 (`ATTRIBUTE_PRECISION`) |
| the cube root of an f64 | `CubeRoots`: the integer root, or the next one for a number within a part in 2^50 (`ROOT_PRECISION`) below its cube |
| `InitCoal`, `InitWood` | `Init`, `WoodInit`; they ran at deployment and are not dispatched |
| a keccak hash | in `Transactions` a record of what is hashed: equal only if all of that is equal. A key (of an authority) is told from a solution |
| a transaction | in `Transactions`, `Begin`, instructions, then `Commit` or `Abort`; `committed` is what an abort restores. In the other modules an instruction is a step of its own |
| `Clock::slot`, `SlotHashes` | `slot`; the latest slot hash is named by its slot |
| an account address | in `Accounts` a triple of seed, resource and whose it is |
| discriminator, owner and length of an account's data | `TypeAt(address)`; what is not open is empty |
| the accounts of an instruction | a sequence of records `key`, `signer`, `writable` in the builder's order |

History variables (`unfunded`, `donated`, `reprocessed`, `mined`, `genesis`,
`opened_at`, `unminted`, `paid`, `received`, `lifetime`) are written by actions and
read by properties. Actions do not read them, but for the bound `MaxReprocessed`
on `reprocessed`.

Some choices deserve a note.

* `Claim` lets the beneficiary be the treasury's own token account, because the
  handler accepts any account of the mint; the transfer then moves nothing and
  the claim is given up.
* `CoalLedger!Reprocess` trades the lifetime statistics of a coal proof at any time,
  for any amount that any root and any number can give (`ReprocessRewards`), minted
  from any mint of the treasury (`Mints`) into a wallet or the treasury's own
  account. `Reprocessing` has the slots and the number's penalty, and
  `FinalizeReprocess` names the mint too. `WoodLedger!ReprocessIntoWood` is the same
  handler as the wood ledger sees it: coal proofs are not in that module, so
  the amount is any. `reprocessed` counts what has come into a ledger's mint so,
  and `SupplyConserved`, the vault and `EndedEpochsWait` are stated with it: the cap
  of 21 million binds resets, not the supply. What bounds a reprocess is
  `SupplyWithinWorth`: chromium and the coal beyond the cap are together within
  what all past hashes are worth.
* In `Transactions` miners know each challenge as early as it can be known: the
  one that is set, the one that opening a proof in this slot would set, and the
  one that each of their solutions would set if it landed in this slot. A
  submission is not a message in the model. A transaction may carry any solution
  to any challenge at any time, so that loss, delay, duplication and reordering
  are all covered.
* `Accounts` has every combination of open accounts as states and asks of each
  what the program would do with each instruction a builder can make. User
  token accounts are taken to exist, and discriminators of other programs to
  differ from those of this one.

## The runs

Runs that pass:

| Run | Shows |
|---|---|
| `ledger_accounts` | Two miners, one bus, up to the supply cap, and past it by a reprocess. `TypeOK`; `Backing`: treasury and unfunded rewards equal balances, buses and donations; `SupplyConserved`: the supply is what the token accounts hold, and beyond the cap there is only what reprocesses minted; `Solvent`: all balances can be claimed until the cap bites; `Emission`: no more is mined than the epochs begun allow, however late resets come; `ShortfallOnlyAtCap`; `ImplementsVault` (refinement) |
| `ledger_resets` | One miner, two buses, guild bonuses, reprocesses, busy, scarce and idle epochs. `RateBand`; `BusTally`: the tracker that the next rate comes from covers what each bus paid; `EpochsFollow` (liveness): an epoch that is over is followed by a new one until the supply cap |
| `ledger_tools` | Two owners who buy and sell a pickaxe, hashes early and late. `CustodyMatches`: an asset in custody is behind one tool account, its holder's; `HashRate`: hashes counted take a minute each; `WearWithinPay`: whoever holds an asset, what is left of it grows by no more than rounding, and falls by no more than hashes below the cap are paid |
| `late_hash` | Coal and wood, every second of 17 minutes with the program's minute and tolerances. `WaitingNeverPays`, `PenaltyIsBounded` |
| `retargeting` | The program's thresholds; arbitrary epochs and then a steady hash power; a correction of the rate that loses its high bits. `PayAtMostDoublesOrHalves`, `PayFollowsScarcity`; `EmissionApproaches`: at a steady hash power, what an epoch owes halves or doubles towards the target and never leaves it again; `EmissionSettles` (liveness): it gets there |
| `wood_ledger` | One miner with an axe, two buses, reprocesses that mint wood. `WoodTypeOK`; `WoodBacking`: what miners own is in the treasury or minted at the next reset; `PoolAddsUp`; `PoolGrowsSlowly`; `WoodRateBand`; `WoodWearWithinPay`: as for coal, with no exception for the cap; `WoodImplementsVault` (refinement) |
| `transactions` | Two authorities, three proofs. `TxTypeOK`; `CountedOnce`: no challenge is paid twice; `NoPreMining`: no hash that counts was computed before the previous one of its proof landed; `OneHashPerKind`: a transaction earns one hash of coal and one of wood at most |
| `reprocessing` | A miner that mines, closes and reopens around a reprocess. `SplittingNeverPays`: however hashes are split over finalisations, proofs and mints, an authority gets no more than one finalisation of all of them could give; `SupplyWithinWorth`: chromium and the coal beyond the cap are within that for all authorities; `DelayNeverPays`; `NoReprocessorIsStuck` (liveness) |
| `accounts` | All accounts of two authorities, two pickaxes and an axe. `AccountsAtTheirSeeds`: data and address agree; `InstructionsFindTheirProof`; `HashesFindTheirTool`; `AssetsCanBeReturned`; `ImplementsCustody` (refinement) |

Runs that show a disagreement, one property each: `doc_stake_held`,
`doc_lifetime_rewards`, `doc_update`; see below.

## Bounds and why they are enough

The ledgers are scaled down together: a minute is 3 ticks, an epoch 2 minutes, a
u64 has 10 bits, a full coal bus holds 4 to 12 grains and a wood bus 2 to 8. The
ratios that decide which branch is taken are kept: the tolerance is less than a
minute (more than a minute for wood), an epoch is several minutes, the upper
threshold of the rate is more than twice the lower, a hash can be worth more
than a bus.

* `MaxTime`: buses are empty until the first reset, at the initial time or later.
  `ledger_resets` has up to three resets (at 6, 12 and 18), so that two epochs of
  hashes are followed by a reset and a rate that was changed is changed again.
  `ledger_accounts` has up to two (the second at 12 or 13, on time or late),
  and the cap is low enough for the second to meet it. `ledger_tools`,
  `wood_ledger` and `reprocessing` have up to two as well: one epoch of hashes from
  beginning to end, and the first second of the next. Stake deposited in the
  first epoch becomes the top balance of the second in `ledger_accounts`.
* `Advances` includes steps that make hashes early (in `ledger_tools`), on time and
  a minute late, and resets due, late, and exactly at the end of the epoch.
* `MaxReprocessed` bounds what reprocesses mint into a ledger's own mint to one or
  two finalisations' worth. That takes the supply of `ledger_accounts` past its cap,
  after the reset that met it or before; of more there is nothing new to see.
  `SCALING_FACTOR` and `REPROCESS_MAX_MULTIPLIER` are small to make what a hash is
  worth fit in it; in `ledger_tools` the factor is zero and a reprocess
  just clears the statistics, as supply is not its subject.
* `ROOT_PRECISION` is 8, so that the next root is possible just below a cube (7).
  `ATTRIBUTE_PRECISION` is larger than any durability of a run, so that
  reading an attribute may lose a unit and never gains: a gain
  could be repeated, by equipping and unequipping, until the word is full. What large
  amounts may gain is left to the proofs, which hold for any precision.
* `MaxDifficulty` lets a hash exceed the cap per minute and the bus.
* `Amounts`: two grains (four in `reprocessing`, zero or none where transfers are not
  the subject): full, partial and failing claims.
* Authorities: two where owners can get in each other's way (`ledger_accounts`,
  `ledger_tools`), one in `ledger_resets`, where all that counts is what buses
  paid, and in `wood_ledger`, where a second one is out of reach of the time that
  a run has: trades of wood tools between owners are left to
  `WoodWearIsPaid`, which holds for any number of them. The custody of two assets of
  one kind is in `accounts`.
* `late_hash` and `retargeting` use the program's own times, thresholds, or
  both, with narrower words.
* `HashCounts`, `FewRewards` and `HashDifficulty` of `retargeting`: hash powers
  from none to the most for which miners still meet the difficulty. A word of 26
  bits and epochs that owe 1, 5 or 7 grains let the correction of a rate at the
  limit of a bus wrap, and also fit.
* `transactions`: three slots, which take no time or a minute; two solutions of
  each challenge; a wood proof and two coal proofs, two of one authority. That is
  enough to close and reopen a proof within and across slots, for a solution to
  outlive the challenge it was made for, and for the kinds to be confused.
  `Declarations` has the noops of a miner of both kinds and of a miner whose first
  noop is a dummy.
* `reprocessing`: one authority, as only a bus and the treasury are shared with
  others; six slots, with the target one slot ahead and a buffer of one, so that
  a reprocessor is finalised in time, late, and opened again; multipliers up to 2.
* `accounts`: two authorities, two miners, two pickaxes and an axe. The run is
  exhaustive for these: nothing else bounds it. All of 8 buses are in a reset.
* Buses, assets and authorities are symmetric where a run checks no liveness (the
  set `Interchangeable` of the MC modules).

`CHECK_DEADLOCK FALSE` is said only where time is bounded and nothing else moves:
in `late_hash`, where the miner stops waiting at the bound. Overflow guards are
rarely met in the instances; that they suffice is proved for every width
(`LedgerTypes`).

## Fairness

`FairSpec` adds `WF_vars(Reset)`. Anybody may send a reset, miners earn nothing
until somebody does, and the instruction cannot be blocked by others: weak
fairness says that a reset which stays due is eventually sent. No fairness is
assumed of miners. `RetargetSpec` assumes weak fairness of `SteadyEpoch`, which
is the same assumption for the loop. `EpochsFollow` would fail if some state of
the accounts made a due reset panic.

`ReprocessingSpec` assumes weak fairness of `NextSlot`, as the cluster goes on,
and of each `FinalizeReprocess(a, "chromium")`: the owner of a reprocessor is paid
by the finalisation that its client builds, needs nobody else for it, and may
repeat it until it succeeds.
`NoReprocessorIsStuck` would fail if a reprocessor could be too late, or blocked
by what else happens to the proof short of closing it. `Spec` of `Transactions` and
`AccountsSpec` state no fairness; their properties are safety.

## The proofs

Proved for every value of the constants that meets the named assumptions: any
number of buses, authorities, miners, assets, wallets and slots, any word width,
any durations and amounts. The assumptions, each beside the constants it is
about, are `U64BitsAssumption`, `ConstsAssumption`, `ThresholdAssumption`,
`WoodConstsAssumption`, `IssuedAssetsAssumption`, `LedgerAssumption`,
`WoodLedgerAssumption`, `ReprocessRewardAssumption`, `ReprocessingAssumption`, `TransactionsAssumption`,
`AccountsAssumption`, `RetargetingAssumption` and `LateHashAssumption`. The
program's constants satisfy them, and TLC evaluates them on the instances. Every
safety invariant, action property and refinement of the passing runs is a theorem.

### The ledgers

* **Coal.** `LedgerInvariant` proves `Spec => []LedgerInv`, where
  `LedgerInv` is `TypeOK`, `CustodyMatches`, `RateBand`, `BusBound` (no bus above
  its share), `Backing` and `SupplyConserved`. None is inductive alone. That
  a transfer does not overdraw needs `Backing`; that a reset mints what `Backing`
  asks for needs `BusBound`, because the pool is computed with a saturating
  subtraction; that the new rate fits a u64 needs `RateBand`. One lemma per
  action shows that it keeps every part. `LedgerTypes`, `LedgerBacking`,
  `LedgerSupply`, `LedgerSolvent`, `LedgerRateBand` and the action property
  `LedgerShortfall` follow. `LedgerEmission`, `LedgerBusTally` and `LedgerHashRate`
  strengthen `LedgerInv` by the property itself (and by the schedule of
  `last_hash_at` for the last).
* **Wood.** `WoodInvariant` proves `WoodSpec => []WoodInv`: `WoodTypeOK`,
  `CustodyMatches`, `WoodBusBound` (no bus above the maximum of a pool),
  `ResetsAreLate` (the clock is an epoch or more past the zero that the
  config starts with, so no hash is accepted before the first reset), `WoodBacking`,
  `PoolAddsUp` and `WoodRateBand`. Wood mints what was mined only at the next
  reset, so `WoodBacking` counts what is `unminted`, and what a reset mints is what
  the miners took only because `PoolAddsUp` ties the buses to the size of the pool
  in the config. `WoodPoolGrowsSlowly` bounds the sum of the refilled buses by
  bounds of each (`SumOverScaledBound`), whatever each bus paid.
* **Resets that follow.** `LedgerResetsSucceed` and `LedgerEpochsWait` are
  `EpochsFollow` without its fairness. In every reachable state below the cap, the
  guard of the reset of an epoch that is over is met: a largest top balance exists
  (`LargestNatural`), the new rate fits, and the mint has room. And nothing but
  the reset ends the wait, and nothing but a reprocess uses up supply meanwhile: no
  hash counts in between. `WoodResetsSucceed` and `WoodEpochsWait` say the same of
  wood, where the condition is that the u64 of the mint has room for what is
  unminted, and a reprocess may take some of that room.
* **Tools.** `ToolsCustody` and `ToolsNeverRepaired` on the custody machine, for any
  number of owners and assets.
  `LedgerWearWithinPay` and `WoodWearIsPaid` follow an asset through tool accounts
  and wallets (`Remaining`): equipping may round it down by one indivisible unit
  and by the error of its attribute (`Rounding`), or up by that error
  (`RoundedUp`), unequipping and trading cost nothing, and a hash wears it by no
  more than it pays. Both need custody, as a second tool account for the same
  asset would bring back what the first has worn.
* **Vault.** `LedgerImplementsVault` and `WoodKeepsItsPromise` have one lemma per way
  an instruction can treat the balances (earn, withdraw or forfeit, deposit,
  give or destroy, be issued something, not seen) and need the invariants only for types and for
  a hash that pays what it credits.

### The pay of a hash

* **A late hash.** `HoldingBackNeverPays` compares the pay of one second with the
  next: within a minute the linear decay only grows (`DecayWithinMinute`); at a
  minute mark the decay of at most a half ends and one more halving
  begins (`NextHalving`); past the width of a word the power of two saturates and
  nothing is left. `PenaltyStaysBounded` is the other side.
* **A reset.** `ResetsChangePaySlowly` and `ResetsFollowScarcity` rest on an
  invariant of the loop (types, the band of the rate, a difficulty that the
  miners meet) and on `NotchCancels`: a notch of difficulty halves or doubles the
  factor of a hash exactly as the rate is doubled or halved with it, and loses
  only where the rate rose to its upper threshold. An epoch without theoretical
  rewards keeps the rate and still runs the tests on difficulty; by the same
  lemma it leaves the pay as it was.
  `SteadyEmissionApproaches` is the step of convergence. What steady miners are
  owed is a multiple of the rate, so the new rate is the right one rounded down, or
  the old one halved or doubled (`SteadyRate`), and the limit of a bus never binds
  because each bus holds the whole target. A reset above the band halves what is owed at
  least, one below doubles it, neither passes the band, and nothing leaves it.
* **Staking.** `StakingIsBounded` (coal, 1x to 13x) and `WoodStakingIsBounded` (1x
  to 2x): whatever the top balance of the last epoch was, and with rounding, more
  stake never earns less, and the top balance and all above earn the full bonus.
* **A reprocess.** `ReprocessingIsLedger` maps the composition to the ledger. Its one
  step that is not by construction is that a finalisation mints what
  `ReprocessRewards` allows (`FinalizationIsReprocess`): the penalised number stays
  between 1 and the multiplier. `ReprocessingKeepsLedger` carries `LedgerInv` and the
  vault over, and `ReprocessingKeepsPromises` the other safety properties, through
  finalisations that may mint coal past the cap.
  `ReprocessingPaysForThePast` proves `ReprocessInv`: what an authority got, of all
  mints, is within the worth of what it mined *less what its proof still has to
  trade*. `SplittingNeverPays` alone is not inductive, as a finalisation would then
  pay a second time for the same statistics. The step of a finalisation is
  `TradeWithinWorth`: the worth of statistics is superadditive (`PortionsAdd`:
  a product of hashes and a root that grows with the rewards), and a product
  that saturates is below the exact one.
  `ComingLateNeverPays` needs of the invariant only types. `ReprocessingIsBacked` sums
  over authorities: chromium and the coal that reprocesses minted are no more than
  what all authorities received (`MintsAreReceived`), that is within the worth of
  what they mined, and `SupplyConserved` has the cap.
  `DueReprocessorsWait` and `DueReprocessorsCanPay` are `NoReprocessorIsStuck`
  without its fairness: a due reprocessor stays due until it is finalised or its
  proof is closed, and the guard of the finalisation is met, as every number of
  rewards has a root (`LargestRoot`), unless the mint has no room for what the
  statistics are worth. What is left to fairness is that a step
  which stays possible is taken.

### Transactions and accounts

* **Transactions.** `TxInv` says of the proofs as they are, and of those that an
  abort would restore, that every challenge in use is a hash of its kind, of the
  slot it was set in, which descends from an opening or from a credited
  one; that no two proofs share one; that none in use has been credited,
  and that every credited one is of an earlier slot, so that none set now can repeat
  it. Reopening a proof within a slot does repeat a challenge, and is harmless
  because a challenge cannot be used in the slot that set it: a minute must pass
  first (`Waits`). The theorems are
  `TransactionTypes`, `ChallengesCountOnce`, `NothingIsPreMined` and `OneHashEach`.
* **Accounts.** `AccountsInv` adds to `AccountsAtTheirSeeds` that only addresses of
  the known kinds are open and that an asset is held at the address of the tool
  account that names it; `AssetsAreReturned` and `AccountsImplementCustody` need the
  last. `InstructionsReachTheirProof` and `HashesReachTheirTool` follow a builder's
  accounts one by one through the dispatcher and the loaders, which the
  prover must do with sequences of unknown addresses: the lemmas say which place an
  account has in a joined sequence, and that addresses of different kinds differ.

### Foundations

`RewardTheorems` holds what the others share: `MineOutcomeFacts` (a hash that does
not panic pays within the bus, the cap and its reward), `RetargetKeepsBand` (a reset
keeps the rate in its band, whatever the buses owed), and lemmas on sums,
division and powers. `SumOver` and `Pow2` are recursive functions. Their equations
are proved from scratch, without induction schemas: the recursion's graph is
shown to exist by a minimal counterexample.

### Model-checked only

Liveness under fairness, and `ENABLED`, are out of the prover's reach:
`EpochsFollow`, `EmissionSettles` and `NoReprocessorIsStuck` are checked by TLC on
the instances, and so is everything that the runs of the next section refute. The
steps they consist of are proved, as said above: what is due stays due and its
guard is met, each reset halves or doubles the emission towards its target. Missing are that
an action which stays enabled is taken, and that finitely many halvings
suffice, an induction that no installed prover does.

## Disagreements between code and documentation

Each is a run that TLC must find violated; `PROJECT.json` quotes the lines.

* `doc_stake_held`: the README says that the treasury holds user stake. The last
  reset before the supply cap mints less than it puts in the buses, and once that
  is mined the balances exceed the treasury.
* `doc_lifetime_rewards`: `total_rewards` of a wood proof counts rewards that the
  bus could not pay.
* `doc_update`: `Update` "changes the miner authority on a proof account", and no
  update is accepted. The dispatcher reads the tenth account and the handlers take
  exactly three.

Others were met in modelling and are visible in the definitions, without a run of
their own.

* The comment on staking says 1x to 2x (`mine_coal.rs:108`); coal adds twelve times
  the staking reward, up to 13x (`StakingIsBounded`). Wood is as the comment says
  (`WoodStakingIsBounded`).
* A coal hash above the cap per minute wears its tool for rewards it is not paid
  (`mine_coal.rs:191`, `:220`); `WearWithinPay` is therefore about hashes below it.
* `MAX_COAL_SUPPLY` is "The maximum token supply (21 million)" (`consts.rs:61`), and
  the last step of a reprocess is commented "Mint chromium rewards"
  (`reprocess.rs:93`). The handler mints from whatever mint of the treasury it is
  given, coal past its maximum included; `SupplyConserved` therefore bounds the
  supply by the cap *and* what reprocesses minted. At the cap and past it, resets fail
  and no hash counts until enough is burned, so that `EpochsFollow` has that
  exception.
* The comment on `calculate_new_reward_rate` (`reset/mod.rs:34`) says that the new
  rate is the current one times target over actual rewards, smoothed. The
  quotient is formed in 128 bits and cut to 64 before it is smoothed
  (`reset/mod.rs:55`). With the difficulty at its lowest the rate may climb to the
  rewards of a bus; an epoch that then owes next to nothing, because its few
  hashes were minutes late, can lower the rate, where the formula raises it.
  `PayFollowsScarcity` is therefore about corrections that fit (`CorrectionFits`).
* "Only one proof account can be used for any given transaction"
  (`mine_coal.rs:44`): one coal proof and one wood proof can, because coal reads
  the second noop and wood the first. `OneHashPerKind` is what holds.
* `Reprocessor::slot` is documented as the slot of creation
  (`state/reprocessor.rs:15`) and holds the target slot; the check
  of it is commented as "less than" and refuses the target slot as well
  (`reprocess.rs:44`).
* "1 hash per epoch" is one per minute (`HashRate` is the exact statement), and
  twenty minutes of penalty bring only rewards below 2^20 grains to zero.
* The builder of a wood hash always passes the tool account of the proof's
  authority. A tool equipped for another miner than the proof's makes every such
  hash fail until it is unequipped (`HashesFindTheirTool` has it exactly).

## What is not modelled

* The hash function: any nonce may solve any challenge, and difficulties are any
  number up to a bound. Keccak is one to one.
* The fee of a reprocess, rent and all other lamports; events, logs and return
  data; the bytes of accounts and arguments, and with them how `read_u16` and
  `read_pubkey` walk through the instructions sysvar; metadata strings.
* Calls to the system, token and metadata programs beyond their effect on
  accounts and balances.
* Lists of accounts that no builder makes: `Accounts` asks what the loaders do with
  what the client builds. The exception is the mint and the token account of a
  reprocess, which `MintsInto` compares with each other and nothing else; the ledgers
  let them be any.
* Burning and transfers of chromium, and other mints that somebody gave to the
  treasury.
* User token accounts that do not exist, and accounts of other programs made to
  look like those of this one.
* A composition of all modules. Each covers one concern with the others
  abstracted: `Transactions` accepts whatever the ledgers might refuse, `Accounts`
  leaves amounts out, the ledgers take the accounts they are given. What one
  module assumes of another is named in its header.
* The guilds program and Metaplex Core: what their accounts may say is a
  constant set, and holders trade assets freely.
* Liveness of the wood reset. Wood has no supply cap, but the mint is a u64 and a
  mint that overflows fails; the guard of `ResetWood` has it, and `WoodResetsSucceed`
  says that there is no other reason. Checking fairness
  of this action is costly, because every state evaluates the whole retargeting.

## Plan

Every component that keeps state is modelled, and every safety property, action
property and refinement that the runs check is proved. What is left, in this order:

1. **The width of the wood mint**: how many epochs fit in its u64, from
   `WoodPoolGrowsSlowly`, and with it what is unminted when it is full.
2. **Liveness of the wood reset**, with a smaller instance.
3. **Stake over epochs**: how the top balance of an epoch relates to what the
   hashes of the next are paid for it, beyond the bounds of one hash.
