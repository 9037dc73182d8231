-------------------------- MODULE RefinementProofs --------------------------
(***************************************************************************)
(* The coal ledger implements the vault, and with the transactions of a    *)
(* reprocess it is still the coal ledger, for every value of the           *)
(* constants.  Statistics are paid for once, and the later the less.       *)
(*                                                                         *)
(* For the vault, one lemma per way in which an instruction can treat the  *)
(* balances; every action is then one of those.  For a reprocess, first    *)
(* the arithmetic of a finalisation: what portions are worth adds up to no *)
(* more than the whole; then the invariant that what an authority got is   *)
(* within the worth of what it has mined and does not have left to trade.  *)
(***************************************************************************)
EXTENDS CoalLedgerProofs, Reprocessing

balances == [a \in Authorities |-> BalanceOf(a)]

(* What an instruction does when it changes the balance of a alone. *)
Changes(a, n) ==
  /\ a \in Authorities
  /\ BalanceOf(a)' = n
  /\ \A c \in Authorities \ {a} : BalanceOf(c)' = BalanceOf(c)

(* The balances after such an instruction. *)
LEMMA ChangedBalances ==
  ASSUME NEW a, NEW n, Changes(a, n)
  PROVE  balances' = [balances EXCEPT ![a] = n] /\ balances'[a] = n
  BY DEF Changes, balances

(* No instruction that keeps every balance, the wallets and the donations  *)
(* is seen by the vault.                                                   *)
LEMMA VaultStutters ==
  ASSUME \A c \in Authorities : BalanceOf(c)' = BalanceOf(c),
         UNCHANGED <<circulating, donated, reprocessed>>
  PROVE  UNCHANGED Promise!vaultVars
<1>1. [a \in Authorities |-> BalanceOf(a)]' = [a \in Authorities |-> BalanceOf(a)]
  OBVIOUS
<1> QED
  BY <1>1 DEF Promise!vaultVars

(* A hash earns. *)
LEMMA MineEarns ==
  ASSUME LedgerInv, Mine
  PROVE  \E a \in Authorities : Promise!Earn(a)
<1>1. PICK a \in DOMAIN proof, b \in Buses, d \in 0 .. MaxDifficulty,
           t \in [durability : Nat, multiplier : Nat],
           g \in [stake : Nat, total_stake : Nat, total_multiplier : Nat] :
        MinedWith(a, b, d, t, g)
  BY MineCases DEF LedgerInv
<1> DEFINE paid == MineOutcome(config, proof[a], bus[b], t, g, d, clock).reward_actual
<1>2. /\ paid \in Nat
      /\ proof'[a].balance = proof[a].balance + paid
      /\ \A c \in DOMAIN proof \ {a} : proof'[c] = proof[c]
      /\ DOMAIN proof' = DOMAIN proof
  BY <1>1, MinedFacts DEF LedgerInv
<1>3. a \in Authorities /\ BalanceOf(a) \in Nat
  BY SumsType DEF LedgerInv, TypeOK
<1> HIDE DEF paid
<1>4. Changes(a, BalanceOf(a) + paid)
  BY <1>2, <1>3 DEF Changes, BalanceOf
<1>5. /\ balances' = [balances EXCEPT ![a] = BalanceOf(a) + paid]
      /\ balances'[a] = BalanceOf(a) + paid /\ balances[a] = BalanceOf(a)
  BY <1>3, <1>4, ChangedBalances DEF balances
<1>6. balances'[a] >= balances[a] /\ balances' = [balances EXCEPT ![a] = balances'[a]]
  <2>1. balances'[a] >= balances[a]
    <3>1. BalanceOf(a) + paid >= BalanceOf(a)
      BY <1>2, <1>3
    <3> QED
      BY <1>5, <3>1
  <2>2. balances' = [balances EXCEPT ![a] = balances'[a]]
    BY <1>5, Zenon
  <2> QED
    BY <2>1, <2>2
<1>7. UNCHANGED <<circulating, donated, reprocessed>>
  BY <1>1 DEF MinedWith
<1>8. Promise!Earn(a)
  BY <1>6, <1>7 DEF Promise!Earn, balances
<1> QED
  BY <1>3, <1>8

(* A claim withdraws, or forfeits when the treasury is its beneficiary. *)
LEMMA ClaimWithdraws ==
  ASSUME LedgerInv, NEW a \in Authorities, NEW amount \in U64, Claim(a, amount)
  PROVE  \E n \in 0 .. BalanceOf(a) : Promise!Withdraw(a, n) \/ Promise!Forfeit(a, n)
<1>1. PICK beneficiary \in {"wallet", "treasury"} : ClaimTo(a, amount, beneficiary)
  BY DEF Claim
<1>2. /\ a \in DOMAIN proof /\ DOMAIN proof' = DOMAIN proof
      /\ \A c \in DOMAIN proof \ {a} : proof'[c] = proof[c]
      /\ proof'[a].balance = proof[a].balance - amount
      /\ amount <= proof[a].balance
  BY <1>1 DEF ClaimTo, LedgerInv, TypeOK, Proof
<1>3. amount \in Nat /\ BalanceOf(a) \in Nat /\ amount <= BalanceOf(a)
  BY <1>2, SumsType, U64MaxPositive DEF LedgerInv, BalanceOf
<1>4. Changes(a, BalanceOf(a) - amount)
  BY <1>2 DEF Changes, BalanceOf
<1>5. balances' = [balances EXCEPT ![a] = @ - amount] /\ balances[a] = BalanceOf(a)
  BY <1>4, ChangedBalances DEF balances
<1>6. CASE beneficiary = "treasury"
  <2>1. circulating' = circulating /\ donated' = donated + amount /\ reprocessed' = reprocessed
    BY <1>1, <1>6 DEF ClaimTo
  <2>2. Promise!Forfeit(a, amount)
    BY <1>3, <1>5, <2>1 DEF Promise!Forfeit, balances
  <2> QED
    BY <1>3, <2>2
<1>7. CASE beneficiary = "wallet"
  <2>1. circulating' = circulating + amount /\ donated' = donated /\ reprocessed' = reprocessed
    BY <1>1, <1>7 DEF ClaimTo
  <2>2. Promise!Withdraw(a, amount)
    BY <1>3, <1>5, <2>1 DEF Promise!Withdraw, balances
  <2> QED
    BY <1>3, <2>2
<1> QED
  BY <1>1, <1>6, <1>7

(* A stake deposits. *)
LEMMA StakeDeposits ==
  ASSUME LedgerInv, NEW a \in Authorities, NEW amount \in U64, Stake(a, amount)
  PROVE  \E n \in 0 .. circulating : Promise!Deposit(a, n)
<1>1. /\ a \in DOMAIN proof /\ DOMAIN proof' = DOMAIN proof
      /\ \A c \in DOMAIN proof \ {a} : proof'[c] = proof[c]
      /\ proof'[a].balance = proof[a].balance + amount
  BY DEF Stake, LedgerInv, TypeOK, Proof
<1>2. amount \in 0 .. circulating
  BY U64MaxPositive DEF Stake, LedgerInv, TypeOK
<1>3. Changes(a, BalanceOf(a) + amount)
  BY <1>1 DEF Changes, BalanceOf
<1>4. balances' = [balances EXCEPT ![a] = @ + amount]
  BY <1>3, ChangedBalances DEF balances
<1>5. /\ amount <= circulating /\ circulating' = circulating - amount
      /\ donated' = donated /\ reprocessed' = reprocessed
  BY DEF Stake, historyVars
<1>6. Promise!Deposit(a, amount)
  BY <1>4, <1>5 DEF Promise!Deposit, balances
<1> QED
  BY <1>2, <1>6

(* Coal in wallets is given away or destroyed. *)
LEMMA TransfersLeaveBalances ==
  ASSUME LedgerInv, NEW amount \in U64, Donate(amount) \/ Burn(amount)
  PROVE  \E n \in 0 .. circulating : Promise!Give(n) \/ Promise!Destroy(n)
<1>1. amount \in 0 .. circulating /\ amount <= circulating
  BY U64MaxPositive DEF Donate, Burn, LedgerInv, TypeOK
<1>2. proof' = proof
  BY DEF Donate, Burn
<1>3. [a \in Authorities |-> BalanceOf(a)]' = [a \in Authorities |-> BalanceOf(a)]
  BY <1>2 DEF BalanceOf
<1>4. CASE Donate(amount)
  BY <1>1, <1>3, <1>4 DEF Donate, Promise!Give
<1>5. CASE Burn(amount)
  BY <1>1, <1>3, <1>5 DEF Burn, historyVars, Promise!Destroy
<1> QED
  BY <1>4, <1>5

(* A reprocess issues: what it mints is in no balance, and from none. *)
LEMMA ReprocessIssues ==
  ASSUME LedgerInv, NEW a \in Authorities, Reprocess(a)
  PROVE  Promise!Issue
<1>1. PICK n \in Nat, mint \in Mints, account \in {"wallet", "treasury"} :
        ReprocessFor(a, n, mint, account)
  BY ReprocessCases DEF LedgerInv
<1>2. \A c \in Authorities : BalanceOf(c)' = BalanceOf(c)
  BY <1>1, ReprocessFacts DEF LedgerInv
<1>3. PICK k \in Nat :
        /\ reprocessed' = reprocessed + k
        /\ \/ donated' = donated + k /\ circulating' = circulating
           \/ circulating' = circulating + k /\ donated' = donated
  BY <1>1, ReprocessFacts DEF LedgerInv
<1>4. reprocessed' >= reprocessed /\ reprocessed' - reprocessed = k
  BY <1>3 DEF LedgerInv, TypeOK
<1>5. [c \in Authorities |-> BalanceOf(c)]' = [c \in Authorities |-> BalanceOf(c)]
  BY <1>2
<1> QED
  BY <1>3, <1>4, <1>5 DEF Promise!Issue

(* Opening and closing a proof, resets, time and tools are not seen.       *)
LEMMA UnseenSteps ==
  ASSUME LedgerInv,
         \/ \E a \in Authorities, m \in Miners : Open(a, m)
         \/ \E a \in Authorities : Close(a)
         \/ Reset \/ ResetTooSoon \/ Tick \/ ToolStep \/ UNCHANGED vars
  PROVE  UNCHANGED Promise!vaultVars
<1>1. CASE \E a \in Authorities, m \in Miners : Open(a, m)
  <2>1. \A c \in Authorities : BalanceOf(c)' = BalanceOf(c)
    BY <1>1 DEF Open, BalanceOf
  <2> QED
    BY <1>1, <2>1, VaultStutters DEF Open
<1>2. CASE \E a \in Authorities : Close(a)
  <2>1. \A c \in Authorities : BalanceOf(c)' = BalanceOf(c)
    BY <1>2 DEF Close, BalanceOf
  <2> QED
    BY <1>2, <2>1, VaultStutters DEF Close, historyVars
<1>3. CASE Reset \/ ResetTooSoon \/ Tick \/ ToolStep \/ UNCHANGED vars
  <2>1. UNCHANGED <<proof, circulating, donated, reprocessed>>
    BY <1>3 DEF Reset, ResetTooSoon, Tick, ToolStep, vars, chainVars, historyVars
  <2> QED
    BY <2>1, VaultStutters DEF BalanceOf
<1> QED
  BY <1>1, <1>2, <1>3

(* The ledger keeps the promises of the vault: no instruction touches two  *)
(* balances, only a claim lets coal out of the treasury, no balance is     *)
(* ever lost, and a reprocess into coal (reprocess.rs) takes from none.    *)
THEOREM LedgerImplementsVault == Spec => ImplementsVault
<1>1. Init => Promise!VaultInit
  <2> SUFFICES ASSUME Init PROVE Promise!VaultInit
    OBVIOUS
  <2>1. \A a \in Authorities : BalanceOf(a) = 0
    BY DEF Init, BalanceOf
  <2> QED
    BY <2>1 DEF Init, Promise!VaultInit
<1>2. LedgerInv /\ [Next]_vars => [Promise!VaultNext]_(Promise!vaultVars)
  <2> SUFFICES ASSUME LedgerInv, [Next]_vars
               PROVE  Promise!VaultNext \/ UNCHANGED Promise!vaultVars
    OBVIOUS
  <2>1. \A amount \in Amounts : amount \in U64
    BY LedgerAssumption
  <2>2. \A a \in Authorities : [c \in Authorities |-> BalanceOf(c)][a] = BalanceOf(a)
    OBVIOUS
  <2>3. CASE Mine
    BY <2>3, MineEarns DEF Promise!VaultNext
  <2>4. CASE \E a \in Authorities, amount \in Amounts : Claim(a, amount)
    BY <2>1, <2>2, <2>4, ClaimWithdraws DEF Promise!VaultNext
  <2>5. CASE \E a \in Authorities, amount \in Amounts : Stake(a, amount)
    BY <2>1, <2>5, StakeDeposits DEF Promise!VaultNext
  <2>6. CASE \E amount \in Amounts : Donate(amount) \/ Burn(amount)
    BY <2>1, <2>6, TransfersLeaveBalances DEF Promise!VaultNext
  <2>7. CASE \/ \E a \in Authorities, m \in Miners : Open(a, m)
             \/ \E a \in Authorities : Close(a)
             \/ Reset \/ ResetTooSoon \/ Tick \/ ToolStep \/ UNCHANGED vars
    BY <2>7, UnseenSteps
  <2>8. CASE \E a \in Authorities : Reprocess(a)
    BY <2>8, ReprocessIssues DEF Promise!VaultNext
  <2> QED
    BY <2>3, <2>4, <2>5, <2>6, <2>7, <2>8 DEF Next
<1> QED
  BY <1>1, <1>2, LedgerInvariant, PTL DEF Spec, ImplementsVault, Promise!VaultSpec

-----------------------------------------------------------------------------
(* What the statistics of a proof are worth. *)

(* The saturating product is monotone, and exact up to its width. *)
LEMMA SatMulFacts ==
  ASSUME NEW a \in Nat, NEW b \in Nat
  PROVE  /\ SatMul(a, b) \in Nat /\ SatMul(a, b) <= a * b /\ SatMul(a, b) <= U64Max
         /\ \A c, d \in Nat : a <= c /\ b <= d => SatMul(a, b) <= SatMul(c, d)
         /\ a * b <= U64Max => SatMul(a, b) = a * b
         /\ a * b >= U64Max => SatMul(a, b) = U64Max
<1>1. \A n, m \in Nat : n * m \in Nat /\ n * m = m * n
  OBVIOUS
<1>2. ASSUME NEW c \in Nat, NEW d \in Nat, a <= c, b <= d
      PROVE  a * b <= c * d
  <2>1. a * b <= a * d /\ d * a <= d * c
    BY <1>2, ProductMonotone
  <2> QED
    BY <1>1, <2>1
<1>3. U64Max \in Nat
  BY U64MaxPositive
<1> QED
  BY <1>1, <1>2, <1>3 DEF SatMul, Lesser

(* A number is not above its cube. *)
LEMMA CubeAtLeast == \A m \in Nat : m * m * m \in Nat /\ m <= m * m * m
<1> SUFFICES ASSUME NEW m \in Nat PROVE m * m * m \in Nat /\ m <= m * m * m
  OBVIOUS
<1> DEFINE square == m * m
<1>1. square \in Nat
  OBVIOUS
<1>2. CASE m = 0
  BY <1>2
<1>3. CASE m # 0
  <2>1. m * 1 <= m * m
    BY <1>3, ProductMonotone
  <2>2. m <= square
    BY <2>1
  <2> HIDE DEF square
  <2>3. square * 1 <= square * m
    BY <1>1, <1>3, ProductMonotone
  <2>4. square * m \in Nat /\ square * 1 = square
    BY <1>1
  <2>5. m <= square * m /\ square * m \in Nat
    BY <1>1, <2>2, <2>3, <2>4
  <2> QED
    BY <2>5 DEF square
<1> QED
  BY <1>2, <1>3

(* A number has a root, no smaller than any number whose cube it reaches.  *)
LEMMA LargestRoot ==
  ASSUME NEW n \in Nat
  PROVE  \E c \in CubeRoots(n) : \A d \in 0 .. n : d * d * d <= n => d <= c
<1> DEFINE S == {d \in 0 .. n : d * d * d <= n}
<1>1. S \subseteq 0 .. n /\ S # {}
  <2>1. 0 \in S
    OBVIOUS
  <2> QED
    BY <2>1
<1>2. PICK c \in S : \A d \in S : d <= c
  <2> HIDE DEF S
  <2> QED
    BY <1>1, LargestNatural
<1>3. n < (c + 1) * (c + 1) * (c + 1)
  <2> DEFINE m == c + 1
             cube == m * m * m
  <2>1. m \in Nat /\ m \notin S
    BY <1>2
  <2>2. m \in 0 .. n => ~(cube <= n)
    BY <2>1
  <2> HIDE DEF m
  <2>3. cube \in Nat /\ m <= cube
    BY <2>1, CubeAtLeast
  <2> HIDE DEF cube
  <2>4. n < cube
    BY <2>1, <2>2, <2>3
  <2> QED
    BY <2>4 DEF cube, m
<1>4. c * c * c <= n + (c * c * c) \div ROOT_PRECISION
  <2> DEFINE cube == c * c * c
  <2>1. cube \in Nat /\ cube <= n
    BY <1>2, CubeAtLeast
  <2> HIDE DEF cube
  <2>2. cube \div ROOT_PRECISION \in Nat
    BY <2>1, ReprocessRewardAssumption, Division
  <2>3. cube <= n + cube \div ROOT_PRECISION
    BY <2>1, <2>2
  <2> QED
    BY <2>3 DEF cube
<1>5. c \in CubeRoots(n)
  BY <1>2, <1>3, <1>4 DEF CubeRoots
<1> QED
  BY <1>2, <1>5

RootOf(n) == CHOOSE c \in CubeRoots(n) : \A d \in CubeRoots(n) : d <= c

(* It is the largest root.                                                 *)
LEMMA RootOfIsLargest ==
  ASSUME NEW n \in Nat
  PROVE  RootOf(n) \in CubeRoots(n) /\ RootOf(n) \in Nat
         /\ \A d \in CubeRoots(n) : d \in Nat /\ d <= RootOf(n)
<1>1. CubeRoots(n) \subseteq 0 .. n /\ CubeRoots(n) # {}
  BY LargestRoot DEF CubeRoots
<1>2. PICK c \in CubeRoots(n) : \A d \in CubeRoots(n) : d <= c
  BY <1>1, LargestNatural
<1>3. RootOf(n) \in CubeRoots(n) /\ \A d \in CubeRoots(n) : d <= RootOf(n)
  BY <1>2 DEF RootOf
<1> QED
  BY <1>1, <1>3

(* Fewer rewards never have a larger root, however the roots are rounded.  *)
LEMMA RootFacts ==
  ASSUME NEW n \in Nat, NEW m \in 0 .. n
  PROVE  /\ RootOf(n) \in Nat
         /\ \A d \in CubeRoots(m) : d \in Nat /\ d <= RootOf(n)
         /\ RootOf(m) \in Nat /\ RootOf(m) <= RootOf(n)
<1>1. m \in Nat
  OBVIOUS
<1>2. ASSUME NEW d \in CubeRoots(m) PROVE d \in Nat /\ d <= RootOf(n)
  <2> DEFINE cube == d * d * d
             next == (d + 1) * (d + 1) * (d + 1)
  <2>1. d \in 0 .. m /\ d \in Nat /\ d + 1 \in Nat /\ cube <= m + cube \div ROOT_PRECISION
    BY <1>1 DEF CubeRoots
  <2>2. cube \in Nat /\ next \in Nat /\ d + 1 <= next
    BY <2>1, CubeAtLeast
  <2>3. PICK c \in CubeRoots(n) : \A e \in 0 .. n : e * e * e <= n => e <= c
    BY LargestRoot
  <2>4. CASE n < next
    <3>1. cube <= n + cube \div ROOT_PRECISION
      <4> HIDE DEF cube
      <4>1. cube \div ROOT_PRECISION \in Nat
        BY <2>2, ReprocessRewardAssumption, Division
      <4> QED
        BY <2>1, <2>2, <4>1
    <3>2. d \in CubeRoots(n)
      BY <2>1, <2>4, <3>1 DEF CubeRoots
    <3> QED
      BY <2>1, <3>2, RootOfIsLargest
  <2>5. CASE ~(n < next)
    <3>1. next <= n /\ d + 1 \in 0 .. n
      <4> HIDE DEF next
      <4> QED
        BY <2>1, <2>2, <2>5
    <3>2. d + 1 <= c
      BY <2>3, <3>1
    <3>3. c \in Nat /\ c <= RootOf(n) /\ RootOf(n) \in Nat
      BY <2>3, RootOfIsLargest
    <3> QED
      BY <2>1, <3>2, <3>3
  <2> QED
    BY <2>4, <2>5
<1> QED
  BY <1>1, <1>2, RootOfIsLargest

(* A reward is a natural number, and no more than its product is without a *)
(* limit.                                                                  *)
LEMMA RewardType ==
  ASSUME NEW h \in Nat, NEW c \in Nat
  PROVE  /\ CalculateReward(h, c) \in Nat /\ CalculateReward(h, c) <= U64Max
         /\ CalculateReward(h, c) <= SCALING_FACTOR * h * c
         /\ SCALING_FACTOR * h * c \in Nat
<1> DEFINE n == SatMul(SCALING_FACTOR, h)
           m == SCALING_FACTOR * h
<1>1. n \in Nat /\ m \in Nat /\ n <= m
  BY SatMulFacts, ReprocessRewardAssumption
<1> HIDE DEF n, m
<1>2. SatMul(n, c) \in Nat /\ SatMul(n, c) <= n * c /\ SatMul(n, c) <= U64Max
  BY <1>1, SatMulFacts
<1>3. n * c <= m * c /\ n * c \in Nat /\ m * c \in Nat
  <2>1. \A i, j \in Nat : i * j = j * i /\ i * j \in Nat
    OBVIOUS
  <2>2. c * n <= c * m
    BY <1>1, ProductMonotone
  <2> QED
    BY <1>1, <2>1, <2>2
<1>4. SatMul(n, c) <= m * c
  BY <1>2, <1>3
<1> QED
  BY <1>2, <1>3, <1>4 DEF CalculateReward, n, m

(* What the model calls the worth of statistics. *)
LEMMA WorthIs ==
  ASSUME NEW h, NEW r
  PROVE  Worth(h, r) = REPROCESS_MAX_MULTIPLIER * (SCALING_FACTOR * h * RootOf(r))
  BY DEF Worth, RootOf

(* Two portions are worth no more than the whole: a smaller root takes     *)
(* from the product, and no limit does.                                    *)
LEMMA PortionsAdd ==
  ASSUME NEW k1 \in Nat, NEW k2 \in Nat, NEW h1 \in Nat, NEW h2 \in Nat,
         NEW c \in Nat, NEW c1 \in Nat, NEW c2 \in Nat, c1 <= c, c2 <= c, k2 <= k1
  PROVE  /\ k1 * (SCALING_FACTOR * h1 * c1) + k2 * (SCALING_FACTOR * h2 * c2)
              <= k1 * (SCALING_FACTOR * (h1 + h2) * c)
         /\ k1 * (SCALING_FACTOR * h1 * c1) \in Nat
         /\ k2 * (SCALING_FACTOR * h2 * c2) \in Nat
         /\ k1 * (SCALING_FACTOR * (h1 + h2) * c) \in Nat
<1> DEFINE n1 == SCALING_FACTOR * h1
           n2 == SCALING_FACTOR * h2
<1>1. n1 \in Nat /\ n2 \in Nat /\ SCALING_FACTOR * (h1 + h2) = n1 + n2
  BY ReprocessRewardAssumption
<1> HIDE DEF n1, n2
<1>2. /\ n1 * c1 <= n1 * c /\ n2 * c2 <= n2 * c
      /\ n1 * c1 \in Nat /\ n2 * c2 \in Nat /\ n1 * c \in Nat /\ n2 * c \in Nat
      /\ (n1 + n2) * c = n1 * c + n2 * c
  <2>1. \A i, j, l \in Nat : i * j \in Nat /\ (i + j) * l = i * l + j * l
    OBVIOUS
  <2> QED
    BY <1>1, <2>1, ProductMonotone
<1> DEFINE p1 == n1 * c1
           p2 == n2 * c2
           q1 == n1 * c
           q2 == n2 * c
<1>3. p1 \in Nat /\ p2 \in Nat /\ q1 \in Nat /\ q2 \in Nat /\ p1 <= q1 /\ p2 <= q2
  BY <1>2
<1>4. (n1 + n2) * c = q1 + q2
  BY <1>2
<1> HIDE DEF p1, p2, q1, q2
<1>5. k1 * p1 <= k1 * q1 /\ k1 * p2 <= k1 * q2 /\ p2 * k2 <= p2 * k1
  BY <1>3, ProductMonotone
<1>6. /\ k1 * p1 \in Nat /\ k2 * p2 \in Nat /\ p2 * k2 = k2 * p2 /\ p2 * k1 = k1 * p2
      /\ k1 * p2 \in Nat /\ k1 * q1 \in Nat /\ k1 * q2 \in Nat
      /\ k1 * (q1 + q2) = k1 * q1 + k1 * q2 /\ k1 * (q1 + q2) \in Nat
  <2>1. \A i, j, l \in Nat : i * j \in Nat /\ i * j = j * i /\ i * (j + l) = i * j + i * l
    OBVIOUS
  <2>2. q1 + q2 \in Nat
    BY <1>3
  <2> QED
    BY <1>3, <2>1, <2>2
<1>7. k1 * p1 + k2 * p2 <= k1 * (q1 + q2)
  BY <1>5, <1>6
<1> QED
  BY <1>1, <1>4, <1>6, <1>7 DEF n1, n2, p1, p2, q1, q2

(* More statistics are worth at least as much. *)
LEMMA WorthMonotone ==
  ASSUME NEW h \in Nat, NEW r \in Nat, NEW h2 \in Nat, NEW r2 \in Nat, h <= h2, r <= r2
  PROVE  Worth(h, r) \in Nat /\ Worth(h, r) <= Worth(h2, r2)
<1>1. r \in 0 .. r2 /\ h2 - h \in Nat /\ h + (h2 - h) = h2
  OBVIOUS
<1>2. RootOf(r) \in Nat /\ RootOf(r2) \in Nat /\ RootOf(r) <= RootOf(r2)
  BY <1>1, RootFacts
<1>3. REPROCESS_MAX_MULTIPLIER \in Nat /\ 0 \in Nat /\ 0 <= REPROCESS_MAX_MULTIPLIER
  BY ReprocessRewardAssumption
<1> DEFINE M == REPROCESS_MAX_MULTIPLIER
           less == M * (SCALING_FACTOR * h * RootOf(r))
           none == 0 * (SCALING_FACTOR * (h2 - h) * RootOf(r))
           more == M * (SCALING_FACTOR * (h + (h2 - h)) * RootOf(r2))
<1>4. less + none <= more /\ less \in Nat /\ none \in Nat /\ more \in Nat
  <2>1. M \in Nat /\ 0 \in Nat /\ 0 <= M
    BY <1>3
  <2>2. \A c \in Nat, c1 \in Nat : c1 <= c =>
          /\ M * (SCALING_FACTOR * h * c1) + 0 * (SCALING_FACTOR * (h2 - h) * c1)
               <= M * (SCALING_FACTOR * (h + (h2 - h)) * c)
          /\ M * (SCALING_FACTOR * h * c1) \in Nat
          /\ 0 * (SCALING_FACTOR * (h2 - h) * c1) \in Nat
          /\ M * (SCALING_FACTOR * (h + (h2 - h)) * c) \in Nat
    <3> HIDE DEF M
    <3> QED
      BY <1>1, <2>1, PortionsAdd
  <2> HIDE DEF M
  <2> QED
    BY <1>2, <2>2
<1>5. Worth(h, r) = less /\ Worth(h2, r2) = more
  <2>1. Worth(h2, r2) = M * (SCALING_FACTOR * h2 * RootOf(r2))
    BY WorthIs
  <2> QED
    BY <1>1, <2>1, WorthIs
<1> HIDE DEF less, none, more
<1> QED
  BY <1>4, <1>5

(* What statistics are worth is a natural number. *)
LEMMA WorthType == \A h, r \in Nat : Worth(h, r) \in Nat
<1> SUFFICES ASSUME NEW h \in Nat, NEW r \in Nat PROVE Worth(h, r) \in Nat
  OBVIOUS
<1>1. h <= h /\ r <= r
  OBVIOUS
<1> QED
  BY <1>1, WorthMonotone

(* What a finalisation adds, for statistics h and r: together with what    *)
(* was minted for others, it is no more than all of them are worth.        *)
LEMMA TradeWithinWorth ==
  ASSUME NEW h1 \in Nat, NEW r1 \in Nat, NEW h \in Nat, NEW r \in Nat,
         NEW c \in Nat, c <= Worth(h1, r1),
         NEW root \in CubeRoots(r), NEW k \in Nat, k <= REPROCESS_MAX_MULTIPLIER
  PROVE  c + SatMul(CalculateReward(h, root), k) <= Worth(h1 + h, r1 + r)
<1> DEFINE M == REPROCESS_MAX_MULTIPLIER
           root1 == RootOf(r1)
           roots == RootOf(r1 + r)
           part == CalculateReward(h, root)
           full == SCALING_FACTOR * h * root
           minted == SatMul(part, k)
<1>1. r1 \in 0 .. r1 + r /\ r \in 0 .. r1 + r /\ r1 + r \in Nat /\ h1 + h \in Nat
  OBVIOUS
<1>2. root1 \in Nat /\ root1 <= roots /\ roots \in Nat /\ root \in Nat /\ root <= roots
  <2> HIDE DEF RootOf
  <2> QED
    BY <1>1, RootFacts
<1>3. M \in Nat
  BY ReprocessRewardAssumption
<1> HIDE DEF root1, roots
<1>4. /\ M * (SCALING_FACTOR * h1 * root1) + k * full <= M * (SCALING_FACTOR * (h1 + h) * roots)
      /\ M * (SCALING_FACTOR * h1 * root1) \in Nat /\ k * full \in Nat
      /\ M * (SCALING_FACTOR * (h1 + h) * roots) \in Nat
  BY <1>2, <1>3, PortionsAdd
<1>5. /\ Worth(h1, r1) = M * (SCALING_FACTOR * h1 * root1)
      /\ Worth(h1 + h, r1 + r) = M * (SCALING_FACTOR * (h1 + h) * roots)
  BY WorthIs DEF root1, roots
<1>6. part \in Nat /\ full \in Nat /\ part <= full
  BY <1>2, RewardType
<1> HIDE DEF part, full
<1>7. minted \in Nat /\ minted <= part * k
  BY <1>6, SatMulFacts
<1>8. part * k <= k * full /\ part * k \in Nat
  <2>1. k * part <= k * full
    BY <1>6, ProductMonotone
  <2>2. \A i, j \in Nat : i * j = j * i /\ i * j \in Nat
    OBVIOUS
  <2> QED
    BY <1>6, <2>1, <2>2
<1> DEFINE w1 == Worth(h1, r1)
           w == Worth(h1 + h, r1 + r)
           more == k * full
<1>9. w1 \in Nat /\ w \in Nat /\ more \in Nat /\ w1 + more <= w /\ c <= w1
  BY <1>4, <1>5
<1>10. minted <= more
  BY <1>4, <1>7, <1>8
<1> HIDE DEF minted, w1, w, more
<1>11. c + minted <= w
  BY <1>7, <1>9, <1>10
<1> QED
  BY <1>11 DEF minted, w, part

(* A number is divided by no less one slot later. *)
LEMMA LaterDividesMore ==
  ASSUME NEW n \in Nat, NEW k \in Nat
  PROVE  /\ n \div SatPow2(k) \in Nat /\ n \div SatPow2(k) <= n
         /\ n \div SatPow2(k + 1) \in Nat /\ n \div SatPow2(k + 1) <= n \div SatPow2(k)
<1>1. SatPow2(k) \in Nat \ {0} /\ SatPow2(k + 1) \in Nat \ {0}
  BY SatPow2Positive
<1>2. SatPow2(k) <= SatPow2(k + 1)
  <2>1. CASE k + 1 <= U64Bits
    <3>1. Pow2[k + 1] = 2 * Pow2[k] /\ Pow2[k] \in Nat \ {0}
      BY <2>1, Pow2Equation, Pow2Positive, U64BitsAssumption
    <3>2. SatPow2(k) = Pow2[k]
      BY <2>1, U64BitsAssumption DEF SatPow2
    <3>3. SatPow2(k + 1) = Pow2[k + 1] \/ SatPow2(k + 1) = Pow2[k + 1] - 1
      BY <2>1, U64BitsAssumption DEF SatPow2, U64Max
    <3> QED
      BY <3>1, <3>2, <3>3
  <2>2. CASE ~(k + 1 <= U64Bits)
    BY <2>2, U64BitsAssumption, U64MaxPositive DEF SatPow2
  <2> QED
    BY <2>1, <2>2
<1> DEFINE a == SatPow2(k)
           b == SatPow2(k + 1)
<1>3. a \in Nat \ {0} /\ b \in Nat \ {0} /\ a <= b
  BY <1>1, <1>2
<1> HIDE DEF a, b
<1>4. n \div a \in Nat /\ n \div b \in Nat /\ n < a * (n \div a) + a /\ b * (n \div b) <= n
  BY <1>3, Division
<1>5. n \div a <= n
  <2>1. 1 * n <= a * n
    BY <1>3
  <2> QED
    BY <1>3, <2>1, QuotientBound
<1>6. n \div b <= n \div a
  <2> DEFINE q == n \div a
             p == n \div b
  <2>1. q \in Nat /\ p \in Nat /\ n < a * q + a /\ b * p <= n
    BY <1>4
  <2> HIDE DEF q, p
  <2>2. SUFFICES ASSUME q + 1 <= p PROVE FALSE
    BY <2>1 DEF q, p
  <2>3. a * (q + 1) <= a * p /\ p * a <= p * b
    BY <1>3, <2>1, <2>2, ProductMonotone
  <2>4. a * (q + 1) = a * q + a /\ p * a = a * p /\ p * b = b * p
        /\ a * q \in Nat /\ a * p \in Nat /\ b * p \in Nat
    BY <1>3, <2>1
  <2> QED
    BY <1>3, <2>1, <2>3, <2>4
<1> QED
  BY <1>4, <1>5, <1>6 DEF a, b

(* The penalized number is a multiplier of the range, never below 1. *)
LEMMA PenalizedNumberType ==
  ASSUME NEW number \in Nat \ {0}, NEW target \in Nat, slot \in Nat
  PROVE  PenalizedNumber(number, target) \in 1 .. number
<1>1. SatSub(slot, target + REPROCESS_SLOT_BUFFER) \in Nat
  BY ReprocessingAssumption DEF SatSub
<1> DEFINE k == SatSub(slot, target + REPROCESS_SLOT_BUFFER)
<1> HIDE DEF k
<1>2. number \div SatPow2(k) \in Nat /\ number \div SatPow2(k) <= number
  BY <1>1, LaterDividesMore DEF k
<1>3. Greater(1, number \div SatPow2(k)) \in 1 .. number
  BY <1>2 DEF Greater
<1> QED
  BY <1>3 DEF PenalizedNumber, k

(* A slot that passes lowers the multiplier or leaves it. *)
LEMMA LaterIsLess ==
  ASSUME NEW number \in Nat \ {0}, NEW target \in Nat, slot \in Nat, slot' = slot + 1
  PROVE  PenalizedNumber(number, target)' <= PenalizedNumber(number, target)
<1> DEFINE due == target + REPROCESS_SLOT_BUFFER
           k == SatSub(slot, due)
           k2 == SatSub(slot + 1, due)
<1>1. k \in Nat /\ (k2 = k \/ k2 = k + 1)
  BY ReprocessingAssumption DEF SatSub
<1>2. PenalizedNumber(number, target) = Greater(1, number \div SatPow2(k))
      /\ PenalizedNumber(number, target)' = Greater(1, number \div SatPow2(k2))
  BY DEF PenalizedNumber
<1> HIDE DEF k, k2
<1>3. number \div SatPow2(k) \in Nat /\ number \div SatPow2(k2) \in Nat
      /\ number \div SatPow2(k2) <= number \div SatPow2(k)
  <2>1. number \div SatPow2(k) \in Nat /\ number \div SatPow2(k + 1) \in Nat
        /\ number \div SatPow2(k + 1) <= number \div SatPow2(k)
    BY <1>1, LaterDividesMore
  <2>2. CASE k2 = k
    BY <2>1, <2>2
  <2>3. CASE k2 = k + 1
    BY <2>1, <2>3
  <2> QED
    BY <1>1, <2>2, <2>3
<1> QED
  BY <1>2, <1>3 DEF Greater

-----------------------------------------------------------------------------
(* The composition is the ledger: what a finalisation mints is within what *)
(* the ledger allows a reprocess, late or not.                             *)

SlotsType ==
  slot \in Nat /\ \A a \in DOMAIN reprocessor : reprocessor[a] \in Nat

(* Slots and target slots stay numbers. *)
LEMMA SlotsStep == SlotsType /\ [ReprocessingNext]_allVars => SlotsType'
<1> SUFFICES ASSUME SlotsType, [ReprocessingNext]_allVars PROVE SlotsType'
  OBVIOUS
<1>1. CASE \E a \in Authorities : InitReprocess(a)
  <2>1. PICK a \in Authorities : InitReprocess(a)
    BY <1>1
  <2>2. slot + REPROCESS_TARGET_SLOT \in Nat
    BY ReprocessingAssumption DEF SlotsType
  <2> QED
    BY <2>1, <2>2 DEF InitReprocess, SlotsType
<1>2. CASE \E a \in Authorities, mint \in Mints : FinalizeReprocess(a, mint)
  BY <1>2 DEF FinalizeReprocess, SlotsType
<1>3. CASE MineAndCount \/ LedgerInstruction \/ NextSlot \/ UNCHANGED allVars
  BY <1>3 DEF MineAndCount, LedgerInstruction, NextSlot, reprocessVars, allVars, SlotsType
<1> QED
  BY <1>1, <1>2, <1>3 DEF ReprocessingNext

(* What a finalisation mints is among the rewards of its statistics: the   *)
(* number, however penalized, is still one of the range.                   *)
LEMMA FinalizationIsReprocess ==
  ASSUME SlotsType, NEW a \in Authorities, NEW mint \in Mints, FinalizeReprocess(a, mint)
  PROVE  Reprocess(a)
<1>1. PICK number \in 1 .. REPROCESS_MAX_MULTIPLIER, root \in CubeRoots(proof[a].total_rewards),
           account \in {"wallet", "treasury"} :
        ReprocessFor(a, Minted(a, number, root), mint, account)
  BY DEF FinalizeReprocess
<1>2. a \in DOMAIN proof /\ slot \in Nat /\ reprocessor[a] \in Nat
  BY DEF FinalizeReprocess, SlotsType
<1>3. number \in Nat \ {0} /\ REPROCESS_MAX_MULTIPLIER \in Nat
  BY ReprocessRewardAssumption
<1> DEFINE k == PenalizedNumber(number, reprocessor[a])
<1>4. k \in 1 .. number
  BY <1>2, <1>3, PenalizedNumberType
<1> HIDE DEF k
<1>5. k \in 1 .. REPROCESS_MAX_MULTIPLIER
  BY <1>3, <1>4
<1>6. Minted(a, number, root)
        \in ReprocessRewards(proof[a].total_hashes, proof[a].total_rewards)
  BY <1>5 DEF Minted, ReprocessRewards, k
<1> QED
  BY <1>1, <1>2, <1>6 DEF Reprocess

(* Every step of the composition is a step of the ledger, or invisible. *)
LEMMA CompositionStep ==
  ASSUME SlotsType, [ReprocessingNext]_allVars
  PROVE  [Next]_vars
<1>1. CASE \E a \in Authorities : InitReprocess(a)
  BY <1>1 DEF InitReprocess
<1>2. CASE \E a \in Authorities, mint \in Mints : FinalizeReprocess(a, mint)
  BY <1>2, FinalizationIsReprocess DEF Next
<1>3. CASE MineAndCount
  BY <1>3 DEF MineAndCount, Next
<1>4. CASE LedgerInstruction
  BY <1>4 DEF LedgerInstruction, Next
<1>5. CASE NextSlot
  BY <1>5 DEF NextSlot, Next
<1>6. CASE UNCHANGED allVars
  BY <1>6 DEF allVars
<1> QED
  BY <1>1, <1>2, <1>3, <1>4, <1>5, <1>6 DEF ReprocessingNext

(* With slots, reprocessors and chromium hidden, the composition is the    *)
(* coal ledger.                                                            *)
LEMMA ReprocessingIsLedger == ReprocessingSpec => Spec
<1>1. ReprocessingInit => Init /\ SlotsType
  BY DEF ReprocessingInit, SlotsType
<1>2. SlotsType /\ [ReprocessingNext]_allVars => [Next]_vars
  BY CompositionStep
<1> QED
  BY <1>1, <1>2, SlotsStep, PTL DEF ReprocessingSpec, Spec

(* So a reprocess breaks none of the ledger's promises, whatever happens   *)
(* between its two transactions and whatever it mints in the end, nor      *)
(* those of the vault (reprocess.rs).                                      *)
THEOREM ReprocessingKeepsLedger == ReprocessingSpec => []LedgerInv /\ ImplementsVault
  BY ReprocessingIsLedger, LedgerInvariant, LedgerImplementsVault, PTL

-----------------------------------------------------------------------------
(* The statistics of a's proof that are still to be traded. *)
HashesLeft(a) == IF a \in DOMAIN proof THEN proof[a].total_hashes ELSE 0
RewardsLeft(a) == IF a \in DOMAIN proof THEN proof[a].total_rewards ELSE 0

(* What a has got is within the worth of what a has mined before: neither  *)
(* what is left in the proof nor what was lost with a closed one has been  *)
(* paid for.                                                               *)
Paid(amount, mined_before, h, r) ==
  /\ h <= mined_before.hashes /\ r <= mined_before.rewards
  /\ amount <= Worth(mined_before.hashes - h, mined_before.rewards - r)

PaidForThePast(a) == Paid(received[a], lifetime[a], HashesLeft(a), RewardsLeft(a))

(* What there is of chromium and of reprocessed coal, somebody got. *)
MintsAreReceived == chromium + reprocessed <= SumOver(received, Authorities)

ReprocessInv ==
  /\ slot \in Nat
  /\ DOMAIN reprocessor \subseteq Authorities
  /\ \A a \in DOMAIN reprocessor : reprocessor[a] \in Nat
  /\ chromium \in U64
  /\ received \in [Authorities -> Nat]
  /\ lifetime \in [Authorities -> [hashes : Nat, rewards : Nat]]
  /\ \A a \in Authorities : PaidForThePast(a)
  /\ MintsAreReceived

(* The statistics of a proof are numbers. *)
LEMMA StatisticsType ==
  ASSUME LedgerInv, NEW a \in Authorities
  PROVE  /\ HashesLeft(a) \in Nat /\ RewardsLeft(a) \in Nat
         /\ a \in DOMAIN proof => proof[a].total_hashes \in Nat /\ proof[a].total_rewards \in Nat
  BY U64MaxPositive DEF LedgerInv, TypeOK, Proof, HashesLeft, RewardsLeft

(* Nothing has been mined, and nothing paid. *)
LEMMA ReprocessStart == ReprocessingInit => ReprocessInv
<1> SUFFICES ASSUME ReprocessingInit PROVE ReprocessInv
  OBVIOUS
<1>1. \A a \in Authorities : HashesLeft(a) = 0 /\ RewardsLeft(a) = 0
  BY DEF ReprocessingInit, Init, HashesLeft, RewardsLeft
<1>2. Worth(0, 0) \in Nat
  BY WorthMonotone
<1>3. \A a \in Authorities : PaidForThePast(a)
  <2> TAKE a \in Authorities
  <2>1. lifetime[a].hashes = 0 /\ lifetime[a].rewards = 0 /\ received[a] = 0
    BY DEF ReprocessingInit
  <2> HIDE DEF HashesLeft, RewardsLeft, Worth
  <2>2. 0 <= Worth(0, 0)
    BY <1>2
  <2> QED
    BY <1>1, <2>1, <2>2 DEF PaidForThePast, Paid
<1>4. MintsAreReceived
  <2>1. chromium = 0 /\ reprocessed = 0 /\ received \in [Authorities -> Nat]
    BY DEF ReprocessingInit, Init
  <2>2. SumOver(received, Authorities) \in Nat
    BY <2>1, LedgerAssumption, SumOverNat
  <2> QED
    BY <2>1, <2>2 DEF MintsAreReceived
<1>5. chromium \in U64
  BY U64MaxPositive DEF ReprocessingInit, U64
<1> QED
  BY <1>3, <1>4, <1>5 DEF ReprocessingInit, ReprocessInv

(* The statistics of a's proof stay, or are gone. *)
KeptOrGone(a) ==
  \/ HashesLeft(a)' = HashesLeft(a) /\ RewardsLeft(a)' = RewardsLeft(a)
  \/ HashesLeft(a)' = 0 /\ RewardsLeft(a)' = 0

(* No instruction but a hash adds to the statistics of a proof. *)
LEMMA OnlyHashesCount ==
  ASSUME LedgerInv,
         LedgerInstruction \/ Tick \/ UNCHANGED vars \/ \E c \in Authorities : Reprocess(c)
  PROVE  \A a \in Authorities : KeptOrGone(a)
<1>1. proof \in [DOMAIN proof -> Proof]
  BY DEF LedgerInv, TypeOK
<1>2. CASE \E a \in Authorities, m \in Miners : Open(a, m)
  BY <1>2 DEF Open, KeptOrGone, HashesLeft, RewardsLeft
<1>3. CASE \E a \in Authorities, amount \in Amounts : Claim(a, amount)
  <2>1. PICK a \in Authorities, amount \in Amounts, to \in {"wallet", "treasury"} :
          ClaimTo(a, amount, to)
    BY <1>3 DEF Claim
  <2>2. DOMAIN proof' = DOMAIN proof
        /\ \A c \in DOMAIN proof : /\ proof'[c].total_hashes = proof[c].total_hashes
                                   /\ proof'[c].total_rewards = proof[c].total_rewards
    BY <1>1, <2>1 DEF ClaimTo, Proof
  <2> QED
    BY <2>2 DEF KeptOrGone, HashesLeft, RewardsLeft
<1>4. CASE \E a \in Authorities, amount \in Amounts : Stake(a, amount)
  <2>1. DOMAIN proof' = DOMAIN proof
        /\ \A c \in DOMAIN proof : /\ proof'[c].total_hashes = proof[c].total_hashes
                                   /\ proof'[c].total_rewards = proof[c].total_rewards
    BY <1>1, <1>4 DEF Stake, Proof
  <2> QED
    BY <2>1 DEF KeptOrGone, HashesLeft, RewardsLeft
<1>5. CASE \E a \in Authorities : Close(a)
  BY <1>5 DEF Close, KeptOrGone, HashesLeft, RewardsLeft
<1>6. CASE \E a \in Authorities : Reprocess(a)
  <2>1. PICK a \in Authorities, n \in Nat, mint \in Mints, account \in {"wallet", "treasury"} :
          ReprocessFor(a, n, mint, account)
    BY <1>6, ReprocessCases DEF LedgerInv
  <2>2. /\ a \in DOMAIN proof /\ DOMAIN proof' = DOMAIN proof
        /\ proof'[a] = [proof[a] EXCEPT !.total_hashes = 0, !.total_rewards = 0]
        /\ \A c \in DOMAIN proof \ {a} : proof'[c] = proof[c]
    BY <2>1, ReprocessFacts DEF LedgerInv
  <2>3. proof'[a].total_hashes = 0 /\ proof'[a].total_rewards = 0
    BY <1>1, <2>2 DEF Proof
  <2> QED
    BY <2>2, <2>3 DEF KeptOrGone, HashesLeft, RewardsLeft
<1>7. CASE \/ Reset \/ ResetTooSoon \/ Tick \/ ToolStep \/ UNCHANGED vars
           \/ \E amount \in Amounts : Donate(amount) \/ Burn(amount)
  <2>1. proof' = proof
    BY <1>7 DEF Reset, ResetTooSoon, Tick, ToolStep, Donate, Burn, vars, chainVars
  <2> QED
    BY <2>1 DEF KeptOrGone, HashesLeft, RewardsLeft
<1> QED
  BY <1>2, <1>3, <1>4, <1>5, <1>6, <1>7 DEF LedgerInstruction

(* And none but a finalisation mints what statistics are traded for. *)
LEMMA OnlyFinalizationsMint ==
  ASSUME LedgerInstruction \/ Tick \/ Mine \/ UNCHANGED vars
  PROVE  reprocessed' = reprocessed
<1>1. ASSUME Mine PROVE reprocessed' = reprocessed
  <2>1. PICK a \in DOMAIN proof, b \in Buses, d \in 0 .. MaxDifficulty,
             g \in GuildBonuses \cup {NoGuild} :
          MineBare(a, b, d, g) \/ \E c \in DOMAIN tool : MineEquipped(a, b, d, c, g)
    BY <1>1 DEF Mine
  <2>2. \E t : MinedWith(a, b, d, t, g)
    BY <2>1 DEF MineBare, MineEquipped
  <2> QED
    BY <2>2 DEF MinedWith
<1>2. ASSUME LedgerInstruction PROVE reprocessed' = reprocessed
  BY <1>2 DEF LedgerInstruction, Open, Claim, ClaimTo, Stake, Close, Reset, ResetTooSoon,
         Donate, Burn, ToolStep, vars, historyVars
<1> QED
  BY <1>1, <1>2 DEF Tick, vars, historyVars

(* Statistics that stay or go leave the past paid for. *)
LEMMA PastStaysPaid ==
  ASSUME LedgerInv, ReprocessInv, NEW a \in Authorities, KeptOrGone(a),
         received'[a] = received[a], lifetime'[a] = lifetime[a]
  PROVE  PaidForThePast(a)'
<1> DEFINE l == lifetime[a]
           c == received[a]
           h == HashesLeft(a)
           r == RewardsLeft(a)
<1>1. /\ l.hashes \in Nat /\ l.rewards \in Nat /\ h \in Nat /\ r \in Nat /\ c \in Nat
      /\ Paid(c, l, h, r)
  BY StatisticsType DEF ReprocessInv, PaidForThePast
<1>2. h <= l.hashes /\ r <= l.rewards /\ c <= Worth(l.hashes - h, l.rewards - r)
  BY <1>1 DEF Paid
<1> HIDE DEF l, c, h, r
<1>3. Paid(c, l, 0, 0)
  <2>1. l.hashes - h \in Nat /\ l.rewards - r \in Nat
        /\ l.hashes - h <= l.hashes /\ l.rewards - r <= l.rewards
        /\ l.hashes - 0 = l.hashes /\ l.rewards - 0 = l.rewards
    BY <1>1, <1>2
  <2>2. Worth(l.hashes - h, l.rewards - r) \in Nat
        /\ Worth(l.hashes - h, l.rewards - r) <= Worth(l.hashes, l.rewards)
    BY <1>1, <2>1, WorthMonotone
  <2>3. Worth(l.hashes, l.rewards) \in Nat
    BY <1>1, WorthType
  <2>4. c <= Worth(l.hashes, l.rewards)
    BY <1>1, <1>2, <2>2, <2>3
  <2> QED
    BY <1>1, <2>1, <2>4 DEF Paid
<1>4. Paid(c, l, HashesLeft(a)', RewardsLeft(a)')
  BY <1>1, <1>3 DEF KeptOrGone, h, r
<1> QED
  BY <1>4 DEF PaidForThePast, c, l


(* A hash counts as much for the life of its authority as for its proof.   *)
LEMMA HashesCountForLife ==
  ASSUME LedgerInv, ReprocessInv, MineAndCount, NEW a \in Authorities
  PROVE  /\ lifetime'[a] \in [hashes : Nat, rewards : Nat]
         /\ PaidForThePast(a)'
<1> DEFINE l == lifetime[a]
           c == received[a]
           h == HashesLeft(a)
           r == RewardsLeft(a)
           h2 == HashesLeft(a)'
           r2 == RewardsLeft(a)'
<1>1. /\ l \in [hashes : Nat, rewards : Nat]
      /\ l.hashes \in Nat /\ l.rewards \in Nat /\ h \in Nat /\ r \in Nat /\ c \in Nat
      /\ Paid(c, l, h, r)
  BY StatisticsType DEF ReprocessInv, PaidForThePast
<1>2. h <= l.hashes /\ r <= l.rewards /\ c <= Worth(l.hashes - h, l.rewards - r)
  BY <1>1 DEF Paid
<1>3. received'[a] = c
  BY DEF MineAndCount
<1>4. DOMAIN proof' = DOMAIN proof /\ proof' \in [DOMAIN proof -> Proof]
  <2>1. PICK e \in DOMAIN proof, b \in Buses, d \in 0 .. MaxDifficulty,
             t \in [durability : Nat, multiplier : Nat],
             g \in [stake : Nat, total_stake : Nat, total_multiplier : Nat] :
          MinedWith(e, b, d, t, g)
    BY MineCases DEF LedgerInv, MineAndCount
  <2> QED
    BY <2>1, MinedFacts DEF LedgerInv
<1>5. CASE a \in DOMAIN proof
  <2>1. /\ h2 = proof'[a].total_hashes /\ r2 = proof'[a].total_rewards
        /\ h = proof[a].total_hashes /\ r = proof[a].total_rewards
    BY <1>4, <1>5 DEF HashesLeft, RewardsLeft
  <2>2. h2 \in Nat /\ r2 \in Nat
    <3>1. proof'[a].total_hashes \in Nat /\ proof'[a].total_rewards \in Nat
      BY <1>4, <1>5, U64MaxPositive DEF Proof
    <3> QED
      BY <2>1, <3>1
  <2>3. lifetime'[a] = [hashes |-> l.hashes + (h2 - h), rewards |-> l.rewards + (r2 - r)]
    BY <1>5, <2>1 DEF MineAndCount
  <2> HIDE DEF l, c, h, r, h2, r2
  <2>4. /\ l.hashes + (h2 - h) \in Nat /\ h2 <= l.hashes + (h2 - h)
        /\ (l.hashes + (h2 - h)) - h2 = l.hashes - h
    BY <1>1, <1>2, <2>2
  <2>5. /\ l.rewards + (r2 - r) \in Nat /\ r2 <= l.rewards + (r2 - r)
        /\ (l.rewards + (r2 - r)) - r2 = l.rewards - r
    BY <1>1, <1>2, <2>2
  <2>6. Paid(c, lifetime'[a], h2, r2)
    BY <1>2, <2>3, <2>4, <2>5 DEF Paid
  <2> QED
    BY <1>3, <2>3, <2>4, <2>5, <2>6 DEF PaidForThePast, c, h2, r2
<1>6. CASE a \notin DOMAIN proof
  <2>1. lifetime'[a] = l
    BY <1>6 DEF MineAndCount
  <2>2. h2 = h /\ r2 = r
    BY <1>4, <1>6 DEF HashesLeft, RewardsLeft
  <2> HIDE DEF l, c, h, r, h2, r2
  <2>3. Paid(c, lifetime'[a], h2, r2)
    BY <1>1, <2>1, <2>2
  <2> QED
    BY <1>1, <1>3, <2>1, <2>3 DEF PaidForThePast, c, h2, r2
<1> QED
  BY <1>5, <1>6

(* A finalisation pays for the statistics that it starts over. *)
LEMMA FinalisationsPayOnce ==
  ASSUME LedgerInv, ReprocessInv, NEW a \in Authorities, NEW mint, FinalizeReprocess(a, mint)
  PROVE  /\ received' \in [Authorities -> Nat]
         /\ \A c \in Authorities \ {a} : received'[c] = received[c]
         /\ PaidForThePast(a)'
         /\ chromium' \in U64 /\ MintsAreReceived'
<1> DEFINE l == lifetime[a]
           h == HashesLeft(a)
           r == RewardsLeft(a)
<1>1. /\ l.hashes \in Nat /\ l.rewards \in Nat /\ h \in Nat /\ r \in Nat /\ received[a] \in Nat
      /\ Paid(received[a], l, h, r)
  BY StatisticsType DEF ReprocessInv, PaidForThePast
<1>2. /\ a \in DOMAIN reprocessor /\ reprocessor[a] \in Nat /\ slot \in Nat
      /\ a \in DOMAIN proof /\ h = proof[a].total_hashes /\ r = proof[a].total_rewards
      /\ lifetime' = lifetime
  BY DEF FinalizeReprocess, ReprocessInv, HashesLeft, RewardsLeft
<1>3. PICK number \in 1 .. REPROCESS_MAX_MULTIPLIER, root \in CubeRoots(proof[a].total_rewards),
           account \in {"wallet", "treasury"} :
        /\ ReprocessFor(a, Minted(a, number, root), mint, account)
        /\ IF mint = "chromium"
           THEN /\ chromium + Minted(a, number, root) \in U64
                /\ chromium' = chromium + Minted(a, number, root)
           ELSE UNCHANGED chromium
        /\ received' = [received EXCEPT ![a] = @ + Minted(a, number, root)]
  BY DEF FinalizeReprocess
<1> DEFINE k == PenalizedNumber(number, reprocessor[a])
           minted == Minted(a, number, root)
<1>4. k \in Nat /\ k <= REPROCESS_MAX_MULTIPLIER
  <2>1. number \in Nat \ {0} /\ REPROCESS_MAX_MULTIPLIER \in Nat
    BY ReprocessRewardAssumption
  <2>2. k \in 1 .. number
    BY <1>2, <2>1, PenalizedNumberType
  <2> HIDE DEF k
  <2> QED
    BY <2>1, <2>2
<1>5. root \in CubeRoots(r) /\ root \in Nat
  BY <1>1, <1>2 DEF CubeRoots
<1>6. minted = SatMul(CalculateReward(h, root), k) /\ minted \in Nat
  <2>1. minted = SatMul(CalculateReward(h, root), k)
    BY <1>2 DEF Minted
  <2>2. CalculateReward(h, root) \in Nat
    BY <1>1, <1>5, RewardType
  <2> HIDE DEF h, k
  <2> QED
    BY <1>4, <2>1, <2>2, SatMulFacts
<1>14. PICK n \in Nat : n = minted
  BY <1>6
<1>15. /\ ReprocessFor(a, n, mint, account)
       /\ IF mint = "chromium" THEN chromium + n \in U64 /\ chromium' = chromium + n
                               ELSE chromium' = chromium
       /\ received' = [received EXCEPT ![a] = @ + n]
  BY <1>3, <1>14
<1> HIDE DEF l, h, r, k, minted
<1>7. /\ received'[a] = received[a] + n
      /\ \A c \in Authorities \ {a} : received'[c] = received[c]
      /\ received' \in [Authorities -> Nat]
  BY <1>1, <1>15 DEF ReprocessInv
<1>9. /\ l.hashes - h \in Nat /\ l.rewards - r \in Nat
      /\ (l.hashes - h) + h = l.hashes /\ (l.rewards - r) + r = l.rewards
      /\ l.hashes - 0 = l.hashes /\ l.rewards - 0 = l.rewards
      /\ received[a] <= Worth(l.hashes - h, l.rewards - r)
  BY <1>1 DEF Paid
<1>10. received[a] + n <= Worth(l.hashes, l.rewards)
  <2>1. received[a] + SatMul(CalculateReward(h, root), k)
          <= Worth((l.hashes - h) + h, (l.rewards - r) + r)
    BY <1>1, <1>4, <1>5, <1>9, TradeWithinWorth
  <2> QED
    BY <1>6, <1>9, <1>14, <2>1
<1>11. HashesLeft(a)' = 0 /\ RewardsLeft(a)' = 0
  <2>1. /\ a \in DOMAIN proof' /\ proof[a] \in Proof
        /\ proof'[a] = [proof[a] EXCEPT !.total_hashes = 0, !.total_rewards = 0]
    BY <1>2, <1>15, ReprocessFacts DEF LedgerInv, TypeOK
  <2>2. proof'[a].total_hashes = 0 /\ proof'[a].total_rewards = 0
    BY <2>1 DEF Proof
  <2> QED
    BY <2>1, <2>2 DEF HashesLeft, RewardsLeft
<1>12. Paid(received'[a], l, 0, 0)
  BY <1>1, <1>7, <1>9, <1>10 DEF Paid
<1>13. PaidForThePast(a)'
  BY <1>2, <1>11, <1>12 DEF PaidForThePast, l
<1>16. /\ chromium' \in U64 /\ chromium' + reprocessed' <= (chromium + reprocessed) + n
       /\ chromium' + reprocessed' \in Nat /\ chromium + reprocessed \in Nat
  <2>1. chromium \in U64 /\ chromium \in Nat /\ reprocessed \in Nat
        /\ (chromium + n \in U64 => chromium + n \in Nat)
    BY U64MaxPositive DEF ReprocessInv, LedgerInv, TypeOK
  <2>2. CASE mint = "chromium"
    <3>1. reprocessed' = reprocessed
      BY <1>15, <2>2 DEF ReprocessFor
    <3> QED
      BY <1>15, <2>1, <2>2, <3>1
  <2>3. CASE mint = "coal"
    <3>1. reprocessed' = reprocessed + n
      BY <1>15, <2>3 DEF ReprocessFor, CoalMinted
    <3> QED
      BY <1>15, <2>1, <2>3, <3>1
  <2>4. CASE mint # "chromium" /\ mint # "coal"
    <3>1. reprocessed' = reprocessed
      BY <1>15, <2>4 DEF ReprocessFor
    <3> QED
      BY <1>15, <2>1, <2>4, <3>1
  <2> QED
    BY <2>2, <2>3, <2>4
<1>17. MintsAreReceived'
  <2>1. \A c \in Authorities : received[c] \in Int /\ received'[c] \in Int
    <3>1. received \in [Authorities -> Nat]
      BY DEF ReprocessInv
    <3> QED
      BY <1>7, <3>1
  <2>2. \A c \in Authorities \ {a} : received[c] = received'[c]
    BY <1>7
  <2>3. IsFiniteSet(Authorities)
    BY LedgerAssumption
  <2>4. SumOver(received', Authorities)
          = SumOver(received, Authorities) - received[a] + received'[a]
    BY <2>1, <2>2, <2>3, SumOverChangeOne
  <2>5. SumOver(received, Authorities) \in Int
    BY <2>1, <2>3, SumOverInt
  <2>6. SumOver(received', Authorities) = SumOver(received, Authorities) + n
    BY <1>1, <1>7, <2>4, <2>5
  <2>7. chromium + reprocessed <= SumOver(received, Authorities)
    BY DEF ReprocessInv, MintsAreReceived
  <2>8. chromium' + reprocessed' <= SumOver(received', Authorities)
    BY <1>16, <2>5, <2>6, <2>7
  <2> QED
    BY <2>8 DEF MintsAreReceived
<1> QED
  BY <1>7, <1>13, <1>16, <1>17


(* Every step of the composition keeps the past paid for. *)
LEMMA ChromiumStep ==
  LedgerInv /\ ReprocessInv /\ [ReprocessingNext]_allVars => ReprocessInv'
<1> SUFFICES ASSUME LedgerInv, ReprocessInv, [ReprocessingNext]_allVars
             PROVE  ReprocessInv'
  OBVIOUS
<1>1. CASE \E a \in Authorities : InitReprocess(a)
  <2>1. PICK a \in Authorities : InitReprocess(a)
    BY <1>1
  <2>2. /\ DOMAIN reprocessor' = DOMAIN reprocessor \cup {a}
        /\ reprocessor'[a] = slot + REPROCESS_TARGET_SLOT
        /\ \A c \in DOMAIN reprocessor \ {a} : reprocessor'[c] = reprocessor[c]
        /\ UNCHANGED <<vars, slot, chromium, received, lifetime>>
    BY <2>1 DEF InitReprocess
  <2>3. \A c \in Authorities : PaidForThePast(c)'
    <3>1. UNCHANGED <<proof, received, lifetime>>
      BY <2>2 DEF vars, chainVars
    <3>2. \A c \in Authorities : HashesLeft(c)' = HashesLeft(c) /\ RewardsLeft(c)' = RewardsLeft(c)
      BY <3>1 DEF HashesLeft, RewardsLeft
    <3> HIDE DEF HashesLeft, RewardsLeft
    <3> QED
      BY <3>1, <3>2 DEF ReprocessInv, PaidForThePast
  <2>4. slot + REPROCESS_TARGET_SLOT \in Nat
    BY ReprocessingAssumption DEF ReprocessInv
  <2>5. MintsAreReceived'
    BY <2>2 DEF ReprocessInv, MintsAreReceived, vars, historyVars
  <2> QED
    BY <2>2, <2>3, <2>4, <2>5 DEF ReprocessInv
<1>2. CASE \E a \in Authorities, mint \in Mints : FinalizeReprocess(a, mint)
  <2>1. PICK a \in Authorities, mint \in Mints : FinalizeReprocess(a, mint)
    BY <1>2
  <2>2. /\ received' \in [Authorities -> Nat]
        /\ \A c \in Authorities \ {a} : received'[c] = received[c]
        /\ PaidForThePast(a)'
        /\ chromium' \in U64 /\ MintsAreReceived'
    BY <2>1, FinalisationsPayOnce
  <2>3. \A c \in Authorities : KeptOrGone(c)
    <3>1. SlotsType
      BY DEF ReprocessInv, SlotsType
    <3> QED
      BY <2>1, <3>1, FinalizationIsReprocess, OnlyHashesCount
  <2>4. lifetime' = lifetime /\ slot' = slot
        /\ DOMAIN reprocessor' = DOMAIN reprocessor \ {a}
        /\ \A c \in DOMAIN reprocessor \ {a} : reprocessor'[c] = reprocessor[c]
    BY <2>1 DEF FinalizeReprocess
  <2>5. \A c \in Authorities \ {a} : PaidForThePast(c)'
    BY <2>2, <2>3, <2>4, PastStaysPaid
  <2> QED
    BY <2>2, <2>4, <2>5 DEF ReprocessInv
<1>3. CASE MineAndCount
  <2>1. UNCHANGED <<slot, reprocessor, chromium, received>>
        /\ lifetime' = [a \in Authorities |-> lifetime'[a]]
    BY <1>3 DEF MineAndCount
  <2>2. \A a \in Authorities : lifetime'[a] \in [hashes : Nat, rewards : Nat] /\ PaidForThePast(a)'
    BY <1>3, HashesCountForLife
  <2>3. lifetime' \in [Authorities -> [hashes : Nat, rewards : Nat]]
    BY <2>1, <2>2
  <2>4. MintsAreReceived'
    BY <1>3, <2>1, OnlyFinalizationsMint DEF MineAndCount, ReprocessInv, MintsAreReceived
  <2> QED
    BY <2>1, <2>2, <2>3, <2>4 DEF ReprocessInv
<1>4. CASE LedgerInstruction \/ NextSlot \/ UNCHANGED allVars
  <2>1. UNCHANGED <<reprocessor, chromium, received, lifetime>> /\ slot' \in Nat
    BY <1>4 DEF LedgerInstruction, NextSlot, allVars, reprocessVars, ReprocessInv
  <2>2. \A a \in Authorities : KeptOrGone(a)
    BY <1>4, OnlyHashesCount DEF NextSlot, allVars
  <2>3. \A a \in Authorities : PaidForThePast(a)'
    BY <2>1, <2>2, PastStaysPaid
  <2>4. MintsAreReceived'
    <3>1. reprocessed' = reprocessed
      BY <1>4, OnlyFinalizationsMint DEF NextSlot, allVars
    <3> QED
      BY <2>1, <3>1 DEF ReprocessInv, MintsAreReceived
  <2> QED
    BY <2>1, <2>3, <2>4 DEF ReprocessInv
<1> QED
  BY <1>1, <1>2, <1>3, <1>4 DEF ReprocessingNext

(* In every reachable state, what an authority got is within the worth of  *)
(* what it mined and does not have left to trade.                          *)
THEOREM ReprocessingPaysForThePast == ReprocessingSpec => []ReprocessInv
  BY ReprocessStart, ChromiumStep, ReprocessingKeepsLedger, PTL DEF ReprocessingSpec

(* Statistics are traded once (lib.rs and reprocess): no number of         *)
(* finalisations, into any mints, over any number of proofs and with any   *)
(* hashes between the two transactions, gives an authority more than one   *)
(* finalisation of all that it ever mined could give.                      *)
THEOREM StatisticsPayOnce == ReprocessingSpec => []SplittingNeverPays
<1>1. LedgerInv /\ ReprocessInv => SplittingNeverPays
  <2> SUFFICES ASSUME LedgerInv, ReprocessInv, NEW a \in Authorities
               PROVE  received[a] <= Worth(lifetime[a].hashes, lifetime[a].rewards)
    BY DEF SplittingNeverPays, LifetimeWorth
  <2> DEFINE l == lifetime[a]
             h == HashesLeft(a)
             r == RewardsLeft(a)
  <2>1. /\ l.hashes \in Nat /\ l.rewards \in Nat /\ h \in Nat /\ r \in Nat /\ received[a] \in Nat
        /\ h <= l.hashes /\ r <= l.rewards
        /\ received[a] <= Worth(l.hashes - h, l.rewards - r)
    BY StatisticsType DEF ReprocessInv, PaidForThePast, Paid
  <2> HIDE DEF l, h, r
  <2>2. /\ l.hashes - h \in Nat /\ l.rewards - r \in Nat
        /\ l.hashes - h <= l.hashes /\ l.rewards - r <= l.rewards
    BY <2>1
  <2>3. Worth(l.hashes - h, l.rewards - r) \in Nat /\ Worth(l.hashes, l.rewards) \in Nat
        /\ Worth(l.hashes - h, l.rewards - r) <= Worth(l.hashes, l.rewards)
    BY <2>1, <2>2, WorthMonotone, WorthType
  <2>4. received[a] <= Worth(l.hashes, l.rewards)
    BY <2>1, <2>3
  <2> QED
    BY <2>4 DEF l
<1> QED
  BY <1>1, ReprocessingKeepsLedger, ReprocessingPaysForThePast, PTL

(* A step in which a slot passes lowers what a due finalisation can mint,  *)
(* or leaves it, and not below what the statistics are worth.              *)
LEMMA LaterMintsLess ==
  ASSUME LedgerInv, ReprocessInv, [ReprocessingNext]_allVars, slot' # slot,
         NEW a \in DOMAIN reprocessor, a \in DOMAIN proof,
         NEW number \in 1 .. REPROCESS_MAX_MULTIPLIER,
         NEW root \in CubeRoots(proof[a].total_rewards)
  PROVE  /\ Minted(a, number, root)' <= Minted(a, number, root)
         /\ Minted(a, number, root)' >= CalculateReward(proof[a].total_hashes, root)
<1>1. slot' = slot + 1 /\ UNCHANGED <<proof, reprocessor>> /\ slot \in Nat /\ slot' \in Nat
  <2>1. NextSlot
    BY DEF ReprocessingNext, InitReprocess, FinalizeReprocess, MineAndCount, LedgerInstruction,
           reprocessVars, allVars
  <2> QED
    BY <2>1 DEF NextSlot, Tick, vars, chainVars, ReprocessInv
<1>2. /\ number \in Nat \ {0} /\ reprocessor[a] \in Nat /\ root \in Nat
      /\ proof[a].total_hashes \in Nat
  <2>1. a \in Authorities
    BY DEF ReprocessInv
  <2> QED
    BY <2>1, StatisticsType, ReprocessRewardAssumption DEF ReprocessInv, CubeRoots
<1> DEFINE part == CalculateReward(proof[a].total_hashes, root)
           k == PenalizedNumber(number, reprocessor[a])
           k2 == Greater(1, number \div SatPow2(SatSub(slot', reprocessor[a] + REPROCESS_SLOT_BUFFER)))
<1>3. /\ Minted(a, number, root) = SatMul(part, k)
      /\ Minted(a, number, root)' = SatMul(part, k2)
  BY <1>1 DEF Minted, PenalizedNumber
<1>4. k \in Nat /\ k2 \in Nat /\ 1 <= k2 /\ k2 <= k
  <2> DEFINE target == reprocessor[a]
  <2>1. target \in Nat
    BY <1>2
  <2> HIDE DEF target
  <2>2. PenalizedNumber(number, target) \in 1 .. number
    BY <1>1, <1>2, <2>1, PenalizedNumberType
  <2>3. Greater(1, number \div SatPow2(SatSub(slot', target + REPROCESS_SLOT_BUFFER)))
          <= PenalizedNumber(number, target)
    BY <1>1, <1>2, <2>1, LaterIsLess DEF PenalizedNumber
  <2>4. SatSub(slot', target + REPROCESS_SLOT_BUFFER) \in Nat
    BY <1>1, <2>1, ReprocessingAssumption DEF SatSub
  <2>5. number \div SatPow2(SatSub(slot', target + REPROCESS_SLOT_BUFFER)) \in Nat
    BY <1>2, <2>4, LaterDividesMore
  <2>6. /\ Greater(1, number \div SatPow2(SatSub(slot', target + REPROCESS_SLOT_BUFFER))) \in Nat
        /\ 1 <= Greater(1, number \div SatPow2(SatSub(slot', target + REPROCESS_SLOT_BUFFER)))
    BY <2>5 DEF Greater
  <2> QED
    BY <2>2, <2>3, <2>6 DEF target
<1>5. part \in Nat /\ part <= U64Max
  BY <1>2, RewardType
<1> HIDE DEF part, k, k2
<1>6. SatMul(part, k2) <= SatMul(part, k)
  <2>1. part <= part
    BY <1>5
  <2> QED
    BY <1>4, <1>5, <2>1, SatMulFacts
<1>7. SatMul(part, k2) >= part
  <2>1. SatMul(part, 1) <= SatMul(part, k2) /\ SatMul(part, 1) \in Nat /\ SatMul(part, k2) \in Nat
    <3>1. part <= part /\ 1 \in Nat
      BY <1>5
    <3> QED
      BY <1>4, <1>5, <3>1, SatMulFacts
  <2>2. part * 1 = part
    BY <1>5
  <2>3. SatMul(part, 1) = part
    BY <1>5, <2>2, SatMulFacts
  <2> QED
    BY <1>5, <2>1, <2>3
<1> QED
  BY <1>3, <1>6, <1>7 DEF part

(* A late finalisation never pays (calculate_multiplier in reprocess):     *)
(* each slot that passes once it is due lowers what it can mint or leaves  *)
(* it, and never below what the statistics are worth.                      *)
THEOREM ComingLateNeverPays == ReprocessingSpec => DelayNeverPays
<1>1. LedgerInv /\ ReprocessInv /\ [ReprocessingNext]_allVars =>
        (slot' # slot =>
          \A a \in DOMAIN reprocessor : a \in DOMAIN proof =>
            \A number \in 1 .. REPROCESS_MAX_MULTIPLIER, root \in CubeRoots(proof[a].total_rewards) :
              /\ Minted(a, number, root)' <= Minted(a, number, root)
              /\ Minted(a, number, root)' >= CalculateReward(proof[a].total_hashes, root))
  BY LaterMintsLess
<1>2. LedgerInv /\ ReprocessInv /\ [ReprocessingNext]_allVars =>
        [\A a \in DOMAIN reprocessor :
           a \in DOMAIN proof /\ TargetSlotReached(a) /\ slot' # slot =>
             \A number \in 1 .. REPROCESS_MAX_MULTIPLIER, root \in CubeRoots(proof[a].total_rewards) :
               /\ Minted(a, number, root)' <= Minted(a, number, root)
               /\ Minted(a, number, root)' >= CalculateReward(proof[a].total_hashes, root)]_allVars
  BY <1>1
<1> QED
  BY <1>2, ReprocessingKeepsLedger, ReprocessingPaysForThePast, PTL
     DEF ReprocessingSpec, DelayNeverPays


-----------------------------------------------------------------------------
(* A reprocessor is not stuck: the part of it that needs no fairness.      *)

Traded(a) == a \in DOMAIN proof /\ proof[a].total_hashes # 0 /\ proof[a].total_rewards # 0

(* No instruction but a finalisation of a or a close of a's proof takes    *)
(* a's statistics away.                                                    *)
LEMMA StatisticsStay ==
  ASSUME LedgerInv, NEW a \in Authorities, Traded(a),
         \/ LedgerInstruction \/ Tick \/ Mine \/ UNCHANGED vars
         \/ \E c \in Authorities \ {a} : Reprocess(c)
  PROVE  Traded(a)' \/ a \notin DOMAIN proof'
<1>1. proof \in [DOMAIN proof -> Proof] /\ a \in DOMAIN proof /\ proof[a] \in Proof
  BY DEF LedgerInv, TypeOK, Traded
<1>2. CASE \E c \in Authorities, m \in Miners : Open(c, m)
  BY <1>2 DEF Open, Traded
<1>3. CASE \E c \in Authorities, amount \in Amounts : Claim(c, amount) \/ Stake(c, amount)
  <2>1. /\ a \in DOMAIN proof'
        /\ proof'[a].total_hashes = proof[a].total_hashes
        /\ proof'[a].total_rewards = proof[a].total_rewards
    <3>1. CASE \E c \in Authorities, amount \in Amounts : Claim(c, amount)
      BY <1>1, <3>1 DEF Claim, ClaimTo, Proof
    <3>2. CASE \E c \in Authorities, amount \in Amounts : Stake(c, amount)
      BY <1>1, <3>2 DEF Stake, Proof
    <3> QED
      BY <1>3, <3>1, <3>2
  <2> QED
    BY <2>1 DEF Traded
<1>4. CASE \E c \in Authorities : Close(c)
  BY <1>1, <1>4 DEF Close, Traded
<1>5. CASE \E c \in Authorities \ {a} : Reprocess(c)
  <2>1. PICK c \in Authorities \ {a}, n \in Nat, mint \in Mints,
             account \in {"wallet", "treasury"} : ReprocessFor(c, n, mint, account)
    BY <1>5, ReprocessCases DEF LedgerInv
  <2>2. DOMAIN proof' = DOMAIN proof /\ proof'[a] = proof[a]
    BY <1>1, <2>1, ReprocessFacts DEF LedgerInv
  <2> QED
    BY <2>2 DEF Traded
<1>6. CASE \/ Reset \/ ResetTooSoon \/ Tick \/ ToolStep \/ UNCHANGED vars
           \/ \E amount \in Amounts : Donate(amount) \/ Burn(amount)
  <2>1. proof' = proof
    BY <1>6 DEF Reset, ResetTooSoon, Tick, ToolStep, Donate, Burn, vars, chainVars
  <2> QED
    BY <2>1 DEF Traded
<1>7. CASE Mine
  <2>1. PICK e \in DOMAIN proof, b \in Buses, d \in 0 .. MaxDifficulty,
             t \in [durability : Nat, multiplier : Nat],
             g \in [stake : Nat, total_stake : Nat, total_multiplier : Nat] :
          MinedWith(e, b, d, t, g)
    BY <1>7, MineCases DEF LedgerInv
  <2> DEFINE paid == MineOutcome(config, proof[e], bus[b], t, g, d, clock).reward_actual
  <2>2. paid \in Nat /\ DOMAIN proof' = DOMAIN proof
        /\ \A c \in DOMAIN proof \ {e} : proof'[c] = proof[c]
    BY <2>1, MinedFacts DEF LedgerInv
  <2>3. proof' = [proof EXCEPT
           ![e].balance = @ + paid,
           ![e].last_hash_at = HashTime(proof[e], clock),
           ![e].total_hashes = SatAdd(@, 1),
           ![e].total_rewards = SatAdd(@, paid)]
    BY <2>1 DEF MinedWith
  <2> HIDE DEF paid
  <2>4. CASE e = a
    <3>1. proof'[a].total_hashes = SatAdd(proof[a].total_hashes, 1)
          /\ proof'[a].total_rewards = SatAdd(proof[a].total_rewards, paid)
      BY <1>1, <2>3, <2>4 DEF Proof
    <3>2. proof[a].total_hashes \in U64 \ {0} /\ proof[a].total_rewards \in U64 \ {0}
      BY <1>1 DEF Traded, Proof
    <3>3. \A n \in U64 \ {0}, m \in Nat : SatAdd(n, m) # 0
      BY U64MaxPositive DEF SatAdd, Lesser, U64
    <3>4. proof'[a].total_hashes # 0 /\ proof'[a].total_rewards # 0
      BY <2>2, <3>1, <3>2, <3>3
    <3> QED
      BY <1>1, <2>2, <3>4 DEF Traded
  <2>5. CASE e # a
    BY <1>1, <2>2, <2>5 DEF Traded
  <2> QED
    BY <2>4, <2>5
<1> QED
  BY <1>2, <1>3, <1>4, <1>5, <1>6, <1>7 DEF LedgerInstruction

(* A reprocessor that is due stays due until it is finalised or the proof  *)
(* with the statistics is closed.                                          *)
DueStaysDue ==
  [][\A a \in Authorities :
       Due(a) => Due(a)' \/ a \notin DOMAIN reprocessor' \/ a \notin DOMAIN proof']_allVars

(* Every step leaves it due, or ends it. *)
LEMMA DueStep ==
  ASSUME LedgerInv, ReprocessInv, ReprocessingNext, NEW a \in Authorities, Due(a)
  PROVE  Due(a)' \/ a \notin DOMAIN reprocessor' \/ a \notin DOMAIN proof'
<1>1. Traded(a) /\ a \in DOMAIN reprocessor /\ slot > reprocessor[a]
      /\ slot \in Nat /\ reprocessor[a] \in Nat
  BY DEF Due, Traded, ReprocessInv
<1>2. ASSUME Traded(a)', a \in DOMAIN reprocessor', reprocessor'[a] = reprocessor[a],
             slot' \in {slot, slot + 1}
      PROVE  Due(a)'
  <2>1. slot' > reprocessor'[a]
    BY <1>1, <1>2
  <2> QED
    BY <1>2, <2>1 DEF Due, Traded
<1>3. CASE \E c \in Authorities : InitReprocess(c)
  <2>1. UNCHANGED vars /\ slot' = slot /\ a \in DOMAIN reprocessor' /\ reprocessor'[a] = reprocessor[a]
    BY <1>1, <1>3 DEF InitReprocess
  <2>2. Traded(a)' \/ a \notin DOMAIN proof'
    BY <1>1, <2>1, StatisticsStay
  <2> QED
    BY <1>2, <2>1, <2>2
<1>4. CASE \E mint \in Mints : FinalizeReprocess(a, mint)
  BY <1>4 DEF FinalizeReprocess
<1>5. CASE \E c \in Authorities \ {a}, mint \in Mints : FinalizeReprocess(c, mint)
  <2>1. PICK c \in Authorities \ {a}, mint \in Mints : FinalizeReprocess(c, mint)
    BY <1>5
  <2>4. SlotsType
    BY DEF ReprocessInv, SlotsType
  <2>2. Reprocess(c) /\ slot' = slot /\ a \in DOMAIN reprocessor' /\ reprocessor'[a] = reprocessor[a]
    BY <1>1, <2>1, <2>4, FinalizationIsReprocess DEF FinalizeReprocess
  <2>3. Traded(a)' \/ a \notin DOMAIN proof'
    BY <1>1, <2>2, StatisticsStay
  <2> QED
    BY <1>2, <2>2, <2>3
<1>6. CASE MineAndCount \/ LedgerInstruction \/ NextSlot
  <2>1. reprocessor' = reprocessor /\ slot' \in {slot, slot + 1}
    BY <1>6 DEF MineAndCount, LedgerInstruction, NextSlot, reprocessVars
  <2>2. Mine \/ LedgerInstruction \/ Tick \/ UNCHANGED vars
    BY <1>6 DEF MineAndCount, NextSlot
  <2>3. Traded(a)' \/ a \notin DOMAIN proof'
    BY <1>1, <2>2, StatisticsStay
  <2> QED
    BY <1>1, <1>2, <2>1, <2>3
<1> QED
  BY <1>3, <1>4, <1>5, <1>6 DEF ReprocessingNext

(* What is due is never lost on the way (reprocess/reprocess.rs and mine): *)
(* mining only adds to the statistics, the finalisations of others do not  *)
(* touch them, and no slot is too late.                                    *)
THEOREM DueReprocessorsWait == ReprocessingSpec => DueStaysDue
<1>1. LedgerInv /\ ReprocessInv /\ [ReprocessingNext]_allVars =>
        [\A a \in Authorities :
           Due(a) => Due(a)' \/ a \notin DOMAIN reprocessor' \/ a \notin DOMAIN proof']_allVars
  BY DueStep
<1> QED
  BY <1>1, ReprocessingKeepsLedger, ReprocessingPaysForThePast, PTL
     DEF ReprocessingSpec, DueStaysDue

(* The guard of a due finalisation, for some derived number and root. *)
Payable(a) ==
  /\ a \in DOMAIN reprocessor /\ TargetSlotReached(a)
  /\ a \in DOMAIN proof /\ proof[a].total_hashes # 0 /\ proof[a].total_rewards # 0
  /\ \E number \in 1 .. REPROCESS_MAX_MULTIPLIER, root \in CubeRoots(proof[a].total_rewards) :
       chromium + Minted(a, number, root) \in U64

(* Only a full mint can refuse a finalisation that is due. *)
NothingButTheMintRefuses ==
  \A a \in Authorities :
    /\ Due(a)
    /\ chromium + Worth(proof[a].total_hashes, proof[a].total_rewards) \in U64
    => Payable(a)

(* Whatever the statistics of a proof are, a due finalisation into         *)
(* chromium finds a root for them and a number, and fails only if the u64  *)
(* supply of chromium has no room for what they are worth                  *)
(* (reprocess/reprocess.rs).  With the above: no state of the accounts     *)
(* locks a reprocessor up for good.                                        *)
THEOREM DueReprocessorsCanPay == ReprocessingSpec => []NothingButTheMintRefuses
<1>1. LedgerInv /\ ReprocessInv => NothingButTheMintRefuses
  <2> SUFFICES ASSUME LedgerInv, ReprocessInv, NEW a \in Authorities, Due(a),
                      chromium + Worth(proof[a].total_hashes, proof[a].total_rewards) \in U64
               PROVE  Payable(a)
    BY DEF NothingButTheMintRefuses
  <2> DEFINE h == proof[a].total_hashes
             r == proof[a].total_rewards
             k == PenalizedNumber(1, reprocessor[a])
  <2>1. a \in DOMAIN reprocessor /\ reprocessor[a] \in Nat /\ slot \in Nat /\ slot > reprocessor[a]
        /\ a \in DOMAIN proof /\ h # 0 /\ r # 0
    BY DEF Due, ReprocessInv
  <2>2. h \in Nat /\ r \in Nat
    BY <2>1, StatisticsType
  <2>3. chromium \in Nat
    BY U64MaxPositive DEF ReprocessInv
  <2>4. PICK root \in CubeRoots(r) : TRUE
    BY <2>2, LargestRoot
  <2>5. k = 1
    <3>1. 1 \in Nat \ {0}
      OBVIOUS
    <3>2. k \in 1 .. 1
      BY <2>1, <3>1, PenalizedNumberType
    <3> HIDE DEF k
    <3> QED
      BY <3>2
  <2>6. Minted(a, 1, root) = SatMul(CalculateReward(h, root), k)
    BY DEF Minted
  <2> HIDE DEF h, r, k
  <2>7. root \in Nat /\ CalculateReward(h, root) \in Nat
    <3>1. root \in Nat
      BY <2>2, <2>4 DEF CubeRoots
    <3> QED
      BY <2>2, <3>1, RewardType
  <2>8. Minted(a, 1, root) \in Nat /\ 0 + Minted(a, 1, root) <= Worth(0 + h, 0 + r)
    <3>1. REPROCESS_MAX_MULTIPLIER \in Nat /\ k \in Nat /\ k <= REPROCESS_MAX_MULTIPLIER
      BY <2>5, ReprocessRewardAssumption
    <3>2. SatMul(CalculateReward(h, root), k) \in Nat
      BY <2>7, <3>1, SatMulFacts
    <3>3. Worth(0, 0) \in Nat
      BY WorthType
    <3>4. 0 \in Nat /\ 0 <= Worth(0, 0)
      BY <3>3
    <3>5. 0 + SatMul(CalculateReward(h, root), k) <= Worth(0 + h, 0 + r)
      BY <2>2, <2>4, <3>1, <3>4, TradeWithinWorth
    <3> QED
      BY <2>6, <3>2, <3>5
  <2>9. chromium + Minted(a, 1, root) \in U64
    <3>1. 0 + h = h /\ 0 + r = r
      BY <2>2
    <3>2. Worth(h, r) \in Nat /\ Minted(a, 1, root) <= Worth(h, r)
      BY <2>2, <2>8, <3>1, WorthType
    <3>3. chromium + Worth(h, r) \in 0 .. U64Max /\ U64Max \in Nat
      BY U64MaxPositive DEF h, r, U64
    <3>4. chromium + Minted(a, 1, root) \in 0 .. U64Max
      BY <2>3, <2>8, <3>2, <3>3
    <3> QED
      BY <3>4 DEF U64
  <2>10. 1 \in 1 .. REPROCESS_MAX_MULTIPLIER
    BY ReprocessRewardAssumption
  <2>11. TargetSlotReached(a)
    BY <2>1 DEF TargetSlotReached
  <2> QED
    BY <2>1, <2>4, <2>9, <2>10, <2>11 DEF Payable, h, r
<1> QED
  BY <1>1, ReprocessingKeepsLedger, ReprocessingPaysForThePast, PTL

-----------------------------------------------------------------------------
(* No token from nothing: the supply of coal and chromium together, all    *)
(* its owners' finalisations included, exceeds the cap of coal by no more  *)
(* than the worth of all that was ever mined (reprocess.rs, consts.rs).    *)
THEOREM ReprocessingIsBacked == ReprocessingSpec => []SupplyWithinWorth
<1>1. LedgerInv /\ ReprocessInv /\ SplittingNeverPays => SupplyWithinWorth
  <2> SUFFICES ASSUME LedgerInv, ReprocessInv, SplittingNeverPays
               PROVE  SupplyWithinWorth
    OBVIOUS
  <2> DEFINE worth == [a \in Authorities |-> LifetimeWorth(a)]
  <2>1. \A a \in Authorities :
          received[a] \in Nat /\ LifetimeWorth(a) \in Nat /\ received[a] <= LifetimeWorth(a)
    <3> TAKE a \in Authorities
    <3>1. lifetime[a].hashes \in Nat /\ lifetime[a].rewards \in Nat /\ received[a] \in Nat
      BY DEF ReprocessInv
    <3> QED
      BY <3>1, WorthType DEF SplittingNeverPays, LifetimeWorth
  <2>2. \A a \in Authorities :
          received[a] \in Int /\ worth[a] \in Int /\ received[a] <= worth[a]
    BY <2>1
  <2> HIDE DEF worth
  <2>3. SumOver(received, Authorities) <= SumOver(worth, Authorities)
        /\ SumOver(received, Authorities) \in Int /\ SumOver(worth, Authorities) \in Int
    BY <2>2, LedgerAssumption, SumOverMonotone, SumOverInt
  <2>4. /\ supply <= MAX_COAL_SUPPLY + reprocessed
        /\ chromium + reprocessed <= SumOver(received, Authorities)
    BY DEF LedgerInv, SupplyConserved, ReprocessInv, MintsAreReceived
  <2>5. supply \in Nat /\ reprocessed \in Nat /\ chromium \in Nat /\ MAX_COAL_SUPPLY \in Nat
    BY U64MaxPositive, ConstsAssumption DEF LedgerInv, TypeOK, ReprocessInv
  <2>6. supply + chromium <= MAX_COAL_SUPPLY + SumOver(worth, Authorities)
    BY <2>3, <2>4, <2>5
  <2> QED
    BY <2>6 DEF SupplyWithinWorth, worth
<1> QED
  BY <1>1, ReprocessingKeepsLedger, ReprocessingPaysForThePast, StatisticsPayOnce, PTL

-----------------------------------------------------------------------------
(* What the two transactions of a reprocess leave as it was: every promise *)
(* that the ledger makes to its miners and holders, whatever happens       *)
(* between the transactions and whatever mint is named in the second       *)
(* (reprocess and mine share the proof account).                           *)
THEOREM ReprocessingKeepsPromises ==
  ReprocessingSpec =>
    /\ [](Backing /\ SupplyConserved /\ Solvent /\ Emission /\ HashRate
       /\ BusTally /\ RateBand)
    /\ ShortfallOnlyAtCap /\ WearWithinPay
  BY ReprocessingIsLedger, LedgerBacking, LedgerSupply, LedgerSolvent, LedgerEmission,
     LedgerHashRate, LedgerBusTally, LedgerRateBand, LedgerShortfall, LedgerWearWithinPay, PTL
=============================================================================
