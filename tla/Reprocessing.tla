---------------------------- MODULE Reprocessing ----------------------------
(***************************************************************************)
(* Chromium.  The lifetime statistics of a coal proof are traded for       *)
(* chromium in two transactions: InitReprocess opens a reprocessor and     *)
(* pays a fee, and some slots later FinalizeReprocess mints a pseudo       *)
(* random multiple of what the statistics are worth, less for every slot   *)
(* it comes late, and starts the statistics over.  Between the two, the    *)
(* proof goes on as the ledger lets it: it mines, or is closed and opened  *)
(* again.                                                                  *)
(*                                                                         *)
(* The client passes the chromium mint, and the handler takes any other    *)
(* mint of the treasury in its place.  The wood mint belongs to            *)
(* WoodLedger and is out of sight here.                                    *)
(***************************************************************************)
EXTENDS CoalLedger

CONSTANTS
  REPROCESS_TARGET_SLOT, REPROCESS_SLOT_BUFFER,
  MaxSlot \* (bound)

ASSUME ReprocessingAssumption ==
  /\ REPROCESS_TARGET_SLOT \in Nat /\ REPROCESS_SLOT_BUFFER \in Nat
  /\ MaxSlot \in Nat

VARIABLES
  slot,         \* Clock::slot
  reprocessor,  \* the target slots of the open reprocessors, by authority
  chromium,     \* supply of the chromium mint
  (* history *)
  received,     \* what each authority's finalisations minted, of any mint
  lifetime      \* what each authority has mined, over all its proofs

reprocessVars == <<slot, reprocessor, chromium, received, lifetime>>
allVars == <<vars, reprocessVars>>

ReprocessingInit ==
  /\ Init
  /\ slot = 0
  /\ reprocessor = [a \in {} |-> 0]
  /\ chromium = 0
  /\ received = [a \in Authorities |-> 0]
  /\ lifetime = [a \in Authorities |-> [hashes |-> 0, rewards |-> 0]]

-----------------------------------------------------------------------------
(* A fee in SOL goes to the treasury.  No proof is asked for yet. *)
InitReprocess(a) ==
  /\ a \notin DOMAIN reprocessor
  /\ reprocessor' = [c \in DOMAIN reprocessor \cup {a} |->
                       IF c = a THEN slot + REPROCESS_TARGET_SLOT ELSE reprocessor[c]]
  /\ UNCHANGED <<vars, slot, chromium, received, lifetime>>

(* A slip: the number may be halved to nothing. *)
PenalizedNumberToZero(number, target) ==
  number \div SatPow2(SatSub(slot, target + REPROCESS_SLOT_BUFFER))

(* The number halves for every slot past the buffer, down to 1.  (The      *)
(* exponent is a u32, which 2^32 slots of delay, some fifty years, wrap.)  *)
PenalizedNumber(number, target) ==
  Greater(1, number \div SatPow2(SatSub(slot, target + REPROCESS_SLOT_BUFFER)))

(* What a's finalisation mints for a derived number and a computed root. *)
Minted(a, number, root) ==
  SatMul(CalculateReward(proof[a].total_hashes, root),
         PenalizedNumber(number, reprocessor[a]))

(* A slip: the buffer is taken for the window of finalisation. *)
TargetSlotReachedInTime(a) ==
  reprocessor[a] < slot /\ slot <= reprocessor[a] + REPROCESS_SLOT_BUFFER

TargetSlotReached(a) == reprocessor[a] < slot

FinalizeReprocess(a, mint) ==
  /\ a \in DOMAIN reprocessor /\ TargetSlotReached(a) /\ a \in DOMAIN proof
  /\ \E number \in 1 .. REPROCESS_MAX_MULTIPLIER, root \in CubeRoots(proof[a].total_rewards),
        account \in {"wallet", "treasury"} :
       /\ ReprocessFor(a, Minted(a, number, root), mint, account)
       /\ IF mint = "chromium"
          THEN /\ chromium + Minted(a, number, root) \in U64
               /\ chromium' = chromium + Minted(a, number, root)
          ELSE UNCHANGED chromium
       /\ received' = [received EXCEPT ![a] = @ + Minted(a, number, root)]
  /\ reprocessor' = [c \in DOMAIN reprocessor \ {a} |-> reprocessor[c]]
  /\ UNCHANGED <<slot, lifetime>>

MineAndCount ==
  /\ Mine
  /\ lifetime' = [a \in Authorities |->
       IF a \in DOMAIN proof
       THEN [hashes  |-> lifetime[a].hashes + (proof'[a].total_hashes - proof[a].total_hashes),
             rewards |-> lifetime[a].rewards + (proof'[a].total_rewards - proof[a].total_rewards)]
       ELSE lifetime[a]]
  /\ UNCHANGED <<slot, reprocessor, chromium, received>>

(* The ledger's other instructions. *)
LedgerInstruction ==
  /\ \/ \E a \in Authorities, m \in Miners : Open(a, m)
     \/ \E a \in Authorities, amount \in Amounts : Claim(a, amount) \/ Stake(a, amount)
     \/ \E a \in Authorities : Close(a)
     \/ Reset
     \/ ResetTooSoon
     \/ \E amount \in Amounts : Donate(amount) \/ Burn(amount)
     \/ ToolStep
  /\ UNCHANGED reprocessVars

(* A slot passes, and with it some time or none. *)
NextSlot ==
  /\ slot < MaxSlot /\ slot' = slot + 1
  /\ Tick \/ UNCHANGED vars
  /\ UNCHANGED <<reprocessor, chromium, received, lifetime>>

ReprocessingNext ==
  \/ \E a \in Authorities : InitReprocess(a)
  \/ \E a \in Authorities, mint \in Mints : FinalizeReprocess(a, mint)
  \/ MineAndCount
  \/ LedgerInstruction
  \/ NextSlot

(* The owner of a reprocessor, whom it pays, repeats the finalisation that *)
(* its client builds until it succeeds, and slots keep passing.            *)
ReprocessingSpec ==
  /\ ReprocessingInit /\ [][ReprocessingNext]_allVars
  /\ WF_allVars(NextSlot)
  /\ \A a \in Authorities : WF_allVars(FinalizeReprocess(a, "chromium"))

-----------------------------------------------------------------------------
(* The most that statistics can be worth, if no product saturates.         *)
Worth(hashes, rewards) ==
  LET root == CHOOSE c \in CubeRoots(rewards) : \A d \in CubeRoots(rewards) : d <= c
  IN  REPROCESS_MAX_MULTIPLIER * (SCALING_FACTOR * hashes * root)

LifetimeWorth(a) == Worth(lifetime[a].hashes, lifetime[a].rewards)

(* Statistics are traded once: however an authority splits its hashes over *)
(* finalisations, proofs and mints, and whatever it mines while a          *)
(* reprocessor is open, all it gets is never more than one finalisation of *)
(* all its hashes could give.                                              *)
SplittingNeverPays == \A a \in Authorities : received[a] <= LifetimeWorth(a)

(* A reprocess mints past the cap of coal, but for past hashes only: what  *)
(* there is of chromium, and of coal in excess of the cap, is within the   *)
(* worth of all that was ever mined.                                       *)
SupplyWithinWorth ==
  supply + chromium
    <= MAX_COAL_SUPPLY + SumOver([a \in Authorities |-> LifetimeWorth(a)], Authorities)

(* Once a finalisation is due, every slot that passes lowers what it can   *)
(* mint or leaves it, and never below what the statistics are worth.       *)
DelayNeverPays ==
  [][\A a \in DOMAIN reprocessor :
       a \in DOMAIN proof /\ TargetSlotReached(a) /\ slot' # slot =>
         \A number \in 1 .. REPROCESS_MAX_MULTIPLIER, root \in CubeRoots(proof[a].total_rewards) :
           /\ Minted(a, number, root)' <= Minted(a, number, root)
           /\ Minted(a, number, root)' >= CalculateReward(proof[a].total_hashes, root)]_allVars

(* A reprocessor whose slot has come is finalised, however late its owner  *)
(* gets to it, unless the proof with the statistics is closed: an          *)
(* authority has one reprocessor, and nothing else would close it.         *)
Due(a) ==
  /\ a \in DOMAIN reprocessor /\ slot > reprocessor[a]
  /\ a \in DOMAIN proof /\ proof[a].total_hashes # 0 /\ proof[a].total_rewards # 0

NoReprocessorIsStuck ==
  \A a \in Authorities : Due(a) ~> (a \notin DOMAIN reprocessor \/ a \notin DOMAIN proof)
=============================================================================
