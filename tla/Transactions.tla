---------------------------- MODULE Transactions ----------------------------
(***************************************************************************)
(* What makes a solution count once: the challenges of the proofs, the     *)
(* hash chain between them, and the transactions that carry solutions.     *)
(*                                                                         *)
(* Miners solve whatever challenge they can know, and a transaction may    *)
(* carry any solutions, at any time, any number of times: submissions are  *)
(* lost, delayed, repeated and reordered freely, and one that is not for   *)
(* the challenge its proof has fails.  A transaction runs its instructions *)
(* one by one and ends by Commit or by Abort, and no other transaction on  *)
(* these accounts runs meanwhile.                                          *)
(*                                                                         *)
(* Signatures, epochs, difficulties and balances are the ledgers' part.    *)
(* They only refuse instructions that are accepted here; Close is accepted *)
(* here at once, as a claim of the whole balance may always precede it.    *)
(***************************************************************************)
EXTENDS MachineInt, Sequences, FiniteSets

CONSTANTS
  Proofs,                \* addresses of proofs: their kind and authority
  Nonces,                \* the solutions a challenge may have (bound)
  ONE_MINUTE, TOLERANCE,
  SlotTimes,             \* the seconds a slot may take on the cluster clock
  Declarations,          \* the noops of a transaction (bound)
  MaxSlot                \* (bound)

Kinds == {"coal", "wood"}

ASSUME TransactionsAssumption ==
  /\ \A p \in Proofs : p = [kind |-> p.kind, authority |-> p.authority] /\ p.kind \in Kinds
  /\ ONE_MINUTE \in Nat \ {0} /\ TOLERANCE \in 0 .. ONE_MINUTE - 1
  /\ SlotTimes \subseteq Nat
  /\ Declarations \subseteq Seq(Proofs)
  /\ MaxSlot \in Nat \ {0}

VARIABLES
  slot, clock, \* of the cluster; the latest slot hash is the one numbered slot
  known,       \* since which slot miners may know and solve a challenge
  proof,       \* the open proofs, as the running transaction sees them; the
               \* field since is history: the slot in which the challenge was set
  tx,          \* the running transaction
  credits,     \* history: the hashes credited
  committed    \* proofs and history as the last finished transaction left them

vars == <<slot, clock, known, proof, tx, credits, committed>>

(* Slips: the "wood" prefix is forgotten; the slot hash is not mixed in;   *)
(* the hash itself becomes the next challenge.                             *)
OpenChallengeUntagged(p, s) == [kind |-> "coal", seed |-> [key |-> p.authority], slot |-> s]
NextChallengeUnslotted(p, solution, s) == [kind |-> p.kind, seed |-> solution, slot |-> 0]
NextChallengeIsHash(p, solution, s) == solution

(* Keccak hashes are one to one, and none is a key: a challenge is what it *)
(* is the hash of, and that of a solution is no authority's.               *)
(* A proof opened in slot s starts from its authority and that slot hash.  *)
OpenChallenge(p, s) == [kind |-> p.kind, seed |-> [key |-> p.authority], slot |-> s]

(* The challenge that follows a hash landing in slot s. *)
NextChallenge(p, solution, s) == [kind |-> p.kind, seed |-> solution, slot |-> s]

Idle == [running |-> FALSE, noops |-> <<>>, hashed |-> <<>>]

(* A miner works on a challenge that is set, or that would be set if a     *)
(* proof was opened, or a solution landed, in this slot.                   *)
KnownChallenges ==
  {proof[p].challenge : p \in DOMAIN proof}
    \cup {OpenChallenge(p, slot) : p \in Proofs}
    \cup {NextChallenge(p, [challenge |-> proof[p].challenge, nonce |-> n], slot) :
             p \in DOMAIN proof, n \in Nonces}

KnownSince(challenge, s) == IF challenge \in DOMAIN known THEN known[challenge] ELSE s

Init ==
  /\ slot = 1 /\ clock = ONE_MINUTE
  /\ proof = [p \in {} |-> {}]
  /\ known = [challenge \in KnownChallenges |-> slot]
  /\ tx = Idle
  /\ credits = {}
  /\ committed = [proof |-> proof, credits |-> credits]

-----------------------------------------------------------------------------
(* What becomes public is known from now on; what can never be set any     *)
(* more is forgotten.                                                      *)
MinersLearn == known' = [challenge \in KnownChallenges' |-> KnownSince(challenge, slot')]

(* Time passes between transactions. *)
NextSlot ==
  /\ ~tx.running /\ slot < MaxSlot
  /\ slot' = slot + 1
  /\ \E d \in SlotTimes : clock' = clock + d
  /\ UNCHANGED <<proof, tx, credits, committed>>
  /\ MinersLearn

(* A transaction declares proofs by its noop instructions, wherever they   *)
(* stand among its instructions.                                           *)
Begin(noops) ==
  /\ ~tx.running
  /\ tx' = [Idle EXCEPT !.running = TRUE, !.noops = noops]
  /\ UNCHANGED <<slot, clock, known, proof, credits, committed>>

Open(p) ==
  /\ tx.running
  /\ p \notin DOMAIN proof
  /\ proof' = [q \in DOMAIN proof \cup {p} |->
                 IF q = p
                 THEN [challenge |-> OpenChallenge(p, slot), last_hash_at |-> clock,
                       since |-> slot]
                 ELSE proof[q]]
  /\ UNCHANGED <<slot, clock, known, tx, credits, committed>>

Close(p) ==
  /\ tx.running
  /\ p \in DOMAIN proof
  /\ proof' = [q \in DOMAIN proof \ {p} |-> proof[q]]
  /\ UNCHANGED <<slot, clock, known, tx, credits, committed>>

(* A slip: any noop may name the proof, so that coal and wood can share    *)
(* one rule.                                                               *)
AuthenticatedByAny(p) == \E i \in DOMAIN tx.noops : tx.noops[i] = p

(* Introspection: the first noop names the wood proof, the second the coal *)
(* proof.  A missing noop authenticates nothing.                           *)
Authenticated(p) ==
  LET i == IF p.kind = "wood" THEN 1 ELSE 2
  IN  i \in DOMAIN tx.noops /\ tx.noops[i] = p

NotSpam(p) == clock >= proof[p].last_hash_at + ONE_MINUTE - TOLERANCE

Mine(p, solution) ==
  /\ tx.running
  /\ p \in DOMAIN proof /\ solution.challenge = proof[p].challenge
  /\ Authenticated(p)
  /\ NotSpam(p)
  /\ proof' = [proof EXCEPT
       ![p] = [challenge |-> NextChallenge(p, solution, slot),
               last_hash_at |-> Greater(clock, @.last_hash_at + ONE_MINUTE),
               since |-> slot]]
  /\ credits' = credits \cup {[proof |-> p, slot |-> slot, since |-> proof[p].since,
                              challenge |-> solution.challenge,
                              known |-> KnownSince(solution.challenge, slot)]}
  /\ tx' = [tx EXCEPT !.hashed = Append(@, p)]
  /\ UNCHANGED <<slot, clock, known, committed>>

Commit ==
  /\ tx.running
  /\ tx' = Idle
  /\ committed' = [proof |-> proof, credits |-> credits]
  /\ UNCHANGED <<slot, clock, proof, credits>>
  /\ MinersLearn

(* An instruction fails, of this program or of another: all is undone. *)
Abort ==
  /\ tx.running
  /\ tx' = Idle
  /\ proof' = committed.proof /\ credits' = committed.credits
  /\ UNCHANGED <<slot, clock, known, committed>>

Next ==
  \/ NextSlot
  \/ \E noops \in Declarations : Begin(noops)
  \/ \E p \in Proofs : Open(p)
  \/ \E p \in Proofs : Close(p)
  \/ \E p \in DOMAIN proof, n \in Nonces :
       Mine(p, [challenge |-> proof[p].challenge, nonce |-> n])
  \/ Commit
  \/ Abort

Spec == Init /\ [][Next]_vars

-----------------------------------------------------------------------------
(* Types: a proof's challenge is a hash of its kind, set no later than now. *)
TxTypeOK ==
  /\ slot \in 1 .. MaxSlot /\ clock \in Nat
  /\ DOMAIN proof \subseteq Proofs
  /\ \A p \in DOMAIN proof :
       /\ DOMAIN proof[p] = {"challenge", "last_hash_at", "since"}
       /\ DOMAIN proof[p].challenge = {"kind", "seed", "slot"}
       /\ proof[p].challenge.kind = p.kind
       /\ proof[p].last_hash_at \in Nat /\ proof[p].since \in 1 .. slot
  /\ \A challenge \in DOMAIN known : known[challenge] \in 1 .. slot
  /\ DOMAIN tx = DOMAIN Idle

(* No challenge is ever paid twice: not for a submission that is repeated  *)
(* or lands late, not for a second solution of the same challenge, not     *)
(* after a proof is closed and opened again, and not once as coal and once *)
(* as wood.                                                                *)
CountedOnce ==
  \A c, d \in credits : c.challenge = d.challenge => c = d

(* "miners are forced to submit their current solution before they can     *)
(* begin mining for the next": no hash that counts can have been computed  *)
(* before the slot in which the previous hash of its proof landed.         *)
NoPreMining == \A c \in credits : c.known >= c.since

(* A transaction earns at most one hash of coal and one of wood, whatever  *)
(* it declares and however its instructions are ordered: neither a second  *)
(* proof nor closing and opening the same proof fits in.                   *)
OneHashPerKind ==
  \A i, j \in DOMAIN tx.hashed : tx.hashed[i].kind = tx.hashed[j].kind => i = j
=============================================================================
