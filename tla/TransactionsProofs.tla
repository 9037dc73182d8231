------------------------- MODULE TransactionsProofs -------------------------
(***************************************************************************)
(* Proofs about transactions and challenges, for any proofs, solutions,    *)
(* declarations and speeds of the cluster clock.                           *)
(*                                                                         *)
(* TxInv is inductive.  A challenge is credited once because a proof whose *)
(* challenge was set in a slot cannot be mined in it (Waits): what was     *)
(* credited is older than whatever can still be set (Older).  That no two  *)
(* open proofs share a challenge (Distinct) needs to know where each came  *)
(* from (Descends).  An abort goes back to the state before the            *)
(* transaction, so all this must hold of the committed state as well.      *)
(***************************************************************************)
EXTENDS Transactions, TLAPS

(* Where a challenge came from: its proof was opened, or a solution of an  *)
(* earlier challenge was credited.                                         *)
Descends(p, challenge, cr) ==
  \/ challenge = OpenChallenge(p, challenge.slot)
  \/ \E c \in cr, n \in Nonces :
       challenge = NextChallenge(p, [challenge |-> c.challenge, nonce |-> n], challenge.slot)

(* What an open proof says in slot s, at time t. *)
ProofOK(p, r, cr, s) ==
  /\ r = [challenge |-> r.challenge, last_hash_at |-> r.last_hash_at, since |-> r.since]
  /\ r.challenge = [kind |-> p.kind, seed |-> r.challenge.seed, slot |-> r.since]
  /\ r.last_hash_at \in Nat /\ r.since \in 1 .. s
  /\ Descends(p, r.challenge, cr)

(* A proof whose challenge was set in this slot cannot be mined in it.     *)
Waits(r, s, t) == r.since = s => r.last_hash_at >= t

Distinct(pr) == \A p, q \in DOMAIN pr : pr[p].challenge = pr[q].challenge => p = q

Uncredited(pr, cr) == \A p \in DOMAIN pr, c \in cr : c.challenge # pr[p].challenge

Older(c, s) == c.challenge.slot \in Nat /\ c.challenge.slot < s /\ c.known >= c.since

CreditsOnce(cr) == \A c, d \in cr : c.challenge = d.challenge => c = d

Chain(pr, cr, s, t) ==
  /\ DOMAIN pr \subseteq Proofs
  /\ \A p \in DOMAIN pr : ProofOK(p, pr[p], cr, s) /\ Waits(pr[p], s, t)
  /\ Distinct(pr) /\ Uncredited(pr, cr)
  /\ \A c \in cr : Older(c, s)
  /\ CreditsOnce(cr)

(* Miners know no challenge before the slot it is derived from. *)
KnownInTime ==
  /\ \A challenge \in DOMAIN known :
       known[challenge] \in 1 .. slot /\ known[challenge] >= challenge.slot

(* What the running transaction hashed, it declared; and it must wait.     *)
HashedDeclared ==
  \A i \in DOMAIN tx.hashed :
    /\ tx.hashed[i] \in Proofs
    /\ Authenticated(tx.hashed[i])
    /\ tx.hashed[i] \in DOMAIN proof => proof[tx.hashed[i]].last_hash_at >= clock

TxShape ==
  /\ tx = [running |-> tx.running, noops |-> tx.noops, hashed |-> tx.hashed]
  /\ tx.hashed \in Seq(Proofs)
  /\ ~tx.running => tx = Idle

TxInv ==
  /\ slot \in 1 .. MaxSlot /\ clock \in Nat
  /\ Chain(proof, credits, slot, clock)
  /\ Chain(committed.proof, committed.credits, slot, clock)
  /\ KnownInTime
  /\ TxShape /\ HashedDeclared /\ OneHashPerKind

-----------------------------------------------------------------------------
(* The parts of a challenge, and what it is the hash of. *)
LEMMA ChallengeParts ==
  ASSUME NEW p, NEW q, NEW x, NEW s, NEW t
  PROVE  /\ OpenChallenge(p, s).kind = p.kind /\ OpenChallenge(p, s).slot = s
         /\ NextChallenge(p, x, s).kind = p.kind /\ NextChallenge(p, x, s).slot = s
         /\ OpenChallenge(p, s).seed = [key |-> p.authority]
         /\ NextChallenge(p, x, s).seed = x
  BY DEF OpenChallenge, NextChallenge

(* What a challenge that follows a solution is the hash of. *)
LEMMA SeedOfNext ==
  ASSUME NEW challenge, NEW p, NEW x, NEW s, challenge = NextChallenge(p, x, s)
  PROVE  challenge.seed = x
  BY DEF NextChallenge

(* A key is no solution. *)
LEMMA KeyIsNoSolution ==
  ASSUME NEW a, NEW c, NEW n
  PROVE  [key |-> a] # [challenge |-> c, nonce |-> n]
  OBVIOUS

(* Time passes: the challenges are all older than the next slot.           *)
LEMMA ChainLater ==
  ASSUME NEW pr, NEW cr, NEW s \in Nat, NEW t, NEW u, Chain(pr, cr, s, t)
  PROVE  Chain(pr, cr, s + 1, u)
<1>1. \A p \in DOMAIN pr : ProofOK(p, pr[p], cr, s + 1) /\ Waits(pr[p], s + 1, u)
  BY DEF Chain, ProofOK, Waits
<1>2. \A c \in cr : Older(c, s + 1)
  BY DEF Chain, Older
<1> QED
  BY <1>1, <1>2 DEF Chain

(* Opening p in slot s: its challenge is too new to be another's.          *)
LEMMA ChainOpened ==
  ASSUME NEW pr, NEW cr, NEW s \in Nat \ {0}, NEW t \in Nat, Chain(pr, cr, s, t),
         NEW p \in Proofs, p \notin DOMAIN pr
  PROVE  Chain([q \in DOMAIN pr \cup {p} |->
                  IF q = p
                  THEN [challenge |-> OpenChallenge(p, s), last_hash_at |-> t, since |-> s]
                  ELSE pr[q]], cr, s, t)
<1> DEFINE r == [challenge |-> OpenChallenge(p, s), last_hash_at |-> t, since |-> s]
           opened == [q \in DOMAIN pr \cup {p} |-> IF q = p THEN r ELSE pr[q]]
<1>1. /\ r.challenge = OpenChallenge(p, s) /\ r.last_hash_at = t /\ r.since = s
      /\ r.challenge.slot = s
  BY DEF OpenChallenge
<1>2. ProofOK(p, r, cr, s) /\ Waits(r, s, t)
  BY <1>1 DEF ProofOK, Waits, Descends, OpenChallenge
<1>3. /\ DOMAIN opened = DOMAIN pr \cup {p} /\ opened[p] = r
      /\ \A q \in DOMAIN pr : opened[q] = pr[q]
  OBVIOUS
<1> HIDE DEF opened, r
<1>4. ASSUME NEW q \in DOMAIN pr PROVE pr[q].challenge # r.challenge
  <2>1. SUFFICES ASSUME pr[q].challenge = r.challenge PROVE FALSE
    OBVIOUS
  <2>2. ProofOK(q, pr[q], cr, s) /\ q \in Proofs
    BY DEF Chain
  <2>3. pr[q].challenge.kind = q.kind /\ pr[q].challenge.seed = [key |-> p.authority]
        /\ q.kind = p.kind
    <3>1. pr[q].challenge.kind = q.kind
      BY <2>2 DEF ProofOK
    <3>2. r.challenge.kind = p.kind /\ r.challenge.seed = [key |-> p.authority]
      BY <1>1, ChallengeParts
    <3> QED
      BY <2>1, <3>1, <3>2
  <2>4. CASE pr[q].challenge = OpenChallenge(q, pr[q].challenge.slot)
    <3>1. [key |-> q.authority] = [key |-> p.authority]
      BY <2>3, <2>4, ChallengeParts
    <3>2. q.authority = p.authority
      BY <3>1
    <3>3. q = p
      BY <2>2, <2>3, <3>2, TransactionsAssumption
    <3> QED
      BY <3>3
  <2>5. CASE \E c \in cr, n \in Nonces :
               pr[q].challenge = NextChallenge(q, [challenge |-> c.challenge, nonce |-> n],
                                               pr[q].challenge.slot)
    <3>1. PICK c \in cr, n \in Nonces :
            pr[q].challenge = NextChallenge(q, [challenge |-> c.challenge, nonce |-> n],
                                            pr[q].challenge.slot)
      BY <2>5
    <3>2. pr[q].challenge.seed = [challenge |-> c.challenge, nonce |-> n]
      BY <3>1, SeedOfNext
    <3> QED
      BY <2>3, <3>2, KeyIsNoSolution
  <2> QED
    BY <2>2, <2>4, <2>5 DEF ProofOK, Descends
<1>5. \A c \in cr : c.challenge # r.challenge
  BY <1>1 DEF Chain, Older
<1>6. Distinct(opened) /\ Uncredited(opened, cr)
  BY <1>3, <1>4, <1>5 DEF Chain, Distinct, Uncredited
<1>7. Chain(opened, cr, s, t)
  BY <1>2, <1>3, <1>6 DEF Chain
<1> QED
  BY <1>7 DEF opened, r

(* Mining p with a solution of its challenge in slot s: the challenge is   *)
(* credited now, and the next one descends from it.                        *)
LEMMA ChainMined ==
  ASSUME NEW pr, NEW cr, NEW s \in Nat \ {0}, NEW t \in Nat, Chain(pr, cr, s, t),
         NEW p \in DOMAIN pr, NEW n \in Nonces, NEW last \in Nat, last >= t,
         t > pr[p].last_hash_at, NEW c, c.challenge = pr[p].challenge,
         c.since = pr[p].since, c.known >= c.since
  PROVE  Chain([pr EXCEPT
                  ![p] = [challenge |-> NextChallenge(p, [challenge |-> pr[p].challenge,
                                                          nonce |-> n], s),
                          last_hash_at |-> last, since |-> s]],
               cr \cup {c}, s, t)
<1> DEFINE old == pr[p].challenge
           x == [challenge |-> old, nonce |-> n]
           r == [challenge |-> NextChallenge(p, x, s), last_hash_at |-> last, since |-> s]
           mined == [pr EXCEPT ![p] = r]
           credited == cr \cup {c}
<1>1. /\ r.challenge = NextChallenge(p, x, s) /\ r.last_hash_at = last /\ r.since = s
      /\ r.challenge.slot = s /\ r.challenge.kind = p.kind /\ r.challenge.seed = x
  BY DEF NextChallenge
<1>2. /\ ProofOK(p, pr[p], cr, s) /\ Waits(pr[p], s, t)
      /\ old.slot = pr[p].since /\ old.slot \in 1 .. s
  BY DEF Chain, ProofOK
<1>3. old.slot < s
  BY <1>2 DEF ProofOK, Waits
<1>4. ProofOK(p, r, credited, s) /\ Waits(r, s, t)
  <2>1. Descends(p, r.challenge, credited)
    BY <1>1 DEF Descends
  <2>2. r.challenge = [kind |-> p.kind, seed |-> r.challenge.seed, slot |-> s]
    BY <1>1 DEF NextChallenge
  <2> QED
    BY <1>1, <2>1, <2>2 DEF ProofOK, Waits
<1>5. /\ DOMAIN mined = DOMAIN pr /\ \A q \in DOMAIN pr \ {p} : mined[q] = pr[q]
      /\ mined[p] = r
  BY DEF Chain
<1> HIDE DEF mined, r
<1>6. ASSUME NEW q \in DOMAIN pr PROVE pr[q].challenge # r.challenge
  <2>1. SUFFICES ASSUME pr[q].challenge = r.challenge PROVE FALSE
    OBVIOUS
  <2>2. ProofOK(q, pr[q], cr, s)
    BY DEF Chain
  <2>3. pr[q].challenge.seed = x
    BY <1>1, <2>1
  <2>4. CASE pr[q].challenge = OpenChallenge(q, pr[q].challenge.slot)
    <3>1. \A z : OpenChallenge(q, z).seed = [key |-> q.authority]
      BY ChallengeParts
    <3>2. x = [key |-> q.authority]
      BY <2>3, <2>4, <3>1, Zenon
    <3> QED
      BY <3>2, KeyIsNoSolution
  <2>5. CASE \E d \in cr, m \in Nonces :
               pr[q].challenge = NextChallenge(q, [challenge |-> d.challenge, nonce |-> m],
                                               pr[q].challenge.slot)
    <3>1. PICK d \in cr, m \in Nonces :
            pr[q].challenge = NextChallenge(q, [challenge |-> d.challenge, nonce |-> m],
                                            pr[q].challenge.slot)
      BY <2>5
    <3>2. x = [challenge |-> d.challenge, nonce |-> m]
      BY <2>3, <3>1, SeedOfNext
    <3>3. d.challenge = old
      BY <3>2
    <3> QED
      BY <3>3 DEF Chain, Uncredited
  <2> QED
    BY <2>2, <2>4, <2>5 DEF ProofOK, Descends
<1>7. \A d \in credited : d.challenge # r.challenge
  BY <1>1, <1>3 DEF Chain, Older
<1>8. \A q \in DOMAIN pr \ {p} : pr[q].challenge # old
  BY DEF Chain, Distinct
<1>9. Distinct(mined) /\ Uncredited(mined, credited)
  BY <1>5, <1>6, <1>7, <1>8 DEF Chain, Distinct, Uncredited
<1>10. \A q \in DOMAIN pr : ProofOK(q, pr[q], credited, s)
  BY DEF Chain, ProofOK, Descends
<1>11. \A d \in credited : Older(d, s)
  BY <1>2, <1>3 DEF Chain, Older
<1>12. CreditsOnce(credited)
  <2>1. \A d \in cr : d.challenge # c.challenge
    BY DEF Chain, Uncredited
  <2> QED
    BY <2>1 DEF Chain, CreditsOnce
<1>13. Chain(mined, credited, s, t)
  BY <1>4, <1>5, <1>9, <1>10, <1>11, <1>12 DEF Chain
<1> QED
  BY <1>13 DEF mined, r

(* Closing p leaves the others as they are. *)
LEMMA ChainClosed ==
  ASSUME NEW pr, NEW cr, NEW s, NEW t, Chain(pr, cr, s, t), NEW p
  PROVE  Chain([q \in DOMAIN pr \ {p} |-> pr[q]], cr, s, t)
  BY DEF Chain, Distinct, Uncredited

-----------------------------------------------------------------------------
(* One lemma per action: TxInv is preserved. *)

(* Learning keeps what miners know in time: a challenge of this slot is    *)
(* known in this slot at the earliest.                                     *)
LEMMA LearnStep ==
  ASSUME KnownInTime, MinersLearn, slot \in Nat \ {0}, slot' \in Nat, slot <= slot',
         \A p \in DOMAIN proof' : proof'[p].challenge.slot \in 1 .. slot'
  PROVE  KnownInTime'
<1>1. known' = [challenge \in KnownChallenges' |-> KnownSince(challenge, slot')]
  BY DEF MinersLearn
<1>2. SUFFICES ASSUME NEW challenge \in KnownChallenges'
               PROVE  /\ KnownSince(challenge, slot') \in 1 .. slot'
                      /\ KnownSince(challenge, slot') >= challenge.slot
  BY <1>1 DEF KnownInTime
<1>3. CASE challenge \in DOMAIN known
  <2>1. known[challenge] \in 1 .. slot /\ known[challenge] >= challenge.slot
    BY <1>3 DEF KnownInTime
  <2>2. KnownSince(challenge, slot') = known[challenge]
    BY <1>3 DEF KnownSince
  <2> QED
    BY <2>1, <2>2
<1>4. CASE challenge \notin DOMAIN known
  <2>1. KnownSince(challenge, slot') = slot'
    BY <1>4 DEF KnownSince
  <2>2. challenge.slot \in 1 .. slot'
    <3>1. CASE challenge \in {proof'[p].challenge : p \in DOMAIN proof'}
      BY <3>1
    <3>2. CASE challenge \in {OpenChallenge(p, slot') : p \in Proofs}
      BY <3>2 DEF OpenChallenge
    <3>3. CASE challenge \in {NextChallenge(p, [challenge |-> proof'[p].challenge, nonce |-> n],
                                            slot') : p \in DOMAIN proof', n \in Nonces}
      BY <3>3 DEF NextChallenge
    <3> QED
      BY <3>1, <3>2, <3>3 DEF KnownChallenges
  <2> QED
    BY <2>1, <2>2
<1> QED
  BY <1>3, <1>4

(* What a chain says of the challenge of an open proof. *)
LEMMA ChainChallenges ==
  ASSUME NEW pr, NEW cr, NEW s, NEW t, Chain(pr, cr, s, t), NEW p \in DOMAIN pr
  PROVE  /\ p \in Proofs
         /\ pr[p].challenge.slot = pr[p].since /\ pr[p].since \in 1 .. s
         /\ pr[p].last_hash_at \in Nat
<1>1. ProofOK(p, pr[p], cr, s)
  BY DEF Chain
<1> QED
  BY <1>1 DEF Chain, ProofOK

(* The passing of time preserves the invariant. *)
LEMMA SlotStep ==
  ASSUME TxInv, NextSlot
  PROVE  TxInv'
<1> USE DEF TxInv
<1>1. /\ slot \in Nat \ {0} /\ slot' = slot + 1 /\ slot' \in 1 .. MaxSlot /\ clock' \in Nat
      /\ UNCHANGED <<proof, tx, credits, committed>>
  BY TransactionsAssumption DEF NextSlot
<1>2. /\ Chain(proof, credits, slot + 1, clock')
      /\ Chain(committed.proof, committed.credits, slot + 1, clock')
  BY <1>1, ChainLater
<1>3. KnownInTime'
  <2>1. \A p \in DOMAIN proof : proof[p].challenge.slot \in 1 .. slot + 1
    BY <1>2, ChainChallenges
  <2> QED
    BY <1>1, <2>1, LearnStep DEF NextSlot
<1>4. ~tx.running /\ tx = Idle
  BY DEF NextSlot, TxShape
<1>5. TxShape' /\ HashedDeclared' /\ OneHashPerKind'
  BY <1>1, <1>4 DEF Idle, TxShape, HashedDeclared, OneHashPerKind
<1>6. Chain(proof, credits, slot, clock)' /\ Chain(committed.proof, committed.credits, slot, clock)'
  BY <1>1, <1>2
<1> QED
  BY <1>1, <1>3, <1>5, <1>6

(* A transaction begins with nothing hashed. *)
LEMMA BeginStep ==
  ASSUME TxInv, NEW noops, Begin(noops)
  PROVE  TxInv'
<1>1. tx' = [running |-> TRUE, noops |-> noops, hashed |-> <<>>]
  BY DEF Begin, Idle
<1>2. TxShape' /\ HashedDeclared' /\ OneHashPerKind'
  BY <1>1 DEF TxShape, HashedDeclared, OneHashPerKind
<1> QED
  BY <1>2 DEF TxInv, Begin, KnownInTime

(* A proof that is opened waits, so that what was hashed still does.       *)
LEMMA OpenStep ==
  ASSUME TxInv, NEW p \in Proofs, Open(p)
  PROVE  TxInv'
<1> USE DEF TxInv
<1>1. /\ slot \in Nat \ {0} /\ clock \in Nat /\ p \notin DOMAIN proof
      /\ UNCHANGED <<slot, clock, known, tx, credits, committed>>
  BY TransactionsAssumption DEF Open
<1>2. proof' = [q \in DOMAIN proof \cup {p} |->
                  IF q = p
                  THEN [challenge |-> OpenChallenge(p, slot), last_hash_at |-> clock,
                        since |-> slot]
                  ELSE proof[q]]
  BY DEF Open
<1>3. Chain(proof', credits, slot, clock)
  BY <1>1, <1>2, ChainOpened
<1>4. HashedDeclared'
  <2>1. /\ DOMAIN proof' = DOMAIN proof \cup {p} /\ proof'[p].last_hash_at = clock
        /\ \A q \in DOMAIN proof : proof'[q] = proof[q]
    BY <1>1, <1>2
  <2> QED
    BY <1>1, <2>1 DEF HashedDeclared, Authenticated
<1> QED
  BY <1>1, <1>3, <1>4 DEF KnownInTime, TxShape, OneHashPerKind

(* Closing forgets a proof, not what was hashed. *)
LEMMA CloseStep ==
  ASSUME TxInv, NEW p \in Proofs, Close(p)
  PROVE  TxInv'
<1> USE DEF TxInv
<1>1. /\ proof' = [q \in DOMAIN proof \ {p} |-> proof[q]]
      /\ UNCHANGED <<slot, clock, known, tx, credits, committed>>
  BY DEF Close
<1>2. Chain(proof', credits, slot, clock)
  BY <1>1, ChainClosed
<1>3. HashedDeclared'
  BY <1>1 DEF HashedDeclared, Authenticated
<1> QED
  BY <1>1, <1>2, <1>3 DEF KnownInTime, TxShape, OneHashPerKind

(* A hash is accepted for a proof that waited, which none does that was    *)
(* hashed before by this transaction; one noop per kind leaves no other.   *)
LEMMA MineStep ==
  ASSUME TxInv, NEW p \in DOMAIN proof, NEW n \in Nonces,
         Mine(p, [challenge |-> proof[p].challenge, nonce |-> n])
  PROVE  TxInv'
<1> USE DEF TxInv
<1> DEFINE x == [challenge |-> proof[p].challenge, nonce |-> n]
           last == Greater(clock, proof[p].last_hash_at + ONE_MINUTE)
           c == [proof |-> p, slot |-> slot, since |-> proof[p].since,
                 challenge |-> proof[p].challenge,
                 known |-> KnownSince(proof[p].challenge, slot)]
<1>1. /\ UNCHANGED <<slot, clock, known, committed>>
      /\ proof' = [proof EXCEPT ![p] = [challenge |-> NextChallenge(p, x, slot),
                                        last_hash_at |-> last, since |-> slot]]
      /\ credits' = credits \cup {c}
      /\ tx' = [tx EXCEPT !.hashed = Append(@, p)]
      /\ tx.running /\ Authenticated(p)
  BY DEF Mine
<1>2. /\ p \in Proofs /\ proof[p].challenge.slot = proof[p].since
      /\ proof[p].since \in 1 .. slot /\ proof[p].last_hash_at \in Nat
      /\ slot \in Nat \ {0} /\ clock \in Nat
  BY ChainChallenges, TransactionsAssumption
<1>3. clock > proof[p].last_hash_at /\ last \in Nat /\ last >= clock
  BY <1>2, TransactionsAssumption DEF Mine, NotSpam, Greater
<1>4. c.known >= c.since /\ c.challenge = proof[p].challenge /\ c.since = proof[p].since
  BY <1>2 DEF KnownSince, KnownInTime
<1> HIDE DEF last, c
<1>5. Chain(proof', credits', slot, clock)
  BY <1>1, <1>2, <1>3, <1>4, ChainMined
<1>6. /\ tx' = [running |-> tx.running, noops |-> tx.noops, hashed |-> Append(tx.hashed, p)]
      /\ tx.hashed \in Seq(Proofs)
  BY <1>1 DEF TxShape
<1>7. TxShape'
  <2>1. /\ tx'.running = tx.running /\ tx'.noops = tx.noops
        /\ tx'.hashed = Append(tx.hashed, p)
    BY <1>6
  <2>2. tx'.hashed \in Seq(Proofs)
    BY <1>2, <1>6, <2>1
  <2> QED
    BY <1>1, <1>6, <2>1, <2>2 DEF TxShape
<1> DEFINE k == Len(tx.hashed) + 1
<1>8. /\ DOMAIN tx'.hashed = 1 .. k /\ k \in Nat \ {0} /\ tx'.hashed[k] = p
      /\ DOMAIN tx.hashed = 1 .. k - 1
      /\ \A i \in DOMAIN tx.hashed : tx'.hashed[i] = tx.hashed[i]
  BY <1>2, <1>6
<1>9. \A i \in DOMAIN tx'.hashed : i = k \/ i \in DOMAIN tx.hashed
  BY <1>8
<1>10. \A q : Authenticated(q)' <=> Authenticated(q)
  BY <1>6 DEF Authenticated
<1> HIDE DEF k
<1>11. HashedDeclared'
  <2>1. /\ DOMAIN proof' = DOMAIN proof /\ proof'[p].last_hash_at = last
        /\ \A q \in DOMAIN proof : q # p => proof'[q] = proof[q]
    BY <1>1
  <2>2. SUFFICES ASSUME NEW i \in DOMAIN tx'.hashed
                 PROVE  /\ tx'.hashed[i] \in Proofs /\ Authenticated(tx'.hashed[i])
                        /\ tx'.hashed[i] \in DOMAIN proof =>
                             proof'[tx'.hashed[i]].last_hash_at >= clock
    BY <1>1, <1>10, <2>1 DEF HashedDeclared
  <2>3. CASE i = k
    BY <1>1, <1>2, <1>3, <1>8, <2>1, <2>3
  <2>4. CASE i \in DOMAIN tx.hashed
    BY <1>3, <1>8, <2>1, <2>4 DEF HashedDeclared
  <2> QED
    BY <1>9, <2>3, <2>4
<1>12. OneHashPerKind'
  <2>1. ASSUME NEW i \in DOMAIN tx.hashed PROVE tx.hashed[i].kind # p.kind
    <3>1. SUFFICES ASSUME tx.hashed[i].kind = p.kind PROVE FALSE
      OBVIOUS
    <3>2. tx.hashed[i] = p
      BY <1>1, <3>1 DEF HashedDeclared, Authenticated
    <3>3. proof[p].last_hash_at >= clock
      BY <3>2 DEF HashedDeclared
    <3> QED
      BY <1>2, <1>3, <3>3
  <2> QED
    BY <1>8, <1>9, <2>1 DEF OneHashPerKind
<1> QED
  BY <1>1, <1>5, <1>7, <1>11, <1>12 DEF KnownInTime

(* A transaction ends with what it did, and its challenges are public.     *)
LEMMA CommitStep ==
  ASSUME TxInv, Commit
  PROVE  TxInv'
<1> USE DEF TxInv
<1>1. /\ tx' = Idle /\ committed' = [proof |-> proof, credits |-> credits]
      /\ UNCHANGED <<slot, clock, proof, credits>> /\ MinersLearn
      /\ slot \in Nat \ {0}
  BY TransactionsAssumption DEF Commit
<1>2. KnownInTime'
  <2>1. \A p \in DOMAIN proof : proof[p].challenge.slot \in 1 .. slot
    BY ChainChallenges
  <2> QED
    BY <1>1, <2>1, LearnStep
<1>3. TxShape' /\ HashedDeclared' /\ OneHashPerKind'
  BY <1>1 DEF Idle, TxShape, HashedDeclared, OneHashPerKind
<1>4. committed'.proof = proof' /\ committed'.credits = credits'
  BY <1>1
<1> QED
  BY <1>1, <1>2, <1>3, <1>4

(* A transaction that fails leaves what the last one committed.            *)
LEMMA AbortStep ==
  ASSUME TxInv, Abort
  PROVE  TxInv'
<1> USE DEF TxInv
<1>1. /\ tx' = Idle /\ proof' = committed.proof /\ credits' = committed.credits
      /\ UNCHANGED <<slot, clock, known, committed>>
  BY DEF Abort
<1>2. TxShape' /\ HashedDeclared' /\ OneHashPerKind'
  BY <1>1 DEF Idle, TxShape, HashedDeclared, OneHashPerKind
<1> QED
  BY <1>1, <1>2 DEF KnownInTime

(* Before the first proof nothing is credited. *)
LEMMA TxStart == Init => TxInv
<1> SUFFICES ASSUME Init PROVE TxInv
  OBVIOUS
<1>1. /\ slot = 1 /\ slot \in 1 .. MaxSlot /\ clock \in Nat /\ DOMAIN proof = {} /\ credits = {}
      /\ committed = [proof |-> proof, credits |-> credits] /\ tx = Idle
  BY TransactionsAssumption DEF Init
<1>2. Chain(proof, credits, slot, clock)
  BY <1>1 DEF Chain, Distinct, Uncredited, CreditsOnce
<1>3. Chain(committed.proof, committed.credits, slot, clock)
  BY <1>1, <1>2
<1>4. KnownInTime
  <2>1. \A challenge \in KnownChallenges : challenge.slot = slot
    BY <1>1 DEF KnownChallenges, OpenChallenge
  <2>2. known = [challenge \in KnownChallenges |-> slot]
    BY DEF Init
  <2> QED
    BY <1>1, <2>1, <2>2 DEF KnownInTime
<1>5. TxShape /\ HashedDeclared /\ OneHashPerKind
  BY <1>1 DEF Idle, TxShape, HashedDeclared, OneHashPerKind
<1> QED
  BY <1>1, <1>2, <1>3, <1>4, <1>5 DEF TxInv

(* Every step preserves it. *)
LEMMA TxStep == TxInv /\ [Next]_vars => TxInv'
<1> SUFFICES ASSUME TxInv, [Next]_vars PROVE TxInv'
  OBVIOUS
<1>1. CASE NextSlot
  BY <1>1, SlotStep
<1>2. CASE \E noops \in Declarations : Begin(noops)
  BY <1>2, BeginStep
<1>3. CASE \E p \in Proofs : Open(p)
  BY <1>3, OpenStep
<1>4. CASE \E p \in Proofs : Close(p)
  BY <1>4, CloseStep
<1>5. CASE \E p \in DOMAIN proof, n \in Nonces :
             Mine(p, [challenge |-> proof[p].challenge, nonce |-> n])
  BY <1>5, MineStep
<1>6. CASE Commit
  BY <1>6, CommitStep
<1>7. CASE Abort
  BY <1>7, AbortStep
<1>8. CASE UNCHANGED vars
  BY <1>8 DEF vars, TxInv, KnownInTime, TxShape, HashedDeclared, Authenticated, OneHashPerKind
<1> QED
  BY <1>1, <1>2, <1>3, <1>4, <1>5, <1>6, <1>7, <1>8 DEF Next

(* The invariant of transactions and challenges holds in every state.      *)
THEOREM TxInvariant == Spec => []TxInv
  BY TxStart, TxStep, PTL DEF Spec

(* Types: a proof's challenge is a hash of its kind, set no later than now. *)
THEOREM TransactionTypes == Spec => []TxTypeOK
<1>1. TxInv => TxTypeOK
  <2> SUFFICES ASSUME TxInv PROVE TxTypeOK
    OBVIOUS
  <2>1. ASSUME NEW p \in DOMAIN proof
        PROVE  /\ DOMAIN proof[p] = {"challenge", "last_hash_at", "since"}
               /\ DOMAIN proof[p].challenge = {"kind", "seed", "slot"}
               /\ proof[p].challenge.kind = p.kind
               /\ proof[p].last_hash_at \in Nat /\ proof[p].since \in 1 .. slot
    <3>1. ProofOK(p, proof[p], credits, slot)
      BY DEF TxInv, Chain
    <3>2. DOMAIN proof[p] = {"challenge", "last_hash_at", "since"}
      BY <3>1 DEF ProofOK
    <3>3. DOMAIN proof[p].challenge = {"kind", "seed", "slot"}
      BY <3>1 DEF ProofOK
    <3> QED
      BY <3>1, <3>2, <3>3 DEF ProofOK
  <2>2. DOMAIN tx = DOMAIN Idle
    BY DEF TxInv, TxShape, Idle
  <2>3. DOMAIN proof \subseteq Proofs /\ \A challenge \in DOMAIN known : known[challenge] \in 1 .. slot
    BY DEF TxInv, Chain, KnownInTime
  <2> QED
    BY <2>1, <2>2, <2>3 DEF TxInv, TxTypeOK
<1> QED
  BY <1>1, TxInvariant, PTL

(* No challenge is ever credited twice. *)
THEOREM ChallengesCountOnce == Spec => []CountedOnce
<1>1. TxInv => CountedOnce
  BY DEF TxInv, Chain, CreditsOnce, CountedOnce
<1> QED
  BY <1>1, TxInvariant, PTL

(* No hash that counts can have been computed before the slot in which the *)
(* previous one landed.                                                    *)
THEOREM NothingIsPreMined == Spec => []NoPreMining
<1>1. TxInv => NoPreMining
  BY DEF TxInv, Chain, Older, NoPreMining
<1> QED
  BY <1>1, TxInvariant, PTL

(* A transaction earns at most one hash of each kind.                      *)
THEOREM OneHashEach == Spec => []OneHashPerKind
<1>1. TxInv => OneHashPerKind
  BY DEF TxInv
<1> QED
  BY <1>1, TxInvariant, PTL
=============================================================================
