--------------------------- MODULE AccountsProofs ---------------------------
(***************************************************************************)
(* Proofs about accounts and addresses, for any wallets and assets.        *)
(*                                                                         *)
(* AccountsInv is inductive.  That accounts say what their addresses were  *)
(* derived from holds by itself; that an asset can be returned needs that  *)
(* whatever a tool account says it holds is held at its address.           *)
(*                                                                         *)
(* Then the accounts implement the custody of tools, and what the client's *)
(* builders pass reaches the proof and the tool that it names: the loaders *)
(* are taken through the accounts that a builder passes, one by one.       *)
(***************************************************************************)
EXTENDS Accounts, TLAPS

(* What a tool account points to is held at the account's address. *)
HeldAtItsTool ==
  \A key \in DOMAIN account : key[1] = "tool" =>
    /\ account[key].asset \in Assets /\ account[key].miner \in Miners
    /\ holder[account[key].asset] = key

(* The addresses at which accounts are opened. *)
ProofAddresses == {Proof(r, a) : r \in Resources, a \in Authorities}
ToolAddresses == {Tool(r, a) : r \in Resources, a \in Authorities}
ReprocessorAddresses == {Reprocessor(a) : a \in Authorities}
ChromiumAddresses == {Mint("chromium"), Metadata("chromium"), TreasuryTokens("chromium")}

AccountsInv ==
  /\ DOMAIN account \subseteq
       ProofAddresses \cup ToolAddresses \cup ReprocessorAddresses \cup ChromiumAddresses
  /\ account = [key \in DOMAIN account |-> account[key]]
  /\ DOMAIN holder = Assets
  /\ AccountsAtTheirSeeds
  /\ HeldAtItsTool

(* Addresses with different seeds differ. *)
LEMMA Addresses ==
  ASSUME NEW r, NEW a, NEW q, NEW b
  PROVE  /\ Proof(r, a) = Proof(q, b) <=> r = q /\ a = b
         /\ Tool(r, a) = Tool(q, b) <=> r = q /\ a = b
         /\ Proof(r, a) # Tool(q, b) /\ Tool(r, a) # Wallet(b)
         /\ Proof(r, a)[1] = "proof" /\ Proof(r, a)[2] = r /\ Proof(r, a)[3] = a
         /\ Tool(r, a)[1] = "tool" /\ Tool(r, a)[2] = r /\ Tool(r, a)[3] = a
         /\ Wallet(a)[1] = "wallet" /\ Wallet(a)[3] = a
         /\ Reprocessor(a)[1] = "reprocessor" /\ Reprocessor(a)[3] = a
  BY DEF Proof, Tool, Wallet, Reprocessor

(* One account is opened with the contents c. *)
Opens(new, c) == Created([key \in {new} |-> c])

(* What opening an account changes. *)
LEMMA CreatedFacts ==
  ASSUME NEW new, NEW contents, Opens(new, contents)
  PROVE  /\ DOMAIN account' = DOMAIN account \cup {new}
         /\ account'[new] = contents
         /\ \A k \in DOMAIN account : k # new => account'[k] = account[k]
         /\ account' = [k \in DOMAIN account' |-> account'[k]]
<1>1. account' = [key \in {new} \cup DOMAIN account |->
                    IF key \in {new} THEN contents ELSE account[key]]
  BY DEF Opens, Created
<1>2. DOMAIN account' = DOMAIN account \cup {new}
  BY <1>1
<1>3. account'[new] = contents
  BY <1>1
<1>4. \A k \in DOMAIN account : k # new => account'[k] = account[k]
  BY <1>1
<1>5. account' = [k \in DOMAIN account' |-> account'[k]]
  BY <1>1
<1> QED
  BY <1>2, <1>3, <1>4, <1>5

(* What closing an account changes. *)
LEMMA ClosedFacts ==
  ASSUME NEW key, Closed(key)
  PROVE  /\ DOMAIN account' = DOMAIN account \ {key}
         /\ \A k \in DOMAIN account' : account'[k] = account[k]
         /\ account' = [k \in DOMAIN account' |-> account'[k]]
  BY DEF Closed, Restrict

(* What is found at the address of a proof, a tool or a reprocessor. *)
LEMMA TypeFacts ==
  ASSUME AccountsAtTheirSeeds, NEW r \in Resources, NEW a
  PROVE  /\ TypeAt(Proof(r, a)) = IF Proof(r, a) \in DOMAIN account THEN ProofType(r) ELSE "Empty"
         /\ TypeAt(Tool(r, a)) = IF Tool(r, a) \in DOMAIN account THEN ToolType(r) ELSE "Empty"
         /\ TypeAt(Reprocessor(a)) =
              IF Reprocessor(a) \in DOMAIN account THEN "Reprocessor" ELSE "Empty"
<1>1. TypeAt(Proof(r, a)) = IF Proof(r, a) \in DOMAIN account THEN ProofType(r) ELSE "Empty"
  <2>1. CASE Proof(r, a) \in DOMAIN account
    BY <2>1, Addresses DEF TypeAt, AccountsAtTheirSeeds
  <2>2. CASE Proof(r, a) \notin DOMAIN account
    BY <2>2 DEF TypeAt, Proof
  <2> QED
    BY <2>1, <2>2
<1>2. TypeAt(Tool(r, a)) = IF Tool(r, a) \in DOMAIN account THEN ToolType(r) ELSE "Empty"
  <2>1. CASE Tool(r, a) \in DOMAIN account
    BY <2>1, Addresses DEF TypeAt, AccountsAtTheirSeeds
  <2>2. CASE Tool(r, a) \notin DOMAIN account
    BY <2>2 DEF TypeAt, Tool
  <2> QED
    BY <2>1, <2>2
<1>3. TypeAt(Reprocessor(a)) =
        IF Reprocessor(a) \in DOMAIN account THEN "Reprocessor" ELSE "Empty"
  <2>1. CASE Reprocessor(a) \in DOMAIN account
    BY <2>1, Addresses DEF TypeAt, AccountsAtTheirSeeds
  <2>2. CASE Reprocessor(a) \notin DOMAIN account
    BY <2>2 DEF TypeAt, Reprocessor
  <2> QED
    BY <2>1, <2>2
<1> QED
  BY <1>1, <1>2, <1>3

-----------------------------------------------------------------------------
(* What each instruction does, composed as its builder composes it.        *)

(* OpenCoal and OpenWood make a proof out to the authority and the miner. *)
LEMMA OpenDoes ==
  ASSUME NEW r, NEW a, NEW m, NEW payer,
         Open(r, BuildOpen(r, a, m, payer).accounts)
  PROVE  /\ Opens(Proof(r, a), [type |-> ProofType(r), authority |-> a, miner |-> m])
         /\ holder' = holder
<1> DEFINE s == BuildOpen(r, a, m, payer).accounts
<1>1. s[1].key = Wallet(a) /\ s[2].key = Wallet(m) /\ s[4].key = Proof(r, a)
  BY DEF BuildOpen, S, R, W
<1> HIDE DEF s
<1>2. Person(s[1]) = a /\ Person(s[2]) = m
  BY <1>1 DEF Person, Wallet
<1>3. NewProof(r, s) = [type |-> ProofType(r), authority |-> a, miner |-> m]
  BY <1>2 DEF NewProof
<1>4. Created([key \in {s[4].key} |-> NewProof(r, s)]) /\ holder' = holder
  BY DEF Open, s
<1> QED
  BY <1>1, <1>3, <1>4 DEF Opens

(* Close closes the proof of the authority. *)
LEMMA CloseDoes ==
  ASSUME NEW r, NEW a, Close(r, BuildClose(r, a).accounts)
  PROVE  Closed(Proof(r, a)) /\ holder' = holder
  BY DEF Close, BuildClose, W

(* InitReprocess opens the reprocessor of the signer. *)
LEMMA InitReprocessDoes ==
  ASSUME NEW a, InitReprocess(BuildInitReprocess(a).accounts)
  PROVE  /\ Opens(Reprocessor(a), [type |-> "Reprocessor", authority |-> a])
         /\ holder' = holder
  BY DEF Opens, InitReprocess, BuildInitReprocess, S, W, Person, Wallet

(* FinalizeReprocess closes it. *)
LEMMA FinalizeReprocessDoes ==
  ASSUME NEW a, FinalizeReprocess(BuildReprocess(a).accounts)
  PROVE  Closed(Reprocessor(a)) /\ holder' = holder
  BY DEF FinalizeReprocess, BuildReprocess, W

(* Equip opens the tool account of the asset's resource, whatever resource *)
(* the caller chose, and moves the asset there.                            *)
LEMMA EquipDoes ==
  ASSUME AccountsAtTheirSeeds,
         NEW r \in Resources, NEW a, NEW m, NEW payer, NEW x \in Assets,
         Equip(BuildEquip(r, a, m, payer, x).accounts)
  PROVE  /\ r = ResourceOf[x]
         /\ Tool(r, a) \notin DOMAIN account
         /\ holder[x] = Wallet(a)
         /\ Opens(Tool(r, a), [type |-> ToolType(r), authority |-> a, miner |-> m, asset |-> x])
         /\ holder' = [holder EXCEPT ![x] = Tool(r, a)]
<1> DEFINE s == BuildEquip(r, a, m, payer, x).accounts
<1>1. s[1].key = Wallet(a) /\ s[2].key = Wallet(m) /\ s[4].key = AssetAt(x)
  BY DEF BuildEquip, S, R, W
<1>2. s[6].key = Tool(r, a)
  BY DEF BuildEquip, W
<1> HIDE DEF s
<1>3. Person(s[1]) = a /\ Person(s[2]) = m /\ Person(s[4]) = x
  BY <1>1 DEF Person, Wallet, AssetAt
<1>4. EquippedResource(s) = ResourceOf[x]
  BY <1>3 DEF EquippedResource
<1>5. EquipLoads(s)
  BY DEF Equip, s
<1>6. s[6].key = Tool(ResourceOf[x], a) /\ TypeAt(s[6].key) = "Empty"
  BY <1>3, <1>4, <1>5
     DEF EquipLoads, LoadUninitializedPda, LoadSystemAccount, LoadTyped
<1>7. r = ResourceOf[x]
  BY <1>2, <1>6 DEF Tool
<1>8. Tool(r, a) \notin DOMAIN account
  BY <1>2, <1>6, TypeFacts DEF ToolType
<1>9. holder[x] = Wallet(a)
  BY <1>1, <1>3, <1>5 DEF EquipLoads
<1>10. /\ Created([key \in {s[6].key} |->
                     [type |-> ToolType(EquippedResource(s)), authority |-> Person(s[1]),
                      miner |-> Person(s[2]), asset |-> Person(s[4])]])
       /\ holder' = [holder EXCEPT ![Person(s[4])] = s[6].key]
  BY DEF Equip, s
<1>11. Opens(Tool(r, a), [type |-> ToolType(r), authority |-> a, miner |-> m, asset |-> x])
  BY <1>2, <1>3, <1>4, <1>7, <1>10 DEF Opens
<1> QED
  BY <1>2, <1>3, <1>7, <1>8, <1>9, <1>10, <1>11

(* Unequip closes the tool account that says it holds the asset, and moves *)
(* the asset to the wallet of the signer.                                  *)
LEMMA UnequipDoes ==
  ASSUME AccountsAtTheirSeeds,
         NEW r \in Resources, NEW a, NEW m, NEW payer, NEW x \in Assets,
         Unequip(BuildUnequip(r, a, m, payer, x).accounts)
  PROVE  /\ r = ResourceOf[x]
         /\ Tool(r, a) \in DOMAIN account
         /\ account[Tool(r, a)].asset = x /\ account[Tool(r, a)].miner = m
         /\ holder[x] = Tool(r, a)
         /\ Closed(Tool(r, a))
         /\ holder' = [holder EXCEPT ![x] = Wallet(a)]
<1> DEFINE s == BuildUnequip(r, a, m, payer, x).accounts
<1>1. s[1].key = Wallet(a) /\ s[2].key = Wallet(m) /\ s[4].key = AssetAt(x)
  BY DEF BuildUnequip, S, R, W
<1>2. s[6].key = Tool(r, a)
  BY DEF BuildUnequip, W
<1> HIDE DEF s
<1>3. Person(s[1]) = a /\ Person(s[2]) = m /\ Person(s[4]) = x
  BY <1>1 DEF Person, Wallet, AssetAt
<1>4. UnequipLoads(s)
  BY DEF Unequip, s
<1>5. s[6].key = Tool(ResourceOf[x], a) /\ holder[x] = Tool(r, a)
  BY <1>2, <1>3, <1>4 DEF UnequipLoads
<1>6. r = ResourceOf[x]
  BY <1>2, <1>5 DEF Tool
<1>7. PICK q \in Resources : LoadTool(s[6], q, m, TRUE)
  BY <1>3, <1>4 DEF UnequipLoads, LoadAnyToolWithAsset
<1>8. TypeAt(Tool(r, a)) = ToolType(q) /\ account[Tool(r, a)].miner = m
  BY <1>2, <1>7 DEF LoadTool, LoadTyped
<1>9. Tool(r, a) \in DOMAIN account
  BY <1>8, TypeFacts DEF ToolType
<1>10. account[Tool(r, a)].asset = x
  BY <1>2, <1>3, <1>4 DEF UnequipLoads, LoadAnyToolWithAsset
<1>11. Closed(s[6].key) /\ holder' = [holder EXCEPT ![Person(s[4])] = s[1].key]
  BY DEF Unequip, s
<1> QED
  BY <1>1, <1>2, <1>3, <1>5, <1>6, <1>8, <1>9, <1>10, <1>11

(* InitChromium opens the mint of chromium and what belongs to it. *)
LEMMA InitChromiumDoes ==
  ASSUME NEW p, InitChromium(BuildInitChromium(p).accounts)
  PROVE  /\ DOMAIN account' = DOMAIN account \cup ChromiumAddresses
         /\ \A k \in DOMAIN account : k \notin ChromiumAddresses => account'[k] = account[k]
         /\ account' = [k \in DOMAIN account' |-> account'[k]]
         /\ holder' = holder
<1> DEFINE s == BuildInitChromium(p).accounts
           contents == [key \in {s[2].key, s[3].key, s[5].key} |->
                [type |-> CASE key = s[2].key -> "Mint" [] key = s[3].key -> "Metadata"
                            [] OTHER -> "TokenAccount"]]
<1>1. {s[2].key, s[3].key, s[5].key} = ChromiumAddresses
  BY DEF BuildInitChromium, W, ChromiumAddresses
<1>2. Created(contents) /\ holder' = holder
  BY DEF InitChromium
<1>3. DOMAIN contents = ChromiumAddresses
  BY <1>1
<1> HIDE DEF contents
<1>4. account' = [key \in DOMAIN contents \cup DOMAIN account |->
                    IF key \in DOMAIN contents THEN contents[key] ELSE account[key]]
  BY <1>2 DEF Created
<1>5. DOMAIN account' = DOMAIN account \cup ChromiumAddresses
  BY <1>3, <1>4
<1>6. \A k \in DOMAIN account : k \notin ChromiumAddresses => account'[k] = account[k]
  BY <1>3, <1>4
<1>7. account' = [k \in DOMAIN account' |-> account'[k]]
  BY <1>4
<1> QED
  BY <1>2, <1>5, <1>6, <1>7

-----------------------------------------------------------------------------
(* What an account with the contents c says of the address it is at. *)
SaysItsSeeds(key, c) ==
  /\ key[1] = "proof" => c.type = ProofType(key[2]) /\ c.miner \in Miners
  /\ key[1] = "tool" => c.type = ToolType(key[2]) /\ ResourceOf[c.asset] = key[2]
  /\ key[1] = "reprocessor" => c.type = "Reprocessor"
  /\ key[1] \in {"proof", "tool", "reprocessor"} => c.authority = key[3]

(* Opening an account that says its seeds leaves all saying theirs. *)
LEMMA CreatedKeepsSeeds ==
  ASSUME AccountsAtTheirSeeds, NEW new, NEW contents, SaysItsSeeds(new, contents),
         Opens(new, contents)
  PROVE  AccountsAtTheirSeeds'
<1>1. \A key \in DOMAIN account : SaysItsSeeds(key, account[key])
  BY DEF AccountsAtTheirSeeds, SaysItsSeeds
<1>2. /\ DOMAIN account' = DOMAIN account \cup {new}
      /\ account'[new] = contents
      /\ \A k \in DOMAIN account : k # new => account'[k] = account[k]
  BY CreatedFacts
<1>3. \A key \in DOMAIN account' : SaysItsSeeds(key, account'[key])
  BY <1>1, <1>2
<1> QED
  BY <1>3 DEF AccountsAtTheirSeeds, SaysItsSeeds

(* Closing accounts leaves the others saying what they said. *)
LEMMA FewerKeepSeeds ==
  ASSUME AccountsAtTheirSeeds,
         \A key \in DOMAIN account' :
           \/ key \in DOMAIN account /\ account'[key] = account[key]
           \/ key \in ChromiumAddresses
  PROVE  AccountsAtTheirSeeds'
<1>1. \A key \in DOMAIN account : SaysItsSeeds(key, account[key])
  BY DEF AccountsAtTheirSeeds, SaysItsSeeds
<1>2. \A key \in ChromiumAddresses : key[1] \notin {"proof", "tool", "reprocessor"}
  BY DEF ChromiumAddresses, Mint, Metadata, TreasuryTokens, Tokens
<1>3. \A key \in DOMAIN account' : SaysItsSeeds(key, account'[key])
  BY <1>1, <1>2 DEF SaysItsSeeds
<1> QED
  BY <1>3 DEF AccountsAtTheirSeeds, SaysItsSeeds

(* Assets are held where they were as long as no tool account is touched. *)
LEMMA OthersKeepHolding ==
  ASSUME HeldAtItsTool, holder' = holder,
         \A key \in DOMAIN account' :
           key[1] = "tool" => key \in DOMAIN account /\ account'[key] = account[key]
  PROVE  HeldAtItsTool'
  BY DEF HeldAtItsTool

(* OpenCoal and OpenWood keep the invariant. *)
LEMMA OpenKeepsInv ==
  ASSUME AccountsInv, NEW r \in Resources, NEW a \in Authorities, NEW m \in Miners, NEW payer,
         Open(r, BuildOpen(r, a, m, payer).accounts)
  PROVE  AccountsInv'
<1> DEFINE new == Proof(r, a)
           contents == [type |-> ProofType(r), authority |-> a, miner |-> m]
<1>1. new[1] = "proof" /\ new[2] = r /\ new[3] = a /\ new \in ProofAddresses
  BY DEF Proof, ProofAddresses
<1>2. SaysItsSeeds(new, contents)
  BY <1>1 DEF SaysItsSeeds
<1>3. Opens(new, contents) /\ holder' = holder
  BY OpenDoes
<1> HIDE DEF new, contents
<1>4. AccountsAtTheirSeeds'
  BY <1>2, <1>3, CreatedKeepsSeeds DEF AccountsInv
<1>5. /\ DOMAIN account' = DOMAIN account \cup {new}
      /\ \A k \in DOMAIN account : k # new => account'[k] = account[k]
      /\ account' = [k \in DOMAIN account' |-> account'[k]]
  BY <1>3, CreatedFacts
<1>6. HeldAtItsTool'
  BY <1>1, <1>3, <1>5, OthersKeepHolding DEF AccountsInv
<1> QED
  BY <1>1, <1>3, <1>4, <1>5, <1>6 DEF AccountsInv

(* InitReprocess keeps the invariant. *)
LEMMA InitReprocessKeepsInv ==
  ASSUME AccountsInv, NEW a \in Authorities, InitReprocess(BuildInitReprocess(a).accounts)
  PROVE  AccountsInv'
<1> DEFINE new == Reprocessor(a)
           contents == [type |-> "Reprocessor", authority |-> a]
<1>1. new[1] = "reprocessor" /\ new[3] = a /\ new \in ReprocessorAddresses
  BY DEF Reprocessor, ReprocessorAddresses
<1>2. SaysItsSeeds(new, contents)
  BY <1>1 DEF SaysItsSeeds
<1>3. Opens(new, contents) /\ holder' = holder
  BY InitReprocessDoes
<1> HIDE DEF new, contents
<1>4. AccountsAtTheirSeeds'
  BY <1>2, <1>3, CreatedKeepsSeeds DEF AccountsInv
<1>5. /\ DOMAIN account' = DOMAIN account \cup {new}
      /\ \A k \in DOMAIN account : k # new => account'[k] = account[k]
      /\ account' = [k \in DOMAIN account' |-> account'[k]]
  BY <1>3, CreatedFacts
<1>6. HeldAtItsTool'
  BY <1>1, <1>3, <1>5, OthersKeepHolding DEF AccountsInv
<1> QED
  BY <1>1, <1>3, <1>4, <1>5, <1>6 DEF AccountsInv

(* Close and FinalizeReprocess, which close one account that holds no      *)
(* asset, keep the invariant.                                              *)
LEMMA ClosingKeepsInv ==
  ASSUME AccountsInv, NEW old, Closed(old), holder' = holder
  PROVE  AccountsInv'
<1>1. AccountsAtTheirSeeds'
  BY ClosedFacts, FewerKeepSeeds DEF AccountsInv
<1>2. HeldAtItsTool'
  BY ClosedFacts, OthersKeepHolding DEF AccountsInv
<1> QED
  BY <1>1, <1>2, ClosedFacts DEF AccountsInv

(* InitChromium keeps the invariant. *)
LEMMA InitChromiumKeepsInv ==
  ASSUME AccountsInv, NEW p, InitChromium(BuildInitChromium(p).accounts)
  PROVE  AccountsInv'
<1>1. /\ DOMAIN account' = DOMAIN account \cup ChromiumAddresses
      /\ \A k \in DOMAIN account : k \notin ChromiumAddresses => account'[k] = account[k]
      /\ account' = [k \in DOMAIN account' |-> account'[k]]
      /\ holder' = holder
  BY InitChromiumDoes
<1>2. AccountsAtTheirSeeds'
  BY <1>1, FewerKeepSeeds DEF AccountsInv
<1>3. \A key \in ChromiumAddresses : key[1] # "tool"
  BY DEF ChromiumAddresses, Mint, Metadata, TreasuryTokens, Tokens
<1>4. HeldAtItsTool'
  BY <1>1, <1>3, OthersKeepHolding DEF AccountsInv
<1> QED
  BY <1>1, <1>2, <1>4 DEF AccountsInv

(* Equip keeps the invariant: an asset from a wallet is in no tool account. *)
LEMMA EquipKeepsInv ==
  ASSUME AccountsInv, NEW r \in Resources, NEW a \in Authorities, NEW m \in Miners, NEW payer,
         NEW x \in Assets, Equip(BuildEquip(r, a, m, payer, x).accounts)
  PROVE  AccountsInv'
<1>0. AccountsAtTheirSeeds
  BY DEF AccountsInv
<1>1. /\ r = ResourceOf[x]
      /\ holder[x] = Wallet(a)
      /\ Opens(Tool(r, a), [type |-> ToolType(r), authority |-> a, miner |-> m, asset |-> x])
      /\ holder' = [holder EXCEPT ![x] = Tool(r, a)]
  BY ONLY <1>0, EquipDoes, r \in Resources, x \in Assets,
     Equip(BuildEquip(r, a, m, payer, x).accounts)
<1> DEFINE new == Tool(r, a)
           contents == [type |-> ToolType(r), authority |-> a, miner |-> m, asset |-> x]
<1>2. /\ new[1] = "tool" /\ new[2] = r /\ new[3] = a /\ new \in ToolAddresses
      /\ Opens(new, contents)
      /\ holder' = [holder EXCEPT ![x] = new]
  BY <1>1 DEF Tool, ToolAddresses
<1>3. SaysItsSeeds(new, contents)
  BY <1>1, <1>2 DEF SaysItsSeeds
<1>4. contents.asset = x /\ contents.miner = m
  OBVIOUS
<1> HIDE DEF new, contents
<1>5. AccountsAtTheirSeeds'
  BY <1>0, <1>2, <1>3, CreatedKeepsSeeds
<1>6. /\ DOMAIN account' = DOMAIN account \cup {new}
      /\ account'[new] = contents
      /\ \A k \in DOMAIN account : k # new => account'[k] = account[k]
      /\ account' = [k \in DOMAIN account' |-> account'[k]]
  BY <1>2, CreatedFacts
<1>7. HeldAtItsTool'
  <2> SUFFICES ASSUME NEW key \in DOMAIN account', key[1] = "tool"
               PROVE  /\ account'[key].asset \in Assets /\ account'[key].miner \in Miners
                      /\ holder'[account'[key].asset] = key
    BY DEF HeldAtItsTool
  <2>1. CASE key = new
    BY <1>2, <1>4, <1>6, <2>1 DEF AccountsInv
  <2>2. CASE key # new
    <3> DEFINE y == account[key].asset
    <3>1. key \in DOMAIN account /\ account'[key] = account[key]
      BY <1>6, <2>2
    <3>2. y \in Assets /\ account[key].miner \in Miners /\ holder[y] = key
      BY <3>1 DEF AccountsInv, HeldAtItsTool
    <3>3. y # x
      BY <1>1, <3>2 DEF Wallet
    <3>4. holder'[y] = key
      BY <1>2, <3>2, <3>3 DEF AccountsInv
    <3> QED
      BY <3>1, <3>2, <3>4
  <2> QED
    BY <2>1, <2>2
<1>8. DOMAIN holder' = Assets
  BY <1>2 DEF AccountsInv
<1> QED
  BY <1>2, <1>5, <1>6, <1>7, <1>8 DEF AccountsInv

(* Unequip keeps the invariant: no two tool accounts say they hold an asset. *)
LEMMA UnequipKeepsInv ==
  ASSUME AccountsInv, NEW r \in Resources, NEW a \in Authorities, NEW m \in Miners, NEW payer,
         NEW x \in Assets, Unequip(BuildUnequip(r, a, m, payer, x).accounts)
  PROVE  AccountsInv'
<1> DEFINE old == Tool(r, a)
<1>1. holder[x] = old /\ Closed(old) /\ holder' = [holder EXCEPT ![x] = Wallet(a)]
  BY UnequipDoes DEF AccountsInv
<1> HIDE DEF old
<1>2. /\ DOMAIN account' = DOMAIN account \ {old}
      /\ \A k \in DOMAIN account' : account'[k] = account[k]
      /\ account' = [k \in DOMAIN account' |-> account'[k]]
  BY <1>1, ClosedFacts
<1>3. AccountsAtTheirSeeds'
  BY <1>2, FewerKeepSeeds DEF AccountsInv
<1>4. HeldAtItsTool'
  <2> SUFFICES ASSUME NEW key \in DOMAIN account', key[1] = "tool"
               PROVE  /\ account'[key].asset \in Assets /\ account'[key].miner \in Miners
                      /\ holder'[account'[key].asset] = key
    BY DEF HeldAtItsTool
  <2> DEFINE y == account[key].asset
  <2>1. key \in DOMAIN account /\ key # old /\ account'[key] = account[key]
    BY <1>2
  <2>2. y \in Assets /\ account[key].miner \in Miners /\ holder[y] = key
    BY <2>1 DEF AccountsInv, HeldAtItsTool
  <2>3. holder'[y] = key
    BY <1>1, <2>1, <2>2 DEF AccountsInv
  <2> QED
    BY <2>1, <2>2, <2>3
<1>5. DOMAIN holder' = Assets
  BY <1>1 DEF AccountsInv
<1> QED
  BY <1>2, <1>3, <1>4, <1>5 DEF AccountsInv

(* Trade keeps the invariant: only assets in wallets are traded. *)
LEMMA TradeKeepsInv ==
  ASSUME AccountsInv, NEW x \in Assets, NEW a \in Authorities, Trade(x, a)
  PROVE  AccountsInv'
<1>1. holder[x][1] = "wallet" /\ holder' = [holder EXCEPT ![x] = Wallet(a)] /\ account' = account
  BY DEF Trade
<1>2. HeldAtItsTool'
  <2> SUFFICES ASSUME NEW key \in DOMAIN account, key[1] = "tool"
               PROVE  /\ account[key].asset \in Assets /\ account[key].miner \in Miners
                      /\ holder'[account[key].asset] = key
    BY <1>1 DEF HeldAtItsTool
  <2>1. /\ account[key].asset \in Assets /\ account[key].miner \in Miners
        /\ holder[account[key].asset] = key
    BY DEF AccountsInv, HeldAtItsTool
  <2> QED
    BY <1>1, <2>1 DEF AccountsInv
<1>3. AccountsAtTheirSeeds'
  BY <1>1 DEF AccountsInv, AccountsAtTheirSeeds
<1> QED
  BY <1>1, <1>2, <1>3 DEF AccountsInv

(* Nothing is open at deployment. *)
LEMMA AccountsInitInv == Init => AccountsInv
  BY DEF Init, AccountsInv, AccountsAtTheirSeeds, HeldAtItsTool

(* Every step of accounts opened, closed and moved keeps the invariant. *)
LEMMA AccountsStep == AccountsInv /\ [Next]_vars => AccountsInv'
<1> SUFFICES ASSUME AccountsInv, [Next]_vars
             PROVE  AccountsInv'
  OBVIOUS
<1>1. CASE \E r \in Resources, a, payer \in Authorities, m \in Miners :
             Open(r, BuildOpen(r, a, m, payer).accounts)
  BY <1>1, OpenKeepsInv
<1>2. CASE \E r \in Resources, a \in Authorities : Close(r, BuildClose(r, a).accounts)
  BY <1>2, CloseDoes, ClosingKeepsInv
<1>3. CASE \E r \in Resources, a, payer \in Authorities, m \in Miners, x \in Assets :
             \/ Equip(BuildEquip(r, a, m, payer, x).accounts)
             \/ Unequip(BuildUnequip(r, a, m, payer, x).accounts)
  BY <1>3, EquipKeepsInv, UnequipKeepsInv
<1>4. CASE \E p \in Authorities \cup {INITIALIZER} : InitChromium(BuildInitChromium(p).accounts)
  BY <1>4, InitChromiumKeepsInv
<1>5. CASE \E a \in Authorities : InitReprocess(BuildInitReprocess(a).accounts)
  BY <1>5, InitReprocessKeepsInv
<1>6. CASE \E a \in Authorities : FinalizeReprocess(BuildReprocess(a).accounts)
  BY <1>6, FinalizeReprocessDoes, ClosingKeepsInv
<1>7. CASE \E x \in Assets, a \in Authorities : Trade(x, a)
  BY <1>7, TradeKeepsInv
<1>8. CASE UNCHANGED vars
  BY <1>8 DEF vars, AccountsInv, AccountsAtTheirSeeds, HeldAtItsTool
<1> QED
  BY <1>1, <1>2, <1>3, <1>4, <1>5, <1>6, <1>7, <1>8 DEF Next

(* Accounts are at the addresses derived from what they say, and assets at *)
(* the tool accounts that say they hold them, whatever instructions come.  *)
THEOREM AccountsInvariant == AccountsSpec => []AccountsInv
  BY AccountsInitInv, AccountsStep, PTL DEF AccountsSpec

(* An account says what its address was derived from, and what it says is  *)
(* all that the loaders look at.                                           *)
THEOREM AccountsSayTheirSeeds == AccountsSpec => []AccountsAtTheirSeeds
<1>1. AccountsInv => AccountsAtTheirSeeds
  BY DEF AccountsInv
<1> QED
  BY <1>1, AccountsInvariant, PTL

-----------------------------------------------------------------------------
(* Only Unequip has its tag. *)
LEMMA UnequipAccepted ==
  ASSUME NEW s, UnequipLoads(s)
  PROVE  Accepted([tag |-> "Unequip", accounts |-> s])
<1> DEFINE i == [tag |-> "Unequip", accounts |-> s]
<1>1. i.tag = "Unequip" /\ i.accounts = s
  OBVIOUS
<1> HIDE DEF i
<1>2. i.tag \notin DOMAIN DispatchAccount
  BY <1>1 DEF DispatchAccount
<1>3. Accepted(i)
  BY <1>1, <1>2 DEF Accepted
<1> QED
  BY <1>3 DEF i

(* An asset that is held at the tool account which says so, at the seeds   *)
(* of its resource, passes every check of Unequip.                         *)
LEMMA InvReturnsAssets == AccountsInv => AssetsCanBeReturned
<1> SUFFICES ASSUME AccountsInv, NEW r \in Resources, NEW a \in Authorities,
                    Tool(r, a) \in DOMAIN account
             PROVE  Accepted(BuildUnequip(r, a, account[Tool(r, a)].miner, a,
                                          account[Tool(r, a)].asset))
  BY DEF AssetsCanBeReturned, IsOpen
<1> DEFINE m == account[Tool(r, a)].miner
           x == account[Tool(r, a)].asset
           s == BuildUnequip(r, a, m, a, x).accounts
<1>1. x \in Assets /\ holder[x] = Tool(r, a)
  BY DEF AccountsInv, HeldAtItsTool, Tool
<1>2. ResourceOf[x] = r
  BY DEF AccountsInv, AccountsAtTheirSeeds, Tool
<1>3. TypeAt(Tool(r, a)) = ToolType(r)
  BY TypeFacts DEF AccountsInv
<1>4. /\ s[1].key = Wallet(a) /\ s[1].signer /\ s[2].key = Wallet(m) /\ s[4].key = AssetAt(x)
      /\ s[6].key = Tool(r, a) /\ s[6].writable
      /\ s[8].key = Program("core") /\ s[9].key = Program("system")
      /\ Len(s) = 9
  BY DEF BuildUnequip, S, R, W
<1> HIDE DEF s
<1>5. Person(s[1]) = a /\ Person(s[2]) = m /\ Person(s[4]) = x
  BY <1>4 DEF Person, Wallet, AssetAt
<1>6. LoadTool(s[6], r, m, TRUE)
  BY <1>3, <1>4 DEF LoadTool, LoadTyped, LoadAny
<1>7. LoadAnyToolWithAsset(s[6], m, x, TRUE)
  BY <1>4, <1>6 DEF LoadAnyToolWithAsset
<1>8. LoadProgram(s[8], "core") /\ LoadProgram(s[9], "system") /\ LoadSigner(s[1])
  BY <1>4 DEF LoadProgram, LoadAccount, LoadAny, LoadSigner
<1>9. UnequipLoads(s)
  BY <1>1, <1>2, <1>4, <1>5, <1>7, <1>8 DEF UnequipLoads
<1>10. BuildUnequip(r, a, m, a, x) = [tag |-> "Unequip", accounts |-> s]
  BY DEF BuildUnequip, s
<1> QED
  BY <1>9, <1>10, UnequipAccepted

(* Nothing that was put to work is lost: whatever instructions came before, *)
(* the authority of a tool account can take its asset back, with what the   *)
(* account itself says (unequip.rs).                                        *)
THEOREM AssetsAreReturned == AccountsSpec => []AssetsCanBeReturned
  BY InvReturnsAssets, AccountsInvariant, PTL

-----------------------------------------------------------------------------
(* The custody of module Tools, for the tools of one resource q.  Both     *)
(* instances of that module take a step of it when one of these happens.   *)
AssetsOf(q) == [x \in OfResource(q) |-> AssetIn(x)]

Equips(q, a, m, x) ==
  /\ AssetsOf(q)[x].holder = a /\ AssetsOf(q)[x].custody = "wallet"
  /\ a \notin DOMAIN ToolsOf(q)
  /\ ToolsOf(q)' = [c \in DOMAIN ToolsOf(q) \cup {a} |->
                      IF c = a THEN [miner |-> m, asset |-> x, durability |-> 0, multiplier |-> 0]
                      ELSE ToolsOf(q)[c]]
  /\ AssetsOf(q)' = [AssetsOf(q) EXCEPT ![x].custody = "tool"]

Unequips(q, a, x) ==
  /\ a \in DOMAIN ToolsOf(q) /\ ToolsOf(q)[a].asset = x
  /\ ToolsOf(q)' = [c \in DOMAIN ToolsOf(q) \ {a} |-> ToolsOf(q)[c]]
  /\ AssetsOf(q)' = [AssetsOf(q) EXCEPT ![x].durability = ToolsOf(q)[a].durability,
                                        ![x].custody = "wallet"]

Trades(q, x, c) ==
  /\ AssetsOf(q)[x].custody = "wallet"
  /\ AssetsOf(q)' = [AssetsOf(q) EXCEPT ![x].holder = c]
  /\ ToolsOf(q)' = ToolsOf(q)

Rests(q) == ToolsOf(q)' = ToolsOf(q) /\ AssetsOf(q)' = AssetsOf(q)

CustodyStep(q) ==
  \/ \E a \in Authorities, m \in Miners, x \in OfResource(q) : Equips(q, a, m, x)
  \/ \E a \in Authorities, x \in OfResource(q) : Unequips(q, a, x)
  \/ \E x \in OfResource(q), c \in Authorities : Trades(q, x, c)
  \/ Rests(q)

(* What an asset looks like depends on its holder alone. *)
LEMMA AssetsOfFacts ==
  ASSUME NEW q
  PROVE  /\ DOMAIN AssetsOf(q) = OfResource(q)
         /\ \A x \in OfResource(q) :
              AssetsOf(q)[x] = [holder |-> holder[x][3], custody |-> holder[x][1],
                                durability |-> 0, multiplier |-> 0]
  BY DEF AssetsOf, AssetIn

(* The tools of q are those of its authorities. *)
LEMMA ToolsOfFacts ==
  ASSUME NEW q
  PROVE  /\ DOMAIN ToolsOf(q) = {a \in Authorities : Tool(q, a) \in DOMAIN account}
         /\ \A a \in DOMAIN ToolsOf(q) :
              ToolsOf(q)[a] = [miner |-> account[Tool(q, a)].miner,
                               asset |-> account[Tool(q, a)].asset,
                               durability |-> 0, multiplier |-> 0]
  BY DEF ToolsOf, Owners, IsOpen

(* The tools of q do not change when no account at their addresses does. *)
LEMMA SameTools ==
  ASSUME NEW q,
         \A a \in Authorities :
           /\ Tool(q, a) \in DOMAIN account' <=> Tool(q, a) \in DOMAIN account
           /\ Tool(q, a) \in DOMAIN account => account'[Tool(q, a)] = account[Tool(q, a)]
  PROVE  ToolsOf(q)' = ToolsOf(q)
<1>1. Owners(q)' = Owners(q)
  BY DEF Owners, IsOpen
<1>2. \A a \in Owners(q) : account'[Tool(q, a)] = account[Tool(q, a)]
  BY DEF Owners, IsOpen
<1> QED
  BY <1>1, <1>2 DEF ToolsOf

(* The assets of q do not change when none of them moves. *)
LEMMA SameAssets ==
  ASSUME NEW q, \A x \in OfResource(q) : holder'[x] = holder[x]
  PROVE  AssetsOf(q)' = AssetsOf(q)
  BY DEF AssetsOf, AssetIn, OfResource

(* The instructions about proofs, reprocessors and chromium move no tool. *)
LEMMA OtherAccountsRest ==
  ASSUME NEW q, holder' = holder,
         \A key : key[1] = "tool" =>
           /\ key \in DOMAIN account' <=> key \in DOMAIN account
           /\ key \in DOMAIN account => account'[key] = account[key]
  PROVE  CustodyStep(q)
<1>1. \A a : Tool(q, a)[1] = "tool"
  BY DEF Tool
<1>2. ToolsOf(q)' = ToolsOf(q)
  BY <1>1, SameTools
<1>3. AssetsOf(q)' = AssetsOf(q)
  BY SameAssets
<1> QED
  BY <1>2, <1>3 DEF CustodyStep, Rests

(* Equip is an equip for the asset's resource and no step for the other. *)
LEMMA EquipIsCustody ==
  ASSUME AccountsInv, NEW q, NEW r \in Resources, NEW a \in Authorities, NEW m \in Miners,
         NEW payer, NEW x \in Assets, Equip(BuildEquip(r, a, m, payer, x).accounts)
  PROVE  CustodyStep(q)
<1>0. AccountsAtTheirSeeds /\ DOMAIN holder = Assets
  BY DEF AccountsInv
<1>1. /\ r = ResourceOf[x] /\ Tool(r, a) \notin DOMAIN account
      /\ holder[x] = Wallet(a)
      /\ Opens(Tool(r, a), [type |-> ToolType(r), authority |-> a, miner |-> m, asset |-> x])
      /\ holder' = [holder EXCEPT ![x] = Tool(r, a)]
  BY <1>0, EquipDoes
<1> DEFINE contents == [type |-> ToolType(r), authority |-> a, miner |-> m, asset |-> x]
<1>2. contents.miner = m /\ contents.asset = x
  OBVIOUS
<1> HIDE DEF contents
<1>3. /\ DOMAIN account' = DOMAIN account \cup {Tool(r, a)}
      /\ account'[Tool(r, a)] = contents
      /\ \A k \in DOMAIN account : k # Tool(r, a) => account'[k] = account[k]
  BY <1>1, CreatedFacts DEF contents
<1>4. CASE q = r
  <2> DEFINE T == ToolsOf(q)  A == AssetsOf(q)
  <2>1. x \in OfResource(q)
    BY <1>1, <1>4 DEF OfResource
  <2>2. A[x].holder = a /\ A[x].custody = "wallet" /\ a \notin DOMAIN T
    <3>1. A[x] = AssetIn(x)
      BY <2>1 DEF AssetsOf
    <3>2. AssetIn(x).holder = a /\ AssetIn(x).custody = "wallet"
      BY <1>1 DEF AssetIn, Wallet
    <3>3. a \notin DOMAIN T
      BY <1>1, <1>4 DEF ToolsOf, Owners, IsOpen
    <3> QED
      BY <3>1, <3>2, <3>3
  <2>3. Owners(q)' = Owners(q) \cup {a}
    BY <1>3, <1>4 DEF Owners, IsOpen, Tool
  <2>4. \A c \in Owners(q)' :
          [miner |-> account'[Tool(q, c)].miner, asset |-> account'[Tool(q, c)].asset,
           durability |-> 0, multiplier |-> 0]
          = IF c = a THEN [miner |-> m, asset |-> x, durability |-> 0, multiplier |-> 0]
            ELSE T[c]
    <3> SUFFICES ASSUME NEW c \in Owners(q)'
                 PROVE  [miner |-> account'[Tool(q, c)].miner, asset |-> account'[Tool(q, c)].asset,
                         durability |-> 0, multiplier |-> 0]
                        = IF c = a THEN [miner |-> m, asset |-> x, durability |-> 0, multiplier |-> 0]
                          ELSE T[c]
      OBVIOUS
    <3>1. CASE c = a
      BY <1>2, <1>3, <1>4, <3>1
    <3>2. CASE c # a
      <4>1. Tool(q, c) \in DOMAIN account /\ Tool(q, c) # Tool(r, a)
        BY <2>3, <3>2 DEF Owners, IsOpen, Tool
      <4>2. T[c] = [miner |-> account[Tool(q, c)].miner, asset |-> account[Tool(q, c)].asset,
                    durability |-> 0, multiplier |-> 0]
        BY <2>3, <3>2 DEF ToolsOf
      <4> QED
        BY <1>3, <3>2, <4>1, <4>2
    <3> QED
      BY <3>1, <3>2
  <2>5. T' = [c \in DOMAIN T \cup {a} |->
                IF c = a THEN [miner |-> m, asset |-> x, durability |-> 0, multiplier |-> 0]
                ELSE T[c]]
    <3>1. DOMAIN T = Owners(q)
      BY DEF ToolsOf
    <3> QED
      BY <2>3, <2>4, <3>1 DEF ToolsOf
  <2>6. A' = [A EXCEPT ![x].custody = "tool"]
    <3>1. \A y \in OfResource(q) : y \in Assets
      BY DEF OfResource
    <3>2. AssetIn(x)' = [AssetIn(x) EXCEPT !.custody = "tool"]
      BY <1>0, <1>1 DEF AssetIn, Wallet, Tool
    <3>3. \A y \in OfResource(q) : y # x => AssetIn(y)' = AssetIn(y)
      BY <1>0, <1>1, <3>1 DEF AssetIn
    <3>4. A[x] = AssetIn(x)
      BY <2>1 DEF AssetsOf
    <3> QED
      BY <2>1, <3>2, <3>3, <3>4 DEF AssetsOf
  <2>7. Equips(q, a, m, x)
    BY <2>2, <2>5, <2>6 DEF Equips
  <2> QED
    BY <2>1, <2>7 DEF CustodyStep
<1>5. CASE q # r
  <2>1. \A c : Tool(q, c) # Tool(r, a)
    BY <1>5 DEF Tool
  <2>2. ToolsOf(q)' = ToolsOf(q)
    BY <1>3, <2>1, SameTools
  <2>3. \A y \in OfResource(q) : y \in Assets /\ y # x
    BY <1>1, <1>5 DEF OfResource
  <2>4. AssetsOf(q)' = AssetsOf(q)
    BY <1>0, <1>1, <2>3, SameAssets
  <2> QED
    BY <2>2, <2>4 DEF CustodyStep, Rests
<1> QED
  BY <1>4, <1>5

(* The return of an asset, in the words of module Tools. *)
LEMMA Returned ==
  ASSUME NEW h, NEW c
  PROVE  [[holder |-> h, custody |-> c, durability |-> 0, multiplier |-> 0]
           EXCEPT !.durability = 0, !.custody = "wallet"]
         = [holder |-> h, custody |-> "wallet", durability |-> 0, multiplier |-> 0]
<1> DEFINE before == [holder |-> h, custody |-> c, durability |-> 0, multiplier |-> 0]
           after == [before EXCEPT !.durability = 0, !.custody = "wallet"]
           asset == [holder |-> h, custody |-> "wallet", durability |-> 0, multiplier |-> 0]
<1>1. /\ DOMAIN after = {"holder", "custody", "durability", "multiplier"}
      /\ after = [f \in DOMAIN after |-> after[f]]
  OBVIOUS
<1>2. after.holder = h /\ after.multiplier = 0 /\ after.durability = 0 /\ after.custody = "wallet"
  OBVIOUS
<1>3. /\ DOMAIN asset = {"holder", "custody", "durability", "multiplier"}
      /\ asset = [f \in DOMAIN asset |-> asset[f]]
  OBVIOUS
<1>4. asset.holder = h /\ asset.multiplier = 0 /\ asset.durability = 0 /\ asset.custody = "wallet"
  OBVIOUS
<1> HIDE DEF after, asset
<1>5. \A f \in DOMAIN after : after[f] = asset[f]
  BY <1>1, <1>2, <1>4
<1>6. [f \in DOMAIN after |-> after[f]] = [f \in DOMAIN asset |-> asset[f]]
  BY <1>1, <1>3, <1>5
<1>7. after = asset
  BY <1>1, <1>3, <1>6, Zenon
<1> QED
  BY <1>7 DEF after, asset

(* Unequip is an unequip for the asset's resource and no step for the other. *)
LEMMA UnequipIsCustody ==
  ASSUME AccountsInv, NEW q, NEW r \in Resources, NEW a \in Authorities, NEW m \in Miners,
         NEW payer, NEW x \in Assets, Unequip(BuildUnequip(r, a, m, payer, x).accounts)
  PROVE  CustodyStep(q)
<1>0. AccountsAtTheirSeeds /\ DOMAIN holder = Assets
  BY DEF AccountsInv
<1>1. /\ r = ResourceOf[x] /\ Tool(r, a) \in DOMAIN account
      /\ account[Tool(r, a)].asset = x /\ holder[x] = Tool(r, a)
      /\ Closed(Tool(r, a))
      /\ holder' = [holder EXCEPT ![x] = Wallet(a)]
  BY <1>0, UnequipDoes
<1>2. /\ DOMAIN account' = DOMAIN account \ {Tool(r, a)}
      /\ \A k \in DOMAIN account' : account'[k] = account[k]
  BY <1>1, ClosedFacts
<1>3. CASE q = r
  <2> DEFINE T == ToolsOf(q)  A == AssetsOf(q)
  <2>1. x \in OfResource(q)
    BY <1>1, <1>3 DEF OfResource
  <2>2. a \in DOMAIN T /\ T[a].asset = x /\ T[a].durability = 0
    BY <1>1, <1>3 DEF ToolsOf, Owners, IsOpen
  <2>3. Owners(q)' = Owners(q) \ {a}
    BY <1>2, <1>3 DEF Owners, IsOpen, Tool
  <2>4. \A c \in Owners(q)' :
          account'[Tool(q, c)] = account[Tool(q, c)] /\ c \in Owners(q)
    BY <1>2, <2>3 DEF Owners, IsOpen
  <2>5. T' = [c \in DOMAIN T \ {a} |-> T[c]]
    <3>1. DOMAIN T = Owners(q)
      BY DEF ToolsOf
    <3> QED
      BY <2>3, <2>4, <3>1 DEF ToolsOf
  <2>6. A' = [A EXCEPT ![x].durability = T[a].durability, ![x].custody = "wallet"]
    <3>1. \A y \in OfResource(q) : y \in Assets
      BY DEF OfResource
    <3>2. AssetIn(x)' = [AssetIn(x) EXCEPT !.durability = 0, !.custody = "wallet"]
      <4>1. holder'[x] = Wallet(a)
        BY <1>0, <1>1
      <4>2. holder'[x][1] = "wallet" /\ holder'[x][3] = a
        BY <4>1 DEF Wallet
      <4>3. holder[x][3] = a
        BY <1>1 DEF Tool
      <4>4. AssetIn(x) = [holder |-> a, custody |-> holder[x][1], durability |-> 0, multiplier |-> 0]
        BY <4>3 DEF AssetIn
      <4>5. AssetIn(x)' = [holder |-> a, custody |-> "wallet", durability |-> 0, multiplier |-> 0]
        BY <4>2 DEF AssetIn
      <4>6. [AssetIn(x) EXCEPT !.durability = 0, !.custody = "wallet"]
            = [holder |-> a, custody |-> "wallet", durability |-> 0, multiplier |-> 0]
        BY <4>4, Returned
      <4> QED
        BY <4>5, <4>6
    <3>3. \A y \in OfResource(q) : y # x => AssetIn(y)' = AssetIn(y)
      BY <1>0, <1>1, <3>1 DEF AssetIn
    <3>4. A[x] = AssetIn(x)
      BY <2>1 DEF AssetsOf
    <3> QED
      BY <2>1, <2>2, <3>2, <3>3, <3>4 DEF AssetsOf
  <2>7. Unequips(q, a, x)
    BY <2>2, <2>5, <2>6 DEF Unequips
  <2>8. a \in Authorities
    OBVIOUS
  <2> QED
    BY <2>1, <2>7, <2>8 DEF CustodyStep
<1>4. CASE q # r
  <2>1. \A c : Tool(q, c) # Tool(r, a)
    BY <1>4 DEF Tool
  <2>2. ToolsOf(q)' = ToolsOf(q)
    BY <1>2, <2>1, SameTools
  <2>3. \A y \in OfResource(q) : y \in Assets /\ y # x
    BY <1>1, <1>4 DEF OfResource
  <2>4. AssetsOf(q)' = AssetsOf(q)
    BY <1>0, <1>1, <2>3, SameAssets
  <2> QED
    BY <2>2, <2>4 DEF CustodyStep, Rests
<1> QED
  BY <1>3, <1>4

(* Trade is a trade for the asset's resource and no step for the other. *)
LEMMA TradeIsCustody ==
  ASSUME AccountsInv, NEW q, NEW x \in Assets, NEW a \in Authorities, Trade(x, a)
  PROVE  CustodyStep(q)
<1>1. /\ holder[x][1] = "wallet" /\ holder' = [holder EXCEPT ![x] = Wallet(a)]
      /\ account' = account /\ DOMAIN holder = Assets
  BY DEF Trade, AccountsInv
<1>2. ToolsOf(q)' = ToolsOf(q)
  BY <1>1, SameTools
<1>3. CASE x \in OfResource(q)
  <2> DEFINE A == AssetsOf(q)
  <2>1. A[x] = AssetIn(x) /\ AssetIn(x).custody = "wallet"
    BY <1>1, <1>3 DEF AssetsOf, AssetIn
  <2>2. AssetIn(x)' = [AssetIn(x) EXCEPT !.holder = a]
    BY <1>1 DEF AssetIn, Wallet
  <2>3. \A y \in OfResource(q) : y # x => AssetIn(y)' = AssetIn(y)
    BY <1>1 DEF AssetIn, OfResource
  <2>4. A' = [A EXCEPT ![x].holder = a]
    BY <1>3, <2>1, <2>2, <2>3 DEF AssetsOf
  <2>5. Trades(q, x, a)
    BY <1>2, <2>1, <2>4 DEF Trades
  <2> QED
    BY <1>3, <2>5 DEF CustodyStep
<1>4. CASE x \notin OfResource(q)
  <2>1. \A y \in OfResource(q) : y \in Assets /\ y # x
    BY <1>4 DEF OfResource
  <2>2. AssetsOf(q)' = AssetsOf(q)
    BY <1>1, <2>1, SameAssets
  <2> QED
    BY <1>2, <2>2 DEF CustodyStep, Rests
<1> QED
  BY <1>3, <1>4

(* Every step is a step of the custody of either resource. *)
LEMMA NextIsCustody ==
  ASSUME AccountsInv, NEW q, [Next]_vars
  PROVE  CustodyStep(q)
<1>1. CASE \E r \in Resources, a, payer \in Authorities, m \in Miners :
             Open(r, BuildOpen(r, a, m, payer).accounts)
  <2>1. PICK r \in Resources, a \in Authorities, payer \in Authorities, m \in Miners :
          Open(r, BuildOpen(r, a, m, payer).accounts)
    BY <1>1
  <2>2. /\ Opens(Proof(r, a), [type |-> ProofType(r), authority |-> a, miner |-> m])
        /\ holder' = holder
    BY <2>1, OpenDoes
  <2>3. \A key : key[1] = "tool" => key # Proof(r, a)
    BY DEF Proof
  <2>4. DOMAIN account' = DOMAIN account \cup {Proof(r, a)}
        /\ \A k \in DOMAIN account : k # Proof(r, a) => account'[k] = account[k]
    BY <2>2, CreatedFacts
  <2> QED
    BY <2>2, <2>3, <2>4, OtherAccountsRest
<1>2. CASE \E r \in Resources, a \in Authorities : Close(r, BuildClose(r, a).accounts)
  <2>1. PICK r \in Resources, a \in Authorities : Close(r, BuildClose(r, a).accounts)
    BY <1>2
  <2>2. Closed(Proof(r, a)) /\ holder' = holder
    BY <2>1, CloseDoes
  <2>3. \A key : key[1] = "tool" => key # Proof(r, a)
    BY DEF Proof
  <2>4. DOMAIN account' = DOMAIN account \ {Proof(r, a)}
        /\ \A k \in DOMAIN account' : account'[k] = account[k]
    BY <2>2, ClosedFacts
  <2> QED
    BY <2>2, <2>3, <2>4, OtherAccountsRest
<1>3. CASE \E r \in Resources, a, payer \in Authorities, m \in Miners, x \in Assets :
             \/ Equip(BuildEquip(r, a, m, payer, x).accounts)
             \/ Unequip(BuildUnequip(r, a, m, payer, x).accounts)
  BY <1>3, EquipIsCustody, UnequipIsCustody
<1>4. CASE \E p \in Authorities \cup {INITIALIZER} : InitChromium(BuildInitChromium(p).accounts)
  <2>1. /\ DOMAIN account' = DOMAIN account \cup ChromiumAddresses
        /\ \A k \in DOMAIN account : k \notin ChromiumAddresses => account'[k] = account[k]
        /\ holder' = holder
    BY <1>4, InitChromiumDoes
  <2>2. \A key : key[1] = "tool" => key \notin ChromiumAddresses
    BY DEF ChromiumAddresses, Mint, Metadata, TreasuryTokens, Tokens
  <2> QED
    BY <2>1, <2>2, OtherAccountsRest
<1>5. CASE \E a \in Authorities : InitReprocess(BuildInitReprocess(a).accounts)
  <2>1. PICK a \in Authorities : InitReprocess(BuildInitReprocess(a).accounts)
    BY <1>5
  <2>2. /\ Opens(Reprocessor(a), [type |-> "Reprocessor", authority |-> a])
        /\ holder' = holder
    BY <2>1, InitReprocessDoes
  <2>3. \A key : key[1] = "tool" => key # Reprocessor(a)
    BY DEF Reprocessor
  <2>4. DOMAIN account' = DOMAIN account \cup {Reprocessor(a)}
        /\ \A k \in DOMAIN account : k # Reprocessor(a) => account'[k] = account[k]
    BY <2>2, CreatedFacts
  <2> QED
    BY <2>2, <2>3, <2>4, OtherAccountsRest
<1>6. CASE \E a \in Authorities : FinalizeReprocess(BuildReprocess(a).accounts)
  <2>1. PICK a \in Authorities : FinalizeReprocess(BuildReprocess(a).accounts)
    BY <1>6
  <2>2. Closed(Reprocessor(a)) /\ holder' = holder
    BY <2>1, FinalizeReprocessDoes
  <2>3. \A key : key[1] = "tool" => key # Reprocessor(a)
    BY DEF Reprocessor
  <2>4. DOMAIN account' = DOMAIN account \ {Reprocessor(a)}
        /\ \A k \in DOMAIN account' : account'[k] = account[k]
    BY <2>2, ClosedFacts
  <2> QED
    BY <2>2, <2>3, <2>4, OtherAccountsRest
<1>7. CASE \E x \in Assets, a \in Authorities : Trade(x, a)
  BY <1>7, TradeIsCustody
<1>8. CASE UNCHANGED vars
  BY <1>8, OtherAccountsRest DEF vars
<1> QED
  BY <1>1, <1>2, <1>3, <1>4, <1>5, <1>6, <1>7, <1>8 DEF Next

(* At deployment no tool is open and every asset is in a wallet. *)
LEMMA CustodyInit ==
  ASSUME NEW q, Init
  PROVE  /\ ToolsOf(q) = [a \in {} |-> {}]
         /\ AssetsOf(q) \in [OfResource(q) -> NewAssets]
<1>1. ToolsOf(q) = [a \in {} |-> {}]
  <2>1. Owners(q) = {}
    BY DEF Init, Owners, IsOpen
  <2> QED
    BY <2>1 DEF ToolsOf
<1>2. \A x \in OfResource(q) : AssetIn(x) \in NewAssets
  <2> SUFFICES ASSUME NEW x \in OfResource(q)
               PROVE  AssetIn(x) \in NewAssets
    OBVIOUS
  <2>1. PICK a \in Authorities : holder[x] = Wallet(a)
    BY DEF Init, OfResource
  <2>2. AssetIn(x) = [holder |-> a, custody |-> "wallet", durability |-> 0, multiplier |-> 0]
    BY <2>1 DEF AssetIn, Wallet
  <2> QED
    BY <2>2 DEF NewAssets
<1>3. AssetsOf(q) \in [OfResource(q) -> NewAssets]
  BY <1>2 DEF AssetsOf
<1> QED
  BY <1>1, <1>3

(* A step of the custody of coal tools, in the words of module Tools. *)
LEMMA CoalCustody == CustodyStep("coal") => [Coal!ToolNext]_(Coal!toolVars)
<1>1. ASSUME NEW a \in Authorities, NEW m \in Miners, NEW x \in OfResource("coal"),
             Equips("coal", a, m, x)
      PROVE  Coal!Equip(a, m, x)
  <2>1. AssetsOf("coal")[x].durability = 0 /\ AssetsOf("coal")[x].multiplier = 0
    BY DEF AssetsOf, AssetIn
  <2>2. 0 \in Coal!FromAttribute(AssetsOf("coal")[x].durability)
    <3>1. 0 \div 1 = 0
      OBVIOUS
    <3>2. Coal!AttributeError(0) = 0
      BY <3>1 DEF Coal!AttributeError
    <3> QED
      BY <2>1, <3>2 DEF Coal!FromAttribute
  <2>3. /\ AssetsOf("coal")[x].holder = a /\ AssetsOf("coal")[x].custody = "wallet"
        /\ a \notin DOMAIN ToolsOf("coal")
    BY <1>1 DEF Equips
  <2>4. ToolsOf("coal")' =
          [c \in DOMAIN ToolsOf("coal") \cup {a} |->
             IF c = a THEN [miner |-> m, asset |-> x, durability |-> 0,
                            multiplier |-> AssetsOf("coal")[x].multiplier]
             ELSE ToolsOf("coal")[c]]
    BY <1>1, <2>1 DEF Equips
  <2>5. AssetsOf("coal")' = [AssetsOf("coal") EXCEPT ![x].custody = "tool"]
    BY <1>1 DEF Equips
  <2> QED
    BY <2>2, <2>3, <2>4, <2>5, Zenon DEF Coal!Equip, AssetsOf
<1>2. ASSUME NEW a \in Authorities, NEW x \in OfResource("coal"), Unequips("coal", a, x)
      PROVE  Coal!Unequip(a, x)
  BY <1>2 DEF Unequips, AssetsOf, Coal!Unequip
<1>3. ASSUME NEW x \in OfResource("coal"), NEW c \in Authorities, Trades("coal", x, c)
      PROVE  Coal!Trade(x, c)
  BY <1>3 DEF Trades, AssetsOf, Coal!Trade
<1>4. ASSUME Rests("coal")
      PROVE  UNCHANGED Coal!toolVars
  BY <1>4 DEF Rests, AssetsOf, Coal!toolVars
<1> QED
  BY <1>1, <1>2, <1>3, <1>4 DEF CustodyStep, Coal!ToolNext

(* A step of the custody of wood tools, in the words of module Tools. *)
LEMMA WoodCustody == CustodyStep("wood") => [Wood!ToolNext]_(Wood!toolVars)
<1>1. ASSUME NEW a \in Authorities, NEW m \in Miners, NEW x \in OfResource("wood"),
             Equips("wood", a, m, x)
      PROVE  Wood!Equip(a, m, x)
  <2>1. AssetsOf("wood")[x].durability = 0 /\ AssetsOf("wood")[x].multiplier = 0
    BY DEF AssetsOf, AssetIn
  <2>2. 0 \in Wood!FromAttribute(AssetsOf("wood")[x].durability)
    <3>1. 0 \div 1 = 0
      OBVIOUS
    <3>2. Wood!AttributeError(0) = 0
      BY <3>1 DEF Wood!AttributeError
    <3> QED
      BY <2>1, <3>2 DEF Wood!FromAttribute
  <2>3. /\ AssetsOf("wood")[x].holder = a /\ AssetsOf("wood")[x].custody = "wallet"
        /\ a \notin DOMAIN ToolsOf("wood")
    BY <1>1 DEF Equips
  <2>4. ToolsOf("wood")' =
          [c \in DOMAIN ToolsOf("wood") \cup {a} |->
             IF c = a THEN [miner |-> m, asset |-> x, durability |-> 0,
                            multiplier |-> AssetsOf("wood")[x].multiplier]
             ELSE ToolsOf("wood")[c]]
    BY <1>1, <2>1 DEF Equips
  <2>5. AssetsOf("wood")' = [AssetsOf("wood") EXCEPT ![x].custody = "tool"]
    BY <1>1 DEF Equips
  <2> QED
    BY <2>2, <2>3, <2>4, <2>5, Zenon DEF Wood!Equip, AssetsOf
<1>2. ASSUME NEW a \in Authorities, NEW x \in OfResource("wood"), Unequips("wood", a, x)
      PROVE  Wood!Unequip(a, x)
  BY <1>2 DEF Unequips, AssetsOf, Wood!Unequip
<1>3. ASSUME NEW x \in OfResource("wood"), NEW c \in Authorities, Trades("wood", x, c)
      PROVE  Wood!Trade(x, c)
  BY <1>3 DEF Trades, AssetsOf, Wood!Trade
<1>4. ASSUME Rests("wood")
      PROVE  UNCHANGED Wood!toolVars
  BY <1>4 DEF Rests, AssetsOf, Wood!toolVars
<1> QED
  BY <1>1, <1>2, <1>3, <1>4 DEF CustodyStep, Wood!ToolNext

(* Accounts at addresses, loaded by what they say, implement the custody   *)
(* of module Tools for the tools of either resource, though one set of     *)
(* instructions serves both.                                               *)
THEOREM AccountsImplementCustody == AccountsSpec => ImplementsCustody
<1>1. Init => Coal!ToolInit
  <2> SUFFICES ASSUME Init PROVE Coal!ToolInit
    OBVIOUS
  <2> QED
    BY CustodyInit DEF Coal!ToolInit, AssetsOf
<1>2. Init => Wood!ToolInit
  <2> SUFFICES ASSUME Init PROVE Wood!ToolInit
    OBVIOUS
  <2> QED
    BY CustodyInit DEF Wood!ToolInit, AssetsOf
<1>3. AccountsInv /\ [Next]_vars => [Coal!ToolNext]_(Coal!toolVars)
  BY NextIsCustody, CoalCustody
<1>4. AccountsInv /\ [Next]_vars => [Wood!ToolNext]_(Wood!toolVars)
  BY NextIsCustody, WoodCustody
<1> QED
  BY <1>1, <1>2, <1>3, <1>4, AccountsInvariant, PTL
     DEF ImplementsCustody, AccountsSpec, Coal!ToolSpec, Wood!ToolSpec

-----------------------------------------------------------------------------
(* What is found at the addresses that deployment fills. *)
LEMMA FixedTypes ==
  ASSUME AccountsInv, NEW r \in Resources
  PROVE  /\ TypeAt(Config(r)) = ConfigType(r)
         /\ \A i : TypeAt(Bus(r, i)) = "Bus"
         /\ TypeAt(Treasury) = "Treasury"
         /\ TypeAt(Mint(r)) = "Mint"
         /\ \A p : TypeAt(Tokens(r, p)) = "TokenAccount"
<1>1. \A key \in DOMAIN account :
        /\ key[1] \notin {"config", "bus", "treasury"}
        /\ key[2] = r => key[1] \notin {"mint", "tokens"}
  <2> SUFFICES ASSUME NEW key \in DOMAIN account
               PROVE  /\ key[1] \notin {"config", "bus", "treasury"}
                      /\ key[2] = r => key[1] \notin {"mint", "tokens"}
    OBVIOUS
  <2>1. CASE key \in ProofAddresses \cup ToolAddresses \cup ReprocessorAddresses
    BY <2>1 DEF ProofAddresses, ToolAddresses, ReprocessorAddresses, Proof, Tool, Reprocessor
  <2>2. CASE key \in ChromiumAddresses
    BY <2>2 DEF ChromiumAddresses, Mint, Metadata, TreasuryTokens, Tokens, Resources
  <2> QED
    BY <2>1, <2>2 DEF AccountsInv
<1>2. TypeAt(Config(r)) = ConfigType(r)
  <2>1. Config(r) \notin DOMAIN account
    BY <1>1 DEF Config
  <2> QED
    BY <2>1 DEF TypeAt, Config
<1>3. ASSUME NEW i PROVE TypeAt(Bus(r, i)) = "Bus"
  <2>1. Bus(r, i) \notin DOMAIN account
    BY <1>1 DEF Bus
  <2> QED
    BY <2>1 DEF TypeAt, Bus
<1>4. TypeAt(Treasury) = "Treasury"
  <2>1. Treasury \notin DOMAIN account
    BY <1>1 DEF Treasury
  <2> QED
    BY <2>1 DEF TypeAt, Treasury
<1>5. TypeAt(Mint(r)) = "Mint"
  <2>1. Mint(r) \notin DOMAIN account
    BY <1>1 DEF Mint
  <2> QED
    BY <2>1 DEF TypeAt, Mint, Resources
<1>6. ASSUME NEW p PROVE TypeAt(Tokens(r, p)) = "TokenAccount"
  <2>1. Tokens(r, p) \notin DOMAIN account
    BY <1>1 DEF Tokens
  <2>2. Tokens(r, p) # TreasuryTokens("chromium")
    BY DEF Tokens, TreasuryTokens, Resources
  <2> QED
    BY <2>1, <2>2 DEF TypeAt, Tokens
<1> QED
  BY <1>2, <1>3, <1>4, <1>5, <1>6

(* The proof at an authority's address is loaded as a proof of its own     *)
(* resource, and of no other, while it is open.                            *)
LEMMA ProofLoads ==
  ASSUME AccountsInv, NEW r \in Resources, NEW q \in Resources, NEW a
  PROVE  /\ TypeAt(Proof(r, a)) = ProofType(q) <=> IsOpen(Proof(r, a)) /\ q = r
         /\ LoadProof(W(Proof(r, a)), q, a, TRUE) <=> IsOpen(Proof(r, a)) /\ q = r
         /\ \A m : LoadProofWithMiner(W(Proof(r, a)), q, m, TRUE) <=>
                     IsOpen(Proof(r, a)) /\ q = r /\ Names(Proof(r, a), m)
<1>1. TypeAt(Proof(r, a)) = IF IsOpen(Proof(r, a)) THEN ProofType(r) ELSE "Empty"
  BY TypeFacts DEF AccountsInv, IsOpen
<1>2. TypeAt(Proof(r, a)) = ProofType(q) <=> IsOpen(Proof(r, a)) /\ q = r
  BY <1>1 DEF ProofType, Resources
<1>3. IsOpen(Proof(r, a)) => account[Proof(r, a)].authority = a
  BY DEF AccountsInv, AccountsAtTheirSeeds, IsOpen, Proof
<1>4. W(Proof(r, a)).key = Proof(r, a) /\ W(Proof(r, a)).writable
  BY DEF W
<1>5. LoadProof(W(Proof(r, a)), q, a, TRUE) <=> IsOpen(Proof(r, a)) /\ q = r
  BY <1>2, <1>3, <1>4 DEF LoadProof, LoadTyped, LoadAny
<1>6. ASSUME NEW m
      PROVE  LoadProofWithMiner(W(Proof(r, a)), q, m, TRUE) <=>
               IsOpen(Proof(r, a)) /\ q = r /\ Names(Proof(r, a), m)
  BY <1>2, <1>4 DEF LoadProofWithMiner, LoadTyped, LoadAny, Names
<1> QED
  BY <1>2, <1>5, <1>6

(* The dispatched instructions are accepted for what they are dispatched to. *)
LEMMA AcceptedByDispatch ==
  ASSUME NEW i, i.tag \in DOMAIN DispatchAccount
  PROVE  Accepted(i) <=> \E q \in Resources : Dispatched(i, q) /\ Loads(i.tag, q, i.accounts)
  BY DEF Accepted, DispatchAccount

(* An instruction about a proof is accepted if the proof is open and the   *)
(* other accounts are those of its resource.                               *)
LEMMA AboutProof ==
  ASSUME AccountsInv, NEW r \in Resources, NEW a,
         NEW i, i.tag \in {"Claim", "Close", "Stake"},
         DispatchAccount[i.tag] <= Len(i.accounts),
         i.accounts[DispatchAccount[i.tag]].key = Proof(r, a)
  PROVE  Accepted(i) <=> IsOpen(Proof(r, a)) /\ Loads(i.tag, r, i.accounts)
<1>1. i.tag \in DOMAIN DispatchAccount
  BY DEF DispatchAccount
<1>2. Accepted(i) <=> \E q \in Resources : Dispatched(i, q) /\ Loads(i.tag, q, i.accounts)
  BY <1>1, AcceptedByDispatch
<1>3. \A q : DispatchType(i.tag, q) = ProofType(q)
  BY DEF DispatchType
<1>4. \A q \in Resources :
        TypeAt(Proof(r, a)) = ProofType(q) <=> IsOpen(Proof(r, a)) /\ q = r
  BY ProofLoads
<1>5. \A q \in Resources : Dispatched(i, q) <=> IsOpen(Proof(r, a)) /\ q = r
  BY <1>3, <1>4 DEF Dispatched
<1> QED
  BY <1>2, <1>5

(* A claim from the proof of a finds its accounts while it is open. *)
LEMMA ClaimFinds ==
  ASSUME AccountsInv, NEW r \in Resources, NEW a \in Authorities, NEW p \in TokenOwners
  PROVE  Accepted(BuildClaim(r, a, p)) <=> IsOpen(Proof(r, a))
<1> DEFINE i == BuildClaim(r, a, p)
           s == i.accounts
<1>1. i.tag = "Claim"
  BY DEF BuildClaim
<1>2. /\ s[1].key = Wallet(a) /\ s[1].signer
      /\ s[2].key = Tokens(r, p) /\ s[2].writable
      /\ s[3] = W(Proof(r, a)) /\ s[3].key = Proof(r, a)
      /\ s[4].key = Treasury
      /\ s[5].key = TreasuryTokens(r) /\ s[5].writable
      /\ s[6].key = Program("token")
      /\ Len(s) = 6
  BY DEF BuildClaim, S, R, W
<1> HIDE DEF i
<1>3. Person(s[1]) = a
  BY <1>2 DEF Person, Wallet
<1>5. ASSUME IsOpen(Proof(r, a))
      PROVE  ClaimLoads(r, s)
  <2>1. LoadTokenAccount(s[2], TokenOwners, r, TRUE)
    BY <1>2, FixedTypes DEF LoadTokenAccount, LoadTyped, LoadAny, Person, Tokens
  <2>2. LoadTreasuryTokens(s[5], r, TRUE)
    BY <1>2, FixedTypes
       DEF LoadTreasuryTokens, LoadTokenAccount, LoadTyped, LoadAny, Person, TreasuryTokens, Tokens
  <2>3. LoadTreasury(s[4], FALSE)
    BY <1>2, FixedTypes DEF LoadTreasury, LoadTyped, LoadAny
  <2>4. LoadProof(s[3], r, a, TRUE)
    <3>1. LoadProof(W(Proof(r, a)), r, a, TRUE)
      BY <1>5, ProofLoads
    <3> QED
      BY <1>2, <3>1
  <2>5. LoadProgram(s[6], "token") /\ LoadSigner(s[1])
    BY <1>2 DEF LoadProgram, LoadAccount, LoadAny, LoadSigner
  <2> QED
    BY <1>2, <1>3, <2>1, <2>2, <2>3, <2>4, <2>5 DEF ClaimLoads
<1>6. Loads("Claim", r, s) = ClaimLoads(r, s)
  BY DEF Loads
<1>7. DispatchAccount["Claim"] = 3
  BY DEF DispatchAccount
<1>8. Accepted(i) <=> IsOpen(Proof(r, a)) /\ Loads("Claim", r, s)
  BY <1>1, <1>2, <1>7, AboutProof
<1> QED
  BY <1>1, <1>5, <1>6, <1>8 DEF i

(* So does a stake to it. *)
LEMMA StakeFinds ==
  ASSUME AccountsInv, NEW r \in Resources, NEW a \in Authorities
  PROVE  Accepted(BuildStake(r, a)) <=> IsOpen(Proof(r, a))
<1> DEFINE i == BuildStake(r, a)
           s == i.accounts
<1>1. i.tag = "Stake"
  BY DEF BuildStake
<1>2. /\ s[1].key = Wallet(a) /\ s[1].signer
      /\ s[2] = W(Proof(r, a)) /\ s[2].key = Proof(r, a)
      /\ s[3].key = Tokens(r, a) /\ s[3].writable
      /\ s[4].key = TreasuryTokens(r) /\ s[4].writable
      /\ s[5].key = Program("token")
      /\ Len(s) = 5
  BY DEF BuildStake, S, R, W
<1> HIDE DEF i
<1>3. Person(s[1]) = a
  BY <1>2 DEF Person, Wallet
<1>4. ASSUME IsOpen(Proof(r, a))
      PROVE  StakeLoads(r, s)
  <2>1. LoadTokenAccount(s[3], {a}, r, TRUE)
    BY <1>2, FixedTypes DEF LoadTokenAccount, LoadTyped, LoadAny, Person, Tokens
  <2>2. LoadTreasuryTokens(s[4], r, TRUE)
    BY <1>2, FixedTypes
       DEF LoadTreasuryTokens, LoadTokenAccount, LoadTyped, LoadAny, Person, TreasuryTokens, Tokens
  <2>3. LoadProof(s[2], r, a, TRUE)
    <3>1. LoadProof(W(Proof(r, a)), r, a, TRUE)
      BY <1>4, ProofLoads
    <3> QED
      BY <1>2, <3>1
  <2>4. LoadProgram(s[5], "token") /\ LoadSigner(s[1])
    BY <1>2 DEF LoadProgram, LoadAccount, LoadAny, LoadSigner
  <2> QED
    BY <1>2, <1>3, <2>1, <2>2, <2>3, <2>4 DEF StakeLoads
<1>5. Loads("Stake", r, s) = StakeLoads(r, s)
  BY DEF Loads
<1>6. DispatchAccount["Stake"] = 2
  BY DEF DispatchAccount
<1>7. Accepted(i) <=> IsOpen(Proof(r, a)) /\ Loads("Stake", r, s)
  BY <1>1, <1>2, <1>6, AboutProof
<1> QED
  BY <1>1, <1>4, <1>5, <1>7 DEF i

(* And its closing. *)
LEMMA CloseFinds ==
  ASSUME AccountsInv, NEW r \in Resources, NEW a \in Authorities
  PROVE  Accepted(BuildClose(r, a)) <=> IsOpen(Proof(r, a))
<1> DEFINE i == BuildClose(r, a)
           s == i.accounts
<1>1. i.tag = "Close"
  BY DEF BuildClose
<1>2. /\ s[1].key = Wallet(a) /\ s[1].signer
      /\ s[2] = W(Proof(r, a)) /\ s[2].key = Proof(r, a)
      /\ s[3].key = Program("system")
      /\ Len(s) = 3
  BY DEF BuildClose, S, R, W
<1> HIDE DEF i
<1>3. Person(s[1]) = a
  BY <1>2 DEF Person, Wallet
<1>4. ASSUME IsOpen(Proof(r, a))
      PROVE  CloseLoads(r, s)
  <2>1. LoadProof(s[2], r, a, TRUE)
    <3>1. LoadProof(W(Proof(r, a)), r, a, TRUE)
      BY <1>4, ProofLoads
    <3> QED
      BY <1>2, <3>1
  <2>2. LoadProgram(s[3], "system") /\ LoadSigner(s[1])
    BY <1>2 DEF LoadProgram, LoadAccount, LoadAny, LoadSigner
  <2> QED
    BY <1>2, <1>3, <2>1, <2>2 DEF CloseLoads
<1>5. Loads("Close", r, s) = CloseLoads(r, s)
  BY DEF Loads
<1>6. DispatchAccount["Close"] = 2
  BY DEF DispatchAccount
<1>7. Accepted(i) <=> IsOpen(Proof(r, a)) /\ Loads("Close", r, s)
  BY <1>1, <1>2, <1>6, AboutProof
<1> QED
  BY <1>1, <1>4, <1>5, <1>7 DEF i

(* A proof can be opened exactly while it is not. *)
LEMMA OpenFinds ==
  ASSUME AccountsInv, NEW r \in Resources, NEW a \in Authorities, NEW m \in Miners, NEW p
  PROVE  Accepted(BuildOpen(r, a, m, p)) <=> ~IsOpen(Proof(r, a))
<1> DEFINE i == BuildOpen(r, a, m, p)
           s == i.accounts
<1>1. i.tag = OpenTag(r)
  BY DEF BuildOpen
<1>2. /\ s[1].key = Wallet(a) /\ s[1].signer /\ s[3].signer
      /\ s[4].key = Proof(r, a) /\ s[4].writable
      /\ s[5].key = Program("system") /\ s[6].key = Sysvar("slot_hashes")
      /\ Len(s) = 6
  BY DEF BuildOpen, S, R, W
<1> HIDE DEF i
<1>3. Accepted(i) <=> OpenLoads(r, s)
  <2>1. CASE r = "coal"
    <3>1. i.tag = "OpenCoal" /\ i.tag \notin DOMAIN DispatchAccount
      BY <1>1, <2>1 DEF OpenTag, DispatchAccount
    <3> QED
      BY <2>1, <3>1 DEF Accepted
  <2>2. CASE r = "wood"
    <3>1. i.tag = "OpenWood" /\ i.tag \notin DOMAIN DispatchAccount
      BY <1>1, <2>2 DEF OpenTag, DispatchAccount
    <3> QED
      BY <2>2, <3>1 DEF Accepted
  <2> QED
    BY <2>1, <2>2 DEF Resources
<1>4. Person(s[1]) = a
  BY <1>2 DEF Person, Wallet
<1>5. TypeAt(Proof(r, a)) = "Empty" <=> ~IsOpen(Proof(r, a))
  BY TypeFacts DEF AccountsInv, IsOpen, ProofType
<1>6. LoadUninitializedPda(s[4], Proof(r, Person(s[1]))) <=> ~IsOpen(Proof(r, a))
  BY <1>2, <1>4, <1>5 DEF LoadUninitializedPda, LoadSystemAccount, LoadTyped, LoadAny
<1>7. /\ LoadSigner(s[1]) /\ LoadAny(s[2], FALSE) /\ LoadSigner(s[3])
      /\ LoadProgram(s[5], "system") /\ LoadSysvar(s[6], "slot_hashes")
  BY <1>2 DEF LoadSigner, LoadAny, LoadProgram, LoadSysvar, LoadAccount
<1>8. OpenLoads(r, s) <=> ~IsOpen(Proof(r, a))
  BY <1>2, <1>6, <1>7 DEF OpenLoads
<1> QED
  BY <1>3, <1>8 DEF i

(* The accounts of a reset, in their order. *)
LEMMA ResetAccounts ==
  ASSUME NEW r, NEW a
  PROVE  LET s == BuildReset(r, a).accounts
         IN  /\ Len(s) = BUS_COUNT + 6
             /\ s[1] = S(a)
             /\ \A i \in 1 .. BUS_COUNT : s[i + 1] = W(Bus(r, i - 1))
             /\ s[10] = W(Config(r)) /\ s[11] = W(Mint(r)) /\ s[12] = W(Treasury)
             /\ s[13] = W(TreasuryTokens(r)) /\ s[14] = R(Program("token"))
<1> DEFINE s == <<S(a)>> \o [i \in 1 .. 8 |-> W(Bus(r, i - 1))] \o
                <<W(Config(r)), W(Mint(r)), W(Treasury), W(TreasuryTokens(r)), R(Program("token"))>>
<1>1. BuildReset(r, a).accounts = s
  BY DEF BuildReset, BUS_COUNT
<1>2. /\ Len(s) = 14 /\ s[1] = S(a)
      /\ \A i \in 1 .. 8 : s[i + 1] = W(Bus(r, i - 1))
      /\ s[10] = W(Config(r)) /\ s[11] = W(Mint(r)) /\ s[12] = W(Treasury)
      /\ s[13] = W(TreasuryTokens(r)) /\ s[14] = R(Program("token"))
  OBVIOUS
<1> HIDE DEF s
<1> QED
  BY <1>1, <1>2 DEF BUS_COUNT

(* Anyone's reset finds its accounts. *)
LEMMA ResetFinds ==
  ASSUME AccountsInv, NEW r \in Resources, NEW a
  PROVE  Accepted(BuildReset(r, a))
<1> DEFINE i == BuildReset(r, a)
           s == i.accounts
<1>1. i.tag = "Reset"
  BY DEF BuildReset
<1>2. /\ Len(s) = BUS_COUNT + 6
      /\ s[1] = S(a)
      /\ \A n \in 1 .. BUS_COUNT : s[n + 1] = W(Bus(r, n - 1))
      /\ s[10] = W(Config(r)) /\ s[11] = W(Mint(r)) /\ s[12] = W(Treasury)
      /\ s[13] = W(TreasuryTokens(r)) /\ s[14] = R(Program("token"))
  BY ResetAccounts
<1> HIDE DEF i
<1>3. LoadSigner(s[1]) /\ LoadProgram(s[14], "token")
  BY <1>2 DEF LoadSigner, S, LoadProgram, LoadAccount, LoadAny, R
<1>4. \A n \in 1 .. BUS_COUNT : LoadBus(s[n + 1], r, n - 1, TRUE)
  <2> SUFFICES ASSUME NEW n \in 1 .. BUS_COUNT
               PROVE  LoadBus(s[n + 1], r, n - 1, TRUE)
    OBVIOUS
  <2>1. s[n + 1].key = Bus(r, n - 1) /\ s[n + 1].writable
    <3>1. s[n + 1] = W(Bus(r, n - 1))
      BY <1>2
    <3> QED
      BY <3>1 DEF W
  <2>2. TypeAt(Bus(r, n - 1)) = "Bus"
    BY FixedTypes
  <2> QED
    BY <2>1, <2>2 DEF LoadBus, LoadTyped, LoadAny
<1>5. LoadConfig(s[10], r, TRUE) /\ LoadMint(s[11], r, TRUE) /\ LoadTreasury(s[12], TRUE)
  BY <1>2, FixedTypes DEF LoadConfig, LoadMint, LoadTreasury, LoadTyped, LoadAny, W
<1>6. LoadTreasuryTokens(s[13], r, TRUE)
  BY <1>2, FixedTypes
     DEF LoadTreasuryTokens, LoadTokenAccount, LoadTyped, LoadAny, W, Person, TreasuryTokens, Tokens
<1>7. ResetLoads(r, s)
  BY <1>2, <1>3, <1>4, <1>5, <1>6 DEF ResetLoads
<1>8. Dispatched(i, r)
  <2>1. DispatchAccount[i.tag] = 10 /\ DispatchType(i.tag, r) = ConfigType(r)
    BY <1>1 DEF DispatchAccount, DispatchType
  <2>2. TypeAt(s[10].key) = ConfigType(r)
    BY <1>2, FixedTypes DEF W
  <2> QED
    BY <1>2, <2>1, <2>2 DEF Dispatched, BUS_COUNT
<1>9. i.tag \in DOMAIN DispatchAccount /\ Loads(i.tag, r, s) = ResetLoads(r, s)
  BY <1>1 DEF DispatchAccount, Loads
<1>10. Accepted(i)
  <2>1. i.tag \in DOMAIN DispatchAccount
    BY <1>9
  <2>2. Accepted(i) <=> \E q \in Resources : Dispatched(i, q) /\ Loads(i.tag, q, s)
    BY <2>1, AcceptedByDispatch
  <2> QED
    BY <1>7, <1>8, <1>9, <2>2
<1> QED
  BY <1>10 DEF i

(* The builders, the dispatcher and the loaders agree on the places of the *)
(* accounts of every instruction about a proof, and of a reset.            *)
THEOREM InstructionsReachTheirProof == AccountsSpec => []InstructionsFindTheirProof
<1>1. AccountsInv => InstructionsFindTheirProof
  <2> SUFFICES ASSUME AccountsInv
               PROVE  InstructionsFindTheirProof
    OBVIOUS
  <2> QED
    BY ClaimFinds, StakeFinds, CloseFinds, OpenFinds, ResetFinds DEF InstructionsFindTheirProof
<1> QED
  BY <1>1, AccountsInvariant, PTL

-----------------------------------------------------------------------------
(* What is found at the addresses of guilds. *)
LEMMA GuildTypes ==
  ASSUME AccountsInv, NEW m
  PROVE  /\ TypeAt(GuildConfig) = "guild_config"
         /\ TypeAt(Member(m)) = "member"
         /\ TypeAt(Guild) = "guild"
<1>1. \A key \in DOMAIN account : key[1] \notin {"guild_config", "member", "guild"}
  <2> SUFFICES ASSUME NEW key \in DOMAIN account
               PROVE  key[1] \notin {"guild_config", "member", "guild"}
    OBVIOUS
  <2>1. CASE key \in ProofAddresses \cup ToolAddresses \cup ReprocessorAddresses
    BY <2>1 DEF ProofAddresses, ToolAddresses, ReprocessorAddresses, Proof, Tool, Reprocessor
  <2>2. CASE key \in ChromiumAddresses
    BY <2>2 DEF ChromiumAddresses, Mint, Metadata, TreasuryTokens, Tokens
  <2> QED
    BY <2>1, <2>2 DEF AccountsInv
<1>2. TypeAt(GuildConfig) = "guild_config"
  <2>1. GuildConfig \notin DOMAIN account
    BY <1>1 DEF GuildConfig
  <2> QED
    BY <2>1 DEF TypeAt, GuildConfig
<1>3. TypeAt(Member(m)) = "member"
  <2>1. Member(m) \notin DOMAIN account
    BY <1>1 DEF Member
  <2> QED
    BY <2>1 DEF TypeAt, Member
<1>4. TypeAt(Guild) = "guild"
  <2>1. Guild \notin DOMAIN account
    BY <1>1 DEF Guild
  <2> QED
    BY <2>1 DEF TypeAt, Guild
<1> QED
  BY <1>2, <1>3, <1>4

(* The tool at an authority's address is found by what it says. *)
LEMMA ToolLoads ==
  ASSUME AccountsInv, NEW r \in Resources, NEW a, NEW m
  PROVE  /\ TypeAt(Tool(r, a)) = ToolType(r) <=> IsOpen(Tool(r, a))
         /\ TypeAt(Tool(r, a)) = "Empty" <=> ~IsOpen(Tool(r, a))
         /\ TypeAt(Tool(r, a)) # "guild_config"
         /\ LoadTool(W(Tool(r, a)), r, m, TRUE) <=>
              IsOpen(Tool(r, a)) /\ Names(Tool(r, a), m)
<1>1. TypeAt(Tool(r, a)) = IF IsOpen(Tool(r, a)) THEN ToolType(r) ELSE "Empty"
  BY TypeFacts DEF AccountsInv, IsOpen
<1>2. W(Tool(r, a)).key = Tool(r, a) /\ W(Tool(r, a)).writable
  BY DEF W
<1>3. ToolType(r) \notin {"Empty", "guild_config"}
  BY DEF ToolType
<1> QED
  BY <1>1, <1>2, <1>3 DEF LoadTool, LoadTyped, LoadAny, Names

(* The six accounts every hash needs are found when the signer mines for   *)
(* the open proof.                                                         *)
LEMMA HashFinds ==
  ASSUME AccountsInv, NEW r \in Resources, NEW m, NEW a, NEW bus \in {0, BUS_COUNT - 1},
         NEW s, Len(s) >= 6,
         s[1] = S(m), s[2] = W(Bus(r, bus)), s[3] = R(Config(r)), s[4] = W(Proof(r, a)),
         s[5] = R(Sysvar("instructions")), s[6] = R(Sysvar("slot_hashes"))
  PROVE  HashLoads(r, s) <=> IsOpen(Proof(r, a)) /\ Names(Proof(r, a), m)
<1>1. LoadSigner(s[1]) /\ Person(s[1]) = m
  BY DEF LoadSigner, S, Person, Wallet
<1>2. LoadAnyBus(s[2], r, TRUE)
  <2>1. s[2].key = Bus(r, bus) /\ s[2].writable
    BY DEF W
  <2>2. TypeAt(Bus(r, bus)) = "Bus"
    BY FixedTypes
  <2>3. bus \in 0 .. BUS_COUNT - 1
    BY DEF BUS_COUNT
  <2>4. LoadBus(s[2], r, bus, TRUE)
    BY <2>1, <2>2 DEF LoadBus, LoadTyped, LoadAny
  <2> QED
    BY <2>3, <2>4 DEF LoadAnyBus
<1>3. LoadConfig(s[3], r, FALSE)
  BY FixedTypes DEF LoadConfig, LoadTyped, LoadAny, R
<1>4. LoadSysvar(s[5], "instructions") /\ LoadSysvar(s[6], "slot_hashes")
  BY DEF LoadSysvar, LoadAccount, LoadAny, R
<1>5. LoadProofWithMiner(s[4], r, m, TRUE) <=> IsOpen(Proof(r, a)) /\ Names(Proof(r, a), m)
  <2>1. LoadProofWithMiner(W(Proof(r, a)), r, m, TRUE) <=>
          IsOpen(Proof(r, a)) /\ Names(Proof(r, a), m)
    BY ProofLoads
  <2> QED
    BY <2>1
<1> QED
  BY <1>1, <1>2, <1>3, <1>4, <1>5 DEF HashLoads

(* A hash is dispatched by the config it passes. *)
LEMMA HashDispatched ==
  ASSUME AccountsInv, NEW r \in Resources, NEW i, i.tag = "Mine",
         Len(i.accounts) >= 6, i.accounts[3] = R(Config(r))
  PROVE  Accepted(i) <=> IF r = "coal" THEN MineCoalLoads(i.accounts) ELSE ChopWoodLoads(i.accounts)
<1>1. DispatchAccount[i.tag] = 3 /\ i.tag \in DOMAIN DispatchAccount
  BY DEF DispatchAccount
<1>2. \A q : DispatchType(i.tag, q) = ConfigType(q)
  BY DEF DispatchType
<1>3. TypeAt(i.accounts[3].key) = ConfigType(r)
  BY FixedTypes DEF R
<1>4. \A q \in Resources : Dispatched(i, q) <=> q = r
  BY <1>1, <1>2, <1>3 DEF Dispatched, ConfigType, Resources
<1>5. Accepted(i) <=> Loads(i.tag, r, i.accounts)
  BY <1>1, <1>4, AcceptedByDispatch
<1> QED
  BY <1>5 DEF Loads

(* A hash for wood passes the tool of its authority, which may be empty. *)
LEMMA ChopWoodFinds ==
  ASSUME AccountsInv, NEW m \in Miners, NEW a \in Authorities, NEW bus \in {0, BUS_COUNT - 1}
  PROVE  Accepted(BuildChopWood(m, a, bus)) <=>
           /\ IsOpen(Proof("wood", a)) /\ Names(Proof("wood", a), m)
           /\ IsOpen(Tool("wood", a)) => Names(Tool("wood", a), m)
<1> DEFINE i == BuildChopWood(m, a, bus)
           s == i.accounts
<1>1. i.tag = "Mine"
  BY DEF BuildChopWood
<1>2. /\ Len(s) = 7
      /\ s[1] = S(m) /\ s[2] = W(Bus("wood", bus)) /\ s[3] = R(Config("wood"))
      /\ s[4] = W(Proof("wood", a))
      /\ s[5] = R(Sysvar("instructions")) /\ s[6] = R(Sysvar("slot_hashes"))
      /\ s[7] = W(Tool("wood", a))
  BY DEF BuildChopWood, HashAccounts
<1> HIDE DEF i
<1>3. "wood" \in Resources
  BY DEF Resources
<1>4. HashLoads("wood", s) <=> IsOpen(Proof("wood", a)) /\ Names(Proof("wood", a), m)
  BY <1>2, <1>3, HashFinds
<1>5. Accepted(i) <=> ChopWoodLoads(s)
  BY <1>1, <1>2, <1>3, HashDispatched
<1>6. /\ TypeAt(s[7].key) = "Empty" <=> ~IsOpen(Tool("wood", a))
      /\ LoadTool(s[7], "wood", m, TRUE) <=> IsOpen(Tool("wood", a)) /\ Names(Tool("wood", a), m)
  <2>1. /\ TypeAt(Tool("wood", a)) = "Empty" <=> ~IsOpen(Tool("wood", a))
        /\ LoadTool(W(Tool("wood", a)), "wood", m, TRUE) <=>
             IsOpen(Tool("wood", a)) /\ Names(Tool("wood", a), m)
    BY <1>3, ToolLoads
  <2>2. s[7] = W(Tool("wood", a)) /\ s[7].key = Tool("wood", a)
    BY <1>2 DEF W
  <2> QED
    BY <2>1, <2>2
<1>7. Person(s[1]) = m
  BY <1>2 DEF Person, S, Wallet
<1>8. Accepted(i) <=> /\ IsOpen(Proof("wood", a)) /\ Names(Proof("wood", a), m)
                      /\ IsOpen(Tool("wood", a)) => Names(Tool("wood", a), m)
  <2>1. ChopWoodLoads(s) <=>
          /\ HashLoads("wood", s)
          /\ TypeAt(s[7].key) = "Empty" \/ LoadTool(s[7], "wood", m, TRUE)
    BY <1>2, <1>7 DEF ChopWoodLoads
  <2> QED
    BY <1>4, <1>5, <1>6, <2>1
<1> QED
  BY <1>8 DEF i

(* The guild accounts that builders pass, and whether a hash by m passes   *)
(* them rightly: it does.                                                  *)
GuildAccounts(m) ==
  {<<>>, <<R(GuildConfig), R(Member(m))>>, <<R(GuildConfig), R(Member(m)), R(Guild)>>}

(* They are accepted by themselves and never taken for a tool. *)
LEMMA GuildsFind ==
  ASSUME AccountsInv, NEW m, NEW guilds \in GuildAccounts(m)
  PROVE  GuildLoads(guilds, m) /\ ~IsTool(guilds)
<1>1. /\ R(GuildConfig).key = GuildConfig /\ R(Guild).key = Guild
      /\ R(Member(m)).key = Member(m) /\ Person(R(Member(m))) = m
  BY DEF R, Person, Member
<1>2. /\ LoadGuildConfig(R(GuildConfig)) /\ LoadMember(R(Member(m)), m)
      /\ LoadGuildWithMember(R(Guild), R(Member(m)), m)
      /\ TypeAt(R(GuildConfig).key) # ToolType("coal")
  BY <1>1, GuildTypes DEF LoadGuildConfig, LoadMember, LoadGuildWithMember, ToolType
<1>3. CASE guilds = <<>>
  BY <1>3 DEF GuildLoads, IsTool
<1>4. CASE guilds = <<R(GuildConfig), R(Member(m))>>
  <2>1. Len(guilds) = 2 /\ guilds[1] = R(GuildConfig) /\ guilds[2] = R(Member(m))
    BY <1>4
  <2> QED
    BY <1>2, <2>1 DEF GuildLoads, IsTool
<1>5. CASE guilds = <<R(GuildConfig), R(Member(m)), R(Guild)>>
  <2>1. /\ Len(guilds) = 3 /\ guilds[1] = R(GuildConfig) /\ guilds[2] = R(Member(m))
        /\ guilds[3] = R(Guild)
    BY <1>5
  <2> QED
    BY <1>2, <2>1 DEF GuildLoads, IsTool
<1> QED
  BY <1>3, <1>4, <1>5 DEF GuildAccounts

(* What is where when a tool comes first. *)
LEMMA FirstAndRest ==
  ASSUME NEW T, NEW t \in T, NEW v \in Seq(T)
  PROVE  /\ <<t>> \o v \in Seq(T)
         /\ (<<t>> \o v)[1] = t /\ <<t>> \o v # <<>> /\ Tail(<<t>> \o v) = v
         /\ Len(<<t>> \o v) >= 2 <=> v # <<>>
  OBVIOUS

(* What is where when accounts follow the six of a hash. *)
LEMMA SixAndRest ==
  ASSUME NEW T, NEW h \in Seq(T), NEW v \in Seq(T)
  PROVE  Len(h) = 6 =>
           /\ Len(h \o v) >= 6
           /\ \A n \in 1 .. 6 : (h \o v)[n] = h[n]
           /\ SubSeq(h \o v, 7, Len(h \o v)) = v
<1> DEFINE s == h \o v
           k == Len(h)
           l == Len(v)
           From(n) == SubSeq(s, n, Len(s))
<1>1. /\ Len(s) = k + l /\ l \in Nat
      /\ \A n \in 1 .. k : s[n] = h[n]
      /\ From(k + 1) = v
  OBVIOUS
<1> HIDE DEF s, From, l
<1>2. ASSUME k = 6
      PROVE  Len(s) >= 6 /\ (\A n \in 1 .. 6 : s[n] = h[n]) /\ From(7) = v
  <2> HIDE DEF k
  <2>1. Len(s) >= 6 /\ k + 1 = 7
    BY <1>1, <1>2
  <2>2. \A n \in 1 .. 6 : s[n] = h[n]
    BY <1>1, <1>2
  <2>3. From(7) = v
    BY <1>1, <2>1
  <2> QED
    BY <2>1, <2>2, <2>3
<1> QED
  BY <1>2 DEF s, From

(* Accounts of Options can be left out or joined in any order. *)
LEMMA Joined ==
  ASSUME NEW T, NEW u \in Seq(T), NEW t \in T, NEW v \in Seq(T)
  PROVE  u \o <<t>> \o v = u \o (<<t>> \o v) /\ u \o <<>> \o v = u \o v
  OBVIOUS

(* A hash for coal with the optional accounts v, wherever they come from,  *)
(* is checked as the six accounts of any hash and the optional ones.       *)
LEMMA MineCoalFinds ==
  ASSUME AccountsInv, NEW m, NEW a, NEW bus \in {0, BUS_COUNT - 1},
         NEW i, i.tag = "Mine", NEW T, HashAccounts("coal", m, a, bus) \in Seq(T),
         NEW v \in Seq(T), i.accounts = HashAccounts("coal", m, a, bus) \o v
  PROVE  Accepted(i) <=>
           /\ IsOpen(Proof("coal", a)) /\ Names(Proof("coal", a), m)
           /\ IF IsTool(v) THEN LoadTool(v[1], "coal", m, TRUE) /\ GuildLoads(Tail(v), m)
              ELSE GuildLoads(v, m)
<1> DEFINE h == HashAccounts("coal", m, a, bus)
           s == i.accounts
<1>1. /\ Len(h) = 6
      /\ h[1] = S(m) /\ h[2] = W(Bus("coal", bus)) /\ h[3] = R(Config("coal"))
      /\ h[4] = W(Proof("coal", a))
      /\ h[5] = R(Sysvar("instructions")) /\ h[6] = R(Sysvar("slot_hashes"))
  BY DEF HashAccounts
<1>2. h \in Seq(T) /\ s = h \o v
  OBVIOUS
<1> HIDE DEF h, s
<1>3. /\ Len(s) >= 6
      /\ s[1] = h[1] /\ s[2] = h[2] /\ s[3] = h[3] /\ s[4] = h[4] /\ s[5] = h[5] /\ s[6] = h[6]
      /\ SubSeq(s, 7, Len(s)) = v
  <2>1. /\ Len(h \o v) >= 6
        /\ \A n \in 1 .. 6 : (h \o v)[n] = h[n]
        /\ SubSeq(h \o v, 7, Len(h \o v)) = v
    <3>1. Len(h) = 6
      BY <1>1
    <3>2. Len(h) = 6 => /\ Len(h \o v) >= 6
                        /\ \A n \in 1 .. 6 : (h \o v)[n] = h[n]
                        /\ SubSeq(h \o v, 7, Len(h \o v)) = v
      BY <1>2, SixAndRest, Zenon
    <3> QED
      BY <3>1, <3>2, Zenon
  <2>2. Len(s) >= 6 /\ (\A n \in 1 .. 6 : s[n] = h[n]) /\ SubSeq(s, 7, Len(s)) = v
    BY <1>2, <2>1, Zenon
  <2>3. \A n \in {1, 2, 3, 4, 5, 6} : s[n] = h[n]
    BY <2>2
  <2> QED
    BY <2>2, <2>3
<1>4. "coal" \in Resources
  BY DEF Resources
<1>5. HashLoads("coal", s) <=> IsOpen(Proof("coal", a)) /\ Names(Proof("coal", a), m)
  BY <1>1, <1>3, <1>4, HashFinds
<1>6. Accepted(i) <=> MineCoalLoads(s)
  BY <1>1, <1>3, <1>4, HashDispatched DEF s
<1>7. Person(s[1]) = m
  BY <1>1, <1>3 DEF Person, S, Wallet
<1>8. MineCoalLoads(s) <=>
        /\ HashLoads("coal", s)
        /\ IF IsTool(v) THEN LoadTool(v[1], "coal", m, TRUE) /\ GuildLoads(Tail(v), m)
           ELSE GuildLoads(v, m)
  BY <1>3, <1>7 DEF MineCoalLoads
<1> QED
  BY <1>5, <1>6, <1>8

(* The accounts that a coal hash can pass. *)
Passed(m, a, bus, c) ==
  {S(m), W(Bus("coal", bus)), R(Config("coal")), W(Proof("coal", a)), R(Sysvar("instructions")),
   R(Sysvar("slot_hashes")), W(Tool("coal", c)), R(GuildConfig), R(Member(m)), R(Guild)}

(* Every list of accounts that a coal hash is given is a sequence of these. *)
LEMMA PassedSequences ==
  ASSUME NEW m, NEW a, NEW bus, NEW c, NEW guilds \in GuildAccounts(m)
  PROVE  /\ HashAccounts("coal", m, a, bus) \in Seq(Passed(m, a, bus, c))
         /\ guilds \in Seq(Passed(m, a, bus, c))
         /\ W(Tool("coal", c)) \in Passed(m, a, bus, c)
<1> DEFINE T == Passed(m, a, bus, c)
<1>1. /\ S(m) \in T /\ W(Bus("coal", bus)) \in T /\ R(Config("coal")) \in T
      /\ W(Proof("coal", a)) \in T /\ R(Sysvar("instructions")) \in T
      /\ R(Sysvar("slot_hashes")) \in T /\ W(Tool("coal", c)) \in T
      /\ R(GuildConfig) \in T /\ R(Member(m)) \in T /\ R(Guild) \in T
  BY DEF Passed
<1> HIDE DEF T
<1>2. HashAccounts("coal", m, a, bus) \in Seq(T)
  BY <1>1 DEF HashAccounts
<1>3. /\ <<>> \in Seq(T)
      /\ <<R(GuildConfig), R(Member(m))>> \in Seq(T)
      /\ <<R(GuildConfig), R(Member(m)), R(Guild)>> \in Seq(T)
  BY <1>1
<1>4. guilds \in Seq(T)
  BY <1>3 DEF GuildAccounts
<1> QED
  BY <1>1, <1>2, <1>4 DEF T

(* Without a tool the signer must mine for the proof. *)
LEMMA BareHashFinds ==
  ASSUME AccountsInv, NEW m \in Miners, NEW a \in Authorities, NEW bus \in {0, BUS_COUNT - 1},
         NEW guilds \in GuildAccounts(m)
  PROVE  Accepted(BuildMineCoal(m, a, bus, <<>>, guilds)) <=>
           IsOpen(Proof("coal", a)) /\ Names(Proof("coal", a), m)
<1> DEFINE i == BuildMineCoal(m, a, bus, <<>>, guilds)
           h == HashAccounts("coal", m, a, bus)
           T == Passed(m, a, bus, a)
<1>1. h \in Seq(T) /\ guilds \in Seq(T) /\ W(Tool("coal", a)) \in T
  BY PassedSequences
<1>2. i.tag = "Mine" /\ i.accounts = h \o <<>> \o guilds
  BY DEF BuildMineCoal
<1> HIDE DEF i, h, T
<1>3. i.accounts = h \o guilds
  BY <1>1, <1>2, Joined
<1>4. Accepted(i) <=>
        /\ IsOpen(Proof("coal", a)) /\ Names(Proof("coal", a), m)
        /\ IF IsTool(guilds) THEN LoadTool(guilds[1], "coal", m, TRUE) /\ GuildLoads(Tail(guilds), m)
           ELSE GuildLoads(guilds, m)
  BY <1>1, <1>2, <1>3, MineCoalFinds DEF h
<1> QED
  BY <1>4, GuildsFind DEF i

(* With a tool that is open the signer must be named by it, too; with one  *)
(* that is not, there must be no guild accounts.                           *)
LEMMA ToolHashFinds ==
  ASSUME AccountsInv, NEW m \in Miners, NEW a \in Authorities, NEW bus \in {0, BUS_COUNT - 1},
         NEW guilds \in GuildAccounts(m), NEW c \in Authorities
  PROVE  Accepted(BuildMineCoal(m, a, bus, <<W(Tool("coal", c))>>, guilds)) <=>
           /\ IsOpen(Proof("coal", a)) /\ Names(Proof("coal", a), m)
           /\ IF IsOpen(Tool("coal", c)) THEN Names(Tool("coal", c), m) ELSE guilds = <<>>
<1> DEFINE t == W(Tool("coal", c))
           i == BuildMineCoal(m, a, bus, <<t>>, guilds)
           h == HashAccounts("coal", m, a, bus)
           T == Passed(m, a, bus, c)
           v == <<t>> \o guilds
<1>1. h \in Seq(T) /\ guilds \in Seq(T) /\ t \in T
  BY PassedSequences
<1>2. i.tag = "Mine" /\ i.accounts = h \o <<t>> \o guilds
  BY DEF BuildMineCoal
<1>3. t.key = Tool("coal", c)
  BY DEF W
<1>4. "coal" \in Resources
  BY DEF Resources
<1>5. /\ TypeAt(t.key) = ToolType("coal") <=> IsOpen(Tool("coal", c))
      /\ TypeAt(t.key) # "guild_config"
      /\ LoadTool(t, "coal", m, TRUE) <=> IsOpen(Tool("coal", c)) /\ Names(Tool("coal", c), m)
  BY <1>3, <1>4, ToolLoads
<1> HIDE DEF i, h, T, t
<1>6. i.accounts = h \o v
  BY <1>1, <1>2, Joined
<1>7. v \in Seq(T) /\ v[1] = t /\ v # <<>> /\ Tail(v) = guilds /\ (Len(v) >= 2 <=> guilds # <<>>)
  BY <1>1, FirstAndRest
<1> HIDE DEF v
<1>8. Accepted(i) <=>
        /\ IsOpen(Proof("coal", a)) /\ Names(Proof("coal", a), m)
        /\ IF IsTool(v) THEN LoadTool(v[1], "coal", m, TRUE) /\ GuildLoads(Tail(v), m)
           ELSE GuildLoads(v, m)
  BY <1>1, <1>2, <1>6, <1>7, MineCoalFinds DEF h
<1>9. IsTool(v) <=> IsOpen(Tool("coal", c))
  BY <1>5, <1>7 DEF IsTool
<1>10. GuildLoads(v, m) <=> guilds = <<>>
  BY <1>5, <1>7 DEF GuildLoads, LoadGuildConfig
<1>11. Accepted(i) <=>
           /\ IsOpen(Proof("coal", a)) /\ Names(Proof("coal", a), m)
           /\ IF IsOpen(Tool("coal", c)) THEN Names(Tool("coal", c), m) ELSE guilds = <<>>
  BY <1>5, <1>7, <1>8, <1>9, <1>10, GuildsFind
<1> QED
  BY <1>11 DEF i, t

(* The optional accounts of a hash are told apart by their content: with   *)
(* any of them a hash is accepted from those who mine for the proof and    *)
(* the tool, and from nobody else (mine_coal.rs, chop_wood.rs).            *)
THEOREM HashesReachTheirTool == AccountsSpec => []HashesFindTheirTool
<1>1. AccountsInv => HashesFindTheirTool
  <2> SUFFICES ASSUME AccountsInv
               PROVE  HashesFindTheirTool
    OBVIOUS
  <2> QED
    BY ChopWoodFinds, BareHashFinds, ToolHashFinds DEF HashesFindTheirTool, GuildAccounts
<1> QED
  BY <1>1, AccountsInvariant, PTL
=============================================================================
