------------------------------ MODULE Accounts ------------------------------
(***************************************************************************)
(* Which account is which.  A client composes the accounts of an           *)
(* instruction with the builders of api/src/instruction.rs; the program    *)
(* finds out from one of them whether coal or wood is meant, and loads     *)
(* each with the checks of api/src/loaders.rs.  Nothing but the order of   *)
(* the accounts ties the three together.                                   *)
(*                                                                         *)
(* The state is the accounts that users open and close, and who holds the  *)
(* assets.  Amounts, times and solutions are left out: an instruction that *)
(* is accepted here may still fail for what it says.                       *)
(***************************************************************************)
EXTENDS MachineInt, Sequences, Functions

CONSTANTS
  Authorities, Miners, \* wallets that own proofs, and wallets that sign hashes
  INITIALIZER,         \* the wallet at INITIALIZER_ADDRESS
  Assets, ResourceOf   \* the tools and what their "resource" attribute says

Resources == {"coal", "wood"}

ASSUME AccountsAssumption == ResourceOf \in [Assets -> Resources]

VARIABLES
  account, \* the accounts opened since deployment, by address
  holder   \* the address that holds an asset: external state of Metaplex Core

vars == <<account, holder>>

(* An address is derived from a seed, a resource and whose it is. *)
Wallet(p) == <<"wallet", "any", p>>
Proof(r, a) == <<"proof", r, a>>
Tool(r, a) == <<"tool", r, a>>
Reprocessor(a) == <<"reprocessor", "coal", a>>
Bus(r, i) == <<"bus", r, i>>
Config(r) == <<"config", r, "program">>
Treasury == <<"treasury", "any", "program">>
Mint(r) == <<"mint", r, "program">>
Metadata(r) == <<"metadata", r, "program">>
Tokens(r, p) == <<"tokens", r, p>>
TreasuryTokens(r) == Tokens(r, "treasury")
AssetAt(x) == <<"asset", "any", x>>
Collection == <<"collection", "any", "external">>
UpdateAuthority == <<"update_authority", "any", "program">>
Member(m) == <<"member", "coal", m>>
Guild == <<"guild", "coal", "external">>
GuildConfig == <<"guild_config", "coal", "external">>
Program(name) == <<"program", "any", name>>
Sysvar(name) == <<"sysvar", "any", name>>

ProofType(r) == IF r = "coal" THEN "Proof" ELSE "ProofV2"
ToolType(r) == IF r = "coal" THEN "Tool" ELSE "WoodTool"
ConfigType(r) == IF r = "coal" THEN "Config" ELSE "WoodConfig"

(* What is at an address: the discriminator of its data, or the kind of a  *)
(* foreign account.  What is not open is an empty system account.          *)
TypeAt(key) ==
  CASE key \in DOMAIN account -> account[key].type
    [] key[1] = "config" -> ConfigType(key[2])
    [] key[1] = "bus" -> "Bus"
    [] key[1] = "treasury" -> "Treasury"
    [] key[1] = "mint" /\ key[2] # "chromium" -> "Mint"
    [] key[1] = "tokens" /\ key # TreasuryTokens("chromium") -> "TokenAccount"
    [] key[1] \in {"asset", "member", "guild", "guild_config", "program", "sysvar"} -> key[1]
    [] OTHER -> "Empty"

-----------------------------------------------------------------------------
(* The builders.  An account is passed read-only, writable, or as a        *)
(* writable signer.                                                        *)
R(key) == [key |-> key, signer |-> FALSE, writable |-> FALSE]
W(key) == [key |-> key, signer |-> FALSE, writable |-> TRUE]
S(p) == [key |-> Wallet(p), signer |-> TRUE, writable |-> TRUE]

BuildClaim(r, a, beneficiary) ==
  [tag |-> "Claim", accounts |->
     <<S(a), W(Tokens(r, beneficiary)), W(Proof(r, a)), R(Treasury), W(TreasuryTokens(r)),
       R(Program("token"))>>]

BuildClose(r, a) ==
  [tag |-> "Close", accounts |-> <<S(a), W(Proof(r, a)), R(Program("system"))>>]

HashAccounts(r, m, a, i) ==
  <<S(m), W(Bus(r, i)), R(Config(r)), W(Proof(r, a)), R(Sysvar("instructions")),
    R(Sysvar("slot_hashes"))>>

(* tools and guilds are sequences: the accounts of Options. *)
BuildMineCoal(m, a, i, tools, guilds) ==
  [tag |-> "Mine", accounts |-> HashAccounts("coal", m, a, i) \o tools \o guilds]

BuildChopWood(m, a, i) ==
  [tag |-> "Mine", accounts |-> HashAccounts("wood", m, a, i) \o <<W(Tool("wood", a))>>]

OpenTag(r) == IF r = "coal" THEN "OpenCoal" ELSE "OpenWood"

BuildOpen(r, a, m, payer) ==
  [tag |-> OpenTag(r), accounts |->
     <<S(a), R(Wallet(m)), S(payer), W(Proof(r, a)), R(Program("system")),
       R(Sysvar("slot_hashes"))>>]

(* The caller chooses the seed of the tool: r. *)
BuildEquip(r, a, m, payer, x) ==
  [tag |-> "Equip", accounts |->
     <<S(a), R(Wallet(m)), S(payer), W(AssetAt(x)), R(Collection), W(Tool(r, a)),
       R(Program("core")), R(Program("system"))>>]

BuildUnequip(r, a, m, payer, x) ==
  [tag |-> "Unequip", accounts |->
     <<S(a), R(Wallet(m)), S(payer), W(AssetAt(x)), W(Collection), W(Tool(r, a)),
       W(UpdateAuthority), R(Program("core")), R(Program("system"))>>]

BUS_COUNT == 8

BuildReset(r, a) ==
  [tag |-> "Reset", accounts |->
     <<S(a)>> \o [i \in 1 .. BUS_COUNT |-> W(Bus(r, i - 1))]
     \o <<W(Config(r)), W(Mint(r)), W(Treasury), W(TreasuryTokens(r)), R(Program("token"))>>]

BuildStake(r, a) ==
  [tag |-> "Stake", accounts |->
     <<S(a), W(Proof(r, a)), W(Tokens(r, a)), W(TreasuryTokens(r)), R(Program("token"))>>]

BuildUpdate(r, a, m) ==
  [tag |-> "Update", accounts |-> <<S(a), R(Wallet(m)), W(Proof(r, a))>>]

BuildInitChromium(p) ==
  [tag |-> "InitChromium", accounts |->
     <<S(p), W(Mint("chromium")), W(Metadata("chromium")), R(Treasury),
       W(TreasuryTokens("chromium")), R(Program("system")), R(Program("token")),
       R(Program("associated_token")), R(Program("metadata")), R(Sysvar("rent"))>>]

BuildInitReprocess(a) ==
  [tag |-> "InitReprocess", accounts |->
     <<S(a), W(Treasury), W(Reprocessor(a)), R(Sysvar("slot_hashes")), R(Program("system"))>>]

BuildReprocess(a) ==
  [tag |-> "FinalizeReprocess", accounts |->
     <<S(a), W(Reprocessor(a)), W(Proof("coal", a)), W(Bus("coal", 0)), W(Mint("chromium")),
       W(Tokens("chromium", a)), R(Treasury), R(Program("token")), R(Sysvar("slot_hashes"))>>]

-----------------------------------------------------------------------------
(* The loaders, on the account i of an instruction. *)
Person(i) == i.key[3]

LoadAny(i, writable) == writable => i.writable
LoadSigner(i) == i.signer
LoadAccount(i, key, writable) == i.key = key /\ LoadAny(i, writable)
LoadTyped(i, type, writable) == TypeAt(i.key) = type /\ LoadAny(i, writable)

LoadBus(i, r, id, writable) == i.key = Bus(r, id) /\ LoadTyped(i, "Bus", writable)
LoadAnyBus(i, r, writable) ==
  \E id \in 0 .. BUS_COUNT - 1 : LoadBus(i, r, id, writable)
LoadConfig(i, r, writable) == i.key = Config(r) /\ LoadTyped(i, ConfigType(r), writable)
LoadTreasury(i, writable) == i.key = Treasury /\ LoadTyped(i, "Treasury", writable)
LoadMint(i, r, writable) == i.key = Mint(r) /\ LoadTyped(i, "Mint", writable)

(* Proofs are loaded by what they say, wherever they are. *)
LoadProof(i, r, a, writable) ==
  LoadTyped(i, ProofType(r), writable) /\ account[i.key].authority = a
LoadProofWithMiner(i, r, m, writable) ==
  LoadTyped(i, ProofType(r), writable) /\ account[i.key].miner = m
LoadReprocessor(i, a, writable) ==
  LoadTyped(i, "Reprocessor", writable) /\ account[i.key].authority = a
LoadTool(i, r, m, writable) ==
  LoadTyped(i, ToolType(r), writable) /\ account[i.key].miner = m
LoadAnyToolWithAsset(i, m, x, writable) ==
  /\ \E r \in Resources : LoadTool(i, r, m, writable)
  /\ account[i.key].asset = x

LoadTokenAccount(i, owners, r, writable) ==
  LoadTyped(i, "TokenAccount", writable) /\ i.key[2] = r /\ Person(i) \in owners
LoadTreasuryTokens(i, r, writable) ==
  i.key = TreasuryTokens(r) /\ LoadTokenAccount(i, {"treasury"}, r, writable)

(* The token program mints into any account of the mint that is passed. *)
MintsInto(mint, tokens) ==
  /\ LoadTyped(mint, "Mint", TRUE) /\ LoadTyped(tokens, "TokenAccount", TRUE)
  /\ tokens.key[2] = mint.key[2]

LoadSystemAccount(i, writable) == LoadTyped(i, "Empty", writable)
LoadUninitializedPda(i, key) == i.key = key /\ LoadSystemAccount(i, TRUE)
LoadSysvar(i, name) == LoadAccount(i, Sysvar(name), FALSE)
LoadProgram(i, name) == LoadAccount(i, Program(name), FALSE)

LoadGuildConfig(i) == TypeAt(i.key) = "guild_config"
LoadMember(i, m) == TypeAt(i.key) = "member" /\ Person(i) = m
LoadGuildWithMember(i, member, m) == TypeAt(i.key) = "guild" /\ LoadMember(member, m)

TokenOwners == Authorities \cup {"treasury"}

-----------------------------------------------------------------------------
(* The account checks of the handlers, on the accounts s. *)
ClaimLoads(r, s) ==
  /\ Len(s) = 6
  /\ LoadSigner(s[1])
  /\ LoadTokenAccount(s[2], TokenOwners, r, TRUE)
  /\ LoadProof(s[3], r, Person(s[1]), TRUE)
  /\ LoadTreasury(s[4], FALSE)
  /\ LoadTreasuryTokens(s[5], r, TRUE)
  /\ LoadProgram(s[6], "token")

CloseLoads(r, s) ==
  /\ Len(s) = 3
  /\ LoadSigner(s[1])
  /\ LoadProof(s[2], r, Person(s[1]), TRUE)
  /\ LoadProgram(s[3], "system")

HashLoads(r, s) ==
  /\ Len(s) >= 6
  /\ LoadSigner(s[1])
  /\ LoadAnyBus(s[2], r, TRUE)
  /\ LoadConfig(s[3], r, FALSE)
  /\ LoadProofWithMiner(s[4], r, Person(s[1]), TRUE)
  /\ LoadSysvar(s[5], "instructions") /\ LoadSysvar(s[6], "slot_hashes")

(* The guild accounts o of a hash by m: a guild config, a membership, and  *)
(* perhaps a guild.  A single account is not looked at.                    *)
GuildLoads(o, m) ==
  Len(o) >= 2 =>
    /\ LoadGuildConfig(o[1])
    /\ IF Len(o) = 3 THEN LoadGuildWithMember(o[3], o[2], m) ELSE LoadMember(o[2], m)

(* A slip: an account is taken for a tool because it comes first. *)
IsToolByPlace(o) == o # <<>>

IsTool(o) == o # <<>> /\ TypeAt(o[1].key) = ToolType("coal")

(* Of the optional accounts of a coal hash the first is a tool if it says  *)
(* so; then the guild accounts are looked for behind it.                   *)
MineCoalLoads(s) ==
  LET o == SubSeq(s, 7, Len(s))
      m == Person(s[1])
  IN  /\ HashLoads("coal", s)
      /\ IF IsTool(o)
         THEN LoadTool(o[1], "coal", m, TRUE) /\ GuildLoads(Tail(o), m)
         ELSE GuildLoads(o, m)

ChopWoodLoads(s) ==
  /\ HashLoads("wood", s)
  /\ Len(s) = 6 \/ TypeAt(s[7].key) = "Empty" \/ LoadTool(s[7], "wood", Person(s[1]), TRUE)

OpenLoads(r, s) ==
  /\ Len(s) = 6
  /\ LoadSigner(s[1]) /\ LoadAny(s[2], FALSE) /\ LoadSigner(s[3])
  /\ LoadUninitializedPda(s[4], Proof(r, Person(s[1])))
  /\ LoadProgram(s[5], "system") /\ LoadSysvar(s[6], "slot_hashes")

(* A slip: the resource is taken from the seed the caller chose. *)
ResourceOfSeed(s) == s[6].key[2]

(* The asset's own attribute says for which resource it is equipped. *)
EquippedResource(s) == ResourceOf[Person(s[4])]

EquipLoads(s) ==
  /\ Len(s) = 8
  /\ LoadSigner(s[1]) /\ LoadAny(s[2], FALSE) /\ LoadSigner(s[3])
  /\ LoadProgram(s[7], "core") /\ LoadProgram(s[8], "system")
  /\ TypeAt(s[4].key) = "asset" /\ holder[Person(s[4])] = s[1].key
  /\ LoadUninitializedPda(s[6], Tool(EquippedResource(s), Person(s[1])))

(* The tool's PDA signs the transfer of the asset back, with the seeds of  *)
(* the asset's resource and of the signer.                                 *)
UnequipLoads(s) ==
  /\ Len(s) = 9
  /\ LoadSigner(s[1])
  /\ LoadProgram(s[8], "core") /\ LoadProgram(s[9], "system")
  /\ LoadAnyToolWithAsset(s[6], Person(s[2]), Person(s[4]), TRUE)
  /\ s[6].key = Tool(ResourceOf[Person(s[4])], Person(s[1]))
  /\ holder[Person(s[4])] = s[6].key

ResetLoads(r, s) ==
  /\ Len(s) = BUS_COUNT + 6
  /\ LoadSigner(s[1])
  /\ \A i \in 1 .. BUS_COUNT : LoadBus(s[i + 1], r, i - 1, TRUE)
  /\ LoadConfig(s[10], r, TRUE) /\ LoadMint(s[11], r, TRUE) /\ LoadTreasury(s[12], TRUE)
  /\ LoadTreasuryTokens(s[13], r, TRUE) /\ LoadProgram(s[14], "token")

StakeLoads(r, s) ==
  /\ Len(s) = 5
  /\ LoadSigner(s[1])
  /\ LoadProof(s[2], r, Person(s[1]), TRUE)
  /\ LoadTokenAccount(s[3], {Person(s[1])}, r, TRUE)
  /\ LoadTreasuryTokens(s[4], r, TRUE) /\ LoadProgram(s[5], "token")

UpdateLoads(r, s) ==
  /\ Len(s) = 3
  /\ LoadSigner(s[1]) /\ LoadAny(s[2], FALSE)
  /\ LoadProof(s[3], r, Person(s[1]), TRUE)

InitChromiumLoads(s) ==
  /\ Len(s) = 10
  /\ LoadSigner(s[1])
  /\ LoadUninitializedPda(s[3], Metadata("chromium"))
  /\ LoadUninitializedPda(s[2], Mint("chromium"))
  /\ LoadSystemAccount(s[5], TRUE)
  /\ LoadProgram(s[6], "system") /\ LoadProgram(s[7], "token")
  /\ LoadProgram(s[8], "associated_token") /\ LoadProgram(s[9], "metadata")
  /\ LoadSysvar(s[10], "rent")
  /\ Person(s[1]) = INITIALIZER

InitReprocessLoads(s) ==
  /\ Len(s) = 5
  /\ LoadSigner(s[1])
  /\ LoadTreasury(s[2], TRUE)
  /\ LoadUninitializedPda(s[3], Reprocessor(Person(s[1])))
  /\ LoadSysvar(s[4], "slot_hashes")

(* The mint and the token account are compared with nothing: the token     *)
(* program asks that they belong together, and that the treasury may sign. *)
ReprocessLoads(s) ==
  /\ Len(s) = 9
  /\ LoadSigner(s[1])
  /\ LoadBus(s[4], "coal", 0, FALSE)
  /\ LoadProof(s[3], "coal", Person(s[1]), TRUE)
  /\ LoadReprocessor(s[2], Person(s[1]), TRUE)
  /\ LoadSysvar(s[9], "slot_hashes")
  /\ MintsInto(s[5], s[6])
  /\ s[7].key = Treasury /\ s[8].key = Program("token")

-----------------------------------------------------------------------------
(* The dispatcher reads one account to tell coal from wood.  An account    *)
(* that is not there, or is empty, makes it panic.                         *)

(* A slip: Stake looks where the token account is. *)
DispatchAccountAsClaim == [Claim |-> 3, Close |-> 2, Mine |-> 3, Reset |-> 10, Stake |-> 3, Update |-> 10]

DispatchAccount == [Claim |-> 3, Close |-> 2, Mine |-> 3, Reset |-> 10, Stake |-> 2, Update |-> 10]

DispatchType(tag, r) == IF tag \in {"Mine", "Reset"} THEN ConfigType(r) ELSE ProofType(r)

Dispatched(i, r) ==
  /\ DispatchAccount[i.tag] <= Len(i.accounts)
  /\ TypeAt(i.accounts[DispatchAccount[i.tag]].key) = DispatchType(i.tag, r)

Loads(tag, r, s) ==
  CASE tag = "Claim" -> ClaimLoads(r, s)
    [] tag = "Close" -> CloseLoads(r, s)
    [] tag = "Mine" -> IF r = "coal" THEN MineCoalLoads(s) ELSE ChopWoodLoads(s)
    [] tag = "Reset" -> ResetLoads(r, s)
    [] tag = "Stake" -> StakeLoads(r, s)
    [] tag = "Update" -> UpdateLoads(r, s)

(* Instruction i reaches a handler that finds the accounts it expects. *)
Accepted(i) ==
  CASE i.tag \in DOMAIN DispatchAccount ->
         \E r \in Resources : Dispatched(i, r) /\ Loads(i.tag, r, i.accounts)
    [] i.tag = "OpenCoal" -> OpenLoads("coal", i.accounts)
    [] i.tag = "OpenWood" -> OpenLoads("wood", i.accounts)
    [] i.tag = "Equip" -> EquipLoads(i.accounts)
    [] i.tag = "Unequip" -> UnequipLoads(i.accounts)
    [] i.tag = "InitChromium" -> InitChromiumLoads(i.accounts)
    [] i.tag = "InitReprocess" -> InitReprocessLoads(i.accounts)
    [] i.tag = "FinalizeReprocess" -> ReprocessLoads(i.accounts)

-----------------------------------------------------------------------------
(* The instructions that open, close or move an account.  What is written  *)
(* where is decided by the accounts s that were passed.                    *)
Created(contents) ==
  account' = [key \in DOMAIN contents \cup DOMAIN account |->
                IF key \in DOMAIN contents THEN contents[key] ELSE account[key]]
Closed(key) == account' = Restrict(account, DOMAIN account \ {key})

(* A slip: the proof is made out to the one who pays its rent. *)
ProofOfPayer(r, s) == [type |-> ProofType(r), authority |-> Person(s[3]), miner |-> Person(s[2])]

NewProof(r, s) == [type |-> ProofType(r), authority |-> Person(s[1]), miner |-> Person(s[2])]

Open(r, s) ==
  /\ OpenLoads(r, s)
  /\ Created([key \in {s[4].key} |-> NewProof(r, s)])
  /\ UNCHANGED holder

(* The balance must be zero, which it can be at any time. *)
Close(r, s) ==
  /\ CloseLoads(r, s)
  /\ Closed(s[2].key)
  /\ UNCHANGED holder

Equip(s) ==
  /\ EquipLoads(s)
  /\ Created([key \in {s[6].key} |->
                [type |-> ToolType(EquippedResource(s)), authority |-> Person(s[1]),
                 miner |-> Person(s[2]), asset |-> Person(s[4])]])
  /\ holder' = [holder EXCEPT ![Person(s[4])] = s[6].key]

(* A slip: the tool account stays. *)
UnequipKeepingTool(s) ==
  /\ UnequipLoads(s)
  /\ holder' = [holder EXCEPT ![Person(s[4])] = s[1].key]
  /\ UNCHANGED account

Unequip(s) ==
  /\ UnequipLoads(s)
  /\ Closed(s[6].key)
  /\ holder' = [holder EXCEPT ![Person(s[4])] = s[1].key]

InitChromium(s) ==
  /\ InitChromiumLoads(s)
  /\ Created([key \in {s[2].key, s[3].key, s[5].key} |->
                [type |-> CASE key = s[2].key -> "Mint" [] key = s[3].key -> "Metadata"
                            [] OTHER -> "TokenAccount"]])
  /\ UNCHANGED holder

InitReprocess(s) ==
  /\ InitReprocessLoads(s)
  /\ Created([key \in {s[3].key} |-> [type |-> "Reprocessor", authority |-> Person(s[1])]])
  /\ UNCHANGED holder

(* The slot and the statistics of the proof are another matter. *)
FinalizeReprocess(s) ==
  /\ ReprocessLoads(s)
  /\ Closed(s[2].key)
  /\ UNCHANGED holder

(* Assets in wallets change hands freely. *)
Trade(x, a) ==
  /\ holder[x][1] = "wallet"
  /\ holder' = [holder EXCEPT ![x] = Wallet(a)]
  /\ UNCHANGED account

Init ==
  /\ account = <<>>
  /\ holder \in [Assets -> {Wallet(a) : a \in Authorities}]

Next ==
  \/ \E r \in Resources, a, payer \in Authorities, m \in Miners :
       Open(r, BuildOpen(r, a, m, payer).accounts)
  \/ \E r \in Resources, a \in Authorities : Close(r, BuildClose(r, a).accounts)
  \/ \E r \in Resources, a, payer \in Authorities, m \in Miners, x \in Assets :
       \/ Equip(BuildEquip(r, a, m, payer, x).accounts)
       \/ Unequip(BuildUnequip(r, a, m, payer, x).accounts)
  \/ \E p \in Authorities \cup {INITIALIZER} : InitChromium(BuildInitChromium(p).accounts)
  \/ \E a \in Authorities : InitReprocess(BuildInitReprocess(a).accounts)
  \/ \E a \in Authorities : FinalizeReprocess(BuildReprocess(a).accounts)
  \/ \E x \in Assets, a \in Authorities : Trade(x, a)

AccountsSpec == Init /\ [][Next]_vars

-----------------------------------------------------------------------------
IsOpen(key) == key \in DOMAIN account

(* The loaders believe what an account says, not where it is.  It says     *)
(* what its address was derived from: its kind and resource, and the       *)
(* authority, who need not be its miner nor the payer of its rent.         *)
AccountsAtTheirSeeds ==
  \A key \in DOMAIN account :
    /\ key[1] = "proof" => account[key].type = ProofType(key[2]) /\ account[key].miner \in Miners
    /\ key[1] = "tool" => /\ account[key].type = ToolType(key[2])
                          /\ ResourceOf[account[key].asset] = key[2]
    /\ key[1] = "reprocessor" => account[key].type = "Reprocessor"
    /\ key[1] \in {"proof", "tool", "reprocessor"} => account[key].authority = key[3]

(* The builders, the dispatcher and the loaders agree on the places of the *)
(* accounts: what an authority asks of a proof of either resource is       *)
(* accepted exactly while that proof, and no other, is open, and a reset   *)
(* always.                                                                 *)
InstructionsFindTheirProof ==
  \A r \in Resources :
    /\ \A a \in Authorities :
         /\ \A p \in TokenOwners : Accepted(BuildClaim(r, a, p)) <=> IsOpen(Proof(r, a))
         /\ Accepted(BuildStake(r, a)) <=> IsOpen(Proof(r, a))
         /\ Accepted(BuildClose(r, a)) <=> IsOpen(Proof(r, a))
         /\ \A m \in Miners, p \in Authorities :
              Accepted(BuildOpen(r, a, m, p)) <=> ~IsOpen(Proof(r, a))
    /\ \A p \in Authorities \cup Miners : Accepted(BuildReset(r, p))

Names(key, m) == account[key].miner = m

(* The optional accounts of a hash are told apart by their content.  With  *)
(* guild accounts or without, a hash is accepted exactly when the signer   *)
(* mines for the proof, and for the tool if one is there; a tool account   *)
(* that is passed but empty is forgiven, unless guild accounts follow it.  *)
HashesFindTheirTool ==
  \A m \in Miners, a \in Authorities, bus \in {0, BUS_COUNT - 1} :
    /\ Accepted(BuildChopWood(m, a, bus)) <=>
         /\ IsOpen(Proof("wood", a)) /\ Names(Proof("wood", a), m)
         /\ IsOpen(Tool("wood", a)) => Names(Tool("wood", a), m)
    /\ \A guilds \in {<<>>, <<R(GuildConfig), R(Member(m))>>,
                      <<R(GuildConfig), R(Member(m)), R(Guild)>>} :
         /\ Accepted(BuildMineCoal(m, a, bus, <<>>, guilds)) <=>
              IsOpen(Proof("coal", a)) /\ Names(Proof("coal", a), m)
         /\ \A c \in Authorities :
              Accepted(BuildMineCoal(m, a, bus, <<W(Tool("coal", c))>>, guilds)) <=>
                /\ IsOpen(Proof("coal", a)) /\ Names(Proof("coal", a), m)
                /\ IF IsOpen(Tool("coal", c)) THEN Names(Tool("coal", c), m) ELSE guilds = <<>>

(* Nothing that was put to work is lost: the authority of a tool account   *)
(* can take its asset back, in any state, with what the account says.  The *)
(* seeds that sign the return come from the asset, those of the account    *)
(* from whoever equipped it.                                               *)
AssetsCanBeReturned ==
  \A r \in Resources, a \in Authorities :
    IsOpen(Tool(r, a)) =>
      LET tool == account[Tool(r, a)]
      IN  Accepted(BuildUnequip(r, a, tool.miner, a, tool.asset))

(* The tool accounts and assets of either resource behave as the custody   *)
(* of module Tools, in which tool accounts have no addresses.              *)
OfResource(r) == {x \in Assets : ResourceOf[x] = r}
Owners(r) == {a \in Authorities : IsOpen(Tool(r, a))}

ToolsOf(r) ==
  [a \in Owners(r) |->
     [miner |-> account[Tool(r, a)].miner, asset |-> account[Tool(r, a)].asset,
      durability |-> 0, multiplier |-> 0]]

AssetIn(x) ==
  [holder |-> holder[x][3], custody |-> holder[x][1], durability |-> 0, multiplier |-> 0]

NewAssets ==
  {[holder |-> a, custody |-> "wallet", durability |-> 0, multiplier |-> 0] : a \in Authorities}

Coal == INSTANCE Tools WITH
  Assets <- OfResource("coal"), IssuedAssets <- NewAssets, ATTRIBUTE_PRECISION <- 1,
  tool <- ToolsOf("coal"), asset <- [x \in OfResource("coal") |-> AssetIn(x)]
Wood == INSTANCE Tools WITH
  Assets <- OfResource("wood"), IssuedAssets <- NewAssets, ATTRIBUTE_PRECISION <- 1,
  tool <- ToolsOf("wood"), asset <- [x \in OfResource("wood") |-> AssetIn(x)]

ImplementsCustody == Coal!ToolSpec /\ Wood!ToolSpec

-----------------------------------------------------------------------------
(* update/mod.rs: "Update changes the miner authority on a proof account." *)
(* It should be accepted from the authority of an open proof.              *)
UpdateIsHandled ==
  \A r \in Resources, a \in Authorities, m \in Miners :
    IsOpen(Proof(r, a)) => Accepted(BuildUpdate(r, a, m))
=============================================================================
