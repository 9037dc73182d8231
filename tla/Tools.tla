-------------------------------- MODULE Tools --------------------------------
(***************************************************************************)
(* Custody of pickaxes.  A tool is a Metaplex Core asset.  Equip moves it  *)
(* into the tool PDA of its owner and copies its durability into the tool  *)
(* account; mining wears that copy; Unequip writes the copy back into the  *)
(* attributes of the asset, closes the tool account and returns the asset. *)
(***************************************************************************)
EXTENDS MachineInt

CONSTANTS
  Authorities, Miners, Assets,
  IssuedAssets, \* the states an asset can have when it first reaches the program
  ATTRIBUTE_PRECISION \* how closely a decimal attribute tells durabilities

VARIABLES
  tool,  \* the open tool accounts, by the authority in their seeds
  asset  \* the assets: external state of the Metaplex Core program

toolVars == <<tool, asset>>

Tool == [miner : Miners, asset : Assets, durability : U64, multiplier : U64]

(* An asset is held in its holder's wallet or by its holder's tool PDA.    *)
Asset == [holder : Authorities, custody : {"wallet", "tool"},
          durability : U64, multiplier : U64]

ASSUME IssuedAssetsAssumption ==
  /\ IssuedAssets \subseteq {f \in Asset : f.custody = "wallet"}
  /\ ATTRIBUTE_PRECISION \in Nat \ {0}

ToolTypeOK ==
  /\ DOMAIN tool \subseteq Authorities /\ tool \in [DOMAIN tool -> Tool]
  /\ asset \in [Assets -> Asset]

ToolInit ==
  /\ tool = [a \in {} |-> {}]
  /\ asset \in [Assets -> IssuedAssets]

(* The durability attribute is a decimal f64 of whole tokens.  Writing and *)
(* reading it back rounds three times (to f64, by the division and by the  *)
(* product), each by at most a part in 2^53, and truncates: the amount may *)
(* lose one indivisible unit, and from 2^51 units on it may lose or gain a *)
(* part in 2^51.  ATTRIBUTE_PRECISION is that 2^51.  The cast saturates.   *)
AttributeError(durability) == durability \div ATTRIBUTE_PRECISION

FromAttribute(durability) ==
  {d \in 0 .. durability + AttributeError(durability) :
     /\ durability <= d + 1 + AttributeError(durability)
     /\ d > durability => d <= U64Max}

(* a puts its asset x to work for miner m. *)
Equip(a, m, x) ==
  /\ asset[x].holder = a /\ asset[x].custody = "wallet"
  /\ a \notin DOMAIN tool
  /\ \E durability \in FromAttribute(asset[x].durability) :
       tool' = [c \in DOMAIN tool \cup {a} |->
                  IF c = a
                  THEN [miner |-> m, asset |-> x, durability |-> durability,
                        multiplier |-> asset[x].multiplier]
                  ELSE tool[c]]
  /\ asset' = [asset EXCEPT ![x].custody = "tool"]

(* Slips: the tool account stays; the attributes are not written back. *)
UnequipKeepingTool(a, x) ==
  /\ a \in DOMAIN tool /\ tool[a].asset = x
  /\ asset' = [asset EXCEPT ![x].durability = tool[a].durability,
                            ![x].custody = "wallet"]
  /\ UNCHANGED tool

UnequipUnworn(a, x) ==
  /\ a \in DOMAIN tool /\ tool[a].asset = x
  /\ tool' = [c \in DOMAIN tool \ {a} |-> tool[c]]
  /\ asset' = [asset EXCEPT ![x].custody = "wallet"]

(* a takes its asset x back; the miner account must be the one in the tool, *)
(* which the caller can always read from it.                               *)
Unequip(a, x) ==
  /\ a \in DOMAIN tool /\ tool[a].asset = x
  /\ tool' = [c \in DOMAIN tool \ {a} |-> tool[c]]
  /\ asset' = [asset EXCEPT ![x].durability = tool[a].durability,
                            ![x].custody = "wallet"]

(* Mining with the tool of c wears it. *)
Wear(c, amount) ==
  /\ c \in DOMAIN tool
  /\ tool' = [tool EXCEPT ![c].durability = SatSub(@, amount)]
  /\ UNCHANGED asset

(* Assets in wallets change hands freely. *)
Trade(x, c) ==
  /\ asset[x].custody = "wallet"
  /\ asset' = [asset EXCEPT ![x].holder = c]
  /\ UNCHANGED tool

ToolNext ==
  \/ \E a \in Authorities, m \in Miners, x \in Assets : Equip(a, m, x)
  \/ \E a \in Authorities, x \in Assets : Unequip(a, x)
  \/ \E c \in DOMAIN tool : \E amount \in 0 .. tool[c].durability : Wear(c, amount)
  \/ \E x \in Assets, c \in Authorities : Trade(x, c)

ToolSpec == ToolInit /\ [][ToolNext]_toolVars

-----------------------------------------------------------------------------
(* An asset is in a tool PDA exactly when one tool account points to it,   *)
(* and that account is its holder's: no sequence of equips, trades and     *)
(* unequips orphans an asset or puts it behind two tool accounts.          *)
CustodyMatches ==
  /\ \A x \in Assets :
       asset[x].custody = "tool" =>
         /\ asset[x].holder \in DOMAIN tool
         /\ tool[asset[x].holder].asset = x
  /\ \A a \in DOMAIN tool :
       /\ asset[tool[a].asset].custody = "tool"
       /\ asset[tool[a].asset].holder = a

(* The durability an asset has left, wherever it is. *)
Remaining(x) ==
  IF asset[x].custody = "tool" THEN tool[asset[x].holder].durability
  ELSE asset[x].durability

(* x is put to work in this step, and the amount in its attribute read.    *)
PutToWork(x) == asset[x].custody = "wallet" /\ asset'[x].custody = "tool"

(* What reading the attribute may add to an asset, and what it may cost.   *)
RoundedUp(x) == IF PutToWork(x) THEN AttributeError(asset[x].durability) ELSE 0
Rounding(x) == IF PutToWork(x) THEN 1 + AttributeError(asset[x].durability) ELSE 0

(* A step does not add to what an asset has left, but by rounding.         *)
NotRepaired(x) == Remaining(x)' <= Remaining(x) + RoundedUp(x)

(* Wear is permanent: putting a tool down, selling it and picking it up    *)
(* again never restores durability (unequip.rs writes the worn value back  *)
(* before it closes the tool account).                                     *)
NeverRepaired == [][\A x \in Assets : NotRepaired(x)]_toolVars

(* A step takes at most n from what an asset has left.                     *)
WornWithin(x, n) == Remaining(x) <= Remaining(x)' + n
=============================================================================
