----------------------------- MODULE ToolsProofs -----------------------------
(***************************************************************************)
(* Proofs about the custody of pickaxes, for any number of owners, miners  *)
(* and assets.  Every action is treated in a lemma of its own, so that     *)
(* the ledger, whose steps contain these actions, can cite them.           *)
(***************************************************************************)
EXTENDS Tools, RewardTheorems

(* The error of an attribute is a number. *)
LEMMA AttributeErrorType == ASSUME NEW d \in U64 PROVE AttributeError(d) \in Nat
<1>1. d \in Nat /\ ATTRIBUTE_PRECISION \in Nat /\ ATTRIBUTE_PRECISION > 0
  BY U64MaxPositive, IssuedAssetsAssumption DEF U64
<1> QED
  BY <1>1 DEF AttributeError

(* Reading a durability adds at most the error of its attribute, and costs *)
(* at most a unit more than that.                                          *)
LEMMA FromAttributeType ==
  ASSUME NEW d \in U64, NEW e \in FromAttribute(d)
  PROVE  /\ e \in U64
         /\ e <= d + AttributeError(d) /\ d <= e + 1 + AttributeError(d)
  BY AttributeErrorType, U64MaxPositive DEF FromAttribute, U64

(* What rounding may add or take is a number. *)
LEMMA RoundingType ==
  ASSUME ToolTypeOK, NEW x \in Assets
  PROVE  RoundedUp(x) \in Nat /\ Rounding(x) \in Nat
<1>1. AttributeError(asset[x].durability) \in Nat
  BY AttributeErrorType DEF ToolTypeOK, Asset
<1> QED
  BY <1>1 DEF RoundedUp, Rounding

(* An asset that keeps what it has left is not repaired, and is within any *)
(* wear.                                                                   *)
LEMMA Unworn ==
  ASSUME ToolTypeOK, NEW x \in Assets, Remaining(x) \in Nat, Remaining(x)' = Remaining(x),
         NEW n \in Nat
  PROVE  NotRepaired(x) /\ WornWithin(x, n)
  BY RoundingType DEF NotRepaired, WornWithin

(* Equip keeps types and custody, repairs nothing and costs nothing but    *)
(* rounding.                                                               *)
LEMMA EquipStep ==
  ASSUME ToolTypeOK, CustodyMatches,
         NEW a \in Authorities, NEW m \in Miners, NEW x \in Assets, Equip(a, m, x)
  PROVE  ToolTypeOK' /\ CustodyMatches'
         /\ \A y \in Assets : NotRepaired(y) /\ WornWithin(y, Rounding(y))
<1>1. PICK d \in FromAttribute(asset[x].durability) :
        tool' = [c \in DOMAIN tool \cup {a} |->
                   IF c = a
                   THEN [miner |-> m, asset |-> x, durability |-> d,
                         multiplier |-> asset[x].multiplier]
                   ELSE tool[c]]
  BY DEF Equip
<1>2. asset' = [asset EXCEPT ![x].custody = "tool"]
  BY DEF Equip
<1>3. asset[x].holder = a /\ asset[x].custody = "wallet" /\ a \notin DOMAIN tool
  BY DEF Equip
<1>4. d \in U64
  BY FromAttributeType DEF ToolTypeOK, Asset
<1>11. /\ d <= asset[x].durability + AttributeError(asset[x].durability)
       /\ asset[x].durability <= d + 1 + AttributeError(asset[x].durability)
  BY FromAttributeType DEF ToolTypeOK, Asset
<1>12. /\ asset[x].durability \in Nat /\ d \in Nat
       /\ AttributeError(asset[x].durability) \in Nat
  BY <1>4, AttributeErrorType, U64MaxPositive DEF ToolTypeOK, Asset
<1>5. ToolTypeOK'
  <2>1. tool' \in [DOMAIN tool \cup {a} -> Tool]
    BY <1>1, <1>4 DEF ToolTypeOK, Tool, Asset
  <2>2. asset' \in [Assets -> Asset]
    BY <1>2 DEF ToolTypeOK, Asset
  <2> QED
    BY <2>1, <2>2 DEF ToolTypeOK
<1>6. \A y \in Assets : y # x => asset'[y] = asset[y]
  BY <1>2 DEF ToolTypeOK
<1>7. asset'[x].custody = "tool" /\ asset'[x].holder = a
      /\ asset'[x].durability = asset[x].durability
  BY <1>2, <1>3 DEF ToolTypeOK, Asset
<1>8. DOMAIN tool' = DOMAIN tool \cup {a} /\ tool'[a].asset = x /\ tool'[a].durability = d
      /\ \A c \in DOMAIN tool : tool'[c] = tool[c]
  BY <1>1, <1>3
<1>9. CustodyMatches'
  <2>1. \A c \in DOMAIN tool : tool[c].asset \in Assets /\ tool[c].asset # x
    BY <1>3 DEF CustodyMatches, ToolTypeOK, Tool
  <2> QED
    BY <1>3, <1>6, <1>7, <1>8, <2>1 DEF CustodyMatches
<1>10. ASSUME NEW y \in Assets
       PROVE  NotRepaired(y) /\ WornWithin(y, Rounding(y))
  <2>1. CASE y = x
    <3>1. Remaining(x)' = d /\ Remaining(x) = asset[x].durability
      BY <1>3, <1>7, <1>8 DEF Remaining
    <3>2. /\ RoundedUp(x) = AttributeError(asset[x].durability)
          /\ Rounding(x) = 1 + AttributeError(asset[x].durability)
      BY <1>3, <1>7 DEF RoundedUp, Rounding, PutToWork
    <3> QED
      BY <1>11, <1>12, <2>1, <3>1, <3>2 DEF NotRepaired, WornWithin
  <2>2. CASE y # x
    <3>1. Remaining(y)' = Remaining(y)
      BY <1>6, <1>8, <2>2 DEF Remaining, CustodyMatches
    <3>2. Remaining(y) \in Nat
      BY U64MaxPositive DEF Remaining, ToolTypeOK, Tool, Asset, CustodyMatches
    <3>3. Rounding(y) \in Nat
      BY RoundingType
    <3> QED
      BY <3>1, <3>2, <3>3, Unworn
  <2> QED
    BY <2>1, <2>2
<1> QED
  BY <1>5, <1>9, <1>10

(* Remaining durability is a number while custody matches. *)
LEMMA RemainingType ==
  ASSUME ToolTypeOK, CustodyMatches, NEW x \in Assets
  PROVE  Remaining(x) \in Nat
  BY U64MaxPositive DEF Remaining, ToolTypeOK, Tool, Asset, CustodyMatches

(* Unequip keeps types and custody, and repairs nothing. *)
LEMMA UnequipStep ==
  ASSUME ToolTypeOK, CustodyMatches,
         NEW a \in Authorities, NEW x \in Assets, Unequip(a, x)
  PROVE  ToolTypeOK' /\ CustodyMatches'
         /\ \A y \in Assets : NotRepaired(y) /\ WornWithin(y, Rounding(y))
<1>1. a \in DOMAIN tool /\ tool[a].asset = x
  BY DEF Unequip
<1>2. DOMAIN tool' = DOMAIN tool \ {a} /\ \A c \in DOMAIN tool \ {a} : tool'[c] = tool[c]
  BY DEF Unequip
<1>3. asset[x].holder = a /\ asset[x].custody = "tool" /\ tool[a] \in Tool
  BY <1>1 DEF CustodyMatches, ToolTypeOK
<1>4. /\ \A y \in Assets : y # x => asset'[y] = asset[y]
      /\ asset'[x].holder = a /\ asset'[x].custody = "wallet"
      /\ asset'[x].durability = tool[a].durability
  BY <1>3 DEF Unequip, ToolTypeOK, Asset
<1>5. ToolTypeOK'
  <2>1. tool' \in [DOMAIN tool \ {a} -> Tool]
    BY DEF ToolTypeOK, Unequip
  <2>2. asset' \in [Assets -> Asset]
    BY <1>3 DEF ToolTypeOK, Asset, Tool, Unequip
  <2> QED
    BY <2>1, <2>2 DEF ToolTypeOK
<1>6. CustodyMatches'
  <2>1. \A c \in DOMAIN tool \ {a} : tool[c].asset \in Assets /\ tool[c].asset # x
    BY <1>3 DEF CustodyMatches, ToolTypeOK, Tool
  <2>2. \A y \in Assets : y # x /\ asset[y].custody = "tool" => asset[y].holder # a
    BY <1>1 DEF CustodyMatches
  <2> QED
    BY <1>2, <1>4, <2>1, <2>2 DEF CustodyMatches
<1>7. \A y \in Assets : Remaining(y)' = Remaining(y)
  <2>1. ASSUME NEW y \in Assets, y # x PROVE Remaining(y)' = Remaining(y)
    <3>1. asset[y].custody = "tool" => asset[y].holder \in DOMAIN tool \ {a}
      BY <1>1, <2>1 DEF CustodyMatches
    <3> QED
      BY <1>2, <1>4, <2>1, <3>1 DEF Remaining
  <2>2. Remaining(x)' = Remaining(x)
    BY <1>3, <1>4 DEF Remaining
  <2> QED
    BY <2>1, <2>2
<1>8. \A y \in Assets : NotRepaired(y) /\ WornWithin(y, Rounding(y))
  <2> TAKE y \in Assets
  <2>1. Rounding(y) \in Nat
    BY RoundingType
  <2> QED
    BY <1>7, <2>1, RemainingType, Unworn
<1> QED
  BY <1>5, <1>6, <1>8

(* Wear keeps types and custody, repairs nothing and costs no more than it *)
(* says.                                                                   *)
LEMMA WearStep ==
  ASSUME ToolTypeOK, CustodyMatches,
         NEW c \in DOMAIN tool, NEW amount \in Nat, Wear(c, amount)
  PROVE  ToolTypeOK' /\ CustodyMatches'
         /\ \A y \in Assets : NotRepaired(y) /\ WornWithin(y, amount)
<1>1. tool[c] \in Tool /\ tool[c].durability \in U64 /\ tool[c].durability \in Nat
  BY U64MaxPositive DEF ToolTypeOK, Tool
<1>2. SatSub(tool[c].durability, amount) \in U64
      /\ SatSub(tool[c].durability, amount) <= tool[c].durability
  BY <1>1, U64MaxPositive DEF SatSub, U64
<1>3. /\ DOMAIN tool' = DOMAIN tool
      /\ \A e \in DOMAIN tool : e # c => tool'[e] = tool[e]
      /\ tool'[c].asset = tool[c].asset
      /\ tool'[c].durability = SatSub(tool[c].durability, amount)
      /\ asset' = asset
  BY <1>1 DEF Wear, ToolTypeOK, Tool
<1>4. ToolTypeOK'
  <2>1. tool' \in [DOMAIN tool -> Tool]
    BY <1>1, <1>2 DEF Wear, ToolTypeOK, Tool
  <2> QED
    BY <1>3, <2>1 DEF ToolTypeOK
<1>5. \A e \in DOMAIN tool : tool'[e].asset = tool[e].asset
  BY <1>3
<1>6. CustodyMatches'
  BY <1>3, <1>5 DEF CustodyMatches
<1>7. ASSUME NEW y \in Assets
      PROVE  NotRepaired(y) /\ WornWithin(y, amount)
  <2>1. CASE asset[y].custody = "tool" /\ asset[y].holder = c
    <3>1. Remaining(y) = tool[c].durability /\ Remaining(y)' = SatSub(tool[c].durability, amount)
      BY <1>3, <2>1 DEF Remaining
    <3>2. SatSub(tool[c].durability, amount) <= tool[c].durability
          /\ tool[c].durability <= SatSub(tool[c].durability, amount) + amount
      BY <1>1 DEF SatSub
    <3>3. RoundedUp(y) \in Nat /\ SatSub(tool[c].durability, amount) \in Nat
      BY <1>2, RoundingType, U64MaxPositive
    <3> QED
      BY <1>1, <3>1, <3>2, <3>3 DEF NotRepaired, WornWithin
  <2>2. CASE ~(asset[y].custody = "tool" /\ asset[y].holder = c)
    <3>1. Remaining(y)' = Remaining(y)
      BY <1>3, <2>2 DEF Remaining, CustodyMatches
    <3> QED
      BY <3>1, RemainingType, Unworn
  <2> QED
    BY <2>1, <2>2
<1> QED
  BY <1>4, <1>6, <1>7

(* Trades keep types and custody, and repair nothing. *)
LEMMA TradeStep ==
  ASSUME ToolTypeOK, CustodyMatches,
         NEW x \in Assets, NEW c \in Authorities, Trade(x, c)
  PROVE  ToolTypeOK' /\ CustodyMatches'
         /\ \A y \in Assets : NotRepaired(y) /\ WornWithin(y, Rounding(y))
<1>1. /\ tool' = tool
      /\ asset[x].custody = "wallet"
      /\ asset' = [asset EXCEPT ![x].holder = c]
  BY DEF Trade
<1>2. /\ \A y \in Assets : y # x => asset'[y] = asset[y]
      /\ asset'[x].custody = "wallet" /\ asset'[x].durability = asset[x].durability
  BY <1>1 DEF ToolTypeOK, Asset
<1>3. ToolTypeOK'
  BY <1>1 DEF ToolTypeOK, Asset
<1>4. CustodyMatches'
  <2>1. \A e \in DOMAIN tool : tool[e].asset \in Assets /\ tool[e].asset # x
    BY <1>1 DEF CustodyMatches, ToolTypeOK, Tool
  <2> QED
    BY <1>1, <1>2, <2>1 DEF CustodyMatches
<1>5. \A y \in Assets : Remaining(y)' = Remaining(y)
  BY <1>1, <1>2 DEF Remaining
<1>6. \A y \in Assets : NotRepaired(y) /\ WornWithin(y, Rounding(y))
  <2> TAKE y \in Assets
  <2>1. Rounding(y) \in Nat
    BY RoundingType
  <2> QED
    BY <1>5, <2>1, RemainingType, Unworn
<1> QED
  BY <1>3, <1>4, <1>6

(* No tool account exists and no asset is in one at the start. *)
LEMMA ToolStart == ToolInit => ToolTypeOK /\ CustodyMatches
<1> SUFFICES ASSUME ToolInit PROVE ToolTypeOK /\ CustodyMatches
  OBVIOUS
<1>1. DOMAIN tool = {} /\ tool \in [DOMAIN tool -> Tool]
  BY DEF ToolInit
<1>2. \A x \in Assets : asset[x] \in Asset /\ asset[x].custody = "wallet"
  BY IssuedAssetsAssumption DEF ToolInit
<1>3. asset \in [Assets -> Asset]
  BY <1>2 DEF ToolInit
<1> QED
  BY <1>1, <1>2, <1>3 DEF ToolTypeOK, CustodyMatches

(* One step of the custody machine. *)
LEMMA ToolStepFacts ==
  ASSUME ToolTypeOK, CustodyMatches, ToolNext
  PROVE  ToolTypeOK' /\ CustodyMatches' /\ \A y \in Assets : NotRepaired(y)
<1>1. CASE \E a \in Authorities, m \in Miners, x \in Assets : Equip(a, m, x)
  BY <1>1, EquipStep
<1>2. CASE \E a \in Authorities, x \in Assets : Unequip(a, x)
  BY <1>2, UnequipStep
<1>3. CASE \E c \in DOMAIN tool : \E amount \in 0 .. tool[c].durability : Wear(c, amount)
  <2>1. PICK c \in DOMAIN tool, amount \in Nat : Wear(c, amount)
    BY <1>3, U64MaxPositive DEF ToolTypeOK, Tool
  <2> QED
    BY <2>1, WearStep
<1>4. CASE \E x \in Assets, c \in Authorities : Trade(x, c)
  BY <1>4, TradeStep
<1> QED
  BY <1>1, <1>2, <1>3, <1>4 DEF ToolNext

(* What handling a tool costs it, beside hashes: nothing but the rounding. *)
LEMMA HandlingFacts ==
  ASSUME ToolTypeOK, CustodyMatches,
         \/ UNCHANGED toolVars
         \/ \E a \in Authorities, m \in Miners, x \in Assets : Equip(a, m, x)
         \/ \E a \in Authorities, x \in Assets : Unequip(a, x)
         \/ \E x \in Assets, c \in Authorities : Trade(x, c)
  PROVE  \A y \in Assets : NotRepaired(y) /\ WornWithin(y, Rounding(y))
<1>1. CASE UNCHANGED toolVars
  <2> TAKE y \in Assets
  <2>1. Remaining(y)' = Remaining(y)
    BY <1>1 DEF toolVars, Remaining
  <2>2. Rounding(y) \in Nat
    BY RoundingType
  <2> QED
    BY <2>1, <2>2, RemainingType, Unworn
<1>2. CASE \E a \in Authorities, m \in Miners, x \in Assets : Equip(a, m, x)
  BY <1>2, EquipStep
<1>3. CASE \E a \in Authorities, x \in Assets : Unequip(a, x)
  BY <1>3, UnequipStep
<1>4. CASE \E x \in Assets, c \in Authorities : Trade(x, c)
  BY <1>4, TradeStep
<1> QED
  BY <1>1, <1>2, <1>3, <1>4

(* The same of a hash that wears one tool by what it charges, or none, and *)
(* stays within n.                                                         *)
LEMMA HashWear ==
  ASSUME ToolTypeOK, CustodyMatches, NEW amount \in Nat, NEW n \in Nat,
         UNCHANGED toolVars \/ \E e \in DOMAIN tool : Wear(e, amount)
  PROVE  \A y \in Assets :
           /\ NotRepaired(y)
           /\ amount <= n => WornWithin(y, n + Rounding(y))
<1> TAKE y \in Assets
<1>1. Rounding(y) \in Nat /\ RoundedUp(y) \in Nat /\ Remaining(y) \in Nat
  BY RoundingType, RemainingType
<1>2. CASE UNCHANGED toolVars
  <2>1. Remaining(y)' = Remaining(y)
    BY <1>2 DEF toolVars, Remaining
  <2> QED
    BY <1>1, <2>1 DEF NotRepaired, WornWithin
<1>3. CASE \E e \in DOMAIN tool : Wear(e, amount)
  <2>1. ToolTypeOK' /\ CustodyMatches' /\ NotRepaired(y) /\ WornWithin(y, amount)
    BY <1>3, WearStep
  <2>2. Remaining(y)' \in Nat
    BY <2>1, U64MaxPositive DEF Remaining, ToolTypeOK, Tool, Asset, CustodyMatches
  <2> QED
    BY <1>1, <2>1, <2>2 DEF WornWithin
<1> QED
  BY <1>2, <1>3

(* Tool accounts and assets keep their types, and an asset is held by a    *)
(* tool PDA exactly when one tool account points to it.                    *)
THEOREM ToolsCustody == ToolSpec => [](ToolTypeOK /\ CustodyMatches)
<1>1. ToolInit => ToolTypeOK /\ CustodyMatches
  BY ToolStart
<1>2. ToolTypeOK /\ CustodyMatches /\ [ToolNext]_toolVars => (ToolTypeOK /\ CustodyMatches)'
  <2> SUFFICES ASSUME ToolTypeOK, CustodyMatches, [ToolNext]_toolVars
               PROVE  (ToolTypeOK /\ CustodyMatches)'
    OBVIOUS
  <2>1. CASE ToolNext
    BY <2>1, ToolStepFacts
  <2>2. CASE UNCHANGED toolVars
    BY <2>2 DEF toolVars, ToolTypeOK, CustodyMatches
  <2> QED
    BY <2>1, <2>2
<1> QED
  BY <1>1, <1>2, PTL DEF ToolSpec

(* Durability never grows but by the rounding of an attribute. *)
THEOREM ToolsNeverRepaired == ToolSpec => NeverRepaired
<1>1. ToolTypeOK /\ CustodyMatches /\ [ToolNext]_toolVars
        => [\A x \in Assets : NotRepaired(x)]_toolVars
  BY ToolStepFacts
<1> QED
  BY <1>1, ToolsCustody, PTL DEF ToolSpec, NeverRepaired
=============================================================================
