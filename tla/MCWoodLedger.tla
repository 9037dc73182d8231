---------------------------- MODULE MCWoodLedger ----------------------------
(***************************************************************************)
(* Small instances of WoodLedger: a minute is 3 ticks, an epoch 2 minutes, *)
(* a bus holds 2 to 8 grains.                                              *)
(***************************************************************************)
EXTENDS WoodLedger, TLC

CONSTANTS a1, a2, m1, x1, b1, b2

(* The same axe, issued to anyone. *)
Axes ==
  { [holder |-> a, custody |-> "wallet", durability |-> 3, multiplier |-> 100] :
      a \in Authorities }

NoAssets == {}

(* Authorities are interchangeable, and so are buses. *)
Interchangeable == Permutations(Authorities) \cup Permutations(Buses)
=============================================================================
