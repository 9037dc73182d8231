----------------------------- MODULE MCAccounts -----------------------------
(***************************************************************************)
(* Two authorities, of whom one initialises chromium, two miners, two      *)
(* pickaxes and an axe.                                                    *)
(***************************************************************************)
EXTENDS Accounts, TLC

CONSTANTS a1, a2, m1, m2, x1, x2, x3

PickaxesAndAxe == x1 :> "coal" @@ x2 :> "coal" @@ x3 :> "wood"
=============================================================================
