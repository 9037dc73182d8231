---------------------------- MODULE MCCoalLedger ----------------------------
(***************************************************************************)
(* Small instances of CoalLedger.  The program's quantities are scaled     *)
(* down together: a minute is 3 ticks, an epoch 2 minutes, a full bus 4    *)
(* to 12 grains.                                                          *)
(***************************************************************************)
EXTENDS CoalLedger, TLC

CONSTANTS a1, a2, m1, x1, x2, b1, b2

(* Half of the guild stake, and a guild config as the guilds program       *)
(* creates it, before anybody has staked.                                  *)
SomeGuilds ==
  { [stake |-> 2, total_stake |-> 4, total_multiplier |-> 2],
    [stake |-> 0, total_stake |-> 0, total_multiplier |-> 1] }

NoGuilds == {}

(* The same pickaxe, issued to anyone. *)
Pickaxes ==
  { [holder |-> a, custody |-> "wallet", durability |-> 8, multiplier |-> 100] :
      a \in Authorities }

NoAssets == {}

(* Authorities are interchangeable, and so are assets and buses. *)
Interchangeable ==
  Permutations(Authorities) \cup Permutations(Assets) \cup Permutations(Buses)
=============================================================================
