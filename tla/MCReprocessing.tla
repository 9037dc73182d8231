--------------------------- MODULE MCReprocessing ---------------------------
(***************************************************************************)
(* A small ledger without tools and guilds, in which a minute is 3 ticks   *)
(* and a reprocessor is due after 2 slots and late after 3.                *)
(***************************************************************************)
EXTENDS Reprocessing

CONSTANTS a1, a2, m1, b1

NoGuilds == {}
NoAssets == {}
=============================================================================
