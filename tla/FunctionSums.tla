---------------------------- MODULE FunctionSums ----------------------------
(***************************************************************************)
(* The sum of an integer-valued function over a finite set of its domain.  *)
(* The ledgers use it for "the rewards left in all buses" and "the         *)
(* balances of all proofs".  It is a recursive function on the subsets of  *)
(* the set, and not the fold of the community modules, because             *)
(* RewardTheorems proves facts about it for sets of any finite size.       *)
(***************************************************************************)
EXTENDS Integers

SumOver(f, S) ==
  LET sum[T \in SUBSET S] ==
        IF T = {} THEN 0
        ELSE LET x == CHOOSE y \in T : TRUE
             IN  f[x] + sum[T \ {x}]
  IN  sum[S]
=============================================================================
