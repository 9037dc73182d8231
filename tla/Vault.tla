------------------------------- MODULE Vault -------------------------------
(***************************************************************************)
(* What the program promises the owners of a resource, with no epochs,     *)
(* buses, hashes, supply or tools: a balance changes for one owner at a    *)
(* time; it grows by what is earned or deposited, and what leaves it       *)
(* arrives somewhere.  Nothing leaves the vault that was in no balance;    *)
(* what else there is outside has been issued there.                       *)
(***************************************************************************)
EXTENDS Naturals

CONSTANT Owners

VARIABLES
  balance, \* what each owner can withdraw
  outside, \* what is not in the vault
  given,   \* what came to the vault and belongs to nobody
  issued   \* what was issued beside the vault, over its life

vaultVars == <<balance, outside, given, issued>>

VaultInit ==
  /\ balance = [a \in Owners |-> 0]
  /\ outside = 0 /\ given = 0 /\ issued = 0

Earn(a) ==
  /\ balance'[a] >= balance[a]
  /\ balance' = [balance EXCEPT ![a] = balance'[a]]
  /\ UNCHANGED <<outside, given, issued>>

Withdraw(a, n) ==
  /\ n <= balance[a]
  /\ balance' = [balance EXCEPT ![a] = @ - n]
  /\ outside' = outside + n
  /\ UNCHANGED <<given, issued>>

(* a withdraws to nobody. *)
Forfeit(a, n) ==
  /\ n <= balance[a]
  /\ balance' = [balance EXCEPT ![a] = @ - n]
  /\ given' = given + n
  /\ UNCHANGED <<outside, issued>>

Deposit(a, n) ==
  /\ n <= outside
  /\ balance' = [balance EXCEPT ![a] = @ + n]
  /\ outside' = outside - n
  /\ UNCHANGED <<given, issued>>

Give(n) ==
  /\ n <= outside
  /\ outside' = outside - n
  /\ given' = given + n
  /\ UNCHANGED <<balance, issued>>

Destroy(n) ==
  /\ n <= outside
  /\ outside' = outside - n
  /\ UNCHANGED <<balance, given, issued>>

(* What is issued goes to somebody outside, or to the vault and nobody.    *)
Issue ==
  /\ issued' >= issued
  /\ \/ outside' = outside + (issued' - issued) /\ UNCHANGED given
     \/ given' = given + (issued' - issued) /\ UNCHANGED outside
  /\ UNCHANGED balance

VaultNext ==
  \/ \E a \in Owners : Earn(a)
  \/ \E a \in Owners : \E n \in 0 .. balance[a] : Withdraw(a, n) \/ Forfeit(a, n)
  \/ \E a \in Owners : \E n \in 0 .. outside : Deposit(a, n)
  \/ \E n \in 0 .. outside : Give(n) \/ Destroy(n)
  \/ Issue

VaultSpec == VaultInit /\ [][VaultNext]_vaultVars
=============================================================================
