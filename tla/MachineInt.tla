----------------------------- MODULE MachineInt -----------------------------
(***************************************************************************)
(* The unsigned machine integers of the program.  Its u64 has 64 bits; the *)
(* width is a parameter so that a model can reach the limits.  A checked   *)
(* operation that fails is an `unwrap` panic in the program: the models    *)
(* guard with "the exact result is in U64".  Saturating operations and     *)
(* `as` casts are operators here.                                          *)
(***************************************************************************)
EXTENDS Integers

CONSTANT U64Bits

ASSUME U64BitsAssumption == U64Bits \in Nat \ {0}

(* Powers of two that a u64 computation can meet; a function and not       *)
(* Integers!^ because RewardTheorems has to reason about its values.       *)
Pow2[n \in 0 .. U64Bits] == IF n = 0 THEN 1 ELSE 2 * Pow2[n - 1]

U64Max == Pow2[U64Bits] - 1
U64 == 0 .. U64Max

(* The largest product of two u64 values plus both: u128 has double width. *)
U128Max == Pow2[U64Bits] * Pow2[U64Bits] - 1

Lesser(a, b) == IF a <= b THEN a ELSE b
Greater(a, b) == IF a >= b THEN a ELSE b

SatAdd(a, b) == Lesser(a + b, U64Max)
SatSub(a, b) == IF a >= b THEN a - b ELSE 0
SatMul(a, b) == Lesser(a * b, U64Max)

(* 2u64.saturating_pow(n) *)
SatPow2(n) == IF n < U64Bits THEN Pow2[n] ELSE U64Max

(* `n as u64` for a wider n keeps the low bits. *)
AsU64(n) == n % Pow2[U64Bits]
=============================================================================
