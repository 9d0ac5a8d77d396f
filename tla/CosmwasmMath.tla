---------------------------- MODULE CosmwasmMath ----------------------------
(***************************************************************************)
(* The fixed-width arithmetic the contracts compute with: Uint128 and      *)
(* Decimal of the crate cosmwasm_std 1.5, which is not part of the         *)
(* repository.  A Decimal is represented by its atomics, the integer that  *)
(* stands for atomics / DecimalFractional; both types are 128 bits wide.   *)
(*                                                                         *)
(* The crate panics on overflow and on underflow, which aborts the         *)
(* transaction: a caller states Fits(...) of each intermediate result as a *)
(* guard.                                                                  *)
(***************************************************************************)
EXTENDS Integers

CONSTANTS
  DecimalFractional,  \* atomics of 1.0: 10^18 in the crate
  MaxUint128          \* 2^128 - 1 in the crate

ASSUME DecimalFractionalAssumption == DecimalFractional \in Nat \ {0}
ASSUME MaxUint128Assumption == MaxUint128 \in Nat

(* The result of a checked operation: it neither overflows nor underflows. *)
Fits(n) == 0 <= n /\ n <= MaxUint128

Percent100 == DecimalFractional

(* Decimal::from_atomics(n, 0), an error unless the result Fits. *)
FromAtomics(n) == n * DecimalFractional

(* Decimal * Decimal and Decimal / Decimal round down; the intermediate    *)
(* product is 256 bits wide.                                               *)
DecimalMul(d, e) == (d * e) \div DecimalFractional
DecimalDiv(d, e) == (d * DecimalFractional) \div e

(* Decimal::to_uint_floor and Decimal * Uint128. *)
ToUintFloor(d) == d \div DecimalFractional
MulUint(d, n) == (d * n) \div DecimalFractional
=============================================================================
