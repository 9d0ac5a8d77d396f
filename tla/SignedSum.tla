------------------------------ MODULE SignedSum ------------------------------
(***************************************************************************)
(* Reckoning with SignedDecimals: a value that is added to, subtracted     *)
(* from and passed between contracts as a string, as the oracle does with  *)
(* the value of a chain, beside the integer it stands for.                 *)
(***************************************************************************)
EXTENDS SignedDecimal

CONSTANT Decimals  \* the Decimals that operands are made of

ASSUME DecimalsAssumption == Decimals \subseteq Nat

VARIABLES
  sum,   \* the SignedDecimal
  exact  \* the number it stands for, in atomics

vars == <<sum, exact>>

(* What is read from a string or built from atomics, a negative zero       *)
(* included, and what is built from a Decimal.                             *)
Operands ==
  { FromStr(text) : text \in [minus : BOOLEAN, decimal : Decimals] }
  \cup { SignedFromAtomics(d, s) : d \in Decimals, s \in Sign }
  \cup { FromDecimal(d, s) : d \in Decimals, s \in Sign }

Init ==
  /\ sum = Zero
  /\ exact = 0

AddAssign(y) ==
  /\ sum' = Add(sum, y)
  /\ Fits(sum'.value)
  /\ exact' = exact + Number(y)

Subtract(y) ==
  /\ sum' = Sub(sum, y)
  /\ Fits(sum'.value)
  /\ exact' = exact - Number(y)

(* The sum is written as a string by one contract and read by another.     *)
Pass ==
  /\ sum' = FromStr(Display(sum))
  /\ UNCHANGED exact

Next ==
  \/ \E y \in Operands : AddAssign(y) \/ Subtract(y)
  \/ Pass

Spec == Init /\ [][Next]_vars
-----------------------------------------------------------------------------
(* No sequence of additions, subtractions and conversions loses anything,  *)
(* whatever signs meet and whichever magnitude is the larger.              *)
SumIsExact == Number(sum) = exact

(* A result is never the negative zero that parsing can yield, so that     *)
(* to_decimal is an error for results below zero only and equal results    *)
(* are equal for the derived PartialEq.                                    *)
ZeroIsPositive == ToDecimalOk(sum) <=> exact >= 0

Magnitude(n) == IF n < 0 THEN -n ELSE n

(* Multiplying and dividing what the sum may be rounds toward zero, by     *)
(* less than one atomic, and the sign is that of the exact result.         *)
ProductsRoundToZero ==
  \A y \in Operands :
    LET product == Number(Mul(sum, y)) * DecimalFractional
        exactProduct == exact * Number(y)
    IN  /\ product * exactProduct >= 0
        /\ Magnitude(product) <= Magnitude(exactProduct)
        /\ Magnitude(exactProduct) - Magnitude(product) < DecimalFractional
        /\ y.value # 0 =>
             LET quotient == Number(Div(sum, y)) * Number(y)
                 dividend == exact * DecimalFractional
             IN  /\ quotient * dividend >= 0
                 /\ Magnitude(quotient) <= Magnitude(dividend)
                 /\ Magnitude(dividend) - Magnitude(quotient) < y.value
=============================================================================
