---------------------------- MODULE SignedDecimal ----------------------------
(***************************************************************************)
(* SignedDecimal (packages/alliance-protocol/src/signed_decimal.rs), the   *)
(* sign-and-magnitude number in which the oracle reckons emissions.        *)
(* Magnitudes are Decimals: a caller states Fits(...) of them as a guard.  *)
(***************************************************************************)
EXTENDS CosmwasmMath

Sign == {"Positive", "Negative"}

(* Zero has two representations that the derived PartialEq tells apart.    *)
SignedDecimals == [value : Nat, sign : Sign]

(* The number that a SignedDecimal stands for.                             *)
Number(x) == IF x.sign = "Positive" THEN x.value ELSE -x.value

Opposite(sign) == IF sign = "Positive" THEN "Negative" ELSE "Positive"

(* from_atomics, of a Decimal given by its atomics, keeps the sign of a    *)
(* zero; from_decimal does not.  Mutant: it does as well.                  *)
SignedFromAtomics(d, sign) == [value |-> d, sign |-> sign]
FromDecimalKeepingSign(d, sign) == [value |-> d, sign |-> sign]
FromDecimal(d, sign) == [value |-> d, sign |-> IF d = 0 THEN "Positive" ELSE sign]

Zero == [value |-> 0, sign |-> "Positive"]

(* to_decimal is an error for a negative number.                           *)
ToDecimalOk(x) == x.sign = "Positive"

(* Mutant: with opposite signs the result takes the sign on the left.      *)
AddWithLeftSign(x, y) ==
  IF x.sign = y.sign THEN FromDecimal(x.value + y.value, x.sign)
  ELSE IF x.value > y.value THEN FromDecimal(x.value - y.value, x.sign)
  ELSE FromDecimal(y.value - x.value, x.sign)
Add(x, y) ==
  IF x.sign = y.sign THEN FromDecimal(x.value + y.value, x.sign)
  ELSE IF x.value > y.value THEN FromDecimal(x.value - y.value, x.sign)
  ELSE FromDecimal(y.value - x.value, y.sign)

Sub(x, y) ==
  IF x.sign # y.sign THEN FromDecimal(x.value + y.value, x.sign)
  ELSE IF x.value > y.value THEN FromDecimal(x.value - y.value, x.sign)
  ELSE FromDecimal(y.value - x.value, Opposite(x.sign))

(* Mutant: the sign of the right operand is not looked at.                 *)
LeftSign(x, y) == x.sign
ProductSign(x, y) == IF x.sign = y.sign THEN "Positive" ELSE "Negative"

Mul(x, y) == FromDecimal(DecimalMul(x.value, y.value), ProductSign(x, y))

(* y.value # 0, or the crate panics.                                       *)
Div(x, y) == FromDecimal(DecimalDiv(x.value, y.value), ProductSign(x, y))

(* The string-encoded form, in which a query answers: a minus sign or not, *)
(* and a Decimal.                                                          *)
Display(x) == [minus |-> x.sign = "Negative" /\ x.value # 0, decimal |-> x.value]

(* Parsing does not go through from_decimal: "-0" is a negative zero.      *)
FromStr(text) ==
  [value |-> text.decimal, sign |-> IF text.minus THEN "Negative" ELSE "Positive"]
=============================================================================
