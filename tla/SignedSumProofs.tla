--------------------------- MODULE SignedSumProofs ---------------------------
(***************************************************************************)
(* Proofs about SignedDecimal: its operations compute what they stand for, *)
(* for every width, and a sum of any length stays exact.                   *)
(***************************************************************************)
EXTENDS SignedSum, TLAPS

(* from_decimal keeps the number and yields no negative zero.              *)
LEMMA FromDecimalNumber ==
  ASSUME NEW d \in Nat, NEW sign \in Sign
  PROVE  /\ FromDecimal(d, sign) \in SignedDecimals
         /\ Number(FromDecimal(d, sign)) = IF sign = "Positive" THEN d ELSE -d
         /\ FromDecimal(d, sign).sign = "Positive" <=> Number(FromDecimal(d, sign)) >= 0
BY DEF FromDecimal, SignedDecimals, Sign, Number

(* Adding two SignedDecimals of whatever signs, negative zero included,    *)
(* adds the numbers; the result is positive unless it is below zero.       *)
THEOREM AddExact ==
  ASSUME NEW x \in SignedDecimals, NEW y \in SignedDecimals
  PROVE  /\ Add(x, y) \in SignedDecimals
         /\ Number(Add(x, y)) = Number(x) + Number(y)
         /\ Add(x, y).sign = "Positive" <=> Number(x) + Number(y) >= 0
<1>1. /\ x.value \in Nat /\ x.sign \in Sign
      /\ y.value \in Nat /\ y.sign \in Sign
  BY DEF SignedDecimals
<1>2. CASE x.sign = y.sign
  <2>1. /\ Add(x, y) = FromDecimal(x.value + y.value, x.sign)
        /\ x.value + y.value \in Nat
    BY <1>1, <1>2 DEF Add
  <2> QED  BY <1>1, <1>2, <2>1, FromDecimalNumber DEF Number, Sign
<1>3. CASE x.sign # y.sign /\ x.value > y.value
  <2>1. /\ Add(x, y) = FromDecimal(x.value - y.value, x.sign)
        /\ x.value - y.value \in Nat
    BY <1>1, <1>3 DEF Add
  <2> QED  BY <1>1, <1>3, <2>1, FromDecimalNumber DEF Number, Sign
<1>4. CASE x.sign # y.sign /\ ~(x.value > y.value)
  <2>1. /\ Add(x, y) = FromDecimal(y.value - x.value, y.sign)
        /\ y.value - x.value \in Nat
    BY <1>1, <1>4 DEF Add
  <2> QED  BY <1>1, <1>4, <2>1, FromDecimalNumber DEF Number, Sign
<1> QED  BY <1>2, <1>3, <1>4

(* Subtraction adds the opposite, which is how its four cases of signs are *)
(* checked in one step.                                                    *)
LEMMA SubIsAddOfOpposite ==
  ASSUME NEW x \in SignedDecimals, NEW y \in SignedDecimals
  PROVE  LET opposite == [value |-> y.value, sign |-> Opposite(y.sign)]
         IN  /\ opposite \in SignedDecimals
             /\ Number(opposite) = -Number(y)
             /\ Sub(x, y) = Add(x, opposite)
BY DEF SignedDecimals, Sign, Opposite, Number, Sub, Add

(* Subtracting subtracts the numbers.                                      *)
THEOREM SubExact ==
  ASSUME NEW x \in SignedDecimals, NEW y \in SignedDecimals
  PROVE  /\ Sub(x, y) \in SignedDecimals
         /\ Number(Sub(x, y)) = Number(x) - Number(y)
         /\ Sub(x, y).sign = "Positive" <=> Number(x) - Number(y) >= 0
<1> DEFINE opposite == [value |-> y.value, sign |-> Opposite(y.sign)]
<1>1. /\ opposite \in SignedDecimals
      /\ Number(opposite) = -Number(y)
      /\ Sub(x, y) = Add(x, opposite)
  BY SubIsAddOfOpposite
<1>2. Number(x) \in Int /\ Number(y) \in Int
  BY DEF Number, SignedDecimals
<1> HIDE DEF opposite
<1>3. /\ Add(x, opposite) \in SignedDecimals
      /\ Number(Add(x, opposite)) = Number(x) + Number(opposite)
      /\ Add(x, opposite).sign = "Positive" <=> Number(x) + Number(opposite) >= 0
  BY <1>1, AddExact
<1> QED  BY <1>1, <1>2, <1>3

(* What goes through the string form keeps its number, and a negative zero *)
(* comes out positive.                                                     *)
THEOREM RoundTrip ==
  ASSUME NEW x \in SignedDecimals
  PROVE  /\ FromStr(Display(x)) \in SignedDecimals
         /\ Number(FromStr(Display(x))) = Number(x)
         /\ FromStr(Display(x)).sign = "Positive" <=> Number(x) >= 0
<1>1. CASE x.sign = "Negative" /\ x.value # 0
  <2>1. Display(x).minus /\ Display(x).decimal = x.value
    BY <1>1, Zenon DEF Display
  <2>2. FromStr(Display(x)) = [value |-> x.value, sign |-> "Negative"]
    BY <2>1, Zenon DEF FromStr
  <2> QED  BY <1>1, <2>2 DEF SignedDecimals, Sign, Number
<1>2. CASE ~(x.sign = "Negative" /\ x.value # 0)
  <2>1. ~Display(x).minus /\ Display(x).decimal = x.value
    BY <1>2, Zenon DEF Display
  <2>2. FromStr(Display(x)) = [value |-> x.value, sign |-> "Positive"]
    BY <2>1, Zenon DEF FromStr
  <2> QED  BY <1>2, <2>2 DEF SignedDecimals, Sign, Number
<1> QED  BY <1>1, <1>2
-----------------------------------------------------------------------------
(* The sum is a SignedDecimal that stands for the exact number, with the   *)
(* sign of that number.                                                    *)
SumInv ==
  /\ sum \in SignedDecimals
  /\ exact \in Int
  /\ SumIsExact
  /\ ZeroIsPositive

LEMMA OperandsType == Operands \subseteq SignedDecimals
<1> DEFINE read == { FromStr(text) : text \in [minus : BOOLEAN, decimal : Decimals] }
           built == { SignedFromAtomics(d, s) : d \in Decimals, s \in Sign }
           converted == { FromDecimal(d, s) : d \in Decimals, s \in Sign }
<1>1. read \subseteq SignedDecimals
  <2>1. ASSUME NEW text \in [minus : BOOLEAN, decimal : Decimals]
        PROVE  FromStr(text) \in SignedDecimals
    <3>1. text.decimal \in Nat
      BY DecimalsAssumption
    <3>2. (IF text.minus THEN "Negative" ELSE "Positive") \in Sign
      BY DEF Sign
    <3> QED
      BY <3>1, <3>2 DEF FromStr, SignedDecimals
  <2> QED
    BY <2>1
<1>2. built \subseteq SignedDecimals
  BY DecimalsAssumption DEF SignedFromAtomics, SignedDecimals
<1>3. converted \subseteq SignedDecimals
  <2>1. ASSUME NEW d \in Decimals, NEW s \in Sign
        PROVE  FromDecimal(d, s) \in SignedDecimals
    BY DecimalsAssumption DEF FromDecimal, SignedDecimals, Sign
  <2> QED
    BY <2>1
<1>4. Operands = read \cup built \cup converted
  BY DEF Operands
<1> HIDE DEF read, built, converted
<1> QED
  BY <1>1, <1>2, <1>3, <1>4

LEMMA NumberInt == \A x \in SignedDecimals : Number(x) \in Int
BY DEF Number, SignedDecimals

LEMMA SumInvInit == Init => SumInv
BY DEF Init, SumInv, Zero, SignedDecimals, Sign, SumIsExact, ZeroIsPositive, Number, ToDecimalOk

LEMMA SumInvNext == SumInv /\ [Next]_vars => SumInv'
<1> SUFFICES ASSUME SumInv, [Next]_vars PROVE SumInv'
  OBVIOUS
<1>1. /\ sum \in SignedDecimals /\ exact \in Int
      /\ Number(sum) = exact
      /\ sum.sign = "Positive" <=> exact >= 0
  BY DEF SumInv, SumIsExact, ZeroIsPositive, ToDecimalOk
<1>2. CASE \E y \in Operands : AddAssign(y)
  <2>1. PICK y \in SignedDecimals : AddAssign(y)
    BY <1>2, OperandsType
  <2>2. sum' = Add(sum, y) /\ exact' = exact + Number(y)
    BY <2>1 DEF AddAssign
  <2> QED  BY <1>1, <2>2, AddExact, NumberInt DEF SumInv, SumIsExact, ZeroIsPositive, ToDecimalOk
<1>3. CASE \E y \in Operands : Subtract(y)
  <2>1. PICK y \in SignedDecimals : Subtract(y)
    BY <1>3, OperandsType
  <2>2. sum' = Sub(sum, y) /\ exact' = exact - Number(y)
    BY <2>1 DEF Subtract
  <2> QED  BY <1>1, <2>2, SubExact, NumberInt DEF SumInv, SumIsExact, ZeroIsPositive, ToDecimalOk
<1>4. CASE Pass
  BY <1>1, <1>4, RoundTrip DEF Pass, SumInv, SumIsExact, ZeroIsPositive, ToDecimalOk
<1>5. CASE UNCHANGED vars
  BY <1>1, <1>5 DEF vars, SumInv, SumIsExact, ZeroIsPositive, ToDecimalOk
<1> QED  BY <1>2, <1>3, <1>4, <1>5 DEF Next

(* However long the sequence of operations, the sum is the exact one.      *)
THEOREM SumAlwaysExact == Spec => []SumIsExact
<1>1. SumInv => SumIsExact  BY DEF SumInv
<1> QED  BY SumInvInit, SumInvNext, <1>1, PTL DEF Spec

(* to_decimal refuses a sum exactly when it is below zero.                 *)
THEOREM SumZeroPositive == Spec => []ZeroIsPositive
<1>1. SumInv => ZeroIsPositive  BY DEF SumInv
<1> QED  BY SumInvInit, SumInvNext, <1>1, PTL DEF Spec
-----------------------------------------------------------------------------
(* Products and quotients.                                                 *)

LEMMA ProductNat ==
  ASSUME NEW m \in Nat, NEW n \in Nat
  PROVE  m * n \in Nat
OBVIOUS

LEMMA DivBounds ==
  ASSUME NEW m \in Nat, NEW n \in Nat, n > 0
  PROVE  /\ m \div n \in Nat
         /\ (m \div n) * n <= m
         /\ m - (m \div n) * n < n
OBVIOUS

LEMMA Negated ==
  ASSUME NEW m \in Int, NEW n \in Int
  PROVE  /\ (-m) * n = -(m * n) /\ m * (-n) = -(m * n) /\ (-m) * (-n) = m * n
OBVIOUS

(* Two numbers of one sign, the smaller magnitude less than d away.        *)
RoundsToZero(rounded, number, d) ==
  /\ rounded * number >= 0
  /\ Magnitude(rounded) <= Magnitude(number)
  /\ Magnitude(number) - Magnitude(rounded) < d

LEMMA MagnitudesRound ==
  ASSUME NEW m \in Nat, NEW n \in Nat, NEW d \in Nat, m <= n, n - m < d
  PROVE  RoundsToZero(m, n, d) /\ RoundsToZero(-m, -n, d)
<1>1. m * n >= 0 /\ (-m) * (-n) = m * n
  BY ProductNat, Negated
<1>2. /\ Magnitude(m) = m /\ Magnitude(n) = n
      /\ Magnitude(-m) = m /\ Magnitude(-n) = n
  BY DEF Magnitude
<1> QED
  BY <1>1, <1>2 DEF RoundsToZero

LEMMA MulRounds ==
  ASSUME NEW x \in SignedDecimals, NEW y \in SignedDecimals
  PROVE  RoundsToZero(Number(Mul(x, y)) * DecimalFractional, Number(x) * Number(y),
                      DecimalFractional)
<1> DEFINE m == x.value
           n == y.value
           DF == DecimalFractional
           q == (m * n) \div DF
<1>1. /\ m \in Nat /\ n \in Nat /\ DF \in Nat /\ DF > 0
      /\ x.sign \in Sign /\ y.sign \in Sign
  BY DecimalFractionalAssumption DEF SignedDecimals
<1>2. /\ Number(x) = IF x.sign = "Positive" THEN m ELSE -m
      /\ Number(y) = IF y.sign = "Positive" THEN n ELSE -n
  BY DEF Number
<1>3. Mul(x, y) = FromDecimal(q, ProductSign(x, y)) /\ ProductSign(x, y) \in Sign
  BY DEF Mul, DecimalMul, ProductSign, Sign
<1>4. m * n \in Nat
  BY <1>1, ProductNat
<1>5. q \in Nat /\ q * DF \in Nat /\ q * DF <= m * n /\ m * n - q * DF < DF
  BY <1>1, <1>4, DivBounds, ProductNat
<1> HIDE DEF m, n, DF, q
<1>6. Number(Mul(x, y)) = IF x.sign = y.sign THEN q ELSE -q
  BY <1>3, <1>5, FromDecimalNumber DEF ProductSign
<1>7. Number(x) * Number(y) = IF x.sign = y.sign THEN m * n ELSE -(m * n)
  BY <1>1, <1>2, Negated DEF Sign
<1>8. Number(Mul(x, y)) * DF = IF x.sign = y.sign THEN q * DF ELSE -(q * DF)
  BY <1>1, <1>5, <1>6, Negated
<1>9. RoundsToZero(q * DF, m * n, DF) /\ RoundsToZero(-(q * DF), -(m * n), DF)
  BY <1>1, <1>4, <1>5, MagnitudesRound
<1>10. RoundsToZero(Number(Mul(x, y)) * DF, Number(x) * Number(y), DF)
  BY <1>7, <1>8, <1>9
<1> QED
  BY <1>10 DEF DF

LEMMA DivRounds ==
  ASSUME NEW x \in SignedDecimals, NEW y \in SignedDecimals, y.value # 0
  PROVE  RoundsToZero(Number(Div(x, y)) * Number(y), Number(x) * DecimalFractional, y.value)
<1> DEFINE m == x.value
           n == y.value
           DF == DecimalFractional
           q == (m * DF) \div n
<1>1. /\ m \in Nat /\ n \in Nat /\ n > 0 /\ DF \in Nat
      /\ x.sign \in Sign /\ y.sign \in Sign
  BY DecimalFractionalAssumption DEF SignedDecimals
<1>2. /\ Number(x) = IF x.sign = "Positive" THEN m ELSE -m
      /\ Number(y) = IF y.sign = "Positive" THEN n ELSE -n
  BY DEF Number
<1>3. Div(x, y) = FromDecimal(q, ProductSign(x, y)) /\ ProductSign(x, y) \in Sign
  BY DEF Div, DecimalDiv, ProductSign, Sign
<1>4. m * DF \in Nat
  BY <1>1, ProductNat
<1>5. q \in Nat /\ q * n \in Nat /\ q * n <= m * DF /\ m * DF - q * n < n
  BY <1>1, <1>4, DivBounds, ProductNat
<1> HIDE DEF m, n, DF, q
<1>6. Number(Div(x, y)) = IF x.sign = y.sign THEN q ELSE -q
  BY <1>3, <1>5, FromDecimalNumber DEF ProductSign
<1>7. Number(Div(x, y)) * Number(y) = IF x.sign = "Positive" THEN q * n ELSE -(q * n)
  BY <1>1, <1>2, <1>5, <1>6, Negated DEF Sign
<1>8. Number(x) * DF = IF x.sign = "Positive" THEN m * DF ELSE -(m * DF)
  BY <1>1, <1>2, Negated
<1>9. RoundsToZero(q * n, m * DF, n) /\ RoundsToZero(-(q * n), -(m * DF), n)
  BY <1>1, <1>4, <1>5, MagnitudesRound
<1>10. RoundsToZero(Number(Div(x, y)) * Number(y), Number(x) * DF, n)
  BY <1>7, <1>8, <1>9
<1> QED
  BY <1>10 DEF DF, n

(* Products and quotients of the sum have the sign of the exact result and *)
(* lose less than one atomic, whatever signs meet.                         *)
THEOREM ProductsAlwaysRound == Spec => []ProductsRoundToZero
<1>1. SumInv => ProductsRoundToZero
  <2> SUFFICES ASSUME SumInv, NEW y \in Operands
               PROVE  /\ RoundsToZero(Number(Mul(sum, y)) * DecimalFractional,
                                      exact * Number(y), DecimalFractional)
                      /\ y.value # 0 =>
                           RoundsToZero(Number(Div(sum, y)) * Number(y),
                                        exact * DecimalFractional, y.value)
    BY DEF ProductsRoundToZero, RoundsToZero
  <2>1. sum \in SignedDecimals /\ y \in SignedDecimals /\ exact = Number(sum)
    BY OperandsType DEF SumInv, SumIsExact
  <2> QED
    BY <2>1, MulRounds, DivRounds
<1> QED
  BY <1>1, SumInvInit, SumInvNext, PTL DEF Spec
=============================================================================
