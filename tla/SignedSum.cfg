SPECIFICATION Spec
CONSTANTS
  DecimalFractional = 3
  MaxUint128 = 60
  Decimals = {0, 1, 2, 3, 7}
INVARIANTS
  SumIsExact
  ZeroIsPositive
  ProductsRoundToZero
