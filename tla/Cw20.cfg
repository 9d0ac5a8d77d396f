SPECIFICATION Spec
CONSTANTS
  NotFound = NotFound
  NoTx = NoTx
  gov = gov
  op = op
  a1 = a1
  a2 = a2
  c1 = c1
  reward = reward
  Users = {u1, c1}
  Admins = {gov}
  Assets = {a1, c1}
  Cw20Assets = {c1}
  RewardDenom = reward
  Validators = {}
  FlakyValidators = {}
  DecimalFractional = 18
  MaxUint128 = 36
  InitialConfig <- OneAdmin
  Amounts = {1}
  Distributions <- Halves
  MaxStake = 2
  MaxEmission = 1
INVARIANT
  StakesWithdrawable
PROPERTY
  SharesAreProportional
