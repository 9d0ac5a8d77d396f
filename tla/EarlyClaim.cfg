SPECIFICATION Spec
CONSTANTS
  NotFound = NotFound
  NoTx = NoTx
  gov = gov
  op = op
  a1 = a1
  a2 = a2
  c1 = c1
  reward = reward
  Users = {u1}
  Admins = {gov}
  Assets = {a1}
  Cw20Assets = {}
  RewardDenom = reward
  Validators = {}
  FlakyValidators = {}
  DecimalFractional = 2
  MaxUint128 = 1000
  InitialConfig <- OneAdmin
  Amounts = {1}
  Distributions <- OnlyA1
  MaxStake = 2
  MaxEmission = 1
INVARIANT
  StakingOpen
