SPECIFICATION Spec
CONSTANTS
  NotFound = NotFound
  NoTx = NoTx
  gov = gov
  op = op
  a1 = a1
  a2 = a2
  c1 = c1
  reward = reward
  Users = {u1, c1}
  Admins = {gov}
  Assets = {a1, c1}
  Cw20Assets = {c1}
  RewardDenom = reward
  Validators = {}
  FlakyValidators = {}
  DecimalFractional = 6
  MaxUint128 = 1000
  InitialConfig <- OneAdmin
  Amounts = {1}
  Distributions <- Halves
  MaxStake = 2
  MaxEmission = 1
INVARIANT
  HookUnstakes
