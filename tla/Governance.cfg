SPECIFICATION Spec
CONSTANTS
  NotFound = NotFound
  NoTx = NoTx
  gov = gov
  op = op
  a1 = a1
  a2 = a2
  c1 = c1
  reward = reward
  Users = {u1}
  Admins = {gov, op}
  Assets = {a1, a2}
  Cw20Assets = {}
  RewardDenom = reward
  Validators = {}
  FlakyValidators = {}
  DecimalFractional = 1
  MaxUint128 = 1000
  InitialConfig <- TwoAdmins
  Amounts = {1}
  Distributions <- OneOfTwo
  MaxStake = 2
  MaxEmission = 2
INVARIANTS
  StakesWithdrawable
  StakingOpenOtherwise
  EntriesComplete
  ListingsComplete
PROPERTY
  RatesNeverFall
