SPECIFICATION Spec
CONSTANTS
  NotFound = NotFound
  NoTx = NoTx
  gov = gov
  op = op
  a1 = a1
  a2 = a2
  c1 = c1
  reward = reward
  Users = {u1}
  Admins = {gov}
  Assets = {a1}
  Cw20Assets = {}
  RewardDenom = reward
  Validators = {v1, v2}
  FlakyValidators = {v2}
  DecimalFractional = 1
  MaxUint128 = 1000
  InitialConfig <- OneAdmin
  Amounts = {1}
  Distributions <- OnlyA1
  MaxStake = 1
  MaxEmission = 3
INVARIANTS
  TempBalanceOfThisUpdate
  DelegationsTracked
PROPERTIES
  UpdateCollectsEverything
  UpdatesEnd
