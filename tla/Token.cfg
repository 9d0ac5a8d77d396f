SPECIFICATION TokenSpec
CONSTANTS
  NotFound = NotFound
  NoTx = NoTx
  gov = gov
  op = op
  v1 = v1
  v2 = v2
  v3 = v3
  reward = reward
  Admins = {gov, op}
  Validators = {v1, v2, v3}
  RewardDenom = reward
  InitialConfig <- TwoAdmins
  ConfigUpdates <- HandOver
  TotalSupply = 2
  Amounts = {0, 1, 2}
  MaxMessages = 2
INVARIANT
  TokensAccounted
PROPERTIES
  DelegationsAllOrNothing
  DelegatesAsHub
