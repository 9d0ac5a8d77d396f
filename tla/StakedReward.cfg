SPECIFICATION Spec
CONSTANTS
  NotFound = NotFound
  NoTx = NoTx
  gov = gov
  op = op
  a1 = a1
  a2 = a2
  c1 = c1
  reward = reward
  Users = {u1, u2}
  Admins = {gov}
  Assets = {reward}
  Cw20Assets = {}
  RewardDenom = reward
  Validators = {}
  FlakyValidators = {}
  DecimalFractional = 2
  MaxUint128 = 6
  InitialConfig <- OneAdmin
  Amounts = {1, 2}
  Distributions <- OnlyReward
  MaxStake = 3
  MaxEmission = 3
INVARIANTS
  Solvent
  RewardsClaimable
  UpdatesSucceed
PROPERTIES
  SurplusNeverSpent
  RewardsNotForfeited
  DustKept
