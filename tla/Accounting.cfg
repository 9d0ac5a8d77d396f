SPECIFICATION Spec
CONSTANTS
  NotFound = NotFound
  NoTx = NoTx
  gov = gov
  op = op
  a1 = a1
  a2 = a2
  c1 = c1
  reward = reward
  Users = {u1, u2}
  Admins = {gov}
  Assets = {a1}
  Cw20Assets = {}
  RewardDenom = reward
  Validators = {v1}
  FlakyValidators = {}
  DecimalFractional = 2
  MaxUint128 = 1000
  InitialConfig <- OneAdmin
  Amounts = {1, 2}
  Distributions <- OnlyA1
  MaxStake = 3
  MaxEmission = 3
INVARIANTS
  TypeOK
  TotalsMatchBalances
  UserRateNeverAhead
  PendingAnswered
PROPERTIES
  ImplementsRewardAccounts
  ShownIsPaid
  StakersShareAlike
