SPECIFICATION UpgradeSpec
CONSTANTS
  NotFound = NotFound
  NoTx = NoTx
  gov = gov
  a1 = a1
  bad = bad
  nft = nft
  reward = reward
  Users = {u1}
  Admins = {gov}
  Assets = {a1, bad, nft}
  Cw20Assets = {}
  RewardDenom = reward
  Validators = {}
  FlakyValidators = {}
  DecimalFractional = 1
  MaxUint128 = 1000
  InitialConfig <- OneAdmin
  Amounts = {1}
  Distributions <- ToEach
  MaxStake = 2
  MaxEmission = 2
  BadCw20 = {bad}
  Cw1155Assets = {nft}
  OldVersions = {1, 2}
  ContractVersion = 3
INVARIANT
  EncodingsSeparated
PROPERTIES
  OnlyTheseBlock
  UpgradeCarriesOver
