# Alliance Hub: a TLA+ model

The repository holds two CosmWasm contracts and a package they share.  The
*Alliance Hub* lets holders of whitelisted assets stake them, delegates a virtual
token to validators through the chain's alliance module, collects the rewards of
those delegations and shares them out to the stakers.  The *Alliance Oracle* keeps
prices and alliance data that an off-chain feeder posts, and reckons how much value
each staked asset brings.  This directory models both, checks the models with TLC on
small instances and proves the most important properties with TLAPS for every value
of the constants.

To parse, check and prove:

    tlasany AllianceHub.tla
    tlc -workers 2 -config Accounting.cfg MCAllianceHub
    tlapm AllianceHubProofs.tla

## 1. Inventory

| Component | State | Operations | Status |
|---|---|---|---|
| Hub: staking ledger (`contracts/alliance-hub/src/contract.rs`, `state.rs`) | `BALANCES`, `TOTAL_BALANCES`, `USER_ASSET_REWARD_RATE`, `UNCLAIMED_REWARDS` | `stake`, `unstake`, `receive_cw20`, `claim_rewards`, `_claim_reward` | modelled |
| Hub: reward updates | `ASSET_REWARD_RATE`, `TEMP_BALANCE` | `update_rewards`, `reply`, `update_reward_callback` | modelled |
| Hub: governance | `CONFIG`, `WHITELIST`, `ASSET_REWARD_DISTRIBUTION` | `whitelist_assets`, `remove_assets`, `set_asset_reward_distribution`, `update_config` | modelled |
| Hub: delegation | `VALIDATORS` | `alliance_delegate`, `alliance_undelegate`, `alliance_redelegate` | modelled |
| Hub: instantiate, alliance token (`token_factory.rs`) | `CONFIG` | `instantiate`, `reply` (create denom), mint, metadata | modelled |
| Hub: queries (`query.rs`) | none | nine read-only queries | modelled |
| Hub: migration (`migrations.rs`) | every map, re-keyed | `migrate` and seven `migrate_*` | modelled |
| Hub: rebalancing by the oracle | | commented out in the source (654-742) | not modelled |
| `SignedDecimal` (`packages/alliance-protocol/src/signed_decimal.rs`) | a value | four operations, string form | modelled |
| Oracle (`contracts/alliance-oracle/src`, `alliance_oracle_types.rs`) | `LUNA_INFO`, `CHAINS_INFO`, `CONFIG` | `update_chains_info`, six queries | modelled |
| Arithmetic of `cosmwasm_std` | | `Uint128`, `Decimal` | modelled as external |
| Message types, errors, schemas | | the messages are the disjuncts of `Next` | partly |
| Deployment scripts | | | not modelled |

How they interact.  Users and administrators send messages to the hub, one
transaction each.  A cw20 contract calls `receive_cw20` after it moved tokens to the
hub.  The hub answers with messages of its own: transfers (bank or cw20), delegation
messages and reward claims to the alliance module, messages to the token factory when
it is created, and, at the end of `UpdateRewards`, a call of itself.  The alliance
module pays rewards into the hub's bank balance, on a claim or whenever a delegation
changes; anyone may send coins there as well.  In the deployed variant the hub does not
call the oracle: that code is commented out.

What is hard here:

- *One balance, three meanings.*  When the reward denom is itself staked, the hub's bank
  balance mixes stakes, rewards not yet allotted and rewards allotted but unclaimed.
  An update recognises what it collected only as a difference of two readings, taken
  in two messages with calls of other modules in between.
- *Failure in the middle.*  A validator may refuse the claim, which is caught; the
  callback may fail, which takes back the claims that succeeded; of the entries of a
  delegation message one may fail after others moved tokens; a migration may fail after
  it has rewritten some of the maps.
- *Lazy accounting.*  Rewards are a rate per asset and a rate per user; three handlers
  settle the difference and each does something else with it and with the remainder.
  A query computes the same difference by other operations.
- *Two books.*  Totals are maintained beside the balances and divided by.
- *Fixed width.*  Every step of the arithmetic can panic, and a panic blocks the message.
- *Administration between user messages.*  Assets are removed while staked, roles change
  hands, delegations move to validators nobody named in a delegation message.
- *Two encodings in one place.*  A migration rewrites each map under new keys in the
  namespace it has; code that meets a key of the other encoding fails.

What makes each component correct:

- ledger: the total of an asset is the sum of the stakes; a stake can be taken back;
  what the query promises is owned by the hub, can be claimed and is what a claim pays;
- updates: each starts from a fresh reading, ends, collects from every validator,
  allots exactly by the distribution and never overflows;
- governance: no sequence of its messages loses a rate or locks a stake;
- delegation: every validator with a delegation is asked for rewards; a message of
  several entries is done as a whole or not at all;
- token: the recorded supply is what there is, wherever it is;
- queries: listings, single answers and totals agree;
- migration: the hub goes on as if nothing had happened, or is refused for a known reason;
- signed decimals: results are exact, or rounded toward zero, and zero is positive;
- oracle: expiring queries never mix updates, the emissions query divides by no zero,
  answers each chain apart from the others and shares out no more than its value.

## 2. Modules

| Module | Content |
|---|---|
| `CosmwasmMath` | widths and rounding of `Uint128` and `Decimal`; a `Decimal` is its atomics, and a panic is a failed guard `Fits(...)` |
| `Sums`, `SumLemmas` | finite sums, and what is proved of them |
| `AllianceHub` | the hub, the alliance module and the bank as far as the hub sees them |
| `AllianceHubProperties` | its invariants, action properties, liveness, and the refinement mapping |
| `HubQueries` | the queries, and how they agree with the ledger, with a claim and with each other |
| `RewardAccounts` | abstract specification: accounts with a stake and a debt, and a pool that pays debts |
| `AllianceHubProofs`, `SolvencyProofs`, `PayoutProofs` | proofs about the hub |
| `AllianceToken`, `AllianceTokenProofs` | the alliance token, its creation and its delegation message by message; implements `AllianceHub` |
| `HubUpgrade`, `HubUpgradeProofs` | `migrate` between the messages of `AllianceHub`, on raw entries; implements `AllianceHub` |
| `SignedDecimal` | the operators of `SignedDecimal` |
| `SignedSum`, `SignedSumProofs` | a running sum of signed decimals beside the integer it stands for; proofs |
| `AllianceOracle`, `AllianceOracleProperties`, `AllianceOracleProofs` | the oracle and what is expected of it |
| `MCAllianceHub`, `MCAllianceToken`, `MCHubUpgrade`, `MCAllianceOracle` | distributions, roles, chains and requests for TLC |

`AllianceHub` stands in the middle.  `RewardAccounts` is what it promises and it is shown
to implement that.  `AllianceToken` and `HubUpgrade` each look more closely at one
aspect (the messages behind a delegation, the storage under a migration) and are shown
to implement `AllianceHub`, so that what holds of it holds of them.

### The hub: state and steps

The variables of `AllianceHub` are the storage items, named as in `state.rs` in camel
case; `NotFound` stands for a key that is not stored, where the code tells that apart
from zero.  Beside them stand five variables of the chain: `holdings` (what the hub owns
of each denom or token), `delegated` and `accrued` (the hub's delegations and the rewards
they have earned), `emitted` (a counter that bounds the model) and `tx`.

A message that returns an error or panics leaves nothing behind, so an action's guard is
the conjunction of everything that makes the handler succeed, named `...Ok` where a
property needs it.  `UpdateRewards` is the one transaction of several messages here: `tx`
holds the claims still to be made and what is restored if it fails (the holdings, the
rewards at the validators and `TEMP_BALANCE`; nothing else changes before the callback).  While it runs no
other transaction does; that is how the chain executes messages.  The steps of it are
`ClaimDelegationRewards`, `ClaimRewardError` (the reply ignores the error),
`UpdateRewardsCallback` and `UpdateRewardsAborts`.  `VALIDATORS` is a hash set, so the
claims come in any order.

Each remaining action is one handler: `ExecuteStake` and `ReceiveStake` (`stake`),
`ExecuteUnstake` and `ReceiveUnstake` (`unstake`), `ClaimRewards`, `WhitelistAssets`,
`RemoveAssets`, `SetAssetRewardDistribution`, `UpdateConfig`, `AllianceDelegate`,
`AllianceUndelegate`, `AllianceRedelegate`.  `_claim_reward` appears as `ClaimRewardOk`,
`ClaimedReward` and `RateAfterClaim`, which the three handlers combine differently, as
the code does.  `HookUnstaker(c, owner) == c` records that the cw20 hook unstakes for
the sender of the message, which is the cw20 contract.

What is abstracted: the amounts delegated (a validator is in `delegated` or not, an
undelegation or redelegation empties some of the validators it names, and the module may
or may not pay out accrued rewards on the way; `AllianceToken` shows that this is what
calls with amounts do), the chain ids of the whitelist, attributes and error texts.
cw20 contracts are well-behaved: they move the tokens they announce.  Coins sent along
with a message that ignores its funds are not modelled, except through `Donate` for the
reward denom.

### Queries

A query changes nothing.  In `HubQueries` it is an operator on the state, with a second
one ending in `Ok` for the condition under which it answers.  Queries that only return a
stored item are the variable itself.

### The alliance token

`AllianceToken` starts before the hub exists.  `hub` is what the contract stores of the
token, with `VALIDATORS` and the two roles that decide about delegations, which
`UpdateConfig` hands over; `tokens` counts the tokens in each place: with the hub, at a
validator, in the unbonding queue or lost to slashing.  A transaction `tx` is the list of
messages that the handler ordered, how many of them are done, and what a failure restores.
`Instantiate` orders the creation of the denom; `CreateReply` is the reply to it, which
records denom and supply and orders the mint and the metadata; `ExecuteMove` is a
delegation, undelegation or redelegation as the alliance module carries it out: it takes
an amount that is there to another place, or fails.  `MessageFails` lets any message fail
for any reason and takes the transaction back, since none of these messages asks for a
reply on an error.  Unbonding completes and validators are slashed between transactions;
a slash takes a part of a delegation, never all of it.  The token factory and the
alliance module are external.

`DelegatesAsHub` instantiates `AllianceHub` with the state the chain has committed (that
from before the running transaction, if one runs), a validator being delegated to if it
holds a token, and with no users.

### Migration

In `HubUpgrade` a hub of an older version runs until `StartMigration`, and after that one
of this version, if the migration ends.  While it runs, `store` holds the raw entries of
the seven namespaces, each under a key that is an encoding ("v2" for `cw-asset` 2, "v3"
for 3) and what it encodes.  `MigrateNamespace` is one `migrate_*` function, in the order
of `migrate_maps`: read all keys, convert them, clear the map, save each value under the
new key.  A cw20 address is validated in the maps, not in the distribution; an asset of
the kind `Cw1155` panics in both (`BadCw20`, `Cw1155Assets`).  `MigrationFails` takes all
of it back.  `FinishMigration` makes the state of `AllianceHub` what the new code can load
from `store`, and nothing of what it cannot.  The previous version of the contract is not
in the repository; its messages are taken to be those of `AllianceHub`, which is what the
migration presumes, since it changes keys and no values.

### The oracle: state and steps

`lunaInfo` and `chainsInfo` are the storage items, `now` is the block time in seconds.
`CONFIG` never changes after `instantiate` and is given as constants.  The expiring
queries are the predicates `LunaInfoOk`, `ChainInfoOk`, `ChainsInfoOk` (the query
answers), the emissions query is `EmissionsDistribution` with the condition
`EmissionsDistributionOk` under which nothing in it fails or panics.  The order of the
chains, chains listed twice, the shared map of rebase factors and both roundings are
kept.  Chain value is reckoned with the operators of `SignedDecimal`.  The loops of the
query appear as what they compute: the first one as the set of positions it picks
(`Requested`) and a running value after each alliance (`AccumulatedValue`), the map of
rebase factors as the last listing of a denom (`DenomRebase`), the second one as a sum
and a share of each asset.  `ChainValueOk` and `SharesOk` hold the intermediate results
that the crate checks, in the order in which the code multiplies.

## 3. Runs

| Run | Instance | What it checks |
|---|---|---|
| `accounting` | two users, one native asset, amounts 1 and 2, up to 3 tokens and 3 rewards, 1 validator, half-unit decimals | `TypeOK`, `TotalsMatchBalances`, `UserRateNeverAhead`, `PendingAnswered`, `ShownIsPaid`, `StakersShareAlike`, and that the hub implements `RewardAccounts` |
| `staked_reward` | two users, the reward denom as the only asset, one or two entries for it, the narrowest width that is enough | `Solvent`, `RewardsClaimable`, `UpdatesSucceed`, `SurplusNeverSpent`, `RewardsNotForfeited`, `DustKept` |
| `cw20` | a user and a cw20 contract, a native and a cw20 asset, half of the rewards to each, the half of the cw20 asset in two entries of two thirds and one third of it, eighteenths as decimals, the narrowest width that is enough | `StakesWithdrawable`, `SharesAreProportional` |
| `delegation` | two validators, one of them flaky, three rewards | `TempBalanceOfThisUpdate`, `DelegationsTracked`, `UpdateCollectsEverything`, and `UpdatesEnd` under fairness |
| `governance` | two administrators, two assets, two valid distributions and an invalid one | `StakesWithdrawable`, `StakingOpenOtherwise`, `EntriesComplete`, `ListingsComplete`, `RatesNeverFall` |
| `upgrade` | a user, an administrator, an asset that converts, one with a bad address, one of the kind cw1155, two older versions | `EncodingsSeparated`, `OnlyTheseBlock`, `UpgradeCarriesOver` |
| `token` | 2 tokens, 3 validators, up to two entries per message with amounts 0 to 2, two administrators who change places | `TokensAccounted`, `DelegationsAllOrNothing`, `DelegatesAsHub` |
| `signed_sum` | decimals up to 7 of either sign, sums up to 60 | `SumIsExact`, `ZeroIsPositive`, `ProductsRoundToZero` |
| `oracle` | two chains in 28 combinations, an unknown third, stakes of 0 to 3, expiry 1, time up to 3, the narrowest width that is enough | `QueriesAgree`, `ChainValueExact`, `EmissionsAnswered`, `EmissionsShareChainValue`, `ChainsAnsweredApart` |
| `early_claim` | one user, one asset | `StakingOpen` is violated |
| `wide_stake` | a stake of 4 where a `Decimal` holds 3 | `StakesWithdrawable` is violated |
| `hook_unstake` | a user and a cw20 contract | `HookUnstakes` is violated |

Bounds.  `MaxStake` and `MaxEmission` bound the tokens and rewards of a behaviour, not
its length: stakes go in and out any number of times.  Three rewards over up to three
tokens in half units make rewards that divide evenly, that leave a remainder, and that
round to nothing (`RateAfterClaim` takes both of its branches).  An update is sent with
funds or without.  In `cw20` an update allots one reward, to up to two staked units in
shares of nine, six and three eighteenths, so that rates are rounded and an entry that
was forgotten would exceed the rounding that `SharesAreProportional` allows.  Two users are enough
for one to gain at another's expense.  In `staked_reward` and `cw20` the width is the
least for which the stakes and rewards fit a `Decimal` (`MaxUint128 = MaxStake *
DecimalFractional` or `MaxEmission * DecimalFractional`), so that anything computed that
is larger than a stake or than all rewards together would overflow there; in
`wide_stake` it is one short of the stake; elsewhere it is far above every value.  In
`token` two entries over three validators make redelegations that chain, an entry that
fails after one that succeeded, amounts that are zero and amounts that are not there;
a longer message repeats these cases.  In `upgrade` each way in which an asset fails to
convert has an asset, and distributions name any of them.  The oracle's instance has
rebase factors below, at and above one, a denom listed by two chains, chains with a gain,
a loss and neither, and the time runs beyond the expiry of data posted at any of the
first two seconds.  Its chains move at most 59 of value, its rebase factors are at most 3
and at most 5 are staked on one chain (`InstanceFits`, which TLC evaluates, says so), and
its width of 442 is the least that `WidthSuffices` of the oracle allows for these.

Fairness.  `Safety` of the hub is `Init` and `Next`; `Spec` adds `WF_vars(TxStep)`: the
chain executes the messages of a transaction it has begun, within the same block.
Nothing else is fair: no user, no administrator and no validator has to act.
`UpdatesEnd` follows, because `update_rewards` orders one claim per validator of a finite
set and the reply never orders another.

### What the properties say

- `Solvent`: the hub owns every stake, and of the reward denom on top of its stakes
  everything `get_pending_rewards` shows to anybody.  Needs that floors never add up to
  more than was collected, on the allotting side and on the paying side, and that an
  update never takes a stake for a reward.
- `SurplusNeverSpent`: what the hub owns of the reward denom beyond stakes and exact
  debts never shrinks.  Rewards that reach the hub outside an update are part of it: they
  stay with the hub for good, and no claim or update pays them to anyone.
- `RewardsNotForfeited`: the surplus does not grow by a whole reward in a message of a
  user either: whoever stakes, withdraws or claims, nobody loses more than a fraction.
- `DustKept`: who claims again and again does not lose everything a fraction at a time.
  What a stake has earned since its rate was last moved on is, while it is less than one
  reward, left where it is by a claim, and by a withdrawal in proportion to what remains.
  (A further stake moves the rate on and may give up such a fraction.)
- `StakersShareAlike`: an update raises the debt to each account by its stake times one
  and the same rate increase, and no other step raises any debt: who stakes more gets no
  reward that was collected before.
- `RewardsClaimable`, `StakesWithdrawable`: between any two transactions the claim of a
  promised reward, and the unstaking of a whole stake, succeed, their transfers included.
- `StakingOpenOtherwise`: between two transactions a whitelisted asset can be staked by
  everybody but those who claimed it before they ever staked it (finding 1), whatever was
  removed and whitelisted again.
- `UpdatesSucceed`: with a distribution, and a width that suffices for all stakes and all
  rewards, as the instance has it and the theorem assumes it, the callback never fails.  A rate grows by
  rewards over stake, so the smallest stake makes it grow fastest; still no rate exceeds
  the rewards that ever arrived.
- `EntriesComplete`: every entry that a claim or a query loads without a default is
  there, whatever was staked, claimed, removed and whitelisted again.
- `SharesAreProportional`: over a whole update, with everything it collected, what the
  stakers of an asset are allotted is the asset's share, less than one atomic per staked
  unit and entry below it.
- `UpdateCollectsEverything`: after an update no reward is left at a validator with a
  delegation, whichever delegations were moved before and whichever claims failed.
- `TempBalanceOfThisUpdate`: `TEMP_BALANCE` exists only during an update and is the balance
  from before it.  The subtraction at `contract.rs:543` needs the bank balance to be *at
  least* what was sent (the comment there says "greater", which fails for an empty hub;
  nothing depends on it).
- `RewardAccounts`: four steps, `ChangeStake`, `Fund`, `Allot` and `Pay`.  Each step of the
  hub is one of them or changes none of stakes, debts and pool: a change of stake changes
  no debt, a debt is paid once and in full, and only stakers are allotted rewards.
- `ShownIsPaid`: the query multiplies a rate by a `Uint128`, a claim multiplies two
  decimals and floors; a claim pays what the query showed and changes no other answer.
- `PendingAnswered`: the query for one account answers for everybody who ever staked.
- `ListingsComplete`: the listing of a user's rewards goes through the user's rates and
  misses no reward, of removed assets neither; the listing of a user's stakes goes through
  the whitelist, and a stake that it leaves out for that reason is named in the listing of
  rewards and among the totals.
- `EncodingsSeparated`: no `migrate_*` function meets a key of the other encoding, or
  leaves one behind.  `OnlyTheseBlock`: a migration fails exactly if no distribution was
  ever set, if the distribution names a cw1155 asset, or if an asset that does not convert
  was ever whitelisted: removing it does not help, because its rate stays.
  `UpgradeCarriesOver`: no step of a migration changes what the hub stores, entry for
  entry, so that a hub with migrations in it is a behaviour of `AllianceHub`.
- `TokensAccounted`: the recorded supply of the recorded denom is what all places hold
  together, also in the middle of a delegation; a creation that failed left nothing.
  `DelegationsAllOrNothing`: a delegation message does all it asks for, `VALIDATORS`
  included, or nothing.  `DelegatesAsHub`: see above.
- `QueriesAgree`: whoever combines the price of LUNA with chain data gets both from one
  update or is refused both.
- `ChainValueExact`: the value of a chain is what its alliances bring less what they cost,
  however often the running value changes its sign.
- `EmissionsAnswered`: whatever is staked, nothing at all included, no query fails.
- `EmissionsShareChainValue`: the shares of a chain's assets have the sign of its value,
  add up to no more than it, and to less only by the rounding of each.
- `ChainsAnsweredApart`: a chain gets the answer it would get if it were the only one asked
  about.  The query keeps one map of rebase factors for all chains, so the property says
  when that holds: unless another chain lists a denom staked here with a different factor.

## 4. Findings

1. *A claim before the first stake locks the user out* (`early_claim`, `contract.rs:405`).
   `claim_rewards` of a whitelisted asset the user never staked saves the user's rate.
   `_claim_reward` takes a stored rate as proof of a stored balance and fails from then on,
   and `stake` calls it first.  `EarlyClaimIsFinal` proves that no message of anybody
   repairs it, and `StakingAlwaysOpenOtherwise` that nobody else is turned away.
2. *A stake can be too wide to be taken back* (`wide_stake`, `contract.rs:407`).  `stake`
   accepts a `Uint128`; `_claim_reward` needs it to fit a `Decimal`, 10^18 times less.
3. *The cw20 hook cannot unstake for a user* (`hook_unstake`, `contract.rs:184`).  Only the
   stake of the cw20 contract itself is looked up.  `ExecuteMsg::Unstake` does serve
   cw20 stakes, and it is the message the passing runs rely on.

Observed and left open: the emissions query ignores expiry (`_env` at
`alliance-oracle/src/contract.rs:152`), with no text that says otherwise; rewards that reach
the hub between updates stay in the pool and are never allotted; `get_chains_info` of an
empty list answers at any age; the repository's `README.md:162` shows the asset kind
`Cw1155`, which the version of `cw-asset` in use does not parse and which blocks an upgrade
of a hub that ever whitelisted one; the `PartialOrd` that `SignedDecimal` derives compares
magnitudes before signs, but nothing compares two of them.

## 5. Proofs

All theorems hold for every value of the constants that satisfies the named assumptions:
users, assets and validators are finite sets, cw20 contracts are both assets and accounts,
the marks `NotFound` and `NoTx` are none of the values they stand beside, distributions
are sequences of an asset and a natural number, and the width and precision of decimals
are arbitrary.  Some of the theorems about the hub assume `WidthSuffices` on top: one
whole, all stakes and all rewards fit a `Decimal`.  The contract checks none of that, and
`wide_stake` shows what happens without it; with `MaxStake` and `MaxEmission` standing for
any amounts it is an assumption on the tokens that exist, not on the behaviour.  The
oracle has a `WidthSuffices` of its own, on the messages that may be posted and the
requests that may be made: what the alliances of a chain move, the largest rebase factor
and the largest stake, and their product, fit a `Decimal`.

| Theorem | Result | Argument |
|---|---|---|
| `TypeCorrect` | `Safety => []TypeOK` | inductive by itself: a subtraction is either guarded by the handler, or its result is guarded by `Fits` as the crate does |
| `UserRateBehind` | `[]UserRateNeverAhead` | inductive with the type invariant: a user's rate is only ever set to the asset's, which steps never lower |
| `RatesMonotonic` | `RatesNeverFall` | from the type invariant; an update adds a sum of naturals, whitelisting keeps a rate that exists |
| `TempBalanceFresh` | `[]TempBalanceOfThisUpdate` | inductive with the type invariant |
| `DelegationsAlwaysTracked` | `[]DelegationsTracked` | inductive |
| `TotalsAlwaysMatch` | `[]TotalsMatchBalances` | inductive; rests on `SumUpdate` |
| `EntriesAlwaysComplete` | `[]EntriesComplete` | inductive with the type invariant |
| `HubSolvent` | `[]Solvent` | from the inductive invariant `SolvencyInv`, see below |
| `SurplusMonotonic` | `SurplusNeverSpent` | step by step from the same facts |
| `NoRewardForfeited` | `RewardsNotForfeited` | from the same facts: a settled debt is paid but for the remainder of a division (`ClaimSettles`) |
| `StakersAlwaysShareAlike` | `StakersShareAlike` | the callback changes nothing of a debt but the asset's rate (`CallbackGives`), a rate that exists is changed by nothing else (`KnownRatesKept`) |
| `EarlyClaimIsFinal` | a claim before the first stake shuts the user out of the asset for good | by kind of message: each that writes a balance or a rate of the account calls `_claim_reward`, which fails |
| `UpdatesAdvance` | each step during an update ends it or leaves one claim fewer | the safety half of `UpdatesEnd` |
| `AlwaysWithdrawable`, `AlwaysClaimable`, `AlwaysAnswered` | `WidthSuffices => (Safety => []...)` of `StakesWithdrawable`, `RewardsClaimable`, `PendingAnswered` | from `PayoutInv`, see below |
| `StakingAlwaysOpenOtherwise` | `WidthSuffices => (Safety => []StakingOpenOtherwise)` | from the same invariant and `EntriesComplete` |
| `UpdatesAlwaysSucceed` | `WidthSuffices => (Safety => []UpdatesSucceed)` | from `PayoutInv` |
| `DustAlwaysKept` | `DustKept` | a claim of what floors to zero keeps the rate, any other gain is a whole reward; a withdrawal scales the rest by the remaining stake |
| `ShownAlwaysPaid` | `ShownIsPaid` | a claim, which rounds twice, earns what the query rounds once (`ClaimIsEarned`), and leaves a rate gain of nothing or a reward that rounds to nothing |
| `ListingsAlwaysComplete` | `[]ListingsComplete` | from `EntriesComplete` and `TotalsMatchBalances`: a stake is part of a total |
| `UpdatesAlwaysCollect` | `WidthSuffices => (Safety => UpdateCollectsEverything)` | inductive invariant `ClaimsInv`: a validator with a delegation is still to be asked, has nothing left, or is flaky; the callback does not fail |
| `SharesAlwaysProportional` | `WidthSuffices => (Safety => SharesAreProportional)` | the remainder of each entry is bounded by its two roundings and summed over the entries of an asset |
| `HubRefinesAccounts` | `Safety => ImplementsRewardAccounts` | one lemma per kind of message: which step of `RewardAccounts` it is, or that it is none |
| `UpgradeRefinesHub` | `UpgradeSpec => Safety`, with the `Safety` of `AllianceHub` | invariant: `store` is the state of the hub under keys that are new up to `migrated` and old beyond, so what is loaded at the end is what was there |
| `UpgradeLosesNothing` | `UpgradeSpec => UpgradeCarriesOver` | the same invariant |
| `UpgradedHubSolvent`, `UpgradedHubPays` | `UpgradeSpec => []Solvent`, and with `WidthSuffices` `[](StakesWithdrawable /\ RewardsClaimable)` | the refinement and the theorems about the hub |
| `UpgradeSeparatesEncodings`, `BlockedExactly` | `[]EncodingsSeparated`, `OnlyTheseBlock` | the same invariant, and `EntriesComplete` for the keys that occur |
| `TokensAlwaysAccounted`, `DelegationsAtomic` | `[]TokensAccounted`, `DelegationsAllOrNothing` | invariant: what the executed part of the message list moved lies between the tokens of before and of now |
| `TokenRefinesHub` | `TokenSpec => DelegatesAsHub` | a commit is the step of `AllianceHub` with the validators that were emptied; everything before is a stutter |
| `AddExact`, `SubExact`, `RoundTrip` | operations of `SignedDecimal` | cases of signs; subtraction is addition of the opposite |
| `SumAlwaysExact`, `SumZeroPositive` | `[]SumIsExact`, `[]ZeroIsPositive` | inductive together |
| `ProductsAlwaysRound` | `[]ProductsRoundToZero` | bounds of a quotient of naturals, with the sign on either side |
| `QueriesAlwaysAgree` | `[]QueriesAgree` | from `OracleInv`: what is stored is what one message posted, with the time of one block; the first entry of a chain exists because positions are well-founded |
| `ChainsAlwaysAnsweredApart` | `[]ChainsAnsweredApart` | the last listing of a denom among the requested chains, where it counts, has the factor it has for the chain alone (`LastIsGreatest`) |
| `ChainValueAlwaysExact` | `[]ChainValueExact` | along the positions of the alliances, see below |
| `EmissionsAlwaysShareChainValue` | `[]EmissionsShareChainValue` | each share is off by two roundings, summed over the assets of the chain |
| `EmissionsAlwaysAnswered` | the oracle's `WidthSuffices` implies `Spec => []EmissionsAnswered` | every part of a sum is at most the sum, a share at most the value; an asset with a share has a total that is not zero |

`Solvent` is not inductive: the promises of the query are rounded down, and the sum of
rounded promises may grow by more than an update brings.  `SolvencyInv` counts the exact
debt to an account instead, in fractions of a reward: what is set aside, plus rate gain
times stake.  It says that the sum of all debts is at most what the hub owned beyond its
stakes before the running update, if one runs, and that the update took nothing away.
A message of a user lowers one debt by at least what it pays and by less than one reward
more (`ClaimSettles`: the reward moved or paid is floored, and the rest is either dropped
with the rate or kept with it); the first half keeps the hub solvent, the second is
`RewardsNotForfeited`.
The callback raises all debts together by the sum over the entries of total stake times
rate increase (`GainsAreAllotted`, which needs `TotalsMatchBalances` and counts an asset
listed twice twice), and each entry allots at most its share of what was collected
although it is rounded twice (`EntryAllots`, `EntriesAllot`), where what was
collected is measured from this update's own reading (`TempBalanceOfThisUpdate`).  A
query rounds each debt down, so the promises are covered too.  The theorem needs no
bound on the width: a computation that does not fit aborts its transaction.

That nothing overflows needs more than that.  `SolvencyInv` bounds what is due to one
user by the pool; `PayoutInv` bounds the pool itself and every rate.  Its part
`CollectedInv` accounts for a running update (what left the validators or was sent along
is what the balance has grown by), and `ArrivedInv` says that neither the pool nor any
rate exceeds the rewards that arrived at the hub.  For a rate this is not obvious: an
update adds rewards over stake in fractions, so that a stake of one unit adds as many
whole rewards as were collected, and never more; hence the smallest stake is the worst
case and still bounded by everything that ever arrived.  Together with `WidthSuffices`
every guard `Fits(...)` of a claim, a withdrawal and the callback holds.

`SumLemmas` proves what sums over finite sets satisfy.  A sum is defined by a fold, whose
recursion the provers do not unfold; `SumOverIsPartialSum` characterises it by a function
on subsets instead, which exists and is unique because a smallest counterexample would
have a smaller one, and every other lemma follows from `SumPick` and `SumRemove`; sums
are linear (`SumAdd`, `SumScale`) and may be taken by groups (`SumByGroups`).

The value of a chain is proved the same way: `AccumulatedValue` is a function of the
number of alliances passed, which takes on the values its definition asks for, and a
smallest position at which it differed from the sums of what was brought and what was
lost would have a smaller one.

Only model-checked: `UpdatesEnd`, since liveness under fairness is beyond the provers in
use; `UpdatesAdvance` proves that what it must rule out besides a chain that stops, an
update that goes on for ever, does not happen.

## 6. Plan

Done, in this order: `CosmwasmMath`, `AllianceHub` with its properties and runs,
`RewardAccounts`, `SumLemmas`, `AllianceHubProofs` and `SolvencyProofs`, `SignedDecimal`,
`AllianceOracle`; then `HubUpgrade`, `HubQueries`, `AllianceToken`, the runs on a narrow
width, and `PayoutProofs` with the proof that the hub implements `RewardAccounts`.

Then the proofs about the emissions query, for which its loops were put as functions on
positions; `RewardsNotForfeited`, `StakersShareAlike`, `StakingOpenOtherwise`,
`UpgradeCarriesOver` and `ChainValueExact`, each with its run and its proof.
Last `DustKept`, `ListingsComplete` and `ChainsAnsweredApart`, and the hand-over of roles in
`AllianceToken`.

What could follow: an abstract oracle (one snapshot with one time) that `AllianceOracle`
is shown to implement; and, if the rebalancing code is enabled, a module that composes
the hub with the oracle.

## 7. Not modelled

- Rebalancing by the oracle (`contract.rs:654-742`): commented out, it cannot run.
- Deployment scripts: operator tooling outside the contracts.
- Texts of errors, attributes of responses, generated schemas: no behaviour depends on
  them.  The message types appear as the disjuncts of `Next`; `BurnTokens` of the token
  factory is never sent.
- The chain's modules (bank, alliance, token factory) and cw20 contracts are external and
  modelled as far as the hub calls them.
