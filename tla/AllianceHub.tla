----------------------------- MODULE AllianceHub -----------------------------
(***************************************************************************)
(* The Alliance Hub contract (contracts/alliance-hub/src/contract.rs), the *)
(* part of the chain it talks to, and the transactions that drive it.      *)
(*                                                                         *)
(* An action is one message of a transaction.  A transaction that returns  *)
(* an error or panics changes nothing, so its action is not enabled.  All  *)
(* messages but UpdateRewards are a transaction of their own.              *)
(* UpdateRewards is a transaction of several messages: the message itself, *)
(* one reward claim per validator with a reply on error, and a call of the *)
(* hub to itself that may fail and roll the whole transaction back.  While *)
(* it runs (tx # NoTx) no other transaction does.                          *)
(***************************************************************************)
EXTENDS CosmwasmMath, FiniteSets, Sequences, Sums

CONSTANTS
  Users,            \* addresses that may stake
  Admins,           \* addresses that may hold a role of the config
  Assets,           \* asset infos, native denoms and cw20 contracts
  Cw20Assets,       \* the assets that are cw20 contracts
  RewardDenom,      \* config.reward_denom, which may be one of Assets
  Validators,
  FlakyValidators,  \* validators whose reward claims may fail for any reason
  NotFound,         \* a key that a Map or an Item does not hold
  NoTx              \* no transaction is between two of its messages

CONSTANTS
  InitialConfig,    \* the roles given to instantiate
  Amounts,          \* amounts that messages carry
  Distributions,    \* values of SetAssetRewardDistribution
  MaxStake,         \* bound on the tokens of one asset brought to the hub
  MaxEmission       \* bound on the rewards that ever reach the hub

Roles == {"governance", "controller", "oracle", "operator"}
Distribution == Seq([asset : Assets, distribution : Nat])
Denoms == Assets \cup {RewardDenom}
Accounts == Users \X Assets

(* A running UpdateRewards: the validators still to be asked for rewards,  *)
(* and what the chain restores if the transaction fails.                   *)
Transaction ==
  [claims : SUBSET Validators,
   before : [tempBalance : Nat \cup {NotFound}, holdings : [Denoms -> Nat],
             accrued : [Validators -> Nat], emitted : Nat]]

ASSUME FiniteSetsAssumption ==
  /\ IsFiniteSet(Users) /\ IsFiniteSet(Assets) /\ IsFiniteSet(Validators)
  /\ FlakyValidators \subseteq Validators
  /\ Cw20Assets \subseteq Assets \cap Users
  /\ RewardDenom \notin Cw20Assets
ASSUME InputsAssumption ==
  /\ InitialConfig \in [Roles -> Admins]
  /\ Amounts \subseteq Nat
  /\ Distributions \subseteq Distribution
  /\ MaxStake \in Nat /\ MaxEmission \in Nat
ASSUME NotFoundAssumption ==
  NotFound \notin Nat /\ NotFound \notin Admins /\ NotFound \notin Distribution
ASSUME NoTxAssumption == NoTx \notin Transaction

VARIABLES
  config,                   \* CONFIG: who holds which role
  whitelist,                \* WHITELIST: the assets that may be staked
  balances,                 \* BALANCES: stake of each user and asset
  totalBalances,            \* TOTAL_BALANCES: stake of each asset
  validators,               \* VALIDATORS: validators ever delegated to
  assetRewardDistribution,  \* ASSET_REWARD_DISTRIBUTION
  assetRewardRate,          \* ASSET_REWARD_RATE: rewards per staked unit
  userAssetRewardRate,      \* USER_ASSET_REWARD_RATE: the rate last claimed at
  unclaimedRewards,         \* UNCLAIMED_REWARDS
  tempBalance               \* TEMP_BALANCE: reward balance before an update
VARIABLES
  holdings,    \* what the hub owns of each denom or cw20 token
  delegated,   \* validators the hub has a delegation to
  accrued,     \* rewards of the hub at each validator, not yet claimed
  emitted,     \* rewards that reached the hub or accrued for it
  tx           \* the UpdateRewards transaction that is running, or NoTx

adminVars == <<config, whitelist, validators, assetRewardDistribution>>
ledgerVars == <<balances, totalBalances, userAssetRewardRate, unclaimedRewards>>
chainVars == <<delegated, accrued, emitted>>
vars == <<config, whitelist, balances, totalBalances, validators,
          assetRewardDistribution, assetRewardRate, userAssetRewardRate,
          unclaimedRewards, tempBalance, holdings, delegated, accrued,
          emitted, tx>>

Idle == tx = NoTx

UnwrapOr(option, default) == IF option = NotFound THEN default ELSE option

(* instantiate and the reply that stores the alliance token.               *)
Init ==
  /\ config = InitialConfig
  /\ whitelist = {}
  /\ balances = [k \in Accounts |-> NotFound]
  /\ totalBalances = [a \in Assets |-> 0]
  /\ validators = {}
  /\ assetRewardDistribution = NotFound
  /\ assetRewardRate = [a \in Assets |-> NotFound]
  /\ userAssetRewardRate = [k \in Accounts |-> NotFound]
  /\ unclaimedRewards = [k \in Accounts |-> 0]
  /\ tempBalance = NotFound
  /\ holdings = [d \in Denoms |-> 0]
  /\ delegated = {}
  /\ accrued = [v \in Validators |-> 0]
  /\ emitted = 0
  /\ tx = NoTx
-----------------------------------------------------------------------------
(* _claim_reward, called first by stake, unstake and claim_rewards.        *)

RateGain(u, a) == assetRewardRate[a] - userAssetRewardRate[<<u, a>>]

(* Mutant: a removed asset is unknown to _claim_reward.                    *)
WhitelistedRateFound(a) == assetRewardRate[a] # NotFound /\ a \in whitelist
AssetRateFound(a) == assetRewardRate[a] # NotFound

(* _claim_reward returns without an error.                                 *)
ClaimRewardOk(u, a) ==
  /\ AssetRateFound(a)
  /\ userAssetRewardRate[<<u, a>>] # NotFound =>
       /\ balances[<<u, a>>] # NotFound
       /\ Fits(RateGain(u, a))
       /\ Fits(FromAtomics(balances[<<u, a>>]))
       /\ Fits(DecimalMul(RateGain(u, a), FromAtomics(balances[<<u, a>>])))

ClaimedReward(u, a) ==
  IF userAssetRewardRate[<<u, a>>] = NotFound
  THEN 0
  ELSE ToUintFloor(DecimalMul(RateGain(u, a), FromAtomics(balances[<<u, a>>])))

(* Mutant: paying a reward leaves the user's rate as it was.               *)
RateNotAdvanced(u, a) ==
  IF userAssetRewardRate[<<u, a>>] = NotFound THEN assetRewardRate[a]
                                          ELSE userAssetRewardRate[<<u, a>>]

(* A reward that rounds down to zero leaves the user's rate behind, so     *)
(* that it goes on accumulating.  Mutant: it does not.                     *)
RateAlwaysAdvanced(u, a) == assetRewardRate[a]
RateAfterClaim(u, a) ==
  IF userAssetRewardRate[<<u, a>>] = NotFound \/ ClaimedReward(u, a) > 0
  THEN assetRewardRate[a]
  ELSE userAssetRewardRate[<<u, a>>]

(* What stake and unstake set aside for a later claim_rewards.  Mutant:    *)
(* what was set aside before is overwritten.                               *)
SetAsideOverwritten(u, a) ==
  unclaimedRewards' = [unclaimedRewards EXCEPT ![<<u, a>>] = ClaimedReward(u, a)]
SetAsideReward(u, a) ==
  unclaimedRewards' = [unclaimedRewards EXCEPT ![<<u, a>>] = @ + ClaimedReward(u, a)]

(* The rewards get_pending_rewards shows to u.  The query fails for a user *)
(* who never staked a; what is then due to u is what was set aside.        *)
(* Mutant: what was set aside is left out.                                 *)
PendingSinceClaim(u, a) ==
  IF userAssetRewardRate[<<u, a>>] = NotFound \/ balances[<<u, a>>] = NotFound
  THEN 0
  ELSE MulUint(RateGain(u, a), balances[<<u, a>>])
PendingRewards(u, a) ==
  IF userAssetRewardRate[<<u, a>>] = NotFound \/ balances[<<u, a>>] = NotFound
  THEN unclaimedRewards[<<u, a>>]
  ELSE unclaimedRewards[<<u, a>>] + MulUint(RateGain(u, a), balances[<<u, a>>])
-----------------------------------------------------------------------------
(* Messages of users.                                                      *)

(* stake succeeds, for n of asset a that came along with the message.      *)
StakeOk(u, a, n) ==
  /\ n > 0
  /\ a \in whitelist
  /\ ClaimRewardOk(u, a)
  /\ Fits(unclaimedRewards[<<u, a>>] + ClaimedReward(u, a))
  /\ Fits(totalBalances[a] + n)

(* The rate stake leaves behind.  Mutants: a further stake keeps the old   *)
(* one; a first stake sets none.                                           *)
StakedAtOldRate(u, a) ==
  UnwrapOr(userAssetRewardRate[<<u, a>>], UnwrapOr(assetRewardRate[a], 0))
StakedWithoutRate(u, a) == userAssetRewardRate[<<u, a>>]
RateAfterStake(u, a) == UnwrapOr(assetRewardRate[a], 0)

(* Mutant: a second stake overwrites the first.                            *)
BalanceOverwritten(u, a, n) == n
BalanceAfterStake(u, a, n) == UnwrapOr(balances[<<u, a>>], 0) + n

(* stake: user u stakes n of asset a.                                      *)
Stake(u, a, n) ==
  /\ StakeOk(u, a, n)
  /\ totalBalances[a] + n <= MaxStake
  /\ SetAsideReward(u, a)
  /\ balances' = [balances EXCEPT ![<<u, a>>] = BalanceAfterStake(u, a, n)]
  /\ totalBalances' = [totalBalances EXCEPT ![a] = @ + n]
  /\ userAssetRewardRate' = [userAssetRewardRate EXCEPT ![<<u, a>>] = RateAfterStake(u, a)]
  /\ holdings' = [holdings EXCEPT ![a] = @ + n]
  /\ UNCHANGED <<adminVars, assetRewardRate, tempBalance, chainVars, tx>>

(* ExecuteMsg::Stake with a single native coin as its funds.               *)
ExecuteStake(u, a, n) ==
  /\ Idle
  /\ a \notin Cw20Assets
  /\ Stake(u, a, n)

(* ExecuteMsg::Receive with Cw20HookMsg::Stake: the cw20 contract a moved  *)
(* n tokens of u to the hub and names u as their sender.                   *)
ReceiveStake(u, a, n) ==
  /\ Idle
  /\ a \in Cw20Assets
  /\ Stake(u, a, n)

(* Mutant: only the total is compared with the amount.                     *)
TotalBalanceSuffices(u, a, n) == balances[<<u, a>>] # NotFound
BalanceSuffices(u, a, n) == balances[<<u, a>>] # NotFound /\ balances[<<u, a>>] >= n

(* unstake and the transfer it orders succeed, the hub owning held.        *)
UnstakeOk(u, a, n, held) ==
  /\ n > 0
  /\ ClaimRewardOk(u, a)
  /\ Fits(unclaimedRewards[<<u, a>>] + ClaimedReward(u, a))
  /\ BalanceSuffices(u, a, n)
  /\ totalBalances[a] >= n
  /\ held[a] >= n

(* unstake: u takes n of asset a back.                                     *)
Unstake(u, a, n, held) ==
  /\ UnstakeOk(u, a, n, held)
  /\ SetAsideReward(u, a)
  /\ balances' = [balances EXCEPT ![<<u, a>>] = @ - n]
  /\ totalBalances' = [totalBalances EXCEPT ![a] = @ - n]
  /\ userAssetRewardRate' = [userAssetRewardRate EXCEPT ![<<u, a>>] = RateAfterClaim(u, a)]
  /\ holdings' = [held EXCEPT ![a] = @ - n]
  /\ UNCHANGED <<adminVars, assetRewardRate, tempBalance, chainVars, tx>>

ExecuteUnstake(u, a, n) ==
  /\ Idle
  /\ Unstake(u, a, n, holdings)

(* ExecuteMsg::Receive with Cw20HookMsg::Unstake, sent by the cw20         *)
(* contract c on behalf of owner.  The handler is given the info of the    *)
(* message, whose sender is c.                                             *)
HookUnstaker(c, owner) == c

(* The tokens that owner sent along stay with the hub.                     *)
ReceiveUnstake(c, owner, tokens, a, n) ==
  /\ Idle
  /\ c \in Cw20Assets
  /\ holdings[c] + tokens <= MaxStake
  /\ Unstake(HookUnstaker(c, owner), a, n, [holdings EXCEPT ![c] = @ + tokens])

(* claim_rewards and the transfer it orders succeed.                       *)
ClaimRewardsOk(u, a) ==
  /\ ClaimRewardOk(u, a)
  /\ Fits(ClaimedReward(u, a) + unclaimedRewards[<<u, a>>])
  /\ holdings[RewardDenom] >= ClaimedReward(u, a) + unclaimedRewards[<<u, a>>]

(* claim_rewards: pays what accumulated since the last claim and what was  *)
(* set aside.                                                              *)
ClaimRewards(u, a) ==
  /\ Idle
  /\ ClaimRewardsOk(u, a)
  /\ userAssetRewardRate' = [userAssetRewardRate EXCEPT ![<<u, a>>] = RateAfterClaim(u, a)]
  /\ unclaimedRewards' = [unclaimedRewards EXCEPT ![<<u, a>>] = 0]
  /\ holdings' = [holdings EXCEPT ![RewardDenom] =
                     @ - (ClaimedReward(u, a) + unclaimedRewards[<<u, a>>])]
  /\ UNCHANGED <<adminVars, balances, totalBalances, assetRewardRate,
                 tempBalance, chainVars, tx>>
-----------------------------------------------------------------------------
(* UpdateRewards and the messages of its transaction.                      *)

(* Mutant: the coins sent along count as owned before.                     *)
BalanceWithSent(contractBalance, sent) == contractBalance
BalanceBefore(contractBalance, sent) == contractBalance - sent

(* update_rewards, sent by anyone along with sent coins of the reward      *)
(* denom, or none, which count as rewards.                                 *)
UpdateRewards(sent) ==
  /\ Idle
  /\ emitted + sent <= MaxEmission
  /\ Fits(holdings[RewardDenom] + sent)
  /\ tx' = [claims |-> validators,
            before |-> [tempBalance |-> tempBalance, holdings |-> holdings,
                        accrued |-> accrued, emitted |-> emitted]]
  /\ holdings' = [holdings EXCEPT ![RewardDenom] = @ + sent]
  /\ tempBalance' = BalanceBefore(holdings'[RewardDenom], sent)
  /\ emitted' = emitted + sent
  /\ UNCHANGED <<adminVars, ledgerVars, assetRewardRate, delegated, accrued>>

(* The alliance module pays what the validators of V owe the hub.          *)
PayOut(V) ==
  /\ holdings' = [holdings EXCEPT ![RewardDenom] = @ + SumOver(accrued, V)]
  /\ accrued' = [v \in Validators |-> IF v \in V THEN 0 ELSE accrued[v]]

(* MsgClaimDelegationRewards for v; the set of validators is unordered.    *)
ClaimDelegationRewards(v) ==
  /\ v \in tx.claims
  /\ v \in delegated
  /\ PayOut({v})
  /\ tx' = [tx EXCEPT !.claims = @ \ {v}]
  /\ UNCHANGED <<adminVars, ledgerVars, assetRewardRate, tempBalance,
                 delegated, emitted>>

(* A message fails and takes the whole transaction back.                   *)
RollBack ==
  /\ holdings' = tx.before.holdings
  /\ accrued' = tx.before.accrued
  /\ emitted' = tx.before.emitted
  /\ tempBalance' = tx.before.tempBalance
  /\ tx' = NoTx
  /\ UNCHANGED <<adminVars, ledgerVars, assetRewardRate, delegated>>

(* Mutants: the error is not caught; the reply asks the validator again.   *)
ClaimRewardErrorNotCaught(v) ==
  /\ v \in tx.claims
  /\ v \notin delegated \/ v \in FlakyValidators
  /\ RollBack
ClaimRewardErrorRetried(v) ==
  /\ v \in tx.claims
  /\ v \notin delegated \/ v \in FlakyValidators
  /\ UNCHANGED vars

(* The claim fails, and reply ignores the error.                           *)
ClaimRewardError(v) ==
  /\ v \in tx.claims
  /\ v \notin delegated \/ v \in FlakyValidators
  /\ tx' = [tx EXCEPT !.claims = @ \ {v}]
  /\ UNCHANGED <<adminVars, ledgerVars, assetRewardRate, tempBalance,
                 holdings, chainVars>>

TotalDistribution(distribution) ==
  SumOver([i \in DOMAIN distribution |-> distribution[i].distribution],
          DOMAIN distribution)

(* Mutant: the whole balance counts as collected.                          *)
WholeBalance == holdings[RewardDenom]
RewardsCollected == holdings[RewardDenom] - tempBalance

(* total_reward_distributed of the i-th entry of the distribution.         *)
RewardDistributed(i) ==
  DecimalDiv(DecimalMul(FromAtomics(RewardsCollected),
                        assetRewardDistribution[i].distribution),
             TotalDistribution(assetRewardDistribution))

(* rate_to_update of the i-th entry; without stakers its share is skipped. *)
(* Mutant: the stake is not converted to a Decimal.                        *)
RateByAtomics(i) ==
  LET staked == totalBalances[assetRewardDistribution[i].asset]
  IN  IF staked = 0 THEN 0 ELSE DecimalDiv(RewardDistributed(i), staked)
RateToUpdate(i) ==
  LET staked == totalBalances[assetRewardDistribution[i].asset]
  IN  IF staked = 0 THEN 0 ELSE DecimalDiv(RewardDistributed(i), FromAtomics(staked))

(* Mutant: of several entries of an asset only one has an effect.          *)
RateIncreaseOfOneEntry(a) ==
  LET entries == {i \in DOMAIN assetRewardDistribution : assetRewardDistribution[i].asset = a}
  IN  IF entries = {} THEN 0 ELSE RateToUpdate(CHOOSE i \in entries : TRUE)

(* The same asset may be listed more than once.                            *)
RateIncrease(a) ==
  SumOver([i \in DOMAIN assetRewardDistribution |-> RateToUpdate(i)],
          {i \in DOMAIN assetRewardDistribution : assetRewardDistribution[i].asset = a})

(* update_reward_callback returns without an error.                        *)
UpdateRewardsCallbackOk ==
  /\ tempBalance # NotFound
  /\ Fits(RewardsCollected)
  /\ assetRewardDistribution # NotFound
  /\ Fits(TotalDistribution(assetRewardDistribution))
  /\ \A i \in DOMAIN assetRewardDistribution :
       LET entry == assetRewardDistribution[i] IN
       /\ Fits(FromAtomics(RewardsCollected))
       /\ Fits(DecimalMul(FromAtomics(RewardsCollected), entry.distribution))
       /\ TotalDistribution(assetRewardDistribution) > 0
       /\ Fits(RewardDistributed(i))
       /\ totalBalances[entry.asset] > 0 =>
            /\ Fits(FromAtomics(totalBalances[entry.asset]))
            /\ Fits(RateToUpdate(i))
            /\ Fits(UnwrapOr(assetRewardRate[entry.asset], 0) + RateIncrease(entry.asset))

(* The hub calls itself once every claim was answered.  A zero increase    *)
(* does not write the rate.                                                *)
UpdateRewardsCallback ==
  /\ tx.claims = {}
  /\ UpdateRewardsCallbackOk
  /\ assetRewardRate' =
       [a \in Assets |-> IF RateIncrease(a) > 0
                         THEN UnwrapOr(assetRewardRate[a], 0) + RateIncrease(a)
                         ELSE assetRewardRate[a]]
  /\ tempBalance' = NotFound
  /\ tx' = NoTx
  /\ UNCHANGED <<adminVars, ledgerVars, holdings, chainVars>>

UpdateRewardsAborts ==
  /\ tx.claims = {}
  /\ ~UpdateRewardsCallbackOk
  /\ RollBack
-----------------------------------------------------------------------------
(* Messages of the accounts that hold a role.                              *)

IsGovernance(sender) == sender = config["governance"]
IsController(sender) == sender = config["controller"]
IsAuthorized(sender) == sender \in {config["governance"], config["operator"]}

SetAssetRewardDistribution(sender, distribution) ==
  /\ Idle
  /\ IsAuthorized(sender)
  /\ TotalDistribution(distribution) = Percent100
  /\ assetRewardDistribution' = distribution
  /\ UNCHANGED <<config, whitelist, validators, ledgerVars, assetRewardRate,
                 tempBalance, holdings, chainVars, tx>>

(* An asset that was whitelisted before keeps its rate.  Mutants: it does  *)
(* not; a new asset gets no rate before its first rewards.                 *)
RateReset(a) == 0
RateUnset(a) == assetRewardRate[a]
RateWhenWhitelisted(a) == UnwrapOr(assetRewardRate[a], 0)

WhitelistAssets(sender, S) ==
  /\ Idle
  /\ IsGovernance(sender)
  /\ whitelist' = whitelist \cup S
  /\ assetRewardRate' = [a \in Assets |-> IF a \in S THEN RateWhenWhitelisted(a)
                                                     ELSE assetRewardRate[a]]
  /\ UNCHANGED <<config, validators, assetRewardDistribution, ledgerVars,
                 tempBalance, holdings, chainVars, tx>>

RemoveAssets(sender, S) ==
  /\ Idle
  /\ IsGovernance(sender)
  /\ whitelist' = whitelist \ S
  /\ UNCHANGED <<config, validators, assetRewardDistribution, ledgerVars,
                 assetRewardRate, tempBalance, holdings, chainVars, tx>>

UpdateConfig(sender, update) ==
  /\ Idle
  /\ IsGovernance(sender)
  /\ config' = [r \in Roles |-> UnwrapOr(update[r], config[r])]
  /\ UNCHANGED <<whitelist, validators, assetRewardDistribution, ledgerVars,
                 assetRewardRate, tempBalance, holdings, chainVars, tx>>

(* VALIDATORS.save.  Mutant: the set is not saved.                         *)
ForgetValidators(V) == UNCHANGED validators
TrackValidators(V) == validators' = validators \cup V

(* A delegation message names a set V of validators.  The alliance module  *)
(* may pay out the rewards accrued at validators whose delegation changes. *)
AllianceDelegate(sender, V, paid) ==
  /\ Idle
  /\ IsController(sender)
  /\ V # {}
  /\ TrackValidators(V)
  /\ delegated' = delegated \cup V
  /\ paid \subseteq V
  /\ PayOut(paid)
  /\ UNCHANGED <<config, whitelist, assetRewardDistribution, ledgerVars,
                 assetRewardRate, tempBalance, emitted, tx>>

(* The validators in emptied lose their whole delegation.  VALIDATORS is   *)
(* left as it is.                                                          *)
AllianceUndelegate(sender, V, emptied, paid) ==
  /\ Idle
  /\ IsController(sender)
  /\ V # {} /\ V \subseteq delegated
  /\ emptied \subseteq V
  /\ delegated' = delegated \ emptied
  /\ paid \subseteq V
  /\ PayOut(paid)
  /\ UNCHANGED <<adminVars, ledgerVars, assetRewardRate, tempBalance, emitted, tx>>

(* What one entry moves to a validator another one may move on.            *)
AllianceRedelegate(sender, src, dst, emptied, paid) ==
  /\ Idle
  /\ IsController(sender)
  /\ src # {} /\ src \subseteq delegated \cup dst
  /\ dst # {}
  /\ TrackValidators(dst)
  /\ emptied \subseteq src
  /\ delegated' = (delegated \cup dst) \ emptied
  /\ paid \subseteq src \cup dst
  /\ PayOut(paid)
  /\ UNCHANGED <<config, whitelist, assetRewardDistribution, ledgerVars,
                 assetRewardRate, tempBalance, emitted, tx>>
-----------------------------------------------------------------------------
(* The chain around the hub.                                               *)

AccrueRewards(v, n) ==
  /\ Idle
  /\ v \in delegated
  /\ emitted + n <= MaxEmission
  /\ accrued' = [accrued EXCEPT ![v] = @ + n]
  /\ emitted' = emitted + n
  /\ UNCHANGED <<adminVars, ledgerVars, assetRewardRate, tempBalance, holdings,
                 delegated, tx>>

(* Anyone may send coins of the reward denom to the hub's address.         *)
Donate(n) ==
  /\ Idle
  /\ emitted + n <= MaxEmission
  /\ holdings' = [holdings EXCEPT ![RewardDenom] = @ + n]
  /\ emitted' = emitted + n
  /\ UNCHANGED <<adminVars, ledgerVars, assetRewardRate, tempBalance,
                 delegated, accrued, tx>>
-----------------------------------------------------------------------------
UserStep ==
  \E u \in Users, a \in Assets :
    \/ \E n \in Amounts : ExecuteStake(u, a, n)
    \/ \E n \in Amounts : ReceiveStake(u, a, n)
    \/ \E n \in Amounts : ExecuteUnstake(u, a, n)
    \/ \E c \in Cw20Assets, n, tokens \in Amounts : ReceiveUnstake(c, u, tokens, a, n)
    \/ ClaimRewards(u, a)

AdminStep ==
  \E sender \in Admins :
    \/ \E distribution \in Distributions : SetAssetRewardDistribution(sender, distribution)
    \/ \E S \in SUBSET Assets : WhitelistAssets(sender, S)
    \/ \E S \in SUBSET Assets : RemoveAssets(sender, S)
    \/ \E update \in [Roles -> Admins \cup {NotFound}] : UpdateConfig(sender, update)
    \/ \E V, paid \in SUBSET Validators : AllianceDelegate(sender, V, paid)
    \/ \E V, emptied, paid \in SUBSET Validators :
         AllianceUndelegate(sender, V, emptied, paid)
    \/ \E src, dst, emptied, paid \in SUBSET Validators :
         AllianceRedelegate(sender, src, dst, emptied, paid)

(* The messages that the chain executes once UpdateRewards was accepted.   *)
TxStep ==
  /\ tx # NoTx
  /\ \/ \E v \in Validators : ClaimDelegationRewards(v)
     \/ \E v \in Validators : ClaimRewardError(v)
     \/ UpdateRewardsCallback
     \/ UpdateRewardsAborts

ChainStep ==
  \/ \E v \in Validators, n \in Amounts : AccrueRewards(v, n)
  \/ \E n \in Amounts : Donate(n)

Next ==
  \/ UserStep
  \/ AdminStep
  \/ \E sent \in Amounts \cup {0} : UpdateRewards(sent)
  \/ TxStep
  \/ ChainStep

Safety == Init /\ [][Next]_vars

(* The chain finishes every transaction it has started.                    *)
Spec == Safety /\ WF_vars(TxStep)
=============================================================================
