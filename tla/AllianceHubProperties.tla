------------------------ MODULE AllianceHubProperties ------------------------
(***************************************************************************)
(* What is expected of the Alliance Hub.                                   *)
(***************************************************************************)
EXTENDS AllianceHub

(* Every variable holds a value of the type the contract stores.           *)
TypeOK ==
  /\ config \in [Roles -> Admins]
  /\ whitelist \in SUBSET Assets
  /\ balances \in [Accounts -> Nat \cup {NotFound}]
  /\ totalBalances \in [Assets -> Nat]
  /\ validators \in SUBSET Validators
  /\ assetRewardDistribution \in Distributions \cup {NotFound}
  /\ assetRewardRate \in [Assets -> Nat \cup {NotFound}]
  /\ userAssetRewardRate \in [Accounts -> Nat \cup {NotFound}]
  /\ unclaimedRewards \in [Accounts -> Nat]
  /\ tempBalance \in Nat \cup {NotFound}
  /\ holdings \in [Denoms -> Nat]
  /\ delegated \in SUBSET Validators
  /\ accrued \in [Validators -> Nat]
  /\ emitted \in Nat
  /\ tx \in Transaction \cup {NoTx}
-----------------------------------------------------------------------------
(* The ledger.                                                             *)

StakeOf(u, a) == UnwrapOr(balances[<<u, a>>], 0)

Stakes == [k \in Accounts |-> StakeOf(k[1], k[2])]

(* The rewards due to each account, as the pending rewards query counts.   *)
Owed == [k \in Accounts |-> PendingRewards(k[1], k[2])]

(* The part of a balance that belongs to the stakers of that denom.        *)
StakedOf(d) == IF d \in Assets THEN totalBalances[d] ELSE 0

(* TOTAL_BALANCES, which stake and unstake maintain beside BALANCES and by *)
(* which the callback divides, is the sum of the stakes of all users.      *)
TotalsMatchBalances ==
  \A a \in Assets :
    totalBalances[a] = SumOver([u \in Users |-> StakeOf(u, a)], Users)

(* What the hub owns covers every stake and, on top, every reward the      *)
(* query promises, also when the reward denom is itself staked.            *)
Solvent ==
  /\ \A a \in Assets : holdings[a] >= totalBalances[a]
  /\ holdings[RewardDenom] >= StakedOf(RewardDenom) + SumOver(Owed, Accounts)

(* No user's rate is ahead of the rate of the asset, so the subtraction in *)
(* _claim_reward cannot underflow; and a rate once known stays known.      *)
UserRateNeverAhead ==
  \A u \in Users, a \in Assets :
    userAssetRewardRate[<<u, a>>] # NotFound =>
      /\ assetRewardRate[a] # NotFound
      /\ userAssetRewardRate[<<u, a>>] <= assetRewardRate[a]

(* No entry is left without those that claims and queries load along with  *)
(* it: rewards set aside have a balance, a balance has a rate of its user, *)
(* and that, a staked or a whitelisted asset has a rate.                   *)
EntriesComplete ==
  \A a \in Assets :
    /\ a \in whitelist \/ totalBalances[a] # 0 => assetRewardRate[a] # NotFound
    /\ \A u \in Users :
         /\ unclaimedRewards[<<u, a>>] # 0 => balances[<<u, a>>] # NotFound
         /\ balances[<<u, a>>] # NotFound => userAssetRewardRate[<<u, a>>] # NotFound
         /\ userAssetRewardRate[<<u, a>>] # NotFound => assetRewardRate[a] # NotFound

(* The width is no limit for the rewards and the stakes that the bounds    *)
(* admit.  The crate leaves room for 3.4 * 10^20 atomics of either; the    *)
(* contract checks neither.                                                *)
WidthSuffices ==
  /\ DecimalFractional <= MaxUint128
  /\ MaxEmission * DecimalFractional <= MaxUint128
  /\ MaxStake * DecimalFractional <= MaxUint128

(* A stake can be taken back in full between any two transactions, also    *)
(* when governance has removed its asset from the whitelist.               *)
StakesWithdrawable ==
  Idle => \A u \in Users, a \in Assets :
            StakeOf(u, a) > 0 => UnstakeOk(u, a, StakeOf(u, a), holdings)

(* A reward the query promises can be claimed between any two              *)
(* transactions.                                                           *)
RewardsClaimable ==
  Idle => \A u \in Users, a \in Assets :
            PendingRewards(u, a) > 0 => ClaimRewardsOk(u, a)

(* Every user of a whitelisted asset can stake it: "After which any        *)
(* holders of that asset can now stake and unstake." (README.md:83)        *)
StakingOpen ==
  Idle => \A u \in Users, a \in whitelist : StakeOk(u, a, 1)

(* A user who never staked the asset but claimed its rewards has a rate    *)
(* and no balance, and _claim_reward cannot load the balance.              *)
ClaimedEarly(u, a) ==
  userAssetRewardRate[<<u, a>>] # NotFound /\ balances[<<u, a>>] = NotFound

(* No other user is ever turned away from a whitelisted asset, whatever    *)
(* was staked, unstaked, allotted, removed or whitelisted again before.    *)
StakingOpenOtherwise ==
  Idle =>
    \A u \in Users, a \in whitelist, n \in Amounts \ {0} :
      totalBalances[a] + n <= MaxStake => (StakeOk(u, a, n) <=> ~ClaimedEarly(u, a))

(* What was staked through the cw20 hook can be unstaked through it:       *)
(* "receive_cw20 routes a cw20 token to the proper handler in this case    *)
(* stake and unstake" (contract.rs:167).                                   *)
HookUnstakes ==
  Idle => \A c \in Cw20Assets, u \in Users :
            StakeOf(u, c) > 0 =>
              UnstakeOk(HookUnstaker(c, u), c, StakeOf(u, c), holdings)
-----------------------------------------------------------------------------
(* The update transaction.                                                 *)

(* TEMP_BALANCE exists only while an update runs, and is then the reward   *)
(* balance from before it; there was none before, so that a failed update  *)
(* leaves none: no later update can read a stale one.                      *)
TempBalanceOfThisUpdate ==
  IF tx = NoTx THEN tempBalance = NotFound
  ELSE /\ tempBalance = tx.before.holdings[RewardDenom]
       /\ tx.before.tempBalance = NotFound

(* update_rewards asks every validator that may owe the hub rewards.       *)
DelegationsTracked == delegated \subseteq validators

UpdateEnds == tx # NoTx /\ tx' = NoTx /\ assetRewardDistribution # NotFound

(* An update that ends leaves no reward behind at a validator the hub is   *)
(* delegated to, whatever delegations were undone or moved before and      *)
(* whichever of the claims to other validators failed.                     *)
UpdateCollectsEverything ==
  [][UpdateEnds => \A v \in delegated \ FlakyValidators : accrued'[v] = 0]_vars

(* What arrived during an update is allotted to the stakers of each asset  *)
(* by the asset's share of the distribution, but for a fraction of an      *)
(* atomic per staked unit and entry; an asset without stakers gets none.   *)
SharesAreProportional ==
  [][UpdateEnds =>
       LET rewards == holdings[RewardDenom] - tx.before.holdings[RewardDenom] IN
       \A a \in Assets :
         LET entries == {i \in DOMAIN assetRewardDistribution :
                           assetRewardDistribution[i].asset = a}
             share == SumOver([i \in entries |-> assetRewardDistribution[i].distribution],
                              entries)
             allotted == totalBalances[a] *
                           (UnwrapOr(assetRewardRate'[a], 0) - UnwrapOr(assetRewardRate[a], 0))
         IN  /\ allotted <= rewards * share
             /\ entries # {} /\ totalBalances[a] > 0 =>
                  rewards * share - allotted < Cardinality(entries) * totalBalances[a]]_vars

(* A rate never falls and is never forgotten, also when governance removes *)
(* an asset and whitelists it again: users' rates refer to it.             *)
RatesKept ==
  \A a \in Assets :
    assetRewardRate[a] # NotFound =>
      /\ assetRewardRate'[a] # NotFound
      /\ assetRewardRate'[a] >= assetRewardRate[a]

RatesNeverFall == [][RatesKept]_vars

(* An update that has heard of every validator succeeds if there is a      *)
(* distribution, given a width that suffices for all stakes and for all    *)
(* rewards: rates grow by no more than what arrives, also when the         *)
(* smallest stake receives everything, so none of them needs more width.   *)
UpdatesSucceed ==
  tx # NoTx /\ assetRewardDistribution # NotFound =>
    (tx.claims = {} => UpdateRewardsCallbackOk)

(* Every update that was started ends, with or without success.            *)
UpdatesEnd == tx # NoTx ~> tx = NoTx
-----------------------------------------------------------------------------
(* The reward pool.                                                        *)

(* What the hub would own if a running update were taken back.             *)
Settled == IF tx = NoTx THEN holdings ELSE tx.before.holdings

(* The part of that in which nobody has a stake.  The funds an update has  *)
(* collected join it when the update succeeds.                             *)
RewardPool == Settled[RewardDenom] - StakedOf(RewardDenom)

(* What is due to an account, in fractions of a reward.                    *)
DebtTo(u, a) ==
  unclaimedRewards[<<u, a>>] * DecimalFractional +
    (IF userAssetRewardRate[<<u, a>>] = NotFound \/ balances[<<u, a>>] = NotFound
     THEN 0
     ELSE RateGain(u, a) * balances[<<u, a>>])

Debt == [k \in Accounts |-> DebtTo(k[1], k[2])]

(* The part of the pool that is due to no one: what is rounded off, has no *)
(* stakers, or reached the hub outside an update.                          *)
Surplus == RewardPool * DecimalFractional - SumOver(Debt, Accounts)

(* It never shrinks: no claim and no update ever pays or allots rewards    *)
(* that did not arrive during an update, to the last fraction.             *)
SurplusNeverSpent == [][Surplus' >= Surplus]_vars

(* No message of a user forfeits as much as one reward: what a claim pays  *)
(* or sets aside is all that was due, but for the fraction it rounds off.  *)
RewardsNotForfeited ==
  [][UserStep => Surplus' - Surplus < DecimalFractional]_vars

(* What an account's stake has earned since its rate was last moved on.    *)
Earned(u, a) == DebtTo(u, a) - unclaimedRewards[<<u, a>>] * DecimalFractional

(* As long as that is less than one reward nothing but a further stake     *)
(* gives any of it up, however often it is claimed: a claim pays what was  *)
(* set aside and leaves the rest to grow, and a withdrawal gives up no     *)
(* more than the part of what is withdrawn.                                *)
DustKept ==
  [][\A u \in Users, a \in Assets :
       Earned(u, a) < DecimalFractional /\ StakeOf(u, a)' <= StakeOf(u, a) =>
         Earned(u, a)' * StakeOf(u, a) >= Earned(u, a) * StakeOf(u, a)']_vars

(* An update gives every account what the increase of the rate is worth on *)
(* its stake, however often and at which rates the stake came about, and   *)
(* whether or not its rewards were claimed since.  No other step raises    *)
(* what is due to anyone: a stake earns nothing of what was collected      *)
(* before it.                                                              *)
StakersShareAlike ==
  [][\A u \in Users, a \in Assets :
       LET gained == DebtTo(u, a)' - DebtTo(u, a)
           increase == UnwrapOr(assetRewardRate'[a], 0) - UnwrapOr(assetRewardRate[a], 0)
       IN  IF UpdateEnds THEN gained = StakeOf(u, a) * increase ELSE gained <= 0]_vars
-----------------------------------------------------------------------------
(* The hub implements RewardAccounts.                                      *)

RA == INSTANCE RewardAccounts WITH
        Accounts <- Accounts, stake <- Stakes, owed <- Owed, pool <- RewardPool

ImplementsRewardAccounts == RA!Spec
=============================================================================
