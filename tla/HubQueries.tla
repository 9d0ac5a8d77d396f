----------------------------- MODULE HubQueries -----------------------------
(***************************************************************************)
(* The queries of the Alliance Hub                                         *)
(* (contracts/alliance-hub/src/query.rs).                                  *)
(*                                                                         *)
(* A query changes nothing: it is an operator on the state, its answer,    *)
(* and, where it can fail, another one that says when it does not.  The    *)
(* answer of a query that lists assets is a function on the assets that it *)
(* lists.  The queries for the config, the validators, the whitelist and   *)
(* the distribution answer with the variable of that name.                 *)
(***************************************************************************)
EXTENDS AllianceHubProperties

(* get_staked_balance.                                                     *)
StakedBalanceOk(u, a) == balances[<<u, a>>] # NotFound
StakedBalance(u, a) == balances[<<u, a>>]

(* get_all_staked_balances lists what is whitelisted, staked or not.       *)
AllStakedBalances(u) == [a \in whitelist |-> StakeOf(u, a)]

(* get_total_staked_balances lists TOTAL_BALANCES; the zero that it lists  *)
(* for an asset unstaked completely is left out.                           *)
TotalStakedBalances == [a \in {b \in Assets : totalBalances[b] > 0} |-> totalBalances[a]]

(* get_pending_rewards answers, with PendingRewards(u, a).                 *)
PendingRewardsOk(u, a) ==
  /\ userAssetRewardRate[<<u, a>>] # NotFound
  /\ assetRewardRate[a] # NotFound
  /\ balances[<<u, a>>] # NotFound
  /\ Fits(RateGain(u, a))
  /\ Fits(MulUint(RateGain(u, a), balances[<<u, a>>]))
  /\ Fits(PendingRewards(u, a))

(* get_all_pending_rewards goes through the user's rates, and fails as a   *)
(* whole if there is one whose rewards it cannot tell.  Mutant: it goes    *)
(* through the whitelist.                                                  *)
RatesOfWhitelist(u) == {a \in whitelist : userAssetRewardRate[<<u, a>>] # NotFound}
RatesOf(u) == {a \in Assets : userAssetRewardRate[<<u, a>>] # NotFound}
AllPendingRewardsOk(u) == \A a \in RatesOf(u) : PendingRewardsOk(u, a)
AllPendingRewards(u) == [a \in RatesOf(u) |-> PendingRewards(u, a)]
-----------------------------------------------------------------------------
(* The query answers for every account that was ever staked or has rewards *)
(* set aside: none of the entries it loads is missing and no subtraction   *)
(* underflows, whatever became of the asset.  So the listing of a user can *)
(* only fail for an asset that the user claimed without having staked it.  *)
PendingAnswered ==
  \A u \in Users, a \in Assets :
    StakedBalanceOk(u, a) \/ unclaimedRewards[<<u, a>>] > 0 => PendingRewardsOk(u, a)

(* A claim pays exactly what the query showed, which computes it by other  *)
(* operations, and leaves nothing to show; what the query shows of every   *)
(* other account stays the same.                                           *)
ShownIsPaid ==
  [][\A u \in Users, a \in Assets :
       ClaimRewards(u, a) /\ PendingRewardsOk(u, a) =>
         /\ holdings[RewardDenom] - holdings'[RewardDenom] = PendingRewards(u, a)
         /\ Owed' = [Owed EXCEPT ![<<u, a>>] = 0]]_vars

(* The listing of a user's pending rewards, when it answers, misses none   *)
(* of them, also of assets removed from the whitelist.  And a stake that   *)
(* the listing of the user's stakes leaves out, because its asset was      *)
(* removed, is named there and among the totals: a user finds every stake  *)
(* there is to take back.                                                  *)
ListingsComplete ==
  \A u \in Users :
    AllPendingRewardsOk(u) =>
      /\ SumOver(AllPendingRewards(u), DOMAIN AllPendingRewards(u)) =
           SumOver([a \in Assets |-> PendingRewards(u, a)], Assets)
      /\ \A a \in Assets \ DOMAIN AllStakedBalances(u) :
           StakedBalanceOk(u, a) /\ StakedBalance(u, a) > 0 =>
             /\ a \in DOMAIN AllPendingRewards(u)
             /\ a \in DOMAIN TotalStakedBalances
=============================================================================
