-------------------------- MODULE AllianceHubProofs --------------------------
(***************************************************************************)
(* Proofs about AllianceHub, for all values of its constants.              *)
(***************************************************************************)
EXTENDS AllianceHubProperties, SumLemmas
-----------------------------------------------------------------------------
(* Arithmetic.                                                             *)

LEMMA DivNat ==
  ASSUME NEW m \in Nat, NEW n \in Nat, n > 0
  PROVE  m \div n \in Nat
OBVIOUS

LEMMA ProductNat ==
  ASSUME NEW m \in Nat, NEW n \in Nat
  PROVE  m * n \in Nat
OBVIOUS

LEMMA MathNat ==
  ASSUME NEW d \in Nat, NEW e \in Nat
  PROVE  /\ FromAtomics(d) \in Nat
         /\ DecimalMul(d, e) \in Nat
         /\ ToUintFloor(d) \in Nat
         /\ MulUint(d, e) \in Nat
         /\ e > 0 => DecimalDiv(d, e) \in Nat
<1>1. DecimalFractional \in Nat /\ DecimalFractional > 0
  BY DecimalFractionalAssumption
<1>2. d * DecimalFractional \in Nat /\ d * e \in Nat
  BY <1>1, ProductNat
<1>3. (d * e) \div DecimalFractional \in Nat /\ d \div DecimalFractional \in Nat
  BY <1>1, <1>2, DivNat
<1>4. e > 0 => (d * DecimalFractional) \div e \in Nat
  BY <1>2, DivNat
<1> QED
  BY <1>2, <1>3, <1>4 DEF FromAtomics, DecimalMul, ToUintFloor, MulUint, DecimalDiv

(* A product of a natural and a positive natural is zero only if the first *)
(* is.                                                                     *)
LEMMA FromAtomicsPositive ==
  ASSUME NEW n \in Nat, n > 0
  PROVE  FromAtomics(n) \in Nat /\ FromAtomics(n) > 0
<1>1. DecimalFractional \in Nat /\ DecimalFractional > 0
  BY DecimalFractionalAssumption
<1> QED
  BY <1>1 DEF FromAtomics
-----------------------------------------------------------------------------
(* What the helpers of the actions return.                                 *)

LEMMA ClaimedRewardType ==
  ASSUME TypeOK, NEW u \in Users, NEW a \in Assets, ClaimRewardOk(u, a)
  PROVE  /\ assetRewardRate[a] \in Nat
         /\ ClaimedReward(u, a) \in Nat
         /\ RateAfterClaim(u, a) \in Nat
         /\ RateAfterClaim(u, a) \in {assetRewardRate[a], userAssetRewardRate[<<u, a>>]}
<1>1. assetRewardRate[a] \in Nat
  BY DEF TypeOK, ClaimRewardOk, AssetRateFound
<1>2. userAssetRewardRate[<<u, a>>] \in Nat \cup {NotFound}
  BY DEF TypeOK, Accounts
<1>3. ClaimedReward(u, a) \in Nat
  <2>1. CASE userAssetRewardRate[<<u, a>>] = NotFound
    BY <2>1 DEF ClaimedReward
  <2>2. CASE userAssetRewardRate[<<u, a>>] # NotFound
    <3>1. balances[<<u, a>>] \in Nat /\ RateGain(u, a) \in Nat
      BY <2>2, <1>1, <1>2 DEF TypeOK, ClaimRewardOk, Accounts, RateGain, Fits
    <3>2. FromAtomics(balances[<<u, a>>]) \in Nat
      BY <3>1, MathNat
    <3>3. DecimalMul(RateGain(u, a), FromAtomics(balances[<<u, a>>])) \in Nat
      BY <3>1, <3>2, MathNat
    <3>4. ToUintFloor(DecimalMul(RateGain(u, a), FromAtomics(balances[<<u, a>>]))) \in Nat
      BY <3>3, MathNat
    <3> QED
      BY <3>4, <2>2 DEF ClaimedReward
  <2> QED
    BY <2>1, <2>2
<1> QED
  BY <1>1, <1>2, <1>3 DEF RateAfterClaim

LEMMA PayOutType ==
  ASSUME TypeOK, NEW V \in SUBSET Validators, PayOut(V)
  PROVE  holdings' \in [Denoms -> Nat] /\ accrued' \in [Validators -> Nat]
<1>1. IsFiniteSet(V)
  BY FiniteSetsAssumption, FS_Subset
<1>2. \A v \in V : accrued[v] \in Nat
  BY DEF TypeOK
<1>3. SumOver(accrued, V) \in Nat
  BY <1>1, <1>2, SumNat
<1> QED
  BY <1>3 DEF TypeOK, PayOut, Denoms

LEMMA DistributionType ==
  ASSUME NEW distribution \in Distributions
  PROVE  /\ IsFiniteSet(DOMAIN distribution)
         /\ \A i \in DOMAIN distribution :
              distribution[i].asset \in Assets /\ distribution[i].distribution \in Nat
         /\ TotalDistribution(distribution) \in Nat
<1>1. distribution \in Seq([asset : Assets, distribution : Nat])
  BY InputsAssumption DEF Distribution
<1>2. Len(distribution) \in Nat /\ DOMAIN distribution = 1 .. Len(distribution)
  BY <1>1
<1>3. IsFiniteSet(DOMAIN distribution)
  BY <1>2, FS_Interval
<1>4. \A i \in DOMAIN distribution :
        distribution[i].asset \in Assets /\ distribution[i].distribution \in Nat
  <2> SUFFICES ASSUME NEW i \in DOMAIN distribution
               PROVE  distribution[i].asset \in Assets /\ distribution[i].distribution \in Nat
    OBVIOUS
  <2>1. distribution[i] \in [asset : Assets, distribution : Nat]
    <3> DEFINE E == [asset : Assets, distribution : Nat]
    <3> HIDE DEF E
    <3>1. distribution \in Seq(E) => distribution[i] \in E
      BY <1>2
    <3> QED
      BY <1>1, <3>1 DEF E
  <2> QED
    BY <2>1
<1> DEFINE parts == [i \in DOMAIN distribution |-> distribution[i].distribution]
<1>5. \A i \in DOMAIN distribution : parts[i] \in Nat
  BY <1>4
<1> HIDE DEF parts
<1>6. SumOver(parts, DOMAIN distribution) \in Nat
  BY <1>3, <1>5, SumNat
<1> QED
  BY <1>3, <1>4, <1>6 DEF TotalDistribution, parts

LEMMA CollectedType ==
  ASSUME TypeOK, UpdateRewardsCallbackOk
  PROVE  RewardsCollected \in Nat /\ assetRewardDistribution \in Distributions
<1>1. holdings[RewardDenom] \in Nat /\ tempBalance \in Nat
  BY DEF TypeOK, UpdateRewardsCallbackOk, Denoms
<1> QED
  BY <1>1 DEF TypeOK, UpdateRewardsCallbackOk, Fits, RewardsCollected

LEMMA EntryType ==
  ASSUME TypeOK, UpdateRewardsCallbackOk, NEW i \in DOMAIN assetRewardDistribution
  PROVE  /\ TotalDistribution(assetRewardDistribution) \in Nat
         /\ TotalDistribution(assetRewardDistribution) > 0
         /\ assetRewardDistribution[i].distribution \in Nat
         /\ totalBalances[assetRewardDistribution[i].asset] \in Nat
         /\ RewardDistributed(i) \in Nat
         /\ RateToUpdate(i) \in Nat
<1> DEFINE dist == assetRewardDistribution
           staked == totalBalances[dist[i].asset]
<1>1. /\ dist[i].asset \in Assets /\ dist[i].distribution \in Nat
      /\ TotalDistribution(dist) \in Nat
  BY CollectedType, DistributionType
<1>2. TotalDistribution(dist) > 0
  BY DEF UpdateRewardsCallbackOk
<1>3. FromAtomics(RewardsCollected) \in Nat
  BY CollectedType, MathNat
<1>4. DecimalMul(FromAtomics(RewardsCollected), dist[i].distribution) \in Nat
  BY <1>1, <1>3, MathNat
<1>5. RewardDistributed(i) \in Nat
  BY <1>1, <1>2, <1>4, MathNat DEF RewardDistributed
<1>6. staked \in Nat
  BY <1>1 DEF TypeOK
<1>7. CASE staked = 0
  BY <1>1, <1>2, <1>5, <1>6, <1>7 DEF RateToUpdate
<1>8. CASE staked > 0
  <2>1. FromAtomics(staked) \in Nat /\ FromAtomics(staked) > 0
    BY <1>6, <1>8, FromAtomicsPositive
  <2>2. DecimalDiv(RewardDistributed(i), FromAtomics(staked)) \in Nat
    BY <2>1, <1>5, MathNat
  <2> QED
    BY <1>1, <1>2, <1>5, <1>6, <1>8, <2>2 DEF RateToUpdate
<1> QED
  BY <1>6, <1>7, <1>8

LEMMA RateIncreaseType ==
  ASSUME TypeOK, UpdateRewardsCallbackOk, NEW a \in Assets
  PROVE  RateIncrease(a) \in Nat
<1> DEFINE dist == assetRewardDistribution
           rates == [i \in DOMAIN dist |-> RateToUpdate(i)]
           entries == {i \in DOMAIN dist : dist[i].asset = a}
<1>1. IsFiniteSet(DOMAIN dist)
  BY CollectedType, DistributionType
<1>2. IsFiniteSet(entries) /\ \A i \in entries : rates[i] \in Nat
  BY <1>1, EntryType, FS_Subset
<1> HIDE DEF rates, entries
<1>3. SumOver(rates, entries) \in Nat
  BY <1>2, SumNat
<1> QED
  BY <1>3 DEF RateIncrease, rates, entries
-----------------------------------------------------------------------------
(* Type correctness.                                                       *)

LEMMA InitTypeOK == Init => TypeOK
BY InputsAssumption DEF Init, TypeOK

LEMMA StakeTypeOK ==
  ASSUME TypeOK, NEW u \in Users, NEW a \in Assets, NEW n \in Amounts, Stake(u, a, n)
  PROVE  TypeOK'
<1>1. n \in Nat
  BY InputsAssumption
<1>2. ClaimRewardOk(u, a) /\ <<u, a>> \in Accounts
  BY DEF Stake, StakeOk, Accounts
<1>3. assetRewardRate[a] \in Nat /\ ClaimedReward(u, a) \in Nat
  BY <1>2, ClaimedRewardType
<1>4. RateAfterStake(u, a) \in Nat
  BY <1>3 DEF RateAfterStake, UnwrapOr
<1>5. BalanceAfterStake(u, a, n) \in Nat
  BY <1>1, <1>2 DEF TypeOK, BalanceAfterStake, UnwrapOr
<1>6. /\ balances' \in [Accounts -> Nat \cup {NotFound}]
      /\ totalBalances' \in [Assets -> Nat]
      /\ userAssetRewardRate' \in [Accounts -> Nat \cup {NotFound}]
      /\ unclaimedRewards' \in [Accounts -> Nat]
      /\ holdings' \in [Denoms -> Nat]
  BY <1>1, <1>2, <1>3, <1>4, <1>5 DEF TypeOK, Stake, SetAsideReward, Denoms
<1> QED
  BY <1>6 DEF TypeOK, Stake, adminVars, chainVars

LEMMA UnstakeTypeOK ==
  ASSUME TypeOK, NEW u \in Users, NEW a \in Assets, NEW n \in Amounts,
         NEW held \in [Denoms -> Nat], Unstake(u, a, n, held)
  PROVE  TypeOK'
<1>1. n \in Nat
  BY InputsAssumption
<1>2. ClaimRewardOk(u, a) /\ <<u, a>> \in Accounts
  BY DEF Unstake, UnstakeOk, Accounts
<1>3. ClaimedReward(u, a) \in Nat /\ RateAfterClaim(u, a) \in Nat
  BY <1>2, ClaimedRewardType
<1>4. balances[<<u, a>>] \in Nat /\ balances[<<u, a>>] >= n
      /\ totalBalances[a] >= n /\ held[a] >= n
  BY <1>2 DEF TypeOK, Unstake, UnstakeOk, BalanceSuffices
<1>5. /\ balances' \in [Accounts -> Nat \cup {NotFound}]
      /\ totalBalances' \in [Assets -> Nat]
      /\ userAssetRewardRate' \in [Accounts -> Nat \cup {NotFound}]
      /\ unclaimedRewards' \in [Accounts -> Nat]
      /\ holdings' \in [Denoms -> Nat]
  BY <1>1, <1>2, <1>3, <1>4 DEF TypeOK, Unstake, SetAsideReward, Denoms
<1> QED
  BY <1>5 DEF TypeOK, Unstake, adminVars, chainVars

LEMMA UserStepTypeOK == TypeOK /\ UserStep => TypeOK'
<1> SUFFICES ASSUME TypeOK, NEW u \in Users, NEW a \in Assets,
                    \/ \E n \in Amounts : ExecuteStake(u, a, n)
                    \/ \E n \in Amounts : ReceiveStake(u, a, n)
                    \/ \E n \in Amounts : ExecuteUnstake(u, a, n)
                    \/ \E c \in Cw20Assets, n, tokens \in Amounts :
                         ReceiveUnstake(c, u, tokens, a, n)
                    \/ ClaimRewards(u, a)
             PROVE  TypeOK'
  BY DEF UserStep
<1>1. CASE \E n \in Amounts : ExecuteStake(u, a, n) \/ ReceiveStake(u, a, n)
  BY <1>1, StakeTypeOK DEF ExecuteStake, ReceiveStake
<1>2. CASE \E n \in Amounts : ExecuteUnstake(u, a, n)
  BY <1>2, UnstakeTypeOK DEF ExecuteUnstake, TypeOK
<1>3. ASSUME NEW c \in Cw20Assets, NEW n \in Amounts, NEW tokens \in Amounts,
             ReceiveUnstake(c, u, tokens, a, n)
      PROVE  TypeOK'
  <2>1. c \in Users /\ c \in Denoms /\ tokens \in Nat
    BY FiniteSetsAssumption, InputsAssumption DEF Denoms
  <2>2. [holdings EXCEPT ![c] = @ + tokens] \in [Denoms -> Nat]
    BY <2>1 DEF TypeOK
  <2> QED
    BY <1>3, <2>1, <2>2, UnstakeTypeOK DEF ReceiveUnstake, HookUnstaker
<1>4. CASE ClaimRewards(u, a)
  <2>1. ClaimRewardOk(u, a) /\ <<u, a>> \in Accounts
    BY <1>4 DEF ClaimRewards, ClaimRewardsOk, Accounts
  <2>2. ClaimedReward(u, a) \in Nat /\ RateAfterClaim(u, a) \in Nat
    BY <2>1, ClaimedRewardType
  <2>3. /\ unclaimedRewards[<<u, a>>] \in Nat
        /\ holdings[RewardDenom] >= ClaimedReward(u, a) + unclaimedRewards[<<u, a>>]
    BY <2>1, <1>4 DEF TypeOK, ClaimRewards, ClaimRewardsOk
  <2>4. /\ userAssetRewardRate' \in [Accounts -> Nat \cup {NotFound}]
        /\ unclaimedRewards' \in [Accounts -> Nat]
        /\ holdings' \in [Denoms -> Nat]
    BY <1>4, <2>1, <2>2, <2>3 DEF TypeOK, ClaimRewards, Denoms
  <2> QED
    BY <1>4, <2>4 DEF TypeOK, ClaimRewards, adminVars, chainVars
<1> QED
  BY <1>1, <1>2, <1>3, <1>4

LEMMA AdminStepTypeOK == TypeOK /\ AdminStep => TypeOK'
<1> SUFFICES ASSUME TypeOK, AdminStep
             PROVE  TypeOK'
  OBVIOUS
<1> PICK sender \in Admins : AdminStep!(sender)
  BY DEF AdminStep
<1>1. ASSUME NEW distribution \in Distributions,
             SetAssetRewardDistribution(sender, distribution)
      PROVE  TypeOK'
  BY <1>1 DEF TypeOK, SetAssetRewardDistribution, ledgerVars, chainVars
<1>2. ASSUME NEW S \in SUBSET Assets, WhitelistAssets(sender, S)
      PROVE  TypeOK'
  <2>1. \A a \in Assets : RateWhenWhitelisted(a) \in Nat
    BY DEF TypeOK, RateWhenWhitelisted, UnwrapOr
  <2>2. /\ assetRewardRate' \in [Assets -> Nat \cup {NotFound}]
        /\ whitelist' \in SUBSET Assets
    BY <1>2, <2>1 DEF TypeOK, WhitelistAssets
  <2> QED
    BY <1>2, <2>2 DEF TypeOK, WhitelistAssets, ledgerVars, chainVars
<1>3. ASSUME NEW S \in SUBSET Assets, RemoveAssets(sender, S)
      PROVE  TypeOK'
  BY <1>3 DEF TypeOK, RemoveAssets, ledgerVars, chainVars
<1>4. ASSUME NEW update \in [Roles -> Admins \cup {NotFound}], UpdateConfig(sender, update)
      PROVE  TypeOK'
  <2>1. \A r \in Roles : UnwrapOr(update[r], config[r]) \in Admins
    BY DEF TypeOK, UnwrapOr
  <2>2. config' \in [Roles -> Admins]
    BY <1>4, <2>1 DEF UpdateConfig
  <2> QED
    BY <1>4, <2>2 DEF TypeOK, UpdateConfig, ledgerVars, chainVars
<1>5. ASSUME NEW V \in SUBSET Validators, NEW paid \in SUBSET Validators,
             AllianceDelegate(sender, V, paid)
      PROVE  TypeOK'
  <2>1. holdings' \in [Denoms -> Nat] /\ accrued' \in [Validators -> Nat]
    BY <1>5, PayOutType DEF AllianceDelegate
  <2> QED
    BY <1>5, <2>1 DEF TypeOK, AllianceDelegate, TrackValidators, ledgerVars
<1>6. ASSUME NEW V \in SUBSET Validators, NEW emptied \in SUBSET Validators,
             NEW paid \in SUBSET Validators, AllianceUndelegate(sender, V, emptied, paid)
      PROVE  TypeOK'
  <2>1. holdings' \in [Denoms -> Nat] /\ accrued' \in [Validators -> Nat]
    BY <1>6, PayOutType DEF AllianceUndelegate
  <2> QED
    BY <1>6, <2>1 DEF TypeOK, AllianceUndelegate, adminVars, ledgerVars
<1>7. ASSUME NEW src \in SUBSET Validators, NEW dst \in SUBSET Validators,
             NEW emptied \in SUBSET Validators, NEW paid \in SUBSET Validators,
             AllianceRedelegate(sender, src, dst, emptied, paid)
      PROVE  TypeOK'
  <2>1. holdings' \in [Denoms -> Nat] /\ accrued' \in [Validators -> Nat]
    BY <1>7, PayOutType DEF AllianceRedelegate
  <2> QED
    BY <1>7, <2>1 DEF TypeOK, AllianceRedelegate, TrackValidators, ledgerVars
<1> QED
  BY <1>1, <1>2, <1>3, <1>4, <1>5, <1>6, <1>7

LEMMA UpdateRewardsTypeOK ==
  ASSUME TypeOK, NEW sent \in Amounts \cup {0}, UpdateRewards(sent)
  PROVE  TypeOK'
<1>1. sent \in Nat
  BY InputsAssumption
<1>2. holdings' \in [Denoms -> Nat]
  BY <1>1 DEF TypeOK, UpdateRewards, Denoms
<1>3. tempBalance' \in Nat
  BY <1>1 DEF TypeOK, UpdateRewards, BalanceBefore, Denoms
<1>4. tx' \in Transaction
  BY DEF TypeOK, UpdateRewards, Transaction
<1>5. emitted' \in Nat
  BY <1>1 DEF TypeOK, UpdateRewards
<1> QED
  BY <1>2, <1>3, <1>4, <1>5 DEF TypeOK, UpdateRewards, adminVars, ledgerVars

LEMMA TxStepTypeOK == TypeOK /\ TxStep => TypeOK'
<1> SUFFICES ASSUME TypeOK, TxStep
             PROVE  TypeOK'
  OBVIOUS
<1>1. tx \in Transaction
  BY DEF TypeOK, TxStep
<1>2. ASSUME NEW v \in Validators, ClaimDelegationRewards(v)
      PROVE  TypeOK'
  <2>1. holdings' \in [Denoms -> Nat] /\ accrued' \in [Validators -> Nat]
    BY <1>2, PayOutType DEF ClaimDelegationRewards
  <2>2. tx' \in Transaction
    BY <1>1, <1>2 DEF ClaimDelegationRewards, Transaction
  <2> QED
    BY <1>2, <2>1, <2>2 DEF TypeOK, ClaimDelegationRewards, adminVars, ledgerVars
<1>3. ASSUME NEW v \in Validators, ClaimRewardError(v)
      PROVE  TypeOK'
  <2>1. tx' \in Transaction
    BY <1>1, <1>3 DEF ClaimRewardError, Transaction
  <2> QED
    BY <1>3, <2>1 DEF TypeOK, ClaimRewardError, adminVars, ledgerVars, chainVars
<1>4. CASE UpdateRewardsCallback
  <2>1. \A a \in Assets : RateIncrease(a) \in Nat
    BY <1>4, RateIncreaseType DEF UpdateRewardsCallback
  <2>2. \A a \in Assets : UnwrapOr(assetRewardRate[a], 0) \in Nat
    BY DEF TypeOK, UnwrapOr
  <2>3. assetRewardRate' \in [Assets -> Nat \cup {NotFound}]
    BY <1>4, <2>1, <2>2 DEF TypeOK, UpdateRewardsCallback
  <2> QED
    BY <1>4, <2>3 DEF TypeOK, UpdateRewardsCallback, adminVars, ledgerVars, chainVars
<1>5. CASE UpdateRewardsAborts
  <2>1. /\ tx.before.holdings \in [Denoms -> Nat]
        /\ tx.before.accrued \in [Validators -> Nat]
        /\ tx.before.emitted \in Nat
        /\ tx.before.tempBalance \in Nat \cup {NotFound}
    BY <1>1 DEF Transaction
  <2> QED
    BY <1>5, <2>1 DEF TypeOK, UpdateRewardsAborts, RollBack, adminVars, ledgerVars
<1> QED
  BY <1>2, <1>3, <1>4, <1>5 DEF TxStep

LEMMA ChainStepTypeOK == TypeOK /\ ChainStep => TypeOK'
<1> SUFFICES ASSUME TypeOK, ChainStep
             PROVE  TypeOK'
  OBVIOUS
<1>1. ASSUME NEW v \in Validators, NEW n \in Amounts, AccrueRewards(v, n)
      PROVE  TypeOK'
  <2>1. n \in Nat
    BY InputsAssumption
  <2> QED
    BY <1>1, <2>1 DEF TypeOK, AccrueRewards, adminVars, ledgerVars
<1>2. ASSUME NEW n \in Amounts, Donate(n)
      PROVE  TypeOK'
  <2>1. n \in Nat
    BY InputsAssumption
  <2> QED
    BY <1>2, <2>1 DEF TypeOK, Donate, Denoms, adminVars, ledgerVars
<1> QED
  BY <1>1, <1>2 DEF ChainStep

LEMMA NextTypeOK == TypeOK /\ [Next]_vars => TypeOK'
<1>1. TypeOK /\ UNCHANGED vars => TypeOK'
  BY DEF TypeOK, vars
<1> QED
  BY <1>1, UserStepTypeOK, AdminStepTypeOK, UpdateRewardsTypeOK, TxStepTypeOK,
     ChainStepTypeOK DEF Next

(* Every variable has its type in every reachable state; in particular no  *)
(* stake, total, rate, reward or balance ever falls below zero.            *)
THEOREM TypeCorrect == Safety => []TypeOK
BY InitTypeOK, NextTypeOK, PTL DEF Safety
-----------------------------------------------------------------------------
(* Rates.                                                                  *)

LEMMA UserStepKeepsAssetRates == UserStep => UNCHANGED assetRewardRate
<1>1. ASSUME NEW u, NEW a, NEW n, Stake(u, a, n)
      PROVE  UNCHANGED assetRewardRate
  BY <1>1 DEF Stake
<1>2. ASSUME NEW u, NEW a, NEW n, NEW held, Unstake(u, a, n, held)
      PROVE  UNCHANGED assetRewardRate
  BY <1>2 DEF Unstake
<1>3. ASSUME NEW u, NEW a, ClaimRewards(u, a)
      PROVE  UNCHANGED assetRewardRate
  BY <1>3 DEF ClaimRewards
<1> QED
  BY <1>1, <1>2, <1>3 DEF UserStep, ExecuteStake, ReceiveStake, ExecuteUnstake,
                          ReceiveUnstake

(* Only whitelisting an asset and a successful update change asset rates,  *)
(* and neither lowers or forgets one.                                      *)
LEMMA NextKeepsRates == TypeOK /\ [Next]_vars => RatesKept
<1> SUFFICES ASSUME TypeOK, [Next]_vars
             PROVE  RatesKept
  OBVIOUS
<1>1. CASE UNCHANGED assetRewardRate
  BY <1>1 DEF TypeOK, RatesKept
<1>2. ASSUME NEW sender \in Admins, NEW S \in SUBSET Assets, WhitelistAssets(sender, S)
      PROVE  RatesKept
  <2>1. \A a \in Assets : assetRewardRate[a] # NotFound =>
          RateWhenWhitelisted(a) = assetRewardRate[a]
    BY DEF RateWhenWhitelisted, UnwrapOr
  <2>2. \A a \in Assets : assetRewardRate[a] # NotFound =>
          assetRewardRate'[a] = assetRewardRate[a]
    BY <1>2, <2>1 DEF WhitelistAssets
  <2> QED
    BY <2>2 DEF TypeOK, RatesKept
<1>3. CASE UpdateRewardsCallback
  <2>1. \A a \in Assets : RateIncrease(a) \in Nat
    BY <1>3, RateIncreaseType DEF UpdateRewardsCallback
  <2>2. ASSUME NEW a \in Assets, assetRewardRate[a] # NotFound
        PROVE  assetRewardRate'[a] \in {assetRewardRate[a], assetRewardRate[a] + RateIncrease(a)}
    BY <1>3, <2>2 DEF UpdateRewardsCallback, UnwrapOr
  <2>3. ASSUME NEW a \in Assets, assetRewardRate[a] # NotFound
        PROVE  assetRewardRate'[a] \in Nat /\ assetRewardRate'[a] >= assetRewardRate[a]
    <3>1. assetRewardRate[a] \in Nat
      BY <2>3 DEF TypeOK
    <3> QED
      BY <2>1, <2>2, <2>3, <3>1
  <2> QED
    BY <2>3, NotFoundAssumption DEF RatesKept
<1>4. CASE UserStep
  BY <1>4, <1>1, UserStepKeepsAssetRates
<1>5. CASE AdminStep
  BY <1>5, <1>1, <1>2 DEF AdminStep, SetAssetRewardDistribution, RemoveAssets,
       UpdateConfig, AllianceDelegate, AllianceUndelegate, AllianceRedelegate
<1>6. CASE TxStep
  BY <1>6, <1>1, <1>3 DEF TxStep, ClaimDelegationRewards, ClaimRewardError,
       UpdateRewardsAborts, RollBack
<1>7. CASE ChainStep \/ \E sent \in Amounts \cup {0} : UpdateRewards(sent)
  BY <1>7, <1>1 DEF ChainStep, AccrueRewards, Donate, UpdateRewards
<1>8. CASE UNCHANGED vars
  BY <1>8, <1>1 DEF vars
<1> QED
  BY <1>4, <1>5, <1>6, <1>7, <1>8 DEF Next

(* Users' rates change only when a user stakes, unstakes or claims.        *)
LEMMA UserRateChange ==
  ASSUME TypeOK, UserStep
  PROVE  \E u \in Users, a \in Assets :
           /\ assetRewardRate[a] \in Nat
           /\ \E rate \in {assetRewardRate[a], userAssetRewardRate[<<u, a>>]} \cap Nat :
                userAssetRewardRate' = [userAssetRewardRate EXCEPT ![<<u, a>>] = rate]
<1> DEFINE Changed(u, a) ==
             /\ assetRewardRate[a] \in Nat
             /\ \E rate \in {assetRewardRate[a], userAssetRewardRate[<<u, a>>]} \cap Nat :
                  userAssetRewardRate' = [userAssetRewardRate EXCEPT ![<<u, a>>] = rate]
<1>1. ASSUME NEW u \in Users, NEW a \in Assets, NEW n \in Amounts, Stake(u, a, n)
      PROVE  Changed(u, a)
  <2>1. assetRewardRate[a] \in Nat
    BY <1>1, ClaimedRewardType DEF Stake, StakeOk
  <2> QED
    BY <1>1, <2>1, NotFoundAssumption DEF Stake, RateAfterStake, UnwrapOr
<1>2. ASSUME NEW u \in Users, NEW a \in Assets, ClaimRewardOk(u, a),
             userAssetRewardRate' = [userAssetRewardRate EXCEPT ![<<u, a>>] = RateAfterClaim(u, a)]
      PROVE  Changed(u, a)
  BY <1>2, ClaimedRewardType
<1>3. ASSUME NEW u \in Users, NEW a \in Assets, NEW n, NEW held, Unstake(u, a, n, held)
      PROVE  Changed(u, a)
  BY <1>2, <1>3 DEF Unstake, UnstakeOk
<1>4. ASSUME NEW u \in Users, NEW a \in Assets, ClaimRewards(u, a)
      PROVE  Changed(u, a)
  BY <1>2, <1>4 DEF ClaimRewards, ClaimRewardsOk
<1> HIDE DEF Changed
<1>5. \E u \in Users, a \in Assets : Changed(u, a)
  <2>1. Cw20Assets \subseteq Users
    BY FiniteSetsAssumption
  <2> QED
    BY <1>1, <1>3, <1>4, <2>1 DEF UserStep, ExecuteStake, ReceiveStake, ExecuteUnstake,
         ReceiveUnstake, HookUnstaker
<1> QED
  BY <1>5 DEF Changed

LEMMA OthersKeepUserRates ==
  [Next]_vars /\ ~UserStep => UNCHANGED userAssetRewardRate
<1> USE DEF ledgerVars
<1>1. AdminStep => UNCHANGED userAssetRewardRate
  BY DEF AdminStep, SetAssetRewardDistribution, WhitelistAssets, RemoveAssets,
       UpdateConfig, AllianceDelegate, AllianceUndelegate, AllianceRedelegate
<1>2. TxStep => UNCHANGED userAssetRewardRate
  BY DEF TxStep, ClaimDelegationRewards, ClaimRewardError, UpdateRewardsCallback,
       UpdateRewardsAborts, RollBack
<1>3. ChainStep => UNCHANGED userAssetRewardRate
  BY DEF ChainStep, AccrueRewards, Donate
<1>4. (\E sent \in Amounts \cup {0} : UpdateRewards(sent)) => UNCHANGED userAssetRewardRate
  BY DEF UpdateRewards
<1>5. UNCHANGED vars => UNCHANGED userAssetRewardRate
  BY DEF vars
<1> QED
  BY <1>1, <1>2, <1>3, <1>4, <1>5 DEF Next

LEMMA UserRateNeverAheadStep ==
  TypeOK /\ TypeOK' /\ UserRateNeverAhead /\ [Next]_vars => UserRateNeverAhead'
<1> SUFFICES ASSUME TypeOK, TypeOK', UserRateNeverAhead, [Next]_vars,
                    NEW u \in Users, NEW a \in Assets,
                    userAssetRewardRate'[<<u, a>>] # NotFound
             PROVE  /\ assetRewardRate'[a] # NotFound
                    /\ userAssetRewardRate'[<<u, a>>] <= assetRewardRate'[a]
  BY DEF UserRateNeverAhead
<1>1. <<u, a>> \in Accounts
  BY DEF Accounts
<1>2. CASE UserStep
  <2>1. PICK v \in Users, b \in Assets :
          /\ assetRewardRate[b] \in Nat
          /\ \E rate \in {assetRewardRate[b], userAssetRewardRate[<<v, b>>]} \cap Nat :
               userAssetRewardRate' = [userAssetRewardRate EXCEPT ![<<v, b>>] = rate]
    BY <1>2, UserRateChange
  <2>2. UNCHANGED assetRewardRate
    BY <1>2, UserStepKeepsAssetRates
  <2>3. CASE <<u, a>> = <<v, b>>
    <3>1. userAssetRewardRate'[<<u, a>>] \in {assetRewardRate[a], userAssetRewardRate[<<u, a>>]}
      BY <1>1, <2>1, <2>3 DEF TypeOK
    <3>2. assetRewardRate[a] \in Nat
      BY <2>1, <2>3
    <3> QED
      BY <2>2, <3>1, <3>2, NotFoundAssumption DEF UserRateNeverAhead
  <2>4. CASE <<u, a>> # <<v, b>>
    <3>1. userAssetRewardRate'[<<u, a>>] = userAssetRewardRate[<<u, a>>]
      BY <1>1, <2>1, <2>4 DEF TypeOK
    <3> QED
      BY <2>2, <3>1 DEF UserRateNeverAhead
  <2> QED
    BY <2>3, <2>4
<1>3. CASE ~UserStep
  <2>1. userAssetRewardRate'[<<u, a>>] = userAssetRewardRate[<<u, a>>]
    BY <1>3, OthersKeepUserRates
  <2>2. /\ assetRewardRate[a] # NotFound
        /\ userAssetRewardRate[<<u, a>>] <= assetRewardRate[a]
    BY <2>1 DEF UserRateNeverAhead
  <2>3. assetRewardRate'[a] # NotFound /\ assetRewardRate'[a] >= assetRewardRate[a]
    BY <2>2, NextKeepsRates DEF RatesKept
  <2>4. /\ userAssetRewardRate[<<u, a>>] \in Nat
        /\ assetRewardRate[a] \in Nat /\ assetRewardRate'[a] \in Nat
    BY <1>1, <2>1, <2>2, <2>3 DEF TypeOK
  <2> QED
    BY <2>1, <2>2, <2>3, <2>4
<1> QED
  BY <1>2, <1>3

(* The subtraction of rates in _claim_reward never underflows, for any     *)
(* user and asset and whatever the order of stakes, claims, updates and    *)
(* changes of the whitelist.                                               *)
THEOREM UserRateBehind == Safety => []UserRateNeverAhead
<1>1. Init => UserRateNeverAhead
  BY DEF Init, UserRateNeverAhead, Accounts
<1> QED
  BY <1>1, TypeCorrect, UserRateNeverAheadStep, PTL DEF Safety

(* No step lowers or forgets the reward rate of an asset.                  *)
THEOREM RatesMonotonic == Safety => RatesNeverFall
BY TypeCorrect, NextKeepsRates, PTL DEF Safety, RatesNeverFall
-----------------------------------------------------------------------------
(* The update transaction.                                                 *)

(* Only the messages of an update touch the transaction and TEMP_BALANCE,  *)
(* and only those of the controller the delegations.                       *)
LEMMA UserStepFrame ==
  UserStep => UNCHANGED <<tx, tempBalance, delegated, validators, accrued, emitted,
                          assetRewardDistribution>>
<1> USE DEF adminVars, chainVars
<1>1. ASSUME NEW u, NEW a, NEW n, Stake(u, a, n)
      PROVE  UNCHANGED <<tx, tempBalance, delegated, validators, accrued, emitted,
                         assetRewardDistribution>>
  BY <1>1 DEF Stake
<1>2. ASSUME NEW u, NEW a, NEW n, NEW held, Unstake(u, a, n, held)
      PROVE  UNCHANGED <<tx, tempBalance, delegated, validators, accrued, emitted,
                         assetRewardDistribution>>
  BY <1>2 DEF Unstake
<1>3. ASSUME NEW u, NEW a, ClaimRewards(u, a)
      PROVE  UNCHANGED <<tx, tempBalance, delegated, validators, accrued, emitted,
                         assetRewardDistribution>>
  BY <1>3 DEF ClaimRewards
<1> QED
  BY <1>1, <1>2, <1>3 DEF UserStep, ExecuteStake, ReceiveStake, ExecuteUnstake,
                          ReceiveUnstake

LEMMA AdminStepFrame == AdminStep => UNCHANGED <<tx, tempBalance>>
BY DEF AdminStep, SetAssetRewardDistribution, WhitelistAssets, RemoveAssets,
       UpdateConfig, AllianceDelegate, AllianceUndelegate, AllianceRedelegate

LEMMA TempBalanceStep ==
  TypeOK /\ TempBalanceOfThisUpdate /\ [Next]_vars => TempBalanceOfThisUpdate'
<1> SUFFICES ASSUME TypeOK, TempBalanceOfThisUpdate, [Next]_vars
             PROVE  TempBalanceOfThisUpdate'
  OBVIOUS
<1>1. CASE UNCHANGED <<tx, tempBalance>>
  BY <1>1 DEF TempBalanceOfThisUpdate
<1>2. ASSUME NEW sent \in Amounts \cup {0}, UpdateRewards(sent)
      PROVE  TempBalanceOfThisUpdate'
  <2>1. sent \in Nat /\ holdings[RewardDenom] \in Nat
    BY InputsAssumption DEF TypeOK, Denoms
  <2>2. tempBalance' = holdings[RewardDenom]
    BY <1>2, <2>1 DEF UpdateRewards, BalanceBefore, TypeOK, Denoms
  <2>3. /\ tx' \in Transaction
        /\ tx'.before.holdings = holdings /\ tx'.before.tempBalance = tempBalance
    BY <1>2 DEF TypeOK, UpdateRewards, Transaction
  <2>4. tempBalance = NotFound
    BY <1>2 DEF TempBalanceOfThisUpdate, UpdateRewards, Idle
  <2> QED
    BY <2>2, <2>3, <2>4, NoTxAssumption DEF TempBalanceOfThisUpdate
<1>3. ASSUME TxStep, NEW v \in Validators, ClaimDelegationRewards(v) \/ ClaimRewardError(v)
      PROVE  TempBalanceOfThisUpdate'
  <2>1. tx \in Transaction
    BY <1>3 DEF TypeOK, TxStep
  <2>2. tx' = [tx EXCEPT !.claims = tx.claims \ {v}] /\ UNCHANGED tempBalance
    BY <1>3 DEF ClaimDelegationRewards, ClaimRewardError
  <2>3. tx' \in Transaction /\ tx'.before = tx.before
    BY <2>1, <2>2 DEF Transaction
  <2> QED
    BY <2>1, <2>2, <2>3, NoTxAssumption DEF TempBalanceOfThisUpdate
<1>4. CASE TxStep /\ (UpdateRewardsCallback \/ UpdateRewardsAborts)
  BY <1>4 DEF TxStep, UpdateRewardsCallback, UpdateRewardsAborts, RollBack,
              TempBalanceOfThisUpdate
<1>5. CASE TxStep
  BY <1>5, <1>3, <1>4 DEF TxStep
<1>6. CASE ChainStep \/ UNCHANGED vars
  BY <1>6, <1>1 DEF ChainStep, AccrueRewards, Donate, vars
<1> QED
  BY <1>1, <1>2, <1>5, <1>6, UserStepFrame, AdminStepFrame DEF Next

(* TEMP_BALANCE never outlives the update that wrote it, and holds the     *)
(* reward balance from before that update, so an update allots exactly     *)
(* what arrived while it ran.                                              *)
THEOREM TempBalanceFresh == Safety => []TempBalanceOfThisUpdate
<1>1. Init => TempBalanceOfThisUpdate
  BY DEF Init, TempBalanceOfThisUpdate
<1> QED
  BY <1>1, TypeCorrect, TempBalanceStep, PTL DEF Safety

LEMMA DelegationsTrackedStep ==
  DelegationsTracked /\ [Next]_vars => DelegationsTracked'
<1> SUFFICES ASSUME DelegationsTracked, [Next]_vars
             PROVE  DelegationsTracked'
  OBVIOUS
<1>1. CASE UNCHANGED <<delegated, validators>>
  BY <1>1 DEF DelegationsTracked
<1>2. CASE AdminStep
  BY <1>2, <1>1 DEF AdminStep, SetAssetRewardDistribution, WhitelistAssets,
       RemoveAssets, UpdateConfig, AllianceDelegate, AllianceUndelegate,
       AllianceRedelegate, TrackValidators, DelegationsTracked, adminVars, chainVars
<1>3. CASE TxStep
  BY <1>3, <1>1 DEF TxStep, ClaimDelegationRewards, ClaimRewardError,
       UpdateRewardsCallback, UpdateRewardsAborts, RollBack, adminVars, chainVars
<1>4. CASE ChainStep \/ (\E sent \in Amounts \cup {0} : UpdateRewards(sent)) \/ UNCHANGED vars
  BY <1>4, <1>1 DEF ChainStep, AccrueRewards, Donate, UpdateRewards, vars, adminVars
<1> QED
  BY <1>1, <1>2, <1>3, <1>4, UserStepFrame DEF Next

(* Every validator the hub is delegated to is in VALIDATORS, so every      *)
(* update asks it for its rewards.                                         *)
THEOREM DelegationsAlwaysTracked == Safety => []DelegationsTracked
<1>1. Init => DelegationsTracked
  BY DEF Init, DelegationsTracked
<1> QED
  BY <1>1, DelegationsTrackedStep, PTL DEF Safety
-----------------------------------------------------------------------------
(* Stakes.                                                                 *)

(* Staking and unstaking change one stake and the total of its asset by    *)
(* the same amount.                                                        *)
LEMMA StakeChange ==
  ASSUME TypeOK, UserStep
  PROVE  \/ UNCHANGED <<balances, totalBalances>>
         \/ \E u \in Users, a \in Assets, n \in Int :
              /\ StakeOf(u, a) + n \in Nat
              /\ balances' = [balances EXCEPT ![<<u, a>>] = StakeOf(u, a) + n]
              /\ totalBalances' = [totalBalances EXCEPT ![a] = @ + n]
<1> DEFINE Changed(u, a, n) ==
             /\ StakeOf(u, a) + n \in Nat
             /\ balances' = [balances EXCEPT ![<<u, a>>] = StakeOf(u, a) + n]
             /\ totalBalances' = [totalBalances EXCEPT ![a] = @ + n]
<1>1. ASSUME NEW u \in Users, NEW a \in Assets, NEW n \in Amounts, Stake(u, a, n)
      PROVE  \E m \in Int : Changed(u, a, m)
  <2>1. n \in Nat /\ <<u, a>> \in Accounts
    BY InputsAssumption DEF Accounts
  <2>2. StakeOf(u, a) \in Nat
    BY <2>1 DEF TypeOK, StakeOf, UnwrapOr
  <2>3. Changed(u, a, n)
    BY <1>1, <2>1, <2>2 DEF Stake, BalanceAfterStake, StakeOf
  <2> HIDE DEF Changed
  <2> QED
    BY <2>1, <2>3
<1>2. ASSUME NEW u \in Users, NEW a \in Assets, NEW n \in Amounts, NEW held,
             Unstake(u, a, n, held)
      PROVE  \E m \in Int : Changed(u, a, m)
  <2>1. n \in Nat /\ <<u, a>> \in Accounts
    BY InputsAssumption DEF Accounts
  <2>2. balances[<<u, a>>] \in Nat /\ balances[<<u, a>>] >= n
    BY <1>2, <2>1 DEF TypeOK, Unstake, UnstakeOk, BalanceSuffices
  <2>3. StakeOf(u, a) = balances[<<u, a>>] /\ totalBalances[a] \in Nat
    BY <2>2, NotFoundAssumption DEF TypeOK, StakeOf, UnwrapOr
  <2>4. balances[<<u, a>>] - n = StakeOf(u, a) + (-n)
        /\ totalBalances[a] - n = totalBalances[a] + (-n)
        /\ StakeOf(u, a) + (-n) \in Nat
    BY <2>1, <2>2, <2>3
  <2>5. Changed(u, a, -n)
    BY <1>2, <2>4 DEF Unstake
  <2>6. -n \in Int
    BY <2>1
  <2> HIDE DEF Changed
  <2> QED
    BY <2>5, <2>6
<1>3. ASSUME NEW u, NEW a, ClaimRewards(u, a)
      PROVE  UNCHANGED <<balances, totalBalances>>
  BY <1>3 DEF ClaimRewards
<1> HIDE DEF Changed
<1>4. \/ UNCHANGED <<balances, totalBalances>>
      \/ \E u \in Users, a \in Assets, n \in Int : Changed(u, a, n)
  <2>1. Cw20Assets \subseteq Users
    BY FiniteSetsAssumption
  <2> QED
    BY <1>1, <1>2, <1>3, <2>1 DEF UserStep, ExecuteStake, ReceiveStake, ExecuteUnstake,
         ReceiveUnstake, HookUnstaker
<1> QED
  BY <1>4 DEF Changed

LEMMA OthersKeepStakes == [Next]_vars /\ ~UserStep => UNCHANGED <<balances, totalBalances>>
<1> USE DEF ledgerVars
<1>1. AdminStep => UNCHANGED <<balances, totalBalances>>
  BY DEF AdminStep, SetAssetRewardDistribution, WhitelistAssets, RemoveAssets,
       UpdateConfig, AllianceDelegate, AllianceUndelegate, AllianceRedelegate
<1>2. TxStep => UNCHANGED <<balances, totalBalances>>
  BY DEF TxStep, ClaimDelegationRewards, ClaimRewardError, UpdateRewardsCallback,
       UpdateRewardsAborts, RollBack
<1>3. ChainStep => UNCHANGED <<balances, totalBalances>>
  BY DEF ChainStep, AccrueRewards, Donate
<1>4. (\E sent \in Amounts \cup {0} : UpdateRewards(sent)) => UNCHANGED <<balances, totalBalances>>
  BY DEF UpdateRewards
<1>5. UNCHANGED vars => UNCHANGED <<balances, totalBalances>>
  BY DEF vars
<1> QED
  BY <1>1, <1>2, <1>3, <1>4, <1>5 DEF Next

LEMMA TotalsMatchStep ==
  TypeOK /\ TypeOK' /\ TotalsMatchBalances /\ [Next]_vars => TotalsMatchBalances'
<1> SUFFICES ASSUME TypeOK, TypeOK', TotalsMatchBalances, [Next]_vars
             PROVE  TotalsMatchBalances'
  OBVIOUS
<1>1. CASE UNCHANGED <<balances, totalBalances>>
  BY <1>1 DEF TotalsMatchBalances, StakeOf
<1>2. ASSUME NEW u \in Users, NEW a \in Assets, NEW n \in Int,
             StakeOf(u, a) + n \in Nat,
             balances' = [balances EXCEPT ![<<u, a>>] = StakeOf(u, a) + n],
             totalBalances' = [totalBalances EXCEPT ![a] = @ + n]
      PROVE  TotalsMatchBalances'
  <2> SUFFICES ASSUME NEW b \in Assets
               PROVE  totalBalances'[b] = SumOver([v \in Users |-> StakeOf(v, b)'], Users)
    BY DEF TotalsMatchBalances
  <2> DEFINE old == [v \in Users |-> StakeOf(v, b)]
             new == [v \in Users |-> StakeOf(v, b)']
  <2>1. totalBalances[b] = SumOver(old, Users)
    BY DEF TotalsMatchBalances
  <2>2. \A v \in Users : old[v] \in Nat
    <3>1. \A v \in Users : balances[<<v, b>>] \in Nat \cup {NotFound}
      BY DEF TypeOK, Accounts
    <3> QED
      BY <3>1 DEF StakeOf, UnwrapOr
  <2>3. \A v \in Users : <<v, b>> # <<u, a>> => new[v] = old[v]
    BY <1>2 DEF TypeOK, StakeOf, Accounts
  <2>4. CASE b = a
    <3>1. balances'[<<u, a>>] = StakeOf(u, a) + n
      BY <1>2 DEF TypeOK, Accounts
    <3>2. new[u] = old[u] + n /\ new[u] \in Nat
      BY <1>2, <2>4, <3>1, NotFoundAssumption DEF StakeOf, UnwrapOr
    <3>3. \A v \in Users \ {u} : new[v] = old[v]
      BY <2>3
    <3>4. IsFiniteSet(Users)
      BY FiniteSetsAssumption
    <3> HIDE DEF old, new
    <3>5. SumOver(new, Users) = SumOver(old, Users) + (new[u] - old[u])
      <4>1. (\A v \in Users : old[v] \in Int) /\ new[u] \in Int
        BY <2>2, <3>2
      <4> QED
        BY <4>1, <3>3, <3>4, SumUpdate
    <3>6. totalBalances'[b] = totalBalances[b] + n
      BY <1>2, <2>4 DEF TypeOK
    <3>7. old[u] \in Nat /\ SumOver(old, Users) \in Nat
      BY <2>2, <3>4, SumNat
    <3>8. totalBalances'[b] = SumOver(new, Users)
      BY <2>1, <3>2, <3>5, <3>6, <3>7
    <3> QED
      BY <3>8 DEF new
  <2>5. CASE b # a
    <3>1. \A v \in Users : new[v] = old[v]
      BY <2>3, <2>5
    <3>2. new = old
      BY <3>1
    <3>3. totalBalances'[b] = totalBalances[b]
      BY <1>2, <2>5 DEF TypeOK
    <3> QED
      BY <2>1, <3>2, <3>3
  <2> QED
    BY <2>4, <2>5
<1>3. CASE UserStep
  BY <1>1, <1>2, <1>3, StakeChange
<1>4. CASE ~UserStep
  BY <1>1, <1>4, OthersKeepStakes
<1> QED
  BY <1>3, <1>4

(* The total by which rewards are divided is the sum of the stakes they    *)
(* are divided among.                                                      *)
THEOREM TotalsAlwaysMatch == Safety => []TotalsMatchBalances
<1>1. Init => TotalsMatchBalances
  <2> SUFFICES ASSUME Init, NEW a \in Assets
               PROVE  totalBalances[a] = SumOver([u \in Users |-> StakeOf(u, a)], Users)
    BY DEF TotalsMatchBalances
  <2> DEFINE stakes == [u \in Users |-> StakeOf(u, a)]
  <2>1. totalBalances[a] = 0
    BY DEF Init
  <2>2. \A u \in Users : stakes[u] = 0
    BY DEF Init, StakeOf, UnwrapOr, Accounts
  <2> HIDE DEF stakes
  <2>3. IsFiniteSet(Users)
    BY FiniteSetsAssumption
  <2>4. SumOver(stakes, Users) = 0
    BY <2>2, <2>3, SumZero
  <2> QED
    BY <2>1, <2>4 DEF stakes
<1> QED
  BY <1>1, TypeCorrect, TotalsMatchStep, PTL DEF Safety
-----------------------------------------------------------------------------
(* Entries.                                                                *)

(* A message of a user concerns one account, whose rewards can be claimed, *)
(* whose asset has a rate and whose user has a rate afterwards.            *)
LEMMA AccountTouched ==
  ASSUME TypeOK, EntriesComplete, UserStep
  PROVE  /\ UNCHANGED <<whitelist, assetRewardRate>>
         /\ \E u \in Users, a \in Assets :
              /\ ClaimRewardOk(u, a)
              /\ assetRewardRate[a] # NotFound
              /\ userAssetRewardRate'[<<u, a>>] # NotFound
              /\ unclaimedRewards'[<<u, a>>] # 0 => balances'[<<u, a>>] # NotFound
              /\ \A k \in Accounts \ {<<u, a>>} :
                   /\ balances'[k] = balances[k]
                   /\ userAssetRewardRate'[k] = userAssetRewardRate[k]
                   /\ unclaimedRewards'[k] = unclaimedRewards[k]
              /\ \A b \in Assets \ {a} : totalBalances'[b] = totalBalances[b]
<1> DEFINE Touched(u, a) ==
      /\ UNCHANGED <<whitelist, assetRewardRate>>
      /\ ClaimRewardOk(u, a)
      /\ assetRewardRate[a] # NotFound
      /\ userAssetRewardRate'[<<u, a>>] # NotFound
      /\ unclaimedRewards'[<<u, a>>] # 0 => balances'[<<u, a>>] # NotFound
      /\ \A k \in Accounts \ {<<u, a>>} :
           /\ balances'[k] = balances[k]
           /\ userAssetRewardRate'[k] = userAssetRewardRate[k]
           /\ unclaimedRewards'[k] = unclaimedRewards[k]
      /\ \A b \in Assets \ {a} : totalBalances'[b] = totalBalances[b]
<1>1. ASSUME NEW u \in Users, NEW a \in Assets, ClaimRewardOk(u, a)
      PROVE  /\ <<u, a>> \in Accounts
             /\ assetRewardRate[a] \in Nat /\ assetRewardRate[a] # NotFound
             /\ RateAfterClaim(u, a) # NotFound
  BY <1>1, ClaimedRewardType, NotFoundAssumption DEF Accounts
<1>2. ASSUME NEW u \in Users, NEW a \in Assets, NEW n \in Amounts, Stake(u, a, n)
      PROVE  Touched(u, a)
  <2>1. ClaimRewardOk(u, a) /\ n \in Nat
    BY <1>2, InputsAssumption DEF Stake, StakeOk
  <2>2. RateAfterStake(u, a) # NotFound
    BY <1>1, <2>1 DEF RateAfterStake, UnwrapOr
  <2>3. BalanceAfterStake(u, a, n) \in Nat
    BY <1>1, <2>1 DEF TypeOK, BalanceAfterStake, UnwrapOr
  <2> QED
    BY <1>1, <1>2, <2>1, <2>2, <2>3, NotFoundAssumption
       DEF TypeOK, Stake, SetAsideReward, adminVars
<1>3. ASSUME NEW u \in Users, NEW a \in Assets, NEW n \in Amounts, NEW held,
             Unstake(u, a, n, held)
      PROVE  Touched(u, a)
  <2>1. ClaimRewardOk(u, a) /\ BalanceSuffices(u, a, n) /\ n \in Nat
    BY <1>3, InputsAssumption DEF Unstake, UnstakeOk
  <2>2. balances[<<u, a>>] \in Nat /\ balances[<<u, a>>] - n \in Nat
    BY <1>1, <2>1 DEF TypeOK, BalanceSuffices
  <2> QED
    BY <1>1, <1>3, <2>1, <2>2, NotFoundAssumption
       DEF TypeOK, Unstake, SetAsideReward, adminVars
<1>4. ASSUME NEW u \in Users, NEW a \in Assets, ClaimRewards(u, a)
      PROVE  Touched(u, a)
  <2>1. ClaimRewardOk(u, a)
    BY <1>4 DEF ClaimRewards, ClaimRewardsOk
  <2> QED
    BY <1>1, <1>4, <2>1 DEF TypeOK, ClaimRewards, adminVars
<1> HIDE DEF Touched
<1>5. \E u \in Users, a \in Assets : Touched(u, a)
  <2>1. Cw20Assets \subseteq Users
    BY FiniteSetsAssumption
  <2> QED
    BY <1>2, <1>3, <1>4, <2>1 DEF UserStep, ExecuteStake, ReceiveStake, ExecuteUnstake,
         ReceiveUnstake, HookUnstaker
<1> QED
  BY <1>5 DEF Touched

LEMMA OthersKeepLedger == [Next]_vars /\ ~UserStep => UNCHANGED ledgerVars
<1>1. AdminStep => UNCHANGED ledgerVars
  BY DEF AdminStep, SetAssetRewardDistribution, WhitelistAssets, RemoveAssets,
       UpdateConfig, AllianceDelegate, AllianceUndelegate, AllianceRedelegate
<1>2. TxStep => UNCHANGED ledgerVars
  BY DEF TxStep, ClaimDelegationRewards, ClaimRewardError, UpdateRewardsCallback,
       UpdateRewardsAborts, RollBack
<1>3. ChainStep => UNCHANGED ledgerVars
  BY DEF ChainStep, AccrueRewards, Donate
<1>4. (\E sent \in Amounts \cup {0} : UpdateRewards(sent)) => UNCHANGED ledgerVars
  BY DEF UpdateRewards
<1>5. UNCHANGED vars => UNCHANGED ledgerVars
  BY DEF vars, ledgerVars
<1> QED
  BY <1>1, <1>2, <1>3, <1>4, <1>5 DEF Next

(* A message that is not of a user only whitelists assets that it gives a  *)
(* rate.                                                                   *)
LEMMA NewlyWhitelisted ==
  ASSUME TypeOK, [Next]_vars, ~UserStep, NEW a \in whitelist' \ whitelist
  PROVE  assetRewardRate'[a] # NotFound
<1>1. ASSUME NEW sender, NEW S \in SUBSET Assets, WhitelistAssets(sender, S)
      PROVE  assetRewardRate'[a] # NotFound
  <2>1. a \in S /\ assetRewardRate'[a] = RateWhenWhitelisted(a)
    BY <1>1 DEF WhitelistAssets
  <2>2. assetRewardRate[a] \in Nat \cup {NotFound}
    BY <2>1 DEF TypeOK
  <2> QED
    BY <2>1, <2>2, NotFoundAssumption DEF RateWhenWhitelisted, UnwrapOr
<1>2. TxStep => UNCHANGED whitelist
  BY DEF TxStep, ClaimDelegationRewards, ClaimRewardError, UpdateRewardsCallback,
       UpdateRewardsAborts, RollBack, adminVars
<1>3. ChainStep \/ (\E sent \in Amounts \cup {0} : UpdateRewards(sent)) \/ UNCHANGED vars
        => UNCHANGED whitelist
  BY DEF ChainStep, AccrueRewards, Donate, UpdateRewards, vars, adminVars
<1>4. AdminStep
  BY <1>2, <1>3 DEF Next
<1>5. PICK sender \in Admins, S \in SUBSET Assets : WhitelistAssets(sender, S)
  BY <1>4 DEF AdminStep, SetAssetRewardDistribution, RemoveAssets, UpdateConfig,
       AllianceDelegate, AllianceUndelegate, AllianceRedelegate, adminVars
<1> QED
  BY <1>1, <1>5

LEMMA EntriesCompleteStep ==
  TypeOK /\ TypeOK' /\ EntriesComplete /\ [Next]_vars => EntriesComplete'
<1> SUFFICES ASSUME TypeOK, TypeOK', EntriesComplete, [Next]_vars, NEW a \in Assets
             PROVE  /\ a \in whitelist' \/ totalBalances'[a] # 0
                         => assetRewardRate'[a] # NotFound
                    /\ \A u \in Users :
                         /\ unclaimedRewards'[<<u, a>>] # 0
                              => balances'[<<u, a>>] # NotFound
                         /\ balances'[<<u, a>>] # NotFound
                              => userAssetRewardRate'[<<u, a>>] # NotFound
                         /\ userAssetRewardRate'[<<u, a>>] # NotFound
                              => assetRewardRate'[a] # NotFound
  BY DEF EntriesComplete
<1>1. assetRewardRate[a] # NotFound => assetRewardRate'[a] # NotFound
  BY NextKeepsRates DEF RatesKept
<1>2. \A u \in Users : <<u, a>> \in Accounts
  BY DEF Accounts
<1>3. CASE UserStep
  <2>1. UNCHANGED <<whitelist, assetRewardRate>>
    BY <1>3, AccountTouched
  <2>2. PICK v \in Users, b \in Assets :
          /\ assetRewardRate[b] # NotFound
          /\ userAssetRewardRate'[<<v, b>>] # NotFound
          /\ unclaimedRewards'[<<v, b>>] # 0 => balances'[<<v, b>>] # NotFound
          /\ \A k \in Accounts \ {<<v, b>>} :
               /\ balances'[k] = balances[k]
               /\ userAssetRewardRate'[k] = userAssetRewardRate[k]
               /\ unclaimedRewards'[k] = unclaimedRewards[k]
          /\ \A c \in Assets \ {b} : totalBalances'[c] = totalBalances[c]
    BY <1>3, AccountTouched
  <2>3. a \in whitelist' \/ totalBalances'[a] # 0 => assetRewardRate'[a] # NotFound
    BY <2>1, <2>2 DEF EntriesComplete
  <2>4. ASSUME NEW u \in Users
        PROVE  /\ unclaimedRewards'[<<u, a>>] # 0 => balances'[<<u, a>>] # NotFound
               /\ balances'[<<u, a>>] # NotFound
                    => userAssetRewardRate'[<<u, a>>] # NotFound
               /\ userAssetRewardRate'[<<u, a>>] # NotFound
                    => assetRewardRate'[a] # NotFound
    <3>1. CASE u = v /\ a = b
      BY <2>1, <2>2, <3>1
    <3>2. CASE ~(u = v /\ a = b)
      <4>1. <<u, a>> \in Accounts \ {<<v, b>>}
        BY <1>2, <3>2
      <4> QED
        BY <2>1, <2>2, <4>1 DEF EntriesComplete
    <3> QED
      BY <3>1, <3>2
  <2> QED
    BY <2>3, <2>4
<1>4. CASE ~UserStep
  <2>1. UNCHANGED <<balances, totalBalances, userAssetRewardRate, unclaimedRewards>>
    BY <1>4, OthersKeepLedger DEF ledgerVars
  <2>2. a \in whitelist' => assetRewardRate'[a] # NotFound
    BY <1>1, <1>4, NewlyWhitelisted DEF EntriesComplete
  <2> QED
    BY <1>1, <2>1, <2>2 DEF EntriesComplete
<1> QED
  BY <1>3, <1>4

(* Whatever users and governance did, an entry that a claim or a query     *)
(* loads without a default is there.                                       *)
THEOREM EntriesAlwaysComplete == Safety => []EntriesComplete
<1>1. Init => EntriesComplete
  BY DEF Init, EntriesComplete, Accounts
<1> QED
  BY <1>1, TypeCorrect, EntriesCompleteStep, PTL DEF Safety

(* A claim before the first stake shuts the user out of the asset for      *)
(* good: no message of a user, of governance or of anyone else gives the   *)
(* account the balance without which _claim_reward, and so stake, fails.   *)
THEOREM EarlyClaimIsFinal ==
  Safety => [][\A u \in Users, a \in Assets :
                 ClaimedEarly(u, a) => ClaimedEarly(u, a)' /\ ~StakeOk(u, a, 1)']_vars
<1>1. \A u \in Users, a \in Assets :
        ClaimedEarly(u, a) => ~ClaimRewardOk(u, a) /\ ~StakeOk(u, a, 1)
  BY DEF ClaimedEarly, ClaimRewardOk, StakeOk
<1>2. (\A u \in Users, a \in Assets :
         ClaimedEarly(u, a) => ~ClaimRewardOk(u, a) /\ ~StakeOk(u, a, 1))'
  BY <1>1, PTL
<1>3. TypeOK /\ EntriesComplete /\ [Next]_vars =>
        \A u \in Users, a \in Assets : ClaimedEarly(u, a) => ClaimedEarly(u, a)'
  <2> SUFFICES ASSUME TypeOK, EntriesComplete, [Next]_vars,
                      NEW u \in Users, NEW a \in Assets, ClaimedEarly(u, a)
               PROVE  ClaimedEarly(u, a)'
    OBVIOUS
  <2>1. CASE UserStep
    <3>1. PICK v \in Users, b \in Assets :
            /\ ClaimRewardOk(v, b)
            /\ \A k \in Accounts \ {<<v, b>>} :
                 /\ balances'[k] = balances[k]
                 /\ userAssetRewardRate'[k] = userAssetRewardRate[k]
      BY <2>1, AccountTouched
    <3>2. <<u, a>> \in Accounts \ {<<v, b>>}
      BY <1>1, <3>1 DEF Accounts
    <3> QED
      BY <3>1, <3>2 DEF ClaimedEarly
  <2>2. CASE ~UserStep
    BY <2>2, OthersKeepLedger DEF ledgerVars, ClaimedEarly
  <2> QED
    BY <2>1, <2>2
<1>4. TypeOK /\ EntriesComplete /\ [Next]_vars =>
        [\A u \in Users, a \in Assets :
           ClaimedEarly(u, a) => ClaimedEarly(u, a)' /\ ~StakeOk(u, a, 1)']_vars
  BY <1>2, <1>3
<1> QED
  BY <1>4, TypeCorrect, EntriesAlwaysComplete, PTL DEF Safety
-----------------------------------------------------------------------------
(* The end of an update.                                                   *)

(* While an update runs, every step is one of its own messages and ends it *)
(* or leaves one validator fewer to hear of: no update goes on for ever,   *)
(* whichever claims fail.  That it ends needs the chain to go on with it.  *)
THEOREM UpdatesAdvance ==
  Safety => [][tx # NoTx =>
                 \/ tx' = NoTx
                 \/ /\ tx' # NoTx /\ tx'.before = tx.before
                    /\ Cardinality(tx.claims) \in Nat
                    /\ Cardinality(tx'.claims) = Cardinality(tx.claims) - 1]_vars
<1> DEFINE Advances == \/ tx' = NoTx
                       \/ /\ tx' # NoTx /\ tx'.before = tx.before
                          /\ Cardinality(tx.claims) \in Nat
                          /\ Cardinality(tx'.claims) = Cardinality(tx.claims) - 1
<1>1. ASSUME TypeOK, tx # NoTx, NEW v \in Validators,
             ClaimDelegationRewards(v) \/ ClaimRewardError(v)
      PROVE  Advances
  <2>1. tx \in Transaction /\ v \in tx.claims
    BY <1>1 DEF TypeOK, ClaimDelegationRewards, ClaimRewardError
  <2>2. tx' = [tx EXCEPT !.claims = tx.claims \ {v}]
    BY <1>1 DEF ClaimDelegationRewards, ClaimRewardError
  <2>3. tx' \in Transaction /\ tx'.before = tx.before /\ tx'.claims = tx.claims \ {v}
    BY <2>1, <2>2 DEF Transaction
  <2>4. IsFiniteSet(tx.claims)
    <3>1. tx.claims \in SUBSET Validators /\ IsFiniteSet(Validators)
      BY <2>1, FiniteSetsAssumption DEF Transaction
    <3> QED
      BY <3>1, FS_Subset
  <2>5. /\ Cardinality(tx.claims) \in Nat
        /\ Cardinality(tx.claims \ {v}) = Cardinality(tx.claims) - 1
    BY <2>1, <2>4, FS_CardinalityType, FS_RemoveElement
  <2> QED
    BY <2>3, <2>5, NoTxAssumption
<1>2. UpdateRewardsCallback \/ UpdateRewardsAborts => Advances
  BY DEF UpdateRewardsCallback, UpdateRewardsAborts, RollBack
<1>3. Next /\ tx # NoTx => TxStep
  <2>1. UserStep \/ AdminStep \/ ChainStep \/ (\E sent \in Amounts \cup {0} : UpdateRewards(sent))
          => tx = NoTx
    BY DEF UserStep, ExecuteStake, ReceiveStake, ExecuteUnstake, ReceiveUnstake,
       ClaimRewards, AdminStep, SetAssetRewardDistribution, WhitelistAssets, RemoveAssets,
       UpdateConfig, AllianceDelegate, AllianceUndelegate, AllianceRedelegate,
       ChainStep, AccrueRewards, Donate, UpdateRewards, Idle
  <2> QED
    BY <2>1 DEF Next
<1> HIDE DEF Advances
<1>4. TypeOK /\ [Next]_vars => [tx # NoTx => Advances]_vars
  BY <1>1, <1>2, <1>3 DEF TxStep
<1>5. Safety => [][tx # NoTx => Advances]_vars
  BY <1>4, TypeCorrect, PTL DEF Safety
<1> QED
  BY <1>5 DEF Advances
=============================================================================
