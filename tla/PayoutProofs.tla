---------------------------- MODULE PayoutProofs ----------------------------
(***************************************************************************)
(* Proofs that nothing the hub computes overflows while rewards and stakes *)
(* stay within the width, so that every stake can be withdrawn, every      *)
(* promised reward claimed and every update completed; that the queries    *)
(* answer with what the ledger holds; that an update collects all there is *)
(* and shares it out by the distribution; and that the hub implements      *)
(* RewardAccounts.                                                         *)
(*                                                                         *)
(* What a user gains from a rate is no more than the pool covers, by the   *)
(* invariant of SolvencyProofs.  The invariant here adds that neither the  *)
(* pool nor a rate exceeds the rewards that have arrived at the hub.       *)
(***************************************************************************)
EXTENDS HubQueries, SolvencyProofs

(* The rewards that have arrived, those of a running update aside.         *)
Arrived ==
  IF tx = NoTx THEN emitted - SumOver(accrued, Validators)
               ELSE tx.before.emitted - SumOver(tx.before.accrued, Validators)

BoundsInv ==
  /\ emitted <= MaxEmission
  /\ \A a \in Assets : totalBalances[a] <= MaxStake
  /\ assetRewardDistribution # NotFound =>
       TotalDistribution(assetRewardDistribution) = Percent100

(* A running update has collected what left the validators or was sent     *)
(* along with it.                                                          *)
CollectedInv ==
  tx # NoTx =>
    /\ tx.before.emitted <= MaxEmission
    /\ emitted - SumOver(accrued, Validators)
         = Arrived + (holdings[RewardDenom] - tx.before.holdings[RewardDenom])

ArrivedInv ==
  /\ RewardPool <= Arrived
  /\ \A a \in Assets : UnwrapOr(assetRewardRate[a], 0) <= Arrived * DecimalFractional

PayoutInv == BoundsInv /\ CollectedInv /\ ArrivedInv
-----------------------------------------------------------------------------
(* What has arrived.                                                       *)

LEMMA BeforeType ==
  ASSUME TypeOK, tx # NoTx
  PROVE  /\ tx.before.holdings \in [Denoms -> Nat]
         /\ tx.before.accrued \in [Validators -> Nat]
         /\ tx.before.emitted \in Nat
BY DEF TypeOK, Transaction

LEMMA ArrivedType ==
  TypeOK => /\ SumOver(accrued, Validators) \in Nat
            /\ Arrived \in Int
            /\ BoundsInv /\ CollectedInv => Arrived <= MaxEmission
<1> SUFFICES ASSUME TypeOK
             PROVE  /\ SumOver(accrued, Validators) \in Nat
                    /\ Arrived \in Int
                    /\ BoundsInv /\ CollectedInv => Arrived <= MaxEmission
  OBVIOUS
<1>1. IsFiniteSet(Validators) /\ MaxEmission \in Nat
  BY FiniteSetsAssumption, InputsAssumption
<1>2. SumOver(accrued, Validators) \in Nat /\ emitted \in Nat
  <2>1. \A v \in Validators : accrued[v] \in Nat
    BY DEF TypeOK
  <2> QED
    BY <1>1, <2>1, SumNat DEF TypeOK
<1>3. tx # NoTx => SumOver(tx.before.accrued, Validators) \in Nat /\ tx.before.emitted \in Nat
  <2>1. tx # NoTx => \A v \in Validators : tx.before.accrued[v] \in Nat
    BY BeforeType
  <2> QED
    BY <1>1, <2>1, SumNat, BeforeType
<1> QED
  BY <1>1, <1>2, <1>3 DEF Arrived, BoundsInv, CollectedInv

LEMMA ArrivedTypeNext ==
  TypeOK' => SumOver(accrued', Validators) \in Nat /\ Arrived' \in Int
<1>1. (TypeOK => SumOver(accrued, Validators) \in Nat /\ Arrived \in Int)'
  BY ArrivedType, PTL
<1> QED
  BY <1>1

LEMMA PoolTypeNext == TypeOK' => RewardPool' \in Int
<1>1. TypeOK => RewardPool \in Int
  BY PoolType
<1>2. (TypeOK => RewardPool \in Int)'
  BY <1>1, PTL
<1> QED
  BY <1>2

(* The stakes do not eat into the pool.                                    *)
LEMMA PoolNat ==
  ASSUME TypeOK, UserRateNeverAhead, SolvencyInv
  PROVE  /\ RewardPool \in Nat
         /\ SumOver(Debt, Accounts) \in Nat
         /\ \A u \in Users, a \in Assets : DebtTo(u, a) <= RewardPool * DecimalFractional
<1>1. DecimalFractional \in Nat /\ DecimalFractional > 0 /\ RewardPool \in Int
  BY DecimalFractionalAssumption, PoolType
<1>2. /\ SumOver(Debt, Accounts) \in Nat
      /\ SumOver(Debt, Accounts) <= RewardPool * DecimalFractional
  BY AccountsFinite, DebtsType, SumNat DEF SolvencyInv
<1>3. 0 <= RewardPool
  <2> DEFINE pool == RewardPool
  <2>1. pool \in Int /\ 0 * DecimalFractional <= pool * DecimalFractional
    BY <1>1, <1>2
  <2> HIDE DEF pool
  <2>2. 0 <= pool
    BY <1>1, <2>1, MulCancel
  <2> QED
    BY <2>2 DEF pool
<1>4. ASSUME NEW u \in Users, NEW a \in Assets
      PROVE  DebtTo(u, a) <= RewardPool * DecimalFractional
  <2>1. <<u, a>> \in Accounts /\ Debt[<<u, a>>] = DebtTo(u, a)
    BY DEF Accounts, Debt
  <2>2. Debt[<<u, a>>] <= SumOver(Debt, Accounts)
    BY <2>1, AccountsFinite, DebtsType, SumBoundsValue
  <2>3. DebtTo(u, a) \in Nat
    BY DebtType
  <2>4. RewardPool * DecimalFractional \in Int
    BY <1>1
  <2> QED
    BY <1>2, <2>1, <2>2, <2>3, <2>4
<1> QED
  BY <1>1, <1>2, <1>3, <1>4

(* A step by which x arrives and no rate grows by more than that.          *)
LEMMA ArrivedGrows ==
  ASSUME TypeOK, TypeOK', UserRateNeverAhead, SolvencyInv, ArrivedInv,
         NEW x \in Nat, Arrived' = Arrived + x, RewardPool' <= RewardPool + x,
         \A a \in Assets : UnwrapOr(assetRewardRate'[a], 0)
                             <= UnwrapOr(assetRewardRate[a], 0) + x * DecimalFractional
  PROVE  ArrivedInv'
<1> DEFINE DF == DecimalFractional
<1>1. /\ DF \in Nat /\ Arrived \in Int /\ Arrived' \in Int
      /\ RewardPool \in Int /\ RewardPool' \in Int
  BY DecimalFractionalAssumption, ArrivedType, ArrivedTypeNext, PoolType, PoolTypeNext
<1>2. RewardPool' <= Arrived'
  BY <1>1 DEF ArrivedInv
<1>3. ASSUME NEW a \in Assets
      PROVE  UnwrapOr(assetRewardRate'[a], 0) <= Arrived' * DF
  <2> DEFINE old == UnwrapOr(assetRewardRate[a], 0)
             new == UnwrapOr(assetRewardRate'[a], 0)
  <2>1. old \in Nat /\ new \in Nat
    BY DEF TypeOK, UnwrapOr
  <2>2. old <= Arrived * DF /\ new <= old + x * DF
    BY DEF ArrivedInv
  <2> HIDE DEF old, new
  <2>3. (Arrived + x) * DF = Arrived * DF + x * DF
    BY <1>1
  <2>4. Arrived * DF \in Int /\ x * DF \in Int
    BY <1>1
  <2>5. new <= Arrived' * DF
    BY <2>1, <2>2, <2>3, <2>4
  <2> QED
    BY <2>5 DEF new
<1> QED
  BY <1>2, <1>3 DEF ArrivedInv

LEMMA RatesUnmoved ==
  ASSUME TypeOK, NEW x \in Nat,
         \A a \in Assets : UnwrapOr(assetRewardRate'[a], 0) = UnwrapOr(assetRewardRate[a], 0)
  PROVE  \A a \in Assets : UnwrapOr(assetRewardRate'[a], 0)
                             <= UnwrapOr(assetRewardRate[a], 0) + x * DecimalFractional
<1> SUFFICES ASSUME NEW a \in Assets
             PROVE  UnwrapOr(assetRewardRate'[a], 0)
                      <= UnwrapOr(assetRewardRate[a], 0) + x * DecimalFractional
  OBVIOUS
<1>1. UnwrapOr(assetRewardRate[a], 0) \in Nat /\ x * DecimalFractional \in Nat
  BY ProductNat, DecimalFractionalAssumption DEF TypeOK, UnwrapOr
<1> QED
  BY <1>1

(* A step that leaves the stakes alone moves the pool with the holdings    *)
(* that an abort would leave.                                              *)
LEMMA PoolMoves ==
  ASSUME TypeOK, TypeOK', UNCHANGED totalBalances, NEW x \in Nat,
         Settled'[RewardDenom] = Settled[RewardDenom] + x
  PROVE  RewardPool' <= RewardPool + x
<1>1. StakedOf(RewardDenom)' = StakedOf(RewardDenom) /\ StakedOf(RewardDenom) \in Nat
  BY PoolType DEF StakedOf
<1>2. Settled[RewardDenom] \in Nat
  BY PoolType DEF Denoms
<1>3. /\ RewardPool = Settled[RewardDenom] - StakedOf(RewardDenom)
      /\ RewardPool' = Settled'[RewardDenom] - StakedOf(RewardDenom)
  BY <1>1 DEF RewardPool, Settled
<1> QED
  BY <1>1, <1>2, <1>3

(* What is paid out moves from the validators to the hub.                  *)
LEMMA PayOutMoves ==
  ASSUME TypeOK, NEW V \in SUBSET Validators, PayOut(V)
  PROVE  \E x \in Nat :
           /\ SumOver(accrued', Validators) = SumOver(accrued, Validators) - x
           /\ holdings'[RewardDenom] = holdings[RewardDenom] + x
<1> DEFINE x == SumOver(accrued, V)
<1>1. /\ IsFiniteSet(Validators) /\ IsFiniteSet(V) /\ IsFiniteSet(Validators \ V)
  <2>1. Validators \ V \in SUBSET Validators
    OBVIOUS
  <2> QED
    BY <2>1, FiniteSetsAssumption, FS_Subset
<1>2. /\ \A v \in Validators : accrued[v] \in Nat /\ accrued'[v] \in Int
      /\ \A v \in V : accrued'[v] = 0
      /\ \A v \in Validators \ V : accrued'[v] = accrued[v]
  BY DEF TypeOK, PayOut
<1>3. x \in Nat
  BY <1>1, <1>2, SumNat
<1>4. SumOver(accrued, Validators) = x + SumOver(accrued, Validators \ V)
  BY <1>1, <1>2, SumSplit
<1>5. SumOver(accrued', Validators) = SumOver(accrued', V) + SumOver(accrued', Validators \ V)
  BY <1>1, <1>2, SumSplit
<1>6. SumOver(accrued', V) = 0
  BY <1>1, <1>2, SumZero
<1>7. SumOver(accrued', Validators \ V) = SumOver(accrued, Validators \ V)
  BY <1>1, <1>2, SumEqual
<1>8. SumOver(accrued, Validators \ V) \in Nat
  BY <1>1, <1>2, SumNat
<1>9. holdings'[RewardDenom] = holdings[RewardDenom] + x
  BY DEF PayOut, TypeOK, Denoms
<1> HIDE DEF x
<1>10. SumOver(accrued', Validators) = SumOver(accrued, Validators) - x
  BY <1>3, <1>4, <1>5, <1>6, <1>7, <1>8
<1> QED
  BY <1>3, <1>9, <1>10
-----------------------------------------------------------------------------
(* The bounds.                                                             *)

LEMMA StakesBounded ==
  ASSUME TypeOK, BoundsInv, UserStep
  PROVE  /\ \A a \in Assets : totalBalances'[a] <= MaxStake
         /\ UNCHANGED <<emitted, accrued, assetRewardDistribution, assetRewardRate, tx>>
         /\ Idle
<1>1. \A a \in Assets : totalBalances[a] \in Nat /\ totalBalances[a] <= MaxStake
  BY DEF TypeOK, BoundsInv
<1>2. ASSUME NEW u \in Users, NEW a \in Assets, NEW n \in Amounts, Stake(u, a, n)
      PROVE  \A b \in Assets : totalBalances'[b] <= MaxStake
  BY <1>1, <1>2 DEF Stake, TypeOK
<1>3. ASSUME NEW u, NEW a \in Assets, NEW n \in Amounts, NEW held, Unstake(u, a, n, held)
      PROVE  \A b \in Assets : totalBalances'[b] <= MaxStake
  <2>1. n \in Nat /\ MaxStake \in Nat
    BY InputsAssumption
  <2>2. \A b \in Assets : totalBalances'[b] =
                            IF b = a THEN totalBalances[a] - n ELSE totalBalances[b]
    BY <1>3 DEF Unstake, TypeOK
  <2>3. totalBalances[a] - n <= MaxStake
    BY <1>1, <2>1
  <2> QED
    BY <1>1, <2>2, <2>3
<1>4. \A u \in Users, a \in Assets : ClaimRewards(u, a) => UNCHANGED totalBalances
  BY DEF ClaimRewards
<1>5. \A a \in Assets : totalBalances'[a] <= MaxStake
  <2> DEFINE Bounded == \A b \in Assets : totalBalances'[b] <= MaxStake
  <2>1. ASSUME NEW u \in Users, NEW a \in Assets, NEW n \in Amounts
        PROVE  /\ ExecuteStake(u, a, n) \/ ReceiveStake(u, a, n) => Bounded
               /\ ExecuteUnstake(u, a, n) => Bounded
    <3> HIDE DEF Bounded
    <3>1. (Stake(u, a, n) => Bounded) /\ (Unstake(u, a, n, holdings) => Bounded)
      BY <1>2, <1>3 DEF Bounded
    <3> QED
      BY <3>1 DEF ExecuteStake, ReceiveStake, ExecuteUnstake
  <2>2. ASSUME NEW u \in Users, NEW a \in Assets, NEW n \in Amounts,
               NEW c \in Cw20Assets, NEW tokens \in Amounts,
               ReceiveUnstake(c, u, tokens, a, n)
        PROVE  Bounded
    BY <1>3, <2>2 DEF ReceiveUnstake
  <2>3. ASSUME NEW u \in Users, NEW a \in Assets, ClaimRewards(u, a)
        PROVE  Bounded
    BY <1>1, <1>4, <2>3
  <2> HIDE DEF Bounded
  <2>4. Bounded
    BY <2>1, <2>2, <2>3 DEF UserStep
  <2> QED
    BY <2>4 DEF Bounded
<1>6. /\ UNCHANGED <<emitted, accrued, assetRewardDistribution, assetRewardRate, tx>>
      /\ Idle
  <2>1. Idle
    BY DEF UserStep, ExecuteStake, ReceiveStake, ExecuteUnstake, ReceiveUnstake, ClaimRewards
  <2> QED
    BY <2>1, UserStepKeepsAssetRates, UserStepFrame
<1> QED
  BY <1>5, <1>6

LEMMA BoundsStep ==
  ASSUME TypeOK, BoundsInv, CollectedInv, [Next]_vars
  PROVE  BoundsInv'
<1>1. CASE UNCHANGED vars
  BY <1>1 DEF vars, BoundsInv
<1>2. CASE UserStep
  BY <1>2, StakesBounded DEF BoundsInv
<1>3. CASE AdminStep
  <2>1. UNCHANGED <<totalBalances, emitted>>
    BY <1>3 DEF AdminStep, SetAssetRewardDistribution, WhitelistAssets, RemoveAssets,
       UpdateConfig, AllianceDelegate, AllianceUndelegate, AllianceRedelegate,
       ledgerVars, chainVars
  <2>2. \/ UNCHANGED assetRewardDistribution
        \/ TotalDistribution(assetRewardDistribution') = Percent100
    BY <1>3 DEF AdminStep, SetAssetRewardDistribution, WhitelistAssets, RemoveAssets,
       UpdateConfig, AllianceDelegate, AllianceUndelegate, AllianceRedelegate, adminVars
  <2> QED
    BY <2>1, <2>2 DEF BoundsInv
<1>4. CASE \E sent \in Amounts \cup {0} : UpdateRewards(sent)
  BY <1>4 DEF UpdateRewards, BoundsInv, adminVars, ledgerVars
<1>5. CASE TxStep
  <2>1. UNCHANGED <<totalBalances, assetRewardDistribution>>
    BY <1>5 DEF TxStep, ClaimDelegationRewards, ClaimRewardError, UpdateRewardsCallback,
       UpdateRewardsAborts, RollBack, adminVars, ledgerVars
  <2>2. tx # NoTx /\ (UNCHANGED emitted \/ emitted' = tx.before.emitted)
    BY <1>5 DEF TxStep, ClaimDelegationRewards, ClaimRewardError, UpdateRewardsCallback,
       UpdateRewardsAborts, RollBack, chainVars
  <2> QED
    BY <2>1, <2>2 DEF BoundsInv, CollectedInv
<1>6. CASE ChainStep
  BY <1>6 DEF ChainStep, AccrueRewards, Donate, BoundsInv, adminVars, ledgerVars
<1> QED
  BY <1>1, <1>2, <1>3, <1>4, <1>5, <1>6 DEF Next
-----------------------------------------------------------------------------
(* What arrives with each step.                                            *)

LEMMA UserStepArrived ==
  ASSUME TypeOK, TypeOK', UserRateNeverAhead, UserRateNeverAhead', SolvencyInv,
         BoundsInv, ArrivedInv, UserStep
  PROVE  CollectedInv' /\ ArrivedInv'
<1>1. UNCHANGED <<emitted, accrued, assetRewardRate, tx>> /\ Idle
  BY StakesBounded
<1>2. Arrived' = Arrived + 0
  BY <1>1, ArrivedType DEF Arrived
<1>3. RewardPool' <= RewardPool + 0
  BY UserStepSolvent, PoolType DEF UserStepKeeps
<1>4. \A a \in Assets : UnwrapOr(assetRewardRate'[a], 0) = UnwrapOr(assetRewardRate[a], 0)
  BY <1>1
<1>5. ArrivedInv'
  BY <1>2, <1>3, <1>4, RatesUnmoved, ArrivedGrows
<1> QED
  BY <1>1, <1>5 DEF CollectedInv, Idle

(* Between transactions what arrives is owned at once.                     *)
LEMMA IdleArrived ==
  ASSUME TypeOK, TypeOK', UserRateNeverAhead, SolvencyInv, ArrivedInv,
         Idle, UNCHANGED <<tx, totalBalances>>, NEW x \in Nat,
         holdings'[RewardDenom] = holdings[RewardDenom] + x,
         emitted' - SumOver(accrued', Validators)
           = emitted - SumOver(accrued, Validators) + x,
         \A a \in Assets : UnwrapOr(assetRewardRate'[a], 0) = UnwrapOr(assetRewardRate[a], 0)
  PROVE  CollectedInv' /\ ArrivedInv'
<1>1. Arrived' = Arrived + x
  BY DEF Arrived, Idle
<1>2. Settled'[RewardDenom] = Settled[RewardDenom] + x
  BY DEF Settled, Idle
<1>3. RewardPool' <= RewardPool + x
  BY <1>2, PoolMoves
<1>4. ArrivedInv'
  BY <1>1, <1>3, RatesUnmoved, ArrivedGrows
<1> QED
  BY <1>4 DEF CollectedInv, Idle

LEMMA AdminStepArrived ==
  ASSUME TypeOK, TypeOK', UserRateNeverAhead, SolvencyInv, ArrivedInv, AdminStep
  PROVE  CollectedInv' /\ ArrivedInv'
<1>1. Idle /\ UNCHANGED tx /\ UNCHANGED <<totalBalances, emitted>>
  BY DEF AdminStep, SetAssetRewardDistribution, WhitelistAssets, RemoveAssets,
     UpdateConfig, AllianceDelegate, AllianceUndelegate, AllianceRedelegate,
     ledgerVars, chainVars
<1>2. \A a \in Assets : UnwrapOr(assetRewardRate'[a], 0) = UnwrapOr(assetRewardRate[a], 0)
  <2>1. \A a \in Assets : UnwrapOr(RateWhenWhitelisted(a), 0) = UnwrapOr(assetRewardRate[a], 0)
    BY NotFoundAssumption DEF RateWhenWhitelisted, UnwrapOr
  <2>2. ASSUME NEW sender, NEW S, WhitelistAssets(sender, S)
        PROVE  \A a \in Assets : UnwrapOr(assetRewardRate'[a], 0)
                                   = UnwrapOr(assetRewardRate[a], 0)
    BY <2>1, <2>2 DEF WhitelistAssets
  <2> QED
    BY <2>2 DEF AdminStep, SetAssetRewardDistribution, RemoveAssets,
       UpdateConfig, AllianceDelegate, AllianceUndelegate, AllianceRedelegate
<1>3. UNCHANGED <<holdings, accrued>> \/ \E V \in SUBSET Validators : PayOut(V)
  BY DEF AdminStep, SetAssetRewardDistribution, WhitelistAssets, RemoveAssets,
     UpdateConfig, AllianceDelegate, AllianceUndelegate, AllianceRedelegate, chainVars
<1>4. /\ SumOver(accrued, Validators) \in Nat /\ emitted \in Nat
      /\ holdings[RewardDenom] \in Nat
  BY ArrivedType DEF TypeOK, Denoms
<1>5. \E x \in Nat :
        /\ holdings'[RewardDenom] = holdings[RewardDenom] + x
        /\ SumOver(accrued', Validators) = SumOver(accrued, Validators) - x
  <2>1. CASE UNCHANGED <<holdings, accrued>>
    <3>1. /\ holdings'[RewardDenom] = holdings[RewardDenom] + 0
          /\ SumOver(accrued', Validators) = SumOver(accrued, Validators) - 0
      BY <1>4, <2>1
    <3> QED
      BY <3>1
  <2> QED
    BY <1>3, <2>1, PayOutMoves
<1>6. PICK x \in Nat :
        /\ holdings'[RewardDenom] = holdings[RewardDenom] + x
        /\ SumOver(accrued', Validators) = SumOver(accrued, Validators) - x
  BY <1>5
<1>7. emitted' - SumOver(accrued', Validators) = emitted - SumOver(accrued, Validators) + x
  BY <1>1, <1>4, <1>6
<1> QED
  BY <1>1, <1>2, <1>6, <1>7, IdleArrived

LEMMA ChainStepArrived ==
  ASSUME TypeOK, TypeOK', UserRateNeverAhead, SolvencyInv, ArrivedInv, ChainStep
  PROVE  CollectedInv' /\ ArrivedInv'
<1>1. Idle /\ UNCHANGED <<tx, totalBalances, assetRewardRate>>
  BY DEF ChainStep, AccrueRewards, Donate, ledgerVars
<1>2. /\ SumOver(accrued, Validators) \in Nat /\ emitted \in Nat
      /\ holdings[RewardDenom] \in Nat
      /\ \A v \in Validators : accrued[v] \in Nat /\ accrued'[v] \in Nat
  BY ArrivedType DEF TypeOK, Denoms
<1>3. \A a \in Assets : UnwrapOr(assetRewardRate'[a], 0) = UnwrapOr(assetRewardRate[a], 0)
  BY <1>1
<1>4. ASSUME NEW v \in Validators, NEW n \in Amounts, AccrueRewards(v, n)
      PROVE  CollectedInv' /\ ArrivedInv'
  <2>1. n \in Nat /\ IsFiniteSet(Validators)
    BY InputsAssumption, FiniteSetsAssumption
  <2>2. /\ accrued'[v] = accrued[v] + n
        /\ \A w \in Validators \ {v} : accrued'[w] = accrued[w]
        /\ emitted' = emitted + n /\ holdings' = holdings
    BY <1>4 DEF AccrueRewards, TypeOK
  <2>3. SumOver(accrued', Validators)
          = SumOver(accrued, Validators) + (accrued'[v] - accrued[v])
    BY <1>2, <2>1, <2>2, SumUpdate
  <2>4. emitted' - SumOver(accrued', Validators) = emitted - SumOver(accrued, Validators) + 0
    BY <1>2, <2>1, <2>2, <2>3
  <2>5. holdings'[RewardDenom] = holdings[RewardDenom] + 0
    BY <1>2, <2>2
  <2> QED
    BY <1>1, <1>3, <2>4, <2>5, IdleArrived
<1>5. ASSUME NEW n \in Amounts, Donate(n)
      PROVE  CollectedInv' /\ ArrivedInv'
  <2>1. n \in Nat
    BY InputsAssumption
  <2>2. /\ emitted' = emitted + n /\ accrued' = accrued
        /\ holdings'[RewardDenom] = holdings[RewardDenom] + n
    BY <1>5 DEF Donate, TypeOK, Denoms
  <2>3. emitted' - SumOver(accrued', Validators) = emitted - SumOver(accrued, Validators) + n
    BY <1>2, <2>1, <2>2
  <2> QED
    BY <1>1, <1>3, <2>1, <2>2, <2>3, IdleArrived
<1> QED
  BY <1>4, <1>5 DEF ChainStep
-----------------------------------------------------------------------------
(* What arrives with an update.                                            *)

(* An entry is given its share of what was collected, and a rate grows by  *)
(* no more than that, as an asset that is paid for has at least one staked *)
(* unit.                                                                   *)
LEMMA EntryBounded ==
  ASSUME TypeOK, assetRewardDistribution # NotFound,
         TotalDistribution(assetRewardDistribution) = Percent100,
         RewardsCollected \in Nat, NEW i \in Entries
  PROVE  /\ assetRewardDistribution[i].distribution \in Nat
         /\ assetRewardDistribution[i].distribution <= DecimalFractional
         /\ RewardDistributed(i) = RewardsCollected * assetRewardDistribution[i].distribution
         /\ RateToUpdate(i) \in Nat
         /\ RateToUpdate(i) <= RewardsCollected * assetRewardDistribution[i].distribution
<1> DEFINE rewards == RewardsCollected
           share == assetRewardDistribution[i].distribution
           staked == totalBalances[AssetOf(i)]
           distributed == RewardDistributed(i)
           shares == [j \in Entries |-> assetRewardDistribution[j].distribution]
           DF == DecimalFractional
<1>1. assetRewardDistribution \in Distributions
  BY DEF TypeOK
<1>2. /\ IsFiniteSet(Entries) /\ \A j \in Entries : shares[j] \in Nat
      /\ share \in Nat /\ AssetOf(i) \in Assets
  BY <1>1, DistributionType DEF Entries, AssetOf
<1>3. DF \in Nat /\ DF > 0 /\ rewards \in Nat /\ staked \in Nat
  BY <1>2, DecimalFractionalAssumption DEF TypeOK
<1>4. share <= DF
  <2>1. SumOver(shares, Entries) = DF
    BY DEF TotalDistribution, Entries, Percent100
  <2>2. shares[i] <= SumOver(shares, Entries)
    <3> HIDE DEF shares
    <3> QED
      BY <1>2, SumBoundsValue
  <2> QED
    BY <2>1, <2>2
<1>5. distributed = ((((rewards * DF) * share) \div DF) * DF) \div DF
  BY DEF RewardDistributed, DecimalDiv, DecimalMul, FromAtomics, Percent100
<1>6. RateToUpdate(i) = IF staked = 0 THEN 0 ELSE (distributed * DF) \div (staked * DF)
  BY DEF RateToUpdate, DecimalDiv, FromAtomics, AssetOf
<1> HIDE DEF rewards, share, staked, distributed, shares, DF
<1>7. rewards * share \in Nat
  BY <1>2, <1>3, ProductNat
<1>8. distributed = rewards * share
  <2>1. (rewards * DF) * share = (rewards * share) * DF
    BY <1>2, <1>3
  <2>2. ((rewards * share) * DF) \div DF = rewards * share
    BY <1>3, <1>7, MulDiv
  <2> QED
    BY <1>5, <2>1, <2>2
<1>9. staked # 0 => /\ (distributed * DF) \div (staked * DF) \in Nat
                    /\ (distributed * DF) \div (staked * DF) <= distributed
  <2> SUFFICES ASSUME staked # 0
               PROVE  /\ (distributed * DF) \div (staked * DF) \in Nat
                      /\ (distributed * DF) \div (staked * DF) <= distributed
    OBVIOUS
  <2> DEFINE rate == (distributed * DF) \div (staked * DF)
  <2>1. /\ distributed \in Nat /\ distributed * DF \in Nat
        /\ staked * DF \in Nat /\ staked * DF > 0
    BY <1>3, <1>7, <1>8
  <2>2. rate \in Nat /\ rate * (staked * DF) <= distributed * DF
    BY <2>1, DivNat, DivMul
  <2> HIDE DEF rate
  <2>3. rate * (staked * DF) = (rate * staked) * DF /\ rate * staked \in Nat
    BY <1>3, <2>2
  <2>4. rate * staked <= distributed
    BY <1>3, <2>1, <2>2, <2>3, MulCancel
  <2>5. rate <= rate * staked
    <3>1. rate * 1 <= rate * staked
      BY <1>3, <2>2, MulMonotonic
    <3> QED
      BY <2>2, <3>1
  <2>6. rate <= distributed
    BY <2>1, <2>2, <2>3, <2>4, <2>5
  <2> QED
    BY <2>2, <2>6 DEF rate
<1> QED
  BY <1>2, <1>4, <1>6, <1>7, <1>8, <1>9 DEF rewards, share, distributed, DF

LEMMA IncreaseBounded ==
  ASSUME TypeOK, assetRewardDistribution # NotFound,
         TotalDistribution(assetRewardDistribution) = Percent100,
         RewardsCollected \in Nat, NEW a \in Assets
  PROVE  /\ RateIncrease(a) \in Nat
         /\ RateIncrease(a) <= RewardsCollected * DecimalFractional
<1> DEFINE entries == {i \in Entries : AssetOf(i) = a}
           rates == [i \in Entries |-> RateToUpdate(i)]
           shares == [i \in Entries |-> assetRewardDistribution[i].distribution]
           most == [i \in Entries |-> RewardsCollected * shares[i]]
<1>1. IsFiniteSet(Entries) /\ IsFiniteSet(entries) /\ IsFiniteSet(Entries \ entries)
  <2>1. IsFiniteSet(Entries)
    BY DistributionType DEF Entries, TypeOK
  <2>2. entries \in SUBSET Entries /\ Entries \ entries \in SUBSET Entries
    OBVIOUS
  <2> QED
    BY <2>1, <2>2, FS_Subset
<1>2. \A i \in Entries : /\ shares[i] \in Nat /\ rates[i] \in Nat /\ rates[i] <= most[i]
                         /\ most[i] = RewardsCollected * shares[i]
  BY EntryBounded
<1>3. \A i \in Entries : most[i] \in Nat
  BY <1>2, ProductNat
<1>4. RateIncrease(a) = SumOver(rates, entries)
  BY DEF RateIncrease, Entries, AssetOf
<1>5. SumOver(shares, Entries) = DecimalFractional
  BY DEF TotalDistribution, Entries, Percent100
<1>6. entries \in SUBSET Entries
  OBVIOUS
<1> HIDE DEF entries, rates, shares, most
<1>7. SumOver(rates, entries) \in Nat
  BY <1>1, <1>2, <1>6, SumNat
<1>8. SumOver(rates, entries) <= SumOver(most, entries)
  <2>1. \A i \in entries : rates[i] \in Int /\ most[i] \in Int /\ rates[i] <= most[i]
    BY <1>2, <1>3, <1>6
  <2> QED
    BY <1>1, <2>1, SumMonotonic
<1>9. SumOver(most, Entries) = SumOver(most, entries) + SumOver(most, Entries \ entries)
  <2>1. \A i \in Entries : most[i] \in Int
    BY <1>3
  <2> QED
    BY <1>1, <1>6, <2>1, SumSplit
<1>10. SumOver(most, entries) \in Nat /\ SumOver(most, Entries \ entries) \in Nat
  BY <1>1, <1>3, <1>6, SumNat
<1>11. SumOver(most, Entries) = RewardsCollected * DecimalFractional
  <2>1. RewardsCollected \in Int
    OBVIOUS
  <2> QED
    BY <1>1, <1>2, <1>5, <2>1, SumScale
<1> QED
  BY <1>4, <1>7, <1>8, <1>9, <1>10, <1>11

LEMMA UpdateRewardsArrived ==
  ASSUME TypeOK, TypeOK', UserRateNeverAhead, SolvencyInv, BoundsInv, ArrivedInv,
         NEW sent \in Amounts \cup {0}, UpdateRewards(sent)
  PROVE  CollectedInv' /\ ArrivedInv'
<1>1. sent \in Nat /\ UNCHANGED <<totalBalances, assetRewardRate, accrued>>
  BY InputsAssumption DEF UpdateRewards, ledgerVars
<1>2. /\ Idle /\ tx' # NoTx
      /\ tx'.before.holdings = holdings /\ tx'.before.accrued = accrued
      /\ tx'.before.emitted = emitted
  BY NoTxAssumption DEF UpdateRewards, TypeOK, Transaction
<1>3. /\ SumOver(accrued, Validators) \in Nat /\ emitted \in Nat
      /\ holdings[RewardDenom] \in Nat
  BY ArrivedType DEF TypeOK, Denoms
<1>4. emitted' = emitted + sent /\ holdings'[RewardDenom] = holdings[RewardDenom] + sent
  BY DEF UpdateRewards, TypeOK, Denoms
<1>5. Arrived = emitted - SumOver(accrued, Validators) /\ Arrived' = Arrived + 0
  BY <1>2, <1>3 DEF Arrived, Idle
<1>6. Settled' = holdings /\ Settled = holdings
  BY <1>2 DEF Settled, Idle
<1>7. RewardPool' <= RewardPool + 0
  <2>1. Settled'[RewardDenom] = Settled[RewardDenom] + 0
    BY <1>3, <1>6
  <2> QED
    BY <1>1, <2>1, PoolMoves
<1>8. \A a \in Assets : UnwrapOr(assetRewardRate'[a], 0) = UnwrapOr(assetRewardRate[a], 0)
  BY <1>1
<1>9. ArrivedInv'
  BY <1>5, <1>7, <1>8, RatesUnmoved, ArrivedGrows
<1>10. emitted' - SumOver(accrued', Validators)
         = Arrived' + (holdings'[RewardDenom] - tx'.before.holdings[RewardDenom])
  BY <1>1, <1>2, <1>3, <1>4, <1>5
<1>11. CollectedInv'
  BY <1>2, <1>10 DEF CollectedInv, BoundsInv
<1> QED
  BY <1>9, <1>11

(* A reward claim, answered or failed.                                     *)
LEMMA ClaimStepArrived ==
  ASSUME TypeOK, TypeOK', UserRateNeverAhead, SolvencyInv, CollectedInv, ArrivedInv,
         tx # NoTx, NEW v \in Validators, ClaimDelegationRewards(v) \/ ClaimRewardError(v)
  PROVE  CollectedInv' /\ ArrivedInv'
<1>1. UNCHANGED <<totalBalances, assetRewardRate, emitted>>
  BY DEF ClaimDelegationRewards, ClaimRewardError, ledgerVars, chainVars
<1>2. tx' # NoTx /\ tx'.before = tx.before
  <2>1. tx' = [tx EXCEPT !.claims = tx.claims \ {v}]
    BY DEF ClaimDelegationRewards, ClaimRewardError
  <2>2. tx' \in Transaction /\ tx'.before = tx.before
    BY <2>1 DEF TypeOK, Transaction
  <2> QED
    BY <2>2, NoTxAssumption
<1>3. Settled' = Settled
  BY <1>2 DEF Settled
<1>4. /\ Settled[RewardDenom] \in Nat /\ Arrived \in Int /\ emitted \in Nat
      /\ holdings[RewardDenom] \in Nat /\ SumOver(accrued, Validators) \in Nat
      /\ tx.before.holdings[RewardDenom] \in Nat
  BY PoolType, ArrivedType, BeforeType DEF TypeOK, Denoms
<1>5. Arrived' = Arrived + 0
  BY <1>2, <1>4 DEF Arrived
<1>6. RewardPool' <= RewardPool + 0
  <2>1. Settled'[RewardDenom] = Settled[RewardDenom] + 0
    BY <1>3, <1>4
  <2> QED
    BY <1>1, <2>1, PoolMoves
<1>7. \A a \in Assets : UnwrapOr(assetRewardRate'[a], 0) = UnwrapOr(assetRewardRate[a], 0)
  BY <1>1
<1>8. ArrivedInv'
  BY <1>5, <1>6, <1>7, RatesUnmoved, ArrivedGrows
<1>9. \E x \in Nat :
        /\ holdings'[RewardDenom] = holdings[RewardDenom] + x
        /\ SumOver(accrued', Validators) = SumOver(accrued, Validators) - x
  <2>1. ClaimDelegationRewards(v) => PayOut({v})
    BY DEF ClaimDelegationRewards
  <2>2. CASE ClaimRewardError(v)
    <3>1. UNCHANGED <<holdings, accrued>>
      BY <2>2 DEF ClaimRewardError, chainVars
    <3>2. /\ holdings'[RewardDenom] = holdings[RewardDenom] + 0
          /\ SumOver(accrued', Validators) = SumOver(accrued, Validators) - 0
      BY <1>4, <3>1
    <3> QED
      BY <3>2
  <2> QED
    BY <2>1, <2>2, PayOutMoves
<1>10. PICK x \in Nat :
         /\ holdings'[RewardDenom] = holdings[RewardDenom] + x
         /\ SumOver(accrued', Validators) = SumOver(accrued, Validators) - x
  BY <1>9
<1>11. emitted' - SumOver(accrued', Validators)
         = Arrived' + (holdings'[RewardDenom] - tx'.before.holdings[RewardDenom])
  <2>1. emitted - SumOver(accrued, Validators)
          = Arrived + (holdings[RewardDenom] - tx.before.holdings[RewardDenom])
    BY DEF CollectedInv
  <2> QED
    BY <1>1, <1>2, <1>4, <1>5, <1>10, <2>1
<1>12. CollectedInv'
  BY <1>2, <1>11 DEF CollectedInv
<1> QED
  BY <1>8, <1>12

LEMMA RollBackArrived ==
  ASSUME TypeOK, TypeOK', UserRateNeverAhead, SolvencyInv, ArrivedInv, tx # NoTx, RollBack
  PROVE  CollectedInv' /\ ArrivedInv'
<1>1. /\ UNCHANGED <<totalBalances, assetRewardRate>> /\ tx' = NoTx
      /\ holdings' = tx.before.holdings /\ accrued' = tx.before.accrued
      /\ emitted' = tx.before.emitted
  BY DEF RollBack, ledgerVars
<1>2. Arrived \in Int /\ Settled[RewardDenom] \in Nat
  BY ArrivedType, PoolType DEF Denoms
<1>3. Arrived' = Arrived + 0 /\ Settled'[RewardDenom] = Settled[RewardDenom] + 0
  BY <1>1, <1>2 DEF Arrived, Settled
<1>4. RewardPool' <= RewardPool + 0
  BY <1>1, <1>3, PoolMoves
<1>5. \A a \in Assets : UnwrapOr(assetRewardRate'[a], 0) = UnwrapOr(assetRewardRate[a], 0)
  BY <1>1
<1>6. ArrivedInv'
  BY <1>3, <1>4, <1>5, RatesUnmoved, ArrivedGrows
<1> QED
  BY <1>1, <1>6 DEF CollectedInv
LEMMA CollectedBounded ==
  ASSUME TypeOK, UserRateNeverAhead, TempBalanceOfThisUpdate, SolvencyInv, BoundsInv,
         CollectedInv, ArrivedInv, tx # NoTx
  PROVE  /\ tempBalance \in Nat /\ RewardsCollected \in Nat
         /\ holdings[RewardDenom] = Settled[RewardDenom] + RewardsCollected
         /\ emitted - SumOver(accrued, Validators) = Arrived + RewardsCollected
         /\ Arrived \in Nat /\ Arrived + RewardsCollected <= MaxEmission
<1>1. /\ tempBalance = tx.before.holdings[RewardDenom]
      /\ Settled[RewardDenom] = tx.before.holdings[RewardDenom]
      /\ tempBalance \in Nat /\ holdings[RewardDenom] \in Nat
      /\ holdings[RewardDenom] >= Settled[RewardDenom]
  BY BeforeType DEF TempBalanceOfThisUpdate, Settled, SolvencyInv, TypeOK, Denoms
<1>2. RewardsCollected \in Nat /\ holdings[RewardDenom] = Settled[RewardDenom] + RewardsCollected
  BY <1>1 DEF RewardsCollected
<1>3. emitted - SumOver(accrued, Validators) = Arrived + RewardsCollected
  BY <1>1 DEF CollectedInv, RewardsCollected
<1>4. Arrived \in Int /\ RewardPool \in Nat /\ RewardPool <= Arrived
  BY ArrivedType, PoolNat DEF ArrivedInv
<1>5. SumOver(accrued, Validators) \in Nat /\ emitted \in Nat /\ emitted <= MaxEmission
      /\ MaxEmission \in Nat
  BY ArrivedType, InputsAssumption DEF TypeOK, BoundsInv
<1> QED
  BY <1>1, <1>2, <1>3, <1>4, <1>5

LEMMA CallbackArrived ==
  ASSUME TypeOK, TypeOK', UserRateNeverAhead, TempBalanceOfThisUpdate, SolvencyInv,
         BoundsInv, CollectedInv, ArrivedInv, tx # NoTx, UpdateRewardsCallback
  PROVE  CollectedInv' /\ ArrivedInv'
<1>1. /\ UNCHANGED <<totalBalances, holdings, emitted, accrued>> /\ tx' = NoTx
      /\ UpdateRewardsCallbackOk
  BY DEF UpdateRewardsCallback, ledgerVars, chainVars
<1>2. RewardsCollected \in Nat
  BY CollectedBounded
<1>3. Arrived' = Arrived + RewardsCollected
  BY <1>1, CollectedBounded DEF Arrived
<1>4. RewardPool' <= RewardPool + RewardsCollected
  <2>1. Settled'[RewardDenom] = Settled[RewardDenom] + RewardsCollected
    BY <1>1, CollectedBounded DEF Settled
  <2> QED
    BY <1>1, <1>2, <2>1, PoolMoves
<1>5. ASSUME NEW a \in Assets
      PROVE  UnwrapOr(assetRewardRate'[a], 0)
               <= UnwrapOr(assetRewardRate[a], 0) + RewardsCollected * DecimalFractional
  <2> DEFINE most == RewardsCollected * DecimalFractional
  <2>1. /\ RateIncrease(a) \in Nat /\ RateIncrease(a) <= most
    BY <1>1, <1>2, IncreaseBounded DEF UpdateRewardsCallbackOk, BoundsInv
  <2>2. /\ UnwrapOr(assetRewardRate[a], 0) \in Nat
        /\ assetRewardRate[a] \in Nat \cup {NotFound}
        /\ most \in Nat
    BY <1>2, ProductNat, DecimalFractionalAssumption DEF TypeOK, UnwrapOr
  <2>3. assetRewardRate'[a] = IF RateIncrease(a) > 0
                              THEN UnwrapOr(assetRewardRate[a], 0) + RateIncrease(a)
                              ELSE assetRewardRate[a]
    BY DEF UpdateRewardsCallback
  <2> HIDE DEF most
  <2>4. UnwrapOr(assetRewardRate'[a], 0) <= UnwrapOr(assetRewardRate[a], 0) + most
    <3>1. CASE RateIncrease(a) > 0
      <4>1. /\ assetRewardRate'[a] = UnwrapOr(assetRewardRate[a], 0) + RateIncrease(a)
            /\ assetRewardRate'[a] # NotFound
        BY <2>1, <2>2, <2>3, <3>1, NotFoundAssumption
      <4>2. UnwrapOr(assetRewardRate'[a], 0) = assetRewardRate'[a]
        BY <4>1 DEF UnwrapOr
      <4> QED
        BY <2>1, <2>2, <4>1, <4>2
    <3>2. CASE ~(RateIncrease(a) > 0)
      BY <2>1, <2>2, <2>3, <3>2
    <3> QED
      BY <3>1, <3>2
  <2> QED
    BY <2>4 DEF most
<1>6. ArrivedInv'
  BY <1>2, <1>3, <1>4, <1>5, ArrivedGrows
<1> QED
  BY <1>1, <1>6 DEF CollectedInv

LEMMA PayoutStep ==
  /\ TypeOK /\ UserRateNeverAhead /\ TempBalanceOfThisUpdate /\ SolvencyInv
  /\ TypeOK' /\ UserRateNeverAhead' /\ PayoutInv /\ [Next]_vars
  => PayoutInv'
<1> SUFFICES ASSUME TypeOK, UserRateNeverAhead, TempBalanceOfThisUpdate, SolvencyInv,
                    TypeOK', UserRateNeverAhead', BoundsInv, CollectedInv, ArrivedInv,
                    [Next]_vars
             PROVE  CollectedInv' /\ ArrivedInv'
  BY BoundsStep DEF PayoutInv
<1>1. CASE UNCHANGED vars
  BY <1>1 DEF vars, CollectedInv, ArrivedInv, Arrived, RewardPool, Settled, StakedOf
<1>2. UserStep \/ AdminStep \/ ChainStep => CollectedInv' /\ ArrivedInv'
  BY UserStepArrived, AdminStepArrived, ChainStepArrived
<1>3. ASSUME NEW sent \in Amounts \cup {0}, UpdateRewards(sent)
      PROVE  CollectedInv' /\ ArrivedInv'
  BY <1>3, UpdateRewardsArrived
<1>4. CASE TxStep
  <2>1. tx # NoTx
    BY <1>4 DEF TxStep
  <2>2. ASSUME NEW v \in Validators, ClaimDelegationRewards(v) \/ ClaimRewardError(v)
        PROVE  CollectedInv' /\ ArrivedInv'
    BY <2>1, <2>2, ClaimStepArrived
  <2>3. UpdateRewardsCallback => CollectedInv' /\ ArrivedInv'
    BY <2>1, CallbackArrived
  <2>4. UpdateRewardsAborts => CollectedInv' /\ ArrivedInv'
    BY <2>1, RollBackArrived DEF UpdateRewardsAborts
  <2> QED
    BY <1>4, <2>2, <2>3, <2>4 DEF TxStep
<1> QED
  BY <1>1, <1>2, <1>3, <1>4 DEF Next

LEMMA PayoutInvariant == Safety => []PayoutInv
<1>1. Init /\ TypeOK => PayoutInv
  <2> SUFFICES ASSUME Init, TypeOK
               PROVE  PayoutInv
    OBVIOUS
  <2>1. SumOver(accrued, Validators) = 0
    BY FiniteSetsAssumption, SumZero DEF Init
  <2>2. Arrived = 0 /\ RewardPool = 0
    BY <2>1 DEF Init, Arrived, RewardPool, Settled, StakedOf, Denoms
  <2>3. \A a \in Assets : UnwrapOr(assetRewardRate[a], 0) = 0
    BY DEF Init, UnwrapOr
  <2>4. 0 * DecimalFractional = 0
    BY DecimalFractionalAssumption
  <2>5. ArrivedInv
    BY <2>2, <2>3, <2>4 DEF ArrivedInv
  <2> QED
    BY <2>5, InputsAssumption DEF Init, PayoutInv, BoundsInv, CollectedInv
<1> QED
  BY <1>1, PayoutStep, TypeCorrect, UserRateBehind, TempBalanceFresh, SolvencyInvariant,
     PTL DEF Safety
-----------------------------------------------------------------------------
(* Nothing overflows.                                                      *)

LedgerInv ==
  /\ TypeOK /\ UserRateNeverAhead /\ TotalsMatchBalances /\ EntriesComplete
  /\ TempBalanceOfThisUpdate /\ SolvencyInv /\ PayoutInv

LEMMA LedgerInvariant == Safety => []LedgerInv
BY TypeCorrect, UserRateBehind, TotalsAlwaysMatch, EntriesAlwaysComplete, TempBalanceFresh,
   SolvencyInvariant, PayoutInvariant, PTL DEF LedgerInv

(* What one unit of a bounded amount is worth fits when the bound does.    *)
LEMMA ScaledFits ==
  ASSUME NEW n \in Nat, NEW bound \in Nat, n <= bound,
         bound * DecimalFractional <= MaxUint128
  PROVE  /\ Fits(n) /\ Fits(n * DecimalFractional) /\ n * DecimalFractional \in Nat
         /\ n * DecimalFractional <= bound * DecimalFractional
<1> DEFINE DF == DecimalFractional
<1>1. DF \in Nat /\ DF > 0 /\ MaxUint128 \in Nat
  BY DecimalFractionalAssumption, MaxUint128Assumption
<1> HIDE DEF DF
<1>2. n * DF \in Nat /\ bound * DF \in Nat
  BY <1>1, ProductNat
<1>3. n * DF <= bound * DF
  <2>1. DF * n <= DF * bound
    BY <1>1, MulMonotonic
  <2>2. DF * n = n * DF /\ DF * bound = bound * DF
    BY <1>1
  <2> QED
    BY <2>1, <2>2
<1>4. n <= n * DF
  <2>1. n * 1 <= n * DF
    BY <1>1, MulMonotonic
  <2> QED
    BY <2>1
<1> QED
  BY <1>1, <1>2, <1>3, <1>4 DEF Fits, DF

LEMMA PoolFits ==
  ASSUME WidthSuffices, LedgerInv
  PROVE  /\ RewardPool \in Nat /\ Arrived \in Nat /\ RewardPool <= MaxUint128
         /\ RewardPool * DecimalFractional \in Nat
         /\ RewardPool * DecimalFractional <= MaxUint128
         /\ Arrived * DecimalFractional <= MaxUint128
<1>1. RewardPool \in Nat /\ RewardPool <= Arrived /\ Arrived \in Int /\ Arrived <= MaxEmission
  BY PoolNat, ArrivedType DEF LedgerInv, PayoutInv, ArrivedInv
<1>2. /\ MaxEmission \in Nat /\ MaxEmission * DecimalFractional <= MaxUint128
      /\ MaxUint128 \in Nat
  BY InputsAssumption, MaxUint128Assumption DEF WidthSuffices
<1>3. Arrived \in Nat /\ RewardPool <= MaxEmission
  BY <1>1, <1>2
<1>4. /\ Fits(RewardPool) /\ Fits(RewardPool * DecimalFractional)
      /\ RewardPool * DecimalFractional \in Nat /\ Fits(Arrived * DecimalFractional)
  BY <1>1, <1>2, <1>3, ScaledFits
<1> QED
  BY <1>1, <1>3, <1>4 DEF Fits

LEMMA StakeFits ==
  ASSUME WidthSuffices, LedgerInv, NEW u \in Users, NEW a \in Assets
  PROVE  /\ StakeOf(u, a) \in Nat /\ StakeOf(u, a) <= totalBalances[a]
         /\ Fits(FromAtomics(StakeOf(u, a)))
         /\ Fits(FromAtomics(totalBalances[a]))
<1> DEFINE stakes == [v \in Users |-> StakeOf(v, a)]
<1>1. \A v \in Users : stakes[v] \in Nat
  BY DEF LedgerInv, TypeOK, Accounts, StakeOf, UnwrapOr
<1>2. totalBalances[a] = SumOver(stakes, Users) /\ totalBalances[a] \in Nat
  BY DEF LedgerInv, TotalsMatchBalances, TypeOK
<1>3. stakes[u] <= SumOver(stakes, Users)
  <2> HIDE DEF stakes
  <2> QED
    BY <1>1, FiniteSetsAssumption, SumBoundsValue
<1>4. StakeOf(u, a) \in Nat /\ StakeOf(u, a) <= totalBalances[a]
  BY <1>1, <1>2, <1>3
<1>5. /\ totalBalances[a] <= MaxStake /\ MaxStake \in Nat
      /\ MaxStake * DecimalFractional <= MaxUint128
  BY InputsAssumption DEF LedgerInv, PayoutInv, BoundsInv, WidthSuffices
<1>6. StakeOf(u, a) <= MaxStake
  BY <1>2, <1>4, <1>5
<1>7. Fits(totalBalances[a] * DecimalFractional)
  BY <1>2, <1>5, ScaledFits
<1>8. Fits(StakeOf(u, a) * DecimalFractional)
  BY <1>4, <1>5, <1>6, ScaledFits
<1> QED
  BY <1>4, <1>7, <1>8 DEF FromAtomics

(* The account of a user who has staked.                                   *)
LEMMA AccountPayable ==
  ASSUME WidthSuffices, LedgerInv, NEW u \in Users, NEW a \in Assets,
         balances[<<u, a>>] # NotFound
  PROVE  /\ userAssetRewardRate[<<u, a>>] # NotFound /\ assetRewardRate[a] # NotFound
         /\ RateGain(u, a) \in Nat /\ Fits(RateGain(u, a))
         /\ ClaimRewardOk(u, a)
         /\ ClaimedReward(u, a) \in Nat /\ unclaimedRewards[<<u, a>>] \in Nat
         /\ ClaimedReward(u, a) + unclaimedRewards[<<u, a>>] <= RewardPool
<1> DEFINE gain == RateGain(u, a)
           staked == balances[<<u, a>>]
           unclaimed == unclaimedRewards[<<u, a>>]
           claimed == ClaimedReward(u, a)
           DF == DecimalFractional
<1>1. TypeOK /\ UserRateNeverAhead /\ SolvencyInv /\ EntriesComplete
  BY DEF LedgerInv
<1>2. userAssetRewardRate[<<u, a>>] # NotFound /\ assetRewardRate[a] # NotFound
  BY <1>1 DEF EntriesComplete
<1>3. /\ gain \in Nat /\ staked \in Nat /\ unclaimed \in Nat /\ gain * staked \in Nat
      /\ unclaimed * DF \in Nat
      /\ DF \in Nat /\ DF > 0 /\ MaxUint128 \in Nat
  BY <1>1, <1>2, AccountType, DebtType, DecimalFractionalAssumption, MaxUint128Assumption
<1>4. /\ DebtTo(u, a) = unclaimed * DF + gain * staked
      /\ DebtTo(u, a) <= RewardPool * DF
  BY <1>1, <1>2, PoolNat DEF DebtTo
<1>5. Fits(gain)
  <2>1. /\ assetRewardRate[a] \in Nat /\ userAssetRewardRate[<<u, a>>] \in Nat
        /\ UnwrapOr(assetRewardRate[a], 0) = assetRewardRate[a]
    BY <1>1, <1>2 DEF TypeOK, Accounts, UnwrapOr
  <2>2. assetRewardRate[a] <= Arrived * DF
    BY <2>1 DEF LedgerInv, PayoutInv, ArrivedInv
  <2>3. Arrived * DF \in Nat /\ Arrived * DF <= MaxUint128
    BY PoolFits, ProductNat, <1>3
  <2> HIDE DEF DF
  <2> QED
    BY <1>3, <2>1, <2>2, <2>3 DEF Fits, RateGain
<1>6. Fits(gain * staked)
  <2>1. RewardPool * DF \in Nat /\ RewardPool * DF <= MaxUint128
    BY PoolFits
  <2> HIDE DEF gain, staked, unclaimed, DF
  <2> QED
    BY <1>3, <1>4, <2>1 DEF Fits
<1>7. DecimalMul(gain, FromAtomics(staked)) = gain * staked
  <2>1. DecimalMul(gain, FromAtomics(staked)) = (gain * (staked * DF)) \div DF
    BY DEF DecimalMul, FromAtomics
  <2> HIDE DEF gain, staked, DF
  <2>2. gain * (staked * DF) = (gain * staked) * DF
    BY <1>3
  <2> QED
    BY <1>3, <2>1, <2>2, MulDiv
<1>8. Fits(FromAtomics(staked))
  <2>1. StakeOf(u, a) = staked
    BY DEF StakeOf, UnwrapOr
  <2> QED
    BY <2>1, StakeFits
<1>9. ClaimRewardOk(u, a)
  BY <1>2, <1>5, <1>6, <1>7, <1>8 DEF ClaimRewardOk, AssetRateFound
<1>10. claimed \in Nat /\ claimed * DF <= gain * staked
  BY <1>1, <1>2, <1>9, ClaimedRewardType, ClaimCovered
<1>11. claimed + unclaimed <= RewardPool
  <2>1. RewardPool \in Nat /\ RewardPool * DF \in Nat
    BY PoolFits
  <2> HIDE DEF gain, staked, unclaimed, claimed, DF
  <2>2. (claimed + unclaimed) * DF = claimed * DF + unclaimed * DF /\ claimed * DF \in Nat
    BY <1>3, <1>10
  <2>3. (claimed + unclaimed) * DF <= RewardPool * DF
    BY <1>3, <1>4, <1>10, <2>1, <2>2
  <2>4. claimed + unclaimed \in Nat
    BY <1>3, <1>10
  <2> QED
    BY <1>3, <2>1, <2>3, <2>4, MulCancel
<1> QED
  BY <1>2, <1>3, <1>5, <1>9, <1>10, <1>11

(* Between transactions the hub owns the pool and, besides, every stake.   *)
LEMMA OwnedWhenIdle ==
  ASSUME LedgerInv, Idle
  PROVE  /\ \A a \in Assets : totalBalances[a] \in Nat /\ holdings[a] >= totalBalances[a]
         /\ holdings[RewardDenom] \in Nat /\ holdings[RewardDenom] >= RewardPool
<1>1. TypeOK /\ SolvencyInv /\ Settled = holdings
  BY DEF LedgerInv, Settled, Idle
<1>2. \A a \in Assets : totalBalances[a] \in Nat /\ holdings[a] >= totalBalances[a]
  BY <1>1 DEF TypeOK, SolvencyInv
<1>3. holdings[RewardDenom] \in Nat
  BY <1>1 DEF TypeOK, Denoms
<1> QED
  BY <1>1, <1>2, <1>3, PoolType

(* While rewards and stakes stay within the width, every stake can be      *)
(* taken back in full, also after its asset was removed.                   *)
THEOREM AlwaysWithdrawable == WidthSuffices => (Safety => []StakesWithdrawable)
<1> SUFFICES ASSUME WidthSuffices
             PROVE  Safety => []StakesWithdrawable
  OBVIOUS
<1>1. LedgerInv => StakesWithdrawable
  <2> SUFFICES ASSUME LedgerInv, Idle, NEW u \in Users, NEW a \in Assets,
                      StakeOf(u, a) > 0
               PROVE  UnstakeOk(u, a, StakeOf(u, a), holdings)
    BY DEF StakesWithdrawable
  <2>1. balances[<<u, a>>] # NotFound /\ balances[<<u, a>>] = StakeOf(u, a)
    BY DEF StakeOf, UnwrapOr
  <2>2. StakeOf(u, a) \in Nat /\ StakeOf(u, a) <= totalBalances[a]
    BY StakeFits
  <2>3. ClaimRewardOk(u, a) /\ Fits(unclaimedRewards[<<u, a>>] + ClaimedReward(u, a))
    <3>1. /\ ClaimRewardOk(u, a)
          /\ ClaimedReward(u, a) \in Nat /\ unclaimedRewards[<<u, a>>] \in Nat
          /\ ClaimedReward(u, a) + unclaimedRewards[<<u, a>>] <= RewardPool
      BY <2>1, AccountPayable
    <3>2. RewardPool \in Nat /\ RewardPool <= MaxUint128 /\ MaxUint128 \in Nat
      BY PoolFits, MaxUint128Assumption
    <3> QED
      BY <3>1, <3>2 DEF Fits
  <2>4. totalBalances[a] \in Nat /\ holdings[a] \in Nat /\ holdings[a] >= totalBalances[a]
    BY OwnedWhenIdle DEF LedgerInv, TypeOK, Denoms
  <2>5. BalanceSuffices(u, a, StakeOf(u, a))
    BY <2>1, <2>2 DEF BalanceSuffices
  <2> QED
    BY <2>2, <2>3, <2>4, <2>5 DEF UnstakeOk
<1> QED
  BY <1>1, LedgerInvariant, PTL

(* And every reward the query promises can be claimed.                     *)
THEOREM AlwaysClaimable == WidthSuffices => (Safety => []RewardsClaimable)
<1> SUFFICES ASSUME WidthSuffices
             PROVE  Safety => []RewardsClaimable
  OBVIOUS
<1>1. LedgerInv => RewardsClaimable
  <2> SUFFICES ASSUME LedgerInv, Idle, NEW u \in Users, NEW a \in Assets,
                      PendingRewards(u, a) > 0
               PROVE  ClaimRewardsOk(u, a)
    BY DEF RewardsClaimable
  <2>1. balances[<<u, a>>] # NotFound
    <3>1. unclaimedRewards[<<u, a>>] # 0 => balances[<<u, a>>] # NotFound
      BY DEF LedgerInv, EntriesComplete
    <3> QED
      BY <3>1 DEF PendingRewards
  <2>2. /\ ClaimRewardOk(u, a)
        /\ ClaimedReward(u, a) \in Nat /\ unclaimedRewards[<<u, a>>] \in Nat
        /\ ClaimedReward(u, a) + unclaimedRewards[<<u, a>>] <= RewardPool
    BY <2>1, AccountPayable
  <2>3. RewardPool \in Nat /\ RewardPool <= MaxUint128 /\ MaxUint128 \in Nat
    BY PoolFits, MaxUint128Assumption
  <2>4. holdings[RewardDenom] \in Nat /\ holdings[RewardDenom] >= RewardPool
    BY OwnedWhenIdle
  <2> QED
    BY <2>2, <2>3, <2>4 DEF ClaimRewardsOk, Fits
<1> QED
  BY <1>1, LedgerInvariant, PTL

(* And every user but one who claimed before a first stake can stake any   *)
(* whitelisted asset: that user is the only one the finding on early       *)
(* claims is about.                                                        *)
THEOREM StakingAlwaysOpenOtherwise ==
  WidthSuffices => (Safety => []StakingOpenOtherwise)
<1> SUFFICES ASSUME WidthSuffices
             PROVE  Safety => []StakingOpenOtherwise
  OBVIOUS
<1>1. LedgerInv => StakingOpenOtherwise
  <2> SUFFICES ASSUME LedgerInv, Idle, NEW u \in Users, NEW a \in whitelist,
                      NEW n \in Amounts \ {0}, totalBalances[a] + n <= MaxStake
               PROVE  StakeOk(u, a, n) <=> ~ClaimedEarly(u, a)
    BY DEF StakingOpenOtherwise
  <2>1. /\ a \in Assets /\ totalBalances[a] \in Nat
        /\ n \in Nat /\ n > 0 /\ MaxStake \in Nat /\ MaxUint128 \in Nat
    BY InputsAssumption, MaxUint128Assumption DEF LedgerInv, TypeOK
  <2>2. Fits(totalBalances[a] + n)
    BY <2>1, ScaledFits DEF WidthSuffices
  <2>3. CASE balances[<<u, a>>] # NotFound
    <3>1. /\ ClaimRewardOk(u, a)
          /\ ClaimedReward(u, a) \in Nat /\ unclaimedRewards[<<u, a>>] \in Nat
          /\ ClaimedReward(u, a) + unclaimedRewards[<<u, a>>] <= RewardPool
      BY <2>1, <2>3, AccountPayable
    <3>2. RewardPool \in Nat /\ RewardPool <= MaxUint128
      BY PoolFits
    <3>3. Fits(unclaimedRewards[<<u, a>>] + ClaimedReward(u, a))
      BY <2>1, <3>1, <3>2 DEF Fits
    <3> QED
      BY <2>1, <2>2, <2>3, <3>1, <3>3 DEF StakeOk, ClaimedEarly
  <2>4. CASE balances[<<u, a>>] = NotFound /\ userAssetRewardRate[<<u, a>>] = NotFound
    <3>1. assetRewardRate[a] # NotFound /\ unclaimedRewards[<<u, a>>] = 0
      BY <2>1, <2>4 DEF LedgerInv, EntriesComplete
    <3>2. ClaimRewardOk(u, a) /\ ClaimedReward(u, a) = 0
      BY <2>4, <3>1 DEF ClaimRewardOk, AssetRateFound, ClaimedReward
    <3>3. Fits(unclaimedRewards[<<u, a>>] + ClaimedReward(u, a))
      BY <2>1, <3>1, <3>2 DEF Fits
    <3> QED
      BY <2>1, <2>2, <2>4, <3>2, <3>3 DEF StakeOk, ClaimedEarly
  <2>5. CASE ClaimedEarly(u, a)
    BY <2>5 DEF ClaimedEarly, StakeOk, ClaimRewardOk
  <2> QED
    BY <2>3, <2>4, <2>5 DEF ClaimedEarly
<1> QED
  BY <1>1, LedgerInvariant, PTL

(* And the query answers for every account that holds anything.            *)
THEOREM AlwaysAnswered == WidthSuffices => (Safety => []PendingAnswered)
<1> SUFFICES ASSUME WidthSuffices
             PROVE  Safety => []PendingAnswered
  OBVIOUS
<1>1. LedgerInv => PendingAnswered
  <2> SUFFICES ASSUME LedgerInv, NEW u \in Users, NEW a \in Assets,
                      StakedBalanceOk(u, a) \/ unclaimedRewards[<<u, a>>] > 0
               PROVE  PendingRewardsOk(u, a)
    BY DEF PendingAnswered
  <2> DEFINE earned == MulUint(RateGain(u, a), balances[<<u, a>>])
             pending == PendingRewards(u, a)
             DF == DecimalFractional
  <2>1. balances[<<u, a>>] # NotFound
    <3>1. unclaimedRewards[<<u, a>>] # 0 => balances[<<u, a>>] # NotFound
      BY DEF LedgerInv, EntriesComplete
    <3> QED
      BY <3>1 DEF StakedBalanceOk
  <2>2. /\ userAssetRewardRate[<<u, a>>] # NotFound /\ assetRewardRate[a] # NotFound
        /\ RateGain(u, a) \in Nat /\ Fits(RateGain(u, a))
        /\ unclaimedRewards[<<u, a>>] \in Nat
    BY <2>1, AccountPayable
  <2>3. balances[<<u, a>>] \in Nat
    BY <2>1, AccountType DEF LedgerInv
  <2>4. earned \in Nat /\ pending = unclaimedRewards[<<u, a>>] + earned
    BY <2>1, <2>2, <2>3, MathNat DEF PendingRewards
  <2>5. DF * pending <= RewardPool * DF
    <3>1. pending \in Nat /\ DF * pending <= DebtTo(u, a) /\ DebtTo(u, a) \in Nat
      BY PendingCovered, DebtType DEF LedgerInv
    <3>2. DebtTo(u, a) <= RewardPool * DF /\ RewardPool * DF \in Nat
      BY PoolFits, PoolNat DEF LedgerInv
    <3>3. DF * pending \in Nat
      BY <3>1, ProductNat, DecimalFractionalAssumption
    <3> HIDE DEF pending, DF
    <3> QED
      BY <3>1, <3>2, <3>3
  <2>6. pending <= RewardPool
    <3>1. RewardPool \in Nat /\ DF \in Nat /\ DF > 0 /\ pending \in Nat
      BY PoolFits, DecimalFractionalAssumption, PendingCovered DEF LedgerInv
    <3> HIDE DEF pending, DF
    <3>2. pending * DF <= RewardPool * DF
      BY <2>5, <3>1
    <3> QED
      BY <3>1, <3>2, MulCancel
  <2>7. RewardPool \in Nat /\ RewardPool <= MaxUint128 /\ MaxUint128 \in Nat
    BY PoolFits, MaxUint128Assumption
  <2>8. Fits(earned) /\ Fits(pending)
    <3> HIDE DEF earned, pending
    <3> QED
      BY <2>2, <2>4, <2>6, <2>7 DEF Fits
  <2> QED
    BY <2>1, <2>2, <2>8 DEF PendingRewardsOk
<1> QED
  BY <1>1, LedgerInvariant, PTL

(* And if the width suffices, an update that has heard of every validator  *)
(* succeeds: a callback fails for no other reason than that there is no    *)
(* distribution.                                                           *)
THEOREM UpdatesAlwaysSucceed == WidthSuffices => (Safety => []UpdatesSucceed)
<1> SUFFICES ASSUME WidthSuffices
             PROVE  Safety => []UpdatesSucceed
  OBVIOUS
<1>1. LedgerInv => UpdatesSucceed
  <2> SUFFICES ASSUME LedgerInv, tx # NoTx, assetRewardDistribution # NotFound, tx.claims = {}
               PROVE  UpdateRewardsCallbackOk
    BY DEF UpdatesSucceed
  <2> DEFINE rewards == RewardsCollected
             DF == DecimalFractional
  <2>1. /\ tempBalance \in Nat /\ rewards \in Nat
        /\ Arrived \in Nat /\ Arrived + rewards <= MaxEmission
    BY CollectedBounded DEF LedgerInv, PayoutInv
  <2>2. /\ MaxEmission \in Nat /\ MaxUint128 \in Nat /\ DF \in Nat /\ DF > 0
        /\ MaxEmission * DF <= MaxUint128 /\ DF <= MaxUint128
    BY InputsAssumption, MaxUint128Assumption, DecimalFractionalAssumption DEF WidthSuffices
  <2>3. /\ Fits(rewards) /\ Fits(rewards * DF) /\ rewards * DF \in Nat
        /\ Fits((Arrived + rewards) * DF)
    <3>1. rewards <= MaxEmission /\ Arrived + rewards \in Nat
      BY <2>1, <2>2
    <3> QED
      BY <2>1, <2>2, <3>1, ScaledFits
  <2>4. TotalDistribution(assetRewardDistribution) = Percent100
    BY DEF LedgerInv, PayoutInv, BoundsInv
  <2>5. ASSUME NEW i \in DOMAIN assetRewardDistribution
        PROVE  LET entry == assetRewardDistribution[i] IN
               /\ Fits(DecimalMul(FromAtomics(RewardsCollected), entry.distribution))
               /\ Fits(RewardDistributed(i))
               /\ Fits(FromAtomics(totalBalances[entry.asset]))
               /\ Fits(RateToUpdate(i))
               /\ Fits(UnwrapOr(assetRewardRate[entry.asset], 0) + RateIncrease(entry.asset))
    <3> DEFINE share == assetRewardDistribution[i].distribution
               a == assetRewardDistribution[i].asset
    <3>1. a \in Assets
      BY DistributionType DEF LedgerInv, TypeOK
    <3>2. /\ share \in Nat /\ share <= DF
          /\ RewardDistributed(i) = rewards * share
          /\ RateToUpdate(i) \in Nat /\ RateToUpdate(i) <= rewards * share
      BY <2>1, <2>4, EntryBounded DEF Entries, LedgerInv
    <3>3. rewards * share \in Nat /\ rewards * share <= rewards * DF
      <4> HIDE DEF rewards, share, DF
      <4> QED
        BY <2>1, <2>2, <3>2, ProductNat, MulMonotonic
    <3>4. Fits(rewards * share)
      <4> HIDE DEF rewards, share, DF
      <4> QED
        BY <2>2, <2>3, <3>3 DEF Fits
    <3>5. Fits(RateToUpdate(i))
      <4> HIDE DEF rewards, share, DF
      <4> QED
        BY <2>2, <3>2, <3>3, <3>4 DEF Fits
    <3>6. DecimalMul(FromAtomics(RewardsCollected), share) = rewards * share
      <4>1. DecimalMul(FromAtomics(RewardsCollected), share) = ((rewards * DF) * share) \div DF
        BY DEF DecimalMul, FromAtomics
      <4> HIDE DEF rewards, share, DF
      <4>2. (rewards * DF) * share = (rewards * share) * DF
        BY <2>1, <2>2, <3>2
      <4> QED
        BY <2>2, <3>3, <4>1, <4>2, MulDiv
    <3>7. Fits(FromAtomics(totalBalances[a]))
      <4>1. totalBalances[a] \in Nat /\ totalBalances[a] <= MaxStake
        BY <3>1 DEF LedgerInv, TypeOK, PayoutInv, BoundsInv
      <4>2. MaxStake \in Nat /\ MaxStake * DF <= MaxUint128
        BY InputsAssumption DEF WidthSuffices
      <4> QED
        BY <4>1, <4>2, ScaledFits DEF FromAtomics
    <3>8. Fits(UnwrapOr(assetRewardRate[a], 0) + RateIncrease(a))
      <4>1. RateIncrease(a) \in Nat /\ RateIncrease(a) <= rewards * DF
        BY <2>1, <2>4, <3>1, IncreaseBounded DEF LedgerInv
      <4>2. /\ UnwrapOr(assetRewardRate[a], 0) \in Nat
            /\ UnwrapOr(assetRewardRate[a], 0) <= Arrived * DF
        BY <3>1 DEF LedgerInv, TypeOK, PayoutInv, ArrivedInv, UnwrapOr
      <4> HIDE DEF rewards, a, DF
      <4>3. (Arrived + rewards) * DF = Arrived * DF + rewards * DF /\ Arrived * DF \in Nat
        BY <2>1, <2>2
      <4> QED
        BY <2>2, <2>3, <4>1, <4>2, <4>3 DEF Fits
    <3> QED
      BY <3>2, <3>4, <3>5, <3>6, <3>7, <3>8
  <2>6. Fits(TotalDistribution(assetRewardDistribution))
        /\ TotalDistribution(assetRewardDistribution) > 0
    BY <2>2, <2>4 DEF Fits, Percent100
  <2>7. Fits(FromAtomics(RewardsCollected))
    BY <2>3 DEF FromAtomics
  <2> QED
    BY <2>1, <2>3, <2>5, <2>6, <2>7, NotFoundAssumption DEF UpdateRewardsCallbackOk
<1> QED
  BY <1>1, LedgerInvariant, PTL
-----------------------------------------------------------------------------
(* The queries agree with the ledger.                                      *)

LEMMA ClaimIsEarned ==
  ASSUME TypeOK, UserRateNeverAhead, NEW u \in Users, NEW a \in Assets,
         userAssetRewardRate[<<u, a>>] # NotFound, balances[<<u, a>>] # NotFound
  PROVE  /\ ClaimedReward(u, a) = MulUint(RateGain(u, a), balances[<<u, a>>])
         /\ ClaimedReward(u, a) \in Nat
<1> DEFINE gain == RateGain(u, a)
           staked == balances[<<u, a>>]
           DF == DecimalFractional
<1>1. /\ gain \in Nat /\ staked \in Nat /\ gain * staked \in Nat /\ DF \in Nat /\ DF > 0
  BY AccountType, DecimalFractionalAssumption
<1>2. ClaimedReward(u, a) = ((gain * (staked * DF)) \div DF) \div DF
  BY DEF ClaimedReward, ToUintFloor, DecimalMul, FromAtomics
<1>3. MulUint(gain, staked) = (gain * staked) \div DF
  BY DEF MulUint
<1> HIDE DEF gain, staked, DF
<1>4. gain * (staked * DF) = (gain * staked) * DF
  BY <1>1
<1>5. ((gain * staked) * DF) \div DF = gain * staked
  BY <1>1, MulDiv
<1>6. (gain * staked) \div DF \in Nat
  BY <1>1, DivNat
<1> QED
  BY <1>2, <1>3, <1>4, <1>5, <1>6 DEF gain, staked

LEMMA ClaimPays ==
  ASSUME TypeOK, UserRateNeverAhead, TypeOK', UserRateNeverAhead',
         NEW u \in Users, NEW a \in Assets, ClaimRewards(u, a),
         userAssetRewardRate[<<u, a>>] # NotFound, balances[<<u, a>>] # NotFound
  PROVE  /\ holdings[RewardDenom] - holdings'[RewardDenom] = PendingRewards(u, a)
         /\ Owed' = [Owed EXCEPT ![<<u, a>>] = 0]
<1> DEFINE k == <<u, a>>
           claimed == ClaimedReward(u, a)
           unclaimed == unclaimedRewards[k]
<1>1. k \in Accounts /\ userAssetRewardRate[k] # NotFound /\ balances[k] # NotFound
  BY DEF Accounts
<1>2. /\ claimed = MulUint(RateGain(u, a), balances[k]) /\ claimed \in Nat
      /\ unclaimed \in Nat
  BY <1>1, ClaimIsEarned DEF TypeOK
<1>3. PendingRewards(u, a) = claimed + unclaimed
  BY <1>1, <1>2 DEF PendingRewards
<1>4. /\ UNCHANGED <<balances, assetRewardRate>>
      /\ unclaimedRewards' = [unclaimedRewards EXCEPT ![k] = 0]
      /\ userAssetRewardRate' = [userAssetRewardRate EXCEPT ![k] = RateAfterClaim(u, a)]
      /\ holdings' = [holdings EXCEPT ![RewardDenom] =
                        holdings[RewardDenom] - (claimed + unclaimed)]
  BY DEF ClaimRewards
<1>5. holdings[RewardDenom] - holdings'[RewardDenom] = PendingRewards(u, a)
  <2>1. /\ holdings[RewardDenom] \in Nat
        /\ holdings'[RewardDenom] = holdings[RewardDenom] - (claimed + unclaimed)
    BY <1>4 DEF TypeOK, Denoms
  <2> HIDE DEF claimed, unclaimed
  <2> QED
    BY <1>2, <1>3, <2>1
<1>6. PendingRewards(u, a)' = 0
  <2>1. /\ unclaimedRewards'[k] = 0 /\ balances'[k] = balances[k]
        /\ userAssetRewardRate'[k] = RateAfterClaim(u, a)
        /\ RateGain(u, a)' = assetRewardRate[a] - userAssetRewardRate'[k]
    BY <1>1, <1>4 DEF TypeOK, RateGain
  <2>2. userAssetRewardRate'[k] # NotFound
    BY <1>1, <2>1 DEF RateAfterClaim, ClaimRewards, ClaimRewardsOk, ClaimRewardOk,
       AssetRateFound
  <2>3. MulUint(RateGain(u, a)', balances[k]) = 0
    <3>1. CASE claimed > 0
      <4>1. RateGain(u, a)' = 0
        <5>1. assetRewardRate[a] \in Nat /\ userAssetRewardRate'[k] = assetRewardRate[a]
          BY <2>1, <3>1, ClaimedRewardType DEF RateAfterClaim, ClaimRewards, ClaimRewardsOk
        <5> QED
          BY <2>1, <5>1
      <4>2. balances[k] \in Nat
        BY <1>1, AccountType
      <4>3. 0 * balances[k] = 0 /\ 0 \div DecimalFractional = 0
        BY <4>2, DecimalFractionalAssumption
      <4> QED
        BY <4>1, <4>3 DEF MulUint
    <3>2. CASE ~(claimed > 0)
      <4>1. userAssetRewardRate'[k] = userAssetRewardRate[k]
        BY <1>1, <2>1, <3>2 DEF RateAfterClaim
      <4>2. RateGain(u, a)' = RateGain(u, a)
        BY <2>1, <4>1 DEF RateGain
      <4> QED
        BY <1>2, <3>2, <4>2
    <3> QED
      BY <3>1, <3>2
  <2>4. PendingRewards(u, a)' = 0 + MulUint(RateGain(u, a)', balances[k])
    BY <1>1, <2>1, <2>2 DEF PendingRewards
  <2> QED
    BY <2>3, <2>4
<1>7. ASSUME NEW v \in Users, NEW b \in Assets, <<v, b>> # k
      PROVE  PendingRewards(v, b)' = PendingRewards(v, b)
  <2>1. <<v, b>> \in Accounts
    BY DEF Accounts
  <2>2. /\ unclaimedRewards'[<<v, b>>] = unclaimedRewards[<<v, b>>]
        /\ userAssetRewardRate'[<<v, b>>] = userAssetRewardRate[<<v, b>>]
    BY <1>4, <1>7, <2>1 DEF TypeOK
  <2> QED
    BY <1>4, <2>2 DEF PendingRewards, RateGain
<1>8. \A j \in Accounts : Owed'[j] = IF j = k THEN 0 ELSE Owed[j]
  <2> SUFFICES ASSUME NEW j \in Accounts
               PROVE  Owed'[j] = IF j = k THEN 0 ELSE Owed[j]
    OBVIOUS
  <2>1. PICK v \in Users, b \in Assets : j = <<v, b>>
    BY DEF Accounts
  <2>2. Owed[j] = PendingRewards(v, b) /\ Owed'[j] = PendingRewards(v, b)'
    BY <2>1 DEF Owed
  <2> QED
    BY <1>6, <1>7, <2>1, <2>2
<1>9. Owed' = [Owed EXCEPT ![k] = 0]
  <2>1. DOMAIN Owed = Accounts /\ DOMAIN Owed' = Accounts
    BY DEF Owed
  <2>2. Owed = [j \in Accounts |-> Owed[j]] /\ Owed' = [j \in Accounts |-> Owed'[j]]
    BY DEF Owed
  <2> QED
    BY <1>1, <1>8, <2>1, <2>2
<1> QED
  BY <1>5, <1>9

(* A claim pays what the query showed to the last unit, and moves no other *)
(* account.                                                                *)
THEOREM ShownAlwaysPaid == Safety => ShownIsPaid
<1>1. TypeOK /\ UserRateNeverAhead /\ TypeOK' /\ UserRateNeverAhead' /\ [Next]_vars =>
        [\A u \in Users, a \in Assets :
           ClaimRewards(u, a) /\ PendingRewardsOk(u, a) =>
             /\ holdings[RewardDenom] - holdings'[RewardDenom] = PendingRewards(u, a)
             /\ Owed' = [Owed EXCEPT ![<<u, a>>] = 0]]_vars
  BY ClaimPays DEF PendingRewardsOk
<1> QED
  BY <1>1, TypeCorrect, UserRateBehind, PTL DEF Safety, ShownIsPaid

(* The listing of a user's rewards adds up to all that is due to the user. *)
LEMMA PendingListed ==
  ASSUME LedgerInv, NEW u \in Users
  PROVE  SumOver(AllPendingRewards(u), DOMAIN AllPendingRewards(u)) =
           SumOver([a \in Assets |-> PendingRewards(u, a)], Assets)
<1> DEFINE rated == RatesOf(u)
           pending == [a \in Assets |-> PendingRewards(u, a)]
           listed == AllPendingRewards(u)
<1>1. IsFiniteSet(Assets) /\ rated \in SUBSET Assets
  BY FiniteSetsAssumption DEF RatesOf
<1>2. IsFiniteSet(rated) /\ IsFiniteSet(Assets \ rated)
  <2>1. Assets \ rated \in SUBSET Assets
    OBVIOUS
  <2> QED
    BY <1>1, <2>1, FS_Subset
<1>3. \A a \in Assets : pending[a] \in Int
  BY PendingCovered DEF LedgerInv
<1>4. DOMAIN listed = rated /\ \A a \in rated : listed[a] = pending[a]
  BY <1>1 DEF AllPendingRewards
<1>5. \A a \in Assets \ rated : pending[a] = 0
  BY DEF RatesOf, PendingRewards, LedgerInv, EntriesComplete
<1> HIDE DEF rated, pending, listed
<1>6. SumOver(pending, Assets) = SumOver(pending, rated) + SumOver(pending, Assets \ rated)
      /\ SumOver(pending, rated) \in Int
  BY <1>1, <1>3, SumSplit
<1>7. SumOver(pending, Assets \ rated) = 0
  BY <1>2, <1>5, SumZero
<1>8. SumOver(listed, rated) = SumOver(pending, rated)
  BY <1>2, <1>4, SumEqual
<1> QED
  BY <1>4, <1>6, <1>7, <1>8 DEF pending, listed

(* And the listings name every stake there is to take back, also those of  *)
(* assets that were removed from the whitelist.                            *)
THEOREM ListingsAlwaysComplete == Safety => []ListingsComplete
<1>1. LedgerInv => ListingsComplete
  <2>1. ASSUME LedgerInv, NEW u \in Users, NEW a \in Assets,
               StakedBalanceOk(u, a), StakedBalance(u, a) > 0
        PROVE  a \in DOMAIN AllPendingRewards(u) /\ a \in DOMAIN TotalStakedBalances
    <3> DEFINE stakes == [w \in Users |-> StakeOf(w, a)]
    <3>1. balances[<<u, a>>] # NotFound /\ StakeOf(u, a) > 0
      BY <2>1 DEF StakedBalanceOk, StakedBalance, StakeOf, UnwrapOr
    <3>2. userAssetRewardRate[<<u, a>>] # NotFound
      BY <2>1, <3>1 DEF LedgerInv, EntriesComplete
    <3>3. /\ IsFiniteSet(Users) /\ \A w \in Users : stakes[w] \in Nat
          /\ totalBalances[a] = SumOver(stakes, Users) /\ totalBalances[a] \in Nat
      BY <2>1, FiniteSetsAssumption DEF LedgerInv, TotalsMatchBalances, TypeOK, Accounts,
         StakeOf, UnwrapOr
    <3>4. stakes[u] = StakeOf(u, a)
      OBVIOUS
    <3> HIDE DEF stakes
    <3>5. stakes[u] <= SumOver(stakes, Users)
      BY <3>3, SumBoundsValue
    <3>6. totalBalances[a] > 0
      BY <3>1, <3>3, <3>4, <3>5
    <3> QED
      BY <2>1, <3>2, <3>6 DEF AllPendingRewards, RatesOf, TotalStakedBalances
  <2> QED
    BY <2>1, PendingListed DEF ListingsComplete
<1> QED
  BY <1>1, LedgerInvariant, PTL
-----------------------------------------------------------------------------
(* What is too little to be paid.                                          *)

LEMMA EarnedType ==
  ASSUME TypeOK, UserRateNeverAhead, NEW u \in Users, NEW a \in Assets
  PROVE  /\ Earned(u, a) \in Nat /\ StakeOf(u, a) \in Nat
         /\ Earned(u, a) =
              IF userAssetRewardRate[<<u, a>>] = NotFound \/ balances[<<u, a>>] = NotFound
              THEN 0
              ELSE RateGain(u, a) * balances[<<u, a>>]
<1>1. unclaimedRewards[<<u, a>>] * DecimalFractional \in Nat
  BY DebtType
<1>2. /\ balances[<<u, a>>] \in Nat \cup {NotFound}
      /\ userAssetRewardRate[<<u, a>>] # NotFound /\ balances[<<u, a>>] # NotFound =>
           RateGain(u, a) * balances[<<u, a>>] \in Nat
  BY AccountType
<1>3. StakeOf(u, a) \in Nat
  BY <1>2 DEF StakeOf, UnwrapOr
<1> QED
  BY <1>1, <1>2, <1>3 DEF Earned, DebtTo

LEMMA EarnedTypeNext ==
  ASSUME TypeOK', UserRateNeverAhead', NEW u \in Users, NEW a \in Assets
  PROVE  /\ Earned(u, a)' \in Nat /\ StakeOf(u, a)' \in Nat
         /\ Earned(u, a)' =
              IF userAssetRewardRate'[<<u, a>>] = NotFound \/ balances'[<<u, a>>] = NotFound
              THEN 0
              ELSE RateGain(u, a)' * balances'[<<u, a>>]
<1>1. unclaimedRewards'[<<u, a>>] * DecimalFractional \in Nat
      /\ StakeOf(u, a)' \in Nat
  BY ProductNat, DecimalFractionalAssumption DEF TypeOK, Accounts, StakeOf, UnwrapOr
<1>2. Debt'[<<u, a>>] = DebtTo(u, a)' /\ DebtTo(u, a)' \in Nat
  BY DebtsTypeNext DEF Debt, Accounts
<1>3. CASE userAssetRewardRate'[<<u, a>>] = NotFound \/ balances'[<<u, a>>] = NotFound
  BY <1>1, <1>2, <1>3 DEF Earned, DebtTo
<1>4. CASE userAssetRewardRate'[<<u, a>>] # NotFound /\ balances'[<<u, a>>] # NotFound
  <2>1. RateGain(u, a)' \in Nat /\ balances'[<<u, a>>] \in Nat
    BY <1>4 DEF TypeOK, Accounts, UserRateNeverAhead, RateGain
  <2>2. RateGain(u, a)' * balances'[<<u, a>>] \in Nat
    BY <2>1, ProductNat
  <2> QED
    BY <1>1, <1>4, <2>2 DEF Earned, DebtTo
<1> QED
  BY <1>1, <1>3, <1>4

(* An account that keeps its stake, and what it earned at least.           *)
LEMMA KeptWithStake ==
  ASSUME NEW e \in Nat, NEW f \in Nat, NEW s \in Nat, e <= f
  PROVE  f * s >= e * s
<1>1. s * e <= s * f
  BY MulMonotonic
<1> QED
  BY <1>1

(* A claim for an account that earned less than one reward leaves its rate *)
(* where it was.                                                           *)
LEMMA TooLittleToClaim ==
  ASSUME TypeOK, UserRateNeverAhead, NEW u \in Users, NEW a \in Assets,
         userAssetRewardRate[<<u, a>>] # NotFound, balances[<<u, a>>] # NotFound,
         Earned(u, a) < DecimalFractional
  PROVE  RateAfterClaim(u, a) = userAssetRewardRate[<<u, a>>]
<1> DEFINE earned == RateGain(u, a) * balances[<<u, a>>]
<1>1. earned \in Nat /\ earned < DecimalFractional /\ DecimalFractional \in Nat
  BY EarnedType, DecimalFractionalAssumption
<1>2. ClaimedReward(u, a) = earned \div DecimalFractional
  BY ClaimIsEarned DEF MulUint
<1> HIDE DEF earned
<1>3. earned \div DecimalFractional = 0
  BY <1>1
<1> QED
  BY <1>2, <1>3 DEF RateAfterClaim

(* The messages of users, for the account they are about.                  *)
LEMMA DustKeptByUnstake ==
  ASSUME TypeOK, UserRateNeverAhead, TypeOK', UserRateNeverAhead',
         NEW u \in Users, NEW a \in Assets, NEW n \in Amounts, NEW held,
         Unstake(u, a, n, held), Earned(u, a) < DecimalFractional
  PROVE  Earned(u, a)' * StakeOf(u, a) >= Earned(u, a) * StakeOf(u, a)'
<1> DEFINE k == <<u, a>>
           gain == RateGain(u, a)
           staked == balances[k]
<1>1. k \in Accounts /\ n \in Nat
  BY InputsAssumption DEF Accounts
<1>2. /\ staked # NotFound /\ staked \in Nat /\ staked >= n
      /\ balances'[k] = staked - n
      /\ userAssetRewardRate'[k] = RateAfterClaim(u, a)
      /\ UNCHANGED assetRewardRate
  BY <1>1 DEF Unstake, UnstakeOk, BalanceSuffices, TypeOK
<1>3. CASE userAssetRewardRate[k] = NotFound
  <2>1. Earned(u, a) = 0 /\ Earned(u, a)' \in Nat
        /\ StakeOf(u, a) \in Nat /\ StakeOf(u, a)' \in Nat
    BY <1>3, EarnedType, EarnedTypeNext
  <2>2. 0 * StakeOf(u, a)' = 0 /\ Earned(u, a)' * StakeOf(u, a) \in Nat
    BY <2>1, ProductNat
  <2> QED
    BY <2>1, <2>2
<1>4. CASE userAssetRewardRate[k] # NotFound
  <2>1. userAssetRewardRate'[k] = userAssetRewardRate[k] /\ RateGain(u, a)' = gain
    BY <1>2, <1>4, TooLittleToClaim DEF RateGain
  <2>2. staked - n \in Nat /\ staked - n # NotFound /\ gain \in Nat
    BY <1>1, <1>2, <1>4, AccountType, NotFoundAssumption
  <2>3. /\ Earned(u, a) = gain * staked /\ StakeOf(u, a) = staked
        /\ Earned(u, a)' = gain * (staked - n) /\ StakeOf(u, a)' = staked - n
    BY <1>2, <1>4, <2>1, <2>2, EarnedType, EarnedTypeNext DEF StakeOf, UnwrapOr
  <2> DEFINE rest == staked - n
  <2>4. rest \in Nat
    BY <2>2
  <2> HIDE DEF gain, staked, rest
  <2>5. (gain * rest) * staked = (gain * staked) * rest /\ (gain * rest) * staked \in Nat
    BY <1>2, <2>2, <2>4, ProductNat
  <2> QED
    BY <2>3, <2>5 DEF rest
<1> QED
  BY <1>3, <1>4

LEMMA DustKeptByClaim ==
  ASSUME TypeOK, UserRateNeverAhead, TypeOK', UserRateNeverAhead',
         NEW u \in Users, NEW a \in Assets, ClaimRewards(u, a),
         Earned(u, a) < DecimalFractional
  PROVE  Earned(u, a)' * StakeOf(u, a) >= Earned(u, a) * StakeOf(u, a)'
<1> DEFINE k == <<u, a>>
<1>1. k \in Accounts
  BY DEF Accounts
<1>2. /\ UNCHANGED <<balances, assetRewardRate>>
      /\ userAssetRewardRate'[k] = RateAfterClaim(u, a)
  BY <1>1 DEF ClaimRewards, TypeOK
<1>3. StakeOf(u, a)' = StakeOf(u, a)
  BY <1>2 DEF StakeOf
<1>4. Earned(u, a) <= Earned(u, a)'
  <2>1. CASE userAssetRewardRate[k] = NotFound \/ balances[k] = NotFound
    BY <2>1, EarnedType, EarnedTypeNext
  <2>2. CASE userAssetRewardRate[k] # NotFound /\ balances[k] # NotFound
    <3>1. userAssetRewardRate'[k] = userAssetRewardRate[k] /\ RateGain(u, a)' = RateGain(u, a)
      BY <1>2, <2>2, TooLittleToClaim DEF RateGain
    <3> QED
      BY <1>2, <2>2, <3>1, EarnedType, EarnedTypeNext
  <2> QED
    BY <2>1, <2>2
<1> QED
  BY <1>3, <1>4, EarnedType, EarnedTypeNext, KeptWithStake

(* Whatever a message of a user is about, the other accounts stay as they  *)
(* are.                                                                    *)
LEMMA DustKeptByOthers ==
  ASSUME TypeOK, UserRateNeverAhead, NEW u \in Users, NEW a \in Assets,
         UNCHANGED assetRewardRate,
         unclaimedRewards'[<<u, a>>] = unclaimedRewards[<<u, a>>],
         balances'[<<u, a>>] = balances[<<u, a>>],
         userAssetRewardRate'[<<u, a>>] = userAssetRewardRate[<<u, a>>]
  PROVE  Earned(u, a)' * StakeOf(u, a) >= Earned(u, a) * StakeOf(u, a)'
<1>1. Earned(u, a)' = Earned(u, a) /\ StakeOf(u, a)' = StakeOf(u, a)
  BY DEF Earned, DebtTo, RateGain, StakeOf
<1> QED
  BY <1>1, EarnedType, KeptWithStake

LEMMA DustKeptByUsers ==
  ASSUME TypeOK, UserRateNeverAhead, TypeOK', UserRateNeverAhead', UserStep,
         NEW u \in Users, NEW a \in Assets,
         Earned(u, a) < DecimalFractional, StakeOf(u, a)' <= StakeOf(u, a)
  PROVE  Earned(u, a)' * StakeOf(u, a) >= Earned(u, a) * StakeOf(u, a)'
<1> DEFINE Goal == Earned(u, a)' * StakeOf(u, a) >= Earned(u, a) * StakeOf(u, a)'
           k == <<u, a>>
<1>1. k \in Accounts
  BY DEF Accounts
<1>2. ASSUME NEW v \in Users, NEW b \in Assets, NEW n \in Amounts, Stake(v, b, n)
      PROVE  Goal
  <2>1. CASE <<v, b>> = k
    <3>1. n \in Nat /\ n > 0 /\ balances'[k] = UnwrapOr(balances[k], 0) + n
      BY <1>1, <1>2, <2>1, InputsAssumption DEF Stake, StakeOk, BalanceAfterStake, TypeOK
    <3>2. UnwrapOr(balances[k], 0) \in Nat
      BY <1>1 DEF TypeOK, UnwrapOr
    <3>3. StakeOf(u, a)' = UnwrapOr(balances[k], 0) + n /\ StakeOf(u, a) = UnwrapOr(balances[k], 0)
      BY <3>1, <3>2, NotFoundAssumption DEF StakeOf, UnwrapOr
    <3> QED
      BY <3>1, <3>2, <3>3
  <2>2. CASE <<v, b>> # k
    BY <1>1, <1>2, <2>2, DustKeptByOthers DEF Stake, SetAsideReward, TypeOK
  <2> QED
    BY <2>1, <2>2
<1>3. ASSUME NEW v \in Users, NEW b \in Assets, NEW n \in Amounts, NEW held,
             Unstake(v, b, n, held)
      PROVE  Goal
  <2>1. CASE <<v, b>> = k
    BY <1>3, <2>1, DustKeptByUnstake
  <2>2. CASE <<v, b>> # k
    BY <1>1, <1>3, <2>2, DustKeptByOthers DEF Unstake, SetAsideReward, TypeOK
  <2> QED
    BY <2>1, <2>2
<1>4. ASSUME NEW v \in Users, NEW b \in Assets, ClaimRewards(v, b)
      PROVE  Goal
  <2>1. CASE <<v, b>> = k
    BY <1>4, <2>1, DustKeptByClaim
  <2>2. CASE <<v, b>> # k
    BY <1>1, <1>4, <2>2, DustKeptByOthers DEF ClaimRewards, TypeOK
  <2> QED
    BY <2>1, <2>2
<1>5. ASSUME NEW v \in Users, NEW b \in Assets, NEW c \in Cw20Assets,
             NEW n \in Amounts, NEW tokens \in Amounts, ReceiveUnstake(c, v, tokens, b, n)
      PROVE  Goal
  <2>1. c \in Users
    BY FiniteSetsAssumption
  <2>2. Unstake(c, b, n, [holdings EXCEPT ![c] = @ + tokens])
    BY <1>5 DEF ReceiveUnstake, HookUnstaker
  <2> QED
    BY <1>3, <2>1, <2>2
<1> HIDE DEF Goal
<1>6. Goal
  BY <1>2, <1>3, <1>4, <1>5 DEF UserStep, ExecuteStake, ReceiveStake, ExecuteUnstake
<1> QED
  BY <1>6 DEF Goal

(* What an account earned that is too little to be paid is not lost by     *)
(* claiming it: it waits for more.                                         *)
THEOREM DustAlwaysKept == Safety => DustKept
<1> DEFINE Inv == TypeOK /\ UserRateNeverAhead /\ EntriesComplete
           Kept(u, a) ==
             Earned(u, a) < DecimalFractional /\ StakeOf(u, a)' <= StakeOf(u, a) =>
               Earned(u, a)' * StakeOf(u, a) >= Earned(u, a) * StakeOf(u, a)'
<1>1. Inv /\ Inv' /\ [Next]_vars => \A u \in Users, a \in Assets : Kept(u, a)
  <2> SUFFICES ASSUME Inv, Inv', [Next]_vars, NEW u \in Users, NEW a \in Assets
               PROVE  Kept(u, a)
    OBVIOUS
  <2>1. CASE UserStep
    BY <2>1, DustKeptByUsers
  <2>2. ASSUME ~UserStep
        PROVE  Kept(u, a)
    <3>1. UNCHANGED <<unclaimedRewards, balances, userAssetRewardRate>>
      BY <2>2, OthersKeepLedger DEF ledgerVars
    <3>2. /\ Earned(u, a) \in Nat /\ Earned(u, a)' \in Nat /\ StakeOf(u, a) \in Nat
          /\ StakeOf(u, a)' = StakeOf(u, a)
      BY <3>1, EarnedType, EarnedTypeNext DEF StakeOf
    <3>3. CASE tx # NoTx /\ UpdateRewardsCallback
      <4> DEFINE increase ==
            UnwrapOr(assetRewardRate'[a], 0) - UnwrapOr(assetRewardRate[a], 0)
      <4>1. DebtTo(u, a)' - DebtTo(u, a) = StakeOf(u, a) * increase
        BY <3>3, CallbackGives
      <4>2. increase \in Nat
        BY <3>3, RateIncreaseType, NotFoundAssumption
        DEF UpdateRewardsCallback, TypeOK, UnwrapOr
      <4>3. StakeOf(u, a) * increase \in Nat
        BY <3>2, <4>2, ProductNat
      <4>4. /\ DebtTo(u, a) \in Nat
            /\ unclaimedRewards[<<u, a>>] * DecimalFractional \in Nat
        BY DebtType
      <4>5. DebtTo(u, a)' \in Int
        <5>1. <<u, a>> \in Accounts /\ Debt'[<<u, a>>] = DebtTo(u, a)'
          BY DEF Debt, Accounts
        <5> QED
          BY <5>1, DebtsTypeNext
      <4>6. /\ Earned(u, a) = DebtTo(u, a) - unclaimedRewards[<<u, a>>] * DecimalFractional
            /\ Earned(u, a)' = DebtTo(u, a)' - unclaimedRewards[<<u, a>>] * DecimalFractional
        BY <3>1 DEF Earned
      <4>7. Earned(u, a) <= Earned(u, a)'
        <5> HIDE DEF increase
        <5> QED
          BY <4>1, <4>3, <4>4, <4>5, <4>6
      <4> QED
        BY <3>2, <4>7, KeptWithStake
    <3>4. CASE ~(tx # NoTx /\ UpdateRewardsCallback)
      <4>1. assetRewardRate[a] # NotFound => assetRewardRate'[a] = assetRewardRate[a]
        BY <2>2, <3>4, KnownRatesKept
      <4>2. balances[<<u, a>>] # NotFound => assetRewardRate[a] # NotFound
        BY DEF EntriesComplete
      <4>3. Earned(u, a)' = Earned(u, a)
        BY <3>1, <4>1, <4>2, EarnedType, EarnedTypeNext DEF RateGain
      <4> QED
        BY <3>2, <4>3, KeptWithStake
    <3> QED
      BY <3>3, <3>4
  <2> QED
    BY <2>1, <2>2
<1>2. Safety => []Inv
  BY TypeCorrect, UserRateBehind, EntriesAlwaysComplete, PTL
<1>3. Inv /\ Inv' /\ [Next]_vars => [\A u \in Users, a \in Assets : Kept(u, a)]_vars
  BY <1>1
<1> HIDE DEF Inv, Kept
<1>4. Safety => [][\A u \in Users, a \in Assets : Kept(u, a)]_vars
  BY <1>2, <1>3, PTL DEF Safety
<1> QED
  BY <1>4 DEF Kept, DustKept
-----------------------------------------------------------------------------
(* What an update collects.                                                *)

(* While an update runs, a validator with a delegation that does not fail  *)
(* is still to be asked or owes nothing.                                   *)
ClaimsInv ==
  tx # NoTx => \A v \in delegated \ FlakyValidators : v \in tx.claims \/ accrued[v] = 0

LEMMA ClaimsStep ==
  TypeOK /\ DelegationsTracked /\ ClaimsInv /\ [Next]_vars => ClaimsInv'
<1> SUFFICES ASSUME TypeOK, DelegationsTracked, ClaimsInv, [Next]_vars, tx' # NoTx,
                    NEW v \in delegated' \ FlakyValidators
             PROVE  v \in tx'.claims \/ accrued'[v] = 0
  BY DEF ClaimsInv
<1>1. UserStep \/ AdminStep \/ ChainStep => Idle /\ tx' = tx
  <2>1. UserStep => Idle
    <3>1. \A u \in Users, a \in Assets, n \in Amounts :
            ExecuteStake(u, a, n) \/ ReceiveStake(u, a, n) \/ ExecuteUnstake(u, a, n) => Idle
      BY DEF ExecuteStake, ReceiveStake, Stake, ExecuteUnstake, Unstake
    <3>2. \A c \in Cw20Assets, u \in Users, tokens \in Amounts, a \in Assets, n \in Amounts :
            ReceiveUnstake(c, u, tokens, a, n) => Idle
      BY DEF ReceiveUnstake, Unstake
    <3>3. \A u \in Users, a \in Assets : ClaimRewards(u, a) => Idle
      BY DEF ClaimRewards
    <3> QED
      BY <3>1, <3>2, <3>3 DEF UserStep
  <2>2. AdminStep => Idle
    BY DEF AdminStep, SetAssetRewardDistribution, WhitelistAssets, RemoveAssets,
           UpdateConfig, AllianceDelegate, AllianceUndelegate, AllianceRedelegate
  <2>3. ChainStep => Idle /\ tx' = tx
    BY DEF ChainStep, AccrueRewards, Donate
  <2> QED
    BY <2>1, <2>2, <2>3, UserStepFrame, AdminStepFrame
<1>2. CASE UNCHANGED vars
  BY <1>2 DEF vars, chainVars, ClaimsInv
<1>3. ASSUME NEW sent \in Amounts \cup {0}, UpdateRewards(sent)
      PROVE  v \in tx'.claims
  <2>1. delegated' = delegated /\ tx'.claims = validators
    BY <1>3 DEF UpdateRewards
  <2> QED
    BY <2>1 DEF DelegationsTracked
<1>4. CASE TxStep
  <2>1. tx # NoTx /\ tx \in Transaction
    BY <1>4 DEF TxStep, TypeOK
  <2>2. ASSUME NEW w \in Validators, ClaimDelegationRewards(w) \/ ClaimRewardError(w)
        PROVE  v \in tx'.claims \/ accrued'[v] = 0
    <3>1. delegated' = delegated /\ tx'.claims = tx.claims \ {w}
      BY <2>1, <2>2 DEF ClaimDelegationRewards, ClaimRewardError, chainVars, Transaction
    <3>2. v \in Validators /\ (v \in tx.claims \/ accrued[v] = 0)
      BY <2>1, <3>1 DEF ClaimsInv, TypeOK
    <3>3. CASE ClaimDelegationRewards(w)
      <4>1. accrued' = [x \in Validators |-> IF x \in {w} THEN 0 ELSE accrued[x]]
        BY <3>3 DEF ClaimDelegationRewards, PayOut
      <4> QED
        BY <3>1, <3>2, <4>1
    <3>4. CASE ClaimRewardError(w)
      <4>1. accrued' = accrued /\ v # w
        BY <3>1, <3>4 DEF ClaimRewardError, chainVars
      <4> QED
        BY <3>1, <3>2, <4>1
    <3> QED
      BY <2>2, <3>3, <3>4
  <2>3. ~UpdateRewardsCallback /\ ~UpdateRewardsAborts
    BY DEF UpdateRewardsCallback, UpdateRewardsAborts, RollBack
  <2> QED
    BY <1>4, <2>2, <2>3 DEF TxStep
<1>5. Idle => tx = NoTx
  BY DEF Idle
<1> QED
  BY <1>1, <1>2, <1>3, <1>4, <1>5 DEF Next

(* An update ends with its callback, and not by failing.                   *)
LEMMA EndsWithCallback ==
  ASSUME TypeOK, WidthSuffices, UpdatesSucceed, [Next]_vars, UpdateEnds
  PROVE  UpdateRewardsCallback
<1>1. tx # NoTx /\ tx' = NoTx /\ assetRewardDistribution # NotFound
  BY DEF UpdateEnds
<1>2. ~UNCHANGED vars /\ ~Idle
  BY <1>1 DEF vars, chainVars, Idle
<1>3. ~UserStep /\ ~AdminStep
  BY <1>1, UserStepFrame, AdminStepFrame
<1>4. ~ChainStep /\ \A sent \in Amounts \cup {0} : ~UpdateRewards(sent)
  BY <1>2 DEF ChainStep, AccrueRewards, Donate, UpdateRewards
<1>5. \A v \in Validators : ~ClaimDelegationRewards(v) /\ ~ClaimRewardError(v)
  <2> SUFFICES ASSUME NEW v \in Validators,
                      ClaimDelegationRewards(v) \/ ClaimRewardError(v)
               PROVE  FALSE
    OBVIOUS
  <2>1. tx' = [tx EXCEPT !.claims = tx.claims \ {v}]
    BY DEF ClaimDelegationRewards, ClaimRewardError
  <2>2. tx' \in Transaction
    BY <1>1, <2>1 DEF TypeOK, Transaction
  <2> QED
    BY <1>1, <2>2, NoTxAssumption
<1>6. ~UpdateRewardsAborts
  BY <1>1 DEF UpdateRewardsAborts, UpdatesSucceed
<1> QED
  BY <1>2, <1>3, <1>4, <1>5, <1>6 DEF Next, TxStep

(* An update leaves no reward behind at a validator with a delegation.     *)
THEOREM UpdatesAlwaysCollect == WidthSuffices => (Safety => UpdateCollectsEverything)
<1> SUFFICES ASSUME WidthSuffices
             PROVE  Safety => UpdateCollectsEverything
  OBVIOUS
<1>1. Init => ClaimsInv
  BY DEF Init, ClaimsInv
<1>2. TypeOK /\ UpdatesSucceed /\ ClaimsInv /\ [Next]_vars =>
        [UpdateEnds => \A v \in delegated \ FlakyValidators : accrued'[v] = 0]_vars
  <2> SUFFICES ASSUME TypeOK, UpdatesSucceed, ClaimsInv, [Next]_vars, UpdateEnds,
                      NEW v \in delegated \ FlakyValidators
               PROVE  accrued'[v] = 0
    OBVIOUS
  <2>1. UpdateRewardsCallback
    BY EndsWithCallback
  <2>2. accrued' = accrued /\ tx.claims = {} /\ tx # NoTx
    BY <2>1 DEF UpdateRewardsCallback, UpdateEnds, chainVars
  <2> QED
    BY <2>2 DEF ClaimsInv
<1>3. Safety => []UpdatesSucceed
  BY UpdatesAlwaysSucceed
<1> QED
  BY <1>1, <1>2, <1>3, ClaimsStep, TypeCorrect, DelegationsAlwaysTracked, PTL
     DEF Safety, UpdateCollectsEverything
-----------------------------------------------------------------------------
(* What the stakers of an asset are given.                                 *)

LEMMA StrictCancel ==
  ASSUME NEW k \in Nat, k > 0, NEW m \in Int, NEW n \in Int, m * k < n * k
  PROVE  m < n
OBVIOUS

(* An entry allots its share but for less than one atomic per staked unit. *)
LEMMA EntryRemainder ==
  ASSUME TypeOK, assetRewardDistribution # NotFound,
         TotalDistribution(assetRewardDistribution) = Percent100,
         RewardsCollected \in Nat, NEW i \in Entries, totalBalances[AssetOf(i)] > 0
  PROVE  RewardsCollected * assetRewardDistribution[i].distribution
           <= Allotted[i] + (totalBalances[AssetOf(i)] - 1)
<1> DEFINE given == RewardsCollected * assetRewardDistribution[i].distribution
           staked == totalBalances[AssetOf(i)]
           rate == RateToUpdate(i)
           DF == DecimalFractional
<1>1. AssetOf(i) \in Assets
  BY DistributionType DEF TypeOK, Entries, AssetOf
<1>2. /\ staked \in Nat /\ staked > 0 /\ DF \in Nat /\ DF > 0
      /\ rate \in Nat /\ RewardDistributed(i) = given /\ given \in Nat
  BY <1>1, EntryBounded, ProductNat, DecimalFractionalAssumption DEF TypeOK
<1>3. rate = (given * DF) \div (staked * DF)
  BY <1>2 DEF RateToUpdate, DecimalDiv, FromAtomics, AssetOf
<1>4. Allotted[i] = staked * rate
  BY DEF Allotted
<1> HIDE DEF given, staked, rate, DF
<1>5. given * DF \in Nat /\ staked * DF \in Nat /\ staked * DF > 0
  BY <1>2
<1>6. given * DF < rate * (staked * DF) + staked * DF
  BY <1>3, <1>5, DivRemainder
<1>7. rate * (staked * DF) + staked * DF = (staked * rate + staked) * DF
  BY <1>2
<1>8. staked * rate \in Nat
  BY <1>2, ProductNat
<1>9. given < staked * rate + staked
  BY <1>2, <1>6, <1>7, <1>8, StrictCancel
<1>10. given <= staked * rate + (staked - 1)
  BY <1>2, <1>8, <1>9
<1> QED
  BY <1>4, <1>10 DEF given, staked

EntriesOf(a) == {i \in Entries : AssetOf(i) = a}

ShareOf(a) == SumOver([i \in EntriesOf(a) |-> assetRewardDistribution[i].distribution],
                      EntriesOf(a))

(* So the entries of an asset together allot it what they should.          *)
LEMMA AssetShare ==
  ASSUME TypeOK, UpdateRewardsCallbackOk,
         TotalDistribution(assetRewardDistribution) = Percent100, NEW a \in Assets
  PROVE  /\ totalBalances[a] * RateIncrease(a) <= RewardsCollected * ShareOf(a)
         /\ EntriesOf(a) # {} /\ totalBalances[a] > 0 =>
              RewardsCollected * ShareOf(a) - totalBalances[a] * RateIncrease(a)
                < Cardinality(EntriesOf(a)) * totalBalances[a]
<1> DEFINE entries == EntriesOf(a)
           rewards == RewardsCollected
           staked == totalBalances[a]
           number == Cardinality(entries)
           increase == RateIncrease(a)
           shares == [i \in entries |-> assetRewardDistribution[i].distribution]
           most == [i \in entries |-> rewards * shares[i]]
           DF == DecimalFractional
<1>1. /\ IsFiniteSet(entries) /\ number \in Nat /\ entries \in SUBSET Entries
      /\ entries # {} => number > 0
  <2>1. IsFiniteSet(Entries) /\ entries \in SUBSET Entries
    BY CollectedType, DistributionType DEF Entries, EntriesOf
  <2> HIDE DEF entries
  <2> QED
    BY <2>1, FS_Subset, FS_CardinalityType, FS_EmptySet
<1>2. rewards \in Nat /\ staked \in Nat /\ increase \in Nat /\ DF \in Nat /\ DF > 0
  BY CollectedType, RateIncreaseType, DecimalFractionalAssumption DEF TypeOK
<1>3. assetRewardDistribution # NotFound
  BY DEF UpdateRewardsCallbackOk
<1>4. \A i \in entries : /\ shares[i] \in Nat /\ most[i] = rewards * shares[i]
                         /\ Allotted[i] \in Nat /\ Allotted[i] <= most[i]
                         /\ AssetOf(i) = a
  <2> SUFFICES ASSUME NEW i \in entries
               PROVE  /\ shares[i] \in Nat /\ Allotted[i] \in Nat /\ Allotted[i] <= most[i]
                      /\ AssetOf(i) = a
    OBVIOUS
  <2> DEFINE share == assetRewardDistribution[i].distribution
             allotted == Allotted[i]
  <2>1. i \in Entries /\ AssetOf(i) = a /\ shares[i] = share /\ most[i] = rewards * share
    BY DEF EntriesOf
  <2>2. share \in Nat /\ allotted \in Nat /\ DF * allotted <= (rewards * DF) * share
    BY <1>2, <1>3, <2>1, EntryBounded, EntryAllots DEF Percent100, FromAtomics
  <2> HIDE DEF share, allotted, rewards, DF
  <2>3. DF * allotted = allotted * DF /\ (rewards * DF) * share = (rewards * share) * DF
        /\ rewards * share \in Nat
    BY <1>2, <2>2
  <2>4. allotted * DF <= (rewards * share) * DF
    BY <2>2, <2>3
  <2>5. allotted <= rewards * share
    BY <1>2, <2>2, <2>3, <2>4, MulCancel
  <2> QED
    BY <2>1, <2>2, <2>5 DEF share, allotted
<1>5. \A i \in entries : most[i] \in Nat
  <2> HIDE DEF shares, rewards
  <2> QED
    BY <1>2, <1>4, ProductNat
<1>6. ASSUME staked > 0, NEW i \in entries
      PROVE  most[i] <= Allotted[i] + (staked - 1)
  <2>1. i \in Entries /\ AssetOf(i) = a
    BY <1>1, <1>4
  <2> QED
    BY <1>2, <1>3, <1>6, <2>1, EntryRemainder
<1>7. SumOver(Allotted, entries) = increase * staked
  BY AllottedToAsset DEF EntriesOf
<1>8. SumOver(shares, entries) = ShareOf(a)
  BY DEF ShareOf
<1> HIDE DEF entries, rewards, staked, number, increase, shares, most, DF
<1>9. SumOver(most, entries) = rewards * SumOver(shares, entries)
  <2>1. rewards \in Int /\ \A i \in entries : shares[i] \in Int /\ most[i] = rewards * shares[i]
    BY <1>2, <1>4
  <2> QED
    BY <1>1, <2>1, SumScale
<1>10. SumOver(Allotted, entries) <= SumOver(most, entries)
  <2>1. \A i \in entries : Allotted[i] \in Int /\ most[i] \in Int /\ Allotted[i] <= most[i]
    BY <1>4, <1>5
  <2> QED
    BY <1>1, <2>1, SumMonotonic
<1>11. /\ SumOver(Allotted, entries) \in Nat /\ SumOver(most, entries) \in Nat
       /\ staked * increase = increase * staked
  BY <1>1, <1>2, <1>4, <1>5, SumNat
<1>12. ASSUME entries # {}, staked > 0
       PROVE  SumOver(most, entries) - SumOver(Allotted, entries) < number * staked
  <2> DEFINE ones == [i \in entries |-> 1]
             lost == [i \in entries |-> (staked - 1) * ones[i]]
             upTo == [i \in entries |-> Allotted[i] + lost[i]]
  <2>1. \A i \in entries : ones[i] = 1 /\ lost[i] = staked - 1 /\ lost[i] = (staked - 1) * ones[i]
                           /\ upTo[i] = Allotted[i] + lost[i]
    BY <1>2
  <2>2. \A i \in entries : most[i] <= upTo[i] /\ most[i] \in Int /\ upTo[i] \in Int
                           /\ lost[i] \in Int /\ Allotted[i] \in Int /\ ones[i] \in Int
    BY <1>2, <1>4, <1>5, <1>6, <1>12, <2>1
  <2> HIDE DEF ones, lost, upTo
  <2>3. SumOver(most, entries) <= SumOver(upTo, entries)
    BY <1>1, <2>2, SumMonotonic
  <2>4. SumOver(upTo, entries) = SumOver(Allotted, entries) + SumOver(lost, entries)
    BY <1>1, <2>1, <2>2, SumAdd
  <2>5. SumOver(lost, entries) = (staked - 1) * number
    <3>1. SumOver(ones, entries) = number
      BY <1>1, <2>1, SumOnes DEF number
    <3>2. staked - 1 \in Int
      BY <1>2
    <3> QED
      BY <1>1, <2>1, <2>2, <3>1, <3>2, SumScale
  <2>6. (staked - 1) * number = number * staked - number /\ number > 0 /\ number * staked \in Int
    BY <1>1, <1>2, <1>12
  <2> QED
    BY <1>1, <1>11, <2>3, <2>4, <2>5, <2>6
<1>13. staked * increase <= rewards * ShareOf(a)
  BY <1>7, <1>8, <1>9, <1>10, <1>11
<1>14. entries # {} /\ staked > 0 =>
         rewards * ShareOf(a) - staked * increase < number * staked
  BY <1>7, <1>8, <1>9, <1>11, <1>12
<1> QED
  BY <1>13, <1>14 DEF rewards, staked, increase, entries, number

(* Over a whole update the stakers of an asset are allotted its share of   *)
(* what arrived, less than one atomic per staked unit and entry below it.  *)
THEOREM SharesAlwaysProportional == WidthSuffices => (Safety => SharesAreProportional)
<1> SUFFICES ASSUME WidthSuffices
             PROVE  Safety => SharesAreProportional
  OBVIOUS
<1> DEFINE ProportionalFor(a) ==
      LET rewards == holdings[RewardDenom] - tx.before.holdings[RewardDenom]
          entries == {i \in DOMAIN assetRewardDistribution :
                        assetRewardDistribution[i].asset = a}
          share == SumOver([i \in entries |-> assetRewardDistribution[i].distribution],
                           entries)
          allotted == totalBalances[a] *
                        (UnwrapOr(assetRewardRate'[a], 0) - UnwrapOr(assetRewardRate[a], 0))
      IN  /\ allotted <= rewards * share
          /\ entries # {} /\ totalBalances[a] > 0 =>
               rewards * share - allotted < Cardinality(entries) * totalBalances[a]
<1>1. LedgerInv /\ UpdatesSucceed /\ [Next]_vars =>
        [UpdateEnds => \A a \in Assets : ProportionalFor(a)]_vars
  <2> SUFFICES ASSUME LedgerInv, UpdatesSucceed, [Next]_vars, UpdateEnds, NEW a \in Assets
               PROVE  ProportionalFor(a)
    OBVIOUS
  <2>1. UpdateRewardsCallback /\ UpdateRewardsCallbackOk /\ assetRewardDistribution # NotFound
    BY EndsWithCallback DEF LedgerInv, UpdateRewardsCallback, UpdateEnds
  <2>2. TypeOK /\ TotalDistribution(assetRewardDistribution) = Percent100
    BY <2>1 DEF LedgerInv, PayoutInv, BoundsInv
  <2>3. UnwrapOr(assetRewardRate'[a], 0) - UnwrapOr(assetRewardRate[a], 0) = RateIncrease(a)
    <3>1. RateIncrease(a) \in Nat /\ UnwrapOr(assetRewardRate[a], 0) \in Nat
      BY <2>1, <2>2, RateIncreaseType DEF TypeOK, UnwrapOr
    <3>2. assetRewardRate'[a] = IF RateIncrease(a) > 0
                                THEN UnwrapOr(assetRewardRate[a], 0) + RateIncrease(a)
                                ELSE assetRewardRate[a]
      BY <2>1 DEF UpdateRewardsCallback
    <3>3. UnwrapOr(assetRewardRate'[a], 0) = UnwrapOr(assetRewardRate[a], 0) + RateIncrease(a)
      BY <3>1, <3>2, NotFoundAssumption DEF UnwrapOr
    <3> QED
      BY <3>1, <3>3
  <2>4. holdings[RewardDenom] - tx.before.holdings[RewardDenom] = RewardsCollected
    BY DEF LedgerInv, TempBalanceOfThisUpdate, RewardsCollected, UpdateEnds
  <2>5. /\ EntriesOf(a) = {i \in DOMAIN assetRewardDistribution :
                            assetRewardDistribution[i].asset = a}
        /\ ShareOf(a) = SumOver([i \in EntriesOf(a) |-> assetRewardDistribution[i].distribution],
                                EntriesOf(a))
    BY DEF ShareOf, EntriesOf, Entries, AssetOf
  <2>6. /\ totalBalances[a] * (UnwrapOr(assetRewardRate'[a], 0) - UnwrapOr(assetRewardRate[a], 0))
             <= RewardsCollected * ShareOf(a)
        /\ EntriesOf(a) # {} /\ totalBalances[a] > 0 =>
             RewardsCollected * ShareOf(a) - totalBalances[a] *
               (UnwrapOr(assetRewardRate'[a], 0) - UnwrapOr(assetRewardRate[a], 0))
               < Cardinality(EntriesOf(a)) * totalBalances[a]
    BY <2>1, <2>2, <2>3, AssetShare
  <2> QED
    BY <2>4, <2>5, <2>6
<1>2. Safety => []UpdatesSucceed
  BY UpdatesAlwaysSucceed
<1> QED
  BY <1>1, <1>2, LedgerInvariant, PTL DEF Safety, SharesAreProportional
-----------------------------------------------------------------------------
(* The hub implements RewardAccounts.                                      *)

LEMMA DivMonotonic ==
  ASSUME NEW m \in Nat, NEW n \in Nat, NEW d \in Nat, d > 0, m <= n
  PROVE  m \div d <= n \div d
OBVIOUS

LEMMA OwedType ==
  TypeOK /\ UserRateNeverAhead =>
    /\ \A k \in Accounts : Owed[k] \in Nat
    /\ \A k \in Accounts : Stakes[k] \in Nat
<1> SUFFICES ASSUME TypeOK, UserRateNeverAhead, NEW k \in Accounts
             PROVE  Owed[k] \in Nat /\ Stakes[k] \in Nat
  OBVIOUS
<1>1. PICK u \in Users, a \in Assets : k = <<u, a>>
  BY DEF Accounts
<1>2. Owed[k] = PendingRewards(u, a) /\ Stakes[k] = UnwrapOr(balances[k], 0)
  BY <1>1 DEF Owed, Stakes, StakeOf
<1> QED
  BY <1>2, PendingCovered DEF TypeOK, UnwrapOr

LEMMA OwedTypeNext ==
  TypeOK' /\ UserRateNeverAhead' =>
    /\ \A k \in Accounts : Owed'[k] \in Nat
    /\ \A k \in Accounts : Stakes'[k] \in Nat
<1>1. (TypeOK /\ UserRateNeverAhead =>
         /\ \A k \in Accounts : Owed[k] \in Nat
         /\ \A k \in Accounts : Stakes[k] \in Nat)'
  BY OwedType, PTL
<1> QED
  BY <1>1

(* An account whose entries and rate do not change keeps what it has.      *)
LEMMA AccountKept ==
  ASSUME UserRateNeverAhead, NEW k \in Accounts,
         unclaimedRewards'[k] = unclaimedRewards[k], balances'[k] = balances[k],
         userAssetRewardRate'[k] = userAssetRewardRate[k],
         assetRewardRate[k[2]] # NotFound => assetRewardRate'[k[2]] = assetRewardRate[k[2]]
  PROVE  Owed'[k] = Owed[k] /\ Stakes'[k] = Stakes[k]
<1>1. PICK u \in Users, a \in Assets : k = <<u, a>>
  BY DEF Accounts
<1>2. userAssetRewardRate[k] # NotFound => assetRewardRate'[a] = assetRewardRate[a]
  BY <1>1 DEF UserRateNeverAhead
<1>3. PendingRewards(u, a)' = PendingRewards(u, a)
  BY <1>1, <1>2 DEF PendingRewards, RateGain
<1>4. Owed[k] = PendingRewards(u, a) /\ Owed'[k] = PendingRewards(u, a)'
  BY <1>1 DEF Owed
<1>5. Stakes'[k] = Stakes[k]
  BY <1>1 DEF Stakes, StakeOf
<1> QED
  BY <1>3, <1>4, <1>5

LEMMA AccountsKept ==
  ASSUME UserRateNeverAhead, UNCHANGED ledgerVars,
         \A a \in Assets : assetRewardRate[a] # NotFound =>
                             assetRewardRate'[a] = assetRewardRate[a]
  PROVE  Owed' = Owed /\ Stakes' = Stakes
<1>1. \A k \in Accounts : Owed'[k] = Owed[k] /\ Stakes'[k] = Stakes[k]
  BY AccountKept DEF ledgerVars, Accounts
<1> QED
  BY <1>1 DEF Owed, Stakes

(* A change of one account's entries that leaves what is due to it.        *)
LEMMA StakeChanges ==
  ASSUME TypeOK', UserRateNeverAhead, UserRateNeverAhead',
         NEW u \in Users, NEW a \in Assets, UNCHANGED assetRewardRate,
         \A j \in Accounts \ {<<u, a>>} :
           /\ unclaimedRewards'[j] = unclaimedRewards[j]
           /\ balances'[j] = balances[j]
           /\ userAssetRewardRate'[j] = userAssetRewardRate[j],
         PendingRewards(u, a)' = PendingRewards(u, a), RewardPool' = RewardPool
  PROVE  RA!Next
<1> DEFINE k == <<u, a>>
<1>1. k \in Accounts /\ Owed[k] = PendingRewards(u, a) /\ Owed'[k] = PendingRewards(u, a)'
  BY DEF Accounts, Owed
<1>2. \A j \in Accounts \ {k} : Owed'[j] = Owed[j] /\ Stakes'[j] = Stakes[j]
  BY AccountKept
<1>3. Owed' = Owed
  <2>1. \A j \in Accounts : Owed'[j] = Owed[j]
    BY <1>1, <1>2
  <2> QED
    BY <2>1 DEF Owed
<1>4. Stakes' = [Stakes EXCEPT ![k] = Stakes'[k]]
  <2>1. /\ Stakes = [j \in Accounts |-> Stakes[j]]
        /\ Stakes' = [j \in Accounts |-> Stakes'[j]]
    BY DEF Stakes
  <2> HIDE DEF k
  <2> QED
    BY <1>1, <1>2, <2>1
<1>5. Stakes'[k] \in Nat
  BY <1>1, OwedTypeNext
<1>6. RA!ChangeStake(k)
  BY <1>3, <1>4, <1>5 DEF RA!ChangeStake
<1> QED
  BY <1>1, <1>6 DEF RA!Next

(* A stake sets aside all that is due.                                     *)
LEMMA StakeRefines ==
  ASSUME LedgerInv, TypeOK', UserRateNeverAhead', Idle,
         NEW u \in Users, NEW a \in Assets, NEW n \in Amounts, Stake(u, a, n)
  PROVE  RA!Next
<1> DEFINE k == <<u, a>>
           claimed == ClaimedReward(u, a)
<1>1. TypeOK /\ UserRateNeverAhead /\ k \in Accounts /\ ClaimRewardOk(u, a) /\ n \in Nat
  BY InputsAssumption DEF LedgerInv, Accounts, Stake, StakeOk
<1>2. /\ UNCHANGED <<assetRewardRate, tx>>
      /\ unclaimedRewards' = [unclaimedRewards EXCEPT ![k] = @ + claimed]
      /\ balances' = [balances EXCEPT ![k] = BalanceAfterStake(u, a, n)]
      /\ userAssetRewardRate' = [userAssetRewardRate EXCEPT ![k] = RateAfterStake(u, a)]
      /\ totalBalances' = [totalBalances EXCEPT ![a] = @ + n]
      /\ holdings' = [holdings EXCEPT ![a] = @ + n]
  BY DEF Stake, SetAsideReward
<1>3. assetRewardRate[a] \in Nat /\ claimed \in Nat /\ unclaimedRewards[k] \in Nat
  BY <1>1, ClaimedRewardType DEF TypeOK
<1>4. /\ unclaimedRewards'[k] = unclaimedRewards[k] + claimed
      /\ userAssetRewardRate'[k] = assetRewardRate[a]
      /\ balances'[k] \in Nat \cup {NotFound}
  BY <1>1, <1>2, <1>3, NotFoundAssumption DEF TypeOK, RateAfterStake, UnwrapOr
<1>5. PendingRewards(u, a)' = unclaimedRewards[k] + claimed
  <2>1. RateGain(u, a)' = 0
    BY <1>2, <1>3, <1>4 DEF RateGain
  <2>2. balances'[k] \in Nat => MulUint(0, balances'[k]) = 0
    <3>1. \A m \in Nat : 0 * m = 0
      OBVIOUS
    <3>2. 0 \div DecimalFractional = 0
      BY DecimalFractionalAssumption
    <3> QED
      BY <3>1, <3>2 DEF MulUint
  <2>3. PendingRewards(u, a)' =
          IF userAssetRewardRate'[k] = NotFound \/ balances'[k] = NotFound
          THEN unclaimedRewards'[k]
          ELSE unclaimedRewards'[k] + MulUint(RateGain(u, a)', balances'[k])
    BY DEF PendingRewards
  <2> HIDE DEF k, claimed
  <2> QED
    BY <1>3, <1>4, <2>1, <2>2, <2>3
<1>6. PendingRewards(u, a) = unclaimedRewards[k] + claimed
  <2>1. CASE userAssetRewardRate[k] = NotFound
    BY <1>3, <2>1 DEF PendingRewards, ClaimedReward
  <2>2. CASE userAssetRewardRate[k] # NotFound
    <3>1. balances[k] # NotFound
      BY <1>1, <2>2 DEF ClaimRewardOk
    <3> QED
      BY <1>1, <2>2, <3>1, ClaimIsEarned DEF PendingRewards
  <2> QED
    BY <2>1, <2>2
<1>7. RewardPool' = RewardPool
  <2>1. \A d \in Denoms : /\ holdings[d] \in Nat
                          /\ holdings'[d] = IF d = a THEN holdings[d] + n ELSE holdings[d]
    BY <1>1, <1>2 DEF TypeOK, Denoms
  <2>2. \A b \in Assets : /\ totalBalances[b] \in Nat
                          /\ totalBalances'[b] =
                               IF b = a THEN totalBalances[b] + n ELSE totalBalances[b]
    BY <1>1, <1>2 DEF TypeOK
  <2> QED
    BY <1>1, <1>2, <2>1, <2>2 DEF RewardPool, Settled, StakedOf, Idle, Denoms
<1>8. \A j \in Accounts \ {k} : /\ unclaimedRewards'[j] = unclaimedRewards[j]
                                /\ balances'[j] = balances[j]
                                /\ userAssetRewardRate'[j] = userAssetRewardRate[j]
  BY <1>1, <1>2 DEF TypeOK
<1>9. PendingRewards(u, a)' = PendingRewards(u, a)
  BY <1>5, <1>6
<1> QED
  BY <1>1, <1>2, <1>7, <1>8, <1>9, StakeChanges

(* An unstaking also; a rate that is left behind earned nothing yet, and   *)
(* does not with less of a stake either.                                   *)
LEMMA UnstakeRefines ==
  ASSUME LedgerInv, TypeOK', UserRateNeverAhead', Idle,
         NEW u \in Users, NEW a \in Assets, NEW n \in Amounts,
         NEW held \in [Denoms -> Nat], held[RewardDenom] = holdings[RewardDenom],
         Unstake(u, a, n, held)
  PROVE  RA!Next
<1> DEFINE k == <<u, a>>
           claimed == ClaimedReward(u, a)
<1>1. /\ TypeOK /\ UserRateNeverAhead /\ k \in Accounts /\ ClaimRewardOk(u, a) /\ n \in Nat
      /\ balances[k] # NotFound /\ balances[k] >= n /\ userAssetRewardRate[k] # NotFound
  BY InputsAssumption DEF LedgerInv, Accounts, Unstake, UnstakeOk, BalanceSuffices,
     EntriesComplete
<1>2. /\ UNCHANGED <<assetRewardRate, tx>>
      /\ unclaimedRewards' = [unclaimedRewards EXCEPT ![k] = @ + claimed]
      /\ balances' = [balances EXCEPT ![k] = @ - n]
      /\ userAssetRewardRate' = [userAssetRewardRate EXCEPT ![k] = RateAfterClaim(u, a)]
      /\ totalBalances' = [totalBalances EXCEPT ![a] = @ - n]
      /\ holdings' = [held EXCEPT ![a] = @ - n]
  BY DEF Unstake, SetAsideReward
<1>3. assetRewardRate[a] \in Nat /\ claimed \in Nat /\ unclaimedRewards[k] \in Nat
  BY <1>1, ClaimedRewardType DEF TypeOK
<1>4. /\ unclaimedRewards'[k] = unclaimedRewards[k] + claimed
      /\ userAssetRewardRate'[k] = RateAfterClaim(u, a)
      /\ balances[k] \in Nat /\ balances'[k] = balances[k] - n /\ balances'[k] \in Nat
  BY <1>1, <1>2, <1>3 DEF TypeOK
<1>5. claimed = MulUint(RateGain(u, a), balances[k]) /\ RateGain(u, a) \in Nat
  BY <1>1, ClaimIsEarned, AccountType
<1>6. PendingRewards(u, a) = unclaimedRewards[k] + claimed
  BY <1>1, <1>5 DEF PendingRewards
<1>7. MulUint(RateGain(u, a)', balances'[k]) = 0 /\ userAssetRewardRate'[k] # NotFound
  <2>1. RateGain(u, a)' = assetRewardRate[a] - userAssetRewardRate'[k]
    BY <1>2 DEF RateGain
  <2>2. DecimalFractional \in Nat /\ DecimalFractional > 0
    BY DecimalFractionalAssumption
  <2>3. CASE claimed > 0
    <3>1. userAssetRewardRate'[k] = assetRewardRate[a]
      BY <1>4, <2>3 DEF RateAfterClaim
    <3>2. RateGain(u, a)' = 0
      BY <1>3, <2>1, <3>1
    <3>3. 0 * balances'[k] = 0 /\ 0 \div DecimalFractional = 0
      BY <1>4, <2>2
    <3> QED
      BY <1>3, <3>1, <3>2, <3>3, NotFoundAssumption DEF MulUint
  <2>4. CASE ~(claimed > 0)
    <3> DEFINE gain == RateGain(u, a)
               old == balances[k]
               new == balances'[k]
    <3>1. userAssetRewardRate'[k] = userAssetRewardRate[k]
      BY <1>1, <1>4, <2>4 DEF RateAfterClaim
    <3>2. RateGain(u, a)' = gain
      BY <2>1, <3>1 DEF RateGain
    <3>3. gain \in Nat /\ old \in Nat /\ new \in Nat /\ new <= old
      BY <1>1, <1>4, <1>5
    <3>4. (gain * old) \div DecimalFractional = 0
      BY <1>3, <1>5, <2>4 DEF MulUint
    <3> HIDE DEF gain, old, new
    <3>5. gain * new \in Nat /\ gain * old \in Nat /\ gain * new <= gain * old
      BY <3>3, ProductNat, MulMonotonic
    <3>6. (gain * new) \div DecimalFractional <= 0 /\ (gain * new) \div DecimalFractional \in Nat
      BY <2>2, <3>4, <3>5, DivMonotonic, DivNat
    <3>7. MulUint(gain, new) = 0
      BY <3>6 DEF MulUint
    <3> QED
      BY <1>1, <3>1, <3>2, <3>7 DEF new
  <2> QED
    BY <2>3, <2>4
<1>8. PendingRewards(u, a)' = PendingRewards(u, a)
  <2>1. PendingRewards(u, a)' =
          IF userAssetRewardRate'[k] = NotFound \/ balances'[k] = NotFound
          THEN unclaimedRewards'[k]
          ELSE unclaimedRewards'[k] + MulUint(RateGain(u, a)', balances'[k])
    BY DEF PendingRewards
  <2> HIDE DEF k, claimed
  <2> QED
    BY <1>3, <1>4, <1>6, <1>7, <2>1
<1>9. RewardPool' = RewardPool
  <2>1. \A d \in Denoms : holdings'[d] = IF d = a THEN held[d] - n ELSE held[d]
    BY <1>2
  <2>2. \A b \in Assets : /\ totalBalances[b] \in Nat
                          /\ totalBalances'[b] =
                               IF b = a THEN totalBalances[b] - n ELSE totalBalances[b]
    BY <1>1, <1>2 DEF TypeOK
  <2>3. RewardDenom \in Denoms /\ holdings[RewardDenom] \in Nat
    BY <1>1 DEF TypeOK, Denoms
  <2>4. Settled = holdings /\ Settled' = holdings'
    BY <1>2 DEF Settled, Idle
  <2>5. holdings'[RewardDenom] =
          IF RewardDenom = a THEN holdings[RewardDenom] - n ELSE holdings[RewardDenom]
    BY <2>1, <2>3
  <2>6. StakedOf(RewardDenom)' =
          IF RewardDenom = a THEN StakedOf(RewardDenom) - n ELSE StakedOf(RewardDenom)
    BY <2>2 DEF StakedOf
  <2>7. StakedOf(RewardDenom) \in Nat
    BY <1>1, PoolType
  <2>8. /\ RewardPool = holdings[RewardDenom] - StakedOf(RewardDenom)
        /\ RewardPool' = holdings'[RewardDenom] - StakedOf(RewardDenom)'
    BY <2>4 DEF RewardPool
  <2> QED
    BY <1>1, <2>3, <2>5, <2>6, <2>7, <2>8
<1>10. \A j \in Accounts \ {k} : /\ unclaimedRewards'[j] = unclaimedRewards[j]
                                 /\ balances'[j] = balances[j]
                                 /\ userAssetRewardRate'[j] = userAssetRewardRate[j]
  BY <1>1, <1>2 DEF TypeOK
<1> QED
  BY <1>1, <1>2, <1>8, <1>9, <1>10, StakeChanges

(* A claim pays the whole debt.                                            *)
LEMMA ClaimRefines ==
  ASSUME LedgerInv, TypeOK', UserRateNeverAhead',
         NEW u \in Users, NEW a \in Assets, ClaimRewards(u, a)
  PROVE  RA!Next
<1> DEFINE k == <<u, a>>
           paid == ClaimedReward(u, a) + unclaimedRewards[k]
<1>1. TypeOK /\ UserRateNeverAhead /\ k \in Accounts /\ Owed[k] = PendingRewards(u, a)
  BY DEF LedgerInv, Accounts, Owed
<1>2. /\ Idle /\ ClaimRewardOk(u, a)
      /\ UNCHANGED <<balances, totalBalances, assetRewardRate, tx>>
      /\ unclaimedRewards' = [unclaimedRewards EXCEPT ![k] = 0]
      /\ userAssetRewardRate' = [userAssetRewardRate EXCEPT ![k] = RateAfterClaim(u, a)]
      /\ holdings' = [holdings EXCEPT ![RewardDenom] = @ - paid]
  BY DEF ClaimRewards, ClaimRewardsOk
<1>3. holdings[RewardDenom] \in Nat /\ holdings'[RewardDenom] \in Nat
  BY <1>1 DEF TypeOK, Denoms
<1>4. Stakes' = Stakes
  BY <1>2 DEF Stakes, StakeOf
<1>5. /\ holdings[RewardDenom] - holdings'[RewardDenom] = PendingRewards(u, a)
      /\ Owed' = [Owed EXCEPT ![k] = 0]
  <2>1. CASE userAssetRewardRate[k] # NotFound
    <3>1. balances[k] # NotFound
      BY <1>2, <2>1 DEF ClaimRewardOk
    <3> QED
      BY <1>1, <2>1, <3>1, ClaimPays
  <2>2. CASE userAssetRewardRate[k] = NotFound
    <3>1. balances[k] = NotFound /\ unclaimedRewards[k] = 0
      BY <2>2 DEF LedgerInv, EntriesComplete
    <3>2. PendingRewards(u, a) = 0 /\ paid = 0
      BY <2>2, <3>1 DEF PendingRewards, ClaimedReward
    <3>3. unclaimedRewards'[k] = 0 /\ balances'[k] = NotFound
      BY <1>1, <1>2, <3>1 DEF TypeOK
    <3>4. PendingRewards(u, a)' = 0
      BY <3>3 DEF PendingRewards
    <3>5. holdings[RewardDenom] - holdings'[RewardDenom] = 0
      <4>1. holdings'[RewardDenom] = holdings[RewardDenom] - 0
        BY <1>1, <1>2, <3>2 DEF TypeOK, Denoms
      <4> QED
        BY <1>3, <4>1
    <3>6. \A j \in Accounts \ {k} : Owed'[j] = Owed[j]
      <4>1. \A j \in Accounts \ {k} : /\ unclaimedRewards'[j] = unclaimedRewards[j]
                                      /\ balances'[j] = balances[j]
                                      /\ userAssetRewardRate'[j] = userAssetRewardRate[j]
        BY <1>1, <1>2 DEF TypeOK
      <4> QED
        BY <1>1, <1>2, <4>1, AccountKept
    <3>7. Owed'[k] = 0
      BY <1>1, <3>4 DEF Owed
    <3>8. Owed = [j \in Accounts |-> Owed[j]] /\ Owed' = [j \in Accounts |-> Owed'[j]]
      BY DEF Owed
    <3> HIDE DEF k
    <3> QED
      BY <1>1, <3>2, <3>5, <3>6, <3>7, <3>8
  <2> QED
    BY <2>1, <2>2
<1>6. RewardPool' = RewardPool - Owed[k]
  <2>1. /\ Settled = holdings /\ Settled' = holdings'
        /\ StakedOf(RewardDenom)' = StakedOf(RewardDenom) /\ StakedOf(RewardDenom) \in Nat
    BY <1>1, <1>2, PoolType DEF Settled, StakedOf, Idle
  <2>2. /\ RewardPool = holdings[RewardDenom] - StakedOf(RewardDenom)
        /\ RewardPool' = holdings'[RewardDenom] - StakedOf(RewardDenom)
    BY <2>1 DEF RewardPool
  <2>3. PendingRewards(u, a) \in Nat
    BY <1>1, PendingCovered
  <2> QED
    BY <1>1, <1>3, <1>5, <2>1, <2>2, <2>3
<1>7. RA!Pay(k)
  BY <1>4, <1>5, <1>6 DEF RA!Pay
<1> QED
  BY <1>1, <1>7 DEF RA!Next

(* Money that reaches the hub funds the pool.                              *)
LEMMA FundRefines ==
  ASSUME LedgerInv, TypeOK', UNCHANGED ledgerVars,
         \A a \in Assets : assetRewardRate[a] # NotFound =>
                             assetRewardRate'[a] = assetRewardRate[a],
         NEW x \in Nat, Settled'[RewardDenom] = Settled[RewardDenom] + x
  PROVE  RA!Next \/ UNCHANGED RA!vars
<1>1. TypeOK /\ UserRateNeverAhead /\ SolvencyInv
  BY DEF LedgerInv
<1>2. Owed' = Owed /\ Stakes' = Stakes
  BY <1>1, AccountsKept
<1>3. RewardPool' = RewardPool + x
  <2>1. /\ StakedOf(RewardDenom)' = StakedOf(RewardDenom) /\ StakedOf(RewardDenom) \in Nat
        /\ Settled[RewardDenom] \in Nat
    BY <1>1, PoolType DEF StakedOf, ledgerVars, Denoms
  <2>2. /\ RewardPool = Settled[RewardDenom] - StakedOf(RewardDenom)
        /\ RewardPool' = Settled'[RewardDenom] - StakedOf(RewardDenom)
    BY <2>1 DEF RewardPool
  <2> QED
    BY <2>1, <2>2
<1>4. RewardPool \in Nat
  BY <1>1, PoolNat
<1>5. CASE x = 0
  <2>1. RewardPool' = RewardPool
    BY <1>3, <1>4, <1>5
  <2> QED
    BY <1>2, <2>1 DEF RA!vars
<1>6. CASE x > 0
  <2>1. RewardPool' \in Nat /\ RewardPool' > RewardPool
    BY <1>3, <1>4, <1>6
  <2> QED
    BY <1>2, <2>1 DEF RA!Next, RA!Fund
<1> QED
  BY <1>5, <1>6

(* What an update collected is allotted to those that have a stake.        *)
LEMMA CallbackRefines ==
  ASSUME LedgerInv, LedgerInv', Solvent', RatesKept, tx # NoTx, UpdateRewardsCallback
  PROVE  RA!Next
<1>1. /\ TypeOK /\ UserRateNeverAhead /\ SolvencyInv
      /\ TypeOK' /\ UserRateNeverAhead'
  BY DEF LedgerInv
<1>2. /\ UNCHANGED ledgerVars /\ UNCHANGED <<balances, totalBalances, holdings>>
      /\ UNCHANGED <<unclaimedRewards, userAssetRewardRate>> /\ tx' = NoTx
  BY DEF UpdateRewardsCallback, ledgerVars
<1>3. Stakes' = Stakes
  BY <1>2 DEF Stakes, StakeOf
<1>4. ASSUME NEW k \in Accounts
      PROVE  /\ Owed'[k] \in Nat /\ Owed[k] \in Nat
             /\ Owed'[k] >= Owed[k] /\ (Owed'[k] > Owed[k] => Stakes[k] > 0)
  <2>1. PICK u \in Users, a \in Assets : k = <<u, a>>
    BY DEF Accounts
  <2>2. /\ Owed'[k] \in Nat /\ Owed[k] \in Nat /\ Stakes[k] = UnwrapOr(balances[k], 0)
        /\ Owed[k] = PendingRewards(u, a) /\ Owed'[k] = PendingRewards(u, a)'
    BY <1>1, <2>1, OwedType, OwedTypeNext DEF Owed, Stakes, StakeOf
  <2>3. CASE userAssetRewardRate[k] = NotFound \/ balances[k] = NotFound
    <3>1. PendingRewards(u, a) = unclaimedRewards[k] /\ PendingRewards(u, a)' = unclaimedRewards[k]
      BY <1>2, <2>1, <2>3 DEF PendingRewards
    <3> QED
      BY <2>2, <3>1
  <2>4. CASE userAssetRewardRate[k] # NotFound /\ balances[k] # NotFound
    <3> DEFINE old == RateGain(u, a)
               new == RateGain(u, a)'
               staked == balances[k]
               unclaimed == unclaimedRewards[k]
               DF == DecimalFractional
    <3>1. /\ old \in Nat /\ staked \in Nat /\ unclaimed \in Nat
          /\ Stakes[k] = staked /\ DF \in Nat /\ DF > 0
      BY <1>1, <2>1, <2>2, <2>4, AccountType, DecimalFractionalAssumption DEF UnwrapOr
    <3>2. new \in Nat /\ new >= old
      <4>1. /\ assetRewardRate[a] \in Nat /\ assetRewardRate'[a] \in Nat
            /\ userAssetRewardRate[k] \in Nat /\ assetRewardRate'[a] >= assetRewardRate[a]
        BY <1>1, <2>1, <2>4 DEF TypeOK, UserRateNeverAhead, RatesKept
      <4>2. /\ old = assetRewardRate[a] - userAssetRewardRate[k]
            /\ new = assetRewardRate'[a] - userAssetRewardRate[k]
        BY <1>2, <2>1 DEF RateGain
      <4> HIDE DEF old, new
      <4> QED
        BY <3>1, <4>1, <4>2 DEF old
    <3>3. /\ Owed[k] = unclaimed + ((old * staked) \div DF)
          /\ Owed'[k] = unclaimed + ((new * staked) \div DF)
      BY <1>2, <2>1, <2>2, <2>4 DEF PendingRewards, MulUint
    <3> HIDE DEF old, new, staked, unclaimed, DF
    <3>4. /\ old * staked \in Nat /\ new * staked \in Nat /\ old * staked <= new * staked
          /\ staked = 0 => old * staked = new * staked
      <4>1. staked * old <= staked * new
        BY <3>1, <3>2, MulMonotonic
      <4> QED
        BY <3>1, <3>2, <4>1, ProductNat
    <3>5. /\ (old * staked) \div DF \in Nat /\ (new * staked) \div DF \in Nat
          /\ (old * staked) \div DF <= (new * staked) \div DF
      BY <3>1, <3>4, DivNat, DivMonotonic
    <3>6. staked = 0 => Owed'[k] = Owed[k]
      BY <3>3, <3>4
    <3> QED
      BY <2>2, <3>1, <3>3, <3>5, <3>6
  <2> QED
    BY <2>3, <2>4
<1>5. Owed' \in [Accounts -> Nat]
  BY <1>4 DEF Owed
<1>6. RewardPool' \in Nat /\ RewardPool' >= RewardPool
  <2>1. /\ holdings[RewardDenom] = Settled[RewardDenom] + RewardsCollected
        /\ RewardsCollected \in Nat
    BY CollectedBounded DEF LedgerInv, PayoutInv
  <2>2. /\ StakedOf(RewardDenom)' = StakedOf(RewardDenom) /\ StakedOf(RewardDenom) \in Nat
        /\ Settled[RewardDenom] \in Nat /\ Settled' = holdings
    BY <1>1, <1>2, PoolType DEF StakedOf, Denoms, Settled
  <2>3. /\ RewardPool = Settled[RewardDenom] - StakedOf(RewardDenom)
        /\ RewardPool' = holdings[RewardDenom] - StakedOf(RewardDenom)
    BY <2>2 DEF RewardPool
  <2>4. RewardPool \in Nat
    BY <1>1, PoolNat
  <2> QED
    BY <2>1, <2>2, <2>3, <2>4
<1>7. SumOver(Owed', Accounts) <= RewardPool'
  <2>1. holdings'[RewardDenom] >= StakedOf(RewardDenom)' + SumOver(Owed', Accounts)
    BY DEF Solvent
  <2>2. SumOver(Owed', Accounts) \in Nat
    BY <1>4, AccountsFinite, SumNat
  <2>3. /\ RewardPool' = holdings'[RewardDenom] - StakedOf(RewardDenom)'
        /\ holdings'[RewardDenom] \in Nat /\ StakedOf(RewardDenom)' \in Nat
    <3>1. Settled' = holdings' /\ holdings'[RewardDenom] \in Nat
      BY <1>1, <1>2 DEF Settled, TypeOK, Denoms
    <3>2. StakedOf(RewardDenom)' \in Nat
      BY <1>1 DEF StakedOf, TypeOK
    <3>3. RewardPool' = Settled'[RewardDenom] - StakedOf(RewardDenom)'
      BY DEF RewardPool
    <3> QED
      BY <3>1, <3>2, <3>3
  <2> DEFINE due == SumOver(Owed', Accounts)
             held == holdings'[RewardDenom]
             staked == StakedOf(RewardDenom)'
             pool == RewardPool'
  <2> HIDE DEF due, held, staked, pool
  <2>4. due <= pool
    <3>1. held >= staked + due /\ due \in Nat /\ pool = held - staked
          /\ held \in Nat /\ staked \in Nat
      BY <2>1, <2>2, <2>3 DEF due, held, staked, pool
    <3> QED
      BY <3>1
  <2> QED
    BY <2>4 DEF due, pool
<1>8. \A k \in Accounts : Owed'[k] >= Owed[k] /\ (Owed'[k] > Owed[k] => Stakes[k] > 0)
  BY <1>4
<1>9. RA!SumOver(Owed', Accounts) = SumOver(Owed', Accounts)
  BY Zenon DEF SumOver, MapThenSumSet, MapThenFoldSet,
               RA!SumOver, RA!MapThenSumSet, RA!MapThenFoldSet
<1>10. RA!Allot
  BY <1>3, <1>5, <1>6, <1>7, <1>8, <1>9, Zenon DEF RA!Allot
<1> QED
  BY <1>10 DEF RA!Next

(* A rate that was stored keeps its value in every step but the callback.  *)
LEMMA AdminRefines ==
  ASSUME LedgerInv, TypeOK', AdminStep
  PROVE  RA!Next \/ UNCHANGED RA!vars
<1>1. Idle /\ UNCHANGED tx /\ UNCHANGED ledgerVars
  BY DEF AdminStep, SetAssetRewardDistribution, WhitelistAssets, RemoveAssets,
     UpdateConfig, AllianceDelegate, AllianceUndelegate, AllianceRedelegate
<1>2. \A a \in Assets : assetRewardRate[a] # NotFound =>
                          assetRewardRate'[a] = assetRewardRate[a]
  <2>1. ASSUME NEW sender, NEW S, WhitelistAssets(sender, S)
        PROVE  \A a \in Assets : assetRewardRate[a] # NotFound =>
                                   assetRewardRate'[a] = assetRewardRate[a]
    BY <2>1 DEF WhitelistAssets, RateWhenWhitelisted, UnwrapOr
  <2> QED
    BY <2>1 DEF AdminStep, SetAssetRewardDistribution, RemoveAssets,
       UpdateConfig, AllianceDelegate, AllianceUndelegate, AllianceRedelegate
<1>3. UNCHANGED <<holdings, accrued>> \/ \E V \in SUBSET Validators : PayOut(V)
  BY DEF AdminStep, SetAssetRewardDistribution, WhitelistAssets, RemoveAssets,
     UpdateConfig, AllianceDelegate, AllianceUndelegate, AllianceRedelegate, chainVars
<1>4. TypeOK /\ holdings[RewardDenom] \in Nat
  BY DEF LedgerInv, TypeOK, Denoms
<1>5. \E x \in Nat : holdings'[RewardDenom] = holdings[RewardDenom] + x
  <2>1. UNCHANGED <<holdings, accrued>> => holdings'[RewardDenom] = holdings[RewardDenom] + 0
    BY <1>4
  <2> QED
    BY <1>3, <1>4, <2>1, PayOutMoves
<1>6. Settled = holdings /\ Settled' = holdings'
  BY <1>1 DEF Settled, Idle
<1> QED
  BY <1>1, <1>2, <1>5, <1>6, FundRefines

LEMMA ChainRefines ==
  ASSUME LedgerInv, TypeOK', ChainStep
  PROVE  RA!Next \/ UNCHANGED RA!vars
<1>1. Idle /\ UNCHANGED <<tx, assetRewardRate>> /\ UNCHANGED ledgerVars
  BY DEF ChainStep, AccrueRewards, Donate
<1>2. holdings \in [Denoms -> Nat] /\ holdings[RewardDenom] \in Nat
  BY DEF LedgerInv, TypeOK, Denoms
<1>3. \E x \in Nat : holdings'[RewardDenom] = holdings[RewardDenom] + x
  <2>1. ASSUME NEW n \in Amounts, Donate(n)
        PROVE  n \in Nat /\ holdings'[RewardDenom] = holdings[RewardDenom] + n
    BY <1>2, <2>1, InputsAssumption DEF Donate, Denoms
  <2>2. ASSUME NEW v, NEW n, AccrueRewards(v, n)
        PROVE  holdings'[RewardDenom] = holdings[RewardDenom] + 0
    BY <1>2, <2>2 DEF AccrueRewards
  <2> QED
    BY <2>1, <2>2 DEF ChainStep
<1>4. Settled = holdings /\ Settled' = holdings'
  BY <1>1 DEF Settled, Idle
<1> QED
  BY <1>1, <1>3, <1>4, FundRefines

(* An update changes nothing before its callback, or if it fails.          *)
LEMMA TransactionRefines ==
  ASSUME LedgerInv, TypeOK', UNCHANGED ledgerVars, UNCHANGED assetRewardRate,
         Settled' = Settled
  PROVE  RA!Next \/ UNCHANGED RA!vars
<1>1. Settled'[RewardDenom] = Settled[RewardDenom] + 0
  BY PoolType DEF LedgerInv, Denoms
<1> QED
  BY <1>1, FundRefines

LEMMA UserRefines ==
  ASSUME LedgerInv, TypeOK', UserRateNeverAhead', UserStep
  PROVE  RA!Next
<1>1. ASSUME NEW u \in Users, NEW a \in Assets, NEW n \in Amounts,
             ExecuteStake(u, a, n) \/ ReceiveStake(u, a, n)
      PROVE  RA!Next
  BY <1>1, StakeRefines DEF ExecuteStake, ReceiveStake
<1>2. ASSUME NEW u \in Users, NEW a \in Assets, NEW n \in Amounts, ExecuteUnstake(u, a, n)
      PROVE  RA!Next
  <2>1. holdings \in [Denoms -> Nat]
    BY DEF LedgerInv, TypeOK
  <2> QED
    BY <1>2, <2>1, UnstakeRefines DEF ExecuteUnstake
<1>3. ASSUME NEW u \in Users, NEW a \in Assets, NEW c \in Cw20Assets,
             NEW n \in Amounts, NEW tokens \in Amounts, ReceiveUnstake(c, u, tokens, a, n)
      PROVE  RA!Next
  <2> DEFINE held == [holdings EXCEPT ![c] = @ + tokens]
  <2>1. c \in Users /\ c \in Denoms /\ c # RewardDenom /\ tokens \in Nat
    BY FiniteSetsAssumption, InputsAssumption DEF Denoms
  <2>2. /\ held \in [Denoms -> Nat]
        /\ held[RewardDenom] = holdings[RewardDenom]
    BY <2>1 DEF LedgerInv, TypeOK, Denoms
  <2>3. Idle /\ Unstake(c, a, n, held)
    BY <1>3 DEF ReceiveUnstake, HookUnstaker
  <2> HIDE DEF held
  <2> QED
    BY <2>1, <2>2, <2>3, UnstakeRefines
<1> QED
  BY <1>1, <1>2, <1>3, ClaimRefines DEF UserStep

LEMMA StepRefines ==
  LedgerInv /\ LedgerInv' /\ Solvent' /\ RatesKept /\ [Next]_vars => [RA!Next]_RA!vars
<1> SUFFICES ASSUME LedgerInv, LedgerInv', Solvent', RatesKept, [Next]_vars
             PROVE  RA!Next \/ UNCHANGED RA!vars
  OBVIOUS
<1>1. TypeOK' /\ UserRateNeverAhead'
  BY DEF LedgerInv
<1>2. CASE UNCHANGED vars
  BY <1>1, <1>2, TransactionRefines DEF vars, ledgerVars, Settled
<1>3. ASSUME NEW sent \in Amounts \cup {0}, UpdateRewards(sent)
      PROVE  RA!Next \/ UNCHANGED RA!vars
  <2>1. UNCHANGED ledgerVars /\ UNCHANGED assetRewardRate
    BY <1>3 DEF UpdateRewards
  <2>2. Settled' = Settled
    <3>1. TypeOK /\ Idle
      BY <1>3 DEF LedgerInv, UpdateRewards
    <3>2. tx' = [claims |-> validators,
                 before |-> [tempBalance |-> tempBalance, holdings |-> holdings,
                             accrued |-> accrued, emitted |-> emitted]]
      BY <1>3 DEF UpdateRewards
    <3>3. tx' # NoTx
      BY <3>1, <3>2, NoTxAssumption DEF TypeOK, Transaction
    <3> QED
      BY <3>1, <3>2, <3>3 DEF Settled, Idle
  <2> QED
    BY <1>1, <2>1, <2>2, TransactionRefines
<1>4. CASE TxStep
  <2>1. tx # NoTx /\ tx \in Transaction
    BY <1>4 DEF TxStep, LedgerInv, TypeOK
  <2>2. ASSUME NEW v \in Validators, ClaimDelegationRewards(v) \/ ClaimRewardError(v)
        PROVE  RA!Next \/ UNCHANGED RA!vars
    <3>1. UNCHANGED ledgerVars /\ UNCHANGED assetRewardRate
      BY <2>2 DEF ClaimDelegationRewards, ClaimRewardError
    <3>2. Settled' = Settled
      <4>1. tx' = [tx EXCEPT !.claims = tx.claims \ {v}]
        BY <2>2 DEF ClaimDelegationRewards, ClaimRewardError
      <4>2. tx'.before = tx.before
        BY <2>1, <4>1 DEF Transaction
      <4>3. tx' \in Transaction
        BY <2>1, <4>1 DEF Transaction
      <4>4. tx' # NoTx
        BY <4>3, NoTxAssumption
      <4> QED
        BY <2>1, <4>2, <4>4 DEF Settled
    <3> QED
      BY <1>1, <3>1, <3>2, TransactionRefines
  <2>3. CASE UpdateRewardsAborts
    <3>1. UNCHANGED ledgerVars /\ UNCHANGED assetRewardRate
      BY <2>3 DEF UpdateRewardsAborts, RollBack
    <3>2. Settled' = Settled
      BY <2>1, <2>3 DEF UpdateRewardsAborts, RollBack, Settled
    <3> QED
      BY <1>1, <3>1, <3>2, TransactionRefines
  <2> QED
    BY <1>4, <2>1, <2>2, <2>3, CallbackRefines DEF TxStep
<1> QED
  BY <1>1, <1>2, <1>3, <1>4, UserRefines, AdminRefines, ChainRefines DEF Next

(* Every behaviour of the hub is one of RewardAccounts: what is due to an  *)
(* account comes from the pool, and only claims take it away.              *)
THEOREM HubRefinesAccounts == Safety => ImplementsRewardAccounts
<1>1. Init => RA!Init
  <2> SUFFICES ASSUME Init
               PROVE  RA!Init
    OBVIOUS
  <2>1. \A k \in Accounts : Stakes[k] = 0 /\ Owed[k] = 0
    <3> SUFFICES ASSUME NEW u \in Users, NEW a \in Assets
                 PROVE  StakeOf(u, a) = 0 /\ PendingRewards(u, a) = 0
      BY DEF Stakes, Owed, Accounts
    <3>1. <<u, a>> \in Accounts
      BY DEF Accounts
    <3> QED
      BY <3>1 DEF Init, StakeOf, PendingRewards, UnwrapOr
  <2>2. Stakes = [k \in Accounts |-> 0] /\ Owed = [k \in Accounts |-> 0]
    BY <2>1 DEF Stakes, Owed
  <2>3. RewardPool = 0
    BY DEF Init, RewardPool, Settled, StakedOf, Denoms
  <2> QED
    BY <2>2, <2>3 DEF RA!Init
<1>2. LedgerInv /\ LedgerInv' /\ Solvent' /\ [Next]_vars => [RA!Next]_RA!vars
  BY StepRefines, NextKeepsRates DEF LedgerInv
<1> QED
  BY <1>1, <1>2, LedgerInvariant, HubSolvent, PTL DEF Safety, ImplementsRewardAccounts, RA!Spec
=============================================================================
