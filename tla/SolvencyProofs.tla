--------------------------- MODULE SolvencyProofs ---------------------------
(***************************************************************************)
(* Proof that the hub is solvent, for all values of its constants.         *)
(*                                                                         *)
(* The rewards a query promises are rounded down, so they are not what the *)
(* steps conserve.  The inductive invariant is about the exact debt, which *)
(* is counted in fractions: unclaimed rewards in whole units, and a gain   *)
(* of the rate times a stake.  No message of a user raises the debt by     *)
(* more than what stays in the pool, and an update adds no more debt than  *)
(* rewards to the pool.                                                    *)
(***************************************************************************)
EXTENDS AllianceHubProofs

SolvencyInv ==
  /\ \A a \in Assets : Settled[a] >= totalBalances[a]
  /\ \A d \in Denoms : holdings[d] >= Settled[d]
  /\ SumOver(Debt, Accounts) <= RewardPool * DecimalFractional

SurplusKept == Surplus' >= Surplus

(* Less than one reward is forfeited.                                      *)
FractionForfeited == Surplus' - Surplus < DecimalFractional
-----------------------------------------------------------------------------
(* Arithmetic.                                                             *)

LEMMA DivMul ==
  ASSUME NEW m \in Nat, NEW n \in Nat, n > 0
  PROVE  (m \div n) * n <= m
OBVIOUS

LEMMA MulDiv ==
  ASSUME NEW m \in Nat, NEW n \in Nat, n > 0
  PROVE  (m * n) \div n = m
OBVIOUS

LEMMA DivRemainder ==
  ASSUME NEW m \in Nat, NEW n \in Nat, n > 0
  PROVE  (m \div n) \in Nat /\ m < (m \div n) * n + n
OBVIOUS

LEMMA MulMonotonic ==
  ASSUME NEW k \in Nat, NEW m \in Int, NEW n \in Int, m <= n
  PROVE  k * m <= k * n
OBVIOUS

LEMMA MulCancel ==
  ASSUME NEW k \in Nat, k > 0, NEW m \in Int, NEW n \in Int, m * k <= n * k
  PROVE  m <= n
OBVIOUS

-----------------------------------------------------------------------------
(* Debts.                                                                  *)

LEMMA AccountsFinite == IsFiniteSet(Accounts)
BY FiniteSetsAssumption, FS_Product DEF Accounts

(* What of an account's state its debt depends on.                         *)
LEMMA AccountType ==
  ASSUME TypeOK, UserRateNeverAhead, NEW u \in Users, NEW a \in Assets
  PROVE  /\ unclaimedRewards[<<u, a>>] \in Nat
         /\ balances[<<u, a>>] \in Nat \cup {NotFound}
         /\ userAssetRewardRate[<<u, a>>] # NotFound => RateGain(u, a) \in Nat
         /\ userAssetRewardRate[<<u, a>>] # NotFound /\ balances[<<u, a>>] # NotFound =>
              RateGain(u, a) * balances[<<u, a>>] \in Nat
<1>1. <<u, a>> \in Accounts
  BY DEF Accounts
<1>2. unclaimedRewards[<<u, a>>] \in Nat /\ balances[<<u, a>>] \in Nat \cup {NotFound}
  BY <1>1 DEF TypeOK
<1>3. userAssetRewardRate[<<u, a>>] # NotFound => RateGain(u, a) \in Nat
  BY <1>1 DEF TypeOK, UserRateNeverAhead, RateGain
<1>4. userAssetRewardRate[<<u, a>>] # NotFound /\ balances[<<u, a>>] # NotFound =>
        RateGain(u, a) * balances[<<u, a>>] \in Nat
  BY <1>2, <1>3, ProductNat
<1> QED
  BY <1>2, <1>3, <1>4

LEMMA DebtType ==
  ASSUME TypeOK, UserRateNeverAhead, NEW u \in Users, NEW a \in Assets
  PROVE  DebtTo(u, a) \in Nat /\ unclaimedRewards[<<u, a>>] * DecimalFractional \in Nat
<1>1. unclaimedRewards[<<u, a>>] * DecimalFractional \in Nat
  BY AccountType, ProductNat, DecimalFractionalAssumption
<1> QED
  BY <1>1, AccountType DEF DebtTo

LEMMA DebtsType ==
  TypeOK /\ UserRateNeverAhead => \A k \in Accounts : Debt[k] \in Nat
<1> SUFFICES ASSUME TypeOK, UserRateNeverAhead, NEW u \in Users, NEW a \in Assets
             PROVE  DebtTo(u, a) \in Nat
  BY DEF Debt, Accounts
<1> QED
  BY DebtType

LEMMA DebtsTypeNext ==
  TypeOK' /\ UserRateNeverAhead' => \A k \in Accounts : Debt'[k] \in Nat
<1>1. (TypeOK /\ UserRateNeverAhead => \A k \in Accounts : Debt[k] \in Nat)'
  BY DebtsType, PTL
<1> QED
  BY <1>1

(* A claim pays no more than the gain it is for, and rounds off less than  *)
(* a reward.                                                               *)
LEMMA ClaimCovered ==
  ASSUME TypeOK, UserRateNeverAhead, NEW u \in Users, NEW a \in Assets,
         ClaimRewardOk(u, a), userAssetRewardRate[<<u, a>>] # NotFound
  PROVE  /\ balances[<<u, a>>] \in Nat /\ RateGain(u, a) \in Nat
         /\ ClaimedReward(u, a) * DecimalFractional <= RateGain(u, a) * balances[<<u, a>>]
         /\ RateGain(u, a) * balances[<<u, a>>]
              < ClaimedReward(u, a) * DecimalFractional + DecimalFractional
<1> DEFINE gain == RateGain(u, a)
           staked == balances[<<u, a>>]
<1>1. gain \in Nat /\ staked \in Nat /\ gain * staked \in Nat
  BY AccountType DEF ClaimRewardOk
<1>2. DecimalFractional \in Nat /\ DecimalFractional > 0
  BY DecimalFractionalAssumption
<1>3. ClaimedReward(u, a) =
        ((gain * (staked * DecimalFractional)) \div DecimalFractional) \div DecimalFractional
  BY DEF ClaimedReward, ToUintFloor, DecimalMul, FromAtomics
<1> HIDE DEF gain, staked
<1>4. gain * (staked * DecimalFractional) = (gain * staked) * DecimalFractional
  BY <1>1, <1>2
<1>5. ((gain * staked) * DecimalFractional) \div DecimalFractional = gain * staked
  BY <1>1, <1>2, MulDiv
<1>6. /\ ((gain * staked) \div DecimalFractional) * DecimalFractional <= gain * staked
      /\ gain * staked < ((gain * staked) \div DecimalFractional) * DecimalFractional
                           + DecimalFractional
  BY <1>1, <1>2, DivMul, DivRemainder
<1>7. /\ ClaimedReward(u, a) * DecimalFractional <= gain * staked
      /\ gain * staked < ClaimedReward(u, a) * DecimalFractional + DecimalFractional
  BY <1>3, <1>4, <1>5, <1>6
<1> QED
  BY <1>1, <1>7 DEF gain, staked

(* The pending rewards query promises no more than the debt.               *)
LEMMA PendingCovered ==
  ASSUME TypeOK, UserRateNeverAhead, NEW u \in Users, NEW a \in Assets
  PROVE  /\ PendingRewards(u, a) \in Nat
         /\ DecimalFractional * PendingRewards(u, a) <= DebtTo(u, a)
<1> DEFINE unclaimed == unclaimedRewards[<<u, a>>]
           gained == RateGain(u, a) * balances[<<u, a>>]
<1>1. DecimalFractional \in Nat /\ DecimalFractional > 0 /\ unclaimed \in Nat
  BY DecimalFractionalAssumption, AccountType
<1>2. CASE userAssetRewardRate[<<u, a>>] = NotFound \/ balances[<<u, a>>] = NotFound
  BY <1>1, <1>2 DEF PendingRewards, DebtTo
<1>3. CASE ~(userAssetRewardRate[<<u, a>>] = NotFound \/ balances[<<u, a>>] = NotFound)
  <2>1. gained \in Nat
    BY <1>3, AccountType
  <2>2. /\ PendingRewards(u, a) = unclaimed + (gained \div DecimalFractional)
        /\ DebtTo(u, a) = unclaimed * DecimalFractional + gained
    BY <1>3 DEF PendingRewards, DebtTo, MulUint
  <2> HIDE DEF unclaimed, gained
  <2>3. /\ gained \div DecimalFractional \in Nat
        /\ (gained \div DecimalFractional) * DecimalFractional <= gained
    BY <1>1, <2>1, DivNat, DivMul
  <2> DEFINE q == gained \div DecimalFractional
  <2> HIDE DEF q
  <2>4. DecimalFractional * (unclaimed + q) = DecimalFractional * unclaimed + DecimalFractional * q
    BY <1>1, <2>3, Distributes DEF q
  <2>5. /\ DecimalFractional * q = q * DecimalFractional
        /\ DecimalFractional * unclaimed = unclaimed * DecimalFractional
        /\ q * DecimalFractional \in Nat /\ unclaimed * DecimalFractional \in Nat
    BY <1>1, <2>3, ProductNat DEF q
  <2>6. unclaimed * DecimalFractional + q * DecimalFractional
          <= unclaimed * DecimalFractional + gained
    BY <2>1, <2>3, <2>5 DEF q
  <2>7. unclaimed + q \in Nat
    BY <1>1, <2>3 DEF q
  <2> QED
    BY <2>2, <2>4, <2>5, <2>6, <2>7 DEF q
<1> QED
  BY <1>2, <1>3

LEMMA PoolType ==
  ASSUME TypeOK
  PROVE  /\ Settled \in [Denoms -> Nat]
         /\ StakedOf(RewardDenom) \in Nat
         /\ RewardPool = Settled[RewardDenom] - StakedOf(RewardDenom)
         /\ RewardPool \in Int
<1>1. Settled \in [Denoms -> Nat]
  BY DEF TypeOK, Settled, Transaction
<1>2. StakedOf(RewardDenom) \in Nat
  BY DEF TypeOK, StakedOf
<1> QED
  BY <1>1, <1>2 DEF RewardPool, Settled, Denoms

LEMMA SolventWhenCovered ==
  ASSUME TypeOK, UserRateNeverAhead, SolvencyInv
  PROVE  Solvent
<1>1. DecimalFractional \in Nat /\ DecimalFractional > 0
  BY DecimalFractionalAssumption
<1> DEFINE scaled == [k \in Accounts |-> DecimalFractional * Owed[k]]
<1>2. \A k \in Accounts : Owed[k] \in Nat /\ scaled[k] <= Debt[k]
  <2> SUFFICES ASSUME NEW k \in Accounts
               PROVE  Owed[k] \in Nat /\ scaled[k] <= Debt[k]
    OBVIOUS
  <2>1. k[1] \in Users /\ k[2] \in Assets
    BY DEF Accounts
  <2>2. Owed[k] = PendingRewards(k[1], k[2]) /\ Debt[k] = DebtTo(k[1], k[2])
    BY DEF Owed, Debt
  <2> QED
    BY <2>1, <2>2, PendingCovered
<1>3. \A k \in Accounts : /\ Owed[k] \in Int /\ Debt[k] \in Int
                          /\ scaled[k] = DecimalFractional * Owed[k] /\ scaled[k] \in Int
  BY <1>1, <1>2, DebtsType
<1> HIDE DEF scaled
<1>4. SumOver(scaled, Accounts) <= SumOver(Debt, Accounts)
  BY <1>2, <1>3, AccountsFinite, SumMonotonic
<1>5. SumOver(scaled, Accounts) = DecimalFractional * SumOver(Owed, Accounts)
  BY <1>1, <1>3, AccountsFinite, SumScale
<1>6. SumOver(Owed, Accounts) \in Nat /\ SumOver(Debt, Accounts) \in Nat
  BY <1>2, AccountsFinite, SumNat, DebtsType
<1>7. RewardPool \in Int
  BY PoolType
<1>8. SumOver(Owed, Accounts) * DecimalFractional <= RewardPool * DecimalFractional
  <2> DEFINE owed == SumOver(Owed, Accounts)
             debt == SumOver(Debt, Accounts)
  <2>1. DecimalFractional * owed <= debt /\ debt <= RewardPool * DecimalFractional
    BY <1>4, <1>5 DEF SolvencyInv
  <2>2. owed \in Nat /\ debt \in Nat
    BY <1>6
  <2> HIDE DEF owed, debt
  <2>3. DecimalFractional * owed = owed * DecimalFractional
        /\ owed * DecimalFractional \in Int /\ RewardPool * DecimalFractional \in Int
    BY <1>1, <1>7, <2>2
  <2>4. owed * DecimalFractional <= RewardPool * DecimalFractional
    BY <2>1, <2>2, <2>3
  <2> QED
    BY <2>4 DEF owed
<1>9. SumOver(Owed, Accounts) <= RewardPool
  BY <1>1, <1>6, <1>7, <1>8, MulCancel
<1>10. \A d \in Denoms : holdings[d] \in Nat /\ Settled[d] \in Nat /\ holdings[d] >= Settled[d]
  BY PoolType DEF SolvencyInv, TypeOK
<1>11. holdings[RewardDenom] >= StakedOf(RewardDenom) + SumOver(Owed, Accounts)
  BY <1>6, <1>7, <1>9, <1>10, PoolType DEF Denoms
<1>12. \A a \in Assets : holdings[a] >= totalBalances[a]
  BY <1>10 DEF SolvencyInv, TypeOK, Denoms
<1> QED
  BY <1>11, <1>12 DEF Solvent
-----------------------------------------------------------------------------
(* Messages of users.                                                      *)

(* A step settles the account of u and a: the pool pays what the debt to   *)
(* that account falls by, but for a fraction of a reward.                  *)
Settles(u, a, paid) ==
  /\ \A k \in Accounts \ {<<u, a>>} : Debt'[k] = Debt[k]
  /\ DebtTo(u, a)' + paid * DecimalFractional <= DebtTo(u, a)
  /\ DebtTo(u, a) < DebtTo(u, a)' + paid * DecimalFractional + DecimalFractional
  /\ RewardPool' = RewardPool - paid

LEMMA SettledDebtsCovered ==
  ASSUME TypeOK, TypeOK', UserRateNeverAhead, UserRateNeverAhead', SolvencyInv,
         NEW u \in Users, NEW a \in Assets, NEW paid \in Nat, Settles(u, a, paid)
  PROVE  /\ SumOver(Debt', Accounts) <= RewardPool' * DecimalFractional
         /\ SurplusKept /\ FractionForfeited
<1> DEFINE k == <<u, a>>
           before == SumOver(Debt, Accounts)
           after == SumOver(Debt', Accounts)
<1>1. k \in Accounts /\ Debt[k] = DebtTo(u, a) /\ Debt'[k] = DebtTo(u, a)'
  BY DEF Debt, Accounts
<1>2. /\ \A j \in Accounts : Debt[j] \in Int
      /\ Debt[k] \in Nat /\ Debt'[k] \in Nat
  BY <1>1, DebtsType, DebtsTypeNext
<1>3. after = before + (Debt'[k] - Debt[k])
  <2>1. \A j \in Accounts \ {k} : Debt'[j] = Debt[j]
    BY DEF Settles
  <2>2. Debt'[k] \in Int
    BY <1>2
  <2> HIDE DEF k
  <2>3. SumOver(Debt', Accounts) = SumOver(Debt, Accounts) + (Debt'[k] - Debt[k])
    BY <1>1, <1>2, <2>1, <2>2, AccountsFinite, SumUpdate
  <2> QED
    BY <2>3
<1>4. before \in Nat /\ before <= RewardPool * DecimalFractional
  BY AccountsFinite, SumNat, DebtsType DEF SolvencyInv
<1>5. RewardPool \in Int /\ RewardPool' = RewardPool - paid
  BY PoolType DEF Settles
<1>6. /\ Debt'[k] + paid * DecimalFractional <= Debt[k]
      /\ Debt[k] < Debt'[k] + paid * DecimalFractional + DecimalFractional
  BY <1>1 DEF Settles
<1> HIDE DEF k, before, after
<1>7. (RewardPool - paid) * DecimalFractional
        = RewardPool * DecimalFractional - paid * DecimalFractional
  BY <1>5, DecimalFractionalAssumption
<1>8. paid * DecimalFractional \in Nat /\ RewardPool * DecimalFractional \in Int
  BY <1>5, DecimalFractionalAssumption
<1>9. after <= (RewardPool - paid) * DecimalFractional
  BY <1>2, <1>3, <1>4, <1>6, <1>7, <1>8
<1>10. (RewardPool - paid) * DecimalFractional - after >= RewardPool * DecimalFractional - before
  BY <1>2, <1>3, <1>4, <1>6, <1>7, <1>8
<1>11. ((RewardPool - paid) * DecimalFractional - after)
         - (RewardPool * DecimalFractional - before) < DecimalFractional
  BY <1>2, <1>3, <1>4, <1>6, <1>7, <1>8, DecimalFractionalAssumption
<1> QED
  BY <1>5, <1>9, <1>10, <1>11
  DEF before, after, Surplus, SurplusKept, FractionForfeited

(* A claim is moved from the gain to the unclaimed rewards, or to the user *)
(* who stakes, unstakes or claims, and never grows on the way.             *)
LEMMA ClaimSettles ==
  ASSUME TypeOK, TypeOK', UserRateNeverAhead, UserRateNeverAhead',
         NEW u \in Users, NEW a \in Assets, ClaimRewardOk(u, a),
         UNCHANGED assetRewardRate,
         \/ userAssetRewardRate'[<<u, a>>] = assetRewardRate[a]
         \/ /\ userAssetRewardRate'[<<u, a>>] = RateAfterClaim(u, a)
            /\ balances[<<u, a>>] # NotFound =>
                 /\ balances'[<<u, a>>] # NotFound
                 /\ balances'[<<u, a>>] <= balances[<<u, a>>]
  PROVE  LET moved == (ClaimedReward(u, a) + unclaimedRewards[<<u, a>>]) * DecimalFractional
             kept == unclaimedRewards'[<<u, a>>] * DecimalFractional
         IN  /\ DebtTo(u, a)' + moved <= DebtTo(u, a) + kept
             /\ DebtTo(u, a) + kept < DebtTo(u, a)' + moved + DecimalFractional
<1> DEFINE DF == DecimalFractional
           unclaimed == unclaimedRewards[<<u, a>>]
           gained == RateGain(u, a) * balances[<<u, a>>]
           claimed == ClaimedReward(u, a)
<1>1. /\ DF \in Nat /\ DF > 0 /\ unclaimed \in Nat /\ claimed \in Nat
      /\ unclaimedRewards'[<<u, a>>] \in Nat
  BY DecimalFractionalAssumption, AccountType, ClaimedRewardType DEF TypeOK, Accounts
<1>2. /\ (claimed + unclaimed) * DF = claimed * DF + unclaimed * DF
      /\ claimed * DF \in Nat /\ unclaimed * DF \in Nat
      /\ unclaimedRewards'[<<u, a>>] * DF \in Nat
  <2> HIDE DEF DF, claimed, unclaimed
  <2>1. (claimed + unclaimed) * DF = DF * claimed + DF * unclaimed
    BY <1>1, Distributes
  <2> QED
    BY <1>1, <2>1, ProductNat
<1>3. userAssetRewardRate[<<u, a>>] = NotFound => claimed = 0 /\ DebtTo(u, a) = unclaimed * DF
  <2>1. unclaimed * DF \in Nat
    BY <1>2
  <2> QED
    BY <2>1 DEF ClaimedReward, DebtTo
<1>4. userAssetRewardRate[<<u, a>>] # NotFound =>
        /\ gained \in Nat /\ claimed * DF <= gained /\ gained < claimed * DF + DF
        /\ DebtTo(u, a) = unclaimed * DF + gained
  BY ClaimCovered, AccountType DEF DebtTo, ClaimRewardOk
<1>5. /\ claimed * DF + unclaimed * DF <= DebtTo(u, a)
      /\ DebtTo(u, a) < claimed * DF + unclaimed * DF + DF
  <2> DEFINE out == claimed * DF
             aside == unclaimed * DF
  <2>1. out \in Nat /\ aside \in Nat
    BY <1>2
  <2>2. CASE userAssetRewardRate[<<u, a>>] = NotFound
    <3>1. out = 0
      BY <1>1, <1>3, <2>2
    <3>2. DebtTo(u, a) = aside
      BY <1>3, <2>2
    <3> HIDE DEF DF, out, aside
    <3>3. out + aside <= DebtTo(u, a) /\ DebtTo(u, a) < out + aside + DF
      BY <1>1, <2>1, <3>1, <3>2
    <3> QED
      BY <3>3 DEF out, aside
  <2>3. CASE userAssetRewardRate[<<u, a>>] # NotFound
    <3>1. /\ gained \in Nat /\ out <= gained /\ gained < out + DF
          /\ DebtTo(u, a) = aside + gained
      BY <1>4, <2>3
    <3> HIDE DEF DF, out, aside, gained
    <3>2. out + aside <= DebtTo(u, a) /\ DebtTo(u, a) < out + aside + DF
      BY <1>1, <2>1, <3>1
    <3> QED
      BY <3>2 DEF out, aside
  <2> QED
    BY <2>2, <2>3
<1>6. CASE userAssetRewardRate'[<<u, a>>] = assetRewardRate[a]
  <2>1. assetRewardRate[a] \in Nat
    BY ClaimedRewardType
  <2>2. RateGain(u, a)' = 0
    BY <1>6, <2>1 DEF RateGain
  <2>3. balances'[<<u, a>>] # NotFound => RateGain(u, a)' * balances'[<<u, a>>] = 0
    BY <2>2, AccountType DEF TypeOK, Accounts
  <2>4. DebtTo(u, a)' = unclaimedRewards'[<<u, a>>] * DF
    BY <1>2, <2>3 DEF DebtTo
  <2>5. DebtTo(u, a) \in Nat
    BY DebtType
  <2> HIDE DEF DF, claimed, unclaimed, gained
  <2>6. /\ unclaimedRewards'[<<u, a>>] * DF + (claimed + unclaimed) * DF
             <= DebtTo(u, a) + unclaimedRewards'[<<u, a>>] * DF
        /\ DebtTo(u, a) + unclaimedRewards'[<<u, a>>] * DF
             < unclaimedRewards'[<<u, a>>] * DF + (claimed + unclaimed) * DF + DF
    BY <1>1, <1>2, <1>5, <2>5
  <2> QED
    BY <2>4, <2>6 DEF DF, claimed, unclaimed
<1>7. CASE userAssetRewardRate'[<<u, a>>] # assetRewardRate[a]
  <2>1. /\ userAssetRewardRate'[<<u, a>>] = userAssetRewardRate[<<u, a>>]
        /\ userAssetRewardRate[<<u, a>>] # NotFound
        /\ ~(claimed > 0)
    BY <1>7 DEF RateAfterClaim
  <2>2. claimed = 0
    BY <1>1, <2>1
  <2>3. /\ balances[<<u, a>>] \in Nat /\ balances'[<<u, a>>] \in Nat
        /\ balances'[<<u, a>>] <= balances[<<u, a>>] /\ balances'[<<u, a>>] # NotFound
        /\ RateGain(u, a) \in Nat
    <3>1. balances[<<u, a>>] # NotFound
      BY <2>1 DEF ClaimRewardOk
    <3>2. /\ balances[<<u, a>>] \in Nat \cup {NotFound}
          /\ balances'[<<u, a>>] \in Nat \cup {NotFound}
      BY DEF TypeOK, Accounts
    <3> QED
      BY <1>7, <2>1, <3>1, <3>2, AccountType
  <2>4. RateGain(u, a)' = RateGain(u, a)
    BY <2>1 DEF RateGain
  <2> DEFINE left == RateGain(u, a) * balances'[<<u, a>>]
  <2>5. left \in Nat /\ gained \in Nat /\ left <= gained
    BY <2>3, ProductNat, MulMonotonic
  <2>6. DebtTo(u, a)' = unclaimedRewards'[<<u, a>>] * DF + left
    BY <2>1, <2>3, <2>4 DEF DebtTo
  <2>7. DebtTo(u, a) = unclaimed * DF + gained /\ gained < DF
    <3> HIDE DEF DF, claimed, unclaimed, gained
    <3>1. claimed * DF = 0
      BY <1>1, <2>2
    <3> QED
      BY <1>1, <1>4, <2>1, <2>5, <3>1
  <2>8. (claimed + unclaimed) * DF = unclaimed * DF
    BY <1>1, <2>2
  <2> HIDE DEF DF, claimed, unclaimed, gained, left
  <2>9. /\ DebtTo(u, a)' + (claimed + unclaimed) * DF
             <= DebtTo(u, a) + unclaimedRewards'[<<u, a>>] * DF
        /\ DebtTo(u, a) + unclaimedRewards'[<<u, a>>] * DF
             < DebtTo(u, a)' + (claimed + unclaimed) * DF + DF
    BY <1>1, <1>2, <2>5, <2>6, <2>7, <2>8
  <2> QED
    BY <2>9 DEF DF, claimed, unclaimed
<1> QED
  BY <1>6, <1>7

(* What a message of a user does to the pool and the debts.                *)
UserStepKeeps ==
  /\ SurplusKept /\ FractionForfeited /\ RewardPool' <= RewardPool
  /\ \A k \in Accounts : Debt'[k] <= Debt[k]

(* A step of a user keeps the hub solvent if it settles the account and    *)
(* leaves the stakes of every other denom covered.                         *)
LEMMA SettlingStep ==
  ASSUME TypeOK, TypeOK', UserRateNeverAhead, UserRateNeverAhead', SolvencyInv,
         Idle, UNCHANGED tx,
         NEW u \in Users, NEW a \in Assets, NEW paid \in Nat, Settles(u, a, paid),
         \A b \in Assets \ {RewardDenom} : holdings'[b] >= totalBalances'[b]
  PROVE  SolvencyInv' /\ UserStepKeeps
<1>1. Settled' = holdings' /\ \A d \in Denoms : holdings'[d] \in Nat
  BY DEF Idle, Settled, TypeOK
<1>2. /\ SumOver(Debt', Accounts) <= RewardPool' * DecimalFractional
      /\ SurplusKept /\ FractionForfeited
  BY SettledDebtsCovered
<1>3. SumOver(Debt', Accounts) \in Nat
  BY AccountsFinite, DebtsTypeNext, SumNat
<1>4. ASSUME RewardDenom \in Assets
      PROVE  holdings'[RewardDenom] >= totalBalances'[RewardDenom]
  <2>1. holdings'[RewardDenom] \in Nat /\ totalBalances'[RewardDenom] \in Nat
    BY <1>1, <1>4 DEF TypeOK, Denoms
  <2>2. RewardPool' = holdings'[RewardDenom] - totalBalances'[RewardDenom]
    BY <1>1, <1>4 DEF RewardPool, StakedOf, Settled
  <2>3. RewardPool' \in Int /\ 0 * DecimalFractional <= RewardPool' * DecimalFractional
    BY <1>2, <1>3, <2>1, <2>2, DecimalFractionalAssumption
  <2>4. 0 <= RewardPool'
    <3> DEFINE pool == RewardPool'
    <3>1. DecimalFractional \in Nat /\ DecimalFractional > 0
      BY DecimalFractionalAssumption
    <3>2. pool \in Int /\ 0 * DecimalFractional <= pool * DecimalFractional
      BY <2>3
    <3> HIDE DEF pool
    <3>3. 0 <= pool
      BY <3>1, <3>2, MulCancel
    <3> QED
      BY <3>3 DEF pool
  <2> QED
    BY <2>1, <2>2, <2>4
<1>5. \A b \in Assets : holdings'[b] >= totalBalances'[b]
  BY <1>4
<1>6. RewardPool' <= RewardPool
  BY PoolType DEF Settles
<1>7. ASSUME NEW k \in Accounts
      PROVE  Debt'[k] <= Debt[k]
  <2>1. Debt[k] \in Nat /\ Debt'[k] \in Nat
    BY DebtsType, DebtsTypeNext
  <2>2. CASE k = <<u, a>>
    <3>1. Debt[k] = DebtTo(u, a) /\ Debt'[k] = DebtTo(u, a)'
      BY <2>2 DEF Debt
    <3>2. paid * DecimalFractional \in Nat
      BY ProductNat, DecimalFractionalAssumption
    <3> QED
      BY <2>1, <3>1, <3>2 DEF Settles
  <2>3. CASE k # <<u, a>>
    BY <2>1, <2>3 DEF Settles
  <2> QED
    BY <2>2, <2>3
<1> QED
  BY <1>1, <1>2, <1>5, <1>6, <1>7 DEF SolvencyInv, UserStepKeeps

LEMMA OtherDebtsKept ==
  ASSUME NEW k \in Accounts, UNCHANGED assetRewardRate,
         \A j \in Accounts \ {k} :
           /\ unclaimedRewards'[j] = unclaimedRewards[j]
           /\ balances'[j] = balances[j]
           /\ userAssetRewardRate'[j] = userAssetRewardRate[j]
  PROVE  \A j \in Accounts \ {k} : Debt'[j] = Debt[j]
<1> SUFFICES ASSUME NEW j \in Accounts \ {k}
             PROVE  Debt'[j] = Debt[j]
  OBVIOUS
<1>1. PICK u \in Users, a \in Assets : j = <<u, a>>
  BY DEF Accounts
<1>2. DebtTo(u, a)' = DebtTo(u, a)
  BY <1>1 DEF DebtTo, RateGain
<1>3. Debt[j] = DebtTo(u, a) /\ Debt'[j] = DebtTo(u, a)'
  BY <1>1 DEF Debt
<1> QED
  BY <1>2, <1>3

LEMMA StakeSolvent ==
  ASSUME TypeOK, TypeOK', UserRateNeverAhead, UserRateNeverAhead', SolvencyInv, Idle,
         NEW u \in Users, NEW a \in Assets, NEW n \in Amounts, Stake(u, a, n)
  PROVE  SolvencyInv' /\ UserStepKeeps
<1> DEFINE k == <<u, a>>
<1>1. k \in Accounts /\ ClaimRewardOk(u, a) /\ n \in Nat /\ a \in Denoms
  BY InputsAssumption DEF Accounts, Stake, StakeOk, Denoms
<1>2. /\ UNCHANGED <<assetRewardRate, tx>>
      /\ unclaimedRewards' = [unclaimedRewards EXCEPT ![k] = @ + ClaimedReward(u, a)]
      /\ balances' = [balances EXCEPT ![k] = BalanceAfterStake(u, a, n)]
      /\ userAssetRewardRate' = [userAssetRewardRate EXCEPT ![k] = RateAfterStake(u, a)]
      /\ totalBalances' = [totalBalances EXCEPT ![a] = @ + n]
      /\ holdings' = [holdings EXCEPT ![a] = @ + n]
  BY DEF Stake, SetAsideReward
<1>3. assetRewardRate[a] \in Nat /\ ClaimedReward(u, a) \in Nat /\ unclaimedRewards[k] \in Nat
  BY <1>1, ClaimedRewardType DEF TypeOK
<1>4. /\ unclaimedRewards'[k] = ClaimedReward(u, a) + unclaimedRewards[k]
      /\ userAssetRewardRate'[k] = assetRewardRate[a]
  BY <1>1, <1>2, <1>3, NotFoundAssumption DEF TypeOK, RateAfterStake, UnwrapOr
<1>5. \A j \in Accounts \ {k} : Debt'[j] = Debt[j]
  BY <1>1, <1>2, OtherDebtsKept DEF TypeOK
<1>6. DebtTo(u, a)' <= DebtTo(u, a) /\ DebtTo(u, a) < DebtTo(u, a)' + DecimalFractional
  <2> DEFINE moved == (ClaimedReward(u, a) + unclaimedRewards[k]) * DecimalFractional
  <2>1. moved \in Nat
    BY <1>3, DecimalFractionalAssumption
  <2>2. /\ DebtTo(u, a)' + moved <= DebtTo(u, a) + moved
        /\ DebtTo(u, a) + moved < DebtTo(u, a)' + moved + DecimalFractional
    BY <1>1, <1>2, <1>4, ClaimSettles
  <2>3. DebtTo(u, a) \in Nat /\ DebtTo(u, a)' \in Nat
    BY <1>1, DebtsType, DebtsTypeNext DEF Debt
  <2> HIDE DEF moved
  <2> QED
    BY <2>1, <2>2, <2>3, DecimalFractionalAssumption
<1>7. \A d \in Denoms : /\ holdings[d] \in Nat
                        /\ holdings'[d] = IF d = a THEN holdings[d] + n ELSE holdings[d]
  BY <1>1, <1>2 DEF TypeOK
<1>8. \A b \in Assets : /\ totalBalances[b] \in Nat
                        /\ totalBalances'[b] =
                             IF b = a THEN totalBalances[b] + n ELSE totalBalances[b]
  BY <1>2 DEF TypeOK
<1>9. RewardPool' = RewardPool - 0
  BY <1>1, <1>2, <1>7, <1>8 DEF RewardPool, Settled, StakedOf, Idle, Denoms
<1>10. \A b \in Assets : holdings[b] >= totalBalances[b]
  BY DEF SolvencyInv, Settled, Idle
<1>11. \A b \in Assets : holdings'[b] >= totalBalances'[b]
  BY <1>1, <1>7, <1>8, <1>10 DEF Denoms
<1>12. Settles(u, a, 0)
  <2>1. 0 * DecimalFractional = 0 /\ DebtTo(u, a)' \in Nat
    BY <1>1, DebtsTypeNext, DecimalFractionalAssumption DEF Debt
  <2> QED
    BY <1>5, <1>6, <1>9, <2>1, DecimalFractionalAssumption DEF Settles
<1> QED
  BY <1>2, <1>11, <1>12, SettlingStep

(* The tokens that a cw20 contract sent along are in held.                 *)
LEMMA UnstakeSolvent ==
  ASSUME TypeOK, TypeOK', UserRateNeverAhead, UserRateNeverAhead', SolvencyInv, Idle,
         NEW u \in Users, NEW a \in Assets, NEW n \in Amounts,
         NEW held \in [Denoms -> Nat], Unstake(u, a, n, held),
         \A d \in Denoms : held[d] >= holdings[d],
         held[RewardDenom] = holdings[RewardDenom]
  PROVE  SolvencyInv' /\ UserStepKeeps
<1> DEFINE k == <<u, a>>
<1>1. k \in Accounts /\ ClaimRewardOk(u, a) /\ n \in Nat /\ a \in Denoms
  BY InputsAssumption DEF Accounts, Unstake, UnstakeOk, Denoms
<1>2. /\ UNCHANGED <<assetRewardRate, tx>>
      /\ unclaimedRewards' = [unclaimedRewards EXCEPT ![k] = @ + ClaimedReward(u, a)]
      /\ balances' = [balances EXCEPT ![k] = @ - n]
      /\ userAssetRewardRate' = [userAssetRewardRate EXCEPT ![k] = RateAfterClaim(u, a)]
      /\ totalBalances' = [totalBalances EXCEPT ![a] = @ - n]
      /\ holdings' = [held EXCEPT ![a] = @ - n]
  BY DEF Unstake, SetAsideReward
<1>3. /\ ClaimedReward(u, a) \in Nat /\ unclaimedRewards[k] \in Nat
      /\ balances[k] \in Nat /\ balances[k] >= n
  BY <1>1, ClaimedRewardType DEF TypeOK, Unstake, UnstakeOk, BalanceSuffices
<1>4. /\ unclaimedRewards'[k] = ClaimedReward(u, a) + unclaimedRewards[k]
      /\ userAssetRewardRate'[k] = RateAfterClaim(u, a)
      /\ balances'[k] # NotFound /\ balances'[k] <= balances[k]
  BY <1>1, <1>2, <1>3, NotFoundAssumption DEF TypeOK
<1>5. \A j \in Accounts \ {k} : Debt'[j] = Debt[j]
  BY <1>1, <1>2, OtherDebtsKept DEF TypeOK
<1>6. DebtTo(u, a)' <= DebtTo(u, a) /\ DebtTo(u, a) < DebtTo(u, a)' + DecimalFractional
  <2> DEFINE moved == (ClaimedReward(u, a) + unclaimedRewards[k]) * DecimalFractional
  <2>1. moved \in Nat
    BY <1>3, DecimalFractionalAssumption
  <2>2. /\ DebtTo(u, a)' + moved <= DebtTo(u, a) + moved
        /\ DebtTo(u, a) + moved < DebtTo(u, a)' + moved + DecimalFractional
    BY <1>1, <1>2, <1>4, ClaimSettles
  <2>3. DebtTo(u, a) \in Nat /\ DebtTo(u, a)' \in Nat
    BY <1>1, DebtsType, DebtsTypeNext DEF Debt
  <2> HIDE DEF moved
  <2> QED
    BY <2>1, <2>2, <2>3, DecimalFractionalAssumption
<1>7. \A d \in Denoms : /\ holdings[d] \in Nat /\ held[d] \in Nat /\ held[d] >= holdings[d]
                        /\ holdings'[d] = IF d = a THEN held[d] - n ELSE held[d]
  BY <1>1, <1>2 DEF TypeOK
<1>8. \A b \in Assets : /\ totalBalances[b] \in Nat
                        /\ totalBalances'[b] =
                             IF b = a THEN totalBalances[b] - n ELSE totalBalances[b]
  BY <1>2 DEF TypeOK
<1>9. RewardPool' = RewardPool - 0
  BY <1>1, <1>2, <1>7, <1>8 DEF RewardPool, Settled, StakedOf, Idle, Denoms
<1>10. \A b \in Assets : holdings[b] >= totalBalances[b]
  BY DEF SolvencyInv, Settled, Idle
<1>11. \A b \in Assets : holdings'[b] >= totalBalances'[b]
  BY <1>1, <1>7, <1>8, <1>10 DEF Denoms
<1>12. Settles(u, a, 0)
  <2>1. 0 * DecimalFractional = 0 /\ DebtTo(u, a)' \in Nat
    BY <1>1, DebtsTypeNext, DecimalFractionalAssumption DEF Debt
  <2> QED
    BY <1>5, <1>6, <1>9, <2>1, DecimalFractionalAssumption DEF Settles
<1> QED
  BY <1>2, <1>11, <1>12, SettlingStep

LEMMA ClaimRewardsSolvent ==
  ASSUME TypeOK, TypeOK', UserRateNeverAhead, UserRateNeverAhead', SolvencyInv,
         NEW u \in Users, NEW a \in Assets, ClaimRewards(u, a)
  PROVE  SolvencyInv' /\ UserStepKeeps
<1> DEFINE k == <<u, a>>
           paid == ClaimedReward(u, a) + unclaimedRewards[k]
<1>1. k \in Accounts /\ ClaimRewardOk(u, a) /\ Idle
  BY DEF Accounts, ClaimRewards, ClaimRewardsOk
<1>2. /\ UNCHANGED <<assetRewardRate, tx, balances, totalBalances>>
      /\ unclaimedRewards' = [unclaimedRewards EXCEPT ![k] = 0]
      /\ userAssetRewardRate' = [userAssetRewardRate EXCEPT ![k] = RateAfterClaim(u, a)]
      /\ holdings' = [holdings EXCEPT ![RewardDenom] = @ - paid]
  BY DEF ClaimRewards
<1>3. ClaimedReward(u, a) \in Nat /\ unclaimedRewards[k] \in Nat /\ paid \in Nat
  BY <1>1, ClaimedRewardType DEF TypeOK
<1>4. /\ unclaimedRewards'[k] = 0
      /\ userAssetRewardRate'[k] = RateAfterClaim(u, a)
      /\ balances[k] # NotFound => balances'[k] # NotFound /\ balances'[k] <= balances[k]
  BY <1>1, <1>2 DEF TypeOK
<1>5. \A j \in Accounts \ {k} : Debt'[j] = Debt[j]
  BY <1>1, <1>2, OtherDebtsKept DEF TypeOK
<1>6. /\ DebtTo(u, a)' + paid * DecimalFractional <= DebtTo(u, a)
      /\ DebtTo(u, a) < DebtTo(u, a)' + paid * DecimalFractional + DecimalFractional
  <2> DEFINE kept == unclaimedRewards'[k] * DecimalFractional
  <2>1. /\ DebtTo(u, a)' + paid * DecimalFractional <= DebtTo(u, a) + kept
        /\ DebtTo(u, a) + kept < DebtTo(u, a)' + paid * DecimalFractional + DecimalFractional
    BY <1>1, <1>2, <1>4, ClaimSettles
  <2>2. kept = 0 /\ DebtTo(u, a) \in Nat
    BY <1>1, <1>4, DebtsType, DecimalFractionalAssumption DEF Debt
  <2> HIDE DEF paid, kept
  <2> QED
    BY <2>1, <2>2
<1>7. \A d \in Denoms : /\ holdings[d] \in Nat
                        /\ d # RewardDenom => holdings'[d] = holdings[d]
  BY <1>2 DEF TypeOK
<1>8. holdings'[RewardDenom] = holdings[RewardDenom] - paid /\ holdings[RewardDenom] \in Nat
  BY <1>2 DEF TypeOK, Denoms
<1>9. RewardPool' = RewardPool - paid
  <2>1. StakedOf(RewardDenom) \in Nat /\ StakedOf(RewardDenom)' = StakedOf(RewardDenom)
    BY <1>2, PoolType DEF StakedOf
  <2>2. /\ RewardPool = holdings[RewardDenom] - StakedOf(RewardDenom)
        /\ RewardPool' = holdings'[RewardDenom] - StakedOf(RewardDenom)
    BY <1>1, <1>2, <2>1 DEF RewardPool, Settled, Idle
  <2> HIDE DEF paid
  <2> QED
    BY <1>3, <1>8, <2>1, <2>2
<1>10. \A b \in Assets \ {RewardDenom} : holdings'[b] >= totalBalances'[b]
  <2>1. \A b \in Assets : holdings[b] >= totalBalances[b]
    BY <1>1 DEF SolvencyInv, Settled, Idle
  <2> QED
    BY <1>2, <1>7, <2>1 DEF Denoms
<1>11. Settles(u, a, paid)
  BY <1>5, <1>6, <1>9 DEF Settles
<1> HIDE DEF paid
<1> QED
  BY <1>1, <1>2, <1>3, <1>10, <1>11, SettlingStep

LEMMA UserStepSolvent ==
  ASSUME TypeOK, TypeOK', UserRateNeverAhead, UserRateNeverAhead', SolvencyInv, UserStep
  PROVE  SolvencyInv' /\ UserStepKeeps
<1>1. ASSUME NEW u \in Users, NEW a \in Assets, NEW n \in Amounts,
             ExecuteStake(u, a, n) \/ ReceiveStake(u, a, n)
      PROVE  SolvencyInv' /\ UserStepKeeps
  BY <1>1, StakeSolvent DEF ExecuteStake, ReceiveStake
<1>2. ASSUME NEW u \in Users, NEW a \in Assets, NEW n \in Amounts, ExecuteUnstake(u, a, n)
      PROVE  SolvencyInv' /\ UserStepKeeps
  <2>1. /\ holdings \in [Denoms -> Nat]
        /\ \A d \in Denoms : holdings[d] >= holdings[d]
    BY DEF TypeOK
  <2> QED
    BY <1>2, <2>1, UnstakeSolvent DEF ExecuteUnstake
<1>3. ASSUME NEW u \in Users, NEW a \in Assets, NEW c \in Cw20Assets,
             NEW n \in Amounts, NEW tokens \in Amounts, ReceiveUnstake(c, u, tokens, a, n)
      PROVE  SolvencyInv' /\ UserStepKeeps
  <2> DEFINE held == [holdings EXCEPT ![c] = @ + tokens]
  <2>1. c \in Users /\ c \in Denoms /\ c # RewardDenom /\ tokens \in Nat
    BY FiniteSetsAssumption, InputsAssumption DEF Denoms
  <2>2. /\ held \in [Denoms -> Nat]
        /\ \A d \in Denoms : held[d] >= holdings[d]
        /\ held[RewardDenom] = holdings[RewardDenom]
    BY <2>1 DEF TypeOK, Denoms
  <2>3. Idle /\ Unstake(c, a, n, held)
    BY <1>3 DEF ReceiveUnstake, HookUnstaker
  <2> HIDE DEF held
  <2> QED
    BY <2>1, <2>2, <2>3, UnstakeSolvent
<1> QED
  BY <1>1, <1>2, <1>3, ClaimRewardsSolvent DEF UserStep
-----------------------------------------------------------------------------
(* The callback of an update.                                              *)

Entries == DOMAIN assetRewardDistribution
AssetOf(i) == assetRewardDistribution[i].asset

(* What the i-th entry adds to the debts, when its asset has stakers.      *)
Allotted == [i \in Entries |-> totalBalances[AssetOf(i)] * RateToUpdate(i)]

(* An entry allots no more than its share of what was collected.           *)
LEMMA EntryAllots ==
  ASSUME TypeOK, UpdateRewardsCallbackOk, NEW i \in Entries
  PROVE  /\ Allotted[i] \in Nat
         /\ TotalDistribution(assetRewardDistribution) * Allotted[i]
              <= FromAtomics(RewardsCollected) * assetRewardDistribution[i].distribution
<1> DEFINE total == TotalDistribution(assetRewardDistribution)
           share == assetRewardDistribution[i].distribution
           staked == totalBalances[AssetOf(i)]
           rewards == RewardsCollected
           distributed == RewardDistributed(i)
           rate == RateToUpdate(i)
           DF == DecimalFractional
<1>1. /\ total \in Nat /\ total > 0 /\ share \in Nat /\ staked \in Nat
      /\ rewards \in Nat /\ distributed \in Nat /\ rate \in Nat
      /\ DF \in Nat /\ DF > 0
  BY CollectedType, EntryType, DecimalFractionalAssumption DEF Entries, AssetOf
<1>2. Allotted[i] = staked * rate
  BY DEF Allotted
<1>3. distributed = ((((rewards * DF) * share) \div DF) * DF) \div total
  BY DEF RewardDistributed, DecimalDiv, DecimalMul, FromAtomics
<1>4. staked # 0 => rate = (distributed * DF) \div (staked * DF)
  BY DEF RateToUpdate, DecimalDiv, FromAtomics, AssetOf
<1>5. FromAtomics(RewardsCollected) = rewards * DF
  BY DEF FromAtomics
<1> HIDE DEF total, share, staked, rewards, distributed, rate, DF
<1>6. staked * rate \in Nat /\ staked * rate <= distributed
  <2>1. CASE staked = 0
    BY <1>1, <2>1
  <2>2. CASE staked # 0
    <3>1. distributed * DF \in Nat /\ staked * DF \in Nat /\ staked * DF > 0
      BY <1>1, <2>2
    <3>2. rate * (staked * DF) <= distributed * DF
      BY <1>4, <2>2, <3>1, DivMul
    <3>3. rate * (staked * DF) = (staked * rate) * DF
      BY <1>1
    <3>4. staked * rate \in Nat
      BY <1>1, ProductNat
    <3> QED
      BY <1>1, <3>2, <3>3, <3>4, MulCancel
  <2> QED
    BY <2>1, <2>2
<1>7. distributed * total <= (rewards * DF) * share
  <2>1. (rewards * DF) * share = (rewards * share) * DF /\ rewards * share \in Nat
    BY <1>1, ProductNat
  <2>2. ((rewards * share) * DF) \div DF = rewards * share
    BY <1>1, <2>1, MulDiv
  <2>3. distributed = ((rewards * share) * DF) \div total
    BY <1>3, <2>1, <2>2
  <2>4. (rewards * share) * DF \in Nat
    BY <1>1, <2>1, ProductNat
  <2>5. distributed * total <= (rewards * share) * DF
    BY <1>1, <2>3, <2>4, DivMul
  <2> QED
    BY <2>1, <2>5
<1>8. total * (staked * rate) <= total * distributed
  BY <1>1, <1>6, MulMonotonic
<1>9. total * distributed = distributed * total
  BY <1>1
<1>10. /\ total * (staked * rate) \in Nat /\ distributed * total \in Nat
       /\ (rewards * DF) * share \in Nat
  BY <1>1, <1>6, ProductNat
<1>11. total * (staked * rate) <= (rewards * DF) * share
  BY <1>7, <1>8, <1>9, <1>10
<1> QED
  BY <1>2, <1>5, <1>6, <1>11 DEF total, share

(* All entries together allot no more than was collected.                  *)
LEMMA EntriesAllot ==
  ASSUME TypeOK, UpdateRewardsCallbackOk
  PROVE  /\ SumOver(Allotted, Entries) \in Nat
         /\ SumOver(Allotted, Entries) <= FromAtomics(RewardsCollected)
<1> DEFINE total == TotalDistribution(assetRewardDistribution)
           rewards == FromAtomics(RewardsCollected)
           shares == [i \in Entries |-> assetRewardDistribution[i].distribution]
           most == [i \in Entries |-> rewards * shares[i]]
           scaled == [i \in Entries |-> total * Allotted[i]]
           allotted == SumOver(Allotted, Entries)
<1>1. IsFiniteSet(Entries) /\ total \in Nat /\ rewards \in Nat
  BY CollectedType, DistributionType, MathNat DEF Entries
<1>2. \A i \in Entries : Allotted[i] \in Nat /\ shares[i] \in Nat
  BY EntryAllots, EntryType DEF Entries
<1>3. \A i \in Entries : scaled[i] <= most[i]
  BY EntryAllots
<1>4. SumOver(shares, Entries) = total
  BY DEF TotalDistribution, Entries
<1>5. \A i \in Entries : /\ most[i] = rewards * shares[i] /\ most[i] \in Int
                         /\ scaled[i] = total * Allotted[i] /\ scaled[i] \in Int
  <2> HIDE DEF total, rewards, shares
  <2> QED
    BY <1>1, <1>2, ProductNat
<1>6. Entries # {} => total > 0
  BY EntryType DEF Entries
<1> HIDE DEF total, rewards, shares, most, scaled
<1>7. SumOver(scaled, Entries) <= SumOver(most, Entries)
  BY <1>1, <1>3, <1>5, SumMonotonic
<1>8. /\ SumOver(scaled, Entries) = total * allotted
      /\ SumOver(most, Entries) = rewards * total
  <2>1. \A i \in Entries : Allotted[i] \in Int /\ scaled[i] = total * Allotted[i]
    BY <1>2, <1>5
  <2>2. SumOver(scaled, Entries) = total * SumOver(Allotted, Entries)
    BY <1>1, <2>1, SumScale
  <2>3. \A i \in Entries : shares[i] \in Int /\ most[i] = rewards * shares[i]
    BY <1>2, <1>5
  <2>4. SumOver(most, Entries) = rewards * SumOver(shares, Entries)
    BY <1>1, <2>3, SumScale
  <2> QED
    BY <1>4, <2>2, <2>4
<1>9. allotted \in Nat
  BY <1>1, <1>2, SumNat
<1>10. CASE Entries = {}
  <2>1. allotted = 0
    BY <1>10, SumEmpty
  <2> HIDE DEF allotted
  <2>2. allotted <= rewards
    BY <1>1, <2>1
  <2> QED
    BY <1>9, <2>2 DEF rewards, allotted
<1>11. CASE Entries # {}
  <2> HIDE DEF allotted
  <2>1. total * allotted = allotted * total /\ total > 0
    BY <1>1, <1>6, <1>9, <1>11
  <2>2. allotted * total <= rewards * total
    BY <1>7, <1>8, <2>1
  <2>3. allotted <= rewards
    BY <1>1, <1>9, <2>1, <2>2, MulCancel
  <2> QED
    BY <1>9, <2>3 DEF rewards, allotted
<1> QED
  BY <1>10, <1>11

(* What the callback adds to the debt to an account.                       *)
Gains == [k \in Accounts |-> RateIncrease(k[2]) * StakeOf(k[1], k[2])]

(* Adding up over the users of an asset, and over the entries of an asset, *)
(* gives the rate increase times the total.                                *)
LEMMA GainsOfAsset ==
  ASSUME TypeOK, TotalsMatchBalances, UpdateRewardsCallbackOk, NEW a \in Assets
  PROVE  SumOver(Gains, {k \in Accounts : k[2] = a}) = RateIncrease(a) * totalBalances[a]
<1> DEFINE stakes == [u \in Users |-> StakeOf(u, a)]
           gains == [u \in Users |-> RateIncrease(a) * stakes[u]]
           account == [u \in Users |-> <<u, a>>]
<1>1. IsFiniteSet(Users) /\ RateIncrease(a) \in Nat
  BY FiniteSetsAssumption, RateIncreaseType
<1>2. \A u \in Users : stakes[u] \in Nat
  <2>1. \A u \in Users : balances[<<u, a>>] \in Nat \cup {NotFound}
    BY DEF TypeOK, Accounts
  <2> QED
    BY <2>1 DEF StakeOf, UnwrapOr
<1>3. \A u \in Users : gains[u] = RateIncrease(a) * stakes[u] /\ gains[u] \in Nat
  <2> HIDE DEF stakes
  <2> QED
    BY <1>1, <1>2, ProductNat
<1>4. \A u \in Users : Gains[account[u]] = gains[u]
  BY DEF Gains, Accounts
<1>5. {account[u] : u \in Users} = {k \in Accounts : k[2] = a}
  <2>1. \A k \in Accounts : k[2] = a => k[1] \in Users /\ k = account[k[1]]
    BY DEF Accounts
  <2>2. \A u \in Users : account[u] \in Accounts /\ account[u][2] = a
    BY DEF Accounts
  <2> HIDE DEF account
  <2> QED
    BY <2>1, <2>2 DEF Accounts
<1>6. \A u, v \in Users : account[u] = account[v] => u = v
  OBVIOUS
<1>7. totalBalances[a] = SumOver(stakes, Users)
  BY DEF TotalsMatchBalances
<1> HIDE DEF stakes, gains, account
<1>8. SumOver(gains, Users) = SumOver(Gains, {account[u] : u \in Users})
  <2>1. \A u \in Users : Gains[account[u]] \in Int /\ gains[u] = Gains[account[u]]
    BY <1>3, <1>4
  <2> QED
    BY <1>1, <1>6, <2>1, SumRenamed
<1>9. SumOver(gains, Users) = RateIncrease(a) * SumOver(stakes, Users)
  <2>1. \A u \in Users : stakes[u] \in Int /\ gains[u] = RateIncrease(a) * stakes[u]
    BY <1>2, <1>3
  <2> QED
    BY <1>1, <2>1, SumScale
<1> QED
  BY <1>5, <1>7, <1>8, <1>9

LEMMA AllottedToAsset ==
  ASSUME TypeOK, UpdateRewardsCallbackOk, NEW a \in Assets
  PROVE  SumOver(Allotted, {i \in Entries : AssetOf(i) = a}) = RateIncrease(a) * totalBalances[a]
<1> DEFINE entries == {i \in Entries : AssetOf(i) = a}
           rates == [i \in Entries |-> RateToUpdate(i)]
           staked == totalBalances[a]
           increase == SumOver(rates, entries)
<1>1. IsFiniteSet(entries)
  BY CollectedType, DistributionType, FS_Subset DEF Entries
<1>2. staked \in Nat
  BY DEF TypeOK
<1>3. \A i \in entries : rates[i] \in Nat /\ Allotted[i] = staked * rates[i]
  BY EntryType DEF Allotted, Entries
<1>4. RateIncrease(a) = increase
  BY DEF RateIncrease, Entries, AssetOf
<1> HIDE DEF entries, rates, staked, increase
<1>5. SumOver(Allotted, entries) = staked * SumOver(rates, entries)
  <2>1. \A i \in entries : rates[i] \in Int /\ Allotted[i] = staked * rates[i]
    BY <1>3
  <2> QED
    BY <1>1, <1>2, <2>1, SumScale
<1>6. increase \in Nat
  BY <1>1, <1>3, SumNat DEF increase
<1>7. SumOver(Allotted, entries) = increase * staked
  BY <1>2, <1>5, <1>6 DEF increase
<1> QED
  BY <1>4, <1>7 DEF entries, staked

LEMMA GainsAreAllotted ==
  ASSUME TypeOK, TotalsMatchBalances, UpdateRewardsCallbackOk
  PROVE  /\ \A k \in Accounts : Gains[k] \in Nat
         /\ SumOver(Gains, Accounts) = SumOver(Allotted, Entries)
<1> DEFINE asset == [k \in Accounts |-> k[2]]
           assetOf == [i \in Entries |-> AssetOf(i)]
           gainsOf == [a \in Assets |-> SumOver(Gains, {k \in Accounts : asset[k] = a})]
           allottedTo == [a \in Assets |-> SumOver(Allotted, {i \in Entries : assetOf[i] = a})]
<1>1. IsFiniteSet(Assets) /\ IsFiniteSet(Entries)
  BY FiniteSetsAssumption, CollectedType, DistributionType DEF Entries
<1>2. \A k \in Accounts : Gains[k] \in Nat
  <2> SUFFICES ASSUME NEW k \in Accounts
               PROVE  Gains[k] \in Nat
    OBVIOUS
  <2>1. PICK u \in Users, a \in Assets : k = <<u, a>>
    BY DEF Accounts
  <2>2. StakeOf(u, a) \in Nat
    BY <2>1 DEF TypeOK, StakeOf, UnwrapOr
  <2>3. RateIncrease(a) * StakeOf(u, a) \in Nat
    BY <2>2, RateIncreaseType, ProductNat
  <2> QED
    BY <2>1, <2>3 DEF Gains
<1>3. \A k \in Accounts : Gains[k] \in Int /\ asset[k] \in Assets
  BY <1>2 DEF Accounts
<1>4. \A i \in Entries : Allotted[i] \in Int /\ assetOf[i] \in Assets
  BY EntryAllots, CollectedType, DistributionType DEF Entries, AssetOf
<1>5. gainsOf = allottedTo
  <2>1. \A a \in Assets : /\ {k \in Accounts : asset[k] = a} = {k \in Accounts : k[2] = a}
                          /\ {i \in Entries : assetOf[i] = a} = {i \in Entries : AssetOf(i) = a}
    OBVIOUS
  <2>2. \A a \in Assets : SumOver(Gains, {k \in Accounts : k[2] = a})
                            = SumOver(Allotted, {i \in Entries : AssetOf(i) = a})
    BY GainsOfAsset, AllottedToAsset
  <2> HIDE DEF asset, assetOf
  <2> QED
    BY <2>1, <2>2
<1> HIDE DEF asset, assetOf
<1>6. SumOver(Gains, Accounts) = SumOver(gainsOf, Assets)
  BY <1>1, <1>3, AccountsFinite, SumByGroups
<1>7. SumOver(Allotted, Entries) = SumOver(allottedTo, Assets)
  BY <1>1, <1>4, SumByGroups
<1> QED
  BY <1>2, <1>5, <1>6, <1>7

LEMMA CallbackDebts ==
  ASSUME TypeOK, UserRateNeverAhead, UpdateRewardsCallback
  PROVE  \A k \in Accounts : Debt'[k] <= Debt[k] + Gains[k]
<1> SUFFICES ASSUME NEW k \in Accounts
             PROVE  Debt'[k] <= Debt[k] + Gains[k]
  OBVIOUS
<1>1. PICK u \in Users, a \in Assets : k = <<u, a>>
  BY DEF Accounts
<1> DEFINE unclaimed == unclaimedRewards[k] * DecimalFractional
           increase == RateIncrease(a)
           staked == balances[k]
<1>2. /\ Debt[k] = DebtTo(u, a) /\ Debt'[k] = DebtTo(u, a)'
      /\ Gains[k] = increase * StakeOf(u, a)
  BY <1>1 DEF Debt, Gains
<1>3. UNCHANGED <<balances, unclaimedRewards, userAssetRewardRate>>
  BY DEF UpdateRewardsCallback, ledgerVars
<1>4. increase \in Nat
  BY RateIncreaseType DEF UpdateRewardsCallback
<1>5. unclaimed \in Nat /\ DebtTo(u, a) \in Nat
  BY <1>1, DebtType
<1>6. CASE userAssetRewardRate[k] = NotFound \/ balances[k] = NotFound
  <2>1. DebtTo(u, a)' = DebtTo(u, a)
    BY <1>1, <1>3, <1>6 DEF DebtTo
  <2>2. StakeOf(u, a) \in Nat
    BY <1>1 DEF TypeOK, StakeOf, UnwrapOr
  <2>3. increase * StakeOf(u, a) \in Nat
    BY <1>4, <2>2, ProductNat
  <2> HIDE DEF increase
  <2> QED
    BY <1>2, <1>5, <2>1, <2>3
<1>7. CASE userAssetRewardRate[k] # NotFound /\ balances[k] # NotFound
  <2> DEFINE gain == RateGain(u, a)
             gained == gain * staked
  <2>1. /\ staked \in Nat /\ gain \in Nat /\ gained \in Nat
        /\ StakeOf(u, a) = staked
    BY <1>1, <1>7, AccountType DEF StakeOf, UnwrapOr
  <2>2. assetRewardRate[a] \in Nat /\ userAssetRewardRate[k] \in Nat
    BY <1>1, <1>7 DEF TypeOK, UserRateNeverAhead
  <2>3. assetRewardRate'[a] = assetRewardRate[a] + increase
    BY <1>4, <2>2, NotFoundAssumption DEF UpdateRewardsCallback, UnwrapOr
  <2>4. RateGain(u, a)' = gain + increase
    BY <1>1, <1>3, <1>4, <2>2, <2>3 DEF RateGain
  <2>5. /\ DebtTo(u, a) = unclaimed + gained
        /\ DebtTo(u, a)' = unclaimed + (gain + increase) * staked
    BY <1>1, <1>3, <1>7, <2>4 DEF DebtTo
  <2> HIDE DEF gain, increase, staked, unclaimed
  <2>6. (gain + increase) * staked = staked * gain + staked * increase
    BY <1>4, <2>1, Distributes
  <2>7. staked * gain = gained /\ staked * increase = increase * staked
        /\ increase * staked \in Nat
    BY <1>4, <2>1
  <2> HIDE DEF gained
  <2> QED
    BY <1>2, <1>5, <2>1, <2>5, <2>6, <2>7
<1> QED
  BY <1>6, <1>7

(* An update adds to the debts at most what it adds to the pool.           *)
LEMMA CallbackSolvent ==
  ASSUME TypeOK, TypeOK', UserRateNeverAhead, UserRateNeverAhead', TotalsMatchBalances,
         TempBalanceOfThisUpdate, SolvencyInv, tx # NoTx, UpdateRewardsCallback
  PROVE  SolvencyInv' /\ SurplusKept
<1> DEFINE rewards == RewardsCollected
           before == SumOver(Debt, Accounts)
           after == SumOver(Debt', Accounts)
           gains == SumOver(Gains, Accounts)
           most == [k \in Accounts |-> Debt[k] + Gains[k]]
<1>1. UpdateRewardsCallbackOk /\ UNCHANGED <<totalBalances, holdings>> /\ tx' = NoTx
  BY DEF UpdateRewardsCallback, ledgerVars
<1>2. rewards \in Nat /\ rewards = holdings[RewardDenom] - Settled[RewardDenom]
  BY <1>1, CollectedType DEF RewardsCollected, TempBalanceOfThisUpdate, Settled
<1>3. Settled' = holdings
  BY <1>1 DEF Settled
<1>4. \A d \in Denoms : holdings[d] \in Nat /\ Settled[d] \in Nat /\ Settled[d] <= holdings[d]
  BY PoolType DEF TypeOK, SolvencyInv
<1>5. RewardPool \in Int /\ RewardPool' = RewardPool + rewards
  <2>1. StakedOf(RewardDenom)' = StakedOf(RewardDenom)
    BY <1>1 DEF StakedOf
  <2>2. RewardPool' = holdings[RewardDenom] - StakedOf(RewardDenom)
    BY <1>1, <2>1 DEF RewardPool, Settled
  <2> QED
    BY <1>2, <1>4, <2>2, PoolType DEF Denoms
<1>6. /\ \A k \in Accounts : /\ Debt[k] \in Int /\ Gains[k] \in Int /\ Debt'[k] \in Int
                             /\ most[k] = Debt[k] + Gains[k] /\ most[k] \in Int
      /\ \A k \in Accounts : Debt'[k] <= most[k]
  BY <1>1, DebtsType, DebtsTypeNext, GainsAreAllotted, CallbackDebts
<1> HIDE DEF most
<1>7. after <= SumOver(most, Accounts)
  BY <1>6, AccountsFinite, SumMonotonic
<1>8. SumOver(most, Accounts) = before + gains
  BY <1>6, AccountsFinite, SumAdd
<1>9. gains \in Nat /\ gains <= rewards * DecimalFractional
  BY <1>1, GainsAreAllotted, EntriesAllot DEF FromAtomics
<1>10. before \in Nat /\ after \in Nat /\ before <= RewardPool * DecimalFractional
  BY AccountsFinite, DebtsType, DebtsTypeNext, SumNat DEF SolvencyInv
<1> HIDE DEF rewards, before, after, gains
<1>11. /\ after <= RewardPool' * DecimalFractional
       /\ RewardPool' * DecimalFractional - after >= RewardPool * DecimalFractional - before
  <2>1. (RewardPool + rewards) * DecimalFractional
          = RewardPool * DecimalFractional + rewards * DecimalFractional
    BY <1>2, <1>5, DecimalFractionalAssumption
  <2>2. RewardPool * DecimalFractional \in Int /\ rewards * DecimalFractional \in Int
    BY <1>2, <1>5, DecimalFractionalAssumption
  <2>3. /\ after <= RewardPool * DecimalFractional + rewards * DecimalFractional
        /\ after <= before + rewards * DecimalFractional
    BY <1>7, <1>8, <1>9, <1>10, <2>2
  <2>4. (RewardPool + rewards) * DecimalFractional - after >= RewardPool * DecimalFractional - before
    BY <1>10, <2>1, <2>2, <2>3
  <2> QED
    BY <1>5, <2>1, <2>3, <2>4
<1>12. \A a \in Assets : holdings[a] >= totalBalances[a]
  BY <1>4 DEF SolvencyInv, TypeOK, Denoms
<1> QED
  BY <1>1, <1>3, <1>4, <1>11, <1>12 DEF SolvencyInv, SurplusKept, Surplus, before, after
-----------------------------------------------------------------------------
(* Every other step leaves the debts alone and takes nothing away.         *)

LEMMA QuietStep ==
  ASSUME TypeOK, TypeOK', UserRateNeverAhead, SolvencyInv,
         \A k \in Accounts : Debt'[k] = Debt[k], UNCHANGED totalBalances,
         \A d \in Denoms : Settled[d] <= Settled'[d] /\ Settled'[d] <= holdings'[d]
  PROVE  SolvencyInv' /\ SurplusKept
<1> DEFINE before == SumOver(Debt, Accounts)
           after == SumOver(Debt', Accounts)
<1>1. after = before
  BY AccountsFinite, SumEqual
<1>2. \A d \in Denoms : Settled[d] \in Nat /\ Settled'[d] \in Nat /\ holdings'[d] \in Nat
  BY PoolType DEF TypeOK, Settled, Transaction
<1>3. RewardPool \in Int /\ RewardPool' \in Int /\ RewardPool <= RewardPool'
  <2>1. StakedOf(RewardDenom)' = StakedOf(RewardDenom) /\ StakedOf(RewardDenom) \in Nat
    BY PoolType DEF StakedOf
  <2>2. /\ RewardPool = Settled[RewardDenom] - StakedOf(RewardDenom)
        /\ RewardPool' = Settled'[RewardDenom] - StakedOf(RewardDenom)
    BY <2>1 DEF RewardPool, Settled
  <2> QED
    BY <1>2, <2>1, <2>2 DEF Denoms
<1>4. before \in Nat /\ before <= RewardPool * DecimalFractional
  BY AccountsFinite, DebtsType, SumNat DEF SolvencyInv
<1>5. \A a \in Assets : Settled'[a] >= totalBalances'[a]
  BY <1>2 DEF SolvencyInv, TypeOK, Denoms
<1> HIDE DEF before, after
<1>6. RewardPool * DecimalFractional <= RewardPool' * DecimalFractional
  <2> DEFINE old == RewardPool
             new == RewardPool'
             DF == DecimalFractional
  <2>1. DF \in Nat /\ old \in Int /\ new \in Int /\ old <= new
    BY <1>3, DecimalFractionalAssumption
  <2> HIDE DEF old, new, DF
  <2>2. DF * old <= DF * new /\ DF * old = old * DF /\ DF * new = new * DF
    BY <2>1, MulMonotonic
  <2>3. old * DF <= new * DF
    BY <2>2
  <2> QED
    BY <2>3 DEF old, new, DF
<1>7. /\ after <= RewardPool' * DecimalFractional
      /\ RewardPool' * DecimalFractional - after >= RewardPool * DecimalFractional - before
  <2>1. RewardPool * DecimalFractional \in Int /\ RewardPool' * DecimalFractional \in Int
    BY <1>3, DecimalFractionalAssumption
  <2> QED
    BY <1>1, <1>4, <1>6, <2>1
<1> QED
  BY <1>2, <1>5, <1>7 DEF SolvencyInv, SurplusKept, Surplus, before, after

LEMMA DebtsKept ==
  ASSUME TypeOK, UserRateNeverAhead, UNCHANGED ledgerVars,
         \A a \in Assets : assetRewardRate[a] # NotFound =>
                             assetRewardRate'[a] = assetRewardRate[a]
  PROVE  \A k \in Accounts : Debt'[k] = Debt[k]
<1> SUFFICES ASSUME NEW k \in Accounts
             PROVE  Debt'[k] = Debt[k]
  OBVIOUS
<1>1. PICK u \in Users, a \in Assets : k = <<u, a>>
  BY DEF Accounts
<1>2. userAssetRewardRate[k] # NotFound => assetRewardRate'[a] = assetRewardRate[a]
  BY <1>1 DEF UserRateNeverAhead
<1>3. DebtTo(u, a)' = DebtTo(u, a)
  BY <1>1, <1>2 DEF DebtTo, RateGain, ledgerVars
<1> QED
  BY <1>1, <1>3 DEF Debt

LEMMA PayOutGrows ==
  ASSUME TypeOK, NEW V \in SUBSET Validators, PayOut(V)
  PROVE  \A d \in Denoms : holdings[d] <= holdings'[d]
<1>1. IsFiniteSet(V)
  BY FiniteSetsAssumption, FS_Subset
<1>2. \A v \in V : accrued[v] \in Nat
  BY DEF TypeOK
<1>3. SumOver(accrued, V) \in Nat
  BY <1>1, <1>2, SumNat
<1> QED
  BY <1>3 DEF TypeOK, PayOut, Denoms

(* Between transactions the hub is settled with what it owns.              *)
LEMMA IdleStep ==
  ASSUME TypeOK, TypeOK', UserRateNeverAhead, SolvencyInv,
         Idle, UNCHANGED tx, UNCHANGED ledgerVars,
         \A a \in Assets : assetRewardRate[a] # NotFound =>
                             assetRewardRate'[a] = assetRewardRate[a],
         \A d \in Denoms : holdings[d] <= holdings'[d]
  PROVE  SolvencyInv' /\ SurplusKept
<1>1. Settled = holdings /\ Settled' = holdings'
  BY DEF Settled, Idle
<1>2. \A d \in Denoms : Settled[d] <= Settled'[d] /\ Settled'[d] <= holdings'[d]
  BY <1>1 DEF TypeOK
<1>3. UNCHANGED totalBalances
  BY DEF ledgerVars
<1> QED
  BY <1>2, <1>3, DebtsKept, QuietStep

LEMMA AdminStepSolvent ==
  ASSUME TypeOK, TypeOK', UserRateNeverAhead, SolvencyInv, AdminStep
  PROVE  SolvencyInv' /\ SurplusKept
<1>1. UNCHANGED tx
  BY AdminStepFrame
<1>2. Idle /\ UNCHANGED ledgerVars
  BY DEF AdminStep, SetAssetRewardDistribution, WhitelistAssets, RemoveAssets,
       UpdateConfig, AllianceDelegate, AllianceUndelegate, AllianceRedelegate
<1>3. \A a \in Assets : assetRewardRate[a] # NotFound =>
                          assetRewardRate'[a] = assetRewardRate[a]
  <2>1. \A a \in Assets : assetRewardRate[a] # NotFound =>
          RateWhenWhitelisted(a) = assetRewardRate[a]
    BY DEF RateWhenWhitelisted, UnwrapOr
  <2>2. ASSUME NEW sender, NEW S, WhitelistAssets(sender, S)
        PROVE  \A a \in Assets : assetRewardRate[a] # NotFound =>
                                   assetRewardRate'[a] = assetRewardRate[a]
    BY <2>1, <2>2 DEF WhitelistAssets
  <2> QED
    BY <2>2 DEF AdminStep, SetAssetRewardDistribution, RemoveAssets,
       UpdateConfig, AllianceDelegate, AllianceUndelegate, AllianceRedelegate
<1>4. \A d \in Denoms : holdings[d] <= holdings'[d]
  <2>1. UNCHANGED holdings \/ \E V \in SUBSET Validators : PayOut(V)
    BY DEF AdminStep, SetAssetRewardDistribution, WhitelistAssets, RemoveAssets,
       UpdateConfig, AllianceDelegate, AllianceUndelegate, AllianceRedelegate
  <2>2. UNCHANGED holdings => \A d \in Denoms : holdings[d] <= holdings'[d]
    BY DEF TypeOK
  <2> QED
    BY <2>1, <2>2, PayOutGrows
<1> QED
  BY <1>1, <1>2, <1>3, <1>4, IdleStep

LEMMA ChainStepSolvent ==
  ASSUME TypeOK, TypeOK', UserRateNeverAhead, SolvencyInv, ChainStep
  PROVE  SolvencyInv' /\ SurplusKept
<1>1. Idle /\ UNCHANGED <<tx, assetRewardRate>> /\ UNCHANGED ledgerVars
  BY DEF ChainStep, AccrueRewards, Donate
<1>2. \A d \in Denoms : holdings[d] <= holdings'[d]
  <2>1. ASSUME NEW v \in Validators, NEW n \in Amounts, AccrueRewards(v, n)
        PROVE  \A d \in Denoms : holdings[d] <= holdings'[d]
    BY <2>1 DEF AccrueRewards, TypeOK
  <2>2. ASSUME NEW n \in Amounts, Donate(n)
        PROVE  \A d \in Denoms : holdings[d] <= holdings'[d]
    BY <2>2, InputsAssumption DEF Donate, TypeOK, Denoms
  <2> QED
    BY <2>1, <2>2 DEF ChainStep
<1> QED
  BY <1>1, <1>2, IdleStep

LEMMA UpdateRewardsSolvent ==
  ASSUME TypeOK, TypeOK', UserRateNeverAhead, SolvencyInv,
         NEW sent \in Amounts \cup {0}, UpdateRewards(sent)
  PROVE  SolvencyInv' /\ SurplusKept
<1>1. sent \in Nat /\ UNCHANGED <<totalBalances, assetRewardRate>> /\ UNCHANGED ledgerVars
  BY InputsAssumption DEF UpdateRewards, ledgerVars
<1>2. Settled = holdings /\ Settled' = holdings
  <2>1. tx' # NoTx /\ tx'.before.holdings = holdings
    BY NoTxAssumption DEF UpdateRewards, TypeOK, Transaction
  <2> QED
    BY <2>1 DEF Settled, UpdateRewards, Idle
<1>3. \A d \in Denoms : holdings[d] <= holdings'[d]
  BY <1>1 DEF UpdateRewards, TypeOK, Denoms
<1>4. \A d \in Denoms : holdings[d] <= holdings[d]
  BY DEF TypeOK
<1>5. \A k \in Accounts : Debt'[k] = Debt[k]
  BY <1>1, DebtsKept
<1> QED
  BY <1>1, <1>2, <1>3, <1>4, <1>5, QuietStep

LEMMA TxStepSolvent ==
  ASSUME TypeOK, TypeOK', UserRateNeverAhead, UserRateNeverAhead', TotalsMatchBalances,
         TempBalanceOfThisUpdate, SolvencyInv, TxStep
  PROVE  SolvencyInv' /\ SurplusKept
<1>1. tx # NoTx /\ tx \in Transaction /\ Settled = tx.before.holdings
  BY DEF TxStep, TypeOK, Settled
<1>2. \A d \in Denoms : /\ holdings[d] \in Nat /\ Settled[d] \in Nat
                        /\ Settled[d] <= holdings[d]
  BY PoolType DEF TypeOK, SolvencyInv
<1>3. ASSUME NEW v \in Validators, ClaimDelegationRewards(v) \/ ClaimRewardError(v)
      PROVE  SolvencyInv' /\ SurplusKept
  <2>1. UNCHANGED assetRewardRate /\ UNCHANGED ledgerVars /\ UNCHANGED totalBalances
    BY <1>3 DEF ClaimDelegationRewards, ClaimRewardError, ledgerVars
  <2>2. Settled' = Settled
    <3>1. tx' = [tx EXCEPT !.claims = tx.claims \ {v}]
      BY <1>3 DEF ClaimDelegationRewards, ClaimRewardError
    <3>2. tx' \in Transaction /\ tx'.before = tx.before
      BY <1>1, <3>1 DEF Transaction
    <3> QED
      BY <1>1, <3>2, NoTxAssumption DEF Settled
  <2>3. \A d \in Denoms : holdings[d] <= holdings'[d] /\ holdings'[d] \in Nat
    <3>1. ClaimDelegationRewards(v) => \A d \in Denoms : holdings[d] <= holdings'[d]
      BY PayOutGrows DEF ClaimDelegationRewards
    <3>2. ClaimRewardError(v) => \A d \in Denoms : holdings[d] <= holdings'[d]
      BY <1>2 DEF ClaimRewardError
    <3> QED
      BY <1>3, <3>1, <3>2 DEF TypeOK
  <2>4. \A d \in Denoms : Settled[d] <= Settled'[d] /\ Settled'[d] <= holdings'[d]
    BY <1>2, <2>2, <2>3
  <2>5. \A k \in Accounts : Debt'[k] = Debt[k]
    BY <2>1, DebtsKept
  <2> QED
    BY <2>1, <2>4, <2>5, QuietStep
<1>4. CASE UpdateRewardsAborts
  <2>1. UNCHANGED assetRewardRate /\ UNCHANGED ledgerVars /\ UNCHANGED totalBalances
    BY <1>4 DEF UpdateRewardsAborts, RollBack, ledgerVars
  <2>2. Settled' = Settled /\ holdings' = Settled
    BY <1>1, <1>4 DEF UpdateRewardsAborts, RollBack, Settled
  <2>3. \A d \in Denoms : Settled[d] <= Settled'[d] /\ Settled'[d] <= holdings'[d]
    BY <1>2, <2>2
  <2>4. \A k \in Accounts : Debt'[k] = Debt[k]
    BY <2>1, DebtsKept
  <2> QED
    BY <2>1, <2>3, <2>4, QuietStep
<1>5. CASE UpdateRewardsCallback
  BY <1>1, <1>5, CallbackSolvent
<1> QED
  BY <1>3, <1>4, <1>5 DEF TxStep

LEMMA SolvencyStep ==
  /\ TypeOK /\ UserRateNeverAhead /\ TotalsMatchBalances /\ TempBalanceOfThisUpdate
  /\ TypeOK' /\ UserRateNeverAhead' /\ SolvencyInv /\ [Next]_vars
  => SolvencyInv' /\ SurplusKept
<1> SUFFICES ASSUME TypeOK, UserRateNeverAhead, TotalsMatchBalances,
                    TempBalanceOfThisUpdate, TypeOK', UserRateNeverAhead',
                    SolvencyInv, [Next]_vars
             PROVE  SolvencyInv' /\ SurplusKept
  OBVIOUS
<1>1. CASE UNCHANGED vars
  <2>1. \A d \in Denoms : Settled[d] <= Settled'[d] /\ Settled'[d] <= holdings'[d]
    BY <1>1, PoolType DEF vars, Settled, SolvencyInv, TypeOK
  <2>2. /\ UNCHANGED totalBalances /\ UNCHANGED ledgerVars
        /\ UNCHANGED assetRewardRate
    BY <1>1 DEF vars, ledgerVars
  <2> QED
    BY <2>1, <2>2, DebtsKept, QuietStep
<1> QED
  BY <1>1, UserStepSolvent, AdminStepSolvent, UpdateRewardsSolvent, TxStepSolvent,
     ChainStepSolvent DEF Next, UserStepKeeps

LEMMA SolventAtFirst == Init /\ TypeOK => SolvencyInv
<1> SUFFICES ASSUME Init, TypeOK
             PROVE  SolvencyInv
  OBVIOUS
<1>1. \A k \in Accounts : Debt[k] = 0
  <2> SUFFICES ASSUME NEW k \in Accounts
               PROVE  Debt[k] = 0
    OBVIOUS
  <2>1. PICK u \in Users, a \in Assets : k = <<u, a>>
    BY DEF Accounts
  <2>2. DebtTo(u, a) = 0 * DecimalFractional + 0
    BY <2>1 DEF DebtTo, Init
  <2>3. DebtTo(u, a) = 0
    BY <2>2, DecimalFractionalAssumption
  <2> QED
    BY <2>1, <2>3 DEF Debt
<1>2. SumOver(Debt, Accounts) = 0
  BY <1>1, AccountsFinite, SumZero
<1>3. Settled = holdings /\ RewardPool = 0
  BY DEF Init, Settled, RewardPool, StakedOf, Denoms
<1>4. \A d \in Denoms : holdings[d] >= holdings[d]
  BY DEF TypeOK
<1>5. \A a \in Assets : holdings[a] >= totalBalances[a]
  BY DEF Init, Denoms
<1>6. 0 * DecimalFractional = 0
  BY DecimalFractionalAssumption
<1> QED
  BY <1>2, <1>3, <1>4, <1>5, <1>6 DEF SolvencyInv

LEMMA SolvencyInvariant == Safety => []SolvencyInv
BY SolventAtFirst, SolvencyStep, TypeCorrect, UserRateBehind, TotalsAlwaysMatch,
   TempBalanceFresh, PTL DEF Safety

(* The hub can always pay: what it owns of each denom covers the stakes,   *)
(* and of the reward denom also every reward its query promises.           *)
THEOREM HubSolvent == Safety => []Solvent
<1>1. TypeOK /\ UserRateNeverAhead /\ SolvencyInv => Solvent
  BY SolventWhenCovered
<1> QED
  BY <1>1, SolvencyInvariant, TypeCorrect, UserRateBehind, PTL

(* No claim pays and no update allots rewards that did not arrive during   *)
(* an update: the surplus of the pool over the exact debt never shrinks.   *)
THEOREM SurplusMonotonic == Safety => SurplusNeverSpent
<1>1. /\ TypeOK /\ UserRateNeverAhead /\ TotalsMatchBalances /\ TempBalanceOfThisUpdate
      /\ TypeOK' /\ UserRateNeverAhead' /\ SolvencyInv /\ [Next]_vars
      => [Surplus' >= Surplus]_vars
  BY SolvencyStep DEF SurplusKept
<1> QED
  BY <1>1, SolvencyInvariant, TypeCorrect, UserRateBehind, TotalsAlwaysMatch,
     TempBalanceFresh, PTL DEF Safety, SurplusNeverSpent

(* No message of a user forfeits as much as one reward, of anyone's.       *)
THEOREM NoRewardForfeited == Safety => RewardsNotForfeited
<1>1. /\ TypeOK /\ UserRateNeverAhead /\ TypeOK' /\ UserRateNeverAhead' /\ SolvencyInv
      => [UserStep => Surplus' - Surplus < DecimalFractional]_vars
  BY UserStepSolvent DEF UserStepKeeps, FractionForfeited
<1> QED
  BY <1>1, SolvencyInvariant, TypeCorrect, UserRateBehind, PTL
  DEF Safety, RewardsNotForfeited
-----------------------------------------------------------------------------
(* Who is given what.                                                      *)

(* The callback raises a debt by what the rate rises, per staked unit.     *)
LEMMA CallbackGives ==
  ASSUME TypeOK, UserRateNeverAhead, EntriesComplete, UpdateRewardsCallback,
         NEW u \in Users, NEW a \in Assets
  PROVE  DebtTo(u, a)' - DebtTo(u, a)
           = StakeOf(u, a) * (UnwrapOr(assetRewardRate'[a], 0) - UnwrapOr(assetRewardRate[a], 0))
<1> DEFINE k == <<u, a>>
           unclaimed == unclaimedRewards[k] * DecimalFractional
           old == UnwrapOr(assetRewardRate[a], 0)
           new == UnwrapOr(assetRewardRate'[a], 0)
<1>1. k \in Accounts
  BY DEF Accounts
<1>2. UNCHANGED <<balances, unclaimedRewards, userAssetRewardRate>>
  BY DEF UpdateRewardsCallback, ledgerVars
<1>3. RateIncrease(a) \in Nat
  BY RateIncreaseType DEF UpdateRewardsCallback
<1>4. unclaimed \in Nat /\ DebtTo(u, a) \in Nat /\ old \in Nat
  BY DebtType DEF TypeOK, UnwrapOr
<1>5. new = old + RateIncrease(a)
  BY <1>3, <1>4, NotFoundAssumption DEF UpdateRewardsCallback, TypeOK, UnwrapOr
<1>6. CASE balances[k] = NotFound
  <2>1. DebtTo(u, a)' = DebtTo(u, a) /\ StakeOf(u, a) = 0
    BY <1>2, <1>6 DEF DebtTo, StakeOf, UnwrapOr
  <2> HIDE DEF k, old, new
  <2>2. 0 * (new - old) = 0
    BY <1>3, <1>4, <1>5
  <2> QED
    BY <1>4, <2>1, <2>2 DEF old, new
<1>7. CASE balances[k] # NotFound
  <2> DEFINE staked == balances[k]
             gain == RateGain(u, a)
  <2>1. userAssetRewardRate[k] # NotFound /\ assetRewardRate[a] # NotFound
    BY <1>7 DEF EntriesComplete
  <2>2. staked \in Nat /\ gain \in Nat /\ StakeOf(u, a) = staked
    BY <1>7, <2>1, AccountType DEF StakeOf, UnwrapOr
  <2>3. /\ assetRewardRate[a] = old /\ userAssetRewardRate[k] \in Nat
    BY <1>1, <2>1 DEF UnwrapOr, TypeOK
  <2>4. assetRewardRate'[a] = new
    BY <1>3, <1>4, <1>5, <2>3, NotFoundAssumption DEF UpdateRewardsCallback, UnwrapOr
  <2>5. gain = old - userAssetRewardRate[k] /\ RateGain(u, a)' = new - userAssetRewardRate[k]
    BY <1>2, <2>3, <2>4 DEF RateGain
  <2>6. /\ DebtTo(u, a) = unclaimed + gain * staked
        /\ DebtTo(u, a)' = unclaimed + RateGain(u, a)' * staked
    BY <1>2, <1>7, <2>1 DEF DebtTo
  <2> DEFINE increase == RateIncrease(a)
  <2>7. RateGain(u, a)' = gain + increase /\ new - old = increase /\ increase \in Nat
    <3> HIDE DEF old, new, gain, k
    <3> QED
      BY <1>3, <1>4, <1>5, <2>3, <2>5
  <2> HIDE DEF gain, staked, unclaimed, increase, old, new
  <2>8. (gain + increase) * staked = staked * gain + staked * increase
    BY <2>2, <2>7, Distributes
  <2>9. /\ staked * gain = gain * staked /\ gain * staked \in Nat
        /\ staked * increase \in Nat
    BY <2>2, <2>7, ProductNat
  <2>10. DebtTo(u, a)' - DebtTo(u, a) = staked * increase
    BY <1>4, <2>6, <2>7, <2>8, <2>9
  <2> QED
    BY <2>2, <2>7, <2>10 DEF old, new
<1> QED
  BY <1>6, <1>7

(* No other step of the administration or the chain moves a known rate.    *)
LEMMA KnownRatesKept ==
  ASSUME [Next]_vars, ~UserStep, ~(tx # NoTx /\ UpdateRewardsCallback)
  PROVE  /\ \A a \in Assets : assetRewardRate[a] # NotFound =>
                                assetRewardRate'[a] = assetRewardRate[a]
         /\ tx # NoTx => UNCHANGED assetRewardRate
<1>1. ASSUME NEW sender, NEW S, WhitelistAssets(sender, S)
      PROVE  \A a \in Assets : assetRewardRate[a] # NotFound =>
                                 assetRewardRate'[a] = assetRewardRate[a]
  BY <1>1 DEF WhitelistAssets, RateWhenWhitelisted, UnwrapOr
<1>2. AdminStep => /\ \A a \in Assets : assetRewardRate[a] # NotFound =>
                                           assetRewardRate'[a] = assetRewardRate[a]
                   /\ tx = NoTx
  <2>1. AdminStep => \/ UNCHANGED assetRewardRate
                     \/ \E sender, S : WhitelistAssets(sender, S)
    BY DEF AdminStep, SetAssetRewardDistribution, RemoveAssets, UpdateConfig,
       AllianceDelegate, AllianceUndelegate, AllianceRedelegate
  <2>2. AdminStep => tx = NoTx
    BY DEF AdminStep, SetAssetRewardDistribution, WhitelistAssets, RemoveAssets,
       UpdateConfig, AllianceDelegate, AllianceUndelegate, AllianceRedelegate, Idle
  <2> QED
    BY <1>1, <2>1, <2>2
<1>3. TxStep => UNCHANGED assetRewardRate
  BY DEF TxStep, ClaimDelegationRewards, ClaimRewardError, UpdateRewardsAborts, RollBack
<1>4. ChainStep \/ (\E sent \in Amounts \cup {0} : UpdateRewards(sent)) \/ UNCHANGED vars
        => UNCHANGED assetRewardRate
  BY DEF ChainStep, AccrueRewards, Donate, UpdateRewards, vars
<1> QED
  BY <1>2, <1>3, <1>4 DEF Next

(* An account gains by an update what its stake is worth then, and never   *)
(* otherwise.                                                              *)
THEOREM StakersAlwaysShareAlike == Safety => StakersShareAlike
<1> DEFINE Inv == TypeOK /\ UserRateNeverAhead /\ EntriesComplete /\ SolvencyInv
           Shares(u, a) ==
             LET gained == DebtTo(u, a)' - DebtTo(u, a)
                 increase == UnwrapOr(assetRewardRate'[a], 0) - UnwrapOr(assetRewardRate[a], 0)
             IN  IF UpdateEnds THEN gained = StakeOf(u, a) * increase ELSE gained <= 0
<1>1. Inv /\ Inv' /\ [Next]_vars => \A u \in Users, a \in Assets : Shares(u, a)
  <2> SUFFICES ASSUME TypeOK, UserRateNeverAhead, EntriesComplete, SolvencyInv,
                      TypeOK', UserRateNeverAhead', [Next]_vars,
                      NEW u \in Users, NEW a \in Assets
               PROVE  Shares(u, a)
    OBVIOUS
  <2>1. /\ <<u, a>> \in Accounts
        /\ Debt[<<u, a>>] = DebtTo(u, a) /\ Debt'[<<u, a>>] = DebtTo(u, a)'
    BY DEF Debt, Accounts
  <2>2. DebtTo(u, a) \in Nat /\ DebtTo(u, a)' \in Nat
    BY <2>1, DebtsType, DebtsTypeNext
  <2>3. CASE UserStep
    <3>1. ~UpdateEnds
      BY <2>3, UserStepFrame DEF UpdateEnds
    <3>2. DebtTo(u, a)' <= DebtTo(u, a)
      BY <2>1, <2>3, UserStepSolvent DEF UserStepKeeps
    <3> QED
      BY <2>2, <3>1, <3>2
  <2>4. CASE tx # NoTx /\ UpdateRewardsCallback
    <3>1. UpdateEnds
      BY <2>4 DEF UpdateEnds, UpdateRewardsCallback, UpdateRewardsCallbackOk
    <3> QED
      BY <2>4, <3>1, CallbackGives
  <2>5. CASE ~UserStep /\ ~(tx # NoTx /\ UpdateRewardsCallback)
    <3>1. UNCHANGED ledgerVars
      BY <2>5, OthersKeepLedger
    <3>2. DebtTo(u, a)' = DebtTo(u, a)
      BY <2>1, <2>5, <3>1, KnownRatesKept, DebtsKept
    <3>3. UpdateEnds => UNCHANGED assetRewardRate
      BY <2>5, KnownRatesKept DEF UpdateEnds
    <3>4. UnwrapOr(assetRewardRate[a], 0) \in Nat /\ StakeOf(u, a) \in Nat
      BY <2>1 DEF TypeOK, UnwrapOr, StakeOf
    <3>5. UpdateEnds =>
            StakeOf(u, a) * (UnwrapOr(assetRewardRate'[a], 0) - UnwrapOr(assetRewardRate[a], 0))
              = 0
      BY <3>3, <3>4
    <3> QED
      BY <2>2, <3>2, <3>5
  <2> QED
    BY <2>3, <2>4, <2>5
<1>2. Safety => []Inv
  BY TypeCorrect, UserRateBehind, EntriesAlwaysComplete, SolvencyInvariant, PTL
<1>3. Inv /\ Inv' /\ [Next]_vars => [\A u \in Users, a \in Assets : Shares(u, a)]_vars
  BY <1>1
<1> HIDE DEF Inv, Shares
<1>4. Safety => [][\A u \in Users, a \in Assets : Shares(u, a)]_vars
  BY <1>2, <1>3, PTL DEF Safety
<1> QED
  BY <1>4 DEF Shares, StakersShareAlike
=============================================================================
