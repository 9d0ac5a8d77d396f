--------------------------- MODULE MCAllianceOracle ---------------------------
(***************************************************************************)
(* An instance of AllianceOracle for TLC.  With DecimalFractional = 2 the  *)
(* numbers below count halves.                                             *)
(***************************************************************************)
EXTENDS AllianceOracleProperties

CONSTANTS chainA, chainB, chainC, d1, d2

Alliance(weight, takeRate, lsdStaked, rebase) ==
  [normalizedRewardWeight |-> weight, annualTakeRate |-> takeRate,
   totalLsdStaked |-> lsdStaked, rebaseFactor |-> rebase]

(* An alliance that brings Terra value, and one that costs it value.       *)
Gain == Alliance(3, 1, 2, 3)
Loss == Alliance(1, 4, 6, 2)

Listed(denom, rebase) == [ibcDenom |-> denom, rebaseFactor |-> rebase]

Chain(id, price, alliances, listed) ==
  [chainId |-> id, tokenPrice |-> price, annualProvisions |-> 8,
   lunaAlliances |-> alliances, chainAlliancesOnPhoenix |-> listed]

(* Rebase factors below, at and above one; denoms listed by one chain, by  *)
(* two chains with different factors, and by none.                         *)
SomeChainsInfos ==
  LET ofA == { Chain(chainA, price, alliances, <<Listed(d1, 3)>>) :
                 price \in {2, 5}, alliances \in {<<>>, <<Gain>>, <<Loss, Gain>>} }
      ofB == { Chain(chainB, 3, <<Loss, Loss>>, listed) :
                 listed \in {<<>>, <<Listed(d2, 1), Listed(d1, 2)>>} }
      posted == {<<>>} \cup { <<a>> : a \in ofA }
                  \cup { <<a, b>> : a \in ofA, b \in ofB }
                  \cup { <<a, b>> : a, b \in { c \in ofA : c.tokenPrice = 5 } }
  IN  { [lunaPrice |-> 3, protocolsInfo |-> chains] : chains \in posted }

AssetsStaked(n, m) == <<[denom |-> d1, amount |-> n], [denom |-> d2, amount |-> m]>>

SomeRequests ==
  LET staked == { AssetsStaked(n, m) : n \in {0, 1, 3}, m \in {0, 2} }
      ids == { {chainA}, {chainC}, {chainA, chainB} }
  IN  UNION { [S -> staked] : S \in ids }

(* Oracle.cfg gives the width no room to spare for these bounds.           *)
ASSUME InstanceFits == WidthSuffices(59, 3, 5)
=============================================================================
