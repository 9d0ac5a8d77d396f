----------------------- MODULE AllianceOracleProperties -----------------------
(***************************************************************************)
(* What is expected of the Alliance Oracle.                                *)
(***************************************************************************)
EXTENDS AllianceOracle

(* The three queries that check for expiry never disagree: a caller that   *)
(* combines the price of LUNA with the data of chains combines values of   *)
(* the same update, or is refused all of them.                             *)
QueriesAgree ==
  chainsInfo # NotFound =>
    \A i \in DOMAIN chainsInfo :
      /\ ChainInfoOk(chainsInfo[i].chainId) <=> LunaInfoOk
      /\ ChainsInfoOk <=> LunaInfoOk

(* What the alliances of a chain bring Terra and cost it.                  *)
Brought(chain) ==
  LET alliances == chain.posted.lunaAlliances
  IN  [n \in DOMAIN alliances |-> Distributed(chain, alliances[n])]
Cost(lunaPrice, chain) ==
  LET alliances == chain.posted.lunaAlliances
  IN  [n \in DOMAIN alliances |-> Taken(lunaPrice, alliances[n])]

(* The value of a chain is what all of its alliances bring less what they  *)
(* cost, whichever of them gain and whichever lose and however often the   *)
(* running value changes its sign.                                         *)
ChainValueExact ==
  chainsInfo # NotFound =>
    \A i \in DOMAIN chainsInfo :
      LET chain == chainsInfo[i]
          alliances == DOMAIN chain.posted.lunaAlliances
      IN  Number(ChainValue(chain)) =
            SumOver(Brought(chain), alliances)
              - SumOver(Cost(lunaInfo.lunaPrice, chain), alliances)

(* The width is no limit for what may be posted and asked: the alliances   *)
(* of a chain move no more value than maxValue, no rebase factor is more   *)
(* than maxRebase, and of the assets of a chain no more than maxStaked is  *)
(* staked.  The crate leaves room for 3.4 * 10^20 of each product.         *)
WidthSuffices(maxValue, maxRebase, maxStaked) ==
  /\ \A message \in ChainsInfos : \A i \in DOMAIN message.protocolsInfo :
       LET chain == [posted |-> message.protocolsInfo[i]]
           alliances == chain.posted.lunaAlliances
           listed == chain.posted.chainAlliancesOnPhoenix
       IN  /\ \A n \in DOMAIN alliances :
                /\ Fits(TokensDistributed(chain, alliances[n]))
                /\ Fits(LunaStaked(alliances[n])) /\ Fits(LunaTaken(alliances[n]))
           /\ SumOver(Brought(chain), DOMAIN alliances)
                + SumOver(Cost(message.lunaPrice, chain), DOMAIN alliances) <= maxValue
           /\ \A j \in DOMAIN listed : listed[j].rebaseFactor <= maxRebase
  /\ \A request \in Requests : \A id \in DOMAIN request :
       SumOver([k \in DOMAIN request[id] |-> request[id][k].amount],
               DOMAIN request[id]) <= maxStaked
  /\ Percent100 <= maxRebase
  /\ Fits(maxValue)
  /\ Fits(FromAtomics(maxStaked)) /\ Fits(maxStaked * maxRebase)
  /\ Fits(DecimalMul(maxValue, maxStaked * maxRebase))

(* Once data was posted every emissions query is answered: whatever is     *)
(* staked, nothing at all included, it divides by no zero.                 *)
EmissionsAnswered ==
  chainsInfo # NotFound =>
    \A request \in Requests : EmissionsDistributionOk(request)

(* The assets of a chain share its value by their rebased stakes.  All     *)
(* shares have its sign, together they are never more than it, and they    *)
(* are less only by the rounding of the two divisions of each share.       *)
EmissionsShareChainValue ==
  \A request \in Requests :
    EmissionsDistributionOk(request) =>
      \A i \in Requested(request) :
        LET value == ChainValue(chainsInfo[i])
            total == TotalStaked(request, chainsInfo[i])
            answer == EmissionsDistribution(request)[i]
            shared == SumOver([k \in DOMAIN answer |-> answer[k].distribution.value],
                              DOMAIN answer)
        IN  /\ \A k \in DOMAIN answer :
                 answer[k].distribution.value # 0 =>
                   answer[k].distribution.sign = value.sign
            /\ shared <= value.value
            /\ total > 0 =>
                 total * (value.value - shared) <=
                   Cardinality(DOMAIN answer) * (DecimalFractional + total - 2)

(* The part of a request that is about one chain.                          *)
ForChain(request, i) == [id \in {chainsInfo[i].chainId} |-> request[id]]

(* A chain is answered as if it were the only one asked about, although    *)
(* one map of rebase factors serves them all: nothing of the chains before *)
(* it in the loop is left in its sums, and a factor of another chain is    *)
(* used only where that chain lists a denom staked here with a factor      *)
(* other than the one used for this chain alone.                           *)
ChainsAnsweredApart ==
  chainsInfo # NotFound =>
    \A request \in Requests : \A i \in Requested(request) :
      LET alike(denom) ==
            \A j \in Requested(request) :
              Listings(j, denom) # {} =>
                DenomRebase(ForChain(request, j), denom) =
                  DenomRebase(ForChain(request, i), denom)
          assets == request[chainsInfo[i].chainId]
      IN  (\A k \in DOMAIN assets : alike(assets[k].denom)) =>
            EmissionsDistribution(request)[i] =
              EmissionsDistribution(ForChain(request, i))[i]
=============================================================================
