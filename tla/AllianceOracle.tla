--------------------------- MODULE AllianceOracle ---------------------------
(***************************************************************************)
(* The Alliance Oracle contract (contracts/alliance-oracle/src/contract.rs *)
(* and packages/alliance-protocol/src/alliance_oracle_types.rs).  An       *)
(* off-chain feeder posts prices and the state of the alliances on other   *)
(* chains; queries answer from what was posted, most of them only while it *)
(* has not expired.                                                        *)
(***************************************************************************)
EXTENDS SignedDecimal, Sequences, Sums

CONSTANTS
  ChainIds,
  Denoms,
  Senders,            \* accounts that may send a message
  ControllerAddr,     \* config.controller_addr, which nothing changes
  DataExpirySeconds,  \* config.data_expiry_seconds, which nothing changes
  NotFound            \* an Item that was never saved

CONSTANTS
  ChainsInfos,        \* the messages the feeder may post
  Requests,           \* the arguments of QueryEmissionsDistributions
  MaxTime             \* bound on the block time

LunaAlliances ==
  [normalizedRewardWeight : Nat, annualTakeRate : Nat, totalLsdStaked : Nat,
   rebaseFactor : Nat]
BaseAlliances == [ibcDenom : Denoms, rebaseFactor : Nat]
ChainInfoMsgs ==
  [chainId : ChainIds, tokenPrice : Nat, annualProvisions : Nat,
   lunaAlliances : Seq(LunaAlliances), chainAlliancesOnPhoenix : Seq(BaseAlliances)]

LunaInfos == [lunaPrice : Nat, updateTimestamp : Nat]
ChainInfos == [posted : ChainInfoMsgs, chainId : ChainIds, updateTimestamp : Nat]

ASSUME ConfigAssumption ==
  /\ ControllerAddr \in Senders
  /\ DataExpirySeconds \in Nat
ASSUME InputsAssumption ==
  ChainsInfos \subseteq [lunaPrice : Nat, protocolsInfo : Seq(ChainInfoMsgs)]
ASSUME RequestsAssumption ==
  \A request \in Requests :
    /\ DOMAIN request \subseteq ChainIds
    /\ \A id \in DOMAIN request : request[id] \in Seq([denom : Denoms, amount : Nat])
ASSUME NotFoundAssumption ==
  NotFound \notin LunaInfos /\ NotFound \notin Seq(ChainInfos)

VARIABLES
  lunaInfo,    \* LUNA_INFO
  chainsInfo,  \* CHAINS_INFO: one entry per chain, in the order posted
  now          \* the block time

vars == <<lunaInfo, chainsInfo, now>>

Init ==
  /\ lunaInfo = NotFound
  /\ chainsInfo = NotFound
  /\ now = 0

(* to_luna_info and to_chain_info: what is posted, with the block time.    *)
ToLunaInfo(message, time) ==
  [lunaPrice |-> message.lunaPrice, updateTimestamp |-> time]

(* Mutant: a chain that was posted before keeps its timestamp.             *)
ToChainInfoKeepingTime(chain, time) ==
  LET known == IF chainsInfo = NotFound THEN {}
               ELSE {i \in DOMAIN chainsInfo : chainsInfo[i].chainId = chain.chainId}
  IN  [posted |-> chain, chainId |-> chain.chainId,
       updateTimestamp |-> IF known = {} THEN time
                           ELSE chainsInfo[CHOOSE i \in known : TRUE].updateTimestamp]
ToChainInfo(chain, time) ==
  [posted |-> chain, chainId |-> chain.chainId, updateTimestamp |-> time]

UpdateChainsInfo(sender, message) ==
  /\ sender = ControllerAddr
  /\ lunaInfo' = ToLunaInfo(message, now)
  /\ chainsInfo' = [i \in DOMAIN message.protocolsInfo |->
                      ToChainInfo(message.protocolsInfo[i], now)]
  /\ UNCHANGED now

(* Blocks pass.                                                            *)
AdvanceTime ==
  /\ now < MaxTime
  /\ now' = now + 1
  /\ UNCHANGED <<lunaInfo, chainsInfo>>

Next ==
  \/ \E sender \in Senders, message \in ChainsInfos : UpdateChainsInfo(sender, message)
  \/ AdvanceTime

Spec == Init /\ [][Next]_vars
-----------------------------------------------------------------------------
(* Queries that answer only while the data has not expired.                *)

(* Data expires after, not at, the limit.                                  *)
IsExpired(info) == info.updateTimestamp + DataExpirySeconds < now

LunaInfoOk == lunaInfo # NotFound /\ ~IsExpired(lunaInfo)

(* The chain that get_chain_info finds: the first with the id.             *)
ChainInfoOk(id) ==
  /\ chainsInfo # NotFound
  /\ \E i \in DOMAIN chainsInfo :
       /\ chainsInfo[i].chainId = id
       /\ \A j \in 1..(i - 1) : chainsInfo[j].chainId # id
       /\ ~IsExpired(chainsInfo[i])

ChainsInfoOk ==
  /\ chainsInfo # NotFound
  /\ \A i \in DOMAIN chainsInfo : ~IsExpired(chainsInfo[i])
-----------------------------------------------------------------------------
(* get_emissions_distribution_info, which answers from expired data too.   *)
(* A request is a function from chain ids to sequences of the assets that  *)
(* are staked, each with its denom and amount.                             *)

(* The positions of the chains that are asked about; those the oracle does *)
(* not know are left out.                                                  *)
Requested(request) == {i \in DOMAIN chainsInfo : chainsInfo[i].chainId \in DOMAIN request}

(* What an alliance distributes to the stakers of LUNA in a year, and how  *)
(* much of their LUNA its take rate takes; the value of either.            *)
TokensDistributed(chain, alliance) ==
  DecimalMul(chain.posted.annualProvisions, alliance.normalizedRewardWeight)
LunaStaked(alliance) == DecimalMul(alliance.totalLsdStaked, alliance.rebaseFactor)
LunaTaken(alliance) == DecimalMul(alliance.annualTakeRate, LunaStaked(alliance))

Distributed(chain, alliance) ==
  DecimalMul(TokensDistributed(chain, alliance), chain.posted.tokenPrice)
Taken(lunaPrice, alliance) == DecimalMul(LunaTaken(alliance), lunaPrice)

AllianceValue(lunaPrice, chain, alliance) ==
  Sub(FromDecimal(Distributed(chain, alliance), "Positive"),
      FromDecimal(Taken(lunaPrice, alliance), "Positive"))

(* chain_accumulated_value after each of the chain's alliances.            *)
AccumulatedValue(lunaPrice, chain) ==
  LET alliances == chain.posted.lunaAlliances
      value[n \in 0..Len(alliances)] ==
        IF n = 0 THEN Zero
                 ELSE Add(value[n - 1], AllianceValue(lunaPrice, chain, alliances[n]))
  IN  value
ChainValue(chain) ==
  AccumulatedValue(lunaInfo.lunaPrice, chain)[Len(chain.posted.lunaAlliances)]

(* denom_rebase: one map for all requested chains, in which the last chain *)
(* that lists a denom wins; a denom nobody lists has the factor one.       *)
Listings(i, denom) ==
  {j \in DOMAIN chainsInfo[i].posted.chainAlliancesOnPhoenix :
     chainsInfo[i].posted.chainAlliancesOnPhoenix[j].ibcDenom = denom}
DenomRebase(request, denom) ==
  LET listing == {i \in Requested(request) : Listings(i, denom) # {}}
      last == Max(listing)
  IN  IF listing = {} THEN Percent100
      ELSE chainsInfo[last].posted.chainAlliancesOnPhoenix[Max(Listings(last, denom))].rebaseFactor

Staked(request, asset) ==
  DecimalMul(FromAtomics(asset.amount), DenomRebase(request, asset.denom))

(* Mutants: the sum is not set back between two chains; the stakes are     *)
(* added up before they are rebased.                                       *)
TotalStakedOfAll(request, chain) ==
  SumOver([i \in Requested(request) |->
             LET assets == request[chainsInfo[i].chainId]
             IN  SumOver([k \in DOMAIN assets |-> Staked(request, assets[k])], DOMAIN assets)],
          Requested(request))
TotalStakedBeforeRebase(request, chain) ==
  LET assets == request[chain.chainId]
  IN  SumOver([k \in DOMAIN assets |-> FromAtomics(assets[k].amount)], DOMAIN assets)
TotalStaked(request, chain) ==
  LET assets == request[chain.chainId]
  IN  SumOver([k \in DOMAIN assets |-> Staked(request, assets[k])], DOMAIN assets)

Whole(d) == FromDecimal(d, "Positive")

(* Mutant: an asset without stake is not told apart.                       *)
DividesByTotal(request, asset) == TRUE
HasShare(request, asset) == Staked(request, asset) # 0

(* The share of one asset in the value of its chain.                       *)
Share(request, chain, asset) ==
  IF HasShare(request, asset)
  THEN Div(Mul(ChainValue(chain), Whole(Staked(request, asset))),
           Whole(TotalStaked(request, chain)))
  ELSE Zero

(* The answer, which lists the assets of one chain after those of another. *)
EmissionsDistribution(request) ==
  [i \in Requested(request) |->
     LET assets == request[chainsInfo[i].chainId] IN
     [k \in DOMAIN assets |->
        [denom |-> assets[k].denom,
         distribution |-> Share(request, chainsInfo[i], assets[k])]]]

(* The value of a chain is found, and the assets of a chain get their      *)
(* shares of it, without a panic.                                          *)
ChainValueOk(lunaPrice, chain) ==
  \A n \in DOMAIN chain.posted.lunaAlliances :
    LET alliance == chain.posted.lunaAlliances[n] IN
    /\ Fits(TokensDistributed(chain, alliance)) /\ Fits(Distributed(chain, alliance))
    /\ Fits(LunaStaked(alliance)) /\ Fits(LunaTaken(alliance))
    /\ Fits(Taken(lunaPrice, alliance))
    /\ Fits(AccumulatedValue(lunaPrice, chain)[n].value)
SharesOk(request, chain) ==
  /\ Fits(TotalStaked(request, chain))
  /\ \A k \in DOMAIN request[chain.chainId] :
       LET asset == request[chain.chainId][k] IN
       /\ Fits(FromAtomics(asset.amount))
       /\ HasShare(request, asset) =>
            /\ Fits(DecimalMul(ChainValue(chain).value, Staked(request, asset)))
            /\ TotalStaked(request, chain) # 0
            /\ Fits(Share(request, chain, asset).value)

(* The query answers: data was posted, and nothing panics.                 *)
EmissionsDistributionOk(request) ==
  /\ chainsInfo # NotFound /\ lunaInfo # NotFound
  /\ \A i \in Requested(request) :
       /\ ChainValueOk(lunaInfo.lunaPrice, chainsInfo[i])
       /\ SharesOk(request, chainsInfo[i])
=============================================================================
