------------------------- MODULE AllianceOracleProofs -------------------------
(***************************************************************************)
(* Proofs about the Alliance Oracle, for every sequence of updates, every  *)
(* expiry, width and number of atomics, and all that is posted and asked.  *)
(***************************************************************************)
EXTENDS AllianceOracleProperties, SumLemmas

(* What is stored is what one message posted, with the time of its block.  *)
Posted ==
  \/ lunaInfo = NotFound /\ chainsInfo = NotFound
  \/ \E message \in ChainsInfos, time \in 0..now :
       /\ lunaInfo = ToLunaInfo(message, time)
       /\ chainsInfo = [i \in DOMAIN message.protocolsInfo |->
                          ToChainInfo(message.protocolsInfo[i], time)]

OracleInv == now \in Nat /\ Posted

LEMMA OracleInvInit == Init => OracleInv
BY DEF Init, OracleInv, Posted

LEMMA OracleInvNext == OracleInv /\ [Next]_vars => OracleInv'
<1> SUFFICES ASSUME OracleInv, [Next]_vars PROVE OracleInv'
  OBVIOUS
<1>1. now \in Nat /\ Posted
  BY DEF OracleInv
<1>2. CASE \E sender \in Senders, message \in ChainsInfos : UpdateChainsInfo(sender, message)
  <2>1. PICK message \in ChainsInfos :
          /\ lunaInfo' = ToLunaInfo(message, now)
          /\ chainsInfo' = [i \in DOMAIN message.protocolsInfo |->
                              ToChainInfo(message.protocolsInfo[i], now)]
          /\ now' = now
    BY <1>2 DEF UpdateChainsInfo
  <2>2. now \in 0..now' /\ now' \in Nat
    BY <1>1, <2>1
  <2>3. Posted'
    BY <2>1, <2>2 DEF Posted, ToLunaInfo, ToChainInfo
  <2> QED  BY <2>2, <2>3 DEF OracleInv
<1>3. CASE AdvanceTime \/ UNCHANGED vars
  <2>1. /\ lunaInfo' = lunaInfo /\ chainsInfo' = chainsInfo
        /\ now' \in Nat /\ \A time \in 0..now : time \in 0..now'
    BY <1>1, <1>3 DEF AdvanceTime, vars
  <2>2. Posted'
    BY <1>1, <2>1 DEF Posted, ToLunaInfo, ToChainInfo
  <2> QED  BY <2>1, <2>2 DEF OracleInv
<1> QED  BY <1>2, <1>3 DEF Next

(* LUNA_INFO and CHAINS_INFO were both saved, or neither; and every entry  *)
(* bears the block time of the same update.                                *)
SameUpdate ==
  \/ lunaInfo = NotFound /\ chainsInfo = NotFound
  \/ /\ lunaInfo \in LunaInfos /\ lunaInfo # NotFound
     /\ chainsInfo \in Seq(ChainInfos) /\ chainsInfo # NotFound
     /\ \A i \in DOMAIN chainsInfo :
          chainsInfo[i].updateTimestamp = lunaInfo.updateTimestamp

LEMMA PostedSameUpdate == OracleInv => SameUpdate
<1> SUFFICES ASSUME now \in Nat,
                    NEW message \in ChainsInfos, NEW time \in 0..now,
                    lunaInfo = ToLunaInfo(message, time),
                    chainsInfo = [i \in DOMAIN message.protocolsInfo |->
                                    ToChainInfo(message.protocolsInfo[i], time)]
             PROVE  SameUpdate
  BY DEF OracleInv, Posted, SameUpdate
<1>1. /\ message.lunaPrice \in Nat
      /\ message.protocolsInfo \in Seq(ChainInfoMsgs)
  BY InputsAssumption
<1>2. lunaInfo \in LunaInfos /\ lunaInfo.updateTimestamp = time
  BY <1>1 DEF ToLunaInfo, LunaInfos
<1>3. \A chain \in ChainInfoMsgs :
        /\ ToChainInfo(chain, time) \in ChainInfos
        /\ ToChainInfo(chain, time).updateTimestamp = time
  BY DEF ToChainInfo, ChainInfos, ChainInfoMsgs
<1>4. chainsInfo \in Seq(ChainInfos) /\ DOMAIN chainsInfo = DOMAIN message.protocolsInfo
  <2>1. PICK n \in Nat : message.protocolsInfo \in [1..n -> ChainInfoMsgs]
    BY <1>1, SMT
  <2>2. chainsInfo \in [1..n -> ChainInfos]
    BY <1>3, <2>1
  <2> QED  BY <2>1, <2>2
<1>5. \A i \in DOMAIN chainsInfo : chainsInfo[i].updateTimestamp = time
  BY <1>1, <1>3, <1>4
<1> QED  BY <1>2, <1>4, <1>5, NotFoundAssumption DEF SameUpdate

(* Among the positions of a sequence at which a value occurs is a first.   *)
LEMMA FirstPosition ==
  ASSUME NEW I \in SUBSET Nat, I # {}
  PROVE  \E i \in I : \A j \in I : ~(j < i)
<1>1. IsWellFoundedOn(OpToRel(<, Nat), Nat)
  BY NatLessThanWellFounded
<1>2. \E i \in I : \A j \in I : ~(<<j, i>> \in OpToRel(<, Nat))
  BY <1>1, WFMin
<1> QED  BY <1>2 DEF OpToRel

(* Under the invariant an entry has expired exactly when the price of LUNA *)
(* has, and get_chain_info finds some entry for every posted chain.        *)
LEMMA AgreeFromSameUpdate == OracleInv => QueriesAgree
<1> SUFFICES ASSUME OracleInv, chainsInfo # NotFound,
                    NEW k \in DOMAIN chainsInfo
             PROVE  /\ ChainInfoOk(chainsInfo[k].chainId) <=> LunaInfoOk
                    /\ ChainsInfoOk <=> LunaInfoOk
  BY DEF QueriesAgree
<1>1. /\ lunaInfo \in LunaInfos /\ lunaInfo # NotFound
      /\ chainsInfo \in Seq(ChainInfos)
      /\ \A i \in DOMAIN chainsInfo :
           chainsInfo[i].updateTimestamp = lunaInfo.updateTimestamp
  BY PostedSameUpdate DEF SameUpdate
<1>2. \A i \in DOMAIN chainsInfo : IsExpired(chainsInfo[i]) <=> IsExpired(lunaInfo)
  BY <1>1 DEF IsExpired
<1>3. ChainsInfoOk <=> LunaInfoOk
  BY <1>1, <1>2 DEF ChainsInfoOk, LunaInfoOk
<1>4. ChainInfoOk(chainsInfo[k].chainId) => LunaInfoOk
  BY <1>1, <1>2 DEF ChainInfoOk, LunaInfoOk
<1>5. ASSUME LunaInfoOk PROVE ChainInfoOk(chainsInfo[k].chainId)
  <2> DEFINE I == {i \in DOMAIN chainsInfo : chainsInfo[i].chainId = chainsInfo[k].chainId}
  <2>1. DOMAIN chainsInfo = 1..Len(chainsInfo) /\ Len(chainsInfo) \in Nat
    BY <1>1
  <2>2. I \in SUBSET Nat /\ I # {}
    BY <2>1
  <2>3. PICK i \in I : \A j \in I : ~(j < i)
    BY <2>2, FirstPosition
  <2>4. \A j \in 1..(i - 1) : chainsInfo[j].chainId # chainsInfo[k].chainId
    BY <2>1, <2>3
  <2>5. ~IsExpired(chainsInfo[i])
    BY <1>2, <1>5, <2>3 DEF LunaInfoOk
  <2> QED  BY <2>3, <2>4, <2>5 DEF ChainInfoOk
<1> QED  BY <1>3, <1>4, <1>5

(* No reader of the oracle combines values of two updates.                 *)
THEOREM QueriesAlwaysAgree == Spec => []QueriesAgree
BY OracleInvInit, OracleInvNext, AgreeFromSameUpdate, PTL DEF Spec
-----------------------------------------------------------------------------
(* The value of a chain.                                                   *)

LEMMA DecimalMulNat ==
  ASSUME NEW m \in Nat, NEW n \in Nat
  PROVE  DecimalMul(m, n) \in Nat
<1>1. m * n \in Nat
  OBVIOUS
<1> QED  BY <1>1, DecimalFractionalAssumption DEF DecimalMul

LEMMA AddExact ==
  ASSUME NEW x \in SignedDecimals, NEW y \in SignedDecimals
  PROVE  /\ Add(x, y) \in SignedDecimals
         /\ Number(Add(x, y)) = Number(x) + Number(y)
BY DEF SignedDecimals, Sign, Number, Add, FromDecimal

LEMMA DifferenceExact ==
  ASSUME NEW m \in Nat, NEW n \in Nat
  PROVE  LET difference == Sub(FromDecimal(m, "Positive"), FromDecimal(n, "Positive"))
         IN  difference \in SignedDecimals /\ Number(difference) = m - n
BY DEF SignedDecimals, Sign, Number, Sub, FromDecimal, Opposite

(* value is chain_accumulated_value after each of the first l alliances.   *)
IsAccumulated(value, lunaPrice, chain, l) ==
  value = [n \in 0..l |->
             IF n = 0 THEN Zero
             ELSE Add(value[n - 1],
                      AllianceValue(lunaPrice, chain, chain.posted.lunaAlliances[n]))]

LEMMA AccumulatedExists ==
  ASSUME NEW lunaPrice, NEW chain, NEW l \in Nat
  PROVE  \E value : IsAccumulated(value, lunaPrice, chain, l)
<1> DEFINE I == {m \in Nat : ~ \E value : IsAccumulated(value, lunaPrice, chain, m)}
           Step(n) == AllianceValue(lunaPrice, chain, chain.posted.lunaAlliances[n])
<1> SUFFICES ASSUME I # {} PROVE FALSE
  OBVIOUS
<1>1. PICK m \in I : \A j \in I : ~(j < m)
  <2>1. I \in SUBSET Nat
    OBVIOUS
  <2> HIDE DEF I
  <2> QED  BY <2>1, FirstPosition
<1>2. CASE m = 0
  <2> DEFINE value == [n \in 0..0 |-> Zero]
  <2>1. IsAccumulated(value, lunaPrice, chain, 0)
    <3>1. value = [n \in 0..0 |-> IF n = 0 THEN Zero ELSE Add(value[n - 1], Step(n))]
      <4> HIDE DEF Step
      <4> QED  OBVIOUS
    <3> QED  BY <3>1 DEF IsAccumulated
  <2> QED  BY <1>2, <2>1
<1>3. CASE m # 0
  <2>1. m - 1 \in Nat /\ m - 1 \notin I
    BY <1>1, <1>3
  <2>2. PICK before : IsAccumulated(before, lunaPrice, chain, m - 1)
    BY <2>1
  <2> DEFINE value == [n \in 0..m |->
                         IF n = m THEN Add(before[m - 1], Step(m)) ELSE before[n]]
  <2>3. value = [n \in 0..m |-> IF n = 0 THEN Zero ELSE Add(value[n - 1], Step(n))]
    <3>1. before = [n \in 0..(m - 1) |->
                      IF n = 0 THEN Zero ELSE Add(before[n - 1], Step(n))]
      BY <2>2 DEF IsAccumulated
    <3> HIDE DEF Step
    <3>2. \A n \in 0..m : n # 0 => value[n - 1] = before[n - 1]
      BY <2>1
    <3>3. \A n \in 0..m : value[n] = IF n = 0 THEN Zero ELSE Add(value[n - 1], Step(n))
      BY <1>3, <2>1, <3>1, <3>2
    <3> QED  BY <3>3
  <2>4. IsAccumulated(value, lunaPrice, chain, m)
    <3> HIDE DEF value
    <3> QED  BY <2>3 DEF IsAccumulated
  <2> QED  BY <2>4
<1> QED  BY <1>2, <1>3

LEMMA AccumulatedSteps ==
  ASSUME NEW lunaPrice, NEW chain, Len(chain.posted.lunaAlliances) \in Nat
  PROVE  LET alliances == chain.posted.lunaAlliances
             value == AccumulatedValue(lunaPrice, chain)
         IN  /\ value[0] = Zero
             /\ \A n \in 1..Len(alliances) :
                  value[n] = Add(value[n - 1], AllianceValue(lunaPrice, chain, alliances[n]))
<1> DEFINE alliances == chain.posted.lunaAlliances
           value == CHOOSE value : IsAccumulated(value, lunaPrice, chain, Len(alliances))
<1>1. IsAccumulated(value, lunaPrice, chain, Len(alliances))
  BY AccumulatedExists
<1>2. AccumulatedValue(lunaPrice, chain) = value
  BY DEF AccumulatedValue, IsAccumulated
<1> HIDE DEF value
<1>3. /\ value[0] = Zero
      /\ \A n \in 1..Len(alliances) :
           value[n] = Add(value[n - 1], AllianceValue(lunaPrice, chain, alliances[n]))
  <2>1. value = [n \in 0..Len(alliances) |->
                   IF n = 0 THEN Zero
                   ELSE Add(value[n - 1], AllianceValue(lunaPrice, chain, alliances[n]))]
    BY <1>1 DEF IsAccumulated
  <2>2. 0 \in 0..Len(alliances)
        /\ \A n \in 1..Len(alliances) : n \in 0..Len(alliances) /\ n # 0
    OBVIOUS
  <2> HIDE DEF alliances
  <2> QED  BY <2>1, <2>2
<1> QED  BY <1>2, <1>3

(* An alliance's value is what it distributes less what it takes.          *)
LEMMA AllianceValueExact ==
  ASSUME NEW lunaPrice \in Nat, NEW chain, chain.posted \in ChainInfoMsgs,
         NEW alliance \in LunaAlliances
  PROVE  /\ Distributed(chain, alliance) \in Nat
         /\ Taken(lunaPrice, alliance) \in Nat
         /\ AllianceValue(lunaPrice, chain, alliance) \in SignedDecimals
         /\ Number(AllianceValue(lunaPrice, chain, alliance)) =
              Distributed(chain, alliance) - Taken(lunaPrice, alliance)
<1>1. /\ chain.posted.annualProvisions \in Nat /\ chain.posted.tokenPrice \in Nat
      /\ alliance.normalizedRewardWeight \in Nat /\ alliance.annualTakeRate \in Nat
      /\ alliance.totalLsdStaked \in Nat /\ alliance.rebaseFactor \in Nat
  BY DEF ChainInfoMsgs, LunaAlliances
<1>2. Distributed(chain, alliance) \in Nat
  BY <1>1, DecimalMulNat DEF Distributed, TokensDistributed
<1>3. Taken(lunaPrice, alliance) \in Nat
  BY <1>1, DecimalMulNat DEF Taken, LunaTaken, LunaStaked
<1> QED  BY <1>2, <1>3, DifferenceExact DEF AllianceValue

(* A sum over 1..n splits off its last term.                               *)
LEMMA SumLast ==
  ASSUME NEW n \in Nat, n > 0, NEW f, \A k \in 1..n : f[k] \in Int
  PROVE  SumOver(f, 1..n) = SumOver(f, 1..(n - 1)) + f[n]
<1>1. IsFiniteSet(1..n) /\ IsFiniteSet(1..(n - 1)) /\ n \in 1..n
  BY FS_Interval
<1>2. (1..n) \ {n} = 1..(n - 1)
  OBVIOUS
<1>3. SumOver(f, 1..n) = f[n] + SumOver(f, (1..n) \ {n})
  BY <1>1, SumRemove
<1>4. SumOver(f, 1..(n - 1)) \in Int /\ f[n] \in Int
  <2>1. \A k \in 1..(n - 1) : k \in 1..n
    OBVIOUS
  <2> QED  BY <1>1, <2>1, SumInt
<1>5. SumOver(f, 1..n) = f[n] + SumOver(f, 1..(n - 1))
  BY <1>2, <1>3
<1> QED  BY <1>4, <1>5

(* After n alliances the accumulated value stands for the difference of    *)
(* the sums up to n.                                                       *)
LEMMA AccumulatedExact ==
  ASSUME NEW lunaPrice \in Nat, NEW chain, chain.posted \in ChainInfoMsgs,
         NEW n \in 0..Len(chain.posted.lunaAlliances)
  PROVE  /\ AccumulatedValue(lunaPrice, chain)[n] \in SignedDecimals
         /\ Number(AccumulatedValue(lunaPrice, chain)[n]) =
              SumOver(Brought(chain), 1..n) - SumOver(Cost(lunaPrice, chain), 1..n)
<1> DEFINE alliances == chain.posted.lunaAlliances
           value == AccumulatedValue(lunaPrice, chain)
           brought == Brought(chain)
           cost == Cost(lunaPrice, chain)
           Step(k) == AllianceValue(lunaPrice, chain, alliances[k])
           Exact(k) == /\ value[k] \in SignedDecimals
                       /\ Number(value[k]) = SumOver(brought, 1..k) - SumOver(cost, 1..k)
           I == {k \in 0..Len(alliances) : ~Exact(k)}
<1>1. /\ alliances \in Seq(LunaAlliances) /\ Len(alliances) \in Nat
      /\ DOMAIN alliances = 1..Len(alliances)
  BY DEF ChainInfoMsgs
<1>2. \A k \in 1..Len(alliances) :
        /\ brought[k] \in Nat /\ cost[k] \in Nat
        /\ Step(k) \in SignedDecimals /\ Number(Step(k)) = brought[k] - cost[k]
  <2> SUFFICES ASSUME NEW k \in 1..Len(alliances)
               PROVE  /\ brought[k] \in Nat /\ cost[k] \in Nat
                      /\ Step(k) \in SignedDecimals /\ Number(Step(k)) = brought[k] - cost[k]
    OBVIOUS
  <2>1. alliances[k] \in LunaAlliances
    BY <1>1
  <2>2. brought[k] = Distributed(chain, alliances[k]) /\ cost[k] = Taken(lunaPrice, alliances[k])
    BY <1>1 DEF Brought, Cost
  <2> QED  BY <2>1, <2>2, AllianceValueExact
<1>3. value[0] = Zero /\ \A k \in 1..Len(alliances) : value[k] = Add(value[k - 1], Step(k))
  BY <1>1, AccumulatedSteps
<1> HIDE DEF value, brought, cost, Step
<1>4. Exact(0)
  <2>1. 1..0 = {} /\ SumOver(brought, {}) = 0 /\ SumOver(cost, {}) = 0
    BY SumEmpty
  <2> QED  BY <1>3, <2>1 DEF Zero, SignedDecimals, Sign, Number
<1>5. ASSUME NEW k \in 1..Len(alliances), Exact(k - 1) PROVE Exact(k)
  <2>1. k \in Nat /\ k > 0 /\ \A j \in 1..k : brought[j] \in Int /\ cost[j] \in Int
    BY <1>1, <1>2
  <2>2. /\ SumOver(brought, 1..k) = SumOver(brought, 1..(k - 1)) + brought[k]
        /\ SumOver(cost, 1..k) = SumOver(cost, 1..(k - 1)) + cost[k]
    BY <2>1, SumLast
  <2>3. SumOver(brought, 1..(k - 1)) \in Int /\ SumOver(cost, 1..(k - 1)) \in Int
    <3>1. IsFiniteSet(1..(k - 1)) /\ \A j \in 1..(k - 1) : j \in 1..k
      BY <2>1, FS_Interval
    <3> QED  BY <2>1, <3>1, SumInt
  <2>4. /\ value[k] \in SignedDecimals
        /\ Number(value[k]) = Number(value[k - 1]) + Number(Step(k))
    BY <1>2, <1>3, <1>5, AddExact
  <2> QED  BY <1>2, <1>5, <2>1, <2>2, <2>3, <2>4
<1> SUFFICES ASSUME I # {} PROVE FALSE
  BY DEF value, brought, cost
<1>6. PICK k \in I : \A j \in I : ~(j < k)
  <2>1. I \in SUBSET Nat
    BY <1>1
  <2> HIDE DEF I
  <2> QED  BY <2>1, FirstPosition
<1> HIDE DEF Exact
<1>7. k # 0 /\ k - 1 \in 0..Len(alliances) /\ k \in 1..Len(alliances)
  BY <1>1, <1>4, <1>6
<1>8. Exact(k - 1)
  BY <1>6, <1>7
<1> QED  BY <1>5, <1>6, <1>7, <1>8

(* What is known of a chain that was posted.                               *)
LEMMA PostedTypes ==
  ASSUME OracleInv, chainsInfo # NotFound
  PROVE  /\ lunaInfo # NotFound /\ lunaInfo.lunaPrice \in Nat
         /\ DOMAIN chainsInfo \in SUBSET Nat /\ IsFiniteSet(DOMAIN chainsInfo)
         /\ \A i \in DOMAIN chainsInfo :
              /\ chainsInfo[i].posted \in ChainInfoMsgs
              /\ chainsInfo[i].chainId \in ChainIds
<1>1. /\ lunaInfo \in LunaInfos /\ lunaInfo # NotFound /\ chainsInfo \in Seq(ChainInfos)
  BY PostedSameUpdate DEF SameUpdate
<1>2. DOMAIN chainsInfo = 1..Len(chainsInfo) /\ Len(chainsInfo) \in Nat
  BY <1>1
<1>3. IsFiniteSet(1..Len(chainsInfo))
  BY <1>2, FS_Interval
<1>4. \A i \in DOMAIN chainsInfo : chainsInfo[i] \in ChainInfos
  BY <1>1, <1>2
<1> QED  BY <1>1, <1>2, <1>3, <1>4 DEF LunaInfos, ChainInfos

(* However the signs of its alliances' values meet, the value of a chain   *)
(* is exact.                                                               *)
THEOREM ChainValueAlwaysExact == Spec => []ChainValueExact
<1>1. ASSUME OracleInv PROVE ChainValueExact
  <2> SUFFICES ASSUME chainsInfo # NotFound, NEW i \in DOMAIN chainsInfo
               PROVE  LET chain == chainsInfo[i]
                          alliances == DOMAIN chain.posted.lunaAlliances
                      IN  Number(ChainValue(chain)) =
                            SumOver(Brought(chain), alliances)
                              - SumOver(Cost(lunaInfo.lunaPrice, chain), alliances)
    BY DEF ChainValueExact
  <2> DEFINE chain == chainsInfo[i]
             l == Len(chain.posted.lunaAlliances)
  <2>1. lunaInfo.lunaPrice \in Nat /\ chain.posted \in ChainInfoMsgs
    BY <1>1, PostedTypes
  <2>2. DOMAIN chain.posted.lunaAlliances = 1..l /\ l \in 0..l
    BY <2>1 DEF ChainInfoMsgs
  <2> QED  BY <2>1, <2>2, AccumulatedExact DEF ChainValue
<1> QED  BY <1>1, OracleInvInit, OracleInvNext, PTL DEF Spec
-----------------------------------------------------------------------------
(* Stakes and shares.                                                      *)

LEMMA LastIsGreatest ==
  ASSUME NEW n \in Nat, NEW I \in SUBSET (1..n), I # {}
  PROVE  \E m \in I : \A j \in I : m >= j
<1> DEFINE J == {n - i : i \in I}
<1>1. J \in SUBSET Nat /\ J # {}
  <2>1. \A i \in I : i \in 1..n /\ n - i \in Nat
    OBVIOUS
  <2>2. PICK i \in I : n - i \in J
    OBVIOUS
  <2>3. \A m \in J : m \in Nat
    BY <2>1
  <2> HIDE DEF J
  <2> QED  BY <2>2, <2>3
<1>2. PICK m \in J : \A j \in J : ~(j < m)
  <2> HIDE DEF J
  <2> QED  BY <1>1, FirstPosition
<1>3. PICK k \in I : m = n - k
  <2>1. m \in {n - i : i \in I}
    BY <1>2
  <2> QED  BY <2>1
<1>4. \A i \in I : n - i \in J /\ i \in 1..n
  OBVIOUS
<1>5. \A i \in I : k >= i
  <2> HIDE DEF J
  <2> QED  BY <1>2, <1>3, <1>4
<1> QED  BY <1>5

LEMMA LastPosition ==
  ASSUME NEW n \in Nat, NEW I \in SUBSET (1..n), I # {}
  PROVE  Max(I) \in I
BY LastIsGreatest DEF Max

(* A rebase factor is one that a posted chain lists, or one.               *)
LEMMA DenomRebaseListed ==
  ASSUME OracleInv, chainsInfo # NotFound, NEW request, NEW denom
  PROVE  \/ DenomRebase(request, denom) = Percent100
         \/ \E i \in DOMAIN chainsInfo :
              \E j \in DOMAIN chainsInfo[i].posted.chainAlliancesOnPhoenix :
                DenomRebase(request, denom) =
                  chainsInfo[i].posted.chainAlliancesOnPhoenix[j].rebaseFactor
<1> DEFINE listing == {i \in Requested(request) : Listings(i, denom) # {}}
           i == Max(listing)
           j == Max(Listings(i, denom))
           listed(c) == chainsInfo[c].posted.chainAlliancesOnPhoenix
<1>1. chainsInfo \in Seq(ChainInfos)
  BY PostedSameUpdate DEF SameUpdate
<1>2. CASE listing = {}
  BY <1>2, Zenon DEF DenomRebase
<1>3. CASE listing # {}
  <2>1. i \in listing
    <3>1. Len(chainsInfo) \in Nat /\ listing \in SUBSET (1..Len(chainsInfo))
      BY <1>1 DEF Requested
    <3> HIDE DEF listing
    <3> QED  BY <1>3, <3>1, LastPosition
  <2> HIDE DEF i
  <2>2. i \in DOMAIN chainsInfo /\ Listings(i, denom) # {}
    BY <2>1 DEF Requested
  <2>3. listed(i) \in Seq(BaseAlliances)
    BY <1>1, <2>2, PostedTypes DEF ChainInfoMsgs
  <2>4. j \in Listings(i, denom)
    <3>1. Len(listed(i)) \in Nat /\ Listings(i, denom) \in SUBSET (1..Len(listed(i)))
      BY <2>3 DEF Listings
    <3> QED  BY <2>2, <3>1, LastPosition
  <2> HIDE DEF j
  <2>5. j \in DOMAIN listed(i)
    BY <2>4 DEF Listings
  <2>6. DenomRebase(request, denom) = listed(i)[j].rebaseFactor
    BY <1>3, Zenon DEF DenomRebase, i, j
  <2> QED  BY <2>2, <2>5, <2>6
<1> QED  BY <1>2, <1>3

LEMMA DenomRebaseNat ==
  ASSUME OracleInv, chainsInfo # NotFound, NEW request, NEW denom
  PROVE  DenomRebase(request, denom) \in Nat
<1>1. CASE DenomRebase(request, denom) = Percent100
  BY <1>1, DecimalFractionalAssumption DEF Percent100
<1>2. CASE DenomRebase(request, denom) # Percent100
  <2>1. PICK i \in DOMAIN chainsInfo :
          \E j \in DOMAIN chainsInfo[i].posted.chainAlliancesOnPhoenix :
            DenomRebase(request, denom) =
              chainsInfo[i].posted.chainAlliancesOnPhoenix[j].rebaseFactor
    BY <1>2, DenomRebaseListed
  <2>2. chainsInfo[i].posted.chainAlliancesOnPhoenix \in Seq(BaseAlliances)
    BY PostedTypes DEF ChainInfoMsgs
  <2>3. \A j \in DOMAIN chainsInfo[i].posted.chainAlliancesOnPhoenix :
          chainsInfo[i].posted.chainAlliancesOnPhoenix[j] \in BaseAlliances
    BY <2>2
  <2> QED  BY <2>1, <2>3 DEF BaseAlliances
<1> QED  BY <1>1, <1>2

LEMMA DivMul ==
  ASSUME NEW m \in Nat, NEW n \in Nat, n > 0
  PROVE  (m * n) \div n = m
OBVIOUS

LEMMA Rearranged ==
  ASSUME NEW m \in Nat, NEW n \in Nat, NEW k \in Nat
  PROVE  m * n \in Nat /\ (m * n) * k = (m * k) * n
OBVIOUS

(* A stake is rebased without rounding.                                    *)
LEMMA StakedExact ==
  ASSUME OracleInv, chainsInfo # NotFound, NEW request, NEW asset, asset.amount \in Nat
  PROVE  /\ Staked(request, asset) = asset.amount * DenomRebase(request, asset.denom)
         /\ Staked(request, asset) \in Nat
<1> DEFINE n == asset.amount
           factor == DenomRebase(request, asset.denom)
<1>1. factor \in Nat
  BY DenomRebaseNat
<1>2. Staked(request, asset) = ((n * DecimalFractional) * factor) \div DecimalFractional
  BY DEF Staked, DecimalMul, FromAtomics
<1> HIDE DEF factor, n
<1>3. n \in Nat /\ DecimalFractional \in Nat /\ DecimalFractional > 0
  BY DecimalFractionalAssumption DEF n
<1>4. n * factor \in Nat /\ (n * DecimalFractional) * factor = (n * factor) * DecimalFractional
  BY <1>1, <1>3, Rearranged
<1>5. Staked(request, asset) = n * factor
  BY <1>2, <1>3, <1>4, DivMul
<1> QED  BY <1>4, <1>5 DEF n, factor

(* The positions of a sequence are finitely many, and what stands at them. *)
LEMMA Elements ==
  ASSUME NEW S, NEW s \in Seq(S)
  PROVE  IsFiniteSet(DOMAIN s) /\ \A k \in DOMAIN s : s[k] \in S
<1>1. DOMAIN s = 1..Len(s) /\ Len(s) \in Nat
  OBVIOUS
<1>2. IsFiniteSet(1..Len(s))
  BY <1>1, FS_Interval
<1> QED  BY <1>1, <1>2

(* The assets a request names for a chain.                                 *)
LEMMA AssetsTypes ==
  ASSUME NEW request \in Requests, NEW id \in DOMAIN request
  PROVE  /\ IsFiniteSet(DOMAIN request[id])
         /\ \A k \in DOMAIN request[id] : request[id][k].amount \in Nat
<1>1. request[id] \in Seq([denom : Denoms, amount : Nat])
  BY RequestsAssumption
<1>2. /\ IsFiniteSet(DOMAIN request[id])
      /\ \A k \in DOMAIN request[id] : request[id][k] \in [denom : Denoms, amount : Nat]
  BY <1>1, Elements
<1>3. \A asset \in [denom : Denoms, amount : Nat] : asset.amount \in Nat
  OBVIOUS
<1> QED  BY <1>2, <1>3, Zenon

LEMMA TotalStakedCovers ==
  ASSUME OracleInv, chainsInfo # NotFound, NEW request \in Requests,
         NEW i \in Requested(request)
  PROVE  LET assets == request[chainsInfo[i].chainId]
             staked == [k \in DOMAIN assets |-> Staked(request, assets[k])]
         IN  /\ IsFiniteSet(DOMAIN assets)
             /\ TotalStaked(request, chainsInfo[i]) = SumOver(staked, DOMAIN assets)
             /\ TotalStaked(request, chainsInfo[i]) \in Nat
             /\ \A k \in DOMAIN assets :
                  /\ staked[k] = Staked(request, assets[k])
                  /\ staked[k] \in Nat
                  /\ staked[k] <= TotalStaked(request, chainsInfo[i])
<1> DEFINE id == chainsInfo[i].chainId
           assets == request[id]
           staked == [k \in DOMAIN assets |-> Staked(request, assets[k])]
<1>1. id \in DOMAIN request
  BY DEF Requested
<1>2. IsFiniteSet(DOMAIN assets) /\ \A k \in DOMAIN assets : assets[k].amount \in Nat
  BY <1>1, AssetsTypes
<1>3. \A k \in DOMAIN assets : staked[k] = Staked(request, assets[k]) /\ staked[k] \in Nat
  BY <1>2, StakedExact
<1>4. TotalStaked(request, chainsInfo[i]) = SumOver(staked, DOMAIN assets)
  BY DEF TotalStaked
<1> HIDE DEF staked
<1>5. /\ SumOver(staked, DOMAIN assets) \in Nat
      /\ \A k \in DOMAIN assets : staked[k] <= SumOver(staked, DOMAIN assets)
  BY <1>2, <1>3, SumNat, SumBoundsValue
<1> QED  BY <1>2, <1>3, <1>4, <1>5 DEF staked

LEMMA ProductNat ==
  ASSUME NEW m \in Nat, NEW n \in Nat
  PROVE  m * n \in Nat
OBVIOUS

LEMMA DivBounds ==
  ASSUME NEW m \in Nat, NEW n \in Nat, n > 0
  PROVE  /\ m \div n \in Nat
         /\ (m \div n) * n <= m
         /\ m - (m \div n) * n <= n - 1
OBVIOUS

(* The two divisions of a share lose less than an atomic each.             *)
LEMMA ShareRounds ==
  ASSUME NEW v \in Nat, NEW s \in Nat, NEW t \in Nat, t > 0
  PROVE  LET share == DecimalDiv(DecimalMul(v, s), t)
         IN  /\ share \in Nat
             /\ share * t <= v * s
             /\ v * s - share * t <= DecimalFractional + t - 2
<1> DEFINE DF == DecimalFractional
           p == (v * s) \div DF
           q == (p * DF) \div t
<1>1. DF \in Nat /\ DF > 0
  BY DecimalFractionalAssumption
<1>2. DecimalDiv(DecimalMul(v, s), t) = q
  BY DEF DecimalDiv, DecimalMul
<1>3. v * s \in Nat
  BY ProductNat
<1> HIDE DEF DF
<1>4. p \in Nat /\ p * DF <= v * s /\ v * s - p * DF <= DF - 1
  BY <1>1, <1>3, DivBounds
<1> HIDE DEF p
<1>5. p * DF \in Nat
  BY <1>1, <1>4, ProductNat
<1>6. q \in Nat /\ q * t <= p * DF /\ p * DF - q * t <= t - 1
  BY <1>5, DivBounds
<1> HIDE DEF q
<1>7. q * t \in Nat
  BY <1>6, ProductNat
<1>8. q * t <= v * s /\ v * s - q * t <= DF + t - 2
  BY <1>1, <1>3, <1>4, <1>5, <1>6, <1>7
<1> QED  BY <1>2, <1>6, <1>8 DEF DF

(* A share has the sign of the value it is a share of.                     *)
LEMMA ShareSign ==
  ASSUME NEW x \in SignedDecimals, NEW s \in Nat, NEW t \in Nat, t > 0
  PROVE  LET share == Div(Mul(x, Whole(s)), Whole(t))
         IN  /\ share.value = DecimalDiv(DecimalMul(x.value, s), t)
             /\ share.value # 0 => share.sign = x.sign
<1> DEFINE d == DecimalMul(x.value, s)
           q == DecimalDiv(d, t)
           product == Mul(x, Whole(s))
<1>1. x.value \in Nat /\ x.sign \in {"Positive", "Negative"} /\ d \in Nat
  BY DecimalMulNat DEF SignedDecimals, Sign
<1>2. /\ Whole(s).value = s /\ Whole(s).sign = "Positive"
      /\ Whole(t).value = t /\ Whole(t).sign = "Positive"
  BY DEF Whole, FromDecimal
<1>3. product = FromDecimal(d, x.sign)
  BY <1>1, <1>2 DEF Mul, ProductSign
<1>4. product.value = d /\ (d # 0 => product.sign = x.sign)
  BY <1>3 DEF FromDecimal
<1> HIDE DEF product, d
<1>5. Div(product, Whole(t)) = FromDecimal(q, ProductSign(product, Whole(t)))
  BY <1>2, <1>4 DEF Div
<1>6. d = 0 => q = 0
  <2>1. 0 * DecimalFractional = 0 /\ 0 \div t = 0
    BY DecimalFractionalAssumption
  <2> QED  BY <2>1 DEF DecimalDiv
<1>7. d # 0 => ProductSign(product, Whole(t)) = x.sign
  BY <1>1, <1>2, <1>4 DEF ProductSign
<1> HIDE DEF q
<1> QED  BY <1>5, <1>6, <1>7 DEF FromDecimal, product, d, q

LEMMA ChainValueType ==
  ASSUME OracleInv, chainsInfo # NotFound, NEW i \in DOMAIN chainsInfo
  PROVE  ChainValue(chainsInfo[i]) \in SignedDecimals /\ ChainValue(chainsInfo[i]).value \in Nat
<1>1. lunaInfo.lunaPrice \in Nat /\ chainsInfo[i].posted \in ChainInfoMsgs
  BY PostedTypes
<1>2. Len(chainsInfo[i].posted.lunaAlliances) \in 0..Len(chainsInfo[i].posted.lunaAlliances)
  BY <1>1 DEF ChainInfoMsgs
<1>3. ChainValue(chainsInfo[i]) \in SignedDecimals
  BY <1>1, <1>2, AccumulatedExact DEF ChainValue
<1> QED  BY <1>3 DEF SignedDecimals

(* What a requested chain's assets get.                                    *)
LEMMA ShareBounds ==
  ASSUME OracleInv, chainsInfo # NotFound, NEW request \in Requests,
         NEW i \in Requested(request),
         NEW k \in DOMAIN request[chainsInfo[i].chainId]
  PROVE  LET asset == request[chainsInfo[i].chainId][k]
             value == ChainValue(chainsInfo[i])
             total == TotalStaked(request, chainsInfo[i])
             share == Share(request, chainsInfo[i], asset)
         IN  /\ value.value \in Nat /\ share.value \in Nat
             /\ share.value # 0 => share.sign = value.sign /\ total > 0
             /\ share.value * total <= value.value * Staked(request, asset)
             /\ total > 0 =>
                  value.value * Staked(request, asset) - share.value * total
                    <= DecimalFractional + total - 2
<1> DEFINE chain == chainsInfo[i]
           asset == request[chain.chainId][k]
           value == ChainValue(chain)
           total == TotalStaked(request, chain)
           staked == Staked(request, asset)
           share == Share(request, chain, asset)
<1>1. value \in SignedDecimals /\ value.value \in Nat
  BY ChainValueType DEF Requested
<1>2. total \in Nat /\ staked \in Nat /\ staked <= total
  BY TotalStakedCovers
<1>3. DecimalFractional \in Nat /\ DecimalFractional > 0
  BY DecimalFractionalAssumption
<1> HIDE DEF value, total, staked
<1>4. CASE staked = 0
  <2>1. share = Zero
    BY <1>4 DEF Share, HasShare, staked
  <2>2. share.value = 0
    BY <2>1 DEF Zero
  <2>3. share.value * total = 0 /\ value.value * staked = 0
    BY <1>1, <1>2, <1>4, <2>2
  <2> HIDE DEF share
  <2>4. /\ share.value \in Nat
        /\ share.value # 0 => share.sign = value.sign /\ total > 0
        /\ share.value * total <= value.value * staked
        /\ total > 0 =>
             value.value * staked - share.value * total <= DecimalFractional + total - 2
    BY <1>2, <1>3, <2>2, <2>3
  <2> QED  BY <1>1, <2>4 DEF value, total, staked, share
<1>5. CASE staked # 0
  <2>1. share = Div(Mul(value, Whole(staked)), Whole(total))
    BY <1>5 DEF Share, HasShare, value, total, staked
  <2>2. total > 0
    BY <1>2, <1>5
  <2> HIDE DEF share
  <2>3. /\ share.value = DecimalDiv(DecimalMul(value.value, staked), total)
        /\ share.value # 0 => share.sign = value.sign
    BY <1>1, <1>2, <2>1, <2>2, ShareSign
  <2>4. /\ share.value \in Nat
        /\ share.value * total <= value.value * staked
        /\ value.value * staked - share.value * total <= DecimalFractional + total - 2
    BY <1>1, <1>2, <2>2, <2>3, ShareRounds
  <2> QED  BY <1>1, <2>2, <2>3, <2>4 DEF value, total, staked, share
<1> QED  BY <1>4, <1>5

LEMMA MinusDistributes ==
  ASSUME NEW m \in Int, NEW n \in Int, NEW c \in Int
  PROVE  c * (m - n) = c * m - c * n
OBVIOUS

LEMMA CancelFactor ==
  ASSUME NEW m \in Nat, NEW n \in Nat, NEW c \in Nat, c > 0, m * c <= n * c
  PROVE  m <= n
<1> SUFFICES ASSUME n + 1 <= m PROVE FALSE
  OBVIOUS
<1>1. (n + 1) * c <= m * c
  OBVIOUS
<1>2. (n + 1) * c = n * c + c
  OBVIOUS
<1>3. m * c \in Nat /\ n * c \in Nat
  BY ProductNat
<1> QED  BY <1>1, <1>2, <1>3

(* The shares of a chain's assets have the sign of its value, are together *)
(* at most that value, and less only by the rounding of each share.        *)
LEMMA SharesOfValue ==
  ASSUME OracleInv, chainsInfo # NotFound, NEW request \in Requests,
         NEW i \in Requested(request)
  PROVE  LET value == ChainValue(chainsInfo[i])
             total == TotalStaked(request, chainsInfo[i])
             answer == EmissionsDistribution(request)[i]
             shared == SumOver([k \in DOMAIN answer |-> answer[k].distribution.value],
                               DOMAIN answer)
         IN  /\ \A k \in DOMAIN answer :
                  answer[k].distribution.value # 0 =>
                    answer[k].distribution.sign = value.sign
             /\ shared <= value.value
             /\ total > 0 =>
                  total * (value.value - shared) <=
                    Cardinality(DOMAIN answer) * (DecimalFractional + total - 2)
<1> DEFINE assets == request[chainsInfo[i].chainId]
           A == DOMAIN assets
           total == TotalStaked(request, chainsInfo[i])
           v == ChainValue(chainsInfo[i]).value
           sign == ChainValue(chainsInfo[i]).sign
           answer == EmissionsDistribution(request)[i]
           share == [k \in A |-> answer[k].distribution.value]
           staked == [k \in A |-> Staked(request, assets[k])]
           scaled == [k \in A |-> total * share[k]]
           exact == [k \in A |-> v * staked[k]]
           loss == [k \in A |-> exact[k] - scaled[k]]
           most == DecimalFractional + total - 2
           shared == SumOver(share, A)
<1>1. /\ IsFiniteSet(A)
      /\ total = SumOver(staked, A) /\ total \in Nat
      /\ \A k \in A : staked[k] = Staked(request, assets[k]) /\ staked[k] \in Nat
  BY TotalStakedCovers
<1>2. /\ DOMAIN answer = A
      /\ \A k \in A : answer[k].distribution = Share(request, chainsInfo[i], assets[k])
  BY DEF EmissionsDistribution
<1>3. ASSUME NEW k \in A
      PROVE  /\ v \in Nat /\ share[k] \in Nat
             /\ share[k] # 0 => answer[k].distribution.sign = sign /\ total > 0
             /\ share[k] * total <= v * staked[k]
             /\ total > 0 => v * staked[k] - share[k] * total <= most
  <2>1. share[k] = Share(request, chainsInfo[i], assets[k]).value
    BY <1>2
  <2>2. staked[k] = Staked(request, assets[k])
    BY <1>1
  <2> HIDE DEF share, staked, answer
  <2> QED  BY <1>2, <2>1, <2>2, ShareBounds
<1>4. v \in Nat
  BY ChainValueType DEF Requested
<1>5. DecimalFractional \in Nat /\ DecimalFractional > 0
  BY DecimalFractionalAssumption
<1> HIDE DEF total, v, sign, answer, staked
<1>6. \A k \in A :
        /\ share[k] \in Nat
        /\ scaled[k] \in Nat /\ scaled[k] = total * share[k] /\ scaled[k] = share[k] * total
        /\ exact[k] \in Nat /\ exact[k] = v * staked[k]
        /\ loss[k] \in Nat /\ exact[k] = scaled[k] + loss[k]
        /\ total > 0 => loss[k] <= most
  <2> SUFFICES ASSUME NEW k \in A
               PROVE  /\ share[k] \in Nat
                      /\ scaled[k] \in Nat
                      /\ scaled[k] = total * share[k] /\ scaled[k] = share[k] * total
                      /\ exact[k] \in Nat /\ exact[k] = v * staked[k]
                      /\ loss[k] \in Nat /\ exact[k] = scaled[k] + loss[k]
                      /\ total > 0 => loss[k] <= most
    OBVIOUS
  <2>1. /\ share[k] \in Nat /\ share[k] * total <= v * staked[k]
        /\ total > 0 => v * staked[k] - share[k] * total <= most
    BY <1>3
  <2>2. share[k] * total \in Nat /\ total * share[k] = share[k] * total /\ v * staked[k] \in Nat
    BY <1>1, <1>4, <2>1, ProductNat
  <2>3. /\ scaled[k] = total * share[k] /\ exact[k] = v * staked[k]
        /\ loss[k] = exact[k] - scaled[k]
    OBVIOUS
  <2> HIDE DEF share, scaled, exact, loss, most
  <2> QED  BY <2>1, <2>2, <2>3
<1> HIDE DEF share, scaled, exact, loss
<1>7. /\ shared \in Nat /\ SumOver(scaled, A) \in Nat /\ SumOver(loss, A) \in Nat
      /\ SumOver(scaled, A) = total * shared
      /\ SumOver(exact, A) = v * total
      /\ SumOver(exact, A) = SumOver(scaled, A) + SumOver(loss, A)
  <2>1. shared \in Nat /\ SumOver(scaled, A) \in Nat /\ SumOver(loss, A) \in Nat
    BY <1>1, <1>6, SumNat
  <2>2. SumOver(scaled, A) = total * shared
    BY <1>1, <1>6, SumScale
  <2>3. SumOver(exact, A) = v * total
    BY <1>1, <1>4, <1>6, SumScale
  <2>4. SumOver(exact, A) = SumOver(scaled, A) + SumOver(loss, A)
    BY <1>1, <1>6, SumAdd
  <2> QED  BY <2>1, <2>2, <2>3, <2>4
<1> HIDE DEF shared
<1>8. shared <= v
  <2>1. CASE total = 0
    <3>1. \A k \in A : share[k] = 0
      BY <1>3, <2>1
    <3>2. shared = 0
      BY <1>1, <3>1, SumZero DEF shared
    <3> QED  BY <1>4, <3>2
  <2>2. CASE total > 0
    <3>1. shared * total <= v * total
      <4>1. total * shared = shared * total
        BY <1>1, <1>7
      <4> QED  BY <1>7, <4>1
    <3> QED  BY <1>1, <1>4, <1>7, <2>2, <3>1, CancelFactor
  <2> QED  BY <1>1, <2>1, <2>2
<1>9. total > 0 => total * (v - shared) <= Cardinality(A) * most
  <2> SUFFICES ASSUME total > 0 PROVE total * (v - shared) <= Cardinality(A) * most
    OBVIOUS
  <2> DEFINE ones == [k \in A |-> 1]
             bound == [k \in A |-> most]
  <2>1. most \in Nat
    BY <1>1, <1>5
  <2>2. \A k \in A : ones[k] = 1 /\ bound[k] = most /\ bound[k] = most * ones[k]
    BY <2>1
  <2> HIDE DEF ones, bound, most
  <2>3. Cardinality(A) \in Nat /\ SumOver(ones, A) = Cardinality(A)
    BY <1>1, <2>2, SumOnes, FS_CardinalityType
  <2>4. SumOver(bound, A) = most * SumOver(ones, A)
    BY <1>1, <2>1, <2>2, SumScale
  <2>5. SumOver(loss, A) <= SumOver(bound, A)
    <3>1. \A k \in A : loss[k] \in Int /\ bound[k] \in Int /\ loss[k] <= bound[k]
      BY <1>6, <2>1, <2>2
    <3> QED  BY <1>1, <3>1, SumMonotonic
  <2>6. total * (v - shared) = total * v - total * shared /\ total * v = v * total
    BY <1>1, <1>4, <1>7, MinusDistributes
  <2>7. total * (v - shared) = SumOver(loss, A)
    BY <1>7, <2>6
  <2>8. most * Cardinality(A) = Cardinality(A) * most
    BY <2>1, <2>3
  <2> QED  BY <2>3, <2>4, <2>5, <2>7, <2>8
<1>10. \A k \in A : answer[k].distribution.value # 0 => answer[k].distribution.sign = sign
  <2>1. \A k \in A : share[k] = answer[k].distribution.value
    BY DEF share
  <2> QED  BY <1>3, <2>1
<1> QED  BY <1>2, <1>8, <1>9, <1>10 DEF shared, share, total, v, sign, answer

(* Nobody gets a share of the wrong sign, a chain never distributes more   *)
(* than its value, and what it holds back is rounding.                     *)
THEOREM EmissionsAlwaysShareChainValue == Spec => []EmissionsShareChainValue
<1>1. ASSUME OracleInv PROVE EmissionsShareChainValue
  <2>1. ASSUME NEW request \in Requests, EmissionsDistributionOk(request)
        PROVE  chainsInfo # NotFound
    BY <2>1, Zenon DEF EmissionsDistributionOk
  <2> QED  BY <1>1, <2>1, SharesOfValue, Zenon DEF EmissionsShareChainValue
<1> QED  BY <1>1, OracleInvInit, OracleInvNext, PTL DEF Spec
-----------------------------------------------------------------------------
(* Chains are answered apart.                                              *)

(* The positions that list a denom; the last of them, where there is one,  *)
(* decides on the factor.                                                  *)
Listing(request, denom) == {j \in Requested(request) : Listings(j, denom) # {}}

Factor(j, denom) ==
  chainsInfo[j].posted.chainAlliancesOnPhoenix[Max(Listings(j, denom))].rebaseFactor

LEMMA LastListing ==
  ASSUME OracleInv, chainsInfo # NotFound, NEW request, NEW denom
  PROVE  /\ Listing(request, denom) = {} => DenomRebase(request, denom) = Percent100
         /\ Listing(request, denom) # {} =>
              \E last \in Listing(request, denom) :
                /\ \A j \in Listing(request, denom) : j <= last
                /\ DenomRebase(request, denom) = Factor(last, denom)
<1> DEFINE listing == Listing(request, denom)
           last == Max(listing)
<1>1. DenomRebase(request, denom) =
        IF listing = {} THEN Percent100 ELSE Factor(last, denom)
  BY Zenon DEF DenomRebase, Listing, Factor
<1>2. Len(chainsInfo) \in Nat /\ listing \in SUBSET (1..Len(chainsInfo))
  BY PostedSameUpdate DEF SameUpdate, Listing, Requested
<1> HIDE DEF listing
<1>3. ASSUME listing # {} PROVE last \in listing /\ \A j \in listing : j <= last
  <2>1. last \in listing
    BY <1>2, <1>3, LastPosition
  <2>2. \E m \in listing : \A j \in listing : m >= j
    BY <1>2, <1>3, LastIsGreatest
  <2>3. \A j \in listing : last >= j
    BY <2>2 DEF Max
  <2> QED  BY <1>2, <2>1, <2>3
<1> HIDE DEF last
<1> QED  BY <1>1, <1>3 DEF listing

(* A denom that has one factor wherever it is listed is reckoned with that *)
(* factor in every answer that asks about one of those chains.             *)
LEMMA RebasedAlike ==
  ASSUME OracleInv, chainsInfo # NotFound, NEW request, NEW denom,
         NEW i \in Requested(request),
         \A j \in Requested(request) :
           Listings(j, denom) # {} =>
             DenomRebase(ForChain(request, j), denom) =
               DenomRebase(ForChain(request, i), denom)
  PROVE  DenomRebase(request, denom) = DenomRebase(ForChain(request, i), denom)
<1>1. \A j \in Requested(request) :
        /\ j \in Requested(ForChain(request, j))
        /\ Requested(ForChain(request, j)) \subseteq Requested(request)
  BY DEF Requested, ForChain
<1>2. CASE Listing(request, denom) = {}
  <2>1. Listing(ForChain(request, i), denom) = {}
    BY <1>1, <1>2 DEF Listing
  <2> QED  BY <1>2, <2>1, LastListing
<1>3. CASE Listing(request, denom) # {}
  <2>1. PICK last \in Listing(request, denom) :
          /\ \A j \in Listing(request, denom) : j <= last
          /\ DenomRebase(request, denom) = Factor(last, denom)
    BY <1>3, LastListing
  <2>2. last \in Requested(request) /\ Listings(last, denom) # {} /\ last \in Nat
    BY <2>1, PostedTypes DEF Listing, Requested
  <2> DEFINE alone == Listing(ForChain(request, last), denom)
  <2>3. last \in alone /\ alone \subseteq Listing(request, denom)
    BY <1>1, <2>2 DEF Listing
  <2>4. alone \subseteq Nat
    BY PostedTypes DEF Listing, Requested
  <2>5. PICK m \in alone : /\ \A j \in alone : j <= m
                           /\ DenomRebase(ForChain(request, last), denom) = Factor(m, denom)
    <3>1. alone # {}
      BY <2>3
    <3> QED  BY <3>1, LastListing
  <2> HIDE DEF alone
  <2>6. m = last
    BY <2>1, <2>2, <2>3, <2>4, <2>5
  <2> QED  BY <2>1, <2>2, <2>5, <2>6
<1> QED  BY <1>2, <1>3

(* The answer for a chain is the answer to the query for that chain alone, *)
(* where the factors of the other chains agree.                            *)
THEOREM ChainsAlwaysAnsweredApart == Spec => []ChainsAnsweredApart
<1>1. ASSUME OracleInv PROVE ChainsAnsweredApart
  <2> SUFFICES ASSUME chainsInfo # NotFound, NEW request \in Requests,
                      NEW i \in Requested(request),
                      \A k \in DOMAIN request[chainsInfo[i].chainId] :
                        \A j \in Requested(request) :
                          LET denom == request[chainsInfo[i].chainId][k].denom
                          IN  Listings(j, denom) # {} =>
                                DenomRebase(ForChain(request, j), denom) =
                                  DenomRebase(ForChain(request, i), denom)
               PROVE  EmissionsDistribution(request)[i] =
                        EmissionsDistribution(ForChain(request, i))[i]
    BY Zenon DEF ChainsAnsweredApart
  <2> DEFINE chain == chainsInfo[i]
             assets == request[chain.chainId]
             alone == ForChain(request, i)
  <2>1. i \in Requested(alone) /\ alone[chain.chainId] = assets
    BY DEF Requested, ForChain
  <2>2. \A k \in DOMAIN assets :
          DenomRebase(request, assets[k].denom) = DenomRebase(alone, assets[k].denom)
    BY <1>1, RebasedAlike
  <2>3. \A k \in DOMAIN assets : Staked(request, assets[k]) = Staked(alone, assets[k])
    BY <2>2 DEF Staked
  <2> HIDE DEF alone, assets
  <2>4. TotalStaked(request, chain) = TotalStaked(alone, chain)
    <3>1. [k \in DOMAIN assets |-> Staked(request, assets[k])] =
            [k \in DOMAIN assets |-> Staked(alone, assets[k])]
      BY <2>3
    <3> QED  BY <2>1, <3>1, Zenon DEF TotalStaked, assets
  <2>5. \A k \in DOMAIN assets :
          Share(request, chain, assets[k]) = Share(alone, chain, assets[k])
    BY <2>3, <2>4 DEF Share, HasShare
  <2>6. EmissionsDistribution(request)[i] =
          [k \in DOMAIN assets |-> [denom |-> assets[k].denom,
                                    distribution |-> Share(request, chain, assets[k])]]
    BY DEF EmissionsDistribution, assets
  <2>7. EmissionsDistribution(alone)[i] =
          [k \in DOMAIN assets |-> [denom |-> assets[k].denom,
                                    distribution |-> Share(alone, chain, assets[k])]]
    BY <2>1 DEF EmissionsDistribution
  <2> QED  BY <2>5, <2>6, <2>7 DEF alone
<1> QED  BY <1>1, OracleInvInit, OracleInvNext, PTL DEF Spec
-----------------------------------------------------------------------------
(* Every query is answered.                                                *)

LEMMA MulMonotonic ==
  ASSUME NEW m \in Nat, NEW n \in Nat, NEW c \in Nat, m <= n
  PROVE  m * c <= n * c /\ c * m <= c * n
OBVIOUS

LEMMA DivMonotonic ==
  ASSUME NEW m \in Nat, NEW n \in Nat, NEW c \in Nat, c > 0, m <= n
  PROVE  m \div c <= n \div c
OBVIOUS

LEMMA DecimalMulMonotonic ==
  ASSUME NEW m \in Nat, NEW n \in Nat, NEW p \in Nat, NEW q \in Nat, m <= n, p <= q
  PROVE  DecimalMul(m, p) <= DecimalMul(n, q)
<1>1. m * p <= n * p /\ n * p <= n * q
  BY MulMonotonic
<1>2. m * p \in Nat /\ n * p \in Nat /\ n * q \in Nat
  BY ProductNat
<1>3. m * p <= n * q
  BY <1>1, <1>2
<1> QED  BY <1>2, <1>3, DivMonotonic, DecimalFractionalAssumption DEF DecimalMul

(* A sum of naturals up to n is at most the sum up to l.                   *)
LEMMA SumPrefix ==
  ASSUME NEW l \in Nat, NEW n \in 0..l, NEW f, \A k \in 1..l : f[k] \in Nat
  PROVE  SumOver(f, 1..n) \in Nat /\ SumOver(f, 1..n) <= SumOver(f, 1..l)
<1>1. IsFiniteSet(1..l) /\ 1..n \in SUBSET (1..l)
  BY FS_Interval
<1>2. IsFiniteSet(1..n) /\ IsFiniteSet((1..l) \ (1..n))
  <2>1. (1..l) \ (1..n) \in SUBSET (1..l)
    OBVIOUS
  <2> QED  BY <1>1, <2>1, FS_Subset
<1>3. SumOver(f, 1..l) = SumOver(f, 1..n) + SumOver(f, (1..l) \ (1..n))
  <2>1. \A k \in 1..l : f[k] \in Int
    OBVIOUS
  <2> QED  BY <1>1, <2>1, SumSplit
<1>4. SumOver(f, 1..n) \in Nat /\ SumOver(f, (1..l) \ (1..n)) \in Nat
  <2>1. /\ \A k \in 1..n : f[k] \in Nat
        /\ \A k \in (1..l) \ (1..n) : f[k] \in Nat
    OBVIOUS
  <2> QED  BY <1>2, <2>1, SumNat
<1> QED  BY <1>3, <1>4

LEMMA MagnitudeBound ==
  ASSUME NEW x \in SignedDecimals, NEW p \in Nat, NEW q \in Nat, Number(x) = p - q
  PROVE  x.value <= p + q
BY DEF SignedDecimals, Sign, Number

(* A chain whose alliances move at most maxValue has a value.              *)
LEMMA ChainValueAnswered ==
  ASSUME NEW lunaPrice \in Nat, NEW chain, chain.posted \in ChainInfoMsgs,
         NEW maxValue \in Nat, Fits(maxValue),
         \A n \in DOMAIN chain.posted.lunaAlliances :
           /\ Fits(TokensDistributed(chain, chain.posted.lunaAlliances[n]))
           /\ Fits(LunaStaked(chain.posted.lunaAlliances[n]))
           /\ Fits(LunaTaken(chain.posted.lunaAlliances[n])),
         SumOver(Brought(chain), DOMAIN chain.posted.lunaAlliances)
           + SumOver(Cost(lunaPrice, chain), DOMAIN chain.posted.lunaAlliances) <= maxValue
  PROVE  /\ ChainValueOk(lunaPrice, chain)
         /\ AccumulatedValue(lunaPrice, chain)[Len(chain.posted.lunaAlliances)].value <= maxValue
<1> DEFINE alliances == chain.posted.lunaAlliances
           l == Len(alliances)
           value == AccumulatedValue(lunaPrice, chain)
           brought == Brought(chain)
           cost == Cost(lunaPrice, chain)
<1>1. alliances \in Seq(LunaAlliances) /\ l \in Nat /\ DOMAIN alliances = 1..l
  BY DEF ChainInfoMsgs
<1>2. IsFiniteSet(1..l)
  BY <1>1, Elements
<1>3. \A n \in 1..l :
        /\ brought[n] = Distributed(chain, alliances[n]) /\ brought[n] \in Nat
        /\ cost[n] = Taken(lunaPrice, alliances[n]) /\ cost[n] \in Nat
  <2> SUFFICES ASSUME NEW n \in 1..l
               PROVE  /\ brought[n] = Distributed(chain, alliances[n]) /\ brought[n] \in Nat
                      /\ cost[n] = Taken(lunaPrice, alliances[n]) /\ cost[n] \in Nat
    OBVIOUS
  <2>1. alliances[n] \in LunaAlliances
    BY <1>1
  <2>2. brought[n] = Distributed(chain, alliances[n]) /\ cost[n] = Taken(lunaPrice, alliances[n])
    BY <1>1 DEF Brought, Cost
  <2> QED  BY <2>1, <2>2, AllianceValueExact
<1>4. MaxUint128 \in Nat /\ maxValue <= MaxUint128
  BY MaxUint128Assumption DEF Fits
<1>5. \A n \in 0..l : value[n].value \in Nat /\ value[n].value <= maxValue
  <2> SUFFICES ASSUME NEW n \in 0..l
               PROVE  value[n].value \in Nat /\ value[n].value <= maxValue
    OBVIOUS
  <2>1. /\ value[n] \in SignedDecimals
        /\ Number(value[n]) = SumOver(brought, 1..n) - SumOver(cost, 1..n)
    BY AccumulatedExact
  <2>2. SumOver(brought, 1..l) + SumOver(cost, 1..l) <= maxValue
    BY <1>1
  <2> HIDE DEF value, brought, cost
  <2>3. /\ SumOver(brought, 1..n) \in Nat /\ SumOver(brought, 1..n) <= SumOver(brought, 1..l)
        /\ SumOver(cost, 1..n) \in Nat /\ SumOver(cost, 1..n) <= SumOver(cost, 1..l)
    BY <1>1, <1>3, SumPrefix
  <2>4. SumOver(brought, 1..l) \in Nat /\ SumOver(cost, 1..l) \in Nat
    BY <1>3, <1>2, SumNat
  <2>5. value[n].value <= SumOver(brought, 1..n) + SumOver(cost, 1..n)
    BY <2>1, <2>3, MagnitudeBound
  <2>6. value[n].value \in Nat
    BY <2>1 DEF SignedDecimals
  <2> QED  BY <2>2, <2>3, <2>4, <2>5, <2>6
<1>6. \A n \in 1..l : brought[n] <= maxValue /\ cost[n] <= maxValue
  <2> SUFFICES ASSUME NEW n \in 1..l PROVE brought[n] <= maxValue /\ cost[n] <= maxValue
    OBVIOUS
  <2>1. SumOver(brought, 1..l) + SumOver(cost, 1..l) <= maxValue
    BY <1>1
  <2> HIDE DEF brought, cost
  <2>2. /\ brought[n] <= SumOver(brought, 1..l) /\ SumOver(brought, 1..l) \in Nat
        /\ cost[n] <= SumOver(cost, 1..l) /\ SumOver(cost, 1..l) \in Nat
    BY <1>3, <1>2, SumBoundsValue, SumNat
  <2> QED  BY <1>3, <2>1, <2>2
<1>7. \A n \in 1..l :
        /\ Fits(Distributed(chain, alliances[n])) /\ Fits(Taken(lunaPrice, alliances[n]))
        /\ Fits(value[n].value)
  <2>1. \A m \in Nat : m <= maxValue => Fits(m)
    BY <1>4 DEF Fits
  <2> HIDE DEF brought, cost, value
  <2>2. \A n \in 1..l : n \in 0..l
    OBVIOUS
  <2> QED  BY <1>3, <1>5, <1>6, <2>1, <2>2
<1> QED  BY <1>1, <1>5, <1>7 DEF ChainValueOk

(* Stakes of at most maxStaked, rebased by at most maxRebase, are counted  *)
(* and get their shares of a value of at most maxValue.                    *)
LEMMA SharesAnswered ==
  ASSUME OracleInv, chainsInfo # NotFound, NEW request \in Requests,
         NEW i \in Requested(request),
         NEW maxValue \in Nat, NEW maxRebase \in Nat, NEW maxStaked \in Nat,
         ChainValue(chainsInfo[i]).value <= maxValue,
         \A denom : DenomRebase(request, denom) <= maxRebase,
         LET assets == request[chainsInfo[i].chainId]
         IN  SumOver([k \in DOMAIN assets |-> assets[k].amount], DOMAIN assets) <= maxStaked,
         Fits(maxValue), Fits(FromAtomics(maxStaked)), Fits(maxStaked * maxRebase),
         Fits(DecimalMul(maxValue, maxStaked * maxRebase))
  PROVE  SharesOk(request, chainsInfo[i])
<1> DEFINE assets == request[chainsInfo[i].chainId]
           A == DOMAIN assets
           amount == [k \in A |-> assets[k].amount]
           staked == [k \in A |-> Staked(request, assets[k])]
           most == [k \in A |-> maxRebase * amount[k]]
           total == TotalStaked(request, chainsInfo[i])
           v == ChainValue(chainsInfo[i]).value
           maxTotal == maxStaked * maxRebase
           share(k) == Share(request, chainsInfo[i], assets[k])
<1>1. /\ IsFiniteSet(A)
      /\ total = SumOver(staked, A) /\ total \in Nat
      /\ \A k \in A : /\ staked[k] = Staked(request, assets[k])
                      /\ staked[k] \in Nat /\ staked[k] <= total
  BY TotalStakedCovers
<1>2. \A k \in A : amount[k] \in Nat /\ amount[k] = assets[k].amount
  BY AssetsTypes DEF Requested
<1>3. v \in Nat /\ v <= maxValue
  BY ChainValueType DEF Requested
<1>4. SumOver(amount, A) <= maxStaked
  OBVIOUS
<1>5. \A k \in A : staked[k] \in Int /\ most[k] \in Int /\ staked[k] <= most[k]
  <2> SUFFICES ASSUME NEW k \in A
               PROVE  staked[k] \in Int /\ most[k] \in Int /\ staked[k] <= most[k]
    OBVIOUS
  <2>1. /\ staked[k] = amount[k] * DenomRebase(request, assets[k].denom)
        /\ DenomRebase(request, assets[k].denom) \in Nat
    BY <1>1, <1>2, StakedExact, DenomRebaseNat
  <2>2. most[k] = maxRebase * amount[k]
    OBVIOUS
  <2> HIDE DEF staked, most, amount
  <2>3. amount[k] * DenomRebase(request, assets[k].denom) <= amount[k] * maxRebase
    BY <1>2, <2>1, MulMonotonic
  <2>4. amount[k] * maxRebase = maxRebase * amount[k] /\ maxRebase * amount[k] \in Nat
    BY <1>2, ProductNat
  <2> QED  BY <1>1, <2>1, <2>2, <2>3, <2>4
<1> HIDE DEF amount, staked, total, v
<1>6. total <= maxTotal /\ maxTotal \in Nat
  <2>1. total <= SumOver(most, A)
    <3> HIDE DEF most
    <3> QED  BY <1>1, <1>5, SumMonotonic
  <2>2. SumOver(most, A) = maxRebase * SumOver(amount, A)
    <3>1. \A k \in A : amount[k] \in Int /\ most[k] = maxRebase * amount[k]
      BY <1>2
    <3> HIDE DEF most
    <3> QED  BY <1>1, <3>1, SumScale
  <2>3. SumOver(amount, A) \in Nat
    BY <1>1, <1>2, SumNat
  <2>4. maxRebase * SumOver(amount, A) <= maxRebase * maxStaked
    BY <1>4, <2>3, MulMonotonic
  <2>5. /\ maxRebase * maxStaked = maxTotal /\ maxTotal \in Nat
        /\ maxRebase * SumOver(amount, A) \in Nat
    BY <2>3, ProductNat
  <2> QED  BY <1>1, <2>1, <2>2, <2>4, <2>5
<1>7. /\ MaxUint128 \in Nat /\ maxValue <= MaxUint128 /\ maxTotal <= MaxUint128
      /\ maxStaked * DecimalFractional <= MaxUint128
      /\ DecimalMul(maxValue, maxTotal) <= MaxUint128
  BY MaxUint128Assumption DEF Fits, FromAtomics
<1> HIDE DEF maxTotal
<1>8. Fits(total)
  BY <1>1, <1>6, <1>7 DEF Fits
<1>9. ASSUME NEW k \in A PROVE Fits(FromAtomics(assets[k].amount))
  <2>1. amount[k] <= SumOver(amount, A) /\ SumOver(amount, A) \in Nat
    BY <1>1, <1>2, SumBoundsValue, SumNat
  <2>2. amount[k] <= maxStaked
    BY <1>2, <1>4, <2>1
  <2>3. amount[k] * DecimalFractional <= maxStaked * DecimalFractional
    BY <1>2, <2>2, MulMonotonic, DecimalFractionalAssumption
  <2>4. amount[k] * DecimalFractional \in Nat /\ maxStaked * DecimalFractional \in Nat
    BY <1>2, ProductNat, DecimalFractionalAssumption
  <2> QED  BY <1>2, <1>7, <2>3, <2>4 DEF Fits, FromAtomics
<1>10. ASSUME NEW k \in A, HasShare(request, assets[k])
       PROVE  /\ Fits(DecimalMul(v, Staked(request, assets[k])))
              /\ total # 0
              /\ Fits(share(k).value)
  <2>1. staked[k] # 0 /\ total > 0
    BY <1>1, <1>10 DEF HasShare
  <2>2. DecimalMul(v, staked[k]) <= DecimalMul(maxValue, maxTotal)
    BY <1>1, <1>3, <1>6, DecimalMulMonotonic
  <2>3. DecimalMul(v, staked[k]) \in Nat /\ DecimalMul(maxValue, maxTotal) \in Nat
    BY <1>1, <1>3, <1>6, DecimalMulNat
  <2>4. share(k).value \in Nat /\ share(k).value * total <= v * staked[k]
    <3>1. staked[k] = Staked(request, assets[k])
      BY <1>1
    <3> QED  BY <3>1, ShareBounds DEF total, v
  <2> HIDE DEF share
  <2>5. v * staked[k] <= v * total
    BY <1>1, <1>3, MulMonotonic
  <2>6. share(k).value * total <= v * total
    <3>1. share(k).value * total \in Nat /\ v * staked[k] \in Nat /\ v * total \in Nat
      BY <1>1, <1>3, <2>4, ProductNat
    <3> QED  BY <2>4, <2>5, <3>1
  <2>7. share(k).value <= v
    BY <1>1, <1>3, <2>1, <2>4, <2>6, CancelFactor
  <2>8. Fits(share(k).value)
    BY <1>3, <1>7, <2>4, <2>7 DEF Fits
  <2>9. Fits(DecimalMul(v, staked[k]))
    BY <1>7, <2>2, <2>3 DEF Fits
  <2> QED  BY <1>1, <2>1, <2>8, <2>9
<1> QED  BY <1>8, <1>9, <1>10 DEF SharesOk, total, v

(* Every query is answered if the width suffices for the yearly values,    *)
(* the stakes and the rebase factors there are.                            *)
THEOREM EmissionsAlwaysAnswered ==
  ASSUME NEW maxValue \in Nat, NEW maxRebase \in Nat, NEW maxStaked \in Nat,
         WidthSuffices(maxValue, maxRebase, maxStaked)
  PROVE  Spec => []EmissionsAnswered
<1>1. ASSUME OracleInv PROVE EmissionsAnswered
  <2> SUFFICES ASSUME chainsInfo # NotFound, NEW request \in Requests,
                      NEW i \in Requested(request)
               PROVE  /\ lunaInfo # NotFound
                      /\ ChainValueOk(lunaInfo.lunaPrice, chainsInfo[i])
                      /\ SharesOk(request, chainsInfo[i])
    <3>1. lunaInfo # NotFound \/ chainsInfo = NotFound
      BY <1>1, PostedTypes
    <3> QED  BY <3>1, Zenon DEF EmissionsAnswered, EmissionsDistributionOk
  <2>1. PICK message \in ChainsInfos, time \in 0..now :
          /\ lunaInfo = ToLunaInfo(message, time)
          /\ chainsInfo = [c \in DOMAIN message.protocolsInfo |->
                             ToChainInfo(message.protocolsInfo[c], time)]
    BY <1>1 DEF OracleInv, Posted
  <2> DEFINE known(c) == [posted |-> message.protocolsInfo[c]]
             alliances(c) == message.protocolsInfo[c].lunaAlliances
             listed(c) == message.protocolsInfo[c].chainAlliancesOnPhoenix
  <2>2. \A c \in DOMAIN chainsInfo :
          /\ c \in DOMAIN message.protocolsInfo
          /\ chainsInfo[c].posted = message.protocolsInfo[c]
          /\ chainsInfo[c].posted = known(c).posted
    BY <2>1 DEF ToChainInfo
  <2>3. lunaInfo.lunaPrice = message.lunaPrice
    BY <2>1 DEF ToLunaInfo
  <2>4. \A c \in DOMAIN message.protocolsInfo :
          /\ \A n \in DOMAIN alliances(c) :
               /\ Fits(TokensDistributed(known(c), alliances(c)[n]))
               /\ Fits(LunaStaked(alliances(c)[n])) /\ Fits(LunaTaken(alliances(c)[n]))
          /\ SumOver(Brought(known(c)), DOMAIN alliances(c))
               + SumOver(Cost(message.lunaPrice, known(c)), DOMAIN alliances(c)) <= maxValue
          /\ \A j \in DOMAIN listed(c) : listed(c)[j].rebaseFactor <= maxRebase
    BY DEF WidthSuffices
  <2>5. /\ Fits(maxValue) /\ Percent100 <= maxRebase
        /\ Fits(FromAtomics(maxStaked)) /\ Fits(maxStaked * maxRebase)
        /\ Fits(DecimalMul(maxValue, maxStaked * maxRebase))
    BY Zenon DEF WidthSuffices
  <2>6. /\ lunaInfo # NotFound /\ lunaInfo.lunaPrice \in Nat
        /\ chainsInfo[i].posted \in ChainInfoMsgs /\ i \in DOMAIN chainsInfo
    BY <1>1, PostedTypes DEF Requested
  <2>7. /\ ChainValueOk(lunaInfo.lunaPrice, chainsInfo[i])
        /\ ChainValue(chainsInfo[i]).value <= maxValue
    <3> DEFINE chain == chainsInfo[i]
               price == lunaInfo.lunaPrice
    <3>1. chain.posted = message.protocolsInfo[i] /\ i \in DOMAIN message.protocolsInfo
      BY <2>2, <2>6
    <3>2. \A n \in DOMAIN alliances(i) :
            /\ TokensDistributed(chain, alliances(i)[n]) = TokensDistributed(known(i), alliances(i)[n])
            /\ Distributed(chain, alliances(i)[n]) = Distributed(known(i), alliances(i)[n])
      BY <2>2, <2>6 DEF TokensDistributed, Distributed
    <3>3. /\ Brought(chain) = Brought(known(i))
          /\ Cost(price, chain) = Cost(message.lunaPrice, known(i))
      BY <2>2, <2>3, <2>6, <3>2 DEF Brought, Cost
    <3>4. /\ \A n \in DOMAIN chain.posted.lunaAlliances :
               /\ Fits(TokensDistributed(chain, chain.posted.lunaAlliances[n]))
               /\ Fits(LunaStaked(chain.posted.lunaAlliances[n]))
               /\ Fits(LunaTaken(chain.posted.lunaAlliances[n]))
          /\ SumOver(Brought(chain), DOMAIN chain.posted.lunaAlliances)
               + SumOver(Cost(price, chain), DOMAIN chain.posted.lunaAlliances) <= maxValue
      BY <2>4, <3>1, <3>2, <3>3
    <3> HIDE DEF chain, price
    <3>5. price \in Nat /\ chain.posted \in ChainInfoMsgs
      BY <2>6 DEF chain, price
    <3>6. /\ ChainValueOk(price, chain)
          /\ AccumulatedValue(price, chain)[Len(chain.posted.lunaAlliances)].value <= maxValue
      BY <2>5, <3>4, <3>5, ChainValueAnswered
    <3> QED  BY <3>6 DEF chain, price, ChainValue
  <2>8. \A denom : DenomRebase(request, denom) <= maxRebase
    <3> SUFFICES ASSUME NEW denom, DenomRebase(request, denom) # Percent100
                 PROVE  DenomRebase(request, denom) <= maxRebase
      BY <2>5
    <3>1. PICK c \in DOMAIN chainsInfo :
            \E j \in DOMAIN chainsInfo[c].posted.chainAlliancesOnPhoenix :
              DenomRebase(request, denom) =
                chainsInfo[c].posted.chainAlliancesOnPhoenix[j].rebaseFactor
      BY <1>1, DenomRebaseListed
    <3> QED  BY <2>2, <2>4, <3>1
  <2>9. LET assets == request[chainsInfo[i].chainId]
        IN  SumOver([k \in DOMAIN assets |-> assets[k].amount], DOMAIN assets) <= maxStaked
    BY DEF WidthSuffices, Requested
  <2>10. SharesOk(request, chainsInfo[i])
    BY <1>1, <2>5, <2>7, <2>8, <2>9, SharesAnswered
  <2> QED  BY <2>6, <2>7, <2>10
<1> QED  BY <1>1, OracleInvInit, OracleInvNext, PTL DEF Spec
=============================================================================
