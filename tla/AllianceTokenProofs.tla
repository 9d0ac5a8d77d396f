------------------------ MODULE AllianceTokenProofs ------------------------
(***************************************************************************)
(* Proofs about the alliance token, for all values of the constants.       *)
(*                                                                         *)
(* The inductive invariant follows the two kinds of transactions.  A       *)
(* creation is at one of its four stages.  A delegation transaction has    *)
(* executed some of its messages, all of one kind, and what is in a place  *)
(* is what was there before, less what those took and plus what they       *)
(* brought.                                                                *)
(***************************************************************************)
EXTENDS AllianceToken, SumLemmas, SequenceTheorems

Moves ==
  [type : {"move"}, denom : Denoms, source : Places, target : Places, amount : Nat]

None == [p \in Places |-> 0]
AllMinted == [p \in Places |-> IF p = "hub" THEN TotalSupply ELSE 0]

(* What the first k messages with an end at p move; ends gives the one or  *)
(* the other end of each.                                                  *)
Flow(amounts, ends, p, k) == SumOver(amounts, {i \in 1 .. k : ends[i] = p})

AmountsOf(asked) == [i \in DOMAIN asked |-> asked[i].amount]
SourcesOf(asked) == [i \in DOMAIN asked |-> asked[i].source]
TargetsOf(asked) == [i \in DOMAIN asked |-> asked[i].target]

(* A hub and its tokens outside of its creation.                           *)
Accounted(h, t) ==
  IF h = NotFound
  THEN t = None
  ELSE /\ h.allianceTokenDenom = TokenDenom
       /\ h.allianceTokenSupply = TotalSupply
       /\ SumOver(t, Places) = TotalSupply

InitialRoles == [r \in TokenRoles |-> InitialConfig[r]]

Creating ==
  /\ tx.before.hub = NotFound
  /\ hub \in Stored
  /\ hub.validators = {} /\ hub.roles = InitialRoles
  /\ \/ tx.asked = <<CreateDenom>> /\ tx.done = 0 /\ tokens = None
     \/ /\ tx.asked = <<CreateDenom, MintTokens(TokenDenom, TotalSupply),
                        SetMetadata(TokenDenom)>>
        /\ hub.allianceTokenDenom = TokenDenom
        /\ hub.allianceTokenSupply = TotalSupply
        /\ \/ tx.done = 1 /\ tokens = None
           \/ tx.done \in {2, 3} /\ tokens = AllMinted

OneKind(asked) ==
  \/ \A i \in DOMAIN asked : asked[i].source = "hub" /\ asked[i].target \in Validators
  \/ \A i \in DOMAIN asked : asked[i].source \in Validators /\ asked[i].target = "unbonding"
  \/ \A i \in DOMAIN asked : asked[i].source \in Validators /\ asked[i].target \in Validators

NamedTargets(asked) == {v \in Validators : \E i \in DOMAIN asked : asked[i].target = v}

Delegating ==
  /\ tx.before.hub # NotFound
  /\ tx.asked \in Seq(Moves) /\ tx.asked # <<>>
  /\ tx.done <= Len(tx.asked)
  /\ OneKind(tx.asked)
  /\ hub = [tx.before.hub EXCEPT !.validators = @ \cup NamedTargets(tx.asked)]
  /\ \A i \in 1 .. tx.done : tx.asked[i].amount > 0
  /\ \A p \in Places :
       tokens[p] + Flow(AmountsOf(tx.asked), SourcesOf(tx.asked), p, tx.done) =
         tx.before.tokens[p] + Flow(AmountsOf(tx.asked), TargetsOf(tx.asked), p, tx.done)
  /\ Accounted(hub, tokens)

TokenInv ==
  /\ TokenTypeOK
  /\ ~Running => Accounted(hub, tokens)
  /\ Running => /\ Accounted(tx.before.hub, tx.before.tokens)
                /\ Creating \/ Delegating
-----------------------------------------------------------------------------
(* Flows.                                                                  *)

LEMMA FlowNat ==
  ASSUME NEW k \in Nat, NEW amounts, \A i \in 1 .. k : amounts[i] \in Nat, NEW ends, NEW p
  PROVE  Flow(amounts, ends, p, k) \in Nat
<1> DEFINE S == {i \in 1 .. k : ends[i] = p}
<1>1. IsFiniteSet(S)
  BY FS_Interval, FS_Subset, S \subseteq 1 .. k, 1 \in Int, k \in Int
<1>2. \A i \in S : amounts[i] \in Nat
  OBVIOUS
<1> HIDE DEF S
<1>3. SumOver(amounts, S) \in Nat
  BY <1>1, <1>2, SumNat
<1> QED
  BY <1>3 DEF Flow, S

LEMMA FlowStep ==
  ASSUME NEW k \in Nat, NEW amounts, \A i \in 1 .. k + 1 : amounts[i] \in Nat,
         NEW ends, NEW p
  PROVE  Flow(amounts, ends, p, k + 1) =
           Flow(amounts, ends, p, k) + (IF ends[k + 1] = p THEN amounts[k + 1] ELSE 0)
<1> DEFINE S == {i \in 1 .. k + 1 : ends[i] = p}
           T == {i \in 1 .. k : ends[i] = p}
<1>1. IsFiniteSet(S)
  BY FS_Interval, FS_Subset, S \subseteq 1 .. k + 1, 1 \in Int, k + 1 \in Int
<1>2. \A i \in S : amounts[i] \in Int
  OBVIOUS
<1>3. CASE ends[k + 1] = p
  <2>1. k + 1 \in S /\ S \ {k + 1} = T
    BY <1>3
  <2> HIDE DEF S, T
  <2>2. SumOver(amounts, S) = amounts[k + 1] + SumOver(amounts, T)
    BY <1>1, <1>2, <2>1, SumRemove
  <2>3. Flow(amounts, ends, p, k) \in Nat
    BY FlowNat
  <2>4. Flow(amounts, ends, p, k) = SumOver(amounts, T)
    BY DEF Flow, T
  <2>5. Flow(amounts, ends, p, k + 1) = SumOver(amounts, S)
    BY DEF Flow, S
  <2> QED
    BY <1>3, <2>2, <2>3, <2>4, <2>5
<1>4. CASE ends[k + 1] # p
  <2>1. S = T
    BY <1>4
  <2>2. Flow(amounts, ends, p, k) = SumOver(amounts, T)
    BY DEF Flow
  <2>3. Flow(amounts, ends, p, k + 1) = SumOver(amounts, S)
    BY DEF Flow
  <2>4. Flow(amounts, ends, p, k) \in Nat
    BY FlowNat
  <2> HIDE DEF S, T
  <2> QED
    BY <1>4, <2>1, <2>2, <2>3, <2>4
<1> QED
  BY <1>3, <1>4

LEMMA FlowNone ==
  ASSUME NEW k \in Nat, NEW amounts, NEW ends, NEW p, \A i \in 1 .. k : ends[i] # p
  PROVE  Flow(amounts, ends, p, k) = 0
<1>1. {i \in 1 .. k : ends[i] = p} = {}
  OBVIOUS
<1> QED
  BY <1>1, SumEmpty DEF Flow

LEMMA FlowPositive ==
  ASSUME NEW k \in Nat, NEW amounts, \A i \in 1 .. k : amounts[i] \in Nat,
         NEW ends, NEW p, NEW j \in 1 .. k, ends[j] = p, amounts[j] > 0
  PROVE  Flow(amounts, ends, p, k) > 0
<1> DEFINE S == {i \in 1 .. k : ends[i] = p}
<1>1. IsFiniteSet(S)
  BY FS_Interval, FS_Subset, S \subseteq 1 .. k, 1 \in Int, k \in Int
<1>2. (\A i \in S : amounts[i] \in Nat) /\ j \in S
  OBVIOUS
<1> HIDE DEF S
<1>3. amounts[j] <= SumOver(amounts, S)
  BY <1>1, <1>2, SumBoundsValue
<1>4. SumOver(amounts, S) \in Nat
  BY <1>1, <1>2, SumNat
<1>5. Flow(amounts, ends, p, k) = SumOver(amounts, S)
  BY DEF Flow, S
<1>6. amounts[j] \in Nat
  BY <1>2
<1> QED
  BY <1>3, <1>4, <1>5, <1>6
-----------------------------------------------------------------------------
(* Places.                                                                 *)

LEMMA PlacesFinite == IsFiniteSet(Places)
<1>1. IsFiniteSet({"hub", "unbonding", "slashed"})
  <2>1. IsFiniteSet({}) /\ {} \cup {"hub"} = {"hub"}
    BY FS_EmptySet
  <2>2. IsFiniteSet({"hub"})
    BY <2>1, FS_AddElement
  <2>3. {"hub"} \cup {"unbonding"} = {"hub", "unbonding"}
        /\ {"hub", "unbonding"} \cup {"slashed"} = {"hub", "unbonding", "slashed"}
    OBVIOUS
  <2>4. IsFiniteSet({"hub", "unbonding"})
    BY <2>2, <2>3, FS_AddElement
  <2> QED
    BY <2>3, <2>4, FS_AddElement
<1> QED
  BY <1>1, FS_Union, TokenAssumption DEF Places

LEMMA SumOfNone == SumOver(None, Places) = 0
BY PlacesFinite, SumZero DEF None

LEMMA SumOfMinted == SumOver(AllMinted, Places) = TotalSupply
<1>1. SumOver(AllMinted, Places) = SumOver(None, Places) + (AllMinted["hub"] - None["hub"])
  <2>1. "hub" \in Places /\ (\A p \in Places : None[p] \in Int)
    BY DEF None, Places
  <2>2. AllMinted["hub"] \in Int /\ \A p \in Places \ {"hub"} : AllMinted[p] = None[p]
    BY <2>1, TokenAssumption DEF AllMinted, None
  <2> HIDE DEF None, AllMinted
  <2> QED
    BY <2>1, <2>2, PlacesFinite, SumUpdate
<1> QED
  BY <1>1, SumOfNone, TokenAssumption DEF AllMinted, None, Places

(* Taking n from one place to another keeps the sum.                       *)
LEMMA SumMoved ==
  ASSUME NEW t \in [Places -> Nat], NEW p \in Places, NEW q \in Places, p # q,
         NEW n \in Nat, NEW moved \in [Places -> Nat],
         moved[p] = t[p] - n, moved[q] = t[q] + n,
         \A r \in Places \ {p, q} : moved[r] = t[r]
  PROVE  SumOver(moved, Places) = SumOver(t, Places)
<1> DEFINE less == [t EXCEPT ![p] = moved[p]]
<1>1. less \in [Places -> Nat] /\ less[p] = t[p] - n
      /\ \A r \in Places \ {p} : less[r] = t[r]
  OBVIOUS
<1>2. \A r \in Places \ {q} : moved[r] = less[r]
  BY <1>1
<1> HIDE DEF less
<1>3. SumOver(less, Places) = SumOver(t, Places) + (less[p] - t[p])
  <2>1. (\A r \in Places : t[r] \in Int) /\ less[p] \in Int
    BY <1>1
  <2> QED
    BY <1>1, <2>1, PlacesFinite, SumUpdate
<1>4. SumOver(moved, Places) = SumOver(less, Places) + (moved[q] - less[q])
  <2>1. (\A r \in Places : less[r] \in Int) /\ moved[q] \in Int
    BY <1>1, <1>2
  <2> QED
    BY <1>2, <2>1, PlacesFinite, SumUpdate
<1>5. SumOver(t, Places) \in Nat
  BY PlacesFinite, SumNat
<1>6. t[p] \in Nat /\ t[q] \in Nat /\ less[q] = t[q]
  BY <1>1
<1> QED
  BY <1>1, <1>2, <1>3, <1>4, <1>5, <1>6
-----------------------------------------------------------------------------
(* The inductive invariant.                                                *)

LEMMA MessageTypes ==
  /\ CreateDenom \in Messages /\ CreateDenom.type = "create"
  /\ \A denom \in Denoms, n \in Nat :
       MintTokens(denom, n) \in Messages /\ MintTokens(denom, n).type = "mint"
  /\ \A denom \in Denoms :
       SetMetadata(denom) \in Messages /\ SetMetadata(denom).type = "metadata"
  /\ Moves \subseteq Messages
BY DEF CreateDenom, MintTokens, SetMetadata, Messages, Moves

LEMMA NothingElse ==
  /\ \A t \in Transaction : t # NoTx
  /\ \A h \in Stored : h # NotFound
BY NothingAssumption

LEMMA InitInv == TokenInit => TokenInv
<1> SUFFICES ASSUME TokenInit PROVE TokenInv
  OBVIOUS
<1> QED
  BY DEF TokenInit, TokenInv, TokenTypeOK, Running, Accounted, None

LEMMA BeginType ==
  ASSUME TokenTypeOK, NEW messages \in Seq(Messages)
  PROVE  Begin(messages) \in Transaction
BY DEF TokenTypeOK, Begin, Transaction

LEMMA InstantiateStep ==
  ASSUME TokenInv, Instantiate
  PROVE  TokenInv'
<1>1. <<CreateDenom>> \in Seq(Messages)
  BY MessageTypes
<1>2. tx' \in Transaction /\ tx' = Begin(<<CreateDenom>>)
  BY <1>1, BeginType DEF TokenInv, Instantiate
<1>3. /\ hub' \in Stored /\ hub'.validators = {} /\ hub'.roles = InitialRoles
      /\ tokens' = tokens /\ hub = NotFound
  <2>1. InitialRoles \in [TokenRoles -> Admins]
    BY TokenAssumption DEF InitialRoles, TokenRoles
  <2> QED
    BY <2>1 DEF Instantiate, Stored, Denoms, InitialRoles
<1>4. Running'
  BY <1>2, NothingElse DEF Running
<1>5. tokens = None /\ ~Running
  BY <1>3 DEF TokenInv, Accounted, Instantiate
<1>6. /\ tx'.asked = <<CreateDenom>> /\ tx'.done = 0
      /\ tx'.before.hub = NotFound /\ tx'.before.tokens = None
  BY <1>2, <1>3, <1>5 DEF Begin
<1>7. TokenTypeOK'
  BY <1>2, <1>3 DEF TokenTypeOK, TokenInv
<1>8. Creating'
  BY <1>3, <1>5, <1>6 DEF Creating
<1>9. Accounted(tx'.before.hub, tx'.before.tokens)
  BY <1>6 DEF Accounted
<1> QED
  BY <1>4, <1>7, <1>8, <1>9 DEF TokenInv

LEMMA OneAndTwo ==
  ASSUME NEW S, NEW a \in S, NEW b \in S, NEW c \in S
  PROVE  <<a>> \o <<b, c>> = <<a, b, c>>
<1> DEFINE s == <<a>>
           t == <<b, c>>
           u == <<a, b, c>>
<1>1. s \in Seq(S) /\ Len(s) = 1 /\ s[1] = a
  OBVIOUS
<1>2. t \in Seq(S) /\ Len(t) = 2 /\ t[1] = b /\ t[2] = c
  OBVIOUS
<1>3. u \in Seq(S) /\ Len(u) = 3 /\ u[1] = a /\ u[2] = b /\ u[3] = c
  OBVIOUS
<1> HIDE DEF s, t, u
<1>4. /\ s \o t \in Seq(S) /\ Len(s \o t) = Len(s) + Len(t)
      /\ \A i \in 1 .. Len(s) + Len(t) :
           (s \o t)[i] = IF i <= Len(s) THEN s[i] ELSE t[i - Len(s)]
  BY <1>1, <1>2, ConcatProperties
<1> DEFINE st == s \o t
<1>5. st \in Seq(S) /\ Len(st) = 3 /\ \A i \in 1 .. 3 : st[i] = IF i <= 1 THEN s[i] ELSE t[i - 1]
  BY <1>1, <1>2, <1>4
<1> HIDE DEF st
<1>6. \A i \in 1 .. Len(st) : st[i] = u[i]
  <2>1. st[1] = s[1] /\ st[2] = t[1] /\ st[3] = t[2]
    BY <1>5
  <2> QED
    BY <1>1, <1>2, <1>3, <1>5, <2>1
<1>7. st = u
  BY <1>3, <1>5, <1>6, SeqEqual
<1> QED
  BY <1>7 DEF s, t, u, st

LEMMA CreateStep ==
  ASSUME TokenInv, ExecuteCreateDenom \/ ExecuteMintTokens \/ ExecuteSetMetadata
  PROVE  TokenInv' /\ Running' /\ tx'.before = tx.before
<1>1. Running /\ tx \in Transaction /\ tx.done < Len(tx.asked)
  BY DEF TokenInv, TokenTypeOK, ExecuteCreateDenom, ExecuteMintTokens, ExecuteSetMetadata,
         Pending, Running
<1>2. ~Delegating
  <2>1. SUFFICES ASSUME tx.asked \in Seq(Moves) PROVE Message.type = "move"
    BY DEF Delegating, ExecuteCreateDenom, ExecuteMintTokens, ExecuteSetMetadata
  <2>2. tx.done + 1 \in 1 .. Len(tx.asked)
    BY <1>1, <2>1 DEF Transaction
  <2>3. Message \in Moves
    BY <2>1, <2>2 DEF Message
  <2> QED
    BY <2>3 DEF Moves
<1>3. Creating
  BY <1>1, <1>2 DEF TokenInv
<1> DEFINE three == <<CreateDenom, MintTokens(TokenDenom, TotalSupply), SetMetadata(TokenDenom)>>
<1>4. three \in Seq(Messages) /\ Len(three) = 3
      /\ three[1].type = "create" /\ three[2].type = "mint" /\ three[3].type = "metadata"
      /\ three[2].amount = TotalSupply
  BY MessageTypes, TokenAssumption, TokenDenom \in Denoms DEF Denoms, MintTokens
<1>5. CASE tx.done = 0
  <2>1. tx.asked = <<CreateDenom>> /\ tokens = None
    BY <1>3, <1>5 DEF Creating
  <2>2. Message.type = "create"
    BY <1>5, <2>1, MessageTypes DEF Message
  <2>3. ExecuteCreateDenom
    BY <2>2 DEF ExecuteMintTokens, ExecuteSetMetadata
  <2>4. /\ hub' = [hub EXCEPT !.allianceTokenDenom = TokenDenom, !.allianceTokenSupply = TotalSupply]
        /\ tx' = [tx EXCEPT !.done = @ + 1,
                    !.asked = @ \o <<MintTokens(TokenDenom, TotalSupply), SetMetadata(TokenDenom)>>]
        /\ tokens' = tokens
    BY <2>3 DEF ExecuteCreateDenom, CreateReply
  <2>5. tx.asked \o <<MintTokens(TokenDenom, TotalSupply), SetMetadata(TokenDenom)>> = three
    BY <2>1, MessageTypes, OneAndTwo, TokenAssumption, TokenDenom \in Denoms DEF Denoms
  <2> HIDE DEF three
  <2>6. /\ tx'.asked = three /\ tx'.done = 1 /\ tx'.before = tx.before
        /\ tx' \in Transaction
    <3>1. tx' = [tx EXCEPT !.done = tx.done + 1, !.asked = three]
      BY <2>4, <2>5, Zenon
    <3>2. tx.done + 1 = 1
      BY <1>5
    <3>3. tx' = [tx EXCEPT !.done = 1, !.asked = three]
      BY <3>1, <3>2
    <3>4. three \in Seq(Messages)
      BY <1>4
    <3>5. /\ tx = [asked |-> tx.asked, done |-> tx.done, before |-> tx.before]
          /\ [asked |-> three, done |-> 1, before |-> tx.before] \in Transaction
      BY <1>1, <3>4 DEF Transaction
    <3>6. tx' = [asked |-> three, done |-> 1, before |-> tx.before]
      BY <3>3, <3>5
    <3> QED
      BY <3>5, <3>6
  <2>7. /\ hub' \in Stored /\ hub'.validators = {}
        /\ hub'.allianceTokenDenom = TokenDenom /\ hub'.allianceTokenSupply = TotalSupply
    BY <1>3, <2>4, TokenAssumption DEF Creating, Stored, Denoms
  <2>8. Creating'
    BY <1>3, <2>1, <2>4, <2>6, <2>7 DEF Creating, three
  <2>9. TokenTypeOK'
    BY <2>4, <2>6, <2>7 DEF TokenTypeOK, TokenInv
  <2>10. Running' /\ Accounted(tx'.before.hub, tx'.before.tokens)
    BY <1>1, <2>6, NothingElse DEF TokenInv, Running
  <2> QED
    BY <2>6, <2>8, <2>9, <2>10 DEF TokenInv
<1>6. CASE tx.done # 0
  <2>1. /\ tx.asked = three /\ tx.done \in {1, 2}
        /\ hub.allianceTokenDenom = TokenDenom /\ hub.allianceTokenSupply = TotalSupply
        /\ tx.done = 1 => tokens = None
        /\ tx.done = 2 => tokens = AllMinted
    <3> HIDE DEF three
    <3>1. /\ tx.asked = three
          /\ hub.allianceTokenDenom = TokenDenom /\ hub.allianceTokenSupply = TotalSupply
          /\ \/ tx.done = 1 /\ tokens = None
             \/ tx.done \in {2, 3} /\ tokens = AllMinted
      BY <1>3, <1>6 DEF Creating, three
    <3>2. tx.done < 3
      BY <1>1, <1>4, <3>1
    <3> QED
      BY <3>1, <3>2
  <2>2. /\ hub' = hub /\ tx' = [tx EXCEPT !.done = @ + 1] /\ tokens' = AllMinted
    <3>1. CASE tx.done = 1
      <4>1. Message = three[2]
        <5> HIDE DEF three
        <5> QED
          BY <2>1, <3>1 DEF Message
      <4>2. ExecuteMintTokens
        BY <1>4, <4>1 DEF ExecuteCreateDenom, ExecuteSetMetadata
      <4>3. tokens' = [None EXCEPT !["hub"] = @ + TotalSupply]
        BY <1>4, <2>1, <3>1, <4>1, <4>2 DEF ExecuteMintTokens
      <4>4. tokens' = AllMinted
        <5>1. "hub" \in Places /\ 0 + TotalSupply = TotalSupply
          BY TokenAssumption DEF Places
        <5> QED
          BY <4>3, <5>1 DEF None, AllMinted
      <4> QED
        BY <4>2, <4>4 DEF ExecuteMintTokens
    <3>2. CASE tx.done = 2
      <4>1. Message = three[3]
        <5> HIDE DEF three
        <5> QED
          BY <2>1, <3>2 DEF Message
      <4>2. ExecuteSetMetadata
        BY <1>4, <4>1 DEF ExecuteCreateDenom, ExecuteMintTokens
      <4> QED
        BY <2>1, <3>2, <4>2 DEF ExecuteSetMetadata
    <3> QED
      BY <2>1, <3>1, <3>2
  <2>3. /\ tx'.asked = three /\ tx'.done \in {2, 3} /\ tx'.before = tx.before
        /\ tx' \in Transaction
    BY <1>1, <2>1, <2>2 DEF Transaction
  <2>4. Creating'
    BY <1>3, <2>1, <2>2, <2>3 DEF Creating
  <2>5. AllMinted \in [Places -> Nat]
    BY TokenAssumption DEF AllMinted
  <2>6. TokenTypeOK'
    BY <2>2, <2>3, <2>5 DEF TokenTypeOK, TokenInv
  <2>7. Running' /\ Accounted(tx'.before.hub, tx'.before.tokens)
    BY <1>1, <2>3, NothingElse DEF TokenInv, Running
  <2> QED
    BY <2>3, <2>4, <2>6, <2>7 DEF TokenInv
<1> QED
  BY <1>5, <1>6

(* A delegation handler has saved its validators and ordered its messages. *)
LEMMA DelegationBegins ==
  ASSUME TokenInv, ~Running, Live, NEW asked \in Seq(Moves), asked # <<>>,
         OneKind(asked),
         hub' = [hub EXCEPT !.validators = @ \cup NamedTargets(asked)],
         tx' = Begin(asked), tokens' = tokens
  PROVE  TokenInv'
<1>1. hub \in Stored /\ tokens \in [Places -> Nat] /\ Accounted(hub, tokens)
  BY DEF TokenInv, TokenTypeOK, Live
<1>2. hub # NotFound /\ hub' # NotFound /\ hub' \in Stored
  <2>1. hub' \in Stored
    BY <1>1 DEF Stored, NamedTargets
  <2> QED
    BY <2>1, <1>1, NothingElse
<1>3. asked \in Seq(Messages)
  BY MessageTypes
<1>4. tx' \in Transaction
  BY <1>3, BeginType DEF TokenInv
<1>5. tx'.asked = asked /\ tx'.done = 0 /\ tx'.before.hub = hub /\ tx'.before.tokens = tokens
  BY DEF Begin
<1>6. TokenTypeOK' /\ Running'
  BY <1>1, <1>2, <1>4, NothingElse DEF TokenTypeOK, Running
<1>7. Accounted(hub', tokens')
  BY <1>1, <1>2 DEF Accounted, Stored
<1>8. /\ \A p \in Places : Flow(AmountsOf(asked), SourcesOf(asked), p, 0) = 0
      /\ \A p \in Places : Flow(AmountsOf(asked), TargetsOf(asked), p, 0) = 0
  <2>1. 0 \in Nat /\ 1 .. 0 = {}
    OBVIOUS
  <2>2. ASSUME NEW ends, NEW p PROVE Flow(AmountsOf(asked), ends, p, 0) = 0
    <3>1. \A i \in 1 .. 0 : ends[i] # p
      BY <2>1
    <3> QED
      BY <2>1, <3>1, FlowNone
  <2> QED
    BY <2>2
<1>9. Delegating'
  <2>1. \A p \in Places :
          tokens'[p] + Flow(AmountsOf(asked), SourcesOf(asked), p, 0) =
            tokens[p] + Flow(AmountsOf(asked), TargetsOf(asked), p, 0)
    BY <1>8
  <2>2. 0 <= Len(asked) /\ \A i \in 1 .. 0 : asked[i].amount > 0
    OBVIOUS
  <2> QED
    BY <1>2, <1>5, <1>7, <2>1, <2>2 DEF Delegating
<1> QED
  BY <1>1, <1>5, <1>6, <1>9 DEF TokenInv

LEMMA HandlerBegins ==
  ASSUME TokenInv, NEW sender,
         \/ \E entries \in Entries([target : Validators, amount : Amounts]) :
              AllianceDelegate(sender, entries)
         \/ \E entries \in Entries([source : Validators, amount : Amounts]) :
              AllianceUndelegate(sender, entries)
         \/ \E entries \in Entries([source : Validators, target : Validators, amount : Amounts]) :
              AllianceRedelegate(sender, entries)
  PROVE  \E asked \in Seq(Moves) :
           /\ ~Running /\ Live /\ asked # <<>>
           /\ OneKind(asked)
           /\ hub' = [hub EXCEPT !.validators = @ \cup NamedTargets(asked)]
           /\ tx' = Begin(asked) /\ tokens' = tokens
<1>1. Amounts \subseteq Nat /\ MaxMessages \in Nat
  BY TokenAssumption
<1>2. Live => hub \in Stored /\ hub.allianceTokenDenom \in Denoms /\ hub.validators \subseteq Validators
  BY DEF TokenInv, TokenTypeOK, Live, Stored
<1>3. /\ {"hub", "unbonding"} \subseteq Places /\ Validators \subseteq Places
      /\ "hub" \notin Validators /\ "unbonding" \notin Validators
  BY TokenAssumption DEF Places
<1>4. ASSUME NEW entries \in Entries([target : Validators, amount : Amounts]),
             AllianceDelegate(sender, entries)
      PROVE  \E asked \in Seq(Moves) :
               /\ ~Running /\ Live /\ asked # <<>>
               /\ OneKind(asked)
               /\ hub' = [hub EXCEPT !.validators = @ \cup NamedTargets(asked)]
               /\ tx' = Begin(asked) /\ tokens' = tokens
  <2>1. PICK k \in Nat : entries \in [1 .. k -> [target : Validators, amount : Amounts]]
    BY <1>1, <1>4 DEF Entries
  <2> DEFINE asked == [i \in DOMAIN entries |->
                         Move(hub.allianceTokenDenom, "hub", entries[i].target, entries[i].amount)]
  <2>2. /\ ~Running /\ Live /\ entries # <<>> /\ tx' = Begin(asked) /\ tokens' = tokens
        /\ hub' = [hub EXCEPT !.validators = @ \cup {entries[i].target : i \in DOMAIN entries}]
    BY <1>4 DEF AllianceDelegate, Track
  <2>3. \A i \in 1 .. k : /\ asked[i] \in Moves
                          /\ asked[i].source = "hub" /\ asked[i].target = entries[i].target
                          /\ entries[i].target \in Validators
    BY <1>1, <1>2, <1>3, <2>1, <2>2 DEF Move, Moves
  <2>4. DOMAIN asked = 1 .. k /\ asked = [i \in 1 .. k |-> asked[i]] /\ DOMAIN entries = 1 .. k
    BY <2>1
  <2>5. k # 0
    BY <2>1, <2>2
  <2> HIDE DEF asked
  <2>6. asked \in Seq(Moves) /\ asked # <<>>
    <3>1. asked \in [1 .. k -> Moves]
      BY <2>3, <2>4
    <3>2. 1 \in DOMAIN asked
      BY <2>4, <2>5
    <3> QED
      BY <3>1, <3>2
  <2>7. OneKind(asked)
    BY <2>3, <2>4 DEF OneKind
  <2>8. NamedTargets(asked) = {entries[i].target : i \in DOMAIN entries}
    BY <2>3, <2>4 DEF NamedTargets
  <2> QED
    BY <2>2, <2>6, <2>7, <2>8
<1>5. ASSUME NEW entries \in Entries([source : Validators, amount : Amounts]),
             AllianceUndelegate(sender, entries)
      PROVE  \E asked \in Seq(Moves) :
               /\ ~Running /\ Live /\ asked # <<>>
               /\ OneKind(asked)
               /\ hub' = [hub EXCEPT !.validators = @ \cup NamedTargets(asked)]
               /\ tx' = Begin(asked) /\ tokens' = tokens
  <2>1. PICK k \in Nat : entries \in [1 .. k -> [source : Validators, amount : Amounts]]
    BY <1>1, <1>5 DEF Entries
  <2> DEFINE asked == [i \in DOMAIN entries |->
                         Move(hub.allianceTokenDenom, entries[i].source, "unbonding",
                              entries[i].amount)]
  <2>2. /\ ~Running /\ Live /\ entries # <<>> /\ tx' = Begin(asked) /\ tokens' = tokens
        /\ hub' = hub
    BY <1>5 DEF AllianceUndelegate
  <2>3. \A i \in 1 .. k : /\ asked[i] \in Moves
                          /\ asked[i].source \in Validators /\ asked[i].target = "unbonding"
    BY <1>1, <1>2, <1>3, <2>1, <2>2 DEF Move, Moves
  <2>4. DOMAIN asked = 1 .. k /\ asked = [i \in 1 .. k |-> asked[i]]
    BY <2>1
  <2>5. k # 0
    BY <2>1, <2>2
  <2> HIDE DEF asked
  <2>6. asked \in Seq(Moves) /\ asked # <<>>
    <3>1. asked \in [1 .. k -> Moves]
      BY <2>3, <2>4
    <3>2. 1 \in DOMAIN asked
      BY <2>4, <2>5
    <3> QED
      BY <3>1, <3>2
  <2>7. OneKind(asked)
    BY <2>3, <2>4 DEF OneKind
  <2>8. NamedTargets(asked) = {}
    BY <1>3, <2>3, <2>4 DEF NamedTargets
  <2>9. hub' = [hub EXCEPT !.validators = @ \cup NamedTargets(asked)]
    BY <1>2, <2>2, <2>8 DEF Stored
  <2> QED
    BY <2>2, <2>6, <2>7, <2>9
<1>6. ASSUME NEW entries \in
                   Entries([source : Validators, target : Validators, amount : Amounts]),
             AllianceRedelegate(sender, entries)
      PROVE  \E asked \in Seq(Moves) :
               /\ ~Running /\ Live /\ asked # <<>>
               /\ OneKind(asked)
               /\ hub' = [hub EXCEPT !.validators = @ \cup NamedTargets(asked)]
               /\ tx' = Begin(asked) /\ tokens' = tokens
  <2>1. PICK k \in Nat :
          entries \in [1 .. k -> [source : Validators, target : Validators, amount : Amounts]]
    BY <1>1, <1>6 DEF Entries
  <2> DEFINE asked == [i \in DOMAIN entries |->
                         Move(hub.allianceTokenDenom, entries[i].source, entries[i].target,
                              entries[i].amount)]
  <2>2. /\ ~Running /\ Live /\ entries # <<>> /\ tx' = Begin(asked) /\ tokens' = tokens
        /\ hub' = [hub EXCEPT !.validators = @ \cup {entries[i].target : i \in DOMAIN entries}]
    BY <1>6 DEF AllianceRedelegate, Track
  <2>3. \A i \in 1 .. k : /\ asked[i] \in Moves
                          /\ asked[i].source \in Validators
                          /\ asked[i].target = entries[i].target
                          /\ entries[i].target \in Validators
    BY <1>1, <1>2, <1>3, <2>1, <2>2 DEF Move, Moves
  <2>4. DOMAIN asked = 1 .. k /\ asked = [i \in 1 .. k |-> asked[i]] /\ DOMAIN entries = 1 .. k
    BY <2>1
  <2>5. k # 0
    BY <2>1, <2>2
  <2> HIDE DEF asked
  <2>6. asked \in Seq(Moves) /\ asked # <<>>
    <3>1. asked \in [1 .. k -> Moves]
      BY <2>3, <2>4
    <3>2. 1 \in DOMAIN asked
      BY <2>4, <2>5
    <3> QED
      BY <3>1, <3>2
  <2>7. OneKind(asked)
    BY <2>3, <2>4 DEF OneKind
  <2>8. NamedTargets(asked) = {entries[i].target : i \in DOMAIN entries}
    BY <2>3, <2>4 DEF NamedTargets
  <2> QED
    BY <2>2, <2>6, <2>7, <2>8
<1> QED
  BY <1>4, <1>5, <1>6

LEMMA EndsOfMoves ==
  ASSUME NEW asked \in Seq(Moves)
  PROVE  /\ DOMAIN asked = 1 .. Len(asked) /\ Len(asked) \in Nat
         /\ \A i \in 1 .. Len(asked) :
              /\ asked[i] \in Moves
              /\ asked[i].amount \in Nat
              /\ asked[i].source \in Places /\ asked[i].target \in Places
              /\ AmountsOf(asked)[i] = asked[i].amount
              /\ SourcesOf(asked)[i] = asked[i].source
              /\ TargetsOf(asked)[i] = asked[i].target
<1>1. DOMAIN asked = 1 .. Len(asked) /\ Len(asked) \in Nat
  OBVIOUS
<1>2. \A i \in 1 .. Len(asked) : asked[i] \in Moves
  OBVIOUS
<1> QED
  BY <1>1, <1>2 DEF Moves, AmountsOf, SourcesOf, TargetsOf

LEMMA HubStored ==
  ASSUME TokenInv, Running
  PROVE  hub \in Stored /\ hub # NotFound
<1>1. CASE Creating
  BY <1>1, NothingElse DEF Creating
<1>2. CASE Delegating
  <2>1. tx \in Transaction
    BY DEF TokenInv, TokenTypeOK, Running
  <2>2. tx.before.hub \in Stored /\ NamedTargets(tx.asked) \subseteq Validators
    BY <1>2, <2>1 DEF Delegating, Transaction, NamedTargets
  <2>3. hub \in Stored
    BY <1>2, <2>2 DEF Delegating, Stored
  <2> QED
    BY <2>3, NothingElse
<1> QED
  BY <1>1, <1>2 DEF TokenInv

(* The alliance module executes one more message.                          *)
LEMMA MoveStep ==
  ASSUME TokenInv, ExecuteMove
  PROVE  TokenInv' /\ Running' /\ tx'.before = tx.before
<1>1. Running /\ tx \in Transaction /\ tx.done < Len(tx.asked) /\ tx.done \in Nat
  BY DEF TokenInv, TokenTypeOK, ExecuteMove, Pending, Running, Transaction
<1>2. ~Creating
  <2>1. SUFFICES ASSUME Creating PROVE Message.type # "move"
    BY DEF ExecuteMove
  <2> DEFINE one == <<CreateDenom>>
             three == <<CreateDenom, MintTokens(TokenDenom, TotalSupply),
                        SetMetadata(TokenDenom)>>
  <2>2. /\ Len(one) = 1 /\ one[1] = CreateDenom
        /\ Len(three) = 3 /\ three[1].type = "create" /\ three[2].type = "mint"
        /\ three[3].type = "metadata"
    BY MessageTypes, TokenAssumption, TokenDenom \in Denoms DEF Denoms
  <2> HIDE DEF one, three
  <2>3. \/ tx.asked = one /\ tx.done = 0
        \/ tx.asked = three /\ (tx.done = 1 \/ tx.done \in {2, 3})
    BY <2>1 DEF Creating, one, three
  <2>4. Message.type \in {"create", "mint", "metadata"}
    BY <1>1, <2>2, <2>3, MessageTypes DEF Message
  <2> QED
    BY <2>4
<1>3. Delegating /\ Accounted(tx.before.hub, tx.before.tokens)
  BY <1>1, <1>2 DEF TokenInv
<1> DEFINE asked == tx.asked
           k == tx.done
           p == asked[k + 1].source
           q == asked[k + 1].target
           n == asked[k + 1].amount
<1>4. asked \in Seq(Moves) /\ k + 1 \in 1 .. Len(asked) /\ k \in Nat
  BY <1>1, <1>3 DEF Delegating
<1>5. /\ hub' = hub /\ tx' = [tx EXCEPT !.done = k + 1]
      /\ p # q /\ n > 0 /\ tokens[p] >= n
      /\ tokens' = [tokens EXCEPT ![p] = @ - n, ![q] = @ + n]
  BY DEF ExecuteMove, Message
<1>6. tx' \in Transaction /\ tx'.asked = asked /\ tx'.before = tx.before /\ tx'.done = k + 1
  BY <1>1, <1>4, <1>5 DEF Transaction
<1> HIDE DEF asked, k, p, q, n
<1>7. p \in Places /\ q \in Places /\ n \in Nat /\ tokens \in [Places -> Nat]
  BY <1>4, EndsOfMoves DEF p, q, n, TokenInv, TokenTypeOK
<1>8. tokens' \in [Places -> Nat] /\ SumOver(tokens', Places) = SumOver(tokens, Places)
  <2>1. /\ tokens' \in [Places -> Nat]
        /\ tokens'[p] = tokens[p] - n /\ tokens'[q] = tokens[q] + n
        /\ \A r \in Places \ {p, q} : tokens'[r] = tokens[r]
    BY <1>5, <1>7
  <2>2. p # q
    BY <1>5
  <2>3. SumOver(tokens', Places) = SumOver(tokens, Places)
    BY <1>7, <2>1, <2>2, SumMoved
  <2> QED
    BY <2>1, <2>3
<1>9. ASSUME NEW r \in Places
      PROVE  tokens'[r] + Flow(AmountsOf(asked), SourcesOf(asked), r, k + 1) =
               tx.before.tokens[r] + Flow(AmountsOf(asked), TargetsOf(asked), r, k + 1)
  <2>1. tokens[r] + Flow(AmountsOf(asked), SourcesOf(asked), r, k) =
          tx.before.tokens[r] + Flow(AmountsOf(asked), TargetsOf(asked), r, k)
    BY <1>3, <1>9 DEF Delegating, asked, k
  <2>2. \A i \in 1 .. k + 1 : AmountsOf(asked)[i] \in Nat
    BY <1>4, EndsOfMoves
  <2>3. /\ AmountsOf(asked)[k + 1] = n /\ SourcesOf(asked)[k + 1] = p
        /\ TargetsOf(asked)[k + 1] = q
    BY <1>4, EndsOfMoves DEF n, p, q
  <2>4. ASSUME NEW ends
        PROVE  /\ Flow(AmountsOf(asked), ends, r, k) \in Nat
               /\ Flow(AmountsOf(asked), ends, r, k + 1) =
                    Flow(AmountsOf(asked), ends, r, k) + (IF ends[k + 1] = r THEN n ELSE 0)
    <3>1. \A i \in 1 .. k : AmountsOf(asked)[i] \in Nat
      BY <1>4, <2>2
    <3> QED
      BY <1>4, <2>2, <2>3, <3>1, FlowNat, FlowStep
  <2>5. tokens'[r] = tokens[r] - (IF r = p THEN n ELSE 0) + (IF r = q THEN n ELSE 0)
    BY <1>5, <1>7
  <2>6. tokens[r] \in Nat /\ tx.before.tokens[r] \in Nat
    BY <1>1, <1>7 DEF Transaction
  <2> DEFINE outBefore == Flow(AmountsOf(asked), SourcesOf(asked), r, k)
             outAfter == Flow(AmountsOf(asked), SourcesOf(asked), r, k + 1)
             inBefore == Flow(AmountsOf(asked), TargetsOf(asked), r, k)
             inAfter == Flow(AmountsOf(asked), TargetsOf(asked), r, k + 1)
  <2>7. /\ outBefore \in Nat /\ outAfter = outBefore + (IF p = r THEN n ELSE 0)
        /\ inBefore \in Nat /\ inAfter = inBefore + (IF q = r THEN n ELSE 0)
    BY <2>3, <2>4
  <2>8. tokens[r] + outBefore = tx.before.tokens[r] + inBefore
    BY <2>1
  <2> HIDE DEF outBefore, outAfter, inBefore, inAfter
  <2>9. tokens'[r] + outAfter = tx.before.tokens[r] + inAfter
    BY <1>7, <2>5, <2>6, <2>7, <2>8
  <2> QED
    BY <2>9 DEF outAfter, inAfter
<1>10. \A i \in 1 .. k + 1 : asked[i].amount > 0
  <2>1. \A i \in 1 .. k : asked[i].amount > 0
    BY <1>3 DEF Delegating, asked, k
  <2>2. asked[k + 1].amount > 0
    BY <1>5 DEF n
  <2>3. \A i \in 1 .. k + 1 : i \in 1 .. k \/ i = k + 1
    BY <1>4
  <2> QED
    BY <2>1, <2>2, <2>3
<1>11. Accounted(hub', tokens') /\ hub # NotFound
  <2>3. hub # NotFound
    BY <1>1, HubStored
  <2> QED
    BY <1>3, <1>5, <1>8, <2>3 DEF Accounted, Delegating
<1>12. Delegating'
  <2>1. k + 1 <= Len(asked)
    BY <1>4
  <2>2. OneKind(asked) /\ asked # <<>> /\ tx.before.hub # NotFound
        /\ hub = [tx.before.hub EXCEPT !.validators = @ \cup NamedTargets(asked)]
    BY <1>3 DEF Delegating, asked
  <2> QED
    BY <1>4, <1>5, <1>6, <1>9, <1>10, <1>11, <2>1, <2>2 DEF Delegating
<1>13. TokenTypeOK' /\ Running'
  BY <1>5, <1>6, <1>8, NothingElse DEF TokenTypeOK, TokenInv, Running
<1> QED
  BY <1>3, <1>6, <1>12, <1>13 DEF TokenInv

LEMMA EndStep ==
  ASSUME TokenInv, MessageFails \/ Commit
  PROVE  TokenInv'
<1>1. Running /\ tx \in Transaction
  BY DEF TokenInv, TokenTypeOK, MessageFails, Commit, Pending, Running
<1>2. CASE MessageFails
  <2>1. hub' = tx.before.hub /\ tokens' = tx.before.tokens /\ tx' = NoTx
    BY <1>2 DEF MessageFails, ErrorCaught
  <2> QED
    BY <1>1, <2>1 DEF TokenInv, TokenTypeOK, Transaction, Running
<1>3. CASE Commit
  <2>1. hub' = hub /\ tokens' = tokens /\ tx' = NoTx /\ ~(tx.done < Len(tx.asked))
    BY <1>3 DEF Commit, Pending
  <2>2. Accounted(hub, tokens)
    <3>1. CASE Creating
      <4> DEFINE one == <<CreateDenom>>
                 three == <<CreateDenom, MintTokens(TokenDenom, TotalSupply),
                            SetMetadata(TokenDenom)>>
      <4>1. Len(one) = 1 /\ Len(three) = 3
        OBVIOUS
      <4> HIDE DEF one, three
      <4>2. \/ tx.asked = one /\ tx.done = 0
            \/ /\ tx.asked = three
               /\ hub.allianceTokenDenom = TokenDenom
               /\ hub.allianceTokenSupply = TotalSupply
               /\ tx.done = 1 \/ (tx.done \in {2, 3} /\ tokens = AllMinted)
        BY <3>1 DEF Creating, one, three
      <4>3. /\ tokens = AllMinted
            /\ hub.allianceTokenDenom = TokenDenom /\ hub.allianceTokenSupply = TotalSupply
        <5>1. ~(tx.done < Len(tx.asked))
          BY <2>1
        <5>2. ~(tx.asked = one /\ tx.done = 0)
          BY <4>1, <5>1
        <5>3. ASSUME tx.asked = three, tx.done = 1 PROVE FALSE
          <6>1. Len(tx.asked) = 3
            BY <4>1, <5>3
          <6>2. ~(1 < 3)
            BY <5>1, <5>3, <6>1, Zenon
          <6> QED
            BY <6>2
        <5> QED
          BY <4>2, <5>2, <5>3
      <4>4. hub # NotFound
        BY <3>1, NothingElse DEF Creating
      <4> QED
        BY <4>3, <4>4, SumOfMinted DEF Accounted
    <3>2. CASE Delegating
      BY <3>2 DEF Delegating
    <3> QED
      BY <1>1, <3>1, <3>2 DEF TokenInv
  <2> QED
    BY <2>1, <2>2 DEF TokenInv, TokenTypeOK, Running
<1> QED
  BY <1>2, <1>3

LEMMA ChainMoves ==
  ASSUME TokenInv,
         \/ \E n \in Amounts : CompleteUnbonding(n)
         \/ \E v \in Validators, n \in Amounts : Slash(v, n)
  PROVE  /\ TokenInv'
         /\ tx' = tx /\ hub' = hub /\ ~Running
         /\ \A v \in Validators : tokens'[v] > 0 <=> tokens[v] > 0
<1>1. PICK p \in Places \ {"hub", "slashed"}, q \in {"hub", "slashed"}, n \in Nat :
        /\ ~Running /\ hub' = hub /\ tx' = tx
        /\ tokens[p] >= n /\ (p \in Validators => tokens[p] > n)
        /\ tokens' = [tokens EXCEPT ![p] = @ - n, ![q] = @ + n]
  <2>1. Amounts \subseteq Nat
    BY TokenAssumption
  <2>2. ASSUME NEW n \in Amounts, CompleteUnbonding(n)
        PROVE  /\ ~Running /\ hub' = hub /\ tx' = tx
               /\ tokens["unbonding"] >= n
               /\ tokens' = [tokens EXCEPT !["unbonding"] = @ - n, !["hub"] = @ + n]
    BY <2>2 DEF CompleteUnbonding
  <2>3. "unbonding" \in Places \ {"hub", "slashed"} /\ "unbonding" \notin Validators
    BY TokenAssumption DEF Places
  <2>4. ASSUME NEW v \in Validators, NEW n \in Amounts, Slash(v, n)
        PROVE  /\ ~Running /\ hub' = hub /\ tx' = tx
               /\ tokens[v] >= n /\ tokens[v] > n
               /\ tokens' = [tokens EXCEPT ![v] = @ - n, !["slashed"] = @ + n]
               /\ v \in Places \ {"hub", "slashed"}
    <3>1. v \in Places \ {"hub", "slashed"}
      BY TokenAssumption DEF Places
    <3>2. tokens[v] \in Nat /\ n \in Nat
      BY <2>1, <3>1 DEF TokenInv, TokenTypeOK
    <3> QED
      BY <2>4, <3>1, <3>2 DEF Slash
  <2> QED
    BY <2>1, <2>2, <2>3, <2>4
<1>2. p \in Places /\ q \in Places /\ p # q /\ q \notin Validators
  BY TokenAssumption DEF Places
<1>3. tokens \in [Places -> Nat] /\ Validators \subseteq Places
  BY DEF TokenInv, TokenTypeOK, Places
<1>4. tokens' \in [Places -> Nat] /\ SumOver(tokens', Places) = SumOver(tokens, Places)
  <2>1. /\ tokens' \in [Places -> Nat]
        /\ tokens'[p] = tokens[p] - n /\ tokens'[q] = tokens[q] + n
        /\ \A r \in Places \ {p, q} : tokens'[r] = tokens[r]
    BY <1>1, <1>2, <1>3
  <2> QED
    BY <1>2, <1>3, <2>1, SumMoved
<1>5. \A v \in Validators : tokens'[v] > 0 <=> tokens[v] > 0
  BY <1>1, <1>2, <1>3
<1>6. Accounted(hub, tokens)
  BY <1>1 DEF TokenInv
<1>7. Accounted(hub', tokens')
  <2>1. CASE hub = NotFound
    <3>1. tokens = None
      BY <1>6, <2>1 DEF Accounted
    <3>2. n = 0
      BY <1>1, <1>2, <3>1 DEF None
    <3>3. tokens' = None
      BY <1>1, <1>2, <3>1, <3>2 DEF None
    <3> QED
      BY <1>1, <2>1, <3>3 DEF Accounted
  <2>2. CASE hub # NotFound
    BY <1>1, <1>4, <1>6, <2>2 DEF Accounted
  <2> QED
    BY <2>1, <2>2
<1> QED
  BY <1>1, <1>4, <1>5, <1>7 DEF TokenInv, TokenTypeOK, Running

(* The two kinds of messages of administrators.                            *)
Configures ==
  \E sender \in Admins, update \in ConfigUpdates : UpdateConfig(sender, update)
Delegates ==
  \E sender \in Admins :
    \/ \E entries \in Entries([target : Validators, amount : Amounts]) :
         AllianceDelegate(sender, entries)
    \/ \E entries \in Entries([source : Validators, amount : Amounts]) :
         AllianceUndelegate(sender, entries)
    \/ \E entries \in Entries([source : Validators, target : Validators, amount : Amounts]) :
         AllianceRedelegate(sender, entries)

LEMMA AdminSteps == AdminStep <=> Configures \/ Delegates
BY Zenon DEF AdminStep, Configures, Delegates

(* The roles change hands between transactions; nothing else changes.      *)
LEMMA ConfigStep ==
  ASSUME TokenInv, NEW sender, NEW update \in ConfigUpdates, UpdateConfig(sender, update)
  PROVE  /\ TokenInv' /\ ~Running /\ ~Running' /\ hub # NotFound /\ hub' # NotFound
         /\ hub \in Stored /\ hub' \in Stored
         /\ hub'.validators = hub.validators /\ tokens' = tokens
         /\ hub'.roles = [r \in TokenRoles |-> IF update[r] = NotFound THEN hub.roles[r]
                                                                 ELSE update[r]]
<1>1. ~Running /\ ~Running' /\ hub # NotFound /\ tokens' = tokens /\ tx' = tx
  BY DEF UpdateConfig, Live, Running
<1>2. hub \in Stored /\ Accounted(hub, tokens)
  BY <1>1 DEF TokenInv, TokenTypeOK
<1>3. hub.roles \in [TokenRoles -> Admins] /\ update \in [TokenRoles -> Admins \cup {NotFound}]
  BY <1>2, TokenAssumption DEF Stored
<1> DEFINE roles == [r \in TokenRoles |-> IF update[r] = NotFound THEN hub.roles[r]
                                                             ELSE update[r]]
<1>4. roles \in [TokenRoles -> Admins]
  BY <1>3
<1>5. hub' = [hub EXCEPT !.roles = roles]
  BY DEF UpdateConfig
<1> HIDE DEF roles
<1>6. /\ hub' \in Stored /\ hub'.roles = roles /\ hub'.validators = hub.validators
      /\ hub'.allianceTokenDenom = hub.allianceTokenDenom
      /\ hub'.allianceTokenSupply = hub.allianceTokenSupply
  BY <1>2, <1>4, <1>5 DEF Stored
<1>7. hub' # NotFound
  BY <1>6, NothingElse
<1>8. Accounted(hub', tokens')
  BY <1>1, <1>2, <1>6, <1>7 DEF Accounted
<1>9. TokenTypeOK'
  BY <1>1, <1>6 DEF TokenInv, TokenTypeOK
<1> QED
  BY <1>1, <1>2, <1>6, <1>7, <1>8, <1>9 DEF TokenInv, roles

LEMMA TokenInvariant == TokenSpec => []TokenInv
<1>1. TokenInv /\ [TokenNext]_tokenVars => TokenInv'
  <2> SUFFICES ASSUME TokenInv, [TokenNext]_tokenVars PROVE TokenInv'
    OBVIOUS
  <2>1. CASE Instantiate
    BY <2>1, InstantiateStep
  <2>2. CASE AdminStep
    <3>1. CASE Configures
      BY <3>1, ConfigStep DEF Configures
    <3>2. CASE Delegates
      BY <3>2, HandlerBegins, DelegationBegins DEF Delegates
    <3> QED
      BY <2>2, <3>1, <3>2, AdminSteps
  <2>3. CASE MessageStep
    BY <2>3, CreateStep, MoveStep, EndStep DEF MessageStep
  <2>4. CASE \/ \E n \in Amounts : CompleteUnbonding(n)
             \/ \E v \in Validators, n \in Amounts : Slash(v, n)
    BY <2>4, ChainMoves
  <2>5. CASE UNCHANGED tokenVars
    BY <2>5 DEF tokenVars, TokenInv, TokenTypeOK, Running, Accounted, Creating, Delegating
  <2> QED
    BY <2>1, <2>2, <2>3, <2>4, <2>5 DEF TokenNext
<1> QED
  BY <1>1, InitInv, PTL DEF TokenSpec
-----------------------------------------------------------------------------
(* What the hub records of its token is what there is of it: reply writes  *)
(* the denom and the supply before the tokens are minted, and delegations  *)
(* only move them.                                                         *)
THEOREM TokensAlwaysAccounted == TokenSpec => []TokensAccounted
<1>1. TokenInv => TokensAccounted
  <2> SUFFICES ASSUME TokenInv PROVE TokensAccounted
    OBVIOUS
  <2>1. ASSUME Live PROVE Accounted(hub, tokens) /\ hub # NotFound
    BY <2>1 DEF TokenInv, Live, Creating, Delegating
  <2>2. ASSUME hub = NotFound PROVE SumOver(tokens, Places) = 0
    BY <2>2, HubStored, SumOfNone DEF TokenInv, Accounted
  <2> QED
    BY <2>1, <2>2, TokenAssumption DEF TokensAccounted, Accounted
<1> QED
  BY <1>1, TokenInvariant, PTL

(* What ends a transaction.                                                *)
LEMMA Ends ==
  ASSUME TokenInv, TokenNext, Running, ~Running'
  PROVE  MessageFails \/ Commit
<1>1. ~Instantiate /\ ~(\E n \in Amounts : CompleteUnbonding(n))
      /\ ~(\E v \in Validators, n \in Amounts : Slash(v, n)) /\ ~AdminStep
  BY DEF Instantiate, CompleteUnbonding, Slash, AdminStep, UpdateConfig, AllianceDelegate,
         AllianceUndelegate, AllianceRedelegate
<1>2. MessageStep
  BY <1>1 DEF TokenNext
<1> QED
  BY <1>2, CreateStep, MoveStep DEF MessageStep

(* A delegation transaction that succeeds has executed every message.      *)
LEMMA Committed ==
  ASSUME TokenInv, Commit, Delegating
  PROVE  /\ hub' = hub /\ tokens' = tokens
         /\ tx.asked \in Seq(Moves) /\ tx.done = Len(tx.asked)
         /\ \A p \in Places :
              /\ Taken(p) = Flow(AmountsOf(tx.asked), SourcesOf(tx.asked), p, tx.done)
              /\ Brought(p) = Flow(AmountsOf(tx.asked), TargetsOf(tx.asked), p, tx.done)
              /\ Taken(p) \in Nat /\ Brought(p) \in Nat
              /\ tokens[p] \in Nat /\ tx.before.tokens[p] \in Nat
              /\ tokens[p] + Taken(p) = tx.before.tokens[p] + Brought(p)
<1>1. Running /\ tx \in Transaction /\ ~(tx.done < Len(tx.asked)) /\ hub' = hub /\ tokens' = tokens
  BY DEF Commit, Pending, TokenInv, TokenTypeOK, Running
<1>2. tx.asked \in Seq(Moves) /\ tx.done \in Nat /\ tx.done <= Len(tx.asked)
      /\ tx.before.tokens \in [Places -> Nat] /\ tokens \in [Places -> Nat]
  BY <1>1 DEF Delegating, Transaction, TokenInv, TokenTypeOK
<1>3. tx.done = Len(tx.asked)
  BY <1>1, <1>2
<1> DEFINE asked == tx.asked
           amounts == AmountsOf(asked)
<1>4. /\ DOMAIN asked = 1 .. Len(asked) /\ Len(asked) \in Nat
      /\ \A i \in 1 .. Len(asked) :
           /\ amounts[i] \in Nat /\ amounts[i] = asked[i].amount
           /\ SourcesOf(asked)[i] = asked[i].source
           /\ TargetsOf(asked)[i] = asked[i].target
  BY <1>2, EndsOfMoves
<1>5. amounts = [i \in DOMAIN asked |-> asked[i].amount]
  BY DEF AmountsOf
<1>6. \A p \in Places :
        tokens[p] + Flow(amounts, SourcesOf(asked), p, tx.done) =
          tx.before.tokens[p] + Flow(amounts, TargetsOf(asked), p, tx.done)
  BY DEF Delegating
<1>7. ASSUME NEW p \in Places
      PROVE  /\ Taken(p) = Flow(amounts, SourcesOf(asked), p, tx.done)
             /\ Brought(p) = Flow(amounts, TargetsOf(asked), p, tx.done)
  <2>1. /\ {i \in DOMAIN asked : asked[i].source = p}
             = {i \in 1 .. tx.done : SourcesOf(asked)[i] = p}
        /\ {i \in DOMAIN asked : asked[i].target = p}
             = {i \in 1 .. tx.done : TargetsOf(asked)[i] = p}
    BY <1>3, <1>4
  <2> QED
    BY <1>5, <2>1 DEF Taken, Brought, Flow
<1>8. ASSUME NEW p, NEW ends PROVE Flow(amounts, ends, p, tx.done) \in Nat
  <2>1. \A i \in 1 .. tx.done : amounts[i] \in Nat
    BY <1>3, <1>4
  <2> HIDE DEF amounts
  <2> QED
    BY <1>2, <2>1, FlowNat
<1> HIDE DEF asked, amounts
<1>9. ASSUME NEW p \in Places
      PROVE  /\ Taken(p) = Flow(amounts, SourcesOf(asked), p, tx.done)
             /\ Brought(p) = Flow(amounts, TargetsOf(asked), p, tx.done)
             /\ Taken(p) \in Nat /\ Brought(p) \in Nat
             /\ tokens[p] \in Nat /\ tx.before.tokens[p] \in Nat
             /\ tokens[p] + Taken(p) = tx.before.tokens[p] + Brought(p)
  <2>1. /\ Taken(p) = Flow(amounts, SourcesOf(asked), p, tx.done)
        /\ Brought(p) = Flow(amounts, TargetsOf(asked), p, tx.done)
    BY <1>7
  <2>2. /\ Flow(amounts, SourcesOf(asked), p, tx.done) \in Nat
        /\ Flow(amounts, TargetsOf(asked), p, tx.done) \in Nat
    BY <1>8
  <2>3. tokens[p] \in Nat /\ tx.before.tokens[p] \in Nat
    BY <1>2
  <2>4. tokens[p] + Flow(amounts, SourcesOf(asked), p, tx.done) =
          tx.before.tokens[p] + Flow(amounts, TargetsOf(asked), p, tx.done)
    BY <1>6
  <2> QED
    BY <2>1, <2>2, <2>3, <2>4
<1> QED
  BY <1>1, <1>2, <1>3, <1>9 DEF asked, amounts

(* A delegation message of several entries is done as a whole or not at    *)
(* all: no entry asks for a reply, so that the first error takes back the  *)
(* ones before it and the validators already saved.                        *)
THEOREM DelegationsAtomic == TokenSpec => DelegationsAllOrNothing
<1> DEFINE Whole ==
      Live /\ Running /\ tx' = NoTx =>
       \/ /\ hub' = tx.before.hub
          /\ tokens' = tx.before.tokens
       \/ /\ hub'.validators = tx.before.hub.validators
               \cup {v \in Validators : \E i \in DOMAIN tx.asked : tx.asked[i].target = v}
          /\ \A p \in Places :
               tokens'[p] + Taken(p) = tx.before.tokens[p] + Brought(p)
<1>1. TokenInv /\ [TokenNext]_tokenVars => [Whole]_tokenVars
  <2> SUFFICES ASSUME TokenInv, TokenNext, Live, Running, tx' = NoTx
               PROVE  Whole
    OBVIOUS
  <2>1. MessageFails \/ Commit
    BY Ends DEF Running
  <2>2. CASE MessageFails
    BY <2>2 DEF MessageFails, ErrorCaught
  <2>3. CASE Commit
    <3>1. Delegating
      BY DEF TokenInv, Live, Creating
    <3>2. /\ hub' = hub /\ tokens' = tokens
          /\ \A p \in Places : tokens[p] + Taken(p) = tx.before.tokens[p] + Brought(p)
      BY <2>3, <3>1, Committed
    <3>3. hub.validators = tx.before.hub.validators \cup NamedTargets(tx.asked)
      <4>1. tx \in Transaction
        BY DEF TokenInv, TokenTypeOK, Running
      <4>2. tx.before.hub \in Stored
        BY <3>1, <4>1 DEF Delegating, Transaction
      <4> QED
        BY <3>1, <4>2 DEF Delegating, Stored
    <3> QED
      BY <3>2, <3>3 DEF NamedTargets
  <2> QED
    BY <2>1, <2>2, <2>3
<1> QED
  BY <1>1, TokenInvariant, PTL DEF TokenSpec, DelegationsAllOrNothing

-----------------------------------------------------------------------------
(* AllianceHub as what the chain commits.                                  *)

Delegated == {v \in Validators : CommittedTokens[v] > 0}

(* The part of AllianceHub's state that this module tells apart.           *)
LEMMA SameForHub ==
  ASSUME CommittedConfig' = CommittedConfig,
         CommittedValidators' = CommittedValidators, Delegated' = Delegated
  PROVE  UNCHANGED Hub!vars
BY DEF Hub!vars, Delegated

LEMMA HubPaysNothing ==
  /\ Hub!SumOver([v \in Validators |-> 0], {}) = 0
  /\ [v \in Validators |-> 0] = [v \in Validators |-> IF v \in {} THEN 0 ELSE 0]
  /\ [d \in {RewardDenom} |-> 0] = [[d \in {RewardDenom} |-> 0] EXCEPT ![RewardDenom] = 0 + 0]
<1>1. SumOver([v \in Validators |-> 0], {}) = 0
  BY SumEmpty
<1>2. Hub!SumOver([v \in Validators |-> 0], {}) = SumOver([v \in Validators |-> 0], {})
  BY DEF Hub!SumOver, SumOver, Hub!MapThenSumSet, MapThenSumSet, Hub!MapThenFoldSet,
         MapThenFoldSet
<1> QED
  BY <1>1, <1>2

(* A set of messages of one kind takes from a validator, or brings to it,  *)
(* exactly if one of them names it.                                        *)
LEMMA MovedIfNamed ==
  ASSUME TokenInv, Commit, Delegating, NEW v \in Validators
  PROVE  /\ Taken(v) > 0 <=> \E i \in DOMAIN tx.asked : tx.asked[i].source = v
         /\ Brought(v) > 0 <=> \E i \in DOMAIN tx.asked : tx.asked[i].target = v
         /\ Taken(v) \in Nat /\ Brought(v) \in Nat
<1> DEFINE asked == tx.asked
           amounts == AmountsOf(asked)
<1>1. v \in Places
  BY DEF Places
<1>2. /\ asked \in Seq(Moves) /\ tx.done = Len(asked)
      /\ Taken(v) = Flow(amounts, SourcesOf(asked), v, tx.done)
      /\ Brought(v) = Flow(amounts, TargetsOf(asked), v, tx.done)
      /\ Taken(v) \in Nat /\ Brought(v) \in Nat
  BY <1>1, Committed
<1>3. \A i \in 1 .. tx.done : asked[i].amount > 0
  BY DEF Delegating
<1> HIDE DEF asked
<1>4. /\ DOMAIN asked = 1 .. tx.done /\ tx.done \in Nat
      /\ \A i \in 1 .. tx.done :
           /\ amounts[i] \in Nat /\ amounts[i] > 0
           /\ SourcesOf(asked)[i] = asked[i].source
           /\ TargetsOf(asked)[i] = asked[i].target
  BY <1>2, <1>3, EndsOfMoves
<1> HIDE DEF amounts
<1>5. ASSUME NEW ends
      PROVE  Flow(amounts, ends, v, tx.done) > 0 <=> \E i \in 1 .. tx.done : ends[i] = v
  <2>1. ASSUME NEW i \in 1 .. tx.done, ends[i] = v PROVE Flow(amounts, ends, v, tx.done) > 0
    BY <1>4, <2>1, FlowPositive
  <2>2. ASSUME \A i \in 1 .. tx.done : ends[i] # v
        PROVE  ~(Flow(amounts, ends, v, tx.done) > 0)
    BY <1>4, <2>2, FlowNone
  <2> QED
    BY <2>1, <2>2
<1>6. /\ Taken(v) > 0 <=> \E i \in 1 .. tx.done : SourcesOf(asked)[i] = v
      /\ Brought(v) > 0 <=> \E i \in 1 .. tx.done : TargetsOf(asked)[i] = v
  BY <1>2, <1>5
<1>7. /\ Taken(v) > 0 <=> \E i \in DOMAIN asked : asked[i].source = v
      /\ Brought(v) > 0 <=> \E i \in DOMAIN asked : asked[i].target = v
  BY <1>4, <1>6
<1> QED
  BY <1>2, <1>7 DEF asked

LEMMA InstantiateRuns ==
  ASSUME TokenInv, Instantiate
  PROVE  Running'
<1>1. tx' \in Transaction
  BY BeginType, MessageTypes, <<CreateDenom>> \in Seq(Messages) DEF TokenInv, Instantiate
<1> QED
  BY <1>1, NothingElse DEF Running

LEMMA DelegationRuns ==
  ASSUME TokenInv, Delegates
  PROVE  Running'
<1>1. PICK asked \in Seq(Moves) : tx' = Begin(asked)
  BY HandlerBegins DEF Delegates
<1>2. asked \in Seq(Messages)
  BY MessageTypes
<1>3. tx' \in Transaction
  BY <1>1, <1>2, BeginType DEF TokenInv
<1> QED
  BY <1>3, NothingElse DEF Running

(* Steps that commit nothing new.                                          *)
LEMMA NotCommitted ==
  ASSUME TokenInv, TokenNext, ~Commit, ~Configures
  PROVE  /\ CommittedConfig' = CommittedConfig
         /\ CommittedValidators' = CommittedValidators /\ Delegated' = Delegated
<1> USE DEF CommittedConfig, CommittedHub
<1>1. CASE ~Running /\ ~Running'
  <2>1. \/ \E n \in Amounts : CompleteUnbonding(n)
        \/ \E v \in Validators, n \in Amounts : Slash(v, n)
    <3>1. ~MessageStep
      BY <1>1 DEF MessageStep, ExecuteCreateDenom, ExecuteMintTokens, ExecuteSetMetadata,
                  ExecuteMove, MessageFails, Commit, Pending
    <3>2. ~Instantiate
      BY <1>1, InstantiateRuns
    <3>3. ~AdminStep
      BY <1>1, DelegationRuns, AdminSteps
    <3> QED
      BY <3>1, <3>2, <3>3 DEF TokenNext
  <2>2. hub' = hub /\ \A v \in Validators : tokens'[v] > 0 <=> tokens[v] > 0
    BY <2>1, ChainMoves
  <2> QED
    BY <1>1, <2>2 DEF CommittedValidators, CommittedTokens, Delegated
<1>2. CASE ~Running /\ Running'
  <2>1. tx'.before.hub = hub /\ tx'.before.tokens = tokens
    <3>1. ~MessageStep
      BY <1>2 DEF MessageStep, ExecuteCreateDenom, ExecuteMintTokens, ExecuteSetMetadata,
                  ExecuteMove, MessageFails, Commit, Pending
    <3>2. Instantiate \/ Delegates
      BY <1>2, <3>1, ChainMoves, AdminSteps DEF TokenNext, Running
    <3>3. \E messages : tx' = Begin(messages)
      BY <3>2 DEF Instantiate, Delegates, AllianceDelegate, AllianceUndelegate,
                  AllianceRedelegate
    <3> QED
      BY <3>3 DEF Begin
  <2> QED
    BY <1>2, <2>1 DEF CommittedValidators, CommittedTokens, Delegated
<1>3. CASE Running /\ Running'
  <2>1. MessageStep
    BY <1>3 DEF TokenNext, Instantiate, AdminStep, UpdateConfig, AllianceDelegate,
                AllianceUndelegate, AllianceRedelegate, CompleteUnbonding, Slash
  <2>2. ~MessageFails
    BY <1>3 DEF MessageFails, ErrorCaught, Running
  <2>3. tx'.before = tx.before
    BY <2>1, <2>2, CreateStep, MoveStep DEF MessageStep
  <2> QED
    BY <1>3, <2>3 DEF CommittedValidators, CommittedTokens, Delegated
<1>4. CASE Running /\ ~Running'
  <2>1. MessageFails
    BY <1>4, Ends
  <2>2. hub' = tx.before.hub /\ tokens' = tx.before.tokens
    BY <2>1 DEF MessageFails, ErrorCaught
  <2> QED
    BY <1>4, <2>2 DEF CommittedValidators, CommittedTokens, Delegated
<1> QED
  BY <1>1, <1>2, <1>3, <1>4

LEMMA CreationCommitted ==
  ASSUME TokenInv, Commit, Creating
  PROVE  /\ CommittedConfig' = CommittedConfig
         /\ CommittedValidators' = CommittedValidators /\ Delegated' = Delegated
<1>1. /\ Running /\ ~Running' /\ hub' = hub /\ tokens' = tokens
      /\ tx.before.hub = NotFound /\ tx.before.tokens = None
      /\ hub.validators = {} /\ hub.roles = InitialRoles /\ hub # NotFound
  BY HubStored DEF Commit, Creating, TokenInv, Accounted, Running
<1>2. CommittedValidators = {} /\ CommittedValidators' = {}
  BY <1>1 DEF CommittedValidators, CommittedHub
<1>3. \A v \in Validators : None[v] = 0 /\ AllMinted[v] = 0
  BY TokenAssumption DEF None, AllMinted, Places
<1>4. tokens = None \/ tokens = AllMinted
  BY DEF Creating
<1>5. Delegated = {} /\ Delegated' = {}
  BY <1>1, <1>3, <1>4 DEF Delegated, CommittedTokens
<1>6. CommittedConfig' = CommittedConfig
  BY <1>1 DEF CommittedConfig, CommittedHub, InitialRoles
<1> QED
  BY <1>2, <1>5, <1>6

(* What a delegation transaction commits, seen as sets.                    *)
LEMMA CommittedSets ==
  ASSUME TokenInv, Commit, Delegating
  PROVE  LET sources == {v \in Validators : \E i \in DOMAIN tx.asked : tx.asked[i].source = v}
             targets == NamedTargets(tx.asked)
         IN  /\ OneKind(tx.asked) /\ DOMAIN tx.asked # {}
             /\ sources \subseteq Delegated \cup targets
             /\ CommittedConfig' = CommittedConfig /\ CommittedConfig["controller"] \in Admins
             /\ CommittedValidators' = CommittedValidators \cup targets
             /\ Delegated' = (Delegated \cup targets) \ {v \in sources : tokens[v] = 0}
<1> DEFINE sources == {v \in Validators : \E i \in DOMAIN tx.asked : tx.asked[i].source = v}
           targets == NamedTargets(tx.asked)
<1>1. /\ Running /\ ~Running' /\ hub' = hub /\ tokens' = tokens
      /\ tx \in Transaction /\ hub # NotFound /\ tx.before.hub # NotFound
  BY HubStored DEF Commit, Delegating, TokenInv, TokenTypeOK, Running
<1>2. OneKind(tx.asked) /\ DOMAIN tx.asked # {}
  <2>1. OneKind(tx.asked) /\ tx.asked \in Seq(Moves) /\ tx.asked # <<>>
    BY DEF Delegating
  <2>2. Len(tx.asked) \in Nat \ {0} /\ DOMAIN tx.asked = 1 .. Len(tx.asked)
    BY <2>1, EmptySeq, EndsOfMoves
  <2>3. 1 \in DOMAIN tx.asked
    BY <2>2
  <2> QED
    BY <2>1, <2>3
<1>3. CommittedValidators' = CommittedValidators \cup targets
  <2>1. tx.before.hub \in Stored
    BY <1>1 DEF Transaction
  <2>2. hub.validators = tx.before.hub.validators \cup targets
    BY <2>1 DEF Delegating, Stored
  <2> QED
    BY <1>1, <2>2 DEF CommittedValidators, CommittedHub
<1>4. Delegated = {v \in Validators : tx.before.tokens[v] > 0}
      /\ Delegated' = {v \in Validators : tokens[v] > 0}
  BY <1>1 DEF Delegated, CommittedTokens
<1>5. ASSUME NEW v \in Validators
      PROVE  /\ v \in sources => v \in Delegated \/ v \in targets
             /\ tokens[v] > 0 <=> (v \in Delegated \/ v \in targets)
                                    /\ ~(v \in sources /\ tokens[v] = 0)
  <2>1. /\ Taken(v) > 0 <=> v \in sources
        /\ Brought(v) > 0 <=> v \in targets
        /\ Taken(v) \in Nat /\ Brought(v) \in Nat
    BY MovedIfNamed DEF NamedTargets
  <2>2. /\ tokens[v] \in Nat /\ tx.before.tokens[v] \in Nat
        /\ tokens[v] + Taken(v) = tx.before.tokens[v] + Brought(v)
    BY Committed DEF Places
  <2>3. v \in Delegated <=> tx.before.tokens[v] > 0
    BY <1>4
  <2> HIDE DEF sources, targets
  <2> QED
    BY <2>1, <2>2, <2>3
<1>6. sources \subseteq Delegated \cup targets
  BY <1>5
<1>7. Delegated' = (Delegated \cup targets) \ {v \in sources : tokens[v] = 0}
  <2>1. sources \subseteq Validators /\ targets \subseteq Validators /\ Delegated \subseteq Validators
    BY DEF NamedTargets, Delegated
  <2> HIDE DEF sources, targets
  <2> QED
    BY <1>4, <1>5, <2>1
<1>8. CommittedConfig' = CommittedConfig /\ CommittedConfig["controller"] \in Admins
  <2>1. tx.before.hub \in Stored
    BY <1>1 DEF Transaction
  <2>2. hub.roles = tx.before.hub.roles /\ tx.before.hub.roles \in [TokenRoles -> Admins]
    BY <2>1 DEF Delegating, Stored
  <2> QED
    BY <1>1, <2>2 DEF CommittedConfig, CommittedHub, TokenRoles
<1> QED
  BY <1>2, <1>3, <1>6, <1>7, <1>8

LEMMA DelegationCommitted ==
  ASSUME TokenInv, Commit, Delegating
  PROVE  Hub!AdminStep
<1> DEFINE sources == {v \in Validators : \E i \in DOMAIN tx.asked : tx.asked[i].source = v}
           targets == NamedTargets(tx.asked)
           emptied == {v \in sources : tokens[v] = 0}
           sender == CommittedConfig["controller"]
<1>1. /\ OneKind(tx.asked) /\ DOMAIN tx.asked # {}
      /\ sources \subseteq Delegated \cup targets
      /\ CommittedConfig' = CommittedConfig
      /\ CommittedValidators' = CommittedValidators \cup targets
      /\ Delegated' = (Delegated \cup targets) \ emptied
  BY CommittedSets
<1>2. sources \subseteq Validators /\ targets \subseteq Validators /\ emptied \subseteq sources
  BY DEF NamedTargets
<1>3. sender \in Admins
  BY CommittedSets
<1>4. "hub" \notin Validators /\ "unbonding" \notin Validators
  BY TokenAssumption
<1>5. \/ sources = {} /\ targets # {}
      \/ sources # {} /\ targets = {}
      \/ sources # {} /\ targets # {}
  <2>1. PICK i \in DOMAIN tx.asked : TRUE
    BY <1>1
  <2>2. CASE \A j \in DOMAIN tx.asked : /\ tx.asked[j].source = "hub"
                                        /\ tx.asked[j].target \in Validators
    BY <1>4, <2>1, <2>2 DEF NamedTargets
  <2>3. CASE \A j \in DOMAIN tx.asked : /\ tx.asked[j].source \in Validators
                                        /\ tx.asked[j].target = "unbonding"
    BY <1>4, <2>1, <2>3 DEF NamedTargets
  <2>4. CASE \A j \in DOMAIN tx.asked : /\ tx.asked[j].source \in Validators
                                        /\ tx.asked[j].target \in Validators
    BY <2>1, <2>4 DEF NamedTargets
  <2> QED
    BY <1>1, <2>2, <2>3, <2>4 DEF OneKind
<1> HIDE DEF sources, targets, emptied, sender
<1>6. Hub!PayOut({}) /\ Hub!Idle /\ Hub!IsController(sender)
  BY HubPaysNothing DEF Hub!PayOut, Hub!Idle, Hub!IsController, sender
<1>7. CASE sources = {} /\ targets # {}
  <2>1. emptied = {}
    BY <1>2, <1>7
  <2>2. Delegated' = Delegated \cup targets
    BY <1>1, <2>1
  <2>3. Hub!AllianceDelegate(sender, targets, {})
    BY <1>1, <1>6, <1>7, <2>2
       DEF Hub!AllianceDelegate, Hub!TrackValidators, Hub!ledgerVars, Delegated
  <2> QED
    BY <1>2, <1>3, <2>3 DEF Hub!AdminStep
<1>8. CASE sources # {} /\ targets = {}
  <2>1. /\ CommittedValidators' = CommittedValidators
        /\ Delegated' = Delegated \ emptied /\ sources \subseteq Delegated
    BY <1>1, <1>8
  <2>2. Hub!AllianceUndelegate(sender, sources, emptied, {})
    BY <1>1, <1>2, <1>6, <1>8, <2>1
       DEF Hub!AllianceUndelegate, Hub!ledgerVars, Hub!adminVars, Delegated
  <2> QED
    BY <1>2, <1>3, <2>2 DEF Hub!AdminStep
<1>9. CASE sources # {} /\ targets # {}
  <2>1. Hub!AllianceRedelegate(sender, sources, targets, emptied, {})
    BY <1>1, <1>2, <1>6, <1>9
       DEF Hub!AllianceRedelegate, Hub!TrackValidators, Hub!ledgerVars, Delegated
  <2> QED
    BY <1>2, <1>3, <2>1 DEF Hub!AdminStep
<1> QED
  BY <1>5, <1>7, <1>8, <1>9

(* A committed change of roles is one that AllianceHub makes.              *)
LEMMA ConfigCommitted ==
  ASSUME TokenInv, Configures
  PROVE  Hub!AdminStep
<1>1. PICK sender \in Admins, update \in ConfigUpdates : UpdateConfig(sender, update)
  BY DEF Configures
<1>2. /\ ~Running /\ ~Running' /\ hub # NotFound /\ hub' # NotFound
      /\ hub'.validators = hub.validators /\ tokens' = tokens
      /\ hub'.roles = [r \in TokenRoles |-> IF update[r] = NotFound THEN hub.roles[r]
                                                              ELSE update[r]]
  BY <1>1, ConfigStep
<1>3. CommittedValidators' = CommittedValidators /\ Delegated' = Delegated
  BY <1>2 DEF CommittedValidators, CommittedHub, CommittedTokens, Delegated
<1>4. sender = CommittedConfig["governance"]
  BY <1>1, <1>2 DEF UpdateConfig, CommittedConfig, CommittedHub, TokenRoles
<1> DEFINE told == [r \in Hub!Roles |-> IF r \in TokenRoles THEN update[r] ELSE NotFound]
<1>5. update \in [TokenRoles -> Admins \cup {NotFound}]
  BY TokenAssumption
<1>6. told \in [Hub!Roles -> Admins \cup {NotFound}]
  BY <1>5
<1>7. CommittedConfig' = [r \in Hub!Roles |-> Hub!UnwrapOr(told[r], CommittedConfig[r])]
  BY <1>2, <1>5 DEF CommittedConfig, CommittedHub, TokenRoles, Hub!Roles, Hub!UnwrapOr
<1> HIDE DEF told
<1>8. Hub!UpdateConfig(sender, told)
  BY <1>3, <1>4, <1>7
     DEF Hub!UpdateConfig, Hub!Idle, Hub!IsGovernance, Hub!ledgerVars, Hub!chainVars, Delegated
<1> QED
  BY <1>6, <1>8 DEF Hub!AdminStep

LEMMA HubInit == TokenInit => Hub!Init
<1> SUFFICES ASSUME TokenInit PROVE Hub!Init
  OBVIOUS
<1>1. ~Running /\ hub = NotFound /\ tokens = None
  BY DEF TokenInit, Running, None
<1>2. CommittedValidators = {} /\ CommittedConfig = InitialConfig
  BY <1>1, TokenAssumption DEF CommittedValidators, CommittedConfig, CommittedHub
<1>3. {v \in Validators : CommittedTokens[v] > 0} = {}
  BY <1>1 DEF CommittedTokens, None, Places
<1> QED
  BY <1>2, <1>3 DEF Hub!Init, Hub!Accounts, Hub!Denoms

(* AllianceHub may take delegations as sets of validators: each call that  *)
(* the chain commits, of any number of entries in any order and of any     *)
(* amounts, is one of its steps, and one that is rolled back is none.  So  *)
(* what is proved of AllianceHub holds of the hub that delegates amounts.  *)
THEOREM TokenRefinesHub == TokenSpec => DelegatesAsHub
<1>1. TokenInv /\ [TokenNext]_tokenVars => [Hub!Next]_(Hub!vars)
  <2> SUFFICES ASSUME TokenInv, [TokenNext]_tokenVars PROVE Hub!Next \/ UNCHANGED Hub!vars
    OBVIOUS
  <2>1. CASE UNCHANGED tokenVars
    <3>1. /\ CommittedConfig' = CommittedConfig
          /\ CommittedValidators' = CommittedValidators /\ Delegated' = Delegated
      BY <2>1 DEF tokenVars, CommittedConfig, CommittedHub, CommittedValidators,
                  CommittedTokens, Delegated, Running
    <3> QED
      BY <3>1, SameForHub
  <2>2. CASE TokenNext /\ ~Commit /\ ~Configures
    BY <2>2, NotCommitted, SameForHub
  <2>3. CASE Commit
    <3>1. CASE Creating
      BY <2>3, <3>1, CreationCommitted, SameForHub
    <3>2. CASE Delegating
      BY <2>3, <3>2, DelegationCommitted DEF Hub!Next
    <3> QED
      BY <2>3, <3>1, <3>2 DEF TokenInv, Commit
  <2>4. CASE Configures
    BY <2>4, ConfigCommitted DEF Hub!Next
  <2> QED
    BY <2>1, <2>2, <2>3, <2>4
<1> QED
  BY <1>1, HubInit, TokenInvariant, PTL DEF TokenSpec, DelegatesAsHub, Hub!Safety
=============================================================================
