--------------------------- MODULE AllianceToken ---------------------------
(***************************************************************************)
(* The alliance token of the hub: its creation by instantiate and reply,   *)
(* and its delegation to validators (contracts/alliance-hub/src/           *)
(* contract.rs).                                                           *)
(*                                                                         *)
(* AllianceHub starts with a hub whose token exists, and takes a           *)
(* delegation message as one step that names sets of validators.  Here     *)
(* such a call is what it is on the chain: the handler saves the storage   *)
(* and orders messages, which the chain executes one after the other and   *)
(* which may fail and roll all of the transaction back.  The tokens are    *)
(* counted wherever they are.                                              *)
(***************************************************************************)
EXTENDS Integers, Sequences, Sums

CONSTANTS
  Admins,           \* addresses that may hold a role of the config
  InitialConfig,    \* the roles given to instantiate
  Validators,
  RewardDenom,
  TotalSupply,      \* how many alliance tokens reply mints
  NotFound,         \* nothing is stored
  NoTx              \* no transaction is running

CONSTANTS
  ConfigUpdates,    \* what update_config may be told of the roles
  Amounts,          \* amounts that delegation messages carry
  MaxMessages       \* bound on the entries of a delegation message

(* What the chain's token factory returns for the subdenom of instantiate. *)
NoDenom == ""
TokenDenom == "factory/hub/ualliance"

(* The roles that decide about delegations.                                *)
TokenRoles == {"governance", "controller"}

(* Where an alliance token can be.                                         *)
Places == Validators \cup {"hub", "unbonding", "slashed"}

ASSUME TokenAssumption ==
  /\ IsFiniteSet(Validators)
  /\ Validators \cap {"hub", "unbonding", "slashed"} = {}
  /\ InitialConfig \in [{"governance", "controller", "oracle", "operator"} -> Admins]
  /\ TotalSupply \in Nat \ {0}
  /\ ConfigUpdates \subseteq [TokenRoles -> Admins \cup {NotFound}]
  /\ Amounts \subseteq Nat /\ MaxMessages \in Nat

Denoms == {NoDenom, TokenDenom}
Stored == [roles : [TokenRoles -> Admins],
           allianceTokenDenom : Denoms,
           allianceTokenSupply : Nat,
           validators : SUBSET Validators]

(* Messages that the hub orders.                                           *)
Messages ==
  [type : {"create"}]
  \cup [type : {"mint"}, denom : Denoms, amount : Nat]
  \cup [type : {"metadata"}, denom : Denoms]
  \cup [type : {"move"}, denom : Denoms, source : Places, target : Places, amount : Nat]

(* A transaction executes messages; before is what a failure restores.     *)
Transaction ==
  [asked : Seq(Messages), done : Nat,
   before : [hub : Stored \cup {NotFound}, tokens : [Places -> Nat]]]

ASSUME NothingAssumption == NotFound \notin Stored /\ NoTx \notin Transaction

VARIABLES
  hub,      \* the roles and the token of CONFIG, and VALIDATORS
  tokens,   \* how many alliance tokens are in each place
  tx        \* the running transaction

tokenVars == <<hub, tokens, tx>>

CreateDenom == [type |-> "create"]
MintTokens(denom, n) == [type |-> "mint", denom |-> denom, amount |-> n]
SetMetadata(denom) == [type |-> "metadata", denom |-> denom]
Move(denom, source, target, n) ==
  [type |-> "move", denom |-> denom, source |-> source, target |-> target, amount |-> n]

Begin(messages) ==
  [asked |-> messages, done |-> 0, before |-> [hub |-> hub, tokens |-> tokens]]

Running == tx # NoTx
Pending == Running /\ tx.done < Len(tx.asked)
Message == tx.asked[tx.done + 1]

(* The contract answers messages of others.                                *)
Live == hub # NotFound /\ (Running => tx.before.hub # NotFound)

TokenInit ==
  /\ hub = NotFound
  /\ tokens = [p \in Places |-> 0]
  /\ tx = NoTx
-----------------------------------------------------------------------------
(* Creation.                                                               *)

Instantiate ==
  /\ ~Running
  /\ hub = NotFound
  /\ hub' = [roles |-> [r \in TokenRoles |-> InitialConfig[r]],
             allianceTokenDenom |-> NoDenom, allianceTokenSupply |-> 0, validators |-> {}]
  /\ tx' = Begin(<<CreateDenom>>)
  /\ UNCHANGED tokens

(* reply with CREATE_REPLY_ID.  Mutant: the reply is asked for on errors.  *)
NoCreateReply(denom) ==
  /\ tx' = [tx EXCEPT !.done = @ + 1]
  /\ UNCHANGED hub
CreateReply(denom) ==
  /\ hub' = [hub EXCEPT !.allianceTokenDenom = denom, !.allianceTokenSupply = TotalSupply]
  /\ tx' = [tx EXCEPT !.done = @ + 1,
                      !.asked = @ \o <<MintTokens(denom, TotalSupply), SetMetadata(denom)>>]

ExecuteCreateDenom ==
  /\ Pending /\ Message.type = "create"
  /\ CreateReply(TokenDenom)
  /\ UNCHANGED tokens

ExecuteMintTokens ==
  /\ Pending /\ Message.type = "mint"
  /\ Message.denom = TokenDenom
  /\ tokens' = [tokens EXCEPT !["hub"] = @ + Message.amount]
  /\ tx' = [tx EXCEPT !.done = @ + 1]
  /\ UNCHANGED hub

ExecuteSetMetadata ==
  /\ Pending /\ Message.type = "metadata"
  /\ Message.denom = TokenDenom
  /\ tx' = [tx EXCEPT !.done = @ + 1]
  /\ UNCHANGED <<hub, tokens>>
-----------------------------------------------------------------------------
(* Delegation.                                                             *)

(* update_config.                                                          *)
UpdateConfig(sender, update) ==
  /\ ~Running /\ Live
  /\ sender = hub.roles["governance"]
  /\ hub' = [hub EXCEPT !.roles =
                [r \in TokenRoles |-> IF update[r] = NotFound THEN @[r] ELSE update[r]]]
  /\ UNCHANGED <<tokens, tx>>

IsController(sender) == sender = hub.roles["controller"]

(* Mutant: the validators are not saved.                                   *)
TrackNone(targets) == hub
Track(targets) == [hub EXCEPT !.validators = @ \cup targets]

AllianceDelegate(sender, delegations) ==
  /\ ~Running /\ Live
  /\ IsController(sender)
  /\ delegations # <<>>
  /\ hub' = Track({delegations[i].target : i \in DOMAIN delegations})
  /\ tx' = Begin([i \in DOMAIN delegations |->
                    Move(hub.allianceTokenDenom, "hub", delegations[i].target,
                         delegations[i].amount)])
  /\ UNCHANGED tokens

AllianceUndelegate(sender, undelegations) ==
  /\ ~Running /\ Live
  /\ IsController(sender)
  /\ undelegations # <<>>
  /\ tx' = Begin([i \in DOMAIN undelegations |->
                    Move(hub.allianceTokenDenom, undelegations[i].source, "unbonding",
                         undelegations[i].amount)])
  /\ UNCHANGED <<hub, tokens>>

AllianceRedelegate(sender, redelegations) ==
  /\ ~Running /\ Live
  /\ IsController(sender)
  /\ redelegations # <<>>
  /\ hub' = Track({redelegations[i].target : i \in DOMAIN redelegations})
  /\ tx' = Begin([i \in DOMAIN redelegations |->
                    Move(hub.allianceTokenDenom, redelegations[i].source,
                         redelegations[i].target, redelegations[i].amount)])
  /\ UNCHANGED tokens

(* The alliance module takes tokens that are there to another place.       *)
ExecuteMove ==
  /\ Pending /\ Message.type = "move"
  /\ Message.denom = TokenDenom
  /\ Message.source # Message.target
  /\ Message.amount > 0
  /\ tokens[Message.source] >= Message.amount
  /\ tokens' = [tokens EXCEPT ![Message.source] = @ - Message.amount,
                              ![Message.target] = @ + Message.amount]
  /\ tx' = [tx EXCEPT !.done = @ + 1]
  /\ UNCHANGED hub
-----------------------------------------------------------------------------
(* The rest of a transaction, and the chain.                               *)

(* The messages are ordered without a reply.  Mutant: as for the reward    *)
(* claims of update_rewards, one is asked for on errors and ignores them.  *)
MoveErrorCaught(message) == message.type = "move"
ErrorCaught(message) == FALSE

(* Any message may fail, also for reasons of the chain.                    *)
MessageFails ==
  /\ Pending
  /\ IF ErrorCaught(Message)
     THEN /\ tx' = [tx EXCEPT !.done = @ + 1]
          /\ UNCHANGED <<hub, tokens>>
     ELSE /\ hub' = tx.before.hub
          /\ tokens' = tx.before.tokens
          /\ tx' = NoTx

Commit ==
  /\ Running /\ ~Pending
  /\ tx' = NoTx
  /\ UNCHANGED <<hub, tokens>>

CompleteUnbonding(n) ==
  /\ ~Running
  /\ tokens["unbonding"] >= n
  /\ tokens' = [tokens EXCEPT !["unbonding"] = @ - n, !["hub"] = @ + n]
  /\ UNCHANGED <<hub, tx>>

(* A validator loses a fraction of what is delegated to it.                *)
Slash(v, n) ==
  /\ ~Running
  /\ tokens[v] > n
  /\ tokens' = [tokens EXCEPT ![v] = @ - n, !["slashed"] = @ + n]
  /\ UNCHANGED <<hub, tx>>
-----------------------------------------------------------------------------
Entries(S) == UNION {[1 .. k -> S] : k \in 0 .. MaxMessages}

AdminStep ==
  \E sender \in Admins :
    \/ \E update \in ConfigUpdates : UpdateConfig(sender, update)
    \/ \E delegations \in Entries([target : Validators, amount : Amounts]) :
         AllianceDelegate(sender, delegations)
    \/ \E undelegations \in Entries([source : Validators, amount : Amounts]) :
         AllianceUndelegate(sender, undelegations)
    \/ \E redelegations \in
            Entries([source : Validators, target : Validators, amount : Amounts]) :
         AllianceRedelegate(sender, redelegations)

MessageStep ==
  \/ ExecuteCreateDenom \/ ExecuteMintTokens \/ ExecuteSetMetadata
  \/ ExecuteMove
  \/ MessageFails
  \/ Commit

TokenNext ==
  \/ Instantiate
  \/ AdminStep
  \/ MessageStep
  \/ \E n \in Amounts : CompleteUnbonding(n)
  \/ \E v \in Validators, n \in Amounts : Slash(v, n)

TokenSpec == TokenInit /\ [][TokenNext]_tokenVars
-----------------------------------------------------------------------------
TokenTypeOK ==
  /\ hub \in Stored \cup {NotFound}
  /\ tokens \in [Places -> Nat]
  /\ tx \in Transaction \cup {NoTx}

(* The supply that the config records, of the denom that it records, is    *)
(* what can be found in all places together, also between two messages of  *)
(* a delegation.  A creation that failed left nothing, so that it can be   *)
(* tried again.                                                            *)
TokensAccounted ==
  /\ Live =>
       /\ hub.allianceTokenDenom = TokenDenom
       /\ hub.allianceTokenSupply = SumOver(tokens, Places)
       /\ hub.allianceTokenSupply > 0
  /\ hub = NotFound => SumOver(tokens, Places) = 0

(* What the messages of the transaction take from or bring to a place.     *)
Taken(p) ==
  SumOver([i \in DOMAIN tx.asked |-> tx.asked[i].amount],
          {i \in DOMAIN tx.asked : tx.asked[i].source = p})
Brought(p) ==
  SumOver([i \in DOMAIN tx.asked |-> tx.asked[i].amount],
          {i \in DOMAIN tx.asked : tx.asked[i].target = p})

(* A delegation message of several entries, which may chain one validator  *)
(* to the next, either does all that it asks for, VALIDATORS included, or  *)
(* nothing.                                                                *)
DelegationsAllOrNothing ==
  [][Live /\ Running /\ tx' = NoTx =>
       \/ /\ hub' = tx.before.hub
          /\ tokens' = tx.before.tokens
       \/ /\ hub'.validators = tx.before.hub.validators
               \cup {v \in Validators : \E i \in DOMAIN tx.asked : tx.asked[i].target = v}
          /\ \A p \in Places :
               tokens'[p] + Taken(p) = tx.before.tokens[p] + Brought(p)]_tokenVars

(* What the chain has committed.                                           *)
CommittedHub == IF Running THEN tx.before.hub ELSE hub
CommittedValidators ==
  IF CommittedHub = NotFound THEN {} ELSE CommittedHub.validators
CommittedConfig ==
  [r \in {"governance", "controller", "oracle", "operator"} |->
     IF CommittedHub # NotFound /\ r \in TokenRoles THEN CommittedHub.roles[r]
                                                   ELSE InitialConfig[r]]
CommittedTokens == IF Running THEN tx.before.tokens ELSE tokens

(* AllianceHub as seen from here: a hub that nobody stakes in.             *)
Hub == INSTANCE AllianceHub WITH
  Users <- {}, Assets <- {}, Cw20Assets <- {}, FlakyValidators <- {},
  Amounts <- {}, Distributions <- {}, MaxStake <- 0, MaxEmission <- 0,
  DecimalFractional <- 1, MaxUint128 <- TotalSupply,
  config <- CommittedConfig, whitelist <- {}, balances <- <<>>,
  totalBalances <- <<>>, validators <- CommittedValidators,
  assetRewardDistribution <- NotFound, assetRewardRate <- <<>>,
  userAssetRewardRate <- <<>>, unclaimedRewards <- <<>>,
  tempBalance <- NotFound, holdings <- [d \in {RewardDenom} |-> 0],
  delegated <- {v \in Validators : CommittedTokens[v] > 0},
  accrued <- [v \in Validators |-> 0], emitted <- 0, tx <- NoTx

(* AllianceHub takes delegations rightly as sets of validators: whatever   *)
(* the amounts and the order of the entries, a transaction that succeeds   *)
(* is one of its steps, and one that fails is none.                        *)
DelegatesAsHub == Hub!Safety
=============================================================================
