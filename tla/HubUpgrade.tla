----------------------------- MODULE HubUpgrade -----------------------------
(***************************************************************************)
(* The upgrade of a hub to this version of the contract: migrate and       *)
(* migrations.rs.                                                          *)
(*                                                                         *)
(* The version before kept the same storage, with assets in the keys and   *)
(* in the distribution encoded by cw-asset 2; this version encodes them by *)
(* cw-asset 3.  The variables of AllianceHub are the storage as the        *)
(* running code reads it.  While a migration runs, its raw entries are in  *)
(* store, where a key is a pair of an encoding and what it encodes; the    *)
(* code that wrote an entry is the only one that can read it.              *)
(* The previous version is not in the repository: its messages are taken   *)
(* to be those of AllianceHub, which the migration presumes.               *)
(***************************************************************************)
EXTENDS AllianceHubProperties

CONSTANTS
  BadCw20,          \* cw20 infos with an address that addr_validate refuses
  Cw1155Assets,     \* asset infos of a kind that only cw-asset 2 knows
  OldVersions,      \* versions before this one
  ContractVersion   \* CONTRACT_VERSION

Encodings == {"v2", "v3"}
UnknownTokens == BadCw20 \cup Cw1155Assets

(* Governance may have whitelisted any asset info, also of tokens that do  *)
(* not exist.                                                              *)
ASSUME UnknownTokensAssumption ==
  /\ UnknownTokens \subseteq Assets
  /\ BadCw20 \cap Cw1155Assets = {}
  /\ UnknownTokens \cap (Cw20Assets \cup {RewardDenom}) = {}
ASSUME VersionsAssumption ==
  /\ ContractVersion \in Nat /\ OldVersions \subseteq Nat
  /\ \A version \in OldVersions : version < ContractVersion

VARIABLES
  code,            \* how the running code encodes assets
  storageVersion,  \* the version that cw2 has stored
  migrating,       \* a migrate call is running
  migrated,        \* how many of the namespaces it has rewritten
  store            \* their raw entries while it runs

migrationVars == <<migrating, migrated, store>>
upgradeVars == <<vars, code, storageVersion, migrationVars>>

(* A hub of an older version, or one that this version instantiates.       *)
UpgradeInit ==
  /\ Init
  /\ \/ code = "v2" /\ storageVersion \in OldVersions
     \/ code = "v3" /\ storageVersion = ContractVersion
  /\ migrating = FALSE /\ migrated = 0 /\ store = <<>>
-----------------------------------------------------------------------------
(* Raw storage.                                                            *)

PerAsset == {"whitelist", "total_balances", "asset_reward_rate"}
PerAccount == {"balances", "user_asset_reward_rate", "unclaimed_rewards"}
Item == "asset_reward_distribution"
Namespaces == PerAsset \cup PerAccount \cup {Item}

(* The entries of a namespace with their keys encoded.  Zeros are left out *)
(* where the code does not tell them from absent entries.                  *)
Encoded(f, absent) ==
  [r \in {code} \X {k \in DOMAIN f : f[k] # absent} |-> f[r[2]]]

RawStorage ==
  [whitelist |-> Encoded([a \in Assets |-> a \in whitelist], FALSE),
   balances |-> Encoded(balances, NotFound),
   total_balances |-> Encoded(totalBalances, 0),
   asset_reward_distribution |-> Encoded([i \in {Item} |-> assetRewardDistribution], NotFound),
   asset_reward_rate |-> Encoded(assetRewardRate, NotFound),
   user_asset_reward_rate |-> Encoded(userAssetRewardRate, NotFound),
   unclaimed_rewards |-> Encoded(unclaimedRewards, 0)]

(* What this version loads from a namespace.                               *)
Load(entries, k, absent) ==
  IF <<"v3", k>> \in DOMAIN entries THEN entries[<<"v3", k>>] ELSE absent
-----------------------------------------------------------------------------
(* migrate.                                                                *)

(* The order in which migrate_maps calls the migrate_* functions.          *)
(* Mutant: one is forgotten.                                               *)
MapsButWhitelist ==
  <<"balances", "total_balances", "asset_reward_distribution", "asset_reward_rate",
    "user_asset_reward_rate", "unclaimed_rewards">>
MigrateMaps ==
  <<"whitelist", "balances", "total_balances", "asset_reward_distribution",
    "asset_reward_rate", "user_asset_reward_rate", "unclaimed_rewards">>

(* The migrate entry point gets past the comparison of versions.           *)
StartMigration ==
  /\ Idle /\ ~migrating
  /\ storageVersion < ContractVersion
  /\ migrating' = TRUE /\ migrated' = 0 /\ store' = RawStorage
  /\ UNCHANGED <<vars, code, storageVersion>>

AssetOfKey(namespace, k) == IF namespace \in PerAccount THEN k[2] ELSE k

(* Every key of a map is read as one of cw-asset 2 and converted: a cw20   *)
(* address is validated, an asset of another kind is a panic.              *)
MapConverts(namespace, entries) ==
  \A r \in DOMAIN entries :
    r[1] = "v2" /\ AssetOfKey(namespace, r[2]) \notin UnknownTokens

(* Mutant: as for the maps, the addresses in the distribution are          *)
(* validated.                                                              *)
ItemConvertsValidated(entries) ==
  /\ <<"v2", Item>> \in DOMAIN entries
  /\ \A i \in DOMAIN entries[<<"v2", Item>>] :
       entries[<<"v2", Item>>][i].asset \notin UnknownTokens

(* The distribution is there, and only the kind of its assets matters.     *)
ItemConverts(entries) ==
  /\ <<"v2", Item>> \in DOMAIN entries
  /\ \A i \in DOMAIN entries[<<"v2", Item>>] :
       entries[<<"v2", Item>>][i].asset \notin Cw1155Assets

Converts(namespace, entries) ==
  IF namespace = Item THEN ItemConverts(entries) ELSE MapConverts(namespace, entries)

(* Mutant: the old entries are not cleared.                                *)
RewrittenBeside(entries) ==
  [r \in Encodings \X {k[2] : k \in DOMAIN entries} |-> entries[<<"v2", r[2]>>]]

(* The old entries are collected and cleared, and saved under new keys.    *)
Rewritten(entries) ==
  [r \in {"v3"} \X {k[2] : k \in DOMAIN entries} |-> entries[<<"v2", r[2]>>]]

(* The namespace whose turn it is, and what is stored in it.               *)
Current == MigrateMaps[migrated + 1]
CurrentConverts == Converts(Current, store[Current])

(* One of the migrate_* functions.                                         *)
MigrateNamespace ==
  /\ migrating
  /\ migrated < Len(MigrateMaps)
  /\ CurrentConverts
  /\ migrated' = migrated + 1
  /\ store' = [store EXCEPT ![Current] = Rewritten(@)]
  /\ UNCHANGED <<vars, code, storageVersion, migrating>>

MigrationOver == migrating' = FALSE /\ migrated' = 0 /\ store' = <<>>

(* It returns an error or panics: the chain keeps the old code and the     *)
(* storage from before.                                                    *)
MigrationFails ==
  /\ migrating
  /\ migrated < Len(MigrateMaps)
  /\ ~CurrentConverts
  /\ MigrationOver
  /\ UNCHANGED <<vars, code, storageVersion>>

VersionAfter == ContractVersion

(* set_contract_version; from now on this version runs, on what it can     *)
(* load.                                                                   *)
FinishMigration ==
  /\ migrating
  /\ migrated = Len(MigrateMaps)
  /\ whitelist' = {a \in Assets : Load(store.whitelist, a, FALSE)}
  /\ balances' = [k \in Accounts |-> Load(store.balances, k, NotFound)]
  /\ totalBalances' = [a \in Assets |-> Load(store.total_balances, a, 0)]
  /\ assetRewardDistribution' = Load(store.asset_reward_distribution, Item, NotFound)
  /\ assetRewardRate' = [a \in Assets |-> Load(store.asset_reward_rate, a, NotFound)]
  /\ userAssetRewardRate' =
       [k \in Accounts |-> Load(store.user_asset_reward_rate, k, NotFound)]
  /\ unclaimedRewards' = [k \in Accounts |-> Load(store.unclaimed_rewards, k, 0)]
  /\ UNCHANGED <<config, validators, tempBalance, holdings, chainVars, tx>>
  /\ code' = "v3"
  /\ storageVersion' = VersionAfter
  /\ MigrationOver

MigrationStep == MigrateNamespace \/ MigrationFails \/ FinishMigration
-----------------------------------------------------------------------------
(* A message of the hub between migrations.  No token of an unknown asset  *)
(* moves, and this version does not parse the name of a cw1155 asset.      *)
HubStep ==
  /\ ~migrating
  /\ Next
  /\ \A a \in UnknownTokens : holdings'[a] = holdings[a]
  /\ code = "v3" =>
       \A a \in Cw1155Assets :
         /\ a \notin whitelist'
         /\ assetRewardDistribution' # NotFound =>
              \A i \in DOMAIN assetRewardDistribution' : assetRewardDistribution'[i].asset # a
  /\ UNCHANGED <<code, storageVersion, migrationVars>>

UpgradeNext == HubStep \/ StartMigration \/ MigrationStep

UpgradeSpec == UpgradeInit /\ [][UpgradeNext]_upgradeVars
-----------------------------------------------------------------------------
(* An entry of a namespace still to be migrated is one that the previous   *)
(* version wrote, and one of a namespace already migrated is one that this *)
(* version can read: a function never meets keys it cannot decode, and     *)
(* leaves none behind.                                                     *)
EncodingsSeparated ==
  migrating =>
    \A namespace \in Namespaces :
      \A r \in DOMAIN store[namespace] :
        r[1] = IF \E i \in 1 .. migrated : MigrateMaps[i] = namespace
               THEN "v3" ELSE "v2"

(* What keeps a hub from being upgraded: it never set a distribution, the  *)
(* distribution names a cw1155 asset, or an asset with an address that is  *)
(* not valid or of the kind cw1155 was ever whitelisted, be it removed     *)
(* since.                                                                  *)
Blocked ==
  \/ assetRewardDistribution = NotFound
  \/ \E i \in DOMAIN assetRewardDistribution :
       assetRewardDistribution[i].asset \in Cw1155Assets
  \/ \E a \in UnknownTokens : assetRewardRate[a] # NotFound

(* A migration that ends has upgraded the hub exactly if nothing of that   *)
(* was the case, whatever users and governance did before.                 *)
OnlyTheseBlock ==
  [][migrating /\ ~migrating' => (code' = "v3" <=> ~Blocked)]_upgradeVars

(* While a migration runs, and when it ends or fails, the hub reads what   *)
(* it read before: no stake, rate or reward is lost, and nothing changes   *)
(* that a message could also have changed, such as the whitelist or the    *)
(* distribution.                                                           *)
UpgradeCarriesOver == [][migrating => UNCHANGED vars]_upgradeVars
=============================================================================
