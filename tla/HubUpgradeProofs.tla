--------------------------- MODULE HubUpgradeProofs ---------------------------
(***************************************************************************)
(* Proofs about the upgrade of a hub, for all values of its constants.     *)
(*                                                                         *)
(* The inductive invariant says what the store holds while a migration     *)
(* runs: the namespaces done are those of the old version rewritten, the   *)
(* others those of the old version, and all that were done could be        *)
(* converted.  The old version's storage does not change meanwhile, so     *)
(* what the new version loads at the end is what the old one had.          *)
(***************************************************************************)
EXTENDS HubUpgrade, PayoutProofs

(* What the store holds of a namespace once done of them are rewritten.    *)
Written(namespace, done) ==
  IF \E i \in 1 .. done : MigrateMaps[i] = namespace
  THEN Rewritten(RawStorage[namespace])
  ELSE RawStorage[namespace]

MigrationInv ==
  /\ code = "v2" /\ Idle
  /\ migrated \in 0 .. 7
  /\ DOMAIN store = Namespaces
  /\ \A namespace \in Namespaces : store[namespace] = Written(namespace, migrated)
  /\ \A i \in 1 .. migrated : Converts(MigrateMaps[i], RawStorage[MigrateMaps[i]])

UpgradeInv ==
  /\ \/ code = "v2" /\ storageVersion \in OldVersions
     \/ code = "v3" /\ storageVersion = ContractVersion
  /\ migrating \in BOOLEAN
  /\ migrating => MigrationInv
-----------------------------------------------------------------------------
(* The order of the namespaces.                                            *)

LEMMA MapsDistinct ==
  /\ Len(MigrateMaps) = 7
  /\ \A i \in 1 .. 7 : MigrateMaps[i] \in Namespaces
  /\ \A i, j \in 1 .. 7 : MigrateMaps[i] = MigrateMaps[j] => i = j
  /\ \A namespace \in Namespaces : \E i \in 1 .. 7 : MigrateMaps[i] = namespace
<1>1. /\ Len(MigrateMaps) = 7
      /\ MigrateMaps[1] = "whitelist" /\ MigrateMaps[2] = "balances"
      /\ MigrateMaps[3] = "total_balances" /\ MigrateMaps[4] = "asset_reward_distribution"
      /\ MigrateMaps[5] = "asset_reward_rate" /\ MigrateMaps[6] = "user_asset_reward_rate"
      /\ MigrateMaps[7] = "unclaimed_rewards"
  BY DEF MigrateMaps
<1>2. 1 .. 7 = {1, 2, 3, 4, 5, 6, 7}
  OBVIOUS
<1>3. Namespaces = {"whitelist", "total_balances", "asset_reward_rate", "balances",
                    "user_asset_reward_rate", "unclaimed_rewards",
                    "asset_reward_distribution"}
  BY DEF Namespaces, PerAsset, PerAccount, Item
<1>4. \A i \in 1 .. 7 : MigrateMaps[i] \in Namespaces
  BY <1>1, <1>2, <1>3
<1>5. \A i, j \in 1 .. 7 : MigrateMaps[i] = MigrateMaps[j] => i = j
  BY <1>1, <1>2
<1>6. \A namespace \in Namespaces : \E i \in 1 .. 7 : MigrateMaps[i] = namespace
  BY <1>1, <1>2, <1>3
<1> QED
  BY <1>1, <1>4, <1>5, <1>6

LEMMA RawFields ==
  /\ DOMAIN RawStorage = Namespaces
  /\ RawStorage["whitelist"] = Encoded([a \in Assets |-> a \in whitelist], FALSE)
  /\ RawStorage["balances"] = Encoded(balances, NotFound)
  /\ RawStorage["total_balances"] = Encoded(totalBalances, 0)
  /\ RawStorage["asset_reward_distribution"] =
       Encoded([i \in {Item} |-> assetRewardDistribution], NotFound)
  /\ RawStorage["asset_reward_rate"] = Encoded(assetRewardRate, NotFound)
  /\ RawStorage["user_asset_reward_rate"] = Encoded(userAssetRewardRate, NotFound)
  /\ RawStorage["unclaimed_rewards"] = Encoded(unclaimedRewards, 0)
BY DEF RawStorage, Namespaces, PerAsset, PerAccount, Item
-----------------------------------------------------------------------------
(* Encoding and loading.                                                   *)

LEMMA EncodedKeys ==
  ASSUME NEW f, NEW absent
  PROVE  /\ DOMAIN Encoded(f, absent) = {code} \X {k \in DOMAIN f : f[k] # absent}
         /\ \A k \in DOMAIN f : f[k] # absent => Encoded(f, absent)[<<code, k>>] = f[k]
BY DEF Encoded

LEMMA RewrittenKeys ==
  ASSUME NEW entries
  PROVE  /\ DOMAIN Rewritten(entries) = {"v3"} \X {k[2] : k \in DOMAIN entries}
         /\ \A k \in DOMAIN entries :
              Rewritten(entries)[<<"v3", k[2]>>] = entries[<<"v2", k[2]>>]
<1>1. DOMAIN Rewritten(entries) = {"v3"} \X {k[2] : k \in DOMAIN entries}
  BY DEF Rewritten
<1>2. ASSUME NEW k \in DOMAIN entries
      PROVE  Rewritten(entries)[<<"v3", k[2]>>] = entries[<<"v2", k[2]>>]
  <2> DEFINE r == <<"v3", k[2]>>
  <2>1. r \in {"v3"} \X {q[2] : q \in DOMAIN entries} /\ r[2] = k[2]
    OBVIOUS
  <2> HIDE DEF r
  <2>2. Rewritten(entries)[r] = entries[<<"v2", r[2]>>]
    BY <2>1 DEF Rewritten
  <2> QED
    BY <2>1, <2>2 DEF r
<1> QED
  BY <1>1, <1>2

(* What the old version stored is what the new one loads once it has been  *)
(* rewritten.                                                              *)
LEMMA LoadRewritten ==
  ASSUME code = "v2", NEW f, NEW absent, NEW k \in DOMAIN f
  PROVE  Load(Rewritten(Encoded(f, absent)), k, absent) = f[k]
<1> DEFINE old == Encoded(f, absent)
<1>1. /\ DOMAIN old = {code} \X {q \in DOMAIN f : f[q] # absent}
      /\ \A q \in DOMAIN f : f[q] # absent => old[<<code, q>>] = f[q]
  BY EncodedKeys
<1> HIDE DEF old
<1>2. /\ DOMAIN Rewritten(old) = {"v3"} \X {q[2] : q \in DOMAIN old}
      /\ \A q \in DOMAIN old : Rewritten(old)[<<"v3", q[2]>>] = old[<<"v2", q[2]>>]
  BY RewrittenKeys
<1>3. CASE f[k] = absent
  <2>1. k \notin {q[2] : q \in DOMAIN old}
    BY <1>1, <1>3
  <2>2. <<"v3", k>> \notin DOMAIN Rewritten(old)
    BY <1>2, <2>1
  <2> QED
    BY <1>3, <2>2 DEF Load, old
<1>4. CASE f[k] # absent
  <2>1. <<"v2", k>> \in DOMAIN old /\ old[<<"v2", k>>] = f[k]
    BY <1>1, <1>4
  <2>2. <<"v2", k>>[2] = k
    OBVIOUS
  <2>3. <<"v3", k>> \in DOMAIN Rewritten(old)
    BY <1>2, <2>1, <2>2
  <2>4. Rewritten(old)[<<"v3", k>>] = f[k]
    BY <1>2, <2>1, <2>2
  <2> QED
    BY <2>3, <2>4 DEF Load, old
<1> QED
  BY <1>3, <1>4
-----------------------------------------------------------------------------
(* What blocks an upgrade.                                                 *)

LEMMA KeysHaveRates ==
  ASSUME TypeOK, EntriesComplete, NEW namespace \in PerAsset \cup PerAccount,
         NEW r \in DOMAIN RawStorage[namespace]
  PROVE  /\ r[1] = code
         /\ AssetOfKey(namespace, r[2]) \in Assets
         /\ assetRewardRate[AssetOfKey(namespace, r[2])] # NotFound
<1>1. ASSUME NEW f, NEW absent, r \in DOMAIN Encoded(f, absent)
      PROVE  r[1] = code /\ r[2] \in DOMAIN f /\ f[r[2]] # absent
  <2> DEFINE held == {k \in DOMAIN f : f[k] # absent}
  <2>1. DOMAIN Encoded(f, absent) = {code} \X held
    BY DEF Encoded
  <2> HIDE DEF held
  <2>2. r[1] \in {code} /\ r[2] \in held
    BY <1>1, <2>1
  <2> QED
    BY <2>2 DEF held
<1>2. \A k \in Accounts : k[2] \in Assets /\ \E u \in Users : k = <<u, k[2]>>
  BY DEF Accounts
<1>3. CASE namespace = "whitelist"
  <2>1. /\ r[1] = code /\ r[2] \in DOMAIN [a \in Assets |-> a \in whitelist]
        /\ [a \in Assets |-> a \in whitelist][r[2]] # FALSE
    BY <1>1, <1>3, RawFields
  <2>2. r[2] \in Assets
    BY <2>1
  <2>3. r[2] \notin whitelist => (r[2] \in whitelist) = FALSE
    OBVIOUS
  <2>4. r[2] \in whitelist
    BY <2>1, <2>2, <2>3, Zenon
  <2> QED
    BY <1>3, <2>1, <2>2, <2>4 DEF AssetOfKey, PerAccount, EntriesComplete
<1>4. CASE namespace = "total_balances"
  <2>1. r[1] = code /\ r[2] \in Assets /\ totalBalances[r[2]] # 0
    BY <1>1, <1>4, RawFields DEF TypeOK
  <2> QED
    BY <1>4, <2>1 DEF AssetOfKey, PerAccount, EntriesComplete
<1>5. CASE namespace = "asset_reward_rate"
  <2>1. r[1] = code /\ r[2] \in Assets /\ assetRewardRate[r[2]] # NotFound
    BY <1>1, <1>5, RawFields DEF TypeOK
  <2> QED
    BY <1>5, <2>1 DEF AssetOfKey, PerAccount
<1>6. CASE namespace = "balances"
  <2>1. r[1] = code /\ r[2] \in Accounts /\ balances[r[2]] # NotFound
    BY <1>1, <1>6, RawFields DEF TypeOK
  <2> QED
    BY <1>2, <1>6, <2>1 DEF AssetOfKey, PerAccount, EntriesComplete
<1>7. CASE namespace = "user_asset_reward_rate"
  <2>1. r[1] = code /\ r[2] \in Accounts /\ userAssetRewardRate[r[2]] # NotFound
    BY <1>1, <1>7, RawFields DEF TypeOK
  <2> QED
    BY <1>2, <1>7, <2>1 DEF AssetOfKey, PerAccount, EntriesComplete
<1>8. CASE namespace = "unclaimed_rewards"
  <2>1. r[1] = code /\ r[2] \in Accounts /\ unclaimedRewards[r[2]] # 0
    BY <1>1, <1>8, RawFields DEF TypeOK
  <2> QED
    BY <1>2, <1>8, <2>1 DEF AssetOfKey, PerAccount, EntriesComplete
<1> QED
  BY <1>3, <1>4, <1>5, <1>6, <1>7, <1>8 DEF PerAsset, PerAccount

LEMMA StoredDistribution ==
  ASSUME code = "v2"
  PROVE  /\ <<"v2", Item>> \in DOMAIN RawStorage[Item] <=> assetRewardDistribution # NotFound
         /\ assetRewardDistribution # NotFound
              => RawStorage[Item][<<"v2", Item>>] = assetRewardDistribution
<1> DEFINE f == [i \in {Item} |-> assetRewardDistribution]
<1>1. RawStorage[Item] = Encoded(f, NotFound)
  BY RawFields DEF Item
<1>2. DOMAIN f = {Item} /\ f[Item] = assetRewardDistribution
  OBVIOUS
<1> HIDE DEF f
<1>3. /\ DOMAIN Encoded(f, NotFound) = {code} \X {k \in DOMAIN f : f[k] # NotFound}
      /\ \A k \in DOMAIN f : f[k] # NotFound => Encoded(f, NotFound)[<<code, k>>] = f[k]
  BY EncodedKeys
<1> QED
  BY <1>1, <1>2, <1>3

LEMMA UnconvertibleBlocks ==
  ASSUME TypeOK, EntriesComplete, code = "v2", NEW namespace \in Namespaces,
         ~Converts(namespace, RawStorage[namespace])
  PROVE  Blocked
<1>1. CASE namespace = Item
  BY <1>1, StoredDistribution DEF Converts, ItemConverts, Blocked
<1>2. CASE namespace # Item
  <2>1. namespace \in PerAsset \cup PerAccount
    BY <1>2 DEF Namespaces
  <2>2. PICK r \in DOMAIN RawStorage[namespace] :
          ~(r[1] = "v2" /\ AssetOfKey(namespace, r[2]) \notin UnknownTokens)
    BY <1>2 DEF Converts, MapConverts
  <2>3. r[1] = code /\ assetRewardRate[AssetOfKey(namespace, r[2])] # NotFound
    BY <2>1, KeysHaveRates
  <2> QED
    BY <2>2, <2>3 DEF Blocked
<1> QED
  BY <1>1, <1>2

LEMMA ConvertibleUnblocked ==
  ASSUME TypeOK, code = "v2",
         \A namespace \in Namespaces : Converts(namespace, RawStorage[namespace])
  PROVE  ~Blocked
<1>1. ItemConverts(RawStorage[Item])
  BY DEF Namespaces, Converts
<1>2. MapConverts("asset_reward_rate", RawStorage["asset_reward_rate"])
  BY DEF Namespaces, PerAsset, Converts, Item
<1>3. ASSUME NEW a \in UnknownTokens
      PROVE  assetRewardRate[a] = NotFound
  <2>1. a \in Assets
    BY UnknownTokensAssumption
  <2>2. /\ RawStorage["asset_reward_rate"] = Encoded(assetRewardRate, NotFound)
        /\ DOMAIN assetRewardRate = Assets
    BY RawFields DEF TypeOK
  <2>3. ASSUME assetRewardRate[a] # NotFound
        PROVE  <<code, a>> \in DOMAIN Encoded(assetRewardRate, NotFound)
    BY <2>1, <2>2, <2>3, EncodedKeys
  <2>4. ASSUME <<code, a>> \in DOMAIN RawStorage["asset_reward_rate"]
        PROVE  FALSE
    BY <1>2, <2>4 DEF MapConverts, AssetOfKey, PerAccount
  <2> QED
    BY <2>2, <2>3, <2>4
<1> QED
  BY <1>1, <1>3, StoredDistribution DEF ItemConverts, Blocked
-----------------------------------------------------------------------------
(* What the new version loads is what the old one stored.                  *)

LEMMA FinishKeepsHub ==
  ASSUME TypeOK, MigrationInv, FinishMigration
  PROVE  UNCHANGED vars
<1>1. migrated = 7 /\ code = "v2"
  BY MapsDistinct DEF FinishMigration, MigrationInv
<1>2. ASSUME NEW namespace \in Namespaces
      PROVE  store[namespace] = Rewritten(RawStorage[namespace])
  <2>1. store[namespace] = Written(namespace, 7)
    BY <1>1 DEF MigrationInv
  <2> QED
    BY <2>1, MapsDistinct DEF Written
<1>3. /\ store.whitelist = Rewritten(Encoded([a \in Assets |-> a \in whitelist], FALSE))
      /\ store.balances = Rewritten(Encoded(balances, NotFound))
      /\ store.total_balances = Rewritten(Encoded(totalBalances, 0))
      /\ store.asset_reward_distribution =
           Rewritten(Encoded([i \in {Item} |-> assetRewardDistribution], NotFound))
      /\ store.asset_reward_rate = Rewritten(Encoded(assetRewardRate, NotFound))
      /\ store.user_asset_reward_rate = Rewritten(Encoded(userAssetRewardRate, NotFound))
      /\ store.unclaimed_rewards = Rewritten(Encoded(unclaimedRewards, 0))
  BY <1>2, RawFields DEF Namespaces, PerAsset, PerAccount, Item
<1>4. whitelist' = whitelist
  <2> DEFINE listed == [a \in Assets |-> a \in whitelist]
  <2>1. DOMAIN listed = Assets /\ \A a \in Assets : listed[a] = (a \in whitelist)
    BY Zenon
  <2> HIDE DEF listed
  <2>2. \A a \in Assets : Load(Rewritten(Encoded(listed, FALSE)), a, FALSE) = listed[a]
    BY <1>1, <2>1, LoadRewritten
  <2>3. \A a \in Assets : Load(store.whitelist, a, FALSE) = listed[a]
    BY <1>3, <2>2 DEF listed
  <2>4. \A a \in Assets : Load(store.whitelist, a, FALSE) = (a \in whitelist)
    BY <2>1, <2>3, Zenon
  <2>5. whitelist' = {a \in Assets : Load(store.whitelist, a, FALSE)}
    BY DEF FinishMigration
  <2>6. whitelist \subseteq Assets
    BY DEF TypeOK
  <2> QED
    BY <2>4, <2>5, <2>6, Zenon
<1>5. balances' = balances
  <2>1. \A k \in Accounts : Load(store.balances, k, NotFound) = balances[k]
    BY <1>1, <1>3, LoadRewritten DEF TypeOK
  <2> QED
    BY <2>1 DEF FinishMigration, TypeOK
<1>6. totalBalances' = totalBalances
  <2>1. \A a \in Assets : Load(store.total_balances, a, 0) = totalBalances[a]
    BY <1>1, <1>3, LoadRewritten DEF TypeOK
  <2> QED
    BY <2>1 DEF FinishMigration, TypeOK
<1>7. assetRewardDistribution' = assetRewardDistribution
  <2> DEFINE f == [i \in {Item} |-> assetRewardDistribution]
  <2>1. Item \in DOMAIN f /\ f[Item] = assetRewardDistribution
    OBVIOUS
  <2> HIDE DEF f
  <2>2. Load(Rewritten(Encoded(f, NotFound)), Item, NotFound) = f[Item]
    BY <1>1, <2>1, LoadRewritten
  <2> QED
    BY <1>3, <2>1, <2>2 DEF FinishMigration, f
<1>8. assetRewardRate' = assetRewardRate
  <2>1. \A a \in Assets : Load(store.asset_reward_rate, a, NotFound) = assetRewardRate[a]
    BY <1>1, <1>3, LoadRewritten DEF TypeOK
  <2> QED
    BY <2>1 DEF FinishMigration, TypeOK
<1>9. userAssetRewardRate' = userAssetRewardRate
  <2>1. \A k \in Accounts :
          Load(store.user_asset_reward_rate, k, NotFound) = userAssetRewardRate[k]
    BY <1>1, <1>3, LoadRewritten DEF TypeOK
  <2> QED
    BY <2>1 DEF FinishMigration, TypeOK
<1>10. unclaimedRewards' = unclaimedRewards
  <2>1. \A k \in Accounts : Load(store.unclaimed_rewards, k, 0) = unclaimedRewards[k]
    BY <1>1, <1>3, LoadRewritten DEF TypeOK
  <2> QED
    BY <2>1 DEF FinishMigration, TypeOK
<1> QED
  BY <1>4, <1>5, <1>6, <1>7, <1>8, <1>9, <1>10 DEF FinishMigration, vars, chainVars
-----------------------------------------------------------------------------
(* The steps of an upgrade.                                                *)

LEMMA UpgradeStep ==
  ASSUME TypeOK, UpgradeInv, [UpgradeNext]_upgradeVars
  PROVE  [Next]_vars /\ (migrating => UNCHANGED vars)
<1>1. FinishMigration => UNCHANGED vars
  BY FinishKeepsHub DEF FinishMigration, UpgradeInv
<1>2. HubStep => Next /\ ~migrating
  BY DEF HubStep
<1>3. StartMigration \/ MigrateNamespace \/ MigrationFails \/ UNCHANGED upgradeVars
        => UNCHANGED vars
  BY DEF StartMigration, MigrateNamespace, MigrationFails, upgradeVars
<1> QED
  BY <1>1, <1>2, <1>3 DEF UpgradeNext, MigrationStep

LEMMA StorageKept ==
  ASSUME UNCHANGED <<vars, code>>
  PROVE  RawStorage' = RawStorage
BY DEF RawStorage, Encoded, vars

LEMMA UpgradeInvStep ==
  ASSUME TypeOK, UpgradeInv, [UpgradeNext]_upgradeVars
  PROVE  UpgradeInv'
<1>1. CASE StartMigration
  <2>1. code = "v2"
    BY <1>1, VersionsAssumption DEF StartMigration, UpgradeInv
  <2>2. RawStorage' = RawStorage
    BY <1>1, StorageKept DEF StartMigration
  <2>3. MigrationInv'
    BY <1>1, <2>1, <2>2, RawFields DEF StartMigration, MigrationInv, Written, Idle, vars
  <2> QED
    BY <1>1, <2>3 DEF StartMigration, UpgradeInv
<1>2. CASE MigrateNamespace
  <2>1. MigrationInv /\ migrating
    BY <1>2 DEF MigrateNamespace, UpgradeInv
  <2>2. migrated \in 0 .. 6 /\ migrated' = migrated + 1
    BY <1>2, <2>1, MapsDistinct DEF MigrateNamespace, MigrationInv
  <2>3. RawStorage' = RawStorage
    BY <1>2, StorageKept DEF MigrateNamespace
  <2>4. Current = MigrateMaps[migrated'] /\ Current \in Namespaces
    BY <2>2, MapsDistinct DEF Current
  <2>5. store[Current] = RawStorage[Current]
    BY <2>1, <2>2, <2>4, MapsDistinct DEF MigrationInv, Written
  <2>6. /\ DOMAIN store' = Namespaces
        /\ store'[Current] = Rewritten(RawStorage[Current])
        /\ \A namespace \in Namespaces \ {Current} : store'[namespace] = store[namespace]
    BY <1>2, <2>1, <2>4, <2>5 DEF MigrateNamespace, MigrationInv
  <2>7. ASSUME NEW namespace \in Namespaces
        PROVE  store'[namespace] = Written(namespace, migrated)'
    <3>1. CASE namespace = Current
      BY <2>2, <2>3, <2>4, <2>6, <3>1 DEF Written
    <3>2. CASE namespace # Current
      <4>1. store'[namespace] = Written(namespace, migrated)
        BY <2>1, <2>6, <3>2 DEF MigrationInv
      <4>2. (\E i \in 1 .. migrated' : MigrateMaps[i] = namespace)
              <=> \E i \in 1 .. migrated : MigrateMaps[i] = namespace
        BY <2>2, <2>4, <3>2
      <4> QED
        BY <2>3, <4>1, <4>2 DEF Written
    <3> QED
      BY <3>1, <3>2
  <2>8. ASSUME NEW i \in 1 .. migrated'
        PROVE  Converts(MigrateMaps[i], RawStorage[MigrateMaps[i]])
    <3>1. CASE i = migrated'
      BY <1>2, <2>4, <2>5, <3>1 DEF MigrateNamespace, CurrentConverts
    <3>2. CASE i # migrated'
      BY <2>1, <2>2, <3>2 DEF MigrationInv
    <3> QED
      BY <3>1, <3>2
  <2>9. MigrationInv'
    BY <1>2, <2>1, <2>2, <2>3, <2>6, <2>7, <2>8
       DEF MigrateNamespace, MigrationInv, Idle, vars
  <2> QED
    BY <1>2, <2>9 DEF MigrateNamespace, UpgradeInv
<1>3. CASE MigrationFails
  BY <1>3 DEF MigrationFails, MigrationOver, UpgradeInv
<1>4. CASE FinishMigration
  BY <1>4 DEF FinishMigration, MigrationOver, VersionAfter, UpgradeInv
<1>5. CASE HubStep
  BY <1>5 DEF HubStep, migrationVars, UpgradeInv
<1>6. CASE UNCHANGED upgradeVars
  <2>1. RawStorage' = RawStorage
    BY <1>6, StorageKept DEF upgradeVars
  <2>2. UNCHANGED <<code, storageVersion, migrating, migrated, store, tx>>
    BY <1>6 DEF upgradeVars, migrationVars, vars
  <2>3. MigrationInv => MigrationInv'
    BY <2>1, <2>2 DEF MigrationInv, Written, Idle
  <2> QED
    BY <2>2, <2>3 DEF UpgradeInv
<1> QED
  BY <1>1, <1>2, <1>3, <1>4, <1>5, <1>6 DEF UpgradeNext, MigrationStep
-----------------------------------------------------------------------------
LEMMA UpgradeInitInv == UpgradeInit => Init /\ UpgradeInv
<1>1. UpgradeInit => migrating = FALSE
  BY DEF UpgradeInit
<1>2. UpgradeInit => migrating \in BOOLEAN /\ ~migrating
  BY <1>1
<1>3. UpgradeInit => UpgradeInv
  BY <1>2 DEF UpgradeInit, UpgradeInv
<1> QED
  BY <1>3 DEF UpgradeInit

LEMMA UpgradeInvariant ==
  UpgradeSpec => [](TypeOK /\ EntriesComplete /\ UpgradeInv) /\ Safety
<1> DEFINE Inv == TypeOK /\ EntriesComplete /\ UpgradeInv
<1>1. UpgradeInit => Inv
  <2>1. Init => EntriesComplete
    BY DEF Init, EntriesComplete, Accounts
  <2> QED
    BY <2>1, UpgradeInitInv, InitTypeOK
<1>2. Inv /\ [UpgradeNext]_upgradeVars => [Next]_vars
  BY UpgradeStep
<1>3. Inv /\ [UpgradeNext]_upgradeVars => Inv'
  <2>1. TypeOK /\ [Next]_vars => TypeOK'
    BY NextTypeOK
  <2> QED
    BY <1>2, <2>1, UpgradeInvStep, EntriesCompleteStep
<1> HIDE DEF Inv
<1>4. UpgradeSpec => []Inv /\ Safety
  BY <1>1, <1>2, <1>3, UpgradeInitInv, PTL DEF UpgradeSpec, Safety
<1> QED
  BY <1>4 DEF Inv

(* A hub that is upgraded, however often that fails, takes the steps of a  *)
(* hub and no others.                                                      *)
THEOREM UpgradeRefinesHub == UpgradeSpec => Safety
BY UpgradeInvariant, PTL

(* An upgrade, whether it ends, fails or is still running, is no step of   *)
(* the hub at all: what the new version reads is what the old one wrote.   *)
THEOREM UpgradeLosesNothing == UpgradeSpec => UpgradeCarriesOver
<1>1. TypeOK /\ UpgradeInv /\ [UpgradeNext]_upgradeVars
        => [migrating => UNCHANGED vars]_upgradeVars
  BY UpgradeStep
<1> QED
  BY <1>1, UpgradeInvariant, PTL DEF UpgradeSpec, UpgradeCarriesOver

(* What a hub owns still covers what it owes after any number of attempts  *)
(* to upgrade it.                                                          *)
THEOREM UpgradedHubSolvent == UpgradeSpec => []Solvent
BY UpgradeInvariant, HubSolvent, PTL

(* And whatever was staked or earned before can be taken out after it.     *)
THEOREM UpgradedHubPays ==
  WidthSuffices => (UpgradeSpec => [](StakesWithdrawable /\ RewardsClaimable))
<1> SUFFICES ASSUME WidthSuffices
             PROVE  UpgradeSpec => [](StakesWithdrawable /\ RewardsClaimable)
  OBVIOUS
<1>1. Safety => []StakesWithdrawable /\ []RewardsClaimable
  BY AlwaysWithdrawable, AlwaysClaimable
<1> QED
  BY <1>1, UpgradeInvariant, PTL

(* No migrate function meets a key of the other encoding, or leaves one.   *)
THEOREM UpgradeSeparatesEncodings == UpgradeSpec => []EncodingsSeparated
<1>1. UpgradeInv => EncodingsSeparated
  <2> SUFFICES ASSUME UpgradeInv, migrating, NEW namespace \in Namespaces,
                      NEW r \in DOMAIN store[namespace]
               PROVE  r[1] = IF \E i \in 1 .. migrated : MigrateMaps[i] = namespace
                             THEN "v3" ELSE "v2"
    BY DEF EncodingsSeparated
  <2>1. code = "v2" /\ store[namespace] = Written(namespace, migrated)
    BY DEF UpgradeInv, MigrationInv
  <2>2. CASE \E i \in 1 .. migrated : MigrateMaps[i] = namespace
    <3>1. r \in {"v3"} \X {k[2] : k \in DOMAIN RawStorage[namespace]}
      BY <2>1, <2>2, RewrittenKeys DEF Written
    <3> QED
      BY <2>2, <3>1
  <2>3. CASE ~(\E i \in 1 .. migrated : MigrateMaps[i] = namespace)
    <3>1. r \in DOMAIN RawStorage[namespace]
      BY <2>1, <2>3 DEF Written
    <3>2. ASSUME NEW f, NEW absent, r \in DOMAIN Encoded(f, absent)
          PROVE  r[1] = code
      <4>1. DOMAIN Encoded(f, absent) = {code} \X {k \in DOMAIN f : f[k] # absent}
        BY DEF Encoded
      <4>2. r[1] \in {code}
        BY <3>2, <4>1
      <4> QED
        BY <4>2
    <3>3. r[1] = code
      BY <3>1, <3>2, RawFields DEF Namespaces, PerAsset, PerAccount, Item
    <3> QED
      BY <2>1, <2>3, <3>3
  <2> QED
    BY <2>2, <2>3
<1> QED
  BY <1>1, UpgradeInvariant, PTL

(* A migration is refused exactly if the hub never set a distribution, if  *)
(* that names a cw1155 asset, or if an asset that cannot be converted was  *)
(* ever whitelisted: no sequence of calls leaves another obstacle.         *)
THEOREM BlockedExactly == UpgradeSpec => OnlyTheseBlock
<1>1. ASSUME TypeOK, EntriesComplete, UpgradeInv, [UpgradeNext]_upgradeVars
      PROVE  migrating /\ ~migrating' => (code' = "v3" <=> ~Blocked)
  <2> SUFFICES ASSUME migrating, ~migrating'
               PROVE  code' = "v3" <=> ~Blocked
    OBVIOUS
  <2>1. MigrationInv
    BY <1>1 DEF UpgradeInv
  <2>2. MigrationFails \/ FinishMigration
    BY <1>1 DEF UpgradeNext, MigrationStep, HubStep, StartMigration, MigrateNamespace,
         upgradeVars, migrationVars
  <2>3. CASE MigrationFails
    <3>1. migrated \in 0 .. 6 /\ code' = "v2"
      BY <2>1, <2>3, MapsDistinct DEF MigrationFails, MigrationInv
    <3>2. Current \in Namespaces /\ store[Current] = RawStorage[Current]
      BY <2>1, <3>1, MapsDistinct DEF Current, MigrationInv, Written
    <3>3. ~Converts(Current, RawStorage[Current])
      BY <2>3, <3>2 DEF MigrationFails, CurrentConverts
    <3>4. Blocked
      BY <1>1, <2>1, <3>2, <3>3, UnconvertibleBlocks DEF MigrationInv
    <3> QED
      BY <3>1, <3>4
  <2>4. CASE FinishMigration
    <3>1. migrated = 7 /\ code' = "v3"
      BY <2>4, MapsDistinct DEF FinishMigration
    <3>2. \A namespace \in Namespaces : Converts(namespace, RawStorage[namespace])
      BY <2>1, <3>1, MapsDistinct DEF MigrationInv
    <3>3. ~Blocked
      BY <1>1, <2>1, <3>2, ConvertibleUnblocked DEF MigrationInv
    <3> QED
      BY <3>1, <3>3
  <2> QED
    BY <2>2, <2>3, <2>4
<1>2. TypeOK /\ EntriesComplete /\ UpgradeInv /\ [UpgradeNext]_upgradeVars
        => [migrating /\ ~migrating' => (code' = "v3" <=> ~Blocked)]_upgradeVars
  BY <1>1
<1> QED
  BY <1>2, UpgradeInvariant, PTL DEF UpgradeSpec, OnlyTheseBlock
=============================================================================
