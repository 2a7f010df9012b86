------------------------ MODULE TokenRegistryProofs ------------------------
(***************************************************************************)
(* Proofs about TokenRegistry, for every set of denoms, assets, channels   *)
(* and infos, every remove delay and every pace of the blocks.             *)
(***************************************************************************)
EXTENDS TokenRegistry, TLAPS

LEMMA InfoFacts ==
    ASSUME NEW info \in Infos
    PROVE  /\ info.nativeDenom \in Native /\ info.ibcDenom \in IbcDenom
           /\ info.channel \in Channel /\ info.assetID \in Asset
  BY InfoAssumption DEF Info

-----------------------------------------------------------------------------
(* What a registration leaves. *)
Added(info) ==
    /\ infoByNative' = Put(infoByNative, info.nativeDenom, info)
    /\ infoByAsset' = Put(infoByAsset, info.assetID, info)
    /\ nativeByIbc' = Put(nativeByIbc, info.ibcDenom, info.nativeDenom)

LEMMA LaterType ==
    ASSUME RegistryTypeOK, NEW gap \in Nat
    PROVE  /\ Later(gap) \in [DOMAIN Later(gap) -> -1..RemoveDelay]
           /\ DOMAIN Later(gap) = DOMAIN removeList
  BY TimeAssumption DEF RegistryTypeOK, Later

(* A restart writes every info of the export under its keys. *)
LEMMA RestartType ==
    ASSUME RegistryTypeOK, Restart
    PROVE  RegistryTypeOK'
  <1> DEFINE infos == IF Importable(Exported) THEN Exported ELSE {}
             byNative == KeyedBy(infos, LAMBDA i : i.nativeDenom)
             byAsset == KeyedBy(infos, LAMBDA i : i.assetID)
             byIbc == KeyedBy(infos, LAMBDA i : i.ibcDenom)
  <1>1. \A info \in infos : info \in Infos
    BY DEF Exported, RegistryTypeOK
  <1>2. /\ infoByNative' = byNative
        /\ infoByAsset' = byAsset
        /\ nativeByIbc' = [d \in DOMAIN byIbc |-> byIbc[d].nativeDenom]
        /\ removeList' = Nothing
        /\ requested' = requested
    BY DEF Restart
  <1> HIDE DEF infos
  <1>3. DOMAIN byNative \subseteq Native /\ byNative \in [DOMAIN byNative -> Infos]
    BY <1>1, InfoFacts DEF KeyedBy
  <1>4. DOMAIN byAsset \subseteq Asset /\ byAsset \in [DOMAIN byAsset -> Infos]
    BY <1>1, InfoFacts DEF KeyedBy
  <1>5. DOMAIN byIbc \subseteq IbcDenom /\ byIbc \in [DOMAIN byIbc -> Infos]
    BY <1>1, InfoFacts DEF KeyedBy
  <1>6. \A d \in DOMAIN byIbc : byIbc[d].nativeDenom \in Native
    BY <1>5, InfoFacts
  <1> HIDE DEF byNative, byAsset, byIbc
  <1>7. /\ DOMAIN nativeByIbc' \subseteq IbcDenom
        /\ nativeByIbc' \in [DOMAIN nativeByIbc' -> Native]
    BY <1>2, <1>5, <1>6
  <1>8. /\ DOMAIN removeList' \subseteq Native
        /\ removeList' \in [DOMAIN removeList' -> -1..RemoveDelay]
    BY <1>2 DEF Nothing
  <1> QED  BY <1>2, <1>3, <1>4, <1>7, <1>8 DEF RegistryTypeOK

LEMMA RegistryTypeStep ==
    ASSUME RegistryTypeOK, [RegistryNext]_registryVars
    PROVE  RegistryTypeOK'
  <1>1. CASE UNCHANGED registryVars
    BY <1>1 DEF registryVars, RegistryTypeOK
  <1>2. ASSUME NEW info \in Infos, AddParachainIBCInfo(info)
        PROVE  RegistryTypeOK'
    <2>1. Added(info)
      BY <1>2 DEF AddParachainIBCInfo, Added
    <2>2. /\ DOMAIN infoByNative' \subseteq Native
          /\ infoByNative' \in [DOMAIN infoByNative' -> Infos]
      BY <2>1, InfoFacts DEF Added, Put, RegistryTypeOK
    <2>3. /\ DOMAIN infoByAsset' \subseteq Asset
          /\ infoByAsset' \in [DOMAIN infoByAsset' -> Infos]
      BY <2>1, InfoFacts DEF Added, Put, RegistryTypeOK
    <2>4. /\ DOMAIN nativeByIbc' \subseteq IbcDenom
          /\ nativeByIbc' \in [DOMAIN nativeByIbc' -> Native]
      BY <2>1, InfoFacts DEF Added, Put, RegistryTypeOK
    <2>5. requested' \subseteq Native /\ removeList' = removeList
      BY <1>2 DEF AddParachainIBCInfo, RegistryTypeOK
    <2> QED  BY <2>2, <2>3, <2>4, <2>5 DEF RegistryTypeOK
  <1>3. ASSUME NEW native \in Native, AddParachainIBCInfoToRemoveList(native)
        PROVE  RegistryTypeOK'
    <2>1. RemoveDelay \in -1..RemoveDelay
      BY TimeAssumption
    <2>2. removeList' = Put(removeList, native, RemoveDelay)
      BY <1>3 DEF AddParachainIBCInfoToRemoveList
    <2>3. /\ DOMAIN removeList' \subseteq Native
          /\ removeList' \in [DOMAIN removeList' -> -1..RemoveDelay]
      BY <2>1, <2>2 DEF Put, RegistryTypeOK
    <2> QED  BY <1>3, <2>3 DEF AddParachainIBCInfoToRemoveList, RegistryTypeOK, indexes
  <1>4. ASSUME NEW gap \in BlockGaps, BeginBlocker(gap)
        PROVE  RegistryTypeOK'
    <2>1. gap \in Nat
      BY TimeAssumption
    <2>2. /\ removeList' = Later(gap)
          /\ requested' \subseteq requested
      BY <1>4 DEF BeginBlocker
    <2>3. PICK natives : RemoveParachainIBCInfos(natives)
      BY <1>4 DEF BeginBlocker
    <2>4. /\ DOMAIN infoByNative' \subseteq Native
          /\ infoByNative' \in [DOMAIN infoByNative' -> Infos]
      BY <2>3 DEF RemoveParachainIBCInfos, Drop, RegistryTypeOK
    <2>5. /\ DOMAIN infoByAsset' \subseteq Asset
          /\ infoByAsset' \in [DOMAIN infoByAsset' -> Infos]
      BY <2>3 DEF RemoveParachainIBCInfos, Drop, RegistryTypeOK
    <2>6. /\ DOMAIN nativeByIbc' \subseteq IbcDenom
          /\ nativeByIbc' \in [DOMAIN nativeByIbc' -> Native]
      BY <2>3 DEF RemoveParachainIBCInfos, Drop, RegistryTypeOK
    <2> QED  BY <2>1, <2>2, <2>4, <2>5, <2>6, LaterType DEF RegistryTypeOK
  <1> QED  BY <1>1, <1>2, <1>3, <1>4, RestartType DEF RegistryNext, RegistryMsg, RegistryBlock

LEMMA RegistryTypeInit ==
    ASSUME RegistryInit
    PROVE  RegistryTypeOK
  BY DEF RegistryInit, RegistryTypeOK, Nothing

-----------------------------------------------------------------------------
(* The indexes.  The three parts of IndexesAgree. *)
ByNativeAgrees(n) ==
    LET info == infoByNative[n]
    IN  /\ info.nativeDenom = n
        /\ info.assetID \in DOMAIN infoByAsset
        /\ infoByAsset[info.assetID] = info
        /\ info.ibcDenom \in DOMAIN nativeByIbc
        /\ nativeByIbc[info.ibcDenom] = n

ByAssetAgrees(a) ==
    /\ infoByAsset[a].assetID = a
    /\ HasInfo(infoByAsset[a].nativeDenom)
    /\ infoByNative[infoByAsset[a].nativeDenom] = infoByAsset[a]

ByIbcAgrees(d) ==
    HasInfo(nativeByIbc[d]) /\ infoByNative[nativeByIbc[d]].ibcDenom = d

LEMMA IndexesAgreeParts ==
    IndexesAgree <=>
        /\ \A n \in DOMAIN infoByNative : ByNativeAgrees(n)
        /\ \A a \in DOMAIN infoByAsset : ByAssetAgrees(a)
        /\ \A d \in DOMAIN nativeByIbc : ByIbcAgrees(d)
  BY DEF IndexesAgree, ByNativeAgrees, ByAssetAgrees, ByIbcAgrees

LEMMA AddKeepsAgreement ==
    ASSUME RegistryTypeOK, IndexesAgree,
           NEW info \in Infos, AddParachainIBCInfo(info)
    PROVE  IndexesAgree'
  <1> DEFINE native == info.nativeDenom
             asset == info.assetID
             ibc == info.ibcDenom
  <1>1. Added(info)
    BY DEF AddParachainIBCInfo, Added
  <1>2. /\ native \notin DOMAIN infoByNative
        /\ asset \notin DOMAIN infoByAsset
        /\ ibc \notin DOMAIN nativeByIbc
    BY DEF AddParachainIBCInfo, IsNew, HasInfo
  <1>3. /\ DOMAIN infoByNative' = DOMAIN infoByNative \cup {native}
        /\ infoByNative'[native] = info
        /\ \A n \in DOMAIN infoByNative : infoByNative'[n] = infoByNative[n]
    BY <1>1, <1>2 DEF Added, Put
  <1>4. /\ DOMAIN infoByAsset' = DOMAIN infoByAsset \cup {asset}
        /\ infoByAsset'[asset] = info
        /\ \A a \in DOMAIN infoByAsset : infoByAsset'[a] = infoByAsset[a]
    BY <1>1, <1>2 DEF Added, Put
  <1>5. /\ DOMAIN nativeByIbc' = DOMAIN nativeByIbc \cup {ibc}
        /\ nativeByIbc'[ibc] = native
        /\ \A d \in DOMAIN nativeByIbc : nativeByIbc'[d] = nativeByIbc[d]
    BY <1>1, <1>2 DEF Added, Put
  <1>6. \A n \in DOMAIN infoByNative' : ByNativeAgrees(n)'
    BY <1>3, <1>4, <1>5, IndexesAgreeParts DEF ByNativeAgrees
  <1>7. \A a \in DOMAIN infoByAsset' : ByAssetAgrees(a)'
    BY <1>3, <1>4, <1>5, IndexesAgreeParts DEF ByAssetAgrees, HasInfo
  <1>8. \A d \in DOMAIN nativeByIbc' : ByIbcAgrees(d)'
    BY <1>3, <1>4, <1>5, IndexesAgreeParts DEF ByIbcAgrees, HasInfo
  <1> QED  BY <1>6, <1>7, <1>8 DEF IndexesAgree, ByNativeAgrees, ByAssetAgrees, ByIbcAgrees

(* No two natives share an asset or an IBC denom. *)
LEMMA KeysAreUnique ==
    ASSUME IndexesAgree,
           NEW m \in DOMAIN infoByNative, NEW n \in DOMAIN infoByNative,
           \/ infoByNative[m].assetID = infoByNative[n].assetID
           \/ infoByNative[m].ibcDenom = infoByNative[n].ibcDenom
    PROVE  m = n
  BY DEF IndexesAgree

LEMMA RemoveKeepsAgreement ==
    ASSUME IndexesAgree, NEW natives \in SUBSET DOMAIN infoByNative,
           RemoveParachainIBCInfos(natives)
    PROVE  IndexesAgree'
  <1> DEFINE assets == {infoByNative[n].assetID : n \in natives}
             ibcs == {infoByNative[n].ibcDenom : n \in natives}
  <1>1. /\ DOMAIN infoByNative' = DOMAIN infoByNative \ natives
        /\ \A n \in DOMAIN infoByNative \ natives : infoByNative'[n] = infoByNative[n]
    BY DEF RemoveParachainIBCInfos, Drop
  <1>2. /\ DOMAIN infoByAsset' = DOMAIN infoByAsset \ assets
        /\ \A a \in DOMAIN infoByAsset \ assets : infoByAsset'[a] = infoByAsset[a]
    BY DEF RemoveParachainIBCInfos, Drop
  <1>3. /\ DOMAIN nativeByIbc' = DOMAIN nativeByIbc \ ibcs
        /\ \A d \in DOMAIN nativeByIbc \ ibcs : nativeByIbc'[d] = nativeByIbc[d]
    BY DEF RemoveParachainIBCInfos, Drop
  <1>4. ASSUME NEW n \in DOMAIN infoByNative \ natives
        PROVE  infoByNative[n].assetID \notin assets /\ infoByNative[n].ibcDenom \notin ibcs
    BY <1>4, KeysAreUnique
  <1>5. \A n \in DOMAIN infoByNative' : ByNativeAgrees(n)'
    BY <1>1, <1>2, <1>3, <1>4, IndexesAgreeParts DEF ByNativeAgrees
  <1>6. \A a \in DOMAIN infoByAsset' : ByAssetAgrees(a)'
    BY <1>1, <1>2, IndexesAgreeParts DEF ByAssetAgrees, HasInfo
  <1>7. \A d \in DOMAIN nativeByIbc' : ByIbcAgrees(d)'
    BY <1>1, <1>3, IndexesAgreeParts DEF ByIbcAgrees, HasInfo
  <1> QED  BY <1>5, <1>6, <1>7 DEF IndexesAgree, ByNativeAgrees, ByAssetAgrees, ByIbcAgrees

(* No two infos of an export share a key: each is the one the index by     *)
(* native denom holds, and the one the index by IBC denom leads to.        *)
LEMMA ExportIsImportable ==
    ASSUME IndexesAgree
    PROVE  Importable(Exported)
  <1>1. \A i \in Exported : /\ infoByNative[i.nativeDenom] = i
                            /\ infoByAsset[i.assetID] = i
                            /\ nativeByIbc[i.ibcDenom] = i.nativeDenom
    BY DEF Exported, IndexesAgree, HasInfo
  <1>2. QED
    BY <1>1 DEF Importable

LEMMA RestartKeepsIndexes ==
    ASSUME RegistryTypeOK, IndexesAgree, Restart
    PROVE  UNCHANGED indexes
  <1> DEFINE byIbc == KeyedBy(Exported, LAMBDA i : i.ibcDenom)
  <1>1. \A i \in Exported : /\ HasInfo(i.nativeDenom) /\ infoByNative[i.nativeDenom] = i
                            /\ i.assetID \in DOMAIN infoByAsset /\ infoByAsset[i.assetID] = i
                            /\ i.ibcDenom \in DOMAIN nativeByIbc
                            /\ nativeByIbc[i.ibcDenom] = i.nativeDenom
    BY DEF Exported, IndexesAgree, HasInfo
  <1>2. /\ \A n \in DOMAIN infoByNative : infoByNative[n] \in Exported
                                        /\ infoByNative[n].nativeDenom = n
        /\ \A a \in DOMAIN infoByAsset : infoByAsset[a] \in Exported
                                       /\ infoByAsset[a].assetID = a
    BY DEF Exported, IndexesAgree
  <1>3. \A d \in DOMAIN nativeByIbc : infoByNative[nativeByIbc[d]] \in Exported
                                   /\ infoByNative[nativeByIbc[d]].ibcDenom = d
    BY <1>2 DEF IndexesAgree, HasInfo
  <1>4. infoByNative' = infoByNative
    <2>1. infoByNative' = KeyedBy(Exported, LAMBDA i : i.nativeDenom)
      BY ExportIsImportable DEF Restart
    <2>2. {i.nativeDenom : i \in Exported} = DOMAIN infoByNative
      BY <1>1, <1>2 DEF HasInfo
    <2>3. \A n \in DOMAIN infoByNative :
             (CHOOSE i \in Exported : i.nativeDenom = n) = infoByNative[n]
      BY <1>1, <1>2
    <2> QED  BY <2>1, <2>2, <2>3 DEF KeyedBy, RegistryTypeOK
  <1>5. infoByAsset' = infoByAsset
    <2>1. infoByAsset' = KeyedBy(Exported, LAMBDA i : i.assetID)
      BY ExportIsImportable DEF Restart
    <2>2. {i.assetID : i \in Exported} = DOMAIN infoByAsset
      BY <1>1, <1>2
    <2>3. \A a \in DOMAIN infoByAsset :
             (CHOOSE i \in Exported : i.assetID = a) = infoByAsset[a]
      BY <1>1, <1>2
    <2> QED  BY <2>1, <2>2, <2>3 DEF KeyedBy, RegistryTypeOK
  <1>6. nativeByIbc' = nativeByIbc
    <2>1. nativeByIbc' = [d \in DOMAIN byIbc |-> byIbc[d].nativeDenom]
      BY ExportIsImportable DEF Restart
    <2>2. DOMAIN byIbc = DOMAIN nativeByIbc
      BY <1>1, <1>3 DEF KeyedBy
    <2>3. \A d \in DOMAIN nativeByIbc : byIbc[d] \in Exported /\ byIbc[d].ibcDenom = d
      BY <2>2, <1>3 DEF KeyedBy
    <2> HIDE DEF byIbc
    <2>4. \A d \in DOMAIN nativeByIbc : byIbc[d].nativeDenom = nativeByIbc[d]
      BY <2>3, <1>1
    <2> QED  BY <2>1, <2>2, <2>4 DEF RegistryTypeOK
  <1> QED  BY <1>4, <1>5, <1>6 DEF indexes

LEMMA IndexesAgreeStep ==
    ASSUME RegistryTypeOK, IndexesAgree, [RegistryNext]_registryVars
    PROVE  IndexesAgree'
  <1>1. CASE UNCHANGED registryVars
    BY <1>1 DEF registryVars, IndexesAgree, HasInfo
  <1>2. ASSUME NEW info \in Infos, AddParachainIBCInfo(info)
        PROVE  IndexesAgree'
    BY <1>2, AddKeepsAgreement
  <1>3. ASSUME NEW native \in Native, AddParachainIBCInfoToRemoveList(native)
        PROVE  IndexesAgree'
    BY <1>3 DEF AddParachainIBCInfoToRemoveList, indexes, IndexesAgree, HasInfo
  <1>4. ASSUME NEW gap \in BlockGaps, BeginBlocker(gap)
        PROVE  IndexesAgree'
    <2>1. /\ RankAssumption
          /\ DOMAIN Later(gap) \subseteq Native
      BY RankAssumption DEF RegistryTypeOK, Later
    <2> DEFINE due == Due(Later(gap))
               removed == {n \in due : \A m \in due : Rank[m] <= Rank[n] => HasInfo(m)}
    <2>2. \A n \in removed : HasInfo(n)
      BY <2>1 DEF Due
    <2>3. removed \in SUBSET DOMAIN infoByNative
      BY <2>2 DEF HasInfo
    <2>4. RemoveParachainIBCInfos(removed)
      BY <1>4 DEF BeginBlocker
    <2> QED  BY <2>3, <2>4, RemoveKeepsAgreement
  <1>5. CASE Restart
    BY <1>5, RestartKeepsIndexes DEF indexes, IndexesAgree, HasInfo
  <1> QED  BY <1>1, <1>2, <1>3, <1>4, <1>5 DEF RegistryNext, RegistryMsg, RegistryBlock

LEMMA IndexesAgreeInit ==
    ASSUME RegistryInit
    PROVE  IndexesAgree
  BY DEF RegistryInit, IndexesAgree, Nothing

RegistryInv == RegistryTypeOK /\ IndexesAgree

LEMMA RegistryInvariance == RegistrySpec => []RegistryInv
  <1>1. RegistryInit => RegistryInv
    BY RegistryTypeInit, IndexesAgreeInit DEF RegistryInv
  <1>2. RegistryInv /\ [RegistryNext]_registryVars => RegistryInv'
    BY RegistryTypeStep, IndexesAgreeStep DEF RegistryInv
  <1> QED  BY <1>1, <1>2, PTL DEF RegistrySpec

(* After any sequence of registrations, removal requests, blocks and       *)
(* restarts, the keys by native denom, by asset and by IBC denom name the  *)
(* same infos (AddParachainIBCInfo, RemoveParachainIBCInfo, InitGenesis).  *)
THEOREM IndexesStayInAgreement == RegistrySpec => []IndexesAgree
  <1>1. RegistryInv => IndexesAgree
    BY DEF RegistryInv
  <1> QED  BY <1>1, RegistryInvariance, PTL

(* InitGenesis refuses no info of an export: whatever was registered and   *)
(* removed before, no two exported infos share a native denom, an asset or *)
(* an IBC denom (ExportGenesis, AddParachainIBCInfo).                      *)
THEOREM ExportsAreImportable == RegistrySpec => []Importable(Exported)
  <1>1. RegistryInv => Importable(Exported)
    BY ExportIsImportable DEF RegistryInv
  <1> QED  BY <1>1, RegistryInvariance, PTL

(* A restart from an export, of which only the index by asset is exported, *)
(* goes through and leaves all three indexes as they were (ExportGenesis,  *)
(* InitGenesis).                                                           *)
THEOREM RestartsKeepTokens == RegistrySpec => RestartKeepsTokens
  <1>1. RegistryInv => (Restart => UNCHANGED indexes)
    BY RestartKeepsIndexes DEF RegistryInv
  <1> QED  BY <1>1, RegistryInvariance, PTL DEF RestartKeepsTokens

-----------------------------------------------------------------------------
(* What the entry a removal leaves in the remove list can do, and what it  *)
(* cannot.  A denom with an entry is not registered.                       *)
RegistersFreshDenoms ==
    \A info \in Infos : AddParachainIBCInfo(info) => info.nativeDenom \notin DOMAIN removeList

(* An entry of the remove list that still names a registered denom was     *)
(* written by a request for that registration.                             *)
EntriesAreRequests == \A n \in DOMAIN removeList : HasInfo(n) => n \in requested

LEMMA EntriesAreRequestsStep ==
    ASSUME RegistryInv, EntriesAreRequests, [RegistryNext]_registryVars, RegistersFreshDenoms
    PROVE  /\ EntriesAreRequests'
           /\ \A n \in DOMAIN infoByNative \ DOMAIN infoByNative' : n \in requested
  <1>1. CASE UNCHANGED registryVars
    BY <1>1 DEF registryVars, EntriesAreRequests, HasInfo
  <1>2. ASSUME NEW info \in Infos, AddParachainIBCInfo(info)
        PROVE  /\ EntriesAreRequests'
               /\ \A n \in DOMAIN infoByNative \ DOMAIN infoByNative' : n \in requested
    <2>1. /\ DOMAIN infoByNative' = DOMAIN infoByNative \cup {info.nativeDenom}
          /\ removeList' = removeList /\ requested' = requested \ {info.nativeDenom}
          /\ info.nativeDenom \notin DOMAIN removeList
      BY <1>2 DEF AddParachainIBCInfo, Put, RegistersFreshDenoms
    <2>2. QED
      BY <2>1 DEF EntriesAreRequests, HasInfo
  <1>3. ASSUME NEW native \in Native, AddParachainIBCInfoToRemoveList(native)
        PROVE  /\ EntriesAreRequests'
               /\ \A n \in DOMAIN infoByNative \ DOMAIN infoByNative' : n \in requested
    <2>1. /\ infoByNative' = infoByNative /\ requested' = requested \cup {native}
          /\ DOMAIN removeList' = DOMAIN removeList \cup {native}
      BY <1>3 DEF AddParachainIBCInfoToRemoveList, Put, indexes
    <2>2. QED
      BY <2>1 DEF EntriesAreRequests, HasInfo
  <1>4. ASSUME NEW gap \in BlockGaps, BeginBlocker(gap)
        PROVE  /\ EntriesAreRequests'
               /\ \A n \in DOMAIN infoByNative \ DOMAIN infoByNative' : n \in requested
    <2> DEFINE removed == {n \in Due(Later(gap)) :
                             \A m \in Due(Later(gap)) : Rank[m] <= Rank[n] => HasInfo(m)}
    <2>1. /\ DOMAIN removeList' = DOMAIN removeList
          /\ DOMAIN infoByNative' = DOMAIN infoByNative \ removed
          /\ requested' = requested \ removed
      BY <1>4 DEF BeginBlocker, RemoveParachainIBCInfos, Drop, Later
    <2>2. \A n \in removed : n \in DOMAIN removeList /\ n \in Native
      BY DEF Due, Later, RegistryInv, RegistryTypeOK
    <2>3. \A n \in removed : HasInfo(n)
      BY <2>2, RankAssumption
    <2> HIDE DEF removed
    <2>4. QED
      BY <2>1, <2>2, <2>3 DEF EntriesAreRequests, HasInfo
  <1>5. CASE Restart
    <2>1. infoByNative' = infoByNative /\ DOMAIN removeList' = {}
      BY <1>5, RestartKeepsIndexes DEF Restart, RegistryInv, indexes, Nothing
    <2>2. QED
      BY <2>1 DEF EntriesAreRequests
  <1>6. QED
    BY <1>1, <1>2, <1>3, <1>4, <1>5 DEF RegistryNext, RegistryMsg, RegistryBlock

(* The entry that RemoveParachainIBCInfo leaves behind is all that can     *)
(* remove a token nobody asked to remove: while no denom is registered     *)
(* again that has one, BeginBlocker removes only what was requested, over  *)
(* restarts too.                                                           *)
THEOREM RemovalsAreRequested ==
    RegistrySpec /\ [][RegistersFreshDenoms]_registryVars => RemovalWasRequested
  <1>1. RegistryInit => EntriesAreRequests
    BY DEF RegistryInit, EntriesAreRequests, Nothing
  <1>2. RegistryInv /\ EntriesAreRequests /\ [RegistryNext]_registryVars
          /\ [RegistersFreshDenoms]_registryVars
        => /\ EntriesAreRequests'
           /\ [\A n \in DOMAIN infoByNative \ DOMAIN infoByNative' : n \in requested]_registryVars
    <2>1. CASE UNCHANGED registryVars
      BY <2>1 DEF registryVars, EntriesAreRequests, HasInfo
    <2>2. CASE RegistersFreshDenoms
      BY <2>2, EntriesAreRequestsStep
    <2>3. QED
      BY <2>1, <2>2
  <1> QED  BY <1>1, <1>2, RegistryInvariance, PTL DEF RegistrySpec, RemovalWasRequested
=============================================================================
