--------------------------- MODULE TokenRegistry ---------------------------
(***************************************************************************)
(* x/transfermiddleware: which parachain tokens are registered.            *)
(*                                                                         *)
(* An info ties a native denom of this chain to an asset of the parachain, *)
(* to the channel it comes through and to the IBC denom it would have.     *)
(* The store keeps it under three keys: by native denom, by asset ID, and  *)
(* a secondary index from the IBC denom to the native denom.  A fourth     *)
(* prefix is the remove list: the time after which BeginBlocker removes    *)
(* the info of a native denom.                                             *)
(*                                                                         *)
(* Block time is relative: removeList holds RemoveTime less the time of    *)
(* the current block, and -1 for every time that is in the past.           *)
(***************************************************************************)
EXTENDS Integers

CONSTANTS
    Native,         \* native denoms
    Asset,          \* asset IDs: base denoms of the parachain
    Channel,        \* channels of this chain
    Infos,          \* the infos the authority may register
    Rank,           \* order in which the store iterates native denoms
    RemoveDelay,    \* params.Duration, in units of block time
    BlockGaps,      \* time between two blocks
    Restarts        \* whether the chain may be restarted from an export

(* The IBC denom of an asset that came through a channel: the hash of the  *)
(* trace transfer/channel/asset, which is injective.                       *)
IbcDenom == Channel \X Asset

Info == [nativeDenom : Native, ibcDenom : IbcDenom, channel : Channel, assetID : Asset]

ASSUME InfoAssumption == Infos \subseteq Info

ASSUME RankAssumption ==
    /\ Rank \in [Native -> Int]
    /\ \A m, n \in Native : Rank[m] = Rank[n] => m = n

ASSUME TimeAssumption == RemoveDelay \in Nat /\ BlockGaps \subseteq Nat \ {0}

ASSUME RestartAssumption == Restarts \in BOOLEAN

VARIABLES
    infoByNative,   \* [SUBSET Native -> Info]
    infoByAsset,    \* [SUBSET Asset -> Info]
    nativeByIbc,    \* [SUBSET IbcDenom -> Native]
    removeList,     \* [SUBSET Native -> -1..RemoveDelay]
    requested       \* history: registered denoms whose removal was asked for

indexes == <<infoByNative, infoByAsset, nativeByIbc>>
registryVars == <<infoByNative, infoByAsset, nativeByIbc, removeList, requested>>

(* A store without entries. *)
Nothing == [k \in {} |-> k]

(* A store entry is written, some are deleted. *)
Put(f, key, value) == [k \in DOMAIN f \cup {key} |-> IF k = key THEN value ELSE f[k]]
Drop(f, keys) == [k \in DOMAIN f \ keys |-> f[k]]

HasInfo(native) == native \in DOMAIN infoByNative

-----------------------------------------------------------------------------
(* The checks of AddParachainIBCInfo: no key may be taken. *)
IsNew(info) ==
    /\ info.assetID \notin DOMAIN infoByAsset
    /\ info.ibcDenom \notin DOMAIN nativeByIbc
    /\ ~ HasInfo(info.nativeDenom)

(* The message AddParachainIBCTokenInfo. *)
AddParachainIBCInfo(info) ==
    /\ IsNew(info)
    /\ infoByNative' = Put(infoByNative, info.nativeDenom, info)
    /\ infoByAsset' = Put(infoByAsset, info.assetID, info)
    /\ nativeByIbc' = Put(nativeByIbc, info.ibcDenom, info.nativeDenom)
    /\ requested' = requested \ {info.nativeDenom}
    /\ UNCHANGED removeList

(* The message RemoveParachainIBCTokenInfo only enters the remove list; a  *)
(* second message for the same denom moves the time.                       *)
AddParachainIBCInfoToRemoveList(native) ==
    /\ HasInfo(native)
    /\ removeList' = Put(removeList, native, RemoveDelay)
    /\ requested' = requested \cup {native}
    /\ UNCHANGED indexes

(* The secondary index survives the removal. *)
MutKeepSecondaryIndex(natives) ==
    /\ infoByNative' = Drop(infoByNative, natives)
    /\ infoByAsset' = Drop(infoByAsset, {infoByNative[n].assetID : n \in natives})
    /\ UNCHANGED nativeByIbc

(* RemoveParachainIBCInfo for some registered denoms: the three keys go.   *)
(* The entry of the remove list stays.                                     *)
RemoveParachainIBCInfos(natives) ==
    /\ infoByNative' = Drop(infoByNative, natives)
    /\ infoByAsset' = Drop(infoByAsset, {infoByNative[n].assetID : n \in natives})
    /\ nativeByIbc' = Drop(nativeByIbc, {infoByNative[n].ibcDenom : n \in natives})

(* The remove list as a block that comes gap later sees it. *)
Later(gap) == [n \in DOMAIN removeList |->
                 IF removeList[n] >= gap THEN removeList[n] - gap ELSE -1]

(* BlockTime.After(RemoveTime). *)
Due(list) == {n \in DOMAIN list : list[n] < 0}

(* BeginBlocker walks the remove list in the order of its keys and stops   *)
(* at the first due entry that cannot be removed, its info being gone.     *)
BeginBlocker(gap) ==
    LET list    == Later(gap)
        removed == {n \in Due(list) :
                      \A m \in Due(list) : Rank[m] <= Rank[n] => HasInfo(m)}
    IN  /\ removeList' = list
        /\ RemoveParachainIBCInfos(removed)
        /\ requested' = requested \ removed

(* ExportGenesis: the infos of the index by asset.  Neither the other two  *)
(* indexes nor the remove list are exported.                               *)
Exported == {infoByAsset[a] : a \in DOMAIN infoByAsset}

(* The keys under which the infos are found. *)
KeyedBy(infos, Key(_)) ==
    [k \in {Key(i) : i \in infos} |-> CHOOSE i \in infos : Key(i) = k]

(* InitGenesis hands every info to AddParachainIBCInfo and panics when one *)
(* is refused, a key of it being taken.                                    *)
Importable(infos) ==
    \A i, j \in infos : \/ i = j
                        \/ /\ i.nativeDenom # j.nativeDenom
                           /\ i.assetID # j.assetID
                           /\ i.ibcDenom # j.ibcDenom

(* The chain is stopped, exported and started again from the export.  With *)
(* an export that cannot be imported it does not start: no store is left.  *)
Restart ==
    LET infos == IF Importable(Exported) THEN Exported ELSE {}
        byIbc == KeyedBy(infos, LAMBDA i : i.ibcDenom)
    IN  /\ Restarts
        /\ infoByNative' = KeyedBy(infos, LAMBDA i : i.nativeDenom)
        /\ infoByAsset' = KeyedBy(infos, LAMBDA i : i.assetID)
        /\ nativeByIbc' = [d \in DOMAIN byIbc |-> byIbc[d].nativeDenom]
        /\ removeList' = Nothing
        /\ UNCHANGED requested

-----------------------------------------------------------------------------
RegistryInit ==
    /\ infoByNative = Nothing
    /\ infoByAsset = Nothing
    /\ nativeByIbc = Nothing
    /\ removeList = Nothing
    /\ requested = {}

RegistryMsg ==
    \/ \E info \in Infos : AddParachainIBCInfo(info)
    \/ \E native \in Native : AddParachainIBCInfoToRemoveList(native)

RegistryBlock == \E gap \in BlockGaps : BeginBlocker(gap)

RegistryNext == RegistryMsg \/ RegistryBlock \/ Restart

RegistrySpec == RegistryInit /\ [][RegistryNext]_registryVars

-----------------------------------------------------------------------------
(* Properties.                                                             *)

RegistryTypeOK ==
    /\ DOMAIN infoByNative \subseteq Native
    /\ infoByNative \in [DOMAIN infoByNative -> Infos]
    /\ DOMAIN infoByAsset \subseteq Asset
    /\ infoByAsset \in [DOMAIN infoByAsset -> Infos]
    /\ DOMAIN nativeByIbc \subseteq IbcDenom
    /\ nativeByIbc \in [DOMAIN nativeByIbc -> Native]
    /\ DOMAIN removeList \subseteq Native
    /\ removeList \in [DOMAIN removeList -> -1..RemoveDelay]
    /\ requested \subseteq Native

(* The three keys of the store tell the same story: whoever finds an info  *)
(* under one of them finds the same info under the other two, after any    *)
(* sequence of registrations and removals (AddParachainIBCInfo,            *)
(* RemoveParachainIBCInfo).  OnRecvPacket looks by asset and IBC denom,    *)
(* SendPacket by native denom, refundToken by IBC denom.                   *)
IndexesAgree ==
    /\ \A n \in DOMAIN infoByNative :
          LET info == infoByNative[n]
          IN  /\ info.nativeDenom = n
              /\ info.assetID \in DOMAIN infoByAsset
              /\ infoByAsset[info.assetID] = info
              /\ info.ibcDenom \in DOMAIN nativeByIbc
              /\ nativeByIbc[info.ibcDenom] = n
    /\ \A a \in DOMAIN infoByAsset :
          /\ infoByAsset[a].assetID = a
          /\ HasInfo(infoByAsset[a].nativeDenom)
          /\ infoByNative[infoByAsset[a].nativeDenom] = infoByAsset[a]
    /\ \A d \in DOMAIN nativeByIbc :
          HasInfo(nativeByIbc[d]) /\ infoByNative[nativeByIbc[d]].ibcDenom = d

(* A restart accepts its own export, and the indexes it rebuilds from the  *)
(* infos of only one of them have every token registered as it was         *)
(* (ExportGenesis, IterateParaTokenInfos, InitGenesis).                    *)
RestartKeepsTokens == [][Restart => UNCHANGED indexes]_registryVars

(* A removal that was asked for happens on time: no block leaves an info   *)
(* in place whose remove time lies before that block (BeginBlocker).       *)
RemovedOnTime == \A n \in requested : n \in DOMAIN removeList /\ removeList[n] >= 0

(* BeginBlocker removes only what the authority asked to remove since it   *)
(* was registered.                                                         *)
RemovalWasRequested ==
    [][\A n \in DOMAIN infoByNative \ DOMAIN infoByNative' : n \in requested]_registryVars
=============================================================================
