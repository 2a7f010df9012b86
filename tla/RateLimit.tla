----------------------------- MODULE RateLimit -----------------------------
(***************************************************************************)
(* x/ratelimit: the IBC middleware that bounds, per denom and channel, the *)
(* net value that leaves or enters the chain within a window.              *)
(*                                                                         *)
(* The keeper's store is rateLimits, pending and epochInfo.  The keeper    *)
(* reads three neighbours: the bank (supply), x/transfermiddleware         *)
(* (tokenInfos) and the IBC channel keeper, which hands out sequence       *)
(* numbers and calls back exactly once per packet, with an acknowledgement *)
(* or a timeout (commitments, nextSequence).                               *)
(*                                                                         *)
(* live, netSent and a packet's counted field are history.  They say what  *)
(* the store should mean: live holds the packets in flight that the        *)
(* CURRENT window of their limit has counted, netSent is the value that    *)
(* this window has really let out (sent, and not come back), counted       *)
(* whether any window counted it when it was sent.  No action of the store *)
(* reads them.                                                             *)
(***************************************************************************)
EXTENDS RateLimitTypes

CONSTANTS
    Denom,          \* denoms, as the limiter names them after parsing a packet
    Channel,        \* channels of this chain
    IDPrefix,       \* <<c, e>>: the text of channel ID c is a prefix of that of e
    Amount,         \* amounts of a transfer
    Supplies,       \* the values the bank's supply of a denom takes
    Quotas,         \* quotas the authority's messages carry
    MinAmounts,     \* minimum amounts those messages carry
    MsgTypes,       \* which of the four messages the authority sends
    Asset,          \* asset IDs of the parachain
    TokenInfos,     \* parachain token infos that may get registered
    Pairs,          \* sender/receiver pairs
    Whitelist,      \* the pairs whitelisted at genesis
    EpochDuration,  \* length of an epoch, in units of block time
    BlockGaps,      \* time between two blocks
    Restarts,       \* whether the chain may be restarted from an export
    EpochCycle,     \* bound: epochs are counted 1..EpochCycle, then from 1 again
    MaxLag,         \* bound: how far an epoch may lag behind the block time
    MaxSequence,    \* bound: packets sent per channel
    MaxInflow       \* bound: the inflow of a window

Path == [denom : Denom, channel : Channel]

Packet == [channel : Channel, sequence : Nat, denom : Denom, amount : Nat,
           counted : BOOLEAN]

PacketID == [channel : Channel, sequence : Nat]

TokenInfo == [nativeDenom : Denom, ibcDenom : Denom, channel : Channel, assetID : Asset]

AllMsgTypes == {"add", "update", "remove", "reset"}

ASSUME PrefixAssumption ==
    /\ IDPrefix \subseteq Channel \X Channel
    /\ \A c \in Channel : <<c, c>> \in IDPrefix

ASSUME NumberAssumption ==
    /\ Amount \subseteq Nat \ {0}
    /\ Supplies \subseteq Nat
    /\ MinAmounts \subseteq Int
    /\ Quotas \subseteq RawQuota
    /\ MaxSequence \in Nat
    /\ MaxInflow \in Nat

ASSUME MsgAssumption == MsgTypes \subseteq AllMsgTypes /\ Whitelist \subseteq Pairs

ASSUME TokenInfoAssumption == TokenInfos \subseteq TokenInfo

(* A block is later than the one before it; only the residue of an epoch   *)
(* number modulo a duration is ever read, so a common multiple of the      *)
(* durations is a sound place to wrap around.                              *)
ASSUME EpochAssumption ==
    /\ EpochDuration \in Nat \ {0}
    /\ BlockGaps \subseteq Nat \ {0}
    /\ MaxLag \in Nat /\ MaxLag >= EpochDuration
    /\ EpochCycle \in Nat \ {0}
    /\ \A q \in Quotas : q.durationHours # 0 => EpochCycle % q.durationHours = 0

ASSUME RestartAssumption == Restarts \in BOOLEAN

VARIABLES
    rateLimits,     \* [SUBSET Path -> RateLimit]
    pending,        \* SUBSET PacketID: sequences whose outflow can be undone
    epochInfo,      \* [started, current, since]: the one epoch of the module
    tokenInfos,     \* x/transfermiddleware: the registered infos
    supply,         \* x/bank: supply of each denom
    commitments,    \* IBC channels: packets sent, neither acked nor timed out
    nextSequence,   \* IBC channels: next sequence of each channel
    live,           \* history: packets counted by the current window
    netSent         \* history: value the current window of a path let out

store   == <<rateLimits, pending>>
history == <<live, netSent>>
channels == <<commitments, nextSequence>>
vars == <<rateLimits, pending, epochInfo, tokenInfos, supply, commitments,
          nextSequence, live, netSent>>

PathOf(packet) == [denom |-> packet.denom, channel |-> packet.channel]

IDOf(packet) == [channel |-> packet.channel, sequence |-> packet.sequence]

-----------------------------------------------------------------------------
(* The store.                                                              *)

(* GetRateLimit's second result. *)
Found(path) == path \in DOMAIN rateLimits

SetRateLimit(path, limit) ==
    rateLimits' = [p \in DOMAIN rateLimits \cup {path} |->
                     IF p = path THEN limit ELSE rateLimits[p]]

(* GetChannelValue: the bank's total supply of the denom. *)
GetChannelValue(denom) == supply[denom]

(* The denom an administrative call works on: the IBC denom when the denom *)
(* is registered as the native side of a token of that very channel.       *)
ResolveDenom(denom, channel) ==
    IF \E info \in tokenInfos : info.nativeDenom = denom /\ info.channel = channel
    THEN (CHOOSE info \in tokenInfos : info.nativeDenom = denom).ibcDenom
    ELSE denom

Resolve(path) == [path EXCEPT !.denom = ResolveDenom(path.denom, path.channel)]

(* The reset leaves the pending packets alone. *)
MutKeepPending(paths) == pending

(* RemoveAllChannelPendingSendPackets, for the channels of some paths.  The *)
(* iterator's prefix is the bare text of the channel ID, so it also meets  *)
(* the keys of every channel whose ID starts with that text.               *)
PendingWithout(paths) ==
    {id \in pending : \A p \in paths : <<p.channel, id.channel>> \notin IDPrefix}

-----------------------------------------------------------------------------
(* History: a window of each of the paths ends (and a new one may start).  *)
EndWindows(paths) ==
    /\ live' = {packet \in live : PathOf(packet) \notin paths}
    /\ netSent' = [p \in Path |-> IF p \in paths THEN 0 ELSE netSent[p]]

-----------------------------------------------------------------------------
(* Packets.                                                                *)

IsAddressPairWhitelisted(pair) == pair \in Whitelist

(* CheckRateLimitAndUpdateFlow: first whether the flow is to be updated at *)
(* all, then the error of UpdateFlow.                                      *)
Limited(path, pair) == Found(path) /\ ~ IsAddressPairWhitelisted(pair)

(* The transfer is charged without looking at the quota. *)
MutUnchecked(direction, path, amount) ==
    SetRateLimit(path, AddFlow(direction, rateLimits[path], amount))

UpdateFlow(direction, path, amount) ==
    /\ ~ OverQuota(direction, rateLimits[path], amount)
    /\ SetRateLimit(path, AddFlow(direction, rateLimits[path], amount))

(* Every packet sent becomes pending, counted or not. *)
MutAlwaysPending(packet, updatedFlow) == pending' = pending \cup {IDOf(packet)}

(* The sequence of a packet is stored when its outflow was counted. *)
SetPendingSendPacket(packet, updatedFlow) ==
    pending' = IF updatedFlow THEN pending \cup {IDOf(packet)} ELSE pending

(* History: the window of the packet's path has counted it. *)
Count(packet) ==
    /\ live' = live \cup {packet}
    /\ netSent' = [netSent EXCEPT ![PathOf(packet)] = @ + packet.amount]

(* SendPacket: the packet first goes up the stack, to the channel keeper,  *)
(* for its sequence number; a quota error then aborts the transaction.     *)
(* x/transfermiddleware has replaced a registered native denom by its IBC  *)
(* denom before the packet comes here.                                     *)
SendPacket(path, amount, pair) ==
    LET limited == Limited(path, pair)
        packet  == [channel |-> path.channel, sequence |-> nextSequence[path.channel],
                    denom |-> path.denom, amount |-> amount, counted |-> limited]
    IN  /\ Resolve(path) = path
        /\ nextSequence[path.channel] <= MaxSequence
        /\ nextSequence' = [nextSequence EXCEPT ![path.channel] = @ + 1]
        /\ commitments' = commitments \cup {packet}
        /\ \/ limited /\ UpdateFlow("PACKET_SEND", path, amount) /\ Count(packet)
           \/ ~ limited /\ UNCHANGED <<rateLimits, history>>
        /\ SetPendingSendPacket(packet, limited)
        /\ UNCHANGED <<epochInfo, tokenInfos, supply>>

(* OnRecvPacket, when the transfer application below accepts the packet.   *)
(* Otherwise the acknowledgement is an error and core IBC drops what the   *)
(* callback wrote.                                                         *)
RecvPacket(path, amount, pair) ==
    /\ Limited(path, pair)
    /\ rateLimits[path].flow.inflow + amount <= MaxInflow
    /\ UpdateFlow("PACKET_RECV", path, amount)
    /\ UNCHANGED <<pending, epochInfo, tokenInfos, supply, channels, history>>

(* The outflow is taken back without asking whether the packet is pending. *)
MutUndoUnconditionally(packet) ==
    LET path == PathOf(packet)
    IN  IF Found(path)
        THEN /\ rateLimits' = [rateLimits EXCEPT ![path].flow.outflow = @ - packet.amount]
             /\ pending' = pending \ {IDOf(packet)}
        ELSE UNCHANGED store

UndoSendPacket(packet) ==
    LET path == PathOf(packet)
    IN  IF Found(path) /\ IDOf(packet) \in pending
        THEN /\ rateLimits' = [rateLimits EXCEPT ![path].flow.outflow = @ - packet.amount]
             /\ pending' = pending \ {IDOf(packet)}
        ELSE UNCHANGED store

(* History: the packet is settled; when it failed its value has come back. *)
Settle(packet, failed) ==
    /\ live' = live \ {packet}
    /\ netSent' = IF failed /\ packet \in live
                  THEN [netSent EXCEPT ![PathOf(packet)] = @ - packet.amount]
                  ELSE netSent

(* AcknowledgeRateLimitedPacket, a result. *)
AckSuccess(packet) ==
    /\ pending' = pending \ {IDOf(packet)}
    /\ commitments' = commitments \ {packet}
    /\ Settle(packet, FALSE)
    /\ UNCHANGED <<rateLimits, epochInfo, tokenInfos, supply, nextSequence>>

(* AcknowledgeRateLimitedPacket, an error, and TimeoutRateLimitedPacket:   *)
(* both are UndoSendPacket.                                                *)
SendFailed(packet) ==
    /\ UndoSendPacket(packet)
    /\ commitments' = commitments \ {packet}
    /\ Settle(packet, TRUE)
    /\ UNCHANGED <<epochInfo, tokenInfos, supply, nextSequence>>

AckError(packet) == SendFailed(packet)

TimeoutPacket(packet) == SendFailed(packet)

-----------------------------------------------------------------------------
(* Messages of the module's authority.                                     *)

AddRateLimit(path, quota, minAmount) ==
    LET target == Resolve(path)
    IN  /\ "add" \in MsgTypes
        /\ ValidateBasic(quota, minAmount)
        /\ GetChannelValue(target.denom) # 0
        /\ ~ Found(target)
        /\ SetRateLimit(target, [quota |-> quota, minAmount |-> minAmount,
                                 flow |-> NewFlow(GetChannelValue(target.denom))])
        /\ EndWindows({target})
        /\ UNCHANGED <<pending, epochInfo, tokenInfos, supply, channels>>

(* The flow restarts at zero; the pending packets stay. *)
UpdateRateLimit(path, quota, minAmount) ==
    LET target == Resolve(path)
    IN  /\ "update" \in MsgTypes
        /\ ValidateBasic(quota, minAmount)
        /\ Found(target)
        /\ SetRateLimit(target, [quota |-> quota, minAmount |-> minAmount,
                                 flow |-> NewFlow(GetChannelValue(target.denom))])
        /\ EndWindows({target})
        /\ UNCHANGED <<pending, epochInfo, tokenInfos, supply, channels>>

(* Deletes the limit; the pending packets stay. *)
RemoveRateLimit(path) ==
    LET target == Resolve(path)
    IN  /\ "remove" \in MsgTypes
        /\ Found(target)
        /\ rateLimits' = [p \in DOMAIN rateLimits \ {target} |-> rateLimits[p]]
        /\ EndWindows({target})
        /\ UNCHANGED <<pending, epochInfo, tokenInfos, supply, channels>>

(* ResetRateLimit for a set of paths that are all found. *)
ResetRateLimits(paths) ==
    /\ rateLimits' = [p \in DOMAIN rateLimits |->
                        IF p \in paths
                        THEN [rateLimits[p] EXCEPT !.flow = NewFlow(GetChannelValue(p.denom))]
                        ELSE rateLimits[p]]
    /\ pending' = PendingWithout(paths)
    /\ EndWindows(paths)

ResetRateLimit(path) ==
    /\ "reset" \in MsgTypes
    /\ Found(Resolve(path))
    /\ ResetRateLimits({Resolve(path)})
    /\ UNCHANGED <<epochInfo, tokenInfos, supply, channels>>

-----------------------------------------------------------------------------
(* Blocks and epochs.                                                      *)

(* The limits whose own duration divides the number of the epoch. *)
Due(epoch) == {p \in DOMAIN rateLimits : epoch % rateLimits[p].quota.durationHours = 0}

(* The end of an epoch resets nothing. *)
MutNeverReset(epoch) == UNCHANGED <<store, history>>

(* AfterEpochEnd: every due limit is handed to ResetRateLimit, which looks *)
(* the denom up again; a limit that is not found then is only logged.  The *)
(* resets are independent of each other, so the loop is one step.          *)
AfterEpochEnd(epoch) ==
    ResetRateLimits({Resolve(p) : p \in Due(epoch)} \cap DOMAIN rateLimits)

NextEpoch(epoch) == IF epoch = EpochCycle THEN 1 ELSE epoch + 1

(* NewGenesisEpochInfo, as AddEpochInfo stores it: StartTime is the time   *)
(* of the first block.                                                     *)
GenesisEpoch == [started |-> FALSE, current |-> 0, since |-> 0]

(* BeginBlocker.  since is the block time less CurrentEpochStartTime (less *)
(* StartTime until counting starts).  At most one epoch ends per block.    *)
BeginBlocker(gap) ==
    LET since == epochInfo.since + gap
        ends  == epochInfo.started /\ since > EpochDuration
        lag   == IF ends THEN since - EpochDuration ELSE since
    IN  /\ lag <= MaxLag
        /\ IF ends THEN AfterEpochEnd(epochInfo.current)
                   ELSE UNCHANGED <<store, history>>
        /\ epochInfo' = [started |-> TRUE,
                         current |-> IF ends THEN NextEpoch(epochInfo.current)
                                     ELSE IF epochInfo.started THEN epochInfo.current
                                     ELSE 1,
                         since |-> lag]
        /\ UNCHANGED <<tokenInfos, supply, channels>>

(* The export of a pending packet is read back with sequence zero. *)
MutExportSequenceLost ==
    /\ Restarts
    /\ epochInfo' = GenesisEpoch
    /\ pending' = {[id EXCEPT !.sequence = 0] : id \in pending}
    /\ UNCHANGED <<rateLimits, tokenInfos, supply, channels, history>>

(* The chain is stopped, exported and started again.  ExportGenesis copies *)
(* the limits with their flows, the whitelist and the pending packets,     *)
(* whose texts InitGenesis parses back; the epoch it leaves at that of the *)
(* default genesis, so that counting starts anew.                          *)
Restart ==
    /\ Restarts
    /\ epochInfo' = GenesisEpoch
    /\ UNCHANGED <<store, tokenInfos, supply, channels, history>>

-----------------------------------------------------------------------------
(* The neighbours.                                                         *)

(* x/transfermiddleware registers and removes a parachain token; none of   *)
(* the keys of a new one may be taken.                                     *)
AddParachainIBCInfo(info) ==
    /\ \A other \in tokenInfos : /\ other.assetID # info.assetID
                                 /\ other.nativeDenom # info.nativeDenom
                                 /\ other.ibcDenom # info.ibcDenom
    /\ tokenInfos' = tokenInfos \cup {info}
    /\ UNCHANGED <<store, epochInfo, supply, channels, history>>

RemoveParachainIBCInfo(info) ==
    /\ tokenInfos' = tokenInfos \ {info}
    /\ UNCHANGED <<store, epochInfo, supply, channels, history>>

(* The bank mints or burns. *)
SupplyChanges(denom, amount) ==
    /\ supply' = [supply EXCEPT ![denom] = amount]
    /\ UNCHANGED <<store, epochInfo, tokenInfos, channels, history>>

-----------------------------------------------------------------------------
(* InitGenesis of the default genesis: no limits, nothing pending, the     *)
(* epoch not started; transfers may have been sent before.                 *)
Init ==
    /\ rateLimits = [p \in {} |-> p]
    /\ pending = {}
    /\ epochInfo = GenesisEpoch
    /\ tokenInfos = {}
    /\ supply \in [Denom -> Supplies]
    /\ commitments = {}
    /\ nextSequence = [c \in Channel |-> 1]
    /\ live = {}
    /\ netSent = [p \in Path |-> 0]

PacketStep ==
    \/ \E path \in Path, amount \in Amount, pair \in Pairs :
          SendPacket(path, amount, pair) \/ RecvPacket(path, amount, pair)
    \/ \E packet \in commitments :
          AckSuccess(packet) \/ AckError(packet) \/ TimeoutPacket(packet)

MsgStep ==
    \/ \E path \in Path, quota \in Quotas, minAmount \in MinAmounts :
          AddRateLimit(path, quota, minAmount) \/ UpdateRateLimit(path, quota, minAmount)
    \/ \E path \in Path : RemoveRateLimit(path) \/ ResetRateLimit(path)

BlockStep == \E gap \in BlockGaps : BeginBlocker(gap)

NeighbourStep ==
    \/ \E info \in TokenInfos \ tokenInfos : AddParachainIBCInfo(info)
    \/ \E info \in tokenInfos : RemoveParachainIBCInfo(info)
    \/ \E denom \in Denom, amount \in Supplies : SupplyChanges(denom, amount)

Next == PacketStep \/ MsgStep \/ BlockStep \/ NeighbourStep \/ Restart

Spec == Init /\ [][Next]_vars

(* Consensus keeps producing blocks, and every block runs BeginBlocker.    *)
FairSpec == Spec /\ WF_vars(BlockStep)

-----------------------------------------------------------------------------
(* Properties.                                                             *)

TypeOK ==
    /\ DOMAIN rateLimits \subseteq Path
    /\ rateLimits \in [DOMAIN rateLimits -> RateLimit]
    /\ pending \subseteq PacketID
    /\ epochInfo \in [started : BOOLEAN, current : 0..EpochCycle, since : 0..MaxLag]
    /\ tokenInfos \subseteq TokenInfos
    /\ supply \in [Denom -> Supplies]
    /\ commitments \subseteq Packet
    /\ nextSequence \in [Channel -> 1..(MaxSequence + 1)]
    /\ live \subseteq Packet
    /\ netSent \in [Path -> Int]

(* What the store shows never overruns the send quota: in every window the *)
(* outflow less the inflow is within the threshold of the channel value of *)
(* that window, whatever acks, timeouts, resets and messages interleave    *)
(* (CheckRateLimitAndUpdateFlow, UndoSendPacket, ResetRateLimit).          *)
NetOutflowWithinQuota ==
    \A p \in DOMAIN rateLimits :
        ~ CheckExceedsQuota("PACKET_SEND", rateLimits[p], NetOutflow(rateLimits[p]))

(* A packet that no limit counted when it was sent (no limit yet, or a     *)
(* whitelisted pair) can never be undone, even when a limit appears before *)
(* its ack or timeout (SendRateLimitedPacket, "if updatedFlow").           *)
UncountedNeverCredited ==
    \A packet \in commitments : IDOf(packet) \in pending => packet.counted

(* A pending entry means what CheckPacketSentDuringCurrentQuota says it    *)
(* means: the packet was counted by the current window of its limit.       *)
PendingSentDuringCurrentQuota ==
    \A id \in pending : \E packet \in live : IDOf(packet) = id

(* What the current window has really let out, less what it let in, is     *)
(* within the threshold: no ack, timeout or reset makes room that is not   *)
(* there (UndoSendPacket against AddOutflow).                              *)
WindowWithinQuota ==
    \A p \in DOMAIN rateLimits :
        ~ CheckExceedsQuota("PACKET_SEND", rateLimits[p],
                            netSent[p] - rateLimits[p].flow.inflow)

(* Every packet in flight that the current window has counted can still be *)
(* undone when it fails (UndoSendPacket finds it pending).                 *)
CountedCanBeUndone == \A packet \in live : IDOf(packet) \in pending

(* Every window ends, unless the chain is restarted again and again: the   *)
(* flow of every limit comes back to zero, or the limit is gone, although  *)
(* a restart forgets how far the epoch was (BeginBlocker, AfterEpochEnd,   *)
(* ExportGenesis).                                                         *)
WindowsEnd ==
    <>[][~ Restart]_vars =>
    \A p \in Path : []<>(p \in DOMAIN rateLimits =>
                            /\ rateLimits[p].flow.inflow = 0
                            /\ rateLimits[p].flow.outflow = 0)
=============================================================================
