------------------------- MODULE TransferMiddleware -------------------------
(***************************************************************************)
(* x/transfermiddleware around the ICS-20 transfer application: a token    *)
(* that arrives from the parachain is locked in the escrow account of its  *)
(* channel and minted as a native token; a native token that leaves is     *)
(* burned and the locked IBC token is sent home in its place; a packet     *)
(* that fails is refunded and converted again.                             *)
(*                                                                         *)
(* The transfer application, the bank, core IBC and the counterparties are *)
(* outside this repository.  They are modelled from how the middleware     *)
(* uses them: bank holds balances and supplies, packets what was sent and  *)
(* not yet settled, remote what each counterparty holds of a denom.        *)
(***************************************************************************)
EXTENDS TokenRegistry, Sums

CONSTANTS
    User,           \* accounts of users
    Amount,         \* amounts of a transfer
    GenesisSupply,  \* native tokens of each denom at genesis, held by the users
    RemoteSupply,   \* what the counterparty of a channel holds of each IBC denom
    MaxPackets      \* bound: packets sent

Denom == Native \cup IbcDenom

(* The escrow account of a channel is written as the channel itself. *)
Account == User \cup Channel

ASSUME AccountAssumption == User \cap Channel = {} /\ Native \cap IbcDenom = {}

(* Addresses, denoms and channel names are strings of bounded length. *)
ASSUME FiniteAssumption ==
    /\ IsFiniteSet(User) /\ IsFiniteSet(Channel)
    /\ IsFiniteSet(Native) /\ IsFiniteSet(Asset)

(* The authority registers an asset with the IBC denom it really has. *)
ASSUME PairingAssumption ==
    \A info \in Infos : info.ibcDenom = <<info.channel, info.assetID>>

(* What the users hold of a native denom at genesis. *)
AtGenesis(n) == Total([u \in User |-> GenesisSupply[u][n]])

ASSUME AmountAssumption ==
    /\ Amount \subseteq Nat \ {0}
    /\ GenesisSupply \in [User -> [Native -> Nat]]
    /\ RemoteSupply \in [IbcDenom -> Nat]
    /\ MaxPackets \in Nat

VARIABLES
    bank,           \* [balance : [Account -> [Denom -> Nat]], supply : [Denom -> Nat]]
    packets,        \* packets sent and not yet acknowledged or timed out
    sequence,       \* next sequence
    remote          \* [Channel -> [Denom -> Nat]]: held by the counterparty

transferVars == <<bank, packets, sequence, remote>>
vars == <<registryVars, transferVars>>

Packet == [sequence : Nat, channel : Channel, denom : Denom, amount : Amount,
           sender : User, status : {"sent", "received", "refused"}]

-----------------------------------------------------------------------------
(* x/bank. *)

CanPay(b, from, denom, n) == b.balance[from][denom] >= n

(* Credit an account, or debit it by a negative amount. *)
Credit(balance, acc, denom, n) == [balance EXCEPT ![acc][denom] = @ + n]

SendCoins(b, from, to, denom, n) ==
    [balance |-> Credit(Credit(b.balance, from, denom, -n), to, denom, n),
     supply  |-> b.supply]

MintCoins(b, to, denom, n) ==
    [balance |-> Credit(b.balance, to, denom, n),
     supply  |-> [b.supply EXCEPT ![denom] = @ + n]]

BurnCoins(b, from, denom, n) ==
    [balance |-> Credit(b.balance, from, denom, -n),
     supply  |-> [b.supply EXCEPT ![denom] = @ - n]]

(* The denom is a voucher of what came through the channel: this chain is  *)
(* not the source of it on that channel (SenderChainIsSource and           *)
(* ReceiverChainIsSource are its negation).                                *)
IsVoucher(denom, channel) == denom \in IbcDenom /\ denom[1] = channel

(* The transfer application: what a send takes, what a receive gives, what *)
(* a refund gives back.                                                    *)
Take(b, sender, channel, denom, n) ==
    IF IsVoucher(denom, channel) THEN BurnCoins(b, sender, denom, n)
                                 ELSE SendCoins(b, sender, channel, denom, n)

Give(b, receiver, channel, denom, n) ==
    IF IsVoucher(denom, channel) THEN MintCoins(b, receiver, denom, n)
                                 ELSE SendCoins(b, channel, receiver, denom, n)

-----------------------------------------------------------------------------
(* The middleware's conversions.                                           *)

(* Native tokens are minted, the voucher is not locked. *)
MutConvertUnlocked(b, holder, info, n) == MintCoins(b, holder, info.nativeDenom, n)

(* A voucher in the hands of the holder is locked, native tokens are       *)
(* minted to the holder.                                                   *)
Convert(b, holder, info, n) ==
    MintCoins(SendCoins(b, holder, info.channel, info.ibcDenom, n),
              holder, info.nativeDenom, n)

(* The channel of the token is not looked at. *)
MutOverrideAnyChannel(denom, channel) == HasInfo(denom) /\ channel \in Channel

(* SendPacket's condition: the denom is the native side of a token of this *)
(* very channel.                                                           *)
Overrides(denom, channel) ==
    HasInfo(denom) /\ infoByNative[denom].channel = channel

(* The native tokens stay in the escrow account. *)
MutOverrideSendUnburned(b, sender, channel, denom, n) ==
    LET ibcDenom == infoByNative[denom].ibcDenom
    IN  Take(SendCoins(b, channel, sender, ibcDenom, n), sender, channel, ibcDenom, n)

(* handleOverrideSendPacketTransferLogic, after the transfer application   *)
(* escrowed the native tokens: these are burned, the IBC tokens released   *)
(* to the sender, and sent by a transfer of their own.                     *)
OverrideSend(b, sender, channel, denom, n) ==
    LET ibcDenom == infoByNative[denom].ibcDenom
        burned   == BurnCoins(b, channel, denom, n)
        released == SendCoins(burned, channel, sender, ibcDenom, n)
    IN  Take(released, sender, channel, ibcDenom, n)

(* OnRecvPacket's conditions: the voucher's secondary index and the asset  *)
(* name the same native denom, and the channel is the token's.             *)
ConvertsOnRecv(denom, channel) ==
    /\ IsVoucher(denom, channel)
    /\ denom[2] \in DOMAIN infoByAsset
    /\ denom \in DOMAIN nativeByIbc
    /\ nativeByIbc[denom] = infoByAsset[denom[2]].nativeDenom
    /\ infoByAsset[denom[2]].channel = channel

(* refundToken's conditions. *)
ConvertsOnRefund(denom, channel) ==
    /\ IsVoucher(denom, channel)
    /\ denom \in DOMAIN nativeByIbc
    /\ HasInfo(nativeByIbc[denom])
    /\ infoByNative[nativeByIbc[denom]].channel = channel

OnRecv(b, receiver, channel, denom, n) ==
    LET given == Give(b, receiver, channel, denom, n)
    IN  IF ConvertsOnRecv(denom, channel)
        THEN Convert(given, receiver, infoByAsset[denom[2]], n)
        ELSE given

(* The conversion comes without the refund of the transfer application. *)
MutConvertOnly(b, sender, channel, denom, n) ==
    IF ConvertsOnRefund(denom, channel)
    THEN Convert(b, sender, infoByNative[nativeByIbc[denom]], n)
    ELSE Give(b, sender, channel, denom, n)

(* OnAcknowledgementPacket with an error, and OnTimeoutPacket: first the   *)
(* transfer application's refund, then refundToken.                        *)
Refund(b, sender, channel, denom, n) ==
    LET given == Give(b, sender, channel, denom, n)
    IN  IF ConvertsOnRefund(denom, channel)
        THEN Convert(given, sender, infoByNative[nativeByIbc[denom]], n)
        ELSE given

-----------------------------------------------------------------------------
(* Actions.                                                                *)

(* A user's MsgTransfer: the transfer application, then SendPacket.  An    *)
(* error (the escrow account cannot release the IBC tokens) aborts the     *)
(* transaction.                                                            *)
SendPacket(sender, channel, denom, n) ==
    LET override == Overrides(denom, channel)
        taken    == Take(bank, sender, channel, denom, n)
        sent     == IF override THEN infoByNative[denom].ibcDenom ELSE denom
    IN  /\ sequence <= MaxPackets
        /\ CanPay(bank, sender, denom, n)
        /\ override => CanPay(taken, channel, sent, n)
        /\ bank' = IF override THEN OverrideSend(taken, sender, channel, denom, n) ELSE taken
        /\ packets' = packets \cup {[sequence |-> sequence, channel |-> channel,
                                     denom |-> sent, amount |-> n, sender |-> sender,
                                     status |-> "sent"]}
        /\ sequence' = sequence + 1
        /\ UNCHANGED <<registryVars, remote>>

(* A packet of the counterparty arrives.  A token this chain escrowed can  *)
(* only come back when the counterparty holds it.                          *)
RecvPacket(receiver, channel, denom, n) ==
    /\ remote[channel][denom] >= n
    /\ remote' = [remote EXCEPT ![channel][denom] = @ - n]
    /\ bank' = OnRecv(bank, receiver, channel, denom, n)
    /\ UNCHANGED <<registryVars, packets, sequence>>

(* The counterparty takes the packet, or writes an error acknowledgement. *)
RemoteRecv(packet) ==
    /\ packet.status = "sent"
    /\ packets' = (packets \ {packet}) \cup {[packet EXCEPT !.status = "received"]}
    /\ remote' = [remote EXCEPT ![packet.channel][packet.denom] = @ + packet.amount]
    /\ UNCHANGED <<registryVars, bank, sequence>>

RemoteRefuse(packet) ==
    /\ packet.status = "sent"
    /\ packets' = (packets \ {packet}) \cup {[packet EXCEPT !.status = "refused"]}
    /\ UNCHANGED <<registryVars, bank, sequence, remote>>

(* OnAcknowledgementPacket with a result: nothing is to be done. *)
AckSuccess(packet) ==
    /\ packet.status = "received"
    /\ packets' = packets \ {packet}
    /\ UNCHANGED <<registryVars, bank, sequence, remote>>

(* OnAcknowledgementPacket with an error; OnTimeoutPacket. *)
AckError(packet) ==
    /\ packet.status = "refused"
    /\ bank' = Refund(bank, packet.sender, packet.channel, packet.denom, packet.amount)
    /\ packets' = packets \ {packet}
    /\ UNCHANGED <<registryVars, sequence, remote>>

TimeoutPacket(packet) ==
    /\ packet.status = "sent"
    /\ bank' = Refund(bank, packet.sender, packet.channel, packet.denom, packet.amount)
    /\ packets' = packets \ {packet}
    /\ UNCHANGED <<registryVars, sequence, remote>>

-----------------------------------------------------------------------------
Init ==
    /\ RegistryInit
    /\ bank = [balance |-> [acc \in Account |-> [d \in Denom |->
                              IF acc \in User /\ d \in Native THEN GenesisSupply[acc][d] ELSE 0]],
               supply  |-> [d \in Denom |-> IF d \in Native THEN AtGenesis(d) ELSE 0]]
    /\ packets = {}
    /\ sequence = 1
    /\ remote = [c \in Channel |-> [d \in Denom |->
                    IF IsVoucher(d, c) THEN RemoteSupply[d] ELSE 0]]

TransferStep ==
    \E user \in User, channel \in Channel, denom \in Denom, n \in Amount :
        SendPacket(user, channel, denom, n) \/ RecvPacket(user, channel, denom, n)

SettleStep ==
    \E packet \in packets :
        \/ RemoteRecv(packet) \/ RemoteRefuse(packet)
        \/ AckSuccess(packet) \/ AckError(packet) \/ TimeoutPacket(packet)

RegistryStep == RegistryNext /\ UNCHANGED transferVars

Next == TransferStep \/ SettleStep \/ RegistryStep

Spec == Init /\ [][Next]_vars

-----------------------------------------------------------------------------
(* Properties.                                                             *)

TypeOK ==
    /\ RegistryTypeOK
    /\ bank \in [balance : [Account -> [Denom -> Nat]], supply : [Denom -> Nat]]
    /\ packets \subseteq Packet
    /\ sequence \in 1..(MaxPackets + 1)
    /\ remote \in [Channel -> [Denom -> Nat]]

(* The vouchers locked in the escrow account of their own channel: nothing *)
(* but the middleware puts them there.                                     *)
Locked == Total([d \in IbcDenom |-> bank.balance[d[1]][d]])

NativeSupply == Total([n \in Native |-> bank.supply[n]])

NativeAtGenesis == Total([n \in Native |-> AtGenesis(n)])

(* Every native token beyond those of genesis is backed by a locked IBC    *)
(* token, and every locked one by a native token, whatever registrations,  *)
(* removals, acks and timeouts fall between the send and the settlement of *)
(* a packet (handleOverrideSendPacketTransferLogic, OnRecvPacket,          *)
(* refundToken).                                                           *)
NativeBacked == NativeSupply = NativeAtGenesis + Locked

(* The same step by step, and denom by denom: the middleware implements    *)
(* the peg.  A pair is pegged while it is registered; what is locked of an *)
(* IBC denom is what the escrow account of its channel holds.  Every step  *)
(* that mints or burns a native token locks or releases as much of the     *)
(* very IBC denom the registry pairs with it at that moment.               *)
P == INSTANCE Peg WITH
        Ibc    <- IbcDenom,
        peg    <- {<<n, infoByNative[n].ibcDenom>> : n \in DOMAIN infoByNative},
        supply <- [n \in Native |-> bank.supply[n]],
        locked <- [d \in IbcDenom |-> bank.balance[d[1]][d]]

ImplementsPeg == P!Spec

(* What is on its way to the counterparty, and not there. *)
InTransit(channel, denom) ==
    Total([p \in {p \in packets : p.channel = channel /\ p.denom = denom
                                   /\ p.status # "received"} |-> p.amount])

(* The escrow account of a channel holds, of what is not a voucher of that *)
(* channel, exactly what the counterparty holds and what is on its way:    *)
(* whatever comes back or is refunded can be paid, and an overridden send  *)
(* leaves nothing behind (handleOverrideSendPacketTransferLogic).          *)
EscrowBacked ==
    \A c \in Channel, d \in Denom : \/ IsVoucher(d, c)
                                   \/ bank.balance[c][d] = InTransit(c, d) + remote[c][d]

(* "After the bridge launch ... the total supply will remain the same":    *)
(* what circulates here, as native token or as voucher, what is on its way *)
(* and what the parachain holds never changes in sum.                      *)
SharedSupply ==
    (NativeSupply - Locked)
      + Total([d \in IbcDenom |-> bank.supply[d] + InTransit(d[1], d) + remote[d[1]][d]])
    = NativeAtGenesis + Total(RemoteSupply)
=============================================================================
