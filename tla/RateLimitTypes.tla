--------------------------- MODULE RateLimitTypes ---------------------------
(***************************************************************************)
(* The arithmetic of a rate limit (x/ratelimit/types): which quotas a      *)
(* message may carry, the threshold a quota stands for, and how a transfer *)
(* is added to the flow of the current window.                             *)
(*                                                                         *)
(* A limit is a record                                                     *)
(*   [quota |-> [maxPercentSend, maxPercentRecv, durationHours],           *)
(*    minAmount |-> ..., flow |-> [inflow, outflow, channelValue]].        *)
(* math.Int is an arbitrary-precision integer, so no width is modelled.    *)
(***************************************************************************)
EXTENDS Integers

Direction == {"PACKET_SEND", "PACKET_RECV"}

(* A quota as a message carries it, and as the store holds it. *)
RawQuota == [maxPercentSend : Int, maxPercentRecv : Int, durationHours : Nat]

Quota == [maxPercentSend : 0..100, maxPercentRecv : 0..100, durationHours : Nat \ {0}]

Flow == [inflow : Int, outflow : Int, channelValue : Nat]

RateLimit == [quota : Quota, minAmount : Nat \ {0}, flow : Flow]

(* Every quota is accepted, whatever its numbers. *)
MutAcceptAnyQuota(quota, minAmount) == TRUE

(* MsgAddRateLimit.ValidateBasic and MsgUpdateRateLimit.ValidateBasic: the  *)
(* two are the same checks.                                                *)
ValidateBasic(quota, minAmount) ==
    /\ quota.maxPercentSend \in 0..100
    /\ quota.maxPercentRecv \in 0..100
    /\ ~ (quota.maxPercentSend = 0 /\ quota.maxPercentRecv = 0)
    /\ minAmount > 0
    /\ quota.durationHours # 0

Percent(direction, quota) ==
    IF direction = "PACKET_RECV" THEN quota.maxPercentRecv
                                 ELSE quota.maxPercentSend

(* The share of the channel value, rounded down, but never less than the   *)
(* limit's minimum amount.                                                 *)
Threshold(direction, limit) ==
    LET share == (limit.flow.channelValue * Percent(direction, limit.quota)) \div 100
    IN  IF limit.minAmount > share THEN limit.minAmount ELSE share

(* A channel without value is never limited. *)
CheckExceedsQuota(direction, limit, amount) ==
    /\ limit.flow.channelValue # 0
    /\ amount > Threshold(direction, limit)

NetOutflow(limit) == limit.flow.outflow - limit.flow.inflow

NetInflow(limit) == limit.flow.inflow - limit.flow.outflow

(* Flow.AddOutflow and Flow.AddInflow: the error is OverQuota, the new     *)
(* flow is AddFlow.                                                        *)
OverQuota(direction, limit, amount) ==
    CheckExceedsQuota(direction, limit,
        (IF direction = "PACKET_SEND" THEN NetOutflow(limit) ELSE NetInflow(limit)) + amount)

AddFlow(direction, limit, amount) ==
    IF direction = "PACKET_SEND"
    THEN [limit EXCEPT !.flow.outflow = @ + amount]
    ELSE [limit EXCEPT !.flow.inflow = @ + amount]

(* Flow of a window that has just started. *)
NewFlow(channelValue) ==
    [inflow |-> 0, outflow |-> 0, channelValue |-> channelValue]
=============================================================================
