---------------------------- MODULE MCRateLimit ----------------------------
(* Instances of RateLimit for TLC. *)
EXTENDS RateLimit, TLC

CONSTANTS pica, ppica, c1, c10, c2

(* "channel-1" is a prefix of "channel-10", not of "channel-2". *)
MCIDPrefix == {<<c, c>> : c \in Channel} \cup ({<<c1, c10>>} \cap (Channel \X Channel))

(* Half of the value may leave, all of it may come in, every epoch; only a *)
(* quarter may come in, every second epoch; and one that is refused.       *)
HalfPerEpoch == [maxPercentSend |-> 50, maxPercentRecv |-> 100, durationHours |-> 1]
QuarterPerTwo == [maxPercentSend |-> 75, maxPercentRecv |-> 25, durationHours |-> 2]
NoDuration == [maxPercentSend |-> 50, maxPercentRecv |-> 50, durationHours |-> 0]

SomeQuotas == {HalfPerEpoch, NoDuration}
OneQuota == {HalfPerEpoch}
TwoQuotas == {HalfPerEpoch, QuarterPerTwo}

NoInfos == {}
PicaInfo == {[nativeDenom |-> pica, ibcDenom |-> ppica, channel |-> c1, assetID |-> "1"]}
=============================================================================
