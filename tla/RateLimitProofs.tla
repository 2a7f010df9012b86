-------------------------- MODULE RateLimitProofs --------------------------
(***************************************************************************)
(* Theorems about RateLimit, for every value of its constants.             *)
(*                                                                         *)
(* First the operators the actions are built from, then type correctness,  *)
(* then the quota of the store, then the history of the packets, which the *)
(* last theorem needs: what a window really lets out.                      *)
(***************************************************************************)
EXTENDS RateLimit, TLAPS

-----------------------------------------------------------------------------
(* Operators.                                                              *)

LEMMA ResolveType ==
    ASSUME TypeOK, NEW path \in Path
    PROVE  /\ Resolve(path) \in Path
           /\ Resolve(path).channel = path.channel
<1>1. \A info \in tokenInfos : info.ibcDenom \in Denom
  BY TokenInfoAssumption DEF TypeOK, TokenInfo
<1>2. ResolveDenom(path.denom, path.channel) \in Denom
  BY <1>1 DEF ResolveDenom, Path
<1> QED  BY <1>2 DEF Resolve, Path

LEMMA AddFlowType ==
    ASSUME NEW limit \in RateLimit, NEW amount \in Nat, NEW direction
    PROVE  AddFlow(direction, limit, amount) \in RateLimit
BY DEF AddFlow, RateLimit, Flow

LEMMA NewFlowType ==
    ASSUME NEW value \in Nat
    PROVE  /\ NewFlow(value) \in Flow
           /\ NewFlow(value).inflow = 0
           /\ NewFlow(value).outflow = 0
BY DEF NewFlow, Flow

LEMMA ValidQuotaType ==
    ASSUME NEW quota \in Quotas, NEW minAmount \in MinAmounts,
           ValidateBasic(quota, minAmount)
    PROVE  quota \in Quota /\ minAmount \in Nat \ {0}
BY NumberAssumption DEF ValidateBasic, Quota, RawQuota

(* A limit that a message has just made. *)
LEMMA NewLimitType ==
    ASSUME TypeOK, NEW denom \in Denom, NEW quota \in Quotas, NEW minAmount \in MinAmounts,
           ValidateBasic(quota, minAmount),
           NEW limit,
           limit = [quota |-> quota, minAmount |-> minAmount,
                    flow |-> NewFlow(GetChannelValue(denom))]
    PROVE  /\ limit \in RateLimit
           /\ limit.flow.inflow = 0
           /\ limit.flow.outflow = 0
<1>1. GetChannelValue(denom) \in Nat
  BY NumberAssumption DEF TypeOK, GetChannelValue
<1> QED  BY <1>1, NewFlowType, ValidQuotaType DEF RateLimit

(* What the store looks like after SetRateLimit. *)
LEMMA SetRateLimitType ==
    ASSUME TypeOK, NEW path \in Path, NEW limit \in RateLimit, SetRateLimit(path, limit)
    PROVE  /\ DOMAIN rateLimits' = DOMAIN rateLimits \cup {path}
           /\ DOMAIN rateLimits' \subseteq Path
           /\ rateLimits' \in [DOMAIN rateLimits' -> RateLimit]
           /\ rateLimits'[path] = limit
           /\ \A p \in DOMAIN rateLimits \ {path} : rateLimits'[p] = rateLimits[p]
BY DEF SetRateLimit, TypeOK

LEMMA UpdateFlowType ==
    ASSUME TypeOK, NEW path \in DOMAIN rateLimits, NEW amount \in Amount, NEW direction,
           UpdateFlow(direction, path, amount)
    PROVE  /\ DOMAIN rateLimits' = DOMAIN rateLimits
           /\ rateLimits' \in [DOMAIN rateLimits' -> RateLimit]
           /\ rateLimits'[path] = AddFlow(direction, rateLimits[path], amount)
           /\ \A p \in DOMAIN rateLimits \ {path} : rateLimits'[p] = rateLimits[p]
<1>1. path \in Path /\ rateLimits[path] \in RateLimit /\ amount \in Nat
  BY NumberAssumption DEF TypeOK
<1>2. AddFlow(direction, rateLimits[path], amount) \in RateLimit
  BY <1>1, AddFlowType
<1>3. SetRateLimit(path, AddFlow(direction, rateLimits[path], amount))
  BY DEF UpdateFlow
<1> QED  BY <1>1, <1>2, <1>3, SetRateLimitType

(* What the store looks like after a reset of some limits. *)
LEMMA ResetType ==
    ASSUME TypeOK, NEW paths \in SUBSET DOMAIN rateLimits, ResetRateLimits(paths)
    PROVE  /\ DOMAIN rateLimits' = DOMAIN rateLimits
           /\ rateLimits' \in [DOMAIN rateLimits' -> RateLimit]
           /\ \A p \in paths : /\ rateLimits'[p].flow.inflow = 0
                               /\ rateLimits'[p].flow.outflow = 0
           /\ \A p \in DOMAIN rateLimits \ paths : rateLimits'[p] = rateLimits[p]
<1>1. \A p \in DOMAIN rateLimits : GetChannelValue(p.denom) \in Nat
  BY NumberAssumption DEF TypeOK, GetChannelValue, Path
<1>2. \A p \in DOMAIN rateLimits : rateLimits[p] \in RateLimit
  BY DEF TypeOK
<1>3. rateLimits' = [p \in DOMAIN rateLimits |->
                        IF p \in paths
                        THEN [rateLimits[p] EXCEPT !.flow = NewFlow(GetChannelValue(p.denom))]
                        ELSE rateLimits[p]]
  BY DEF ResetRateLimits
<1>4. \A p \in paths : /\ rateLimits'[p] \in RateLimit
                       /\ rateLimits'[p].flow = NewFlow(GetChannelValue(p.denom))
  BY <1>1, <1>2, <1>3, NewFlowType DEF RateLimit
<1> QED  BY <1>1, <1>2, <1>3, <1>4, NewFlowType

(* The set of limits that an epoch's end resets is a set of limits. *)
LEMMA DueFound ==
    {Resolve(p) : p \in Due(epochInfo.current)} \cap DOMAIN rateLimits
        \in SUBSET DOMAIN rateLimits
OBVIOUS

(* What the store looks like after UndoSendPacket. *)
LEMMA UndoType ==
    ASSUME TypeOK, NEW packet \in Packet, UndoSendPacket(packet)
    PROVE  /\ DOMAIN rateLimits' = DOMAIN rateLimits
           /\ rateLimits' \in [DOMAIN rateLimits' -> RateLimit]
           /\ pending' \subseteq pending
           /\ \/ rateLimits' = rateLimits
              \/ /\ PathOf(packet) \in DOMAIN rateLimits
                 /\ IDOf(packet) \in pending
                 /\ rateLimits' = [rateLimits EXCEPT ![PathOf(packet)].flow.outflow
                                                        = @ - packet.amount]
<1>1. CASE Found(PathOf(packet)) /\ IDOf(packet) \in pending
  <2>1. /\ rateLimits' = [rateLimits EXCEPT ![PathOf(packet)].flow.outflow
                                                        = @ - packet.amount]
        /\ pending' = pending \ {IDOf(packet)}
    BY <1>1 DEF UndoSendPacket
  <2>2. PathOf(packet) \in DOMAIN rateLimits /\ packet.amount \in Nat
    BY <1>1 DEF Found, Packet
  <2>3. rateLimits[PathOf(packet)] \in RateLimit
    BY <2>2 DEF TypeOK
  <2>4. [rateLimits[PathOf(packet)] EXCEPT !.flow.outflow = @ - packet.amount] \in RateLimit
    BY <2>2, <2>3 DEF RateLimit, Flow
  <2>5. rateLimits' \in [DOMAIN rateLimits -> RateLimit]
    BY <2>1, <2>2, <2>4 DEF TypeOK
  <2> QED  BY <1>1, <2>1, <2>2, <2>5
<1>2. CASE ~ (Found(PathOf(packet)) /\ IDOf(packet) \in pending)
  BY <1>2 DEF UndoSendPacket, store, TypeOK
<1> QED  BY <1>1, <1>2

LEMMA EndWindowsType ==
    ASSUME TypeOK, NEW paths, EndWindows(paths)
    PROVE  live' \subseteq live /\ netSent' \in [Path -> Int]
BY DEF EndWindows, TypeOK

LEMMA SettleType ==
    ASSUME TypeOK, NEW packet \in Packet, NEW failed, Settle(packet, failed)
    PROVE  live' \subseteq live /\ netSent' \in [Path -> Int]
<1>1. PathOf(packet) \in Path /\ packet.amount \in Int
  BY DEF PathOf, Path, Packet
<1> QED  BY <1>1 DEF Settle, TypeOK

-----------------------------------------------------------------------------
(* Type correctness.                                                       *)

LEMMA TypeInit == ASSUME Init PROVE TypeOK
BY NumberAssumption, EpochAssumption DEF Init, GenesisEpoch, TypeOK, Path, RateLimit

LEMMA TypeSend ==
    ASSUME TypeOK, NEW path \in Path, NEW amount \in Amount, NEW pair \in Pairs,
           SendPacket(path, amount, pair)
    PROVE  TypeOK'
<1> DEFINE limited == Limited(path, pair)
           packet == [channel |-> path.channel, sequence |-> nextSequence[path.channel],
                      denom |-> path.denom, amount |-> amount, counted |-> limited]
<1>1. limited \in BOOLEAN
  BY DEF Limited, Found, IsAddressPairWhitelisted
<1>2. /\ path.channel \in Channel /\ path.denom \in Denom
      /\ nextSequence[path.channel] \in 1..(MaxSequence + 1)
      /\ amount \in Nat
  BY NumberAssumption DEF Path, TypeOK
<1>3. packet \in Packet /\ IDOf(packet) \in PacketID /\ PathOf(packet) = path
  BY <1>1, <1>2 DEF Packet, PacketID, IDOf, PathOf, Path
<1>4. /\ nextSequence[path.channel] <= MaxSequence
      /\ nextSequence' = [nextSequence EXCEPT ![path.channel] = @ + 1]
      /\ commitments' = commitments \cup {packet}
      /\ \/ limited /\ UpdateFlow("PACKET_SEND", path, amount) /\ Count(packet)
         \/ ~ limited /\ UNCHANGED <<rateLimits, history>>
      /\ SetPendingSendPacket(packet, limited)
      /\ UNCHANGED <<epochInfo, tokenInfos, supply>>
  BY DEF SendPacket
<1> HIDE DEF packet, limited
<1>5. nextSequence' \in [Channel -> 1..(MaxSequence + 1)]
  BY <1>2, <1>4, NumberAssumption DEF TypeOK
<1>6. pending' \subseteq PacketID
  BY <1>3, <1>4 DEF SetPendingSendPacket, TypeOK
<1>7. commitments' \subseteq Packet
  BY <1>3, <1>4 DEF TypeOK
<1>8. /\ DOMAIN rateLimits' \subseteq Path
      /\ rateLimits' \in [DOMAIN rateLimits' -> RateLimit]
      /\ live' \subseteq Packet
      /\ netSent' \in [Path -> Int]
  <2>1. CASE limited /\ UpdateFlow("PACKET_SEND", path, amount) /\ Count(packet)
    <3>1. path \in DOMAIN rateLimits
      BY <2>1 DEF limited, Limited, Found
    <3>2. packet.amount \in Int
      BY <1>3 DEF Packet
    <3> QED  BY <2>1, <3>1, <3>2, <1>3, UpdateFlowType DEF Count, TypeOK
  <2>2. CASE UNCHANGED <<rateLimits, history>>
    BY <2>2 DEF history, TypeOK
  <2> QED  BY <2>1, <2>2, <1>4
<1> QED  BY <1>4, <1>5, <1>6, <1>7, <1>8 DEF TypeOK

LEMMA TypeRecv ==
    ASSUME TypeOK, NEW path \in Path, NEW amount \in Amount, NEW pair \in Pairs,
           RecvPacket(path, amount, pair)
    PROVE  TypeOK'
<1>1. path \in DOMAIN rateLimits /\ UpdateFlow("PACKET_RECV", path, amount)
  BY DEF RecvPacket, Limited, Found
<1> QED  BY <1>1, UpdateFlowType DEF RecvPacket, TypeOK, channels, history

LEMMA TypeSettle ==
    ASSUME TypeOK, NEW packet \in commitments,
           AckSuccess(packet) \/ AckError(packet) \/ TimeoutPacket(packet)
    PROVE  TypeOK'
<1>1. packet \in Packet
  BY DEF TypeOK
<1>2. CASE AckSuccess(packet)
  BY <1>1, <1>2, SettleType DEF AckSuccess, TypeOK
<1>3. CASE SendFailed(packet)
  <2>1. UndoSendPacket(packet) /\ Settle(packet, TRUE)
    BY <1>3 DEF SendFailed
  <2> QED  BY <1>1, <1>3, <2>1, UndoType, SettleType DEF SendFailed, TypeOK
<1> QED  BY <1>2, <1>3 DEF AckError, TimeoutPacket

LEMMA TypeMsg ==
    ASSUME TypeOK, NEW path \in Path, NEW quota \in Quotas, NEW minAmount \in MinAmounts,
           AddRateLimit(path, quota, minAmount) \/ UpdateRateLimit(path, quota, minAmount)
    PROVE  TypeOK'
<1> DEFINE target == Resolve(path)
           limit == [quota |-> quota, minAmount |-> minAmount,
                     flow |-> NewFlow(GetChannelValue(target.denom))]
<1>1. target \in Path /\ target.denom \in Denom
  BY ResolveType DEF Path
<1>2. /\ ValidateBasic(quota, minAmount)
      /\ SetRateLimit(target, limit)
      /\ EndWindows({target})
      /\ UNCHANGED <<pending, epochInfo, tokenInfos, supply, channels>>
  BY DEF AddRateLimit, UpdateRateLimit
<1>3. limit \in RateLimit
  BY <1>1, <1>2, NewLimitType
<1> HIDE DEF target, limit
<1> QED  BY <1>1, <1>2, <1>3, SetRateLimitType, EndWindowsType DEF TypeOK, channels

LEMMA TypeRemove ==
    ASSUME TypeOK, NEW path \in Path, RemoveRateLimit(path)
    PROVE  TypeOK'
<1>1. EndWindows({Resolve(path)})
  BY DEF RemoveRateLimit
<1> QED  BY <1>1, EndWindowsType DEF RemoveRateLimit, TypeOK, channels

LEMMA TypeReset ==
    ASSUME TypeOK, NEW paths \in SUBSET DOMAIN rateLimits, ResetRateLimits(paths),
           UNCHANGED <<tokenInfos, supply, channels>>,
           epochInfo' \in [started : BOOLEAN, current : 0..EpochCycle, since : 0..MaxLag]
    PROVE  TypeOK'
<1>1. EndWindows(paths) /\ pending' = PendingWithout(paths)
  BY DEF ResetRateLimits
<1>2. pending' \subseteq pending
  BY <1>1 DEF PendingWithout
<1> QED  BY <1>1, <1>2, ResetType, EndWindowsType DEF TypeOK, channels

LEMMA TypeBlock ==
    ASSUME TypeOK, NEW gap \in BlockGaps, BeginBlocker(gap)
    PROVE  TypeOK'
<1> DEFINE since == epochInfo.since + gap
           ends  == epochInfo.started /\ since > EpochDuration
           lag   == IF ends THEN since - EpochDuration ELSE since
           due   == {Resolve(p) : p \in Due(epochInfo.current)} \cap DOMAIN rateLimits
<1>1. /\ epochInfo.since \in 0..MaxLag
      /\ epochInfo.current \in 0..EpochCycle
      /\ epochInfo.started \in BOOLEAN
  BY DEF TypeOK
<1>2. lag <= MaxLag /\ lag \in Nat
  BY <1>1, EpochAssumption DEF BeginBlocker
<1>3. epochInfo' \in [started : BOOLEAN, current : 0..EpochCycle, since : 0..MaxLag]
  <2>1. epochInfo' = [started |-> TRUE,
                      current |-> IF ends THEN NextEpoch(epochInfo.current)
                                  ELSE IF epochInfo.started THEN epochInfo.current
                                  ELSE 1,
                      since |-> lag]
    BY DEF BeginBlocker
  <2>2. NextEpoch(epochInfo.current) \in 0..EpochCycle /\ 1 \in 0..EpochCycle
    BY <1>1, EpochAssumption DEF NextEpoch
  <2>3. lag \in 0..MaxLag
    BY <1>2, EpochAssumption
  <2> HIDE DEF lag, ends
  <2> QED  BY <1>1, <2>1, <2>2, <2>3
<1>4. CASE ends
  <2>1. ResetRateLimits(due)
    BY <1>4 DEF BeginBlocker, AfterEpochEnd
  <2>2. due \in SUBSET DOMAIN rateLimits
    OBVIOUS
  <2>3. UNCHANGED <<tokenInfos, supply, channels>>
    BY DEF BeginBlocker
  <2> HIDE DEF due
  <2> QED  BY <1>3, <2>1, <2>2, <2>3, TypeReset
<1>5. CASE ~ ends
  BY <1>3, <1>5 DEF BeginBlocker, TypeOK, store, history, channels
<1> QED  BY <1>4, <1>5

LEMMA TypeResetMsg ==
    ASSUME TypeOK, NEW path \in Path, ResetRateLimit(path)
    PROVE  TypeOK'
<1>1. {Resolve(path)} \in SUBSET DOMAIN rateLimits /\ ResetRateLimits({Resolve(path)})
  BY DEF ResetRateLimit, Found
<1>2. epochInfo' \in [started : BOOLEAN, current : 0..EpochCycle, since : 0..MaxLag]
  BY DEF ResetRateLimit, TypeOK
<1>3. UNCHANGED <<tokenInfos, supply, channels>>
  BY DEF ResetRateLimit
<1> QED  BY <1>1, <1>2, <1>3, TypeReset

LEMMA TypeNeighbour == ASSUME TypeOK, NeighbourStep PROVE TypeOK'
BY DEF NeighbourStep, AddParachainIBCInfo, RemoveParachainIBCInfo, SupplyChanges,
       TypeOK, store, channels, history

LEMMA TypeNext == ASSUME TypeOK, [Next]_vars PROVE TypeOK'
<1>1. CASE PacketStep
  BY <1>1, TypeSend, TypeRecv, TypeSettle DEF PacketStep
<1>2. CASE MsgStep
  BY <1>2, TypeMsg, TypeRemove, TypeResetMsg DEF MsgStep
<1>3. CASE BlockStep
  BY <1>3, TypeBlock DEF BlockStep
<1>4. CASE NeighbourStep
  BY <1>4, TypeNeighbour
<1>5. CASE Restart
  BY <1>5, EpochAssumption DEF Restart, GenesisEpoch, TypeOK, store, channels, history
<1>6. CASE UNCHANGED vars
  BY <1>6 DEF vars, TypeOK
<1> QED  BY <1>1, <1>2, <1>3, <1>4, <1>5, <1>6 DEF Next

(* The store, the epoch and the history keep their types; in particular no *)
(* limit with a zero duration is ever stored, on which AfterEpochEnd would *)
(* divide by zero.                                                         *)
THEOREM TypeCorrect == Spec => []TypeOK
BY TypeInit, TypeNext, PTL DEF Spec

-----------------------------------------------------------------------------
(* The quota of the store.  UnderQuota is kept opaque below: a step either *)
(* starts the window at zero, or lowers the net outflow, or has passed the *)
(* check of AddOutflow.                                                    *)

UnderQuota(limit, n) == ~ CheckExceedsQuota("PACKET_SEND", limit, n)

(* The threshold is a number, at least the positive minimum amount. *)
LEMMA ThresholdPositive ==
    ASSUME NEW limit \in RateLimit
    PROVE  Threshold("PACKET_SEND", limit) \in Int /\ Threshold("PACKET_SEND", limit) > 0
<1> DEFINE product == limit.flow.channelValue * Percent("PACKET_SEND", limit.quota)
           share == product \div 100
<1>1. limit.flow.channelValue \in Int /\ Percent("PACKET_SEND", limit.quota) \in Int
  BY DEF RateLimit, Flow, Quota, Percent
<1>2. product \in Int
  BY <1>1
<1> HIDE DEF product
<1>3. share \in Int
  BY <1>2
<1>4. limit.minAmount \in Nat \ {0}
  BY DEF RateLimit
<1> HIDE DEF share
<1>5. Threshold("PACKET_SEND", limit)
        = IF limit.minAmount > share THEN limit.minAmount ELSE share
  BY DEF Threshold, share, product
<1> QED  BY <1>3, <1>4, <1>5

(* A window that let nothing out is under its quota, and so is one that    *)
(* let out less than a window under its quota.                             *)
LEMMA UnderQuotaBasics ==
    ASSUME NEW limit \in RateLimit
    PROVE  /\ \A n \in Int : n <= 0 => UnderQuota(limit, n)
           /\ \A m \in Int, n \in Int :
                 m <= n /\ UnderQuota(limit, n) => UnderQuota(limit, m)
BY ThresholdPositive DEF UnderQuota, CheckExceedsQuota

(* The check sees the quota, the minimum amount and the channel value of a *)
(* limit, not its inflow and outflow.                                      *)
LEMMA UnderQuotaFlow ==
    ASSUME NEW limit \in RateLimit, NEW other \in RateLimit,
           other.quota = limit.quota, other.minAmount = limit.minAmount,
           other.flow.channelValue = limit.flow.channelValue, NEW n \in Int
    PROVE  UnderQuota(limit, n) <=> UnderQuota(other, n)
BY DEF UnderQuota, CheckExceedsQuota, Threshold, Percent

LEMMA AddFlowFields ==
    ASSUME NEW limit \in RateLimit, NEW amount \in Nat, NEW direction \in Direction,
           NEW new, new = AddFlow(direction, limit, amount)
    PROVE  /\ new.quota = limit.quota
           /\ new.minAmount = limit.minAmount
           /\ new.flow.channelValue = limit.flow.channelValue
           /\ new.flow.outflow = IF direction = "PACKET_SEND"
                                 THEN limit.flow.outflow + amount ELSE limit.flow.outflow
           /\ new.flow.inflow = IF direction = "PACKET_RECV"
                                THEN limit.flow.inflow + amount ELSE limit.flow.inflow
BY DEF AddFlow, RateLimit, Flow, Direction

(* Within(limit, out): the limit is under its quota when out is what        *)
(* its window has let out.                                                 *)
Within(limit, out) == UnderQuota(limit, out - limit.flow.inflow)

LEMMA WithinSend ==
    ASSUME NEW limit \in RateLimit, NEW amount \in Nat, NEW out \in Int,
           ~ OverQuota("PACKET_SEND", limit, amount), out <= limit.flow.outflow + amount
    PROVE  Within(AddFlow("PACKET_SEND", limit, amount), out)
<1> DEFINE new == AddFlow("PACKET_SEND", limit, amount)
<1>1. new \in RateLimit
  BY AddFlowType
<1>2. limit.flow \in Flow
  BY DEF RateLimit
<1>3. /\ new.quota = limit.quota /\ new.minAmount = limit.minAmount
      /\ new.flow.channelValue = limit.flow.channelValue
      /\ new.flow.inflow = limit.flow.inflow
  BY AddFlowFields DEF Direction
<1>4. UnderQuota(limit, limit.flow.outflow - limit.flow.inflow + amount)
  BY DEF UnderQuota, OverQuota, NetOutflow
<1>5. /\ limit.flow.inflow \in Int /\ limit.flow.outflow \in Int
  BY <1>2 DEF Flow
<1>6. UnderQuota(limit, out - limit.flow.inflow)
  BY <1>4, <1>5, UnderQuotaBasics
<1> HIDE DEF new
<1>7. UnderQuota(new, out - limit.flow.inflow)
  BY <1>1, <1>3, <1>5, <1>6, UnderQuotaFlow
<1> QED  BY <1>3, <1>7 DEF Within, new

LEMMA WithinRecv ==
    ASSUME NEW limit \in RateLimit, NEW amount \in Nat, NEW out \in Int, Within(limit, out)
    PROVE  Within(AddFlow("PACKET_RECV", limit, amount), out)
<1> DEFINE new == AddFlow("PACKET_RECV", limit, amount)
<1>1. new \in RateLimit
  BY AddFlowType
<1>2. limit.flow \in Flow
  BY DEF RateLimit
<1>3. /\ new.quota = limit.quota /\ new.minAmount = limit.minAmount
      /\ new.flow.channelValue = limit.flow.channelValue
      /\ new.flow.inflow = limit.flow.inflow + amount
  BY AddFlowFields DEF Direction
<1>4. limit.flow.inflow \in Int
  BY <1>2 DEF Flow
<1>5. UnderQuota(limit, out - limit.flow.inflow)
  BY DEF Within
<1>6. UnderQuota(limit, out - (limit.flow.inflow + amount))
  BY <1>4, <1>5, UnderQuotaBasics
<1> HIDE DEF new
<1>7. UnderQuota(new, out - new.flow.inflow)
  BY <1>1, <1>3, <1>4, <1>6, UnderQuotaFlow
<1> QED  BY <1>7 DEF Within, new

(* A limit whose outflow alone changed is within its quota when the net    *)
(* value let out did not grow.                                             *)
LEMMA WithinUndo ==
    ASSUME NEW limit \in RateLimit, NEW new \in RateLimit, NEW out \in Int, NEW less \in Int,
           new.quota = limit.quota, new.minAmount = limit.minAmount,
           new.flow.channelValue = limit.flow.channelValue,
           new.flow.inflow = limit.flow.inflow,
           Within(limit, out), less <= out
    PROVE  Within(new, less)
<1>1. limit.flow.inflow \in Int
  BY DEF RateLimit, Flow
<1>2. UnderQuota(limit, less - limit.flow.inflow)
  BY <1>1, UnderQuotaBasics DEF Within
<1> QED  BY <1>1, <1>2, UnderQuotaFlow DEF Within

LEMMA WithinNew ==
    ASSUME NEW limit \in RateLimit, limit.flow.inflow = 0
    PROVE  Within(limit, 0)
BY UnderQuotaBasics DEF Within

LEMMA StoreWithin ==
    NetOutflowWithinQuota <=>
        \A p \in DOMAIN rateLimits : Within(rateLimits[p], rateLimits[p].flow.outflow)
BY DEF NetOutflowWithinQuota, Within, UnderQuota, NetOutflow

(* The outflow of one limit is lowered by an amount. *)
LEMMA LowerOutflow ==
    ASSUME NEW limit \in RateLimit, NEW amount \in Nat, NEW new,
           new = [limit EXCEPT !.flow.outflow = @ - amount]
    PROVE  /\ new \in RateLimit
           /\ new.quota = limit.quota /\ new.minAmount = limit.minAmount
           /\ new.flow.channelValue = limit.flow.channelValue
           /\ new.flow.inflow = limit.flow.inflow
           /\ new.flow.outflow = limit.flow.outflow - amount
           /\ limit.flow.outflow \in Int /\ limit.flow.inflow \in Int
BY DEF RateLimit, Flow

LEMMA QuotaUpdateFlow ==
    ASSUME TypeOK, NetOutflowWithinQuota, NEW path \in DOMAIN rateLimits,
           NEW amount \in Amount, NEW direction \in Direction,
           UpdateFlow(direction, path, amount)
    PROVE  NetOutflowWithinQuota'
<1>1. /\ rateLimits[path] \in RateLimit
      /\ amount \in Nat
  BY NumberAssumption DEF TypeOK
<1>2. rateLimits[path].flow.outflow \in Int
  BY <1>1 DEF RateLimit, Flow
<1>3. CASE direction = "PACKET_SEND"
  <2>1. ~ OverQuota("PACKET_SEND", rateLimits[path], amount)
    BY <1>3 DEF UpdateFlow
  <2>2. AddFlow("PACKET_SEND", rateLimits[path], amount).flow.outflow
          = rateLimits[path].flow.outflow + amount
    BY <1>1, AddFlowFields DEF Direction
  <2>3. Within(AddFlow("PACKET_SEND", rateLimits[path], amount),
               rateLimits[path].flow.outflow + amount)
    BY <1>1, <1>2, <2>1, WithinSend
  <2>4. Within(rateLimits'[path], rateLimits'[path].flow.outflow)
    BY <1>3, <2>2, <2>3, UpdateFlowType
  <2>5. \A p \in DOMAIN rateLimits' : Within(rateLimits'[p], rateLimits'[p].flow.outflow)
    BY <2>4, StoreWithin, UpdateFlowType
  <2> QED  BY <2>5 DEF NetOutflowWithinQuota, Within, UnderQuota, NetOutflow
<1>4. CASE direction = "PACKET_RECV"
  <2>1. Within(rateLimits[path], rateLimits[path].flow.outflow)
    BY StoreWithin
  <2>2. AddFlow("PACKET_RECV", rateLimits[path], amount).flow.outflow
          = rateLimits[path].flow.outflow
    BY <1>1, AddFlowFields DEF Direction
  <2>3. Within(AddFlow("PACKET_RECV", rateLimits[path], amount),
               rateLimits[path].flow.outflow)
    BY <1>1, <1>2, <2>1, WithinRecv
  <2>4. Within(rateLimits'[path], rateLimits'[path].flow.outflow)
    BY <1>4, <2>2, <2>3, UpdateFlowType
  <2>5. \A p \in DOMAIN rateLimits' : Within(rateLimits'[p], rateLimits'[p].flow.outflow)
    BY <2>4, StoreWithin, UpdateFlowType
  <2> QED  BY <2>5 DEF NetOutflowWithinQuota, Within, UnderQuota, NetOutflow
<1> QED  BY <1>3, <1>4 DEF Direction

LEMMA QuotaUndo ==
    ASSUME TypeOK, NetOutflowWithinQuota, NEW packet \in Packet, UndoSendPacket(packet)
    PROVE  NetOutflowWithinQuota'
<1> DEFINE path == PathOf(packet)
<1>1. CASE rateLimits' = rateLimits
  BY <1>1 DEF NetOutflowWithinQuota
<1>2. CASE /\ path \in DOMAIN rateLimits
           /\ rateLimits' = [rateLimits EXCEPT ![path].flow.outflow = @ - packet.amount]
  <2>1. rateLimits[path] \in RateLimit /\ packet.amount \in Nat
    BY <1>2 DEF TypeOK, Packet
  <2>2. rateLimits'[path] = [rateLimits[path] EXCEPT !.flow.outflow = @ - packet.amount]
    BY <1>2
  <2> DEFINE old == rateLimits[path]
             new == rateLimits'[path]
  <2>3. /\ rateLimits'[path] \in RateLimit
        /\ rateLimits'[path].quota = rateLimits[path].quota
        /\ rateLimits'[path].minAmount = rateLimits[path].minAmount
        /\ rateLimits'[path].flow.channelValue = rateLimits[path].flow.channelValue
        /\ rateLimits'[path].flow.inflow = rateLimits[path].flow.inflow
        /\ rateLimits'[path].flow.outflow = rateLimits[path].flow.outflow - packet.amount
        /\ rateLimits[path].flow.outflow \in Int
    <3>1. /\ old \in RateLimit /\ packet.amount \in Nat
          /\ new = [old EXCEPT !.flow.outflow = @ - packet.amount]
      BY <2>1, <2>2
    <3> HIDE DEF old, new
    <3>2. /\ new \in RateLimit
          /\ new.quota = old.quota /\ new.minAmount = old.minAmount
          /\ new.flow.channelValue = old.flow.channelValue
          /\ new.flow.inflow = old.flow.inflow
          /\ new.flow.outflow = old.flow.outflow - packet.amount
          /\ old.flow.outflow \in Int
      BY <3>1, LowerOutflow
    <3> QED  BY <3>2 DEF old, new
  <2>4. Within(rateLimits[path], rateLimits[path].flow.outflow)
    BY <1>2, StoreWithin
  <2> DEFINE less == rateLimits[path].flow.outflow - packet.amount
  <2>5. less \in Int /\ less <= rateLimits[path].flow.outflow
    BY <2>1, <2>3
  <2> HIDE DEF less
  <2>6. Within(rateLimits'[path], less)
    BY <2>1, <2>3, <2>4, <2>5, WithinUndo
  <2>7. \A p \in DOMAIN rateLimits' : Within(rateLimits'[p], rateLimits'[p].flow.outflow)
    BY <1>2, <2>3, <2>6, StoreWithin DEF less
  <2> QED  BY <2>7 DEF NetOutflowWithinQuota, Within, UnderQuota, NetOutflow
<1> QED  BY <1>1, <1>2, UndoType

LEMMA QuotaReset ==
    ASSUME TypeOK, NetOutflowWithinQuota,
           NEW paths \in SUBSET DOMAIN rateLimits, ResetRateLimits(paths)
    PROVE  NetOutflowWithinQuota'
<1>1. \A p \in DOMAIN rateLimits' : Within(rateLimits'[p], rateLimits'[p].flow.outflow)
  BY ResetType, WithinNew, StoreWithin
<1> QED  BY <1>1 DEF NetOutflowWithinQuota, Within, UnderQuota, NetOutflow

LEMMA QuotaMsg ==
    ASSUME TypeOK, NetOutflowWithinQuota, NEW path \in Path, NEW quota \in Quotas,
           NEW minAmount \in MinAmounts,
           AddRateLimit(path, quota, minAmount) \/ UpdateRateLimit(path, quota, minAmount)
    PROVE  NetOutflowWithinQuota'
<1> DEFINE target == Resolve(path)
           limit == [quota |-> quota, minAmount |-> minAmount,
                     flow |-> NewFlow(GetChannelValue(target.denom))]
<1>1. target \in Path /\ target.denom \in Denom
  BY ResolveType DEF Path
<1>2. ValidateBasic(quota, minAmount) /\ SetRateLimit(target, limit)
  BY DEF AddRateLimit, UpdateRateLimit
<1>3. limit \in RateLimit /\ limit.flow.inflow = 0 /\ limit.flow.outflow = 0
  BY <1>1, <1>2, NewLimitType
<1> HIDE DEF target, limit
<1>4. Within(limit, limit.flow.outflow)
  BY <1>3, WithinNew
<1>5. /\ DOMAIN rateLimits' = DOMAIN rateLimits \cup {target}
      /\ rateLimits'[target] = limit
      /\ \A p \in DOMAIN rateLimits \ {target} : rateLimits'[p] = rateLimits[p]
  BY <1>1, <1>2, <1>3, SetRateLimitType
<1>6. \A p \in DOMAIN rateLimits' : Within(rateLimits'[p], rateLimits'[p].flow.outflow)
  BY <1>4, <1>5, StoreWithin
<1> QED  BY <1>6 DEF NetOutflowWithinQuota, Within, UnderQuota, NetOutflow

LEMMA QuotaNext == ASSUME TypeOK, NetOutflowWithinQuota, [Next]_vars PROVE NetOutflowWithinQuota'
<1>1. ASSUME NEW path \in Path, NEW amount \in Amount, NEW pair \in Pairs,
             SendPacket(path, amount, pair)
      PROVE  NetOutflowWithinQuota'
  <2>1. CASE Limited(path, pair)
    <3>1. path \in DOMAIN rateLimits /\ UpdateFlow("PACKET_SEND", path, amount)
      BY <1>1, <2>1 DEF SendPacket, Limited, Found
    <3> QED  BY <3>1, QuotaUpdateFlow DEF Direction
  <2>2. CASE ~ Limited(path, pair)
    BY <1>1, <2>2 DEF SendPacket, NetOutflowWithinQuota
  <2> QED  BY <2>1, <2>2
<1>2. ASSUME NEW path \in Path, NEW amount \in Amount, NEW pair \in Pairs,
             RecvPacket(path, amount, pair)
      PROVE  NetOutflowWithinQuota'
  <2>1. path \in DOMAIN rateLimits /\ UpdateFlow("PACKET_RECV", path, amount)
    BY <1>2 DEF RecvPacket, Limited, Found
  <2> QED  BY <2>1, QuotaUpdateFlow DEF Direction
<1>3. ASSUME NEW packet \in commitments,
             AckSuccess(packet) \/ AckError(packet) \/ TimeoutPacket(packet)
      PROVE  NetOutflowWithinQuota'
  <2>1. CASE AckSuccess(packet)
    BY <2>1 DEF AckSuccess, NetOutflowWithinQuota
  <2>2. CASE SendFailed(packet)
    <3>1. packet \in Packet /\ UndoSendPacket(packet)
      BY <2>2 DEF SendFailed, TypeOK
    <3> QED  BY <3>1, QuotaUndo
  <2> QED  BY <1>3, <2>1, <2>2 DEF AckError, TimeoutPacket
<1>4. ASSUME NEW path \in Path, RemoveRateLimit(path)
      PROVE  NetOutflowWithinQuota'
  BY <1>4 DEF RemoveRateLimit, NetOutflowWithinQuota
<1>5. ASSUME NEW path \in Path, ResetRateLimit(path)
      PROVE  NetOutflowWithinQuota'
  <2>1. {Resolve(path)} \in SUBSET DOMAIN rateLimits /\ ResetRateLimits({Resolve(path)})
    BY <1>5 DEF ResetRateLimit, Found
  <2> QED  BY <2>1, QuotaReset
<1>6. ASSUME NEW gap \in BlockGaps, BeginBlocker(gap)
      PROVE  NetOutflowWithinQuota'
  <2>1. AfterEpochEnd(epochInfo.current) \/ UNCHANGED <<store, history>>
    BY <1>6 DEF BeginBlocker
  <2>2. CASE AfterEpochEnd(epochInfo.current)
    BY <2>2, DueFound, QuotaReset DEF AfterEpochEnd
  <2>3. CASE UNCHANGED <<store, history>>
    BY <2>3 DEF store, NetOutflowWithinQuota
  <2> QED  BY <2>1, <2>2, <2>3
<1>7. CASE NeighbourStep \/ Restart \/ UNCHANGED vars
  BY <1>7 DEF NeighbourStep, Restart, AddParachainIBCInfo, RemoveParachainIBCInfo, SupplyChanges,
              store, vars, NetOutflowWithinQuota
<1>8. CASE PacketStep
  BY <1>8, <1>1, <1>2, <1>3 DEF PacketStep
<1>9. CASE MsgStep
  BY <1>9, <1>4, <1>5, QuotaMsg DEF MsgStep
<1>10. CASE BlockStep
  BY <1>10, <1>6 DEF BlockStep
<1> QED  BY <1>7, <1>8, <1>9, <1>10 DEF Next

(* However packets, acks, timeouts, epochs and messages interleave, no     *)
(* stored window shows a net outflow beyond the threshold of its quota     *)
(* (CheckRateLimitAndUpdateFlow, UndoSendPacket, ResetRateLimit).          *)
THEOREM StoreWithinQuota == Spec => []NetOutflowWithinQuota
<1>1. Init => NetOutflowWithinQuota
  BY DEF Init, NetOutflowWithinQuota
<1> QED  BY <1>1, QuotaNext, TypeCorrect, PTL DEF Spec

-----------------------------------------------------------------------------
(* The history of the packets.  A sequence number names at most one packet *)
(* of a channel, and no sequence is pending before it was used.            *)

PacketInv ==
    /\ \A id \in pending : id.sequence < nextSequence[id.channel]
    /\ \A packet \in commitments : packet.sequence < nextSequence[packet.channel]
    /\ \A p, q \in commitments : IDOf(p) = IDOf(q) => p = q
    /\ live \subseteq commitments
    /\ UncountedNeverCredited

LEMMA PacketSend ==
    ASSUME TypeOK, PacketInv, NEW path \in Path, NEW amount \in Amount, NEW pair \in Pairs,
           SendPacket(path, amount, pair)
    PROVE  PacketInv'
<1> DEFINE limited == Limited(path, pair)
           packet == [channel |-> path.channel, sequence |-> nextSequence[path.channel],
                      denom |-> path.denom, amount |-> amount, counted |-> limited]
<1>1. /\ nextSequence' = [nextSequence EXCEPT ![path.channel] = @ + 1]
      /\ commitments' = commitments \cup {packet}
      /\ \/ limited /\ Count(packet)
         \/ ~ limited /\ UNCHANGED history
      /\ SetPendingSendPacket(packet, limited)
  BY DEF SendPacket
<1>2. /\ packet.channel = path.channel /\ packet.counted = limited
      /\ packet.sequence = nextSequence[path.channel]
      /\ path.channel \in Channel
      /\ IDOf(packet) = [channel |-> path.channel, sequence |-> nextSequence[path.channel]]
  BY DEF Path, IDOf
<1> HIDE DEF packet, limited
<1>3. \A c \in Channel : nextSequence[c] \in Nat /\ nextSequence'[c] \in Nat
                         /\ nextSequence[c] <= nextSequence'[c]
  BY <1>1, <1>2, NumberAssumption DEF TypeOK
<1>4. nextSequence[path.channel] < nextSequence'[path.channel]
  BY <1>1, <1>2, <1>3 DEF TypeOK
<1>5. IDOf(packet) \notin pending /\ \A p \in commitments : IDOf(p) # IDOf(packet)
  <2>1. ~ (nextSequence[path.channel] < nextSequence[path.channel])
    BY <1>2, <1>3
  <2>2. \A p \in commitments : p.channel = path.channel =>
                                  p.sequence # nextSequence[path.channel]
    BY <2>1 DEF PacketInv
  <2> QED  BY <1>2, <2>1, <2>2 DEF PacketInv, IDOf
<1>6. pending' = IF limited THEN pending \cup {IDOf(packet)} ELSE pending
  BY <1>1 DEF SetPendingSendPacket
<1>7. (\A id \in pending : id.sequence < nextSequence[id.channel])'
  <2>1. \A id \in pending : id.channel \in Channel /\ id.sequence \in Nat
    BY DEF TypeOK, PacketID
  <2>2. \A id \in pending : id.sequence < nextSequence'[id.channel]
    BY <1>3, <2>1 DEF PacketInv
  <2> QED  BY <1>2, <1>4, <1>6, <2>2
<1>8. (\A p \in commitments : p.sequence < nextSequence[p.channel])'
  <2>1. \A p \in commitments : p.channel \in Channel /\ p.sequence \in Nat
    BY DEF TypeOK, Packet
  <2>2. \A p \in commitments : p.sequence < nextSequence'[p.channel]
    BY <1>3, <2>1 DEF PacketInv
  <2> QED  BY <1>1, <1>2, <1>4, <2>2
<1>9. (\A p, q \in commitments : IDOf(p) = IDOf(q) => p = q)'
  <2>1. \A p, q \in commitments \cup {packet} : IDOf(p) = IDOf(q) => p = q
    BY <1>5 DEF PacketInv
  <2> QED  BY <1>1, <2>1 DEF IDOf
<1>10. (live \subseteq commitments)'
  BY <1>1 DEF Count, history, PacketInv
<1>11. UncountedNeverCredited'
  <2>1. \A p \in commitments \cup {packet} : IDOf(p) \in pending' => p.counted
    BY <1>2, <1>5, <1>6 DEF PacketInv, UncountedNeverCredited
  <2> QED  BY <1>1, <2>1 DEF UncountedNeverCredited, IDOf
<1> QED  BY <1>7, <1>8, <1>9, <1>10, <1>11 DEF PacketInv

(* A step that sends nothing keeps the packet history when it only drops   *)
(* pending entries and counted packets, and settles packets only when they *)
(* leave live.                                                             *)
LEMMA PacketShrink ==
    ASSUME PacketInv, pending' \subseteq pending, commitments' \subseteq commitments,
           live' \subseteq commitments', nextSequence' = nextSequence
    PROVE  PacketInv'
BY DEF PacketInv, UncountedNeverCredited, IDOf

LEMMA ResetShrinks ==
    ASSUME NEW paths, ResetRateLimits(paths)
    PROVE  pending' \subseteq pending /\ live' \subseteq live
BY DEF ResetRateLimits, PendingWithout, EndWindows

LEMMA PacketNext == ASSUME TypeOK, PacketInv, [Next]_vars PROVE PacketInv'
<1>1. ASSUME NEW path \in Path, NEW amount \in Amount, NEW pair \in Pairs,
             RecvPacket(path, amount, pair)
      PROVE  PacketInv'
  BY <1>1 DEF RecvPacket, channels, history, PacketInv, UncountedNeverCredited, IDOf
<1>2. ASSUME NEW packet \in commitments,
             AckSuccess(packet) \/ AckError(packet) \/ TimeoutPacket(packet)
      PROVE  PacketInv'
  <2>1. /\ commitments' = commitments \ {packet}
        /\ live' = live \ {packet}
        /\ nextSequence' = nextSequence
    BY <1>2 DEF AckSuccess, AckError, TimeoutPacket, SendFailed, Settle
  <2>2. pending' \subseteq pending
    BY <1>2 DEF AckSuccess, AckError, TimeoutPacket, SendFailed, UndoSendPacket, store
  <2>3. live' \subseteq commitments'
    BY <2>1 DEF PacketInv
  <2> QED  BY <2>1, <2>2, <2>3, PacketShrink
<1>3. ASSUME NEW path \in Path, NEW quota \in Quotas, NEW minAmount \in MinAmounts,
             AddRateLimit(path, quota, minAmount) \/ UpdateRateLimit(path, quota, minAmount)
      PROVE  PacketInv'
  <2>1. EndWindows({Resolve(path)}) /\ UNCHANGED <<pending, channels>>
    BY <1>3 DEF AddRateLimit, UpdateRateLimit
  <2>2. live' \subseteq commitments'
    BY <2>1 DEF EndWindows, channels, PacketInv
  <2> QED  BY <2>1, <2>2, PacketShrink DEF channels
<1>4. ASSUME NEW path \in Path, RemoveRateLimit(path)
      PROVE  PacketInv'
  <2>1. EndWindows({Resolve(path)}) /\ UNCHANGED <<pending, channels>>
    BY <1>4 DEF RemoveRateLimit
  <2>2. live' \subseteq commitments'
    BY <2>1 DEF EndWindows, channels, PacketInv
  <2> QED  BY <2>1, <2>2, PacketShrink DEF channels
<1>5. ASSUME NEW paths, ResetRateLimits(paths), UNCHANGED channels
      PROVE  PacketInv'
  <2>1. pending' \subseteq pending /\ live' \subseteq live
    BY <1>5, ResetShrinks
  <2>2. commitments' = commitments /\ nextSequence' = nextSequence
    BY <1>5 DEF channels
  <2>3. live' \subseteq commitments'
    BY <2>1, <2>2 DEF PacketInv
  <2> QED  BY <2>1, <2>2, <2>3, PacketShrink
<1>6. ASSUME NEW path \in Path, ResetRateLimit(path)
      PROVE  PacketInv'
  BY <1>5, <1>6 DEF ResetRateLimit
<1>7. ASSUME NEW gap \in BlockGaps, BeginBlocker(gap)
      PROVE  PacketInv'
  <2>1. /\ AfterEpochEnd(epochInfo.current) \/ UNCHANGED <<store, history>>
        /\ UNCHANGED channels
    BY <1>7 DEF BeginBlocker
  <2>2. CASE AfterEpochEnd(epochInfo.current)
    BY <2>1, <2>2, <1>5 DEF AfterEpochEnd
  <2>3. CASE UNCHANGED <<store, history>>
    BY <2>1, <2>3 DEF store, history, channels, PacketInv, UncountedNeverCredited, IDOf
  <2> QED  BY <2>1, <2>2, <2>3
<1>8. CASE NeighbourStep \/ Restart
  BY <1>8 DEF NeighbourStep, Restart, AddParachainIBCInfo, RemoveParachainIBCInfo, SupplyChanges,
              store, channels, history, PacketInv, UncountedNeverCredited, IDOf
<1>9. CASE UNCHANGED vars
  BY <1>9 DEF vars, PacketInv, UncountedNeverCredited, IDOf
<1>10. CASE PacketStep
  BY <1>10, <1>1, <1>2, PacketSend DEF PacketStep
<1>11. CASE MsgStep
  BY <1>11, <1>3, <1>4, <1>6 DEF MsgStep
<1>12. CASE BlockStep
  BY <1>12, <1>7 DEF BlockStep
<1> QED  BY <1>8, <1>9, <1>10, <1>11, <1>12 DEF Next

LEMMA PacketCorrect == Spec => []PacketInv
<1>1. Init => PacketInv
  BY DEF Init, PacketInv, UncountedNeverCredited
<1> QED  BY <1>1, PacketNext, TypeCorrect, PTL DEF Spec

(* A packet that no limit counted when it was sent never takes anything    *)
(* off an outflow, whatever limits are made before its ack or timeout      *)
(* (SendRateLimitedPacket).                                                *)
THEOREM UncountedStaysUncredited == Spec => []UncountedNeverCredited
<1>1. PacketInv => UncountedNeverCredited
  BY DEF PacketInv
<1> QED  BY <1>1, PacketCorrect, PTL

-----------------------------------------------------------------------------
(* What a window really lets out.  The authority only adds and resets      *)
(* limits here: with update or remove the invariant is false.              *)

KeepsWindows == MsgTypes \cap {"update", "remove"} = {}

WindowInv ==
    /\ PendingSentDuringCurrentQuota
    /\ \A packet \in live : PathOf(packet) \in DOMAIN rateLimits
    /\ \A p \in DOMAIN rateLimits : netSent[p] <= rateLimits[p].flow.outflow

LEMMA WindowSend ==
    ASSUME TypeOK, WindowInv, NEW path \in Path, NEW amount \in Amount, NEW pair \in Pairs,
           SendPacket(path, amount, pair)
    PROVE  WindowInv'
<1> DEFINE packet == [channel |-> path.channel, sequence |-> nextSequence[path.channel],
                      denom |-> path.denom, amount |-> amount,
                      counted |-> Limited(path, pair)]
<1>1. \/ /\ Limited(path, pair) /\ UpdateFlow("PACKET_SEND", path, amount) /\ Count(packet)
      \/ ~ Limited(path, pair) /\ UNCHANGED <<rateLimits, history>>
  BY DEF SendPacket
<1>2. SetPendingSendPacket(packet, Limited(path, pair))
  BY DEF SendPacket
<1>3. PathOf(packet) = path /\ packet.amount = amount
  BY DEF PathOf, Path
<1> HIDE DEF packet
<1>4. CASE Limited(path, pair) /\ UpdateFlow("PACKET_SEND", path, amount) /\ Count(packet)
  <2>1. path \in DOMAIN rateLimits /\ rateLimits[path] \in RateLimit /\ amount \in Nat
    BY <1>4, NumberAssumption DEF Limited, Found, TypeOK
  <2>2. /\ pending' = pending \cup {IDOf(packet)}
        /\ live' = live \cup {packet}
        /\ netSent' = [netSent EXCEPT ![path] = @ + amount]
    BY <1>2, <1>3, <1>4 DEF SetPendingSendPacket, Count
  <2>3. /\ DOMAIN rateLimits' = DOMAIN rateLimits
        /\ rateLimits'[path] = AddFlow("PACKET_SEND", rateLimits[path], amount)
        /\ \A p \in DOMAIN rateLimits \ {path} : rateLimits'[p] = rateLimits[p]
    BY <1>4, <2>1, UpdateFlowType
  <2>4. rateLimits'[path].flow.outflow = rateLimits[path].flow.outflow + amount
    BY <2>1, <2>3, AddFlowFields DEF Direction
  <2>5. rateLimits[path].flow.outflow \in Int /\ netSent[path] \in Int
    BY <2>1 DEF TypeOK, RateLimit, Flow
  <2>6. netSent'[path] = netSent[path] + amount
        /\ \A p \in Path \ {path} : netSent'[p] = netSent[p]
    BY <2>2 DEF TypeOK
  <2>7. netSent'[path] <= rateLimits'[path].flow.outflow
    BY <2>1, <2>4, <2>5, <2>6 DEF WindowInv
  <2>8. \A p \in DOMAIN rateLimits' : netSent'[p] <= rateLimits'[p].flow.outflow
    BY <2>3, <2>6, <2>7 DEF WindowInv, TypeOK
  <2>9. \A p \in live' : PathOf(p) \in DOMAIN rateLimits'
    BY <1>3, <2>1, <2>2, <2>3 DEF WindowInv
  <2>10. \A id \in pending' : \E p \in live' : IDOf(p) = id
    BY <2>2 DEF WindowInv, PendingSentDuringCurrentQuota
  <2> QED  BY <2>8, <2>9, <2>10 DEF WindowInv, PendingSentDuringCurrentQuota, IDOf, PathOf
<1>5. CASE ~ Limited(path, pair) /\ UNCHANGED <<rateLimits, history>>
  <2>1. pending' = pending
    BY <1>2, <1>5 DEF SetPendingSendPacket
  <2> QED  BY <1>5, <2>1 DEF WindowInv, PendingSentDuringCurrentQuota, IDOf, PathOf, history
<1> QED  BY <1>1, <1>4, <1>5

LEMMA WindowRecv ==
    ASSUME TypeOK, WindowInv, NEW path \in Path, NEW amount \in Amount, NEW pair \in Pairs,
           RecvPacket(path, amount, pair)
    PROVE  WindowInv'
<1>1. /\ path \in DOMAIN rateLimits /\ rateLimits[path] \in RateLimit /\ amount \in Nat
      /\ UpdateFlow("PACKET_RECV", path, amount)
  BY NumberAssumption DEF RecvPacket, Limited, Found, TypeOK
<1>2. /\ DOMAIN rateLimits' = DOMAIN rateLimits
      /\ rateLimits'[path] = AddFlow("PACKET_RECV", rateLimits[path], amount)
      /\ \A p \in DOMAIN rateLimits \ {path} : rateLimits'[p] = rateLimits[p]
  BY <1>1, UpdateFlowType
<1>3. rateLimits'[path].flow.outflow = rateLimits[path].flow.outflow
  BY <1>1, <1>2, AddFlowFields DEF Direction
<1>4. pending' = pending /\ live' = live /\ netSent' = netSent
  BY DEF RecvPacket, history
<1> QED  BY <1>2, <1>3, <1>4 DEF WindowInv, PendingSentDuringCurrentQuota, IDOf, PathOf

LEMMA WindowSuccess ==
    ASSUME WindowInv, NEW packet \in commitments, AckSuccess(packet)
    PROVE  WindowInv'
<1>1. /\ pending' = pending \ {IDOf(packet)} /\ live' = live \ {packet}
      /\ netSent' = netSent /\ rateLimits' = rateLimits
  BY DEF AckSuccess, Settle
<1> QED  BY <1>1 DEF WindowInv, PendingSentDuringCurrentQuota, IDOf, PathOf

LEMMA WindowFailure ==
    ASSUME TypeOK, PacketInv, WindowInv, NEW packet \in commitments, SendFailed(packet)
    PROVE  WindowInv'
<1> DEFINE path == PathOf(packet)
<1>1. packet \in Packet /\ packet.amount \in Nat /\ path \in Path
  BY DEF TypeOK, Packet, PathOf, Path
<1>2. /\ live' = live \ {packet}
      /\ netSent' = IF packet \in live THEN [netSent EXCEPT ![path] = @ - packet.amount]
                                       ELSE netSent
  BY DEF SendFailed, Settle
<1>3. IDOf(packet) \in pending => packet \in live
  <2>1. SUFFICES ASSUME IDOf(packet) \in pending PROVE packet \in live
    OBVIOUS
  <2>2. PICK p \in live : IDOf(p) = IDOf(packet)
    BY <2>1 DEF WindowInv, PendingSentDuringCurrentQuota
  <2> QED  BY <2>2 DEF PacketInv
<1>4. packet \in live => Found(path)
  BY DEF WindowInv, Found
<1>5. pending' = pending \ {IDOf(packet)}
  BY <1>3, <1>4 DEF SendFailed, UndoSendPacket, store
<1>6. DOMAIN rateLimits' = DOMAIN rateLimits
  BY <1>1, UndoType DEF SendFailed
<1>7. \A p \in DOMAIN rateLimits' : netSent'[p] <= rateLimits'[p].flow.outflow
  <2>1. \A p \in Path : netSent[p] \in Int
    BY DEF TypeOK
  <2>2. \A p \in DOMAIN rateLimits : p \in Path /\ rateLimits[p] \in RateLimit
                                     /\ rateLimits[p].flow.outflow \in Int
    BY DEF TypeOK, RateLimit, Flow
  <2>3. CASE IDOf(packet) \in pending
    <3>1. /\ path \in DOMAIN rateLimits
          /\ rateLimits' = [rateLimits EXCEPT ![path].flow.outflow = @ - packet.amount]
      BY <1>3, <1>4, <2>3 DEF SendFailed, UndoSendPacket, Found
    <3>2. netSent'[path] = netSent[path] - packet.amount
          /\ \A p \in Path \ {path} : netSent'[p] = netSent[p]
      BY <1>1, <1>2, <1>3, <2>3 DEF TypeOK
    <3>3. /\ rateLimits'[path] = [rateLimits[path] EXCEPT !.flow.outflow = @ - packet.amount]
          /\ \A p \in DOMAIN rateLimits \ {path} : rateLimits'[p] = rateLimits[p]
      BY <3>1
    <3>4. rateLimits'[path].flow.outflow = rateLimits[path].flow.outflow - packet.amount
      <4> DEFINE old == rateLimits[path]
      <4>1. old \in RateLimit /\ packet.amount \in Nat
        BY <1>1, <2>2, <3>1
      <4> HIDE DEF old
      <4>2. [old EXCEPT !.flow.outflow = @ - packet.amount].flow.outflow
              = old.flow.outflow - packet.amount
        BY <4>1, LowerOutflow
      <4> QED  BY <3>3, <4>2 DEF old
    <3>5. netSent'[path] <= rateLimits'[path].flow.outflow
      BY <1>1, <2>1, <2>2, <3>1, <3>2, <3>4 DEF WindowInv
    <3> QED  BY <1>6, <2>2, <3>2, <3>3, <3>5 DEF WindowInv
  <2>4. CASE IDOf(packet) \notin pending
    <3>1. rateLimits' = rateLimits
      BY <2>4 DEF SendFailed, UndoSendPacket, store
    <3>2. \A p \in Path : netSent'[p] \in Int /\ netSent'[p] <= netSent[p]
      BY <1>1, <1>2, <2>1 DEF TypeOK
    <3>3. \A p \in DOMAIN rateLimits : netSent[p] <= rateLimits[p].flow.outflow
      BY DEF WindowInv
    <3> QED  BY <2>1, <2>2, <3>1, <3>2, <3>3
  <2> QED  BY <2>3, <2>4
<1>8. \A id \in pending' : \E p \in live' : IDOf(p) = id
  BY <1>2, <1>5 DEF WindowInv, PendingSentDuringCurrentQuota
<1>9. \A p \in live' : PathOf(p) \in DOMAIN rateLimits'
  BY <1>2, <1>6 DEF WindowInv
<1> QED  BY <1>7, <1>8, <1>9 DEF WindowInv, PendingSentDuringCurrentQuota, IDOf, PathOf

LEMMA WindowReset ==
    ASSUME TypeOK, WindowInv, NEW paths \in SUBSET DOMAIN rateLimits, ResetRateLimits(paths)
    PROVE  WindowInv'
<1>1. /\ pending' = PendingWithout(paths)
      /\ live' = {packet \in live : PathOf(packet) \notin paths}
      /\ netSent' = [p \in Path |-> IF p \in paths THEN 0 ELSE netSent[p]]
  BY DEF ResetRateLimits, EndWindows
<1>2. \A id \in pending' : \E p \in live' : IDOf(p) = id
  <2>1. SUFFICES ASSUME NEW id \in pending' PROVE \E p \in live' : IDOf(p) = id
    OBVIOUS
  <2>2. id \in pending /\ \A p \in paths : <<p.channel, id.channel>> \notin IDPrefix
    BY <1>1, <2>1 DEF PendingWithout
  <2>3. PICK q \in live : IDOf(q) = id
    BY <2>2 DEF WindowInv, PendingSentDuringCurrentQuota
  <2>4. PathOf(q).channel = id.channel /\ id.channel \in Channel
    BY <2>2, <2>3 DEF PathOf, IDOf, TypeOK, PacketID
  <2>5. PathOf(q) \notin paths
    BY <2>2, <2>4, PrefixAssumption
  <2> QED  BY <1>1, <2>3, <2>5
<1>3. \A p \in DOMAIN rateLimits' : netSent'[p] <= rateLimits'[p].flow.outflow
  <2>1. \A p \in paths : p \in Path
    BY DEF TypeOK
  <2>2. \A p \in paths : netSent'[p] = 0 /\ rateLimits'[p].flow.outflow = 0
    BY <1>1, <2>1, ResetType
  <2>3. \A p \in DOMAIN rateLimits \ paths : /\ netSent'[p] = netSent[p]
                                             /\ rateLimits'[p] = rateLimits[p]
    BY <1>1, ResetType DEF TypeOK
  <2> QED  BY <2>2, <2>3, ResetType DEF WindowInv
<1>4. \A p \in live' : PathOf(p) \in DOMAIN rateLimits'
  BY <1>1, ResetType DEF WindowInv
<1> QED  BY <1>2, <1>3, <1>4 DEF WindowInv, PendingSentDuringCurrentQuota, IDOf, PathOf

LEMMA WindowAdd ==
    ASSUME TypeOK, WindowInv, NEW path \in Path, NEW quota \in Quotas,
           NEW minAmount \in MinAmounts, AddRateLimit(path, quota, minAmount)
    PROVE  WindowInv'
<1> DEFINE target == Resolve(path)
           limit == [quota |-> quota, minAmount |-> minAmount,
                     flow |-> NewFlow(GetChannelValue(target.denom))]
<1>1. target \in Path /\ target.denom \in Denom
  BY ResolveType DEF Path
<1>2. /\ ValidateBasic(quota, minAmount) /\ SetRateLimit(target, limit)
      /\ target \notin DOMAIN rateLimits
      /\ EndWindows({target}) /\ pending' = pending
  BY DEF AddRateLimit, Found
<1>3. limit \in RateLimit /\ limit.flow.outflow = 0
  BY <1>1, <1>2, NewLimitType
<1> HIDE DEF target, limit
<1>4. /\ DOMAIN rateLimits' = DOMAIN rateLimits \cup {target}
      /\ rateLimits'[target] = limit
      /\ \A p \in DOMAIN rateLimits \ {target} : rateLimits'[p] = rateLimits[p]
  BY <1>1, <1>2, <1>3, SetRateLimitType
<1>5. live' = live
  BY <1>2 DEF EndWindows, WindowInv
<1>6. netSent'[target] = 0 /\ \A p \in DOMAIN rateLimits : netSent'[p] = netSent[p]
  BY <1>1, <1>2 DEF EndWindows, TypeOK
<1>7. \A p \in DOMAIN rateLimits' : netSent'[p] <= rateLimits'[p].flow.outflow
  BY <1>2, <1>3, <1>4, <1>6 DEF WindowInv
<1> QED  BY <1>2, <1>4, <1>5, <1>7 DEF WindowInv, PendingSentDuringCurrentQuota, IDOf, PathOf

LEMMA WindowNext ==
    ASSUME KeepsWindows, TypeOK, PacketInv, WindowInv, [Next]_vars
    PROVE  WindowInv'
<1>1. CASE PacketStep
  BY <1>1, WindowSend, WindowRecv, WindowSuccess, WindowFailure
     DEF PacketStep, AckError, TimeoutPacket
<1>2. CASE MsgStep
  <2>1. ASSUME NEW path \in Path, ResetRateLimit(path) PROVE WindowInv'
    <3>1. {Resolve(path)} \in SUBSET DOMAIN rateLimits /\ ResetRateLimits({Resolve(path)})
      BY <2>1 DEF ResetRateLimit, Found
    <3> QED  BY <3>1, WindowReset
  <2>2. /\ \A path \in Path : ~ RemoveRateLimit(path)
        /\ \A path \in Path, quota \in Quotas, minAmount \in MinAmounts :
              ~ UpdateRateLimit(path, quota, minAmount)
    BY DEF KeepsWindows, RemoveRateLimit, UpdateRateLimit
  <2> QED  BY <1>2, <2>1, <2>2, WindowAdd DEF MsgStep
<1>3. CASE BlockStep
  <2>1. AfterEpochEnd(epochInfo.current) \/ UNCHANGED <<store, history>>
    BY <1>3 DEF BlockStep, BeginBlocker
  <2>2. CASE AfterEpochEnd(epochInfo.current)
    BY <2>2, DueFound, WindowReset DEF AfterEpochEnd
  <2>3. CASE UNCHANGED <<store, history>>
    BY <2>3 DEF store, history, WindowInv, PendingSentDuringCurrentQuota, IDOf, PathOf
  <2> QED  BY <2>1, <2>2, <2>3
<1>4. CASE NeighbourStep \/ Restart \/ UNCHANGED vars
  BY <1>4 DEF NeighbourStep, Restart, AddParachainIBCInfo, RemoveParachainIBCInfo, SupplyChanges,
              store, history, vars, WindowInv, PendingSentDuringCurrentQuota, IDOf, PathOf
<1> QED  BY <1>1, <1>2, <1>3, <1>4 DEF Next

LEMMA WindowCorrect == ASSUME KeepsWindows PROVE Spec => []WindowInv
<1>1. Init => WindowInv
  BY DEF Init, WindowInv, PendingSentDuringCurrentQuota
<1>2. TypeOK /\ PacketInv /\ WindowInv /\ [Next]_vars => WindowInv'
  BY WindowNext
<1> QED  BY <1>1, <1>2, TypeCorrect, PacketCorrect, PTL DEF Spec

(* While limits are only added and reset, an entry found by                *)
(* CheckPacketSentDuringCurrentQuota was counted by the current window.    *)
THEOREM PendingIsCurrent ==
    ASSUME KeepsWindows PROVE Spec => []PendingSentDuringCurrentQuota
<1>1. WindowInv => PendingSentDuringCurrentQuota
  BY DEF WindowInv
<1> QED  BY <1>1, WindowCorrect, PTL

(* While limits are only added and reset, the value a window really lets   *)
(* out, less what it lets in, stays within the threshold of its quota      *)
(* (AddOutflow, UndoSendPacket, ResetRateLimit).                           *)
THEOREM WindowsKeepQuota == ASSUME KeepsWindows PROVE Spec => []WindowWithinQuota
<1>1. ASSUME TypeOK, WindowInv, NetOutflowWithinQuota PROVE WindowWithinQuota
  <2>1. ASSUME NEW p \in DOMAIN rateLimits
        PROVE  UnderQuota(rateLimits[p], netSent[p] - rateLimits[p].flow.inflow)
    <3>1. /\ rateLimits[p] \in RateLimit /\ netSent[p] \in Int
          /\ rateLimits[p].flow.inflow \in Int /\ rateLimits[p].flow.outflow \in Int
      BY <1>1, <2>1 DEF TypeOK, RateLimit, Flow
    <3>2. UnderQuota(rateLimits[p], rateLimits[p].flow.outflow - rateLimits[p].flow.inflow)
      BY <1>1 DEF NetOutflowWithinQuota, UnderQuota, NetOutflow
    <3>3. netSent[p] <= rateLimits[p].flow.outflow
      BY <1>1 DEF WindowInv
    <3> QED  BY <3>1, <3>2, <3>3, UnderQuotaBasics
  <2> QED  BY <2>1 DEF WindowWithinQuota, UnderQuota
<1> QED  BY <1>1, TypeCorrect, WindowCorrect, StoreWithinQuota, PTL

-----------------------------------------------------------------------------
(* Failed packets are credited.  One denom per channel and no channel ID   *)
(* that is a prefix of another: otherwise a reset drops the pending        *)
(* packets of other limits and the property is false.                      *)

Separate ==
    /\ \A d, e \in Denom : d = e
    /\ \A pair \in IDPrefix : pair[1] = pair[2]

LEMMA UndoReset ==
    ASSUME Separate, TypeOK, CountedCanBeUndone,
           NEW paths \in SUBSET DOMAIN rateLimits, ResetRateLimits(paths)
    PROVE  CountedCanBeUndone'
<1>1. /\ pending' = PendingWithout(paths)
      /\ live' = {packet \in live : PathOf(packet) \notin paths}
  BY DEF ResetRateLimits, EndWindows
<1>2. ASSUME NEW packet \in live'
      PROVE  IDOf(packet) \in pending'
  <2>1. packet \in live /\ PathOf(packet) \notin paths /\ IDOf(packet) \in pending
    BY <1>1, <1>2 DEF CountedCanBeUndone
  <2>2. PathOf(packet) \in Path /\ PathOf(packet).channel = IDOf(packet).channel
    BY <2>1 DEF TypeOK, Packet, PathOf, IDOf, Path
  <2>3. ASSUME NEW p \in paths PROVE <<p.channel, IDOf(packet).channel>> \notin IDPrefix
    <3>1. p \in Path
      BY <2>3 DEF TypeOK
    <3>2. p.channel = PathOf(packet).channel => p = PathOf(packet)
      BY <2>2, <3>1 DEF Separate, Path
    <3>3. p.channel # IDOf(packet).channel
      BY <2>1, <2>2, <2>3, <3>2
    <3> QED  BY <3>3 DEF Separate
  <2> QED  BY <1>1, <2>1, <2>3 DEF PendingWithout
<1> QED  BY <1>2 DEF CountedCanBeUndone, IDOf

LEMMA UndoNext ==
    ASSUME Separate, TypeOK, PacketInv, CountedCanBeUndone, [Next]_vars
    PROVE  CountedCanBeUndone'
<1>1. ASSUME NEW path \in Path, NEW amount \in Amount, NEW pair \in Pairs,
             SendPacket(path, amount, pair)
      PROVE  CountedCanBeUndone'
  <2> DEFINE packet == [channel |-> path.channel, sequence |-> nextSequence[path.channel],
                        denom |-> path.denom, amount |-> amount,
                        counted |-> Limited(path, pair)]
  <2>1. /\ \/ Limited(path, pair) /\ Count(packet)
           \/ ~ Limited(path, pair) /\ UNCHANGED history
        /\ SetPendingSendPacket(packet, Limited(path, pair))
    BY <1>1 DEF SendPacket
  <2> HIDE DEF packet
  <2>2. \A p \in live' : IDOf(p) \in pending'
    BY <2>1 DEF Count, SetPendingSendPacket, history, CountedCanBeUndone
  <2> QED  BY <2>2 DEF CountedCanBeUndone, IDOf
<1>2. ASSUME NEW packet \in commitments,
             AckSuccess(packet) \/ AckError(packet) \/ TimeoutPacket(packet)
      PROVE  CountedCanBeUndone'
  <2>1. live' = live \ {packet}
    BY <1>2 DEF AckSuccess, AckError, TimeoutPacket, SendFailed, Settle
  <2>2. pending \ {IDOf(packet)} \subseteq pending'
    BY <1>2 DEF AckSuccess, AckError, TimeoutPacket, SendFailed, UndoSendPacket, store
  <2>3. \A p \in live' : IDOf(p) # IDOf(packet)
    BY <2>1 DEF PacketInv
  <2>4. \A p \in live' : IDOf(p) \in pending'
    BY <2>1, <2>2, <2>3 DEF CountedCanBeUndone
  <2> QED  BY <2>4 DEF CountedCanBeUndone, IDOf
<1>3. ASSUME NEW paths, EndWindows(paths), pending' = pending
      PROVE  CountedCanBeUndone'
  BY <1>3 DEF EndWindows, CountedCanBeUndone, IDOf
<1>4. CASE PacketStep
  <2>1. ASSUME NEW path \in Path, NEW amount \in Amount, NEW pair \in Pairs,
               RecvPacket(path, amount, pair)
        PROVE  CountedCanBeUndone'
    BY <2>1 DEF RecvPacket, history, CountedCanBeUndone, IDOf
  <2> QED  BY <1>1, <1>2, <1>4, <2>1 DEF PacketStep
<1>5. CASE MsgStep
  <2>1. ASSUME NEW path \in Path, ResetRateLimit(path) PROVE CountedCanBeUndone'
    <3>1. {Resolve(path)} \in SUBSET DOMAIN rateLimits /\ ResetRateLimits({Resolve(path)})
      BY <2>1 DEF ResetRateLimit, Found
    <3> QED  BY <3>1, UndoReset
  <2>2. ASSUME NEW path \in Path, RemoveRateLimit(path) PROVE CountedCanBeUndone'
    BY <1>3, <2>2 DEF RemoveRateLimit
  <2>3. ASSUME NEW path \in Path, NEW quota \in Quotas, NEW minAmount \in MinAmounts,
               AddRateLimit(path, quota, minAmount) \/ UpdateRateLimit(path, quota, minAmount)
        PROVE  CountedCanBeUndone'
    BY <1>3, <2>3 DEF AddRateLimit, UpdateRateLimit
  <2> QED  BY <1>5, <2>1, <2>2, <2>3 DEF MsgStep
<1>6. CASE BlockStep
  <2>1. AfterEpochEnd(epochInfo.current) \/ UNCHANGED <<store, history>>
    BY <1>6 DEF BlockStep, BeginBlocker
  <2>2. CASE AfterEpochEnd(epochInfo.current)
    BY <2>2, DueFound, UndoReset DEF AfterEpochEnd
  <2>3. CASE UNCHANGED <<store, history>>
    BY <2>3 DEF store, history, CountedCanBeUndone, IDOf
  <2> QED  BY <2>1, <2>2, <2>3
<1>7. CASE NeighbourStep \/ Restart \/ UNCHANGED vars
  BY <1>7 DEF NeighbourStep, Restart, AddParachainIBCInfo, RemoveParachainIBCInfo, SupplyChanges,
              store, history, vars, CountedCanBeUndone, IDOf
<1> QED  BY <1>4, <1>5, <1>6, <1>7 DEF Next

(* With one denom per channel and no channel ID a prefix of another, every *)
(* packet that the current window counted is found pending when it fails,  *)
(* whatever messages the authority sends (UndoSendPacket,                  *)
(* RemoveAllChannelPendingSendPackets).                                    *)
THEOREM FailuresAreCredited == ASSUME Separate PROVE Spec => []CountedCanBeUndone
<1>1. Init => CountedCanBeUndone
  BY DEF Init, CountedCanBeUndone
<1>2. TypeOK /\ PacketInv /\ CountedCanBeUndone /\ [Next]_vars => CountedCanBeUndone'
  BY UndoNext
<1> QED  BY <1>1, <1>2, TypeCorrect, PacketCorrect, PTL DEF Spec
=============================================================================
