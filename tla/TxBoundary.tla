----------------------------- MODULE TxBoundary -----------------------------
(***************************************************************************)
(* x/tx-boundary: an ante decorator that bounds how many delegations and   *)
(* redelegations an address may make.  Every address has a count of each   *)
(* kind; a count grows with every message and shrinks as blocks pass.      *)
(*                                                                         *)
(* The message server that would change the boundaries does not exist      *)
(* (keeper/msg_server.go is empty and its registration commented out), so  *)
(* the boundaries of genesis are constants.                                *)
(*                                                                         *)
(* Block height is relative: age is the height less LatestUpdateBlock, and *)
(* Never for an address that has no entry in the store.                    *)
(*                                                                         *)
(* A transaction's messages are validated one after the other on a branch  *)
(* of the store, which is written when all pass and dropped otherwise.     *)
(***************************************************************************)
EXTENDS Integers, Sequences

CONSTANTS
    Addr,               \* delegators
    DelegateBoundary,   \* [txLimit, blocksPerGeneration]
    RedelegateBoundary,
    Txs                 \* transactions: sequences of [kind, delegator], the
                        \* messages nested in an authz MsgExec in their place

Kind == {"delegate", "redelegate"}

BoundaryType == [txLimit : Nat, blocksPerGeneration : Nat \ {0}]

Msg == [kind : Kind, delegator : Addr]

ASSUME BoundaryAssumption ==
    DelegateBoundary \in BoundaryType /\ RedelegateBoundary \in BoundaryType

ASSUME TxAssumption == Txs \subseteq Seq(Msg)

BoundaryOf(kind) == IF kind = "delegate" THEN DelegateBoundary ELSE RedelegateBoundary

(* A txLimit of zero means no limit. *)
Bounded(kind) == BoundaryOf(kind).txLimit # 0

(* The most that one update gives back. *)
MaxGenerated == 5

(* The age beyond which no update can tell the difference. *)
MaxAge == MaxGenerated * DelegateBoundary.blocksPerGeneration

Never == -1

VARIABLES
    limits,     \* [Addr -> LimitPerAddr]: the committed store
    branch,     \* the transaction in work: messages left, its view of the store
    level       \* history: [Kind -> [Addr -> Nat]], a bucket that every
                \* accepted message fills with the blocks its own boundary
                \* asks for, and that every block drains by one

vars == <<limits, branch, level>>

LimitPerAddr == [count : [Kind -> Nat], age : Never..MaxAge]

Idle == [msgs |-> <<>>, limits |-> limits, level |-> level]

Smaller(m, n) == IF m < n THEN m ELSE n
Less(m, n) == IF m < n THEN 0 ELSE m - n

-----------------------------------------------------------------------------
(* The clock restarts with every message, due or not. *)
MutRestartClock(limit) ==
    LET generated == Smaller(MaxGenerated, limit.age \div DelegateBoundary.blocksPerGeneration)
    IN  IF limit.age = Never THEN limit
        ELSE [count |-> [k \in Kind |-> Less(limit.count[k], generated)], age |-> 0]

(* The clock is not restarted. *)
MutKeepClock(limit) ==
    LET generated == Smaller(MaxGenerated, limit.age \div DelegateBoundary.blocksPerGeneration)
    IN  IF limit.age < DelegateBoundary.blocksPerGeneration THEN limit
        ELSE [limit EXCEPT !.count = [k \in Kind |-> Less(limit.count[k], generated)]]

(* UpdateLimitPerAddr: both counts shrink at the pace of the boundary for  *)
(* delegations, and the clock restarts.                                    *)
UpdateLimitPerAddr(limit) ==
    LET generated == Smaller(MaxGenerated, limit.age \div DelegateBoundary.blocksPerGeneration)
    IN  IF limit.age < DelegateBoundary.blocksPerGeneration THEN limit
        ELSE [count |-> [k \in Kind |-> Less(limit.count[k], generated)], age |-> 0]

(* IncrementDelegateCount, IncrementRedelegateCount: the first message of  *)
(* an address starts its clock.                                            *)
Increment(limit, kind) ==
    [count |-> [limit.count EXCEPT ![kind] = @ + 1],
     age   |-> IF limit.age = Never THEN 0 ELSE limit.age]

(* One message too many passes. *)
MutOneTooMany(limit, kind) ==
    Bounded(kind) => limit.count[kind] <= BoundaryOf(kind).txLimit

(* The comparison of validDelegateMsg and validRedelegateMsg. *)
Allowed(limit, kind) == Bounded(kind) => limit.count[kind] < BoundaryOf(kind).txLimit

-----------------------------------------------------------------------------
(* A transaction reaches the decorator. *)
AnteHandle(tx) ==
    /\ branch.msgs = <<>>
    /\ branch' = [Idle EXCEPT !.msgs = tx]
    /\ UNCHANGED <<limits, level>>

(* The branch of the store is written once no message is left. *)
WriteWhenDone(after) ==
    /\ branch' = after
    /\ limits' = IF after.msgs = <<>> THEN after.limits ELSE limits
    /\ level' = IF after.msgs = <<>> THEN after.level ELSE level

(* ValidateStakingMsg returns no error for the next message. *)
Accept ==
    LET msg     == Head(branch.msgs)
        updated == UpdateLimitPerAddr(branch.limits[msg.delegator])
    IN  /\ branch.msgs # <<>>
        /\ Allowed(updated, msg.kind)
        /\ WriteWhenDone(
             [msgs   |-> Tail(branch.msgs),
              limits |-> [branch.limits EXCEPT ![msg.delegator] =
                            IF Bounded(msg.kind) THEN Increment(updated, msg.kind)
                                                 ELSE updated],
              level  |-> IF Bounded(msg.kind)
                         THEN [branch.level EXCEPT ![msg.kind][msg.delegator] =
                                 @ + BoundaryOf(msg.kind).blocksPerGeneration]
                         ELSE branch.level])

(* It returns an error: the transaction is over, its branch dropped. *)
Deny ==
    LET msg == Head(branch.msgs)
    IN  /\ branch.msgs # <<>>
        /\ ~ Allowed(UpdateLimitPerAddr(branch.limits[msg.delegator]), msg.kind)
        /\ branch' = Idle
        /\ UNCHANGED <<limits, level>>

(* The next block: the height grows by one. *)
NextBlock ==
    LET aged    == [a \in Addr |->
                      [limits[a] EXCEPT !.age = IF @ = Never THEN Never
                                                ELSE Smaller(@ + 1, MaxAge)]]
        drained == [k \in Kind |-> [a \in Addr |-> Less(level[k][a], 1)]]
    IN  /\ branch.msgs = <<>>
        /\ limits' = aged
        /\ level' = drained
        /\ branch' = [msgs |-> <<>>, limits |-> aged, level |-> drained]

-----------------------------------------------------------------------------
(* InitGenesis writes the boundaries and no address. *)
Init ==
    /\ limits = [a \in Addr |-> [count |-> [k \in Kind |-> 0], age |-> Never]]
    /\ level = [k \in Kind |-> [a \in Addr |-> 0]]
    /\ branch = Idle

Next == (\E tx \in Txs : AnteHandle(tx)) \/ Accept \/ Deny \/ NextBlock

Spec == Init /\ [][Next]_vars

-----------------------------------------------------------------------------
(* Properties.                                                             *)

StoreType == [Addr -> [count : [Kind -> Nat], age : Never..MaxAge]]
LevelType == [Kind -> [Addr -> Nat]]

(* The entries of the store: no count beyond its limit, no entry without   *)
(* a clock.                                                                *)
TypeOK ==
    /\ limits \in StoreType
    /\ level \in LevelType
    /\ branch \in [msgs : Seq(Msg), limits : StoreType, level : LevelType]
    /\ \A a \in Addr, k \in Kind :
          limits[a].count[k] <= BoundaryOf(k).txLimit

(* An address never gets through more than its boundary allows: over any W *)
(* blocks at most txLimit + (W + blocksPerGeneration - 1) \div             *)
(* blocksPerGeneration messages, however they fall between the updates of  *)
(* UpdateLimitPerAddr, which drop the blocks that make no whole generation *)
(* and which messages of the other kind trigger as well.                   *)
WithinRate ==
    \A a \in Addr, k \in Kind :
        Bounded(k) =>
            level[k][a] < (BoundaryOf(k).txLimit + 1) * BoundaryOf(k).blocksPerGeneration

(* An address that has used up its limit is let through again, whatever    *)
(* else it sends meanwhile.                                                *)
LetThroughAgain ==
    \A a \in Addr, k \in Kind : []<>Allowed(UpdateLimitPerAddr(limits[a]), k)
=============================================================================
