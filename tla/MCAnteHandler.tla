---------------------------- MODULE MCAnteHandler ---------------------------
(* Instances of AnteHandler, and of TxBoundary within it, for TLC. *)
EXTENDS AnteHandler, TLC

CONSTANTS alice, bob, rly1, rly2

TwoBlocks == [txLimit |-> 2, blocksPerGeneration |-> 2]
OneEach == [txLimit |-> 1, blocksPerGeneration |-> 2]
ThreeBlocks == [txLimit |-> 2, blocksPerGeneration |-> 3]
Unbounded == [txLimit |-> 0, blocksPerGeneration |-> 2]
Beyond == [txLimit |-> 6, blocksPerGeneration |-> 2]

SingleTxs == {<<m>> : m \in Msg}

(* One message, or two of them in a transaction or in an authz MsgExec. *)
PairTxs == SingleTxs \cup {<<m, n>> : m \in Msg, n \in Msg}

(* Client updates alone, beside a delegation, in a MsgExec, in a MsgExec   *)
(* within another, of several signers; and staking alone.                  *)
MCUpdates == {{}, {[signer |-> rly1, depth |-> 0]},
              {[signer |-> rly1, depth |-> 0], [signer |-> rly2, depth |-> 1]},
              {[signer |-> rly2, depth |-> 2]}}

MCAnteTxs ==
    [updates : {{}}, staking : PairTxs]
    \cup [updates : MCUpdates,
          staking : {<<>>, <<[kind |-> "delegate", delegator |-> alice]>>}]

WithEmpty == PairTxs \cup {<<>>}

(* Staking messages alone, one to a transaction. *)
StakingOnly == [updates : {{}}, staking : SingleTxs]

NoList == {{}}

MCLists == {{}, {rly1}}
=============================================================================
