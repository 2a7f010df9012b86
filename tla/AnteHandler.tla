---------------------------- MODULE AnteHandler ----------------------------
(***************************************************************************)
(* The ante handler of this chain, as far as it is its own: the decorator  *)
(* that looks the relayers of wasm client updates up in the allow list     *)
(* x/transfermiddleware keeps, followed by that of x/tx-boundary.          *)
(*                                                                         *)
(* A transaction is told by the wasm client updates in it, each with its   *)
(* signer and the number of authz MsgExecs around it, and by its staking   *)
(* messages.                                                               *)
(***************************************************************************)
EXTENDS TxBoundary

CONSTANTS
    Relayer,            \* addresses that sign client updates
    UpgradeLists,       \* the lists an upgrade handler may have left
    AnteTxs,            \* [updates : SUBSET Update, staking : Seq(Msg)]
    Restarts            \* whether the chain may be restarted from an export

Update == [signer : Relayer, depth : Nat]

ASSUME AnteAssumption ==
    /\ UpgradeLists \subseteq SUBSET Relayer
    /\ AnteTxs \subseteq [updates : SUBSET Update, staking : Txs]
    /\ Restarts \in BOOLEAN

VARIABLE
    relayers            \* the allow list

anteVars == <<vars, relayers>>

(* Between two transactions. *)
Quiet == branch.msgs = <<>>

(* HasAllowRlyAddress: an empty list allows everyone. *)
HasAllowRlyAddress(a) == a \in relayers \/ relayers = {}

(* ValidateIBCUpdateClientMsg, validMsg, validAuthz.  A MsgExec is looked  *)
(* into; a MsgExec in it is to validMsg a message like any other.          *)
ValidateIBCUpdateClientMsg(tx) ==
    \A u \in tx.updates : u.depth <= 1 => HasAllowRlyAddress(u.signer)

(* The decorators in their order; the second one goes on in Accept and     *)
(* Deny.  A transaction the first one denies leaves no trace.              *)
Receive(tx) ==
    /\ Quiet
    /\ ValidateIBCUpdateClientMsg(tx)
    /\ AnteHandle(tx.staking)
    /\ UNCHANGED relayers

AcceptStaking == Accept /\ UNCHANGED relayers

DenyStaking == Deny /\ UNCHANGED relayers

(* Only what is in the list itself is refused. *)
MutAddUnlisted(a) ==
    /\ Quiet
    /\ a \notin relayers
    /\ relayers' = relayers \cup {a}
    /\ UNCHANGED vars

(* The authority's message AddRlyAddress: an address that is allowed, and  *)
(* with an empty list all are, is refused.  No message removes one.        *)
AddRlyAddress(a) ==
    /\ Quiet
    /\ ~ HasAllowRlyAddress(a)
    /\ relayers' = relayers \cup {a}
    /\ UNCHANGED vars

Block == Quiet /\ NextBlock /\ UNCHANGED relayers

(* The chain is started again from an export, which holds neither the list *)
(* nor the counts.  The history of what was let through starts anew.       *)
Restart ==
    /\ Restarts
    /\ Quiet
    /\ relayers' = {}
    /\ limits' = [a \in Addr |-> [count |-> [k \in Kind |-> 0], age |-> Never]]
    /\ level' = [k \in Kind |-> [a \in Addr |-> 0]]
    /\ branch' = [msgs |-> <<>>, limits |-> limits', level |-> level']

-----------------------------------------------------------------------------
AnteInit ==
    /\ Init
    /\ relayers \in UpgradeLists

AnteNext ==
    \/ \E tx \in AnteTxs : Receive(tx)
    \/ AcceptStaking \/ DenyStaking
    \/ \E a \in Relayer : AddRlyAddress(a)
    \/ Block \/ Restart

(* A transaction is worked to its end, and blocks keep coming. *)
AnteSpec ==
    /\ AnteInit
    /\ [][AnteNext]_anteVars
    /\ WF_anteVars(AcceptStaking) /\ WF_anteVars(DenyStaking)
    /\ SF_anteVars(Block)

-----------------------------------------------------------------------------
(* No message and no restart takes from a relayer the permission it has:   *)
(* that AddRlyAddress starts no list is what keeps the first address from  *)
(* shutting out all others (AddRlyAddress, HasAllowRlyAddress).            *)
NoRelayerShutOut ==
    [][\A a \in Relayer : HasAllowRlyAddress(a) => HasAllowRlyAddress(a)']_anteVars
=============================================================================
