------------------------- MODULE AnteHandlerProofs --------------------------
(* Theorems about AnteHandler: the bounds of x/tx-boundary hold behind the *)
(* decorator of the relayers, and no relayer is shut out.                  *)
EXTENDS AnteHandler, TxBoundaryProofs

-----------------------------------------------------------------------------
(* To x/tx-boundary a step of the ante handler is one of its own, none, or *)
(* a start from genesis.                                                   *)
LEMMA StepOfBoundary ==
    ASSUME [AnteNext]_anteVars
    PROVE  [Next]_vars \/ Init'
  <1>1. CASE UNCHANGED anteVars
    BY <1>1 DEF anteVars
  <1>2. ASSUME NEW tx \in AnteTxs, Receive(tx)
        PROVE  Next
    <2>1. tx.staking \in Txs
      BY AnteAssumption
    <2>2. AnteHandle(tx.staking)
      BY <1>2 DEF Receive
    <2> QED  BY <2>1, <2>2 DEF Next
  <1>3. CASE AcceptStaking
    BY <1>3 DEF AcceptStaking, Next
  <1>4. CASE DenyStaking
    BY <1>4 DEF DenyStaking, Next
  <1>5. ASSUME NEW a \in Relayer, AddRlyAddress(a)
        PROVE  UNCHANGED vars
    BY <1>5 DEF AddRlyAddress
  <1>6. CASE Block
    BY <1>6 DEF Block, Next
  <1>7. CASE Restart
    BY <1>7 DEF Restart, Init, Idle
  <1> QED  BY <1>1, <1>2, <1>3, <1>4, <1>5, <1>6, <1>7 DEF AnteNext

(* No count ever exceeds the limit of its boundary, with transactions that *)
(* update clients as well, and over restarts (AnteHandle, NewAnteHandler). *)
THEOREM AnteTypeCorrect == AnteSpec => []TypeOK
  <1>1. AnteInit => Init
    BY DEF AnteInit
  <1>2. TypeInv => TypeOK
    BY DEF TypeInv, TypeOK, Within
  <1> QED  BY <1>1, <1>2, TypeInvInit, TypeInvStep, StepOfBoundary, PTL DEF AnteSpec

(* When both boundaries have the same pace, no address gets more staking   *)
(* messages past both decorators than its limit and the blocks allow.      *)
THEOREM AnteRateIsBounded ==
    ASSUME SamePace
    PROVE  AnteSpec => []WithinRate
  <1> DEFINE Inv == TypeInv /\ RateInv
  <1>1. AnteInit => Init
    BY DEF AnteInit
  <1>2. Init => Inv
    BY TypeInvInit, RateInvInit
  <1>3. Inv /\ [Next]_vars => Inv'
    BY TypeInvStep, RateInvStep
  <1>4. Inv => WithinRate
    BY PacedWithinRate
  <1>5. [AnteNext]_anteVars => [Next]_vars \/ Init'
    BY StepOfBoundary
  <1> HIDE DEF Inv
  <1> QED  BY <1>1, <1>2, <1>3, <1>4, <1>5, PTL DEF AnteSpec

-----------------------------------------------------------------------------
(* No step takes from a relayer the permission it has: AddRlyAddress only  *)
(* adds to a list that is not empty, and a restart empties it.             *)
THEOREM RelayersKeepPermission == AnteSpec => NoRelayerShutOut
  <1>1. ASSUME [AnteNext]_anteVars
        PROVE  [\A a \in Relayer : HasAllowRlyAddress(a) => HasAllowRlyAddress(a)']_anteVars
    <2>1. CASE UNCHANGED relayers
      BY <2>1 DEF HasAllowRlyAddress
    <2>2. ASSUME NEW a \in Relayer, AddRlyAddress(a)
          PROVE  relayers # {} /\ relayers \subseteq relayers'
      BY <2>2 DEF AddRlyAddress, HasAllowRlyAddress
    <2>3. CASE Restart
      BY <2>3 DEF Restart, HasAllowRlyAddress
    <2>4. UNCHANGED relayers \/ (\E a \in Relayer : AddRlyAddress(a)) \/ Restart
      BY <1>1 DEF AnteNext, anteVars, Receive, AcceptStaking, DenyStaking, Block
    <2>5. ASSUME NEW a \in Relayer, AddRlyAddress(a)
          PROVE  \A b \in Relayer : HasAllowRlyAddress(b) => HasAllowRlyAddress(b)'
      BY <2>2, <2>5 DEF HasAllowRlyAddress
    <2> QED  BY <2>1, <2>3, <2>4, <2>5
  <1> QED  BY <1>1, PTL DEF AnteSpec, NoRelayerShutOut
=============================================================================
