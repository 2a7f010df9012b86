------------------------ MODULE MCTransferMiddleware ------------------------
(* Instances of TransferMiddleware, with the bank's query, for TLC. *)
EXTENDS BankSupply, TLC

LOCAL INSTANCE FiniteSetsExt

CONSTANTS pica, uatom, a1, c1, c2, alice

MCRank == [n \in Native |-> IF n = pica THEN 1 ELSE 2]

(* Two native denoms compete for the asset, through either channel. *)
MCInfos ==
    {[nativeDenom |-> n, ibcDenom |-> <<c, a1>>, channel |-> c, assetID |-> a1] :
        n \in Native, c \in Channel}

MCGenesis == [u \in User |-> [n \in Native |-> IF n = pica THEN 1 ELSE 0]]

MCRemote == [d \in IbcDenom |-> IF d[1] = c1 THEN 2 ELSE 1]

(* The number of units is the sum: Total agrees with a fold over the terms. *)
ASSUME TotalIsSum ==
    \A S \in SUBSET (1 .. 3) : \A f \in [S -> 0 .. 3] :
        Total(f) = MapThenSumSet(LAMBDA x : f[x], S)
=============================================================================
