-------------------------- MODULE MCTokenRegistry --------------------------
(* Instances of TokenRegistry for TLC. *)
EXTENDS TokenRegistry, TLC

CONSTANTS pica, uatom, a1, a2, c1, c2

MCRank == [n \in Native |-> IF n = pica THEN 1 ELSE 2]

(* Each native denom has an asset of its own. *)
OwnAsset == [n \in Native |-> IF n = pica THEN a1 ELSE a2]

OwnInfos ==
    {[nativeDenom |-> n, ibcDenom |-> <<c1, OwnAsset[n]>>, channel |-> c1,
      assetID |-> OwnAsset[n]] : n \in Native}
=============================================================================
