------------------------------- MODULE MCMint -------------------------------
(* Instances of Mint for TLC.  With One = 10 the rates have one decimal    *)
(* place, so that every rounding of the code happens.                      *)
EXTENDS Mint

P(change, goal, blocks, max, min) ==
    [inflationRateChange |-> change, goalBonded |-> goal, blocksPerYear |-> blocks,
     maxTokenPerYear |-> max, minTokenPerYear |-> min]

Yearly == P(3, 7, 2, 9, 5)

(* minTokenPerYear is negative, which Validate does not look at. *)
Negative == P(10, 5, 4, 6, -9)

(* Blocks of a year that int64 makes -8: the provision is truncated to     *)
(* zero or, at some supplies, a negative token.                            *)
Wrapped == P(3, 7, 8, 8, 8)

(* And ones that Validate refuses. *)
Proposed == {Yearly, P(8, 10, 3, 14, 14), P(10, 5, 1, 6, -9), Wrapped,
             P(3, 0, 2, 9, 5), P(3, 7, 2, 5, 9)}
=============================================================================
