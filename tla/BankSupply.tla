----------------------------- MODULE BankSupply -----------------------------
(***************************************************************************)
(* custom/bank: the query TotalSupply, which takes from the supply of the  *)
(* bank what the registry of x/transfermiddleware says is counted twice.   *)
(* The query is modelled with all denoms on one page and without the       *)
(* tokens bonded by x/alliance, which is outside this repository.          *)
(***************************************************************************)
EXTENDS TransferMiddleware

(* The native side stays in the report. *)
MutIbcSideOnly(denom) ==
    Total([info \in {info \in Exported : denom = info.ibcDenom} |->
              bank.balance[info.channel][denom]])

(* GetTotalEscrowedToken: both denoms of every registered token, as far as *)
(* the escrow account of its channel holds them.                           *)
GetTotalEscrowedToken(denom) ==
    Total([info \in {info \in Exported : denom \in {info.ibcDenom, info.nativeDenom}} |->
              bank.balance[info.channel][denom]])

(* Coins.Sub panics when a difference is negative. *)
TotalSupply(denom) == bank.supply[denom] - GetTotalEscrowedToken(denom)

-----------------------------------------------------------------------------
(* Of either denom of a registered token the query reports exactly what is *)
(* held outside the escrow account of its channel: it takes no denom off   *)
(* twice, and never more than there is, whatever was escrowed before the   *)
(* token was registered (TotalSupply, GetTotalEscrowedToken).              *)
ReportedIsHeld ==
    \A n \in DOMAIN infoByNative :
        LET info == infoByNative[n]
        IN  \A denom \in {n, info.ibcDenom} :
               TotalSupply(denom)
                 = Total([acc \in Account \ {info.channel} |-> bank.balance[acc][denom]])
=============================================================================
