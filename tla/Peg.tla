-------------------------------- MODULE Peg --------------------------------
(***************************************************************************)
(* What x/transfermiddleware promises, without packets, accounts, indexes  *)
(* or remove lists: native denoms are pegged one to one to IBC denoms.     *)
(* The supply of a native denom grows only when as much of the IBC denom   *)
(* pegged to it is locked, and shrinks only when as much is released.      *)
(* Pegs come and go; what is locked stays.                                 *)
(***************************************************************************)
EXTENDS Integers

CONSTANTS
    Native,         \* native denoms
    Ibc,            \* IBC denoms
    Amount          \* amounts of a transfer

VARIABLES
    peg,            \* set of pairs <<native denom, IBC denom>>
    supply,         \* [Native -> Int]
    locked          \* [Ibc -> Int]

pegVars == <<peg, supply, locked>>

Init ==
    /\ peg = {}
    /\ supply \in [Native -> Nat]
    /\ locked = [d \in Ibc |-> 0]

(* Neither side of a new peg is pegged already. *)
Register(n, d) ==
    /\ \A p \in peg : p[1] # n /\ p[2] # d
    /\ peg' = peg \cup {<<n, d>>}
    /\ UNCHANGED <<supply, locked>>

Unregister ==
    /\ peg' \subseteq peg
    /\ UNCHANGED <<supply, locked>>

Lock(n, d, k) ==
    /\ <<n, d>> \in peg
    /\ supply' = [supply EXCEPT ![n] = @ + k]
    /\ locked' = [locked EXCEPT ![d] = @ + k]
    /\ UNCHANGED peg

Release(n, d, k) ==
    /\ <<n, d>> \in peg
    /\ locked[d] >= k
    /\ supply' = [supply EXCEPT ![n] = @ - k]
    /\ locked' = [locked EXCEPT ![d] = @ - k]
    /\ UNCHANGED peg

Next ==
    \/ Unregister
    \/ \E n \in Native, d \in Ibc : Register(n, d)
    \/ \E n \in Native, d \in Ibc, k \in Amount : Lock(n, d, k) \/ Release(n, d, k)

Spec == Init /\ [][Next]_pegVars
=============================================================================
