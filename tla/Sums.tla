-------------------------------- MODULE Sums --------------------------------
(***************************************************************************)
(* The sum of a function of naturals, as the number of units its values    *)
(* are made of.  No recursion is needed to say so, and what holds of sums  *)
(* follows from what holds of cardinalities.                               *)
(***************************************************************************)
EXTENDS Integers, FiniteSets

(* f[x] pairs for every x. *)
Units(f) == UNION {{x} \X (1 .. f[x]) : x \in DOMAIN f}

Total(f) == Cardinality(Units(f))
=============================================================================
