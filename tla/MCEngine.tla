------------------------------- MODULE MCEngine -------------------------------
(* Instances of Engine for TLC.                                            *)
EXTENDS Engine, TLC

(* Order ids are interchangeable.  Traders other than the insurance fund   *)
(* are too.                                                                *)
Symmetry == Permutations(Orders) \cup Permutations(Traders \ {Insurance})
===============================================================================
