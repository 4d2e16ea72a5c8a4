----------------------------- MODULE MCWithdrawals -----------------------------
(* Instances of Withdrawals for TLC.                                       *)
EXTENDS Withdrawals, TLC

CONSTANTS alice, bob, w1, w2, r1, r2

(* Odd amounts round down.                                                 *)
Odd == (alice :> 7)
Even == (alice :> 2) @@ (bob :> 2)
AliceOnly == (alice :> 4)

OneTier == {[min |-> 0, delay |-> 1]}

(* The lowest tier starts above the smallest amount.                       *)
TwoTiers == {[min |-> 2, delay |-> 0], [min |-> 4, delay |-> 2]}

(* Overlapping ranges: the first one counts.                               *)
Special == {[profile |-> alice, from |-> 1, to |-> 2, delay |-> 0],
            [profile |-> alice, from |-> 2, to |-> 3, delay |-> 1]}

(* Ids and requests are interchangeable.                                   *)
Symmetry == Permutations(Ids) \cup Permutations(Requests)

===============================================================================
