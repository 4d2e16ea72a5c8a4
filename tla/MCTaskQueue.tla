------------------------------ MODULE MCTaskQueue ------------------------------
EXTENDS TaskQueue

CONSTANTS o1, o2, p1, p2

(* Each order has its own profile.                                         *)
MCOwner == [o \in Orders |-> IF o = o1 THEN p1 ELSE p2]

(* Cancels go before creates, as the priority tables allow.                *)
MCRank == [a \in ClientActions |->
             CASE a = "cancel" -> 0 [] a = "create" -> 1 [] OTHER -> 2]
=============================================================================
