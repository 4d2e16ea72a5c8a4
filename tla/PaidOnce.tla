-------------------------------- MODULE PaidOnce --------------------------------
(***************************************************************************)
(* What the code that moves money in promises: an item (the event of a     *)
(* deposit, a claim of an airdrop) is settled at most once, never undone,  *)
(* and settling it adds its amount to the account of its owner and changes *)
(* no other account.                                                       *)
(***************************************************************************)
EXTENDS Integers

CONSTANTS Items, Owners, Owner(_), Amount(_)

VARIABLES settled, account

PaidInit == settled = {} /\ account = [o \in Owners |-> 0]

Settle(i) ==
    /\ i \notin settled
    /\ settled' = settled \cup {i}
    /\ account' = [account EXCEPT ![Owner(i)] = @ + Amount(i)]

PaidSpec == PaidInit /\ [][\E i \in Items : Settle(i)]_<<settled, account>>
================================================================================
