--------------------------------- MODULE Yields ---------------------------------
(***************************************************************************)
(* Distribution of the yield of the exchange contract.                     *)
(*                                                                         *)
(* A ticker of the settlement service claims the yield (ClaimYield), waits *)
(* and scans the chain for ClaimedYield events (DistributeYield).  The     *)
(* cache instance splits the amount of an event over the profiles with a   *)
(* positive cached balance (process_yield_and_invalidate).  util.safe_yield *)
(* commits after every Chunk profiles, so a call that dies leaves a part   *)
(* paid, and a later call for the same event goes on with the rest.        *)
(***************************************************************************)
EXTENDS Integers, FiniteSets, FiniteSetsExt, Functions

CONSTANTS
    Holders,        \* profiles of the exchange
    Claims,         \* ClaimedYield events; a claim of the service makes the next one
    YieldAmount,    \* their amounts
    CachedBalances, \* values of a cached balance
    Chunk,          \* profiles per transaction
    StartGas,       \* suggested gas price
    GasEnough,      \* price at which the node takes the transaction
    MaxYieldFaults  \* bound: changes of a balance, failures and lost cursors

ASSUME YieldsAssumption ==
    /\ IsFiniteSet(Holders)
    /\ Claims \subseteq Nat /\ YieldAmount \in [Claims -> Nat \ {0}]
    /\ CachedBalances \subseteq Nat /\ IsFiniteSet(CachedBalances) /\ CachedBalances # {}
    /\ Chunk \in Nat \ {0}
    /\ StartGas \in Nat \ {0} /\ GasEnough \in Nat /\ MaxYieldFaults \in Nat

VARIABLES
    cached,       \* balance in the profile cache
    yieldPayout,       \* sum of a holder's yield_payout rows of a claim
    yieldRow,     \* claims with a row in space yield
    claimed,      \* claims on the chain, in their order
    gas,          \* gas price of the claim under way, 0 for none
    yieldCursor,  \* claims up to the last processed block of process_yield
    splitting,    \* the call under way: claim, rest, total, holders to pay
    yieldFaults

yieldVars == <<cached, yieldPayout, yieldRow, claimed, gas, yieldCursor, splitting, yieldFaults>>

NoSplit == [claim |-> 0, rest |-> 0, total |-> 0, todo |-> {}, share |-> <<>>]

YieldInit ==
    /\ cached = [h \in Holders |-> Max(CachedBalances)]
    /\ yieldPayout = [y \in Claims |-> [h \in Holders |-> 0]]
    /\ yieldRow = {}
    /\ claimed = {}
    /\ gas = 0
    /\ yieldCursor = 0
    /\ splitting = NoSplit
    /\ yieldFaults = 0

YieldFault == yieldFaults < MaxYieldFaults /\ yieldFaults' = yieldFaults + 1

PaidOut(y) == SumFunctionOnSet(yieldPayout[y], Holders)

-------------------------------------------------------------------------------
(* ClaimYield: the transaction is sent again at twice the price for as     *)
(* long as the node finds the gas too low; count is never increased.       *)
ClaimYield ==
    /\ UNCHANGED <<cached, yieldPayout, yieldRow, yieldCursor, splitting, yieldFaults>>
    /\ \/ /\ gas = 0 /\ claimed # Claims
          /\ gas' = StartGas
          /\ UNCHANGED claimed
       \/ /\ gas # 0 /\ gas < GasEnough
          /\ gas' = gas * 2
          /\ UNCHANGED claimed
       \/ /\ gas >= GasEnough /\ claimed # Claims
          /\ gas' = 0
          /\ claimed' = claimed \cup {Min(Claims \ claimed)}

(* Mutant: what was paid before the call is not subtracted.                *)
RemainsWhole(y) == YieldAmount[y]

Remains(y) == YieldAmount[y] - PaidOut(y)

PaidTo(y) == {h \in Holders : yieldPayout[y][h] > 0}

(* process_yield_and_invalidate, first part: the cached balances are read, *)
(* the holders that a row of this claim names are left out.  When one of   *)
(* them has no positive balance any more the subtraction fails.            *)
StartSplit(y) ==
    LET rich == {h \in Holders : cached[h] > 0}
        todo == rich \ PaidTo(y)
        total == SumFunctionOnSet(cached, todo)
    IN  splitting' = IF PaidTo(y) \subseteq rich /\ todo # {} /\ Remains(y) > 0
                     THEN [claim |-> y, rest |-> Remains(y), total |-> total,
                           todo |-> todo, share |-> cached]
                     ELSE NoSplit

(* yieldHandler: an error is logged and the scan goes on.                  *)
yieldHandler(y) ==
    /\ yieldCursor' = y
    /\ StartSplit(y)
    /\ UNCHANGED <<cached, yieldPayout, yieldRow, claimed, gas, yieldFaults>>

(* ProcessYieldEvents: the next claim after the stored block.              *)
ProcessYieldEvents ==
    LET next == {y \in claimed : y > yieldCursor}
    IN  splitting = NoSplit /\ next # {} /\ yieldHandler(Min(next))

(* Second part, a transaction per chunk; the last one adds the yield row.  *)
process_yield_and_invalidate ==
    /\ splitting # NoSplit
    /\ LET q == splitting
           size == Min({Chunk, Cardinality(q.todo)})
       IN  \E now \in kSubset(size, q.todo) :
           /\ yieldPayout' = [yieldPayout EXCEPT ![q.claim] = [h \in Holders |->
                  IF h \in now THEN (q.share[h] * q.rest) \div q.total ELSE @[h]]]
           /\ IF now = q.todo
              THEN yieldRow' = yieldRow \cup {q.claim} /\ splitting' = NoSplit
              ELSE splitting' = [q EXCEPT !.todo = @ \ now] /\ UNCHANGED yieldRow
    /\ UNCHANGED <<cached, claimed, gas, yieldCursor, yieldFaults>>

(* The instance restarts in the middle: what was committed stays.          *)
YieldCrash ==
    /\ splitting # NoSplit /\ YieldFault /\ splitting' = NoSplit
    /\ UNCHANGED <<cached, yieldPayout, yieldRow, claimed, gas, yieldCursor>>

(* ensureConnected could not read the stored block: from the default.      *)
YieldRescan ==
    /\ splitting = NoSplit /\ yieldCursor # 0 /\ YieldFault
    /\ yieldCursor' = 0
    /\ UNCHANGED <<cached, yieldPayout, yieldRow, claimed, gas, splitting>>

CachedBalanceMoves ==
    /\ YieldFault
    /\ \E h \in Holders, b \in CachedBalances : cached' = [cached EXCEPT ![h] = b]
    /\ UNCHANGED <<yieldPayout, yieldRow, claimed, gas, yieldCursor, splitting>>

DistributeYield ==
    ProcessYieldEvents \/ process_yield_and_invalidate \/ YieldCrash \/ YieldRescan

YieldNext == ClaimYield \/ DistributeYield \/ CachedBalanceMoves

YieldSpec == YieldInit /\ [][YieldNext]_yieldVars

-------------------------------------------------------------------------------
(* A claim never pays more than its amount, however often it is started,   *)
(* interrupted and started again, while the balances it is split by move.  *)
YieldNotOverpaid(y) == PaidOut(y) <= YieldAmount[y]

(* A holder is paid once for a claim: a payout never changes again.        *)
YieldPaidOnce ==
    [][\A y \in Claims, h \in Holders :
            yieldPayout[y][h] > 0 => yieldPayout'[y][h] = yieldPayout[y][h]]_yieldVars

(* A claim is split once, and never into more than it is, whenever the     *)
(* split is interrupted (process_yield_and_invalidate).                    *)
YieldPaid ==
    [](\A y \in Claims : YieldNotOverpaid(y)) /\ YieldPaidOnce

================================================================================
