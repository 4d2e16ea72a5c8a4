-------------------------------- MODULE Clawback --------------------------------
(***************************************************************************)
(* How the insurance service shares a position out to the winning traders  *)
(* (clawbackActions): a part in proportion to their positions, then the    *)
(* rest in proportion to what they have left, then whatever still fits.    *)
(* Each pass is a loop over a Go map, whose order is arbitrary: one step   *)
(* takes any trader that is left.                                          *)
(***************************************************************************)
EXTENDS Integers, FiniteSets, FiniteSetsExt

CONSTANTS
    Winners,          \* traders with a winning position
    WinningSizes,     \* values of their sizes
    InsuranceSizes,   \* values of the insurance's position
    MinOrder          \* min_order of the market

ASSUME ClawbackAssumption ==
    /\ IsFiniteSet(Winners) /\ WinningSizes \subseteq Nat \ {0}
    /\ InsuranceSizes \subseteq Nat \ {0} /\ MinOrder \in Nat \ {0}

VARIABLES
    insurancePos,   \* size of the insurance's position
    winning,        \* sizes of the winners, the empty function before they are read
    clawbackMap,    \* traders the first pass has put into clawbackMap
    clawbackSize,   \* what is taken from each
    remaining,      \* what each has left
    deficit,        \* what the insurance still has to get rid of
    fraction,       \* remainingFrac: numerator and denominator
    clawPass,       \* the loop under way
    clawTodo        \* traders the loop has not visited

clawVars == <<insurancePos, winning, clawbackMap, clawbackSize, remaining, deficit, fraction,
              clawPass, clawTodo>>

None == [t \in Winners |-> 0]

ClawInit ==
    /\ insurancePos = 0 /\ winning = None
    /\ clawbackMap = {} /\ clawbackSize = None /\ remaining = None
    /\ deficit = 0 /\ fraction = <<0, 1>>
    /\ clawPass = "wait" /\ clawTodo = {}

SumOver(f, S) == SumFunctionOnSet(f, S)

(* roundToNearestTick and roundUpToTick of n / d.                          *)
roundToNearestTick(n, d) == ((2 * n + d * MinOrder) \div (2 * d * MinOrder)) * MinOrder
roundUpToTick(n, d) == ((n + d * MinOrder - 1) \div (d * MinOrder)) * MinOrder

(* GetInsuranceData and GetWinningTraderPostns.                            *)
ReadPositions ==
    /\ clawPass = "wait"
    /\ insurancePos' \in InsuranceSizes
    /\ \E W \in SUBSET Winners \ {{}} : \E s \in [W -> WinningSizes] :
          winning' = [t \in Winners |-> IF t \in W THEN s[t] ELSE 0]
    /\ deficit' = insurancePos'
    /\ clawPass' = "proportional"
    /\ clawTodo' = {t \in Winners : winning'[t] > 0}
    /\ UNCHANGED <<clawbackMap, clawbackSize, remaining, fraction>>

(* The share of a trader's size in the position, not more than the deficit *)
(* nor than the trader has.                                                *)
ProportionalShare(t) ==
    Min({roundToNearestTick(insurancePos * winning[t], SumOver(winning, Winners)), deficit,
         winning[t]})

(* Mutant: a trader whose share rounds to nothing is forgotten.            *)
KeptIfAsked(t) == ProportionalShare(t) > 0

Kept(t) == ProportionalShare(t) > 0 \/ winning[t] - ProportionalShare(t) > 0

(* The first loop ends with the traders, or with the deficit.              *)
Proportional ==
    /\ clawPass = "proportional"
    /\ IF clawTodo = {} \/ deficit < MinOrder
       THEN LET left == SumOver(remaining, clawbackMap)
            IN  /\ clawPass' = IF deficit >= MinOrder THEN "leftover" ELSE "extra"
                /\ fraction' = IF left <= deficit THEN <<1, 1>> ELSE <<deficit, left>>
                /\ clawTodo' = clawbackMap
                /\ UNCHANGED <<clawbackMap, clawbackSize, remaining, deficit>>
       ELSE \E t \in clawTodo :
                /\ clawbackMap' = IF Kept(t) THEN clawbackMap \cup {t} ELSE clawbackMap
                /\ clawbackSize' = [clawbackSize EXCEPT ![t] = ProportionalShare(t)]
                /\ remaining' = [remaining EXCEPT ![t] = winning[t] - ProportionalShare(t)]
                /\ deficit' = deficit - ProportionalShare(t)
                /\ clawTodo' = clawTodo \ {t}
                /\ UNCHANGED <<clawPass, fraction>>
    /\ UNCHANGED <<insurancePos, winning>>

Take(t, n) ==
    /\ clawbackSize' = [clawbackSize EXCEPT ![t] = @ + n]
    /\ remaining' = [remaining EXCEPT ![t] = @ - n]
    /\ deficit' = deficit - n

LeftoverShare(t) ==
    Min({roundUpToTick(remaining[t] * fraction[1], fraction[2]), remaining[t]})

(* The second loop: the fraction is that of its start.                     *)
Leftover ==
    /\ clawPass = "leftover"
    /\ IF clawTodo = {} \/ deficit < MinOrder
       THEN /\ clawPass' = "extra" /\ clawTodo' = clawbackMap
            /\ UNCHANGED <<clawbackSize, remaining, deficit>>
       ELSE \E t \in clawTodo :
                /\ Take(t, LeftoverShare(t))
                /\ clawTodo' = clawTodo \ {t}
                /\ UNCHANGED clawPass
    /\ UNCHANGED <<insurancePos, winning, clawbackMap, fraction>>

ExtraShare(t) ==
    IF deficit >= MinOrder /\ remaining[t] >= MinOrder THEN Min({deficit, remaining[t]}) ELSE 0

(* The third loop; the orders are those with a size.                       *)
Extra ==
    /\ clawPass = "extra"
    /\ IF clawTodo = {}
       THEN clawPass' = "done" /\ UNCHANGED <<clawbackSize, remaining, deficit, clawTodo>>
       ELSE \E t \in clawTodo :
                /\ Take(t, ExtraShare(t))
                /\ clawTodo' = clawTodo \ {t}
                /\ UNCHANGED clawPass
    /\ UNCHANGED <<insurancePos, winning, clawbackMap, fraction>>

ClawNext == ReadPositions \/ Proportional \/ Leftover \/ Extra

ClawSpec == ClawInit /\ [][ClawNext]_clawVars

-------------------------------------------------------------------------------
(* In whatever order the map is walked, no winner is asked for more than   *)
(* its position.                                                           *)
ClawWithinWinners == \A t \in Winners : clawbackSize[t] <= winning[t]

(* When the loops are over, the insurance keeps a min order or more only   *)
(* if no winner has a min order left.                                      *)
ClawCovers ==
    clawPass = "done" => deficit < MinOrder \/ \A t \in Winners : remaining[t] < MinOrder

(* The claw-back covers the deficit as far as the winners can, and takes   *)
(* from none more than it has (the passes of clawback).                    *)
ClawFair ==
    ClawWithinWinners /\ ClawCovers

================================================================================
