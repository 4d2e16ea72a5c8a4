------------------------------ MODULE Liquidations ------------------------------
(***************************************************************************)
(* Margins, liquidation status and the liquidation service.                *)
(*                                                                         *)
(* The periodics service (profile/periodics/cache) reads the profile metas *)
(* that changed in the engines, computes every profile's cache row and     *)
(* writes it to the profile instance.  The liquidation service (liqengine) *)
(* pages through the rows with status "liquidating", cancels the orders of *)
(* a profile, waits until the queues have taken the cancelall, reads the   *)
(* positions and queues sell orders or a takeover by the insurance.        *)
(*                                                                         *)
(* Margins are percents.  One market, one position per trader; the sizes   *)
(* of sell orders are any part of the position (generateSellOrders derives *)
(* them from prices and volumes that are left out here).                   *)
(***************************************************************************)
EXTENDS Integers, Sequences, FiniteSets, Functions

CONSTANTS
    Debtors,          \* profile ids of the traders; 0 is the insurance
    MarginLevels,     \* values of a margin, in percent
    MarginAtStart,    \* margins at the start
    HeldAtStart,      \* size of every position at the start
    BatchLimit,       \* LIQ_BATCH_LIMIT
    MaxMargins,       \* bound: moves of a margin, own orders, cache requests
    MaxLiqFaults      \* bound: timeouts, failed calls and restarts

ASSUME LiquidationsAssumption ==
    /\ Debtors \subseteq Nat \ {0} /\ IsFiniteSet(Debtors)
    /\ MarginLevels \subseteq Int /\ MarginAtStart \in [Debtors -> Int]
    /\ HeldAtStart \in Nat \ {0}
    /\ BatchLimit \in Nat \ {0} /\ MaxMargins \in Nat /\ MaxLiqFaults \in Nat

LIQUIDATION_MARGIN == 3
TAKEOVER_MARGIN == 2
ForcedMargin == 3
BrokenMargin == -10
NoNotional == 100

VARIABLES
    margin,         \* the account margin that the engines' metas amount to
    held,           \* position: positive if long, negative if short
    unread,         \* traders with a meta newer than marketsLastTs
    known,          \* margin of the metas the periodics service holds
    toRefresh,      \* traders this RunOnce has still to write
    liqStatus,      \* status in space profile
    cacheRow,       \* status and account_margin in space profile_cache
    recentCheck,    \* traders with last_liq_check within WATERFALL1_INTERVAL
    round,          \* ProcessLiquidations: where it is
    urgent,         \* tasks of the market's queue with the highest priority
    ownTasks,       \* traders with an order of their own in the queue
    resting,        \* size of the liquidation orders in the book: positive to sell
    disturbed,      \* history: an own order was executed since the positions were read
    marginMoves, liqFaults

serviceVars == <<round, recentCheck>>
refreshVars == <<unread, known, toRefresh>>
queueVars == <<urgent, ownTasks, resting, held>>
liqVars == <<margin, queueVars, refreshVars, liqStatus, cacheRow, serviceVars, disturbed,
             marginMoves, liqFaults>>

NoRound == [pc |-> "batch", last |-> 0, batch |-> {}, size |-> 0]

LiqInit ==
    /\ margin = MarginAtStart
    /\ held = [t \in Debtors |-> HeldAtStart]
    /\ unread = Debtors
    /\ known = [t \in Debtors |-> NoNotional]
    /\ toRefresh = {}
    /\ liqStatus = [t \in Debtors |-> "active"]
    /\ cacheRow = [t \in Debtors |-> [status |-> "active", margin |-> NoNotional]]
    /\ recentCheck = {}
    /\ round = NoRound
    /\ urgent = <<>>
    /\ ownTasks = {}
    /\ resting = [t \in Debtors |-> 0]
    /\ disturbed = {}
    /\ marginMoves = 0
    /\ liqFaults = 0

MarginMove == marginMoves < MaxMargins /\ marginMoves' = marginMoves + 1
LiqFault == liqFaults < MaxLiqFaults /\ liqFaults' = liqFaults + 1

-------------------------------------------------------------------------------
(* The engines and the profile instance.                                   *)

Abs(n) == IF n < 0 THEN -n ELSE n
Side(n) == IF n > 0 THEN 1 ELSE IF n < 0 THEN -1 ELSE 0

(* A fill; without a position there is no notional.  Nothing keeps a fill  *)
(* from turning a position over.                                           *)
Sell(t, n) ==
    /\ held' = [held EXCEPT ![t] = @ - n]
    /\ margin' = IF held[t] = n THEN [margin EXCEPT ![t] = NoNotional] ELSE margin
    /\ unread' = unread \cup {t}

MarginMoves(t) ==
    /\ MarginMove /\ held[t] # 0
    /\ \E x \in MarginLevels : margin' = [margin EXCEPT ![t] = x]
    /\ unread' = unread \cup {t}
    /\ UNCHANGED <<queueVars, known, toRefresh, liqStatus, cacheRow, serviceVars, disturbed,
                   liqFaults>>

(* risk.check_profile lets only an active profile put an order.            *)
PlaceOwnOrder(t) ==
    /\ MarginMove /\ liqStatus[t] = "active"
    /\ ownTasks' = ownTasks \cup {t}
    /\ UNCHANGED <<margin, urgent, resting, held, refreshVars, liqStatus, cacheRow,
                   serviceVars, disturbed, liqFaults>>

HandleOwnOrder(t) ==
    /\ urgent = <<>> /\ t \in ownTasks
    /\ ownTasks' = ownTasks \ {t}
    /\ Sell(t, 1)
    /\ disturbed' = disturbed \cup {t}
    /\ UNCHANGED <<urgent, resting, known, toRefresh, liqStatus, cacheRow, serviceVars,
                   marginMoves, liqFaults>>

FillResting(t) ==
    /\ resting[t] # 0
    /\ resting' = [resting EXCEPT ![t] = @ - Side(@)]
    /\ Sell(t, Side(resting[t]))
    /\ UNCHANGED <<urgent, ownTasks, known, toRefresh, liqStatus, cacheRow, serviceVars,
                   disturbed, marginMoves, liqFaults>>

(* _handle_cancelall, and _handle_liquidate for a sell order or a takeover *)
HandleUrgent ==
    /\ urgent # <<>>
    /\ urgent' = Tail(urgent)
    /\ LET task == Head(urgent)
           t == task.trader
       IN  \/ /\ task.kind = "cancelall"
              /\ resting' = [resting EXCEPT ![t] = 0]
              /\ UNCHANGED <<held, margin, unread>>
           \/ /\ task.kind = "sell"
              /\ resting' = [resting EXCEPT ![t] = @ + Side(held[t]) * task.size]
              /\ UNCHANGED <<held, margin, unread>>
           \/ /\ task.kind = "takeover"
              /\ Sell(t, Side(held[t]) * task.size)
              /\ UNCHANGED resting
    /\ UNCHANGED <<ownTasks, known, toRefresh, liqStatus, cacheRow, serviceVars, disturbed,
                   marginMoves, liqFaults>>

-------------------------------------------------------------------------------
(* Periodics.RunOnce.                                                      *)

MergeMetas(news) == [t \in Debtors |-> IF t \in news THEN margin[t] ELSE known[t]]

GetUpdatedProfilesMeta ==
    /\ toRefresh = {}
    /\ known' = MergeMetas(unread)
    /\ unread' = {}
    /\ toRefresh' = Debtors
    /\ UNCHANGED <<margin, queueVars, liqStatus, cacheRow, serviceVars, disturbed,
                   marginMoves, liqFaults>>

(* get and MarginV1LiquidateStrategy.Process: the status starts as active. *)
StatusOf(x) == IF x < ForcedMargin THEN "liquidating" ELSE "active"

(* update_profiles_caches_and_metas for the batch of t: the row gets the   *)
(* new status, space profile only one that is not active.                  *)
UpdateProfilesCachesMetas(t) ==
    /\ t \in toRefresh
    /\ toRefresh' = toRefresh \ {t}
    /\ cacheRow' = [cacheRow EXCEPT ![t] =
                       [status |-> StatusOf(known[t]), margin |-> known[t]]]
    /\ liqStatus' = [liqStatus EXCEPT ![t] =
                       IF StatusOf(known[t]) = "active" THEN @ ELSE "liquidating"]
    /\ UNCHANGED <<margin, queueVars, unread, known, serviceVars, disturbed, marginMoves,
                   liqFaults>>

(* cache.update after a deposit or a withdrawal of t (invalidate_cache):   *)
(* the metas are asked from the engines, the status of space profile stays *)
(* if the margin is high enough.                                           *)
InvalidateCache(t) ==
    /\ MarginMove
    /\ liqStatus' = [liqStatus EXCEPT ![t] =
                       IF margin[t] < ForcedMargin THEN "liquidating" ELSE @]
    /\ cacheRow' = [cacheRow EXCEPT ![t] = [status |-> liqStatus'[t], margin |-> margin[t]]]
    /\ UNCHANGED <<margin, queueVars, refreshVars, serviceVars, disturbed, liqFaults>>

(* An error ends the process; the next one starts from timestamp zero.     *)
PeriodicsRestart ==
    /\ LiqFault /\ toRefresh # {}
    /\ toRefresh' = {} /\ unread' = Debtors
    /\ known' = [t \in Debtors |-> NoNotional]
    /\ UNCHANGED <<margin, queueVars, liqStatus, cacheRow, serviceVars, disturbed, marginMoves>>

Periodics == GetUpdatedProfilesMeta \/ (\E t \in Debtors : UpdateProfilesCachesMetas(t))

-------------------------------------------------------------------------------
(* ProcessLiquidations.                                                    *)

(* liquidation_batch: the next rows by id.                                 *)
LiquidationBatch(last) ==
    LET due == {t \in Debtors : t > last /\ cacheRow[t].status = "liquidating"}
    IN  {[id |-> t, margin |-> cacheRow[t].margin, recent |-> t \in recentCheck] :
            t \in {d \in due : Cardinality({u \in due : u < d}) < BatchLimit}}

(* The loop over a batch takes its rows by id.                             *)
Current == CHOOSE row \in round.batch : \A other \in round.batch : row.id <= other.id

isLiquidationEnding(row) == row.margin >= LIQUIDATION_MARGIN

shouldLiquidationHaveMoreTime(row) ==
    row.margin < LIQUIDATION_MARGIN /\ row.margin >= TAKEOVER_MARGIN /\ row.recent

Skipped(row) == row.margin < BrokenMargin \/ shouldLiquidationHaveMoreTime(row)

(* Mutant: last_id lives as long as the service.                           *)
RoundOverKeepsLast == round

RoundOver == NoRound

GetNextLiqBatch ==
    /\ round.pc = "batch" /\ round.batch = {}
    /\ LET rows == LiquidationBatch(round.last)
       IN  round' = IF rows = {} THEN RoundOver
                    ELSE [round EXCEPT !.pc = "next", !.batch = rows]
    /\ UNCHANGED <<margin, queueVars, refreshVars, liqStatus, cacheRow, recentCheck, disturbed,
                   marginMoves, liqFaults>>

(* On to the next row of the batch, or to the next batch.                  *)
NextProfile ==
    LET rest == round.batch \ {Current}
    IN  round' = [pc |-> IF rest = {} THEN "batch" ELSE "next",
                  last |-> Current.id, batch |-> rest, size |-> 0]

QueuedCancelAll(t) == \E i \in DOMAIN urgent : urgent[i].kind = "cancelall" /\ urgent[i].trader = t

(* high_priority_cancell_all: not twice at a time.                         *)
AskCancelAll(t) ==
    urgent' = IF QueuedCancelAll(t) THEN urgent
              ELSE Append(urgent, [kind |-> "cancelall", trader |-> t, size |-> 0])

(* Mutant: the deprecated CancelExistingOrders, which does not wait.       *)
AcceptedAtOnce(t) == TRUE

IsCancellAllAccepted(t) == ~QueuedCancelAll(t)

ProcessProfile ==
    /\ round.pc = "next"
    /\ LET row == Current
       IN  IF Skipped(row)
           THEN NextProfile /\ UNCHANGED urgent
           ELSE AskCancelAll(row.id) /\ round' = [round EXCEPT !.pc = "waiting"]
    /\ UNCHANGED <<margin, ownTasks, resting, held, refreshVars, liqStatus, cacheRow,
                   recentCheck, disturbed, marginMoves, liqFaults>>

(* WaitForCancellAllAccepted gives up after 20 attempts.                   *)
WaitForCancellAllAcceptedFails ==
    /\ round.pc = "waiting" /\ LiqFault
    /\ NextProfile
    /\ UNCHANGED <<margin, queueVars, refreshVars, liqStatus, cacheRow, recentCheck, disturbed,
                   marginMoves>>

(* update_status: space profile and its cache row in one transaction.      *)
CompletedLiquidation ==
    /\ round.pc = "waiting" /\ IsCancellAllAccepted(Current.id)
    /\ isLiquidationEnding(Current)
    /\ LET t == Current.id
       IN  /\ liqStatus' = [liqStatus EXCEPT ![t] = "active"]
           /\ cacheRow' = [cacheRow EXCEPT ![t].status = "active"]
    /\ NextProfile
    /\ UNCHANGED <<margin, queueVars, refreshVars, recentCheck, disturbed, marginMoves, liqFaults>>

(* The positions are read now, the margin is that of the batch.            *)
GetAccountData ==
    /\ round.pc = "waiting" /\ IsCancellAllAccepted(Current.id)
    /\ ~isLiquidationEnding(Current)
    /\ round' = [round EXCEPT !.pc = "acting", !.size = Abs(held[Current.id])]
    /\ disturbed' = disturbed \ {Current.id}
    /\ UNCHANGED <<margin, queueVars, refreshVars, liqStatus, cacheRow, recentCheck, marginMoves,
                   liqFaults>>

(* Sizes of the sell orders for a position, together.                      *)
generateSellOrders(size) == 0 .. size

requiredActions(row, size) ==
    IF row.margin >= TAKEOVER_MARGIN
      THEN {[kind |-> "sell", trader |-> row.id, size |-> n] : n \in generateSellOrders(size)}
      ELSE {[kind |-> "takeover", trader |-> row.id, size |-> size]}

(* Queue, whose error is dropped, and UpdateLastChecked.                   *)
QueueActions ==
    /\ round.pc = "acting"
    /\ LET row == Current
       IN  /\ \/ /\ \E a \in requiredActions(row, round.size) :
                     urgent' = IF a.size = 0 THEN urgent ELSE Append(urgent, a)
                 /\ UNCHANGED liqFaults
              \/ LiqFault /\ UNCHANGED urgent
           /\ recentCheck' = recentCheck \cup {row.id}
    /\ NextProfile
    /\ UNCHANGED <<margin, ownTasks, resting, held, refreshVars, liqStatus, cacheRow, disturbed,
                   marginMoves>>

MarginReady(t) ==
    /\ t \in recentCheck
    /\ recentCheck' = recentCheck \ {t}
    /\ UNCHANGED <<margin, queueVars, refreshVars, liqStatus, cacheRow, round, disturbed,
                   marginMoves, liqFaults>>

(* The liquidation service restarts, or a batch request fails.             *)
LiquidationRestart ==
    /\ LiqFault /\ round # NoRound
    /\ round' = NoRound
    /\ UNCHANGED <<margin, queueVars, refreshVars, liqStatus, cacheRow, recentCheck, disturbed,
                   marginMoves>>

ProcessLiquidations ==
    \/ GetNextLiqBatch \/ ProcessProfile \/ CompletedLiquidation \/ GetAccountData
    \/ QueueActions

LiqNext ==
    \/ \E t \in Debtors : \/ MarginMoves(t) \/ PlaceOwnOrder(t) \/ HandleOwnOrder(t)
                          \/ FillResting(t) \/ MarginReady(t) \/ InvalidateCache(t)
    \/ HandleUrgent \/ Periodics \/ ProcessLiquidations
    \/ PeriodicsRestart \/ WaitForCancellAllAcceptedFails \/ LiquidationRestart

(* Both services run on tickers, the engine takes tasks in a loop, time    *)
(* passes.                                                                 *)
LiqFairness ==
    /\ WF_liqVars(Periodics) /\ WF_liqVars(ProcessLiquidations) /\ WF_liqVars(HandleUrgent)
    /\ \A t \in Debtors : WF_liqVars(MarginReady(t))

LiqSpec == LiqInit /\ [][LiqNext]_liqVars /\ LiqFairness

-------------------------------------------------------------------------------
QueuedIn(tasks, t) ==
    SumFunctionOnSet([i \in DOMAIN tasks |->
        IF tasks[i].trader = t THEN tasks[i].size ELSE 0], DOMAIN tasks)

Queued(t) == QueuedIn(urgent, t)

(* What liquidation may still trade for a profile, in the book and in the  *)
(* queue, never exceeds its position, so that it closes a position and     *)
(* never turns it over.  An order of the trader's own that was in the      *)
(* queue when the cancelall came can still upset this: such profiles are   *)
(* left out until their positions are read again.                          *)
LiquidationWithinPosition(t) ==
    /\ Abs(resting[t]) + Queued(t) <= Abs(held[t])
    /\ resting[t] = 0 \/ Side(resting[t]) = Side(held[t])

(* A profile is active again only when nothing of its liquidation is left  *)
(* in the book or in the queue.                                            *)
ActivatedWhenDone ==
    [][\A t \in Debtors : liqStatus[t] = "liquidating" /\ liqStatus'[t] = "active"
            => resting[t] = 0 /\ Queued(t) = 0]_liqVars

(* When margins move no more, no position is left under the takeover       *)
(* margin, however it got there, but for those too broken to be liquidated.*)
LowMarginTakenOver ==
    <>[](\A t \in Debtors :
            held[t] = 0 \/ margin[t] >= TAKEOVER_MARGIN \/ margin[t] < BrokenMargin)

(* The cached margins catch up with the engines' metas: no update is lost  *)
(* between two rounds or in a restart of the periodics service.            *)
CachesAgree == \A t \in Debtors : cacheRow[t].margin = margin[t]

(* Liquidation takes no more than there is, and gives a profile back only  *)
(* when it is over (Queue, CompletedLiquidation).                          *)
LiquidationCareful ==
    [](\A t \in Debtors \ disturbed : LiquidationWithinPosition(t)) /\ ActivatedWhenDone

================================================================================
