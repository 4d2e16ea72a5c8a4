-------------------------------- MODULE Engine --------------------------------
(***************************************************************************)
(* The matching engine of one market (app/engine/engine.lua with           *)
(* order.lua, orderbook.lua, aggregate.lua, position.lua).                 *)
(*                                                                         *)
(* One fiber takes tasks from the market's queue and handles one at a      *)
(* time; a handler runs in a database transaction that does not yield, so  *)
(* tasks never interleave.  A handler that only edits rows is one action.  *)
(* A handler that matches is a chain of steps: the action that starts it,  *)
(* one Fill per iteration of the loop of _match_order, Rest for what is    *)
(* left after the loop, and Commit or Abort for the checks that follow.    *)
(* The variable saved holds the savepoint a rollback returns to.           *)
(*                                                                         *)
(* Sizes count units of min_order, prices count ticks, both as naturals.   *)
(* The timestamp that orders entries of one price is the number of the     *)
(* task that placed the entry: tasks place at most one entry each, so the  *)
(* two orders agree.                                                       *)
(***************************************************************************)
EXTENDS Integers, FiniteSetsExt, Position

CONSTANTS
    Orders,         \* order ids the gateway may hand out
    Traders,        \* profiles
    Insurance,      \* the profile that takes positions over in a liquidation
    Prices,         \* limit, trigger and execution prices, in ticks
    FairPrices,     \* values of the market's fair price
    Sizes,          \* sizes a client may ask for, in units of min_order
    LiquidationSizes, \* sizes of queued liquidation actions
    Percents,       \* size_percent of stop-loss and take-profit orders
    OrderTypes,     \* order types the clients use
    TimesInForce,   \* times in force the clients use
    RouterActive,   \* router_system.is_active: private matching is on
    BuyRatio,       \* limit_buy_ratio of the market, in percent
    SellRatio,      \* limit_sell_ratio of the market, in percent
    TriggerBuyRatio,  \* sltp_limit_buy_ratio, LIMIT_BUY_RATIO, in percent
    TriggerSellRatio, \* sltp_limit_sell_ratio, LIMIT_SELL_RATIO, in percent
    MaxNotional,    \* adv_constant: a triggered order's notional stays below
    MaxDependent,   \* MAX_POSITION_DEPENDENT_ORDERS
    MaxConditional, \* MAX_CONDITIONAL_ORDERS
    MaxOldPosition, \* bound: size of the positions a behaviour starts with
    MaxSequence,    \* bound: tasks that change the book in one behaviour
    Nil             \* no row

StopLossTypes   == {"stop_loss", "stop_loss_limit"}
TakeProfitTypes == {"take_profit", "take_profit_limit"}
DependentTypes  == StopLossTypes \cup TakeProfitTypes
StopTypes       == {"stop_limit", "stop_market"}
LimitTypes      == {"stop_loss_limit", "take_profit_limit", "stop_limit"}
ConditionalTypes == DependentTypes \cup StopTypes
ImmediateTypes  == {"limit", "market"}
AllTypes        == ImmediateTypes \cup ConditionalTypes

AllTimesInForce == {"gtc", "ioc", "fok", "post_only"}

(* The price of an order that carries none until it is triggered is zero.  *)
AllPrices == Prices \cup {0}

(* The limit price of a triggered stop_loss, take_profit or stop_market:   *)
(* the fair price times the market's ratio, rounded down to a tick.        *)
ExecutionPrice(side, f) ==
    ((IF side = "long" THEN BuyRatio ELSE SellRatio) * f) \div 100

ASSUME ConstantAssumption ==
    /\ Insurance \in Traders
    /\ Prices \subseteq Nat \ {0}
    /\ FairPrices \subseteq Nat \ {0}
    /\ Sizes \subseteq Nat \ {0}
    /\ LiquidationSizes \subseteq Nat \ {0}
    /\ Percents \subseteq 1..100
    /\ OrderTypes \subseteq AllTypes
    /\ TimesInForce \subseteq AllTimesInForce
    /\ RouterActive \in BOOLEAN
    /\ MaxNotional \in Nat
    /\ MaxDependent \in Nat
    /\ MaxConditional \in Nat
    /\ MaxOldPosition \in Nat
    /\ BuyRatio \in Nat /\ SellRatio \in Nat
    /\ TriggerBuyRatio \in Nat /\ TriggerSellRatio \in Nat
    /\ MaxSequence \in Nat

(* There are finitely many order ids and profiles.                         *)
ASSUME FiniteAssumption == IsFiniteSet(Orders) /\ IsFiniteSet(Traders)

(* Every price the engine can compute from a fair price is a price.        *)
ASSUME ExecutionPriceAssumption ==
    \A side \in Sides, f \in FairPrices : ExecutionPrice(side, f) \in Prices

Statuses == {"open", "placed", "closed", "canceled", "rejected"}

(* A row of the order space, order.lua.                                    *)
OrderT == [profile : Traders, type : AllTypes, tif : AllTimesInForce,
           side : Sides, status : Statuses, price : AllPrices,
           trigger : AllPrices, percent : 0..100,
           size : Nat, initial : Nat, filled : Nat]

(* A row of the orderbook space, orderbook.lua.                            *)
EntryT == [trader : Traders, side : Sides, price : AllPrices, size : Nat,
           ts : Nat]

ASSUME NilAssumption == Nil \notin OrderT /\ Nil \notin EntryT

VARIABLES
    order,      \* [Orders -> row of the order space or Nil]
    ob,         \* [Orders -> row of the orderbook space or Nil]
    level,      \* bids_to_size and asks_to_size: size by side and price
    notional,   \* trader_order_to_notional: open notional by trader
    position,   \* position of each trader in this market
    fills,      \* size each order has traded as maker and as taker (fill space)
    fair,       \* fair price of the market
    sequence,   \* orderbook_sequence
    published,  \* sequence of the last order book update sent to clients
    touched,    \* nf_profiles_changed of the running task
    task,       \* the running task
    saved       \* what a rollback restores, Nil when no task matches

db   == <<order, ob, level, notional, position, fills>>
vars == <<order, ob, level, notional, position, fills, fair, sequence,
          published, touched, task, saved>>

TaskT == [pc : {"idle", "match", "finish", "cancelall"},
          kind : {"none", "create", "amend", "execute", "cancelall"},
          oid : Orders \cup {Nil}, left : Nat, liq : BOOLEAN,
          who : Traders \cup {Nil}]

NoTask == [pc |-> "idle", kind |-> "none", oid |-> Nil, left |-> 0,
           liq |-> FALSE, who |-> Nil]

FillT == [maker : Nat, taker : Nat]

(* What a rollback restores: the database and the sequence.                *)
SavedT == [order : [Orders -> OrderT \cup {Nil}],
           ob : [Orders -> EntryT \cup {Nil}],
           level : [Sides -> [AllPrices -> Int]],
           notional : [Traders -> Int],
           position : [Traders -> PositionT],
           fills : [Orders -> FillT],
           sequence : Nat]

(* The net position of all traders together.                              *)
NetTotal(positions) ==
    SumFunctionOnSet([t \in Traders |-> Net(positions[t])], Traders)

(* The engine starts with the positions that earlier trades have left;     *)
(* they balance.                                                           *)
OldPositions ==
    {f \in [Traders -> {PositionRow(side, n) :
                          side \in Sides, n \in 0..MaxOldPosition}] :
        NetTotal(f) = 0}

Init ==
    /\ order = [o \in Orders |-> Nil]
    /\ ob = [o \in Orders |-> Nil]
    /\ level = [s \in Sides |-> [p \in AllPrices |-> 0]]
    /\ notional = [t \in Traders |-> 0]
    /\ position \in OldPositions
    /\ fills = [o \in Orders |-> [maker |-> 0, taker |-> 0]]
    /\ fair \in FairPrices
    /\ sequence = 0
    /\ published = 0
    /\ touched = {}
    /\ task = NoTask
    /\ saved = Nil
-----------------------------------------------------------------------------
(* Rows                                                                    *)

Exists(o)     == order[o] # Nil
HasStatus(o, s) == order[o] # Nil /\ order[o].status = s
Resting       == {o \in Orders : ob[o] # Nil}

(* o.create: size and initial size are the requested size, nothing filled. *)
NewOrder(t, ty, tif, side, status, price, trigger, percent, size) ==
    [profile |-> t, type |-> ty, tif |-> tif, side |-> side,
     status |-> status, price |-> price, trigger |-> trigger,
     percent |-> percent, size |-> size, initial |-> size, filled |-> 0]

(* o.update: the size shrinks to what is left, the difference is filled.   *)
Updated(row, left) ==
    [row EXCEPT !.status = IF left = 0 THEN "closed" ELSE "open",
                !.size = left, !.filled = @ + (row.size - left)]

(* o.cancel and o.reject only change the status; engine._cancel_order and  *)
(* engine._reject_order add the notification.                              *)
WithStatus(row, s) == [row EXCEPT !.status = s]

CanceledRow(row) == WithStatus(row, "canceled")
RejectedRow(row) == WithStatus(row, "rejected")

(* o.amend of an order that has been in the book.                          *)
Amended(row, price, size) ==
    [row EXCEPT !.price = price, !.size = size, !.initial = size,
                !.status = "open"]

(* Mutant: the level is replaced.                                          *)
LevelReplaced(lv, e, d) == [lv EXCEPT ![e.side][e.price] = d]

(* ag.add_price_level and ag.add_order_notional, for an entry that changes *)
(* its size by d.                                                          *)
AddLevel(lv, e, d)    == [lv EXCEPT ![e.side][e.price] = @ + d]
AddNotional(nt, e, d) == [nt EXCEPT ![e.trader] = @ + e.price * d]

(* Index short is read upwards, index long downwards: best price first,    *)
(* then the older entry.                                                   *)
Before(e, f) ==
    \/ e.price = f.price /\ e.ts < f.ts
    \/ IF e.side = "short" THEN e.price < f.price ELSE e.price > f.price

IsBest(o) ==
    /\ ob[o] # Nil
    /\ \A p \in Orders \ {o} :
          ob[p] # Nil /\ ob[p].side = ob[o].side => Before(ob[o], ob[p])

(* An order of side and price trades with entry e.                         *)
Crosses(side, price, e) ==
    /\ e.side = Opposite(side)
    /\ IF side = "long" THEN price >= e.price ELSE price <= e.price

(* When the trigger of a conditional order is met at fair price f: a       *)
(* stop-loss or stop order follows the price, a take-profit order waits    *)
(* for it.                                                                 *)
StopMet(side, trigger, f) ==
    IF side = "long" THEN trigger <= f ELSE trigger >= f

TakeProfitMet(side, trigger, f) ==
    IF side = "long" THEN trigger >= f ELSE trigger <= f

Triggered(ty, side, trigger, f) ==
    IF ty \in TakeProfitTypes THEN TakeProfitMet(side, trigger, f)
                              ELSE StopMet(side, trigger, f)

(* _fill: the buyer's position changes first, then the seller's.  Both may *)
(* be the same profile.                                                    *)
FillPositions(side, taker, maker, q) ==
    LET buyer  == IF side = "long" THEN taker ELSE maker
        seller == IF side = "long" THEN maker ELSE taker
        bought == [position EXCEPT ![buyer] = UpdatePosition(@, "long", q)]
    IN  [bought EXCEPT ![seller] = UpdatePosition(@, "short", q)]
-----------------------------------------------------------------------------
(* Sequence and transaction                                                *)

CanStart == task.pc = "idle" /\ sequence < MaxSequence

(* engine._next_sequence, box.begin or box.savepoint.                      *)
Savepoint(rows) ==
    /\ sequence' = sequence + 1
    /\ saved' = [order |-> rows, ob |-> ob, level |-> level,
                 notional |-> notional, position |-> position,
                 fills |-> fills, sequence |-> sequence]

(* A task that only edits rows: next sequence, commit, notif.notify.       *)
CommitAtOnce ==
    /\ sequence' = sequence + 1
    /\ published' = sequence + 1
    /\ touched' = {}
    /\ UNCHANGED <<task, saved>>

StartMatch(kind, o, size, liq, changed) ==
    /\ task' = [pc |-> "match", kind |-> kind, oid |-> o, left |-> size,
                liq |-> liq, who |-> Nil]
    /\ touched' = changed

(* Mutant: only a closed position, not a flipped one, is noticed.          *)
StaleWhenClosed(row, pos) == pos.size = 0

(* _post_execute_order cancels the placed stop-loss and take-profit orders *)
(* of the profiles the task has touched whose position is gone or on the   *)
(* side of the order.                                                      *)
Stale(row, pos) == pos.size = 0 \/ pos.side = row.side

CancelStale(rows, positions, changed) ==
    [o \in Orders |->
        IF /\ rows[o] # Nil
           /\ rows[o].status = "placed"
           /\ rows[o].type \in DependentTypes
           /\ rows[o].profile \in changed
           /\ Stale(rows[o], positions[rows[o].profile])
        THEN CanceledRow(rows[o])
        ELSE rows[o]]

(* Mutant: fill-or-kill is not checked.                                    *)
TifErrorNoFok(row, left) ==
    /\ row.type \in ImmediateTypes
    /\ \/ row.tif = "ioc" /\ left = row.initial
       \/ row.type = "limit" /\ row.tif = "post_only" /\ left # row.initial

(* limit_order.post_execute and market_order.post_execute: errors by time  *)
(* in force; the other types have none.                                    *)
TifError(row, left) ==
    /\ row.type \in ImmediateTypes
    /\ \/ row.tif = "fok" /\ left # 0
       \/ row.tif = "ioc" /\ left = row.initial
       \/ row.type = "limit" /\ row.tif = "post_only" /\ left # row.initial

(* An ioc order that traded partly gives up the rest.                      *)
DropsRest(row, left) ==
    /\ row.type \in ImmediateTypes
    /\ row.tif = "ioc"
    /\ left # 0 /\ left < row.initial
-----------------------------------------------------------------------------
(* _handle_create                                                          *)

(* A limit or market order that goes to the public order book.             *)
Create(o, t, ty, tif, side, price, size, liq) ==
    LET row  == NewOrder(t, ty, tif, side, "open", price, 0, 0, size)
        rows == [order EXCEPT ![o] = row]
    IN  /\ CanStart
        /\ ~Exists(o)
        /\ ty = "market" => tif # "post_only"
        /\ order' = rows
        /\ Savepoint(rows)
        /\ StartMatch("create", o, size, liq, {t})
        /\ UNCHANGED <<ob, level, notional, position, fills, fair, published>>

(* router.check_routable: only a good-till-cancel limit or market order    *)
(* that crosses a two-sided book is matched privately.                     *)
Routable(tif, side, price) ==
    /\ RouterActive
    /\ tif = "gtc"
    /\ \E o \in Resting : ob[o].side = side
    /\ \E o \in Resting : Crosses(side, price, ob[o])

(* router.which_counterparty: the routes may name any profile.             *)
Counterparties(tif, side, price) ==
    {cp \in Traders : Routable(tif, side, price)}

(* engine._private_match: the counterparty's position changes first.       *)
PrivatePositions(side, taker, cp, size) ==
    LET given == [position EXCEPT
                    ![cp] = UpdatePosition(@, Opposite(side), size)]
    IN  [given EXCEPT ![taker] = UpdatePosition(@, side, size)]

(* A routable order that the counterparty cp takes whole at the best       *)
(* price: engine._private_execute.  The order book and its sequence do not *)
(* change.  When a check fails the savepoint undoes the match and the      *)
(* order goes to the public order book, which is Create.                   *)
CreatePrivate(o, t, ty, side, price, size, cp) ==
    LET row == NewOrder(t, ty, "gtc", side, "open", price, 0, 0, size)
        positions == PrivatePositions(side, t, cp, size)
        rows == [order EXCEPT ![o] = Updated(row, 0)]
    IN  /\ task.pc = "idle"
        /\ ~Exists(o)
        /\ cp \in Counterparties("gtc", side, price)
        /\ order' = CancelStale(rows, positions, {t, cp})
        /\ position' = positions
        /\ fills' = [fills EXCEPT ![o].taker = @ + size]
        /\ touched' = {}
        /\ UNCHANGED <<ob, level, notional, fair, sequence, published, task,
                       saved>>

(* Mutant: orders that are already open are not counted.                   *)
CountOrdersPlaced(t, types, statuses) ==
    Cardinality({o \in Orders : /\ order[o] # Nil
                                /\ order[o].profile = t
                                /\ order[o].type \in types
                                /\ order[o].status = "placed"})

(* How many orders of the given types and statuses the profile has.       *)
CountOrders(t, types, statuses) ==
    Cardinality({o \in Orders : /\ order[o] # Nil
                                /\ order[o].profile = t
                                /\ order[o].type \in types
                                /\ order[o].status \in statuses})

(* The pre_create checks of the conditional orders.  A stop-loss or        *)
(* take-profit order needs a position, takes the side that reduces it, and *)
(* counts against the limit of its kind; no trigger may be met already,    *)
(* and a limit price stays within a ratio of the trigger.                  *)
PriceInRange(side, price, trigger) ==
    IF side = "long" THEN price <= (TriggerBuyRatio * trigger) \div 100
                     ELSE price >= (TriggerSellRatio * trigger) \div 100

PreCreateDependent(t, ty, price, trigger) ==
    /\ position[t].size # 0
    /\ ty \in LimitTypes =>
          PriceInRange(Opposite(position[t].side), price, trigger)
    /\ ~Triggered(ty, Opposite(position[t].side), trigger, fair)
    /\ CountOrders(t, IF ty \in StopLossTypes THEN StopLossTypes
                                              ELSE TakeProfitTypes,
                   {"placed", "open"}) < MaxDependent

PreCreateStop(t, ty, side, price, trigger) ==
    /\ ty \in LimitTypes => PriceInRange(side, price, trigger)
    /\ ~Triggered(ty, side, trigger, fair)
    /\ CountOrders(t, StopTypes, {"placed"}) < MaxConditional

(* A conditional order is stored as placed; its trigger is not met, so the *)
(* task ends there.  One that fails pre_create is stored as rejected (with *)
(* the client's side and size, which nothing reads), and no order book     *)
(* update is sent.                                                         *)
PlaceOrReject(o, row, accepted) ==
    /\ order' = [order EXCEPT ![o] =
                   IF accepted THEN row ELSE RejectedRow(row)]
    /\ IF accepted
         THEN CommitAtOnce
         ELSE UNCHANGED <<sequence, published, touched, task, saved>>
    /\ UNCHANGED <<ob, level, notional, position, fills, fair>>

CreateDependent(o, t, ty, price, trigger, percent) ==
    /\ CanStart
    /\ ~Exists(o)
    /\ LET accepted == PreCreateDependent(t, ty, price, trigger)
           row == NewOrder(t, ty, "gtc", Opposite(position[t].side), "placed",
                           IF ty \in LimitTypes THEN price ELSE 0,
                           trigger, percent, 0)
       IN  PlaceOrReject(o, row, accepted)

CreateStop(o, t, ty, side, price, trigger, size) ==
    /\ CanStart
    /\ ~Exists(o)
    /\ LET accepted == PreCreateStop(t, ty, side, price, trigger)
           row == NewOrder(t, ty, "gtc", side, "placed", price, trigger, 0,
                           size)
       IN  PlaceOrReject(o, row, accepted)
-----------------------------------------------------------------------------
(* engine._match_order                                                     *)

Taker == order[task.oid]

FillSize(e, left) == IF e.size < left THEN e.size ELSE left

(* _update_entry: the maker's entry and row keep rest.                     *)
UpdateEntry(m, rest) ==
    LET e == ob[m]
    IN  /\ ob' = [ob EXCEPT ![m] = IF rest = 0 THEN Nil
                                   ELSE [e EXCEPT !.size = rest]]
        /\ order' = [order EXCEPT ![m] = Updated(@, rest)]
        /\ level' = AddLevel(level, e, rest - e.size)
        /\ notional' = AddNotional(notional, e, rest - e.size)
        /\ touched' = touched \cup {e.trader}

(* One iteration of the loop: the best entry m that the taker's price      *)
(* reaches trades; _update_entry for the maker, then _fill for both.       *)
Fill(m) ==
    LET e == ob[m]
        q == FillSize(e, task.left)
    IN  /\ task.pc = "match"
        /\ task.left # 0
        /\ IsBest(m)
        /\ Crosses(Taker.side, Taker.price, e)
        /\ UpdateEntry(m, e.size - q)
        /\ position' = FillPositions(Taker.side, Taker.profile, e.trader, q)
        /\ fills' = [fills EXCEPT ![m].maker = @ + q,
                                  ![task.oid].taker = @ + q]
        /\ task' = [task EXCEPT !.left = @ - q]
        /\ UNCHANGED <<fair, sequence, published, saved>>

(* _create_entry: what is left of the taker rests in the book.             *)
CreateEntry(left) ==
    LET e == [trader |-> Taker.profile, side |-> Taker.side,
              price |-> Taker.price, size |-> left, ts |-> sequence]
    IN  /\ ob' = [ob EXCEPT ![task.oid] = e]
        /\ level' = AddLevel(level, e, left)
        /\ notional' = AddNotional(notional, e, left)
        /\ touched' = touched \cup {e.trader}

(* The loop has ended: what is left becomes an entry and the taker's row   *)
(* is updated (_update_order).                                             *)
Rest ==
    LET left == task.left
    IN  /\ task.pc = "match"
        /\ \/ left = 0
           \/ \A m \in Orders :
                 ob[m] # Nil => ~Crosses(Taker.side, Taker.price, ob[m])
        /\ IF left = 0
             THEN UNCHANGED <<ob, level, notional, touched>>
             ELSE CreateEntry(left)
        /\ order' = [order EXCEPT ![task.oid] = Updated(@, left)]
        /\ task' = [task EXCEPT !.pc = "finish"]
        /\ UNCHANGED <<position, fills, fair, sequence, published, saved>>

(* risk.post_match accepts (its verdict depends on balances, which this    *)
(* module leaves out), the time in force is respected, stale stop-loss and *)
(* take-profit orders go, the transaction commits and the update is sent.  *)
Commit ==
    LET o == task.oid
        drop == DropsRest(Taker, task.left)
        rows == IF drop THEN [order EXCEPT ![o] = CanceledRow(@)]
                        ELSE order
    IN  /\ task.pc = "finish"
        /\ ~TifError(Taker, task.left)
        /\ IF drop
             THEN /\ ob' = [ob EXCEPT ![o] = Nil]
                  /\ level' = AddLevel(level, ob[o], 0 - ob[o].size)
                  /\ notional' = AddNotional(notional, ob[o], 0 - ob[o].size)
             ELSE UNCHANGED <<ob, level, notional>>
        /\ order' = CancelStale(rows, position, touched)
        /\ published' = sequence
        /\ touched' = {}
        /\ task' = NoTask
        /\ saved' = Nil
        /\ UNCHANGED <<position, fills, fair, sequence>>

(* Mutants: the rollback forgets the fills, or the sequence.               *)
RollbackKeepsFills ==
    /\ ob' = saved.ob
    /\ level' = saved.level
    /\ notional' = saved.notional
    /\ position' = saved.position
    /\ fills' = fills
    /\ sequence' = saved.sequence

(* engine._rollback_with_sequence: rows and sequence return to the         *)
(* savepoint.                                                              *)
Rollback ==
    /\ ob' = saved.ob
    /\ level' = saved.level
    /\ notional' = saved.notional
    /\ position' = saved.position
    /\ fills' = saved.fills
    /\ sequence' = saved.sequence

(* A check failed: roll back to the savepoint with the old sequence.  The  *)
(* order of a create or execute task is rejected, an amend leaves it as it *)
(* was.  Liquidation orders skip risk.post_match.                          *)
Abort ==
    /\ task.pc = "finish"
    /\ ~task.liq \/ TifError(Taker, task.left)
    /\ order' = IF task.kind = "amend" THEN saved.order
                ELSE [saved.order EXCEPT
                        ![task.oid] = RejectedRow(@)]
    /\ Rollback
    /\ touched' = {}
    /\ task' = NoTask
    /\ saved' = Nil
    /\ UNCHANGED <<fair, published>>
-----------------------------------------------------------------------------
(* _handle_cancel and _handle_cancelall                                    *)

(* Mutant: the entry stays in the order book.                              *)
WithdrawRowOnly(o) ==
    /\ order' = [order EXCEPT ![o] = CanceledRow(@)]
    /\ UNCHANGED <<ob, level, notional>>

(* _cancel_entry, or engine._cancel_order for an order without entry.      *)
Withdraw(o) ==
    /\ order' = [order EXCEPT ![o] = CanceledRow(@)]
    /\ IF ob[o] = Nil
         THEN UNCHANGED <<ob, level, notional>>
         ELSE /\ ob' = [ob EXCEPT ![o] = Nil]
              /\ level' = AddLevel(level, ob[o], 0 - ob[o].size)
              /\ notional' = AddNotional(notional, ob[o], 0 - ob[o].size)

(* Mutant: any order that exists can be canceled.                          *)
ActiveAny(o) == Exists(o)

Active(o) == HasStatus(o, "placed") \/ ob[o] # Nil

Cancel(o) ==
    /\ CanStart
    /\ Active(o)
    /\ Withdraw(o)
    /\ CommitAtOnce
    /\ UNCHANGED <<position, fills, fair>>

CancelAll(t) ==
    /\ CanStart
    /\ sequence' = sequence + 1
    /\ touched' = {t}
    /\ task' = [NoTask EXCEPT !.pc = "cancelall", !.kind = "cancelall",
                              !.who = t]
    /\ UNCHANGED <<db, fair, published, saved>>

(* One iteration of its two loops, over placed orders and over entries.    *)
Cancellable(o) ==
    \/ HasStatus(o, "placed") /\ order[o].profile = task.who
    \/ ob[o] # Nil /\ ob[o].trader = task.who

CancelNext(o) ==
    /\ task.pc = "cancelall"
    /\ Cancellable(o)
    /\ Withdraw(o)
    /\ UNCHANGED <<position, fills, fair, sequence, published, touched, task,
                   saved>>

CancelAllDone ==
    /\ task.pc = "cancelall"
    /\ \A o \in Orders : ~Cancellable(o)
    /\ published' = sequence
    /\ touched' = {}
    /\ task' = NoTask
    /\ UNCHANGED <<db, fair, sequence, saved>>
-----------------------------------------------------------------------------
(* _handle_amend                                                           *)

(* The price stays: _amend_entry replaces the size of the entry and of the *)
(* order and moves the entry behind the others of its price.               *)
AmendSize(o, size) ==
    LET e == ob[o]
        d == size - e.size
    IN  /\ CanStart
        /\ e # Nil
        /\ ob' = [ob EXCEPT ![o] = [e EXCEPT !.size = size,
                                             !.ts = sequence + 1]]
        /\ order' = [order EXCEPT ![o] = Amended(@, order[o].price, size)]
        /\ level' = AddLevel(level, e, d)
        /\ notional' = AddNotional(notional, e, d)
        /\ CommitAtOnce
        /\ UNCHANGED <<position, fills, fair>>

(* The price changes: the entry is cancelled and the amended order is      *)
(* matched again.  Profiles are recorded as they trade; the owner is       *)
(* recorded only after the order has been executed.                        *)
AmendPrice(o, price, size) ==
    LET e == ob[o]
    IN  /\ CanStart
        /\ e # Nil
        /\ price # e.price
        /\ ob' = [ob EXCEPT ![o] = Nil]
        /\ order' = [order EXCEPT ![o] = Amended(@, price, size)]
        /\ level' = AddLevel(level, e, 0 - e.size)
        /\ notional' = AddNotional(notional, e, 0 - e.size)
        /\ Savepoint(order)
        /\ StartMatch("amend", o, size, FALSE, {})
        /\ UNCHANGED <<position, fills, fair, published>>

(* A waiting stop-loss or take-profit order: new trigger, percent and,     *)
(* where the type has one, price.  The trigger is checked against the side *)
(* that reduces the present position, and may not be met already.          *)
AmendDependent(o, price, trigger, percent) ==
    LET row == order[o]
        pos == position[row.profile]
    IN  /\ CanStart
        /\ HasStatus(o, "placed")
        /\ row.type \in DependentTypes
        /\ pos.size # 0
        /\ ~Triggered(row.type, Opposite(pos.side), trigger, fair)
        /\ order' = [order EXCEPT ![o] =
              [row EXCEPT !.trigger = trigger, !.percent = percent,
                 !.price = IF row.type \in LimitTypes THEN price ELSE @]]
        /\ CommitAtOnce
        /\ UNCHANGED <<ob, level, notional, position, fills, fair>>

(* A waiting stop order: new trigger, size and, for a stop_limit, price.   *)
(* The order is executed after it, without effect: its trigger is not met. *)
AmendStop(o, price, trigger, size) ==
    LET row == order[o]
    IN  /\ CanStart
        /\ HasStatus(o, "placed")
        /\ row.type \in StopTypes
        /\ ~Triggered(row.type, row.side, trigger, fair)
        /\ order' = [order EXCEPT ![o] =
              [row EXCEPT !.trigger = trigger, !.size = size, !.initial = size,
                 !.price = IF row.type \in LimitTypes THEN price ELSE @]]
        /\ CommitAtOnce
        /\ UNCHANGED <<ob, level, notional, position, fills, fair>>
-----------------------------------------------------------------------------
(* _handle_execute                                                         *)

(* The row pre_execute opens when the trigger of o is met.                 *)
OpenedRow(row, pos) ==
    LET size == IF row.type \in DependentTypes
                  THEN ExecutionSize(pos, row.percent) ELSE row.size
        price == IF row.type \in LimitTypes
                   THEN row.price ELSE ExecutionPrice(row.side, fair)
    IN  [row EXCEPT !.status = "open", !.price = price, !.size = size,
                    !.initial = size]

NotionalExceeded(row) == row.price * row.size >= MaxNotional

ExecuteError(row, pos) ==
    \/ row.type \in DependentTypes /\ pos.size = 0
    \/ row.type # "stop_limit" /\ NotionalExceeded(OpenedRow(row, pos))

IsTriggered(o) ==
    /\ HasStatus(o, "placed")
    /\ Triggered(order[o].type, order[o].side, order[o].trigger, fair)

Execute(o) ==
    LET row == order[o]
        opened == OpenedRow(row, position[row.profile])
    IN  /\ CanStart
        /\ IsTriggered(o)
        /\ ~ExecuteError(row, position[row.profile])
        /\ order' = [order EXCEPT ![o] = opened]
        /\ Savepoint(order)
        /\ StartMatch("execute", o, opened.size, FALSE, {row.profile})
        /\ UNCHANGED <<ob, level, notional, position, fills, fair, published>>

(* pre_execute fails: rollback, then the order is rejected.                *)
ExecuteRejected(o) ==
    /\ task.pc = "idle"
    /\ IsTriggered(o)
    /\ ExecuteError(order[o], position[order[o].profile])
    /\ order' = [order EXCEPT ![o] = RejectedRow(@)]
    /\ UNCHANGED <<ob, level, notional, position, fills, fair, sequence,
                   published, touched, task, saved>>

(* The fair price has moved back since the task was queued: nothing to do, *)
(* but the transaction commits and an empty update is sent.                *)
ExecuteNotMet(o) ==
    /\ CanStart
    /\ HasStatus(o, "placed")
    /\ ~IsTriggered(o)
    /\ CommitAtOnce
    /\ UNCHANGED <<db, fair>>
-----------------------------------------------------------------------------
(* _handle_liquidate                                                       *)

(* APLACESELLORDERS: a limit order against the position, without risk      *)
(* checks.                                                                 *)
LiquidateSell(o, t, price, size) ==
    /\ position[t].size # 0
    /\ Create(o, t, "limit", "gtc", Opposite(position[t].side), price, size,
              TRUE)

(* _fill_wf3: size of the trader's position moves to the insurance fund.   *)
TakeoverPositions(t, size) ==
    FillPositions(position[t].side, Insurance, t, size)

(* AINSTAKEOVER and AINSCLAWBACK, at an agreed price and outside the order *)
(* book.  The size was computed when the task was queued.                  *)
Takeover(t, size) ==
    /\ task.pc = "idle"
    /\ position[t].size # 0
    /\ position' = TakeoverPositions(t, size)
    /\ UNCHANGED <<order, ob, level, notional, fills, fair, sequence,
                   published, touched, task, saved>>
-----------------------------------------------------------------------------
(* market.update_fair_price, called by the pricing service between tasks.  *)
UpdateFairPrice(f) ==
    /\ task.pc = "idle"
    /\ fair' = f
    /\ UNCHANGED <<db, sequence, published, touched, task, saved>>

Next ==
    \/ \E o \in Orders, t \in Traders, tif \in TimesInForce, side \in Sides,
          price \in Prices, size \in Sizes, ty \in OrderTypes \cap ImmediateTypes :
          Create(o, t, ty, tif, side, price, size, FALSE)
    \/ \E o \in Orders, t, cp \in Traders, side \in Sides, price \in Prices,
          size \in Sizes, ty \in OrderTypes \cap ImmediateTypes :
          CreatePrivate(o, t, ty, side, price, size, cp)
    \/ \E o \in Orders, t \in Traders, ty \in OrderTypes \cap DependentTypes,
          price, trigger \in Prices, percent \in Percents :
          CreateDependent(o, t, ty, price, trigger, percent)
    \/ \E o \in Orders, t \in Traders, ty \in OrderTypes \cap StopTypes,
          side \in Sides, price, trigger \in Prices, size \in Sizes :
          CreateStop(o, t, ty, side, price, trigger, size)
    \/ \E m \in Orders : Fill(m)
    \/ Rest
    \/ Commit
    \/ Abort
    \/ \E o \in Orders : Cancel(o)
    \/ \E t \in Traders : CancelAll(t)
    \/ \E o \in Orders : CancelNext(o)
    \/ CancelAllDone
    \/ \E o \in Orders, size \in Sizes : AmendSize(o, size)
    \/ \E o \in Orders, price \in Prices, size \in Sizes :
          AmendPrice(o, price, size)
    \/ \E o \in Orders, price, trigger \in Prices, percent \in Percents :
          AmendDependent(o, price, trigger, percent)
    \/ \E o \in Orders, price, trigger \in Prices, size \in Sizes :
          AmendStop(o, price, trigger, size)
    \/ \E o \in Orders : Execute(o)
    \/ \E o \in Orders : ExecuteRejected(o)
    \/ \E o \in Orders : ExecuteNotMet(o)
    \/ \E o \in Orders, t \in Traders, price \in Prices,
          size \in LiquidationSizes : LiquidateSell(o, t, price, size)
    \/ \E t \in Traders, size \in LiquidationSizes : Takeover(t, size)
    \/ \E f \in FairPrices : UpdateFairPrice(f)

Spec == Init /\ [][Next]_vars
-----------------------------------------------------------------------------
(* Properties                                                              *)

(* The range of every variable.                                            *)
TypeOK ==
    /\ order \in [Orders -> OrderT \cup {Nil}]
    /\ ob \in [Orders -> EntryT \cup {Nil}]
    /\ level \in [Sides -> [AllPrices -> Int]]
    /\ notional \in [Traders -> Int]
    /\ position \in [Traders -> PositionT]
    /\ fills \in [Orders -> FillT]
    /\ fair \in FairPrices
    /\ sequence \in Nat
    /\ published \in Nat
    /\ touched \in SUBSET Traders
    /\ task \in TaskT
    /\ saved \in SavedT \cup {Nil}

(* The book is never crossed: every bid is below every ask.  Creating,     *)
(* amending and triggering an order all have to trade the order as far as  *)
(* its price reaches before what is left rests (_match_order,              *)
(* _amend_as_limit_order).                                                 *)
BookUncrossed ==
    \A b, a \in Orders :
        /\ ob[b] # Nil /\ ob[b].side = "long"
        /\ ob[a] # Nil /\ ob[a].side = "short"
        => ob[b].price < ob[a].price

(* Between tasks the order space and the orderbook space agree: an order   *)
(* is open exactly when it has an entry, and the entry repeats its owner,  *)
(* side, price and remaining size, which is never zero.  Every handler     *)
(* edits the two spaces by separate calls.                                 *)
EntriesAgree ==
    task.pc = "idle" =>
        \A o \in Orders :
            /\ ob[o] # Nil <=> HasStatus(o, "open")
            /\ ob[o] # Nil =>
                  /\ ob[o].trader = order[o].profile
                  /\ ob[o].side = order[o].side
                  /\ ob[o].price = order[o].price
                  /\ ob[o].size = order[o].size
                  /\ ob[o].size # 0

(* Between tasks the filled size an order reports (total_filled_size) is   *)
(* what the fill space says it traded, through partial fills, amendments   *)
(* of its size and price, rollbacks and private matches.                   *)
FilledIsTraded ==
    task.pc = "idle" =>
        \A o \in Orders : order[o] # Nil =>
            order[o].filled = fills[o].maker + fills[o].taker

(* What one row of the orderbook space adds to a price level and to the    *)
(* open notional of a trader, and the sums over a book.                    *)
ShownSize(e, side, p) ==
    IF e # Nil /\ e.side = side /\ e.price = p THEN e.size ELSE 0

OpenValue(e, t) == IF e # Nil /\ e.trader = t THEN e.price * e.size ELSE 0

SizeAt(book, side, p) ==
    SumFunctionOnSet([o \in Orders |-> ShownSize(book[o], side, p)], Orders)

ValueOf(book, t) ==
    SumFunctionOnSet([o \in Orders |-> OpenValue(book[o], t)], Orders)

(* The price levels that clients are shown are the sums of the entries.    *)
LevelsAgree ==
    \A side \in Sides, p \in AllPrices : level[side][p] = SizeAt(ob, side, p)

(* The open notional used by the margin check is the value of the entries  *)
(* of the trader.                                                          *)
NotionalAgrees ==
    \A t \in Traders : notional[t] = ValueOf(ob, t)

(* Every long unit has a short unit: fills on the book, private matches    *)
(* and takeovers by the insurance fund all keep the net position zero.     *)
OpenInterestBalanced ==
    NetTotal(position) = 0

(* Time in force, seen from the finished order: fill-or-kill trades whole  *)
(* or not at all, immediate-or-cancel never rests, post-only never takes.  *)
(* _match_order rests the remainder first and post_execute repairs it.     *)
TimeInForceHonoured ==
    task.pc = "idle" =>
        \A o \in Orders : order[o] # Nil =>
            LET row == order[o]
            IN  /\ row.tif = "fok" =>
                      \/ row.status = "closed" /\ row.filled = row.initial
                      \/ row.status = "rejected"
                /\ row.tif = "ioc" => row.status # "open"
                /\ row.tif = "post_only" => fills[o].taker = 0

(* A rejected order never traded: a rejection after the match undoes every *)
(* fill of the transaction.                                                *)
RejectedNeverTraded ==
    task.pc = "idle" =>
        \A o \in Orders : HasStatus(o, "rejected") =>
            fills[o] = [maker |-> 0, taker |-> 0]

(* No profile has more stop-loss orders, or take-profit orders, waiting or *)
(* in the book than MAX_POSITION_DEPENDENT_ORDERS, nor more waiting stop   *)
(* orders than MAX_CONDITIONAL_ORDERS: the count is taken before the order *)
(* is stored, and orders leave it by execution, cancellation and rollback. *)
ConditionalLimits ==
    LET Held(t, types, statuses) ==
            {o \in Orders : /\ order[o] # Nil
                            /\ order[o].profile = t
                            /\ order[o].type \in types
                            /\ order[o].status \in statuses}
    IN  task.pc = "idle" =>
          \A t \in Traders :
            /\ Cardinality(Held(t, StopLossTypes, {"placed", "open"})) <= MaxDependent
            /\ Cardinality(Held(t, TakeProfitTypes, {"placed", "open"})) <= MaxDependent
            /\ Cardinality(Held(t, StopTypes, {"placed"})) <= MaxConditional

(* Order book updates carry consecutive sequence numbers, although a task  *)
(* takes its number before it knows whether it will commit.                *)
UpdatesInSequence ==
    [][published' # published => published' = published + 1]_vars

(* What the rest of the system can see of an order: its committed row.     *)
CommittedOrder ==
    IF task.pc \in {"match", "finish"} THEN saved.order ELSE order

(* Closed, canceled and rejected are final: no later task changes such an  *)
(* order in any way.                                                       *)
FinalOrdersStay ==
    [][\A o \in Orders :
          /\ CommittedOrder[o] # Nil
          /\ CommittedOrder[o].status \in {"closed", "canceled", "rejected"}
          => CommittedOrder'[o] = CommittedOrder[o]]_vars

(* A create or execute task cancels the stop-loss and take-profit orders   *)
(* that its trades have made pointless, for the taker and for every maker  *)
(* (_post_execute_order).                                                  *)
TradesCancelStale ==
    [][task.kind \in {"create", "execute"} /\ published' # published =>
          \A o \in Orders :
              /\ order'[o] # Nil
              /\ order'[o].status = "placed"
              /\ order'[o].type \in DependentTypes
              /\ position'[order'[o].profile]
                    # saved.position[order'[o].profile]
              => /\ position'[order'[o].profile].size # 0
                 /\ position'[order'[o].profile].side # order'[o].side]_vars

(* A placed stop-loss or take-profit order always has a position to        *)
(* reduce.  The code does not keep this: see the README.                   *)
NoStaleDependent ==
    task.pc = "idle" =>
        \A o \in Orders :
            /\ HasStatus(o, "placed")
            /\ order[o].type \in DependentTypes
            => ~Stale(order[o], position[order[o].profile])

(* What the matching leaves behind: whatever tasks come, every variable    *)
(* keeps its type, the book is uncrossed, each open order has its entry,   *)
(* and what it filled is what it traded (_match_order, _handle_amend).     *)
BookConsistent ==
    TypeOK /\ BookUncrossed /\ EntriesAgree /\ FilledIsTraded

(* Both aggregates follow the entries through fills, amendments,           *)
(* cancellations and rollbacks (aggregate.lua).                            *)
AggregatesAgree ==
    LevelsAgree /\ NotionalAgrees

(* What comes after a match repairs all of it: a refused order has traded  *)
(* nothing, an entry that may not rest is gone from both spaces, and the   *)
(* sequence number is given back (post_execute, the rollbacks of           *)
(* handle_task).                                                           *)
RepairsComplete ==
    [](EntriesAgree /\ RejectedNeverTraded) /\ UpdatesInSequence

===============================================================================
