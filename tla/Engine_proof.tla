---------------------------- MODULE Engine_proof ----------------------------
(***************************************************************************)
(* Proofs about the matching engine, for every set of orders, traders,     *)
(* prices and sizes.  The inductive invariant IInv says of a running task  *)
(* what Engine's invariants leave open between its steps: the taker is the *)
(* one open order without an entry, its fills are ahead of its row by what *)
(* has been matched, and the savepoint satisfies what held before the task *)
(* began.                                                                  *)
(***************************************************************************)
EXTENDS Engine, TLAPS

USE DEF CanceledRow, RejectedRow, Amended

Running == task.pc \in {"match", "finish"}

Final == {"closed", "canceled", "rejected"}

(* An entry of book repeats an open order of rows.                         *)
EntryRow(rows, book, o) ==
    book[o] # Nil =>
        /\ rows[o] # Nil
        /\ rows[o].status = "open"
        /\ book[o].trader = rows[o].profile
        /\ book[o].side = rows[o].side
        /\ book[o].price = rows[o].price
        /\ book[o].size = rows[o].size
        /\ book[o].size # 0

OpenRow(rows, o) == rows[o] # Nil /\ rows[o].status = "open"

(* Order space and orderbook space agree; the taker has no entry while it  *)
(* is matched.                                                             *)
BookRows ==
    /\ \A o \in Orders : EntryRow(order, ob, o)
    /\ \A o \in Orders :
          OpenRow(order, o) => ob[o] # Nil \/ (task.pc = "match" /\ o = task.oid)

(* The taker of a running task.                                            *)
TakerRow ==
    /\ Running => /\ task.oid \in Orders
                  /\ order[task.oid] # Nil
                  /\ saved \in SavedT
    /\ task.pc = "match" => /\ ob[task.oid] = Nil
                            /\ order[task.oid].status = "open"
                            /\ task.left <= order[task.oid].size
    /\ task.pc = "finish" =>
          /\ order[task.oid].size = task.left
          /\ order[task.oid].status = IF task.left = 0 THEN "closed" ELSE "open"

(* The rows of the savepoint agree, but for the new order of a create.     *)
SavedRows ==
    Running =>
        /\ \A o \in Orders : EntryRow(saved.order, saved.ob, o)
        /\ \A o \in Orders :
              OpenRow(saved.order, o) =>
                  saved.ob[o] # Nil \/ (task.kind = "create" /\ o = task.oid)
        /\ saved.order[task.oid] # Nil
        /\ saved.order[task.oid].status \notin Final
        /\ task.kind # "amend" => saved.ob[task.oid] = Nil

Uncrossed(book) ==
    \A b, a \in Orders :
        /\ book[b] # Nil /\ book[b].side = "long"
        /\ book[a] # Nil /\ book[a].side = "short"
        => book[b].price < book[a].price

SavedUncrossed == Running => Uncrossed(saved.ob)

(* What an order has traded is its filled size; an order that waits or was *)
(* rejected has not traded.                                                *)
Traded(rows, f, o) ==
    /\ rows[o] # Nil => rows[o].filled = f[o].maker + f[o].taker
    /\ rows[o] = Nil => f[o].maker + f[o].taker = 0
    /\ rows[o] # Nil /\ rows[o].status \in {"placed", "rejected"} =>
          rows[o].filled = 0

(* The fills of the taker are ahead of its row.                            *)
FillsMatch ==
    \A o \in Orders :
        IF task.pc = "match" /\ o = task.oid
          THEN order[o].filled + (order[o].size - task.left)
                  = fills[o].maker + fills[o].taker
          ELSE Traded(order, fills, o)

SavedFills ==
    Running =>
        /\ \A o \in Orders : Traded(saved.order, saved.fills, o)
        /\ task.kind # "amend" => saved.order[task.oid].filled = 0

(* A task that runs holds exactly one number that is not published.        *)
SequenceHeld ==
    /\ sequence = IF task.pc = "idle" THEN published ELSE published + 1
    /\ Running => saved.sequence = published

(* A running task leaves the orders alone that were final before it.       *)
FinalKept ==
    Running =>
        \A o \in Orders :
            saved.order[o] # Nil /\ saved.order[o].status \in Final =>
                order[o] = saved.order[o]

IInv ==
    /\ TypeOK
    /\ TakerRow
    /\ BookRows
    /\ SavedRows
    /\ BookUncrossed
    /\ SavedUncrossed
    /\ FillsMatch
    /\ SavedFills
    /\ SequenceHeld
    /\ FinalKept
-----------------------------------------------------------------------------
(* Rows                                                                    *)

(* A fill turns a position into a position.                                *)
LEMMA PositionType ==
    ASSUME NEW pos \in PositionT, NEW side \in Sides, NEW fill \in Nat
    PROVE  UpdatePosition(pos, side, fill) \in PositionT
BY DEF UpdatePosition, PositionRow, NoPosition, PositionT, Sides

(* A fill moves the signed size of the position by the signed fill: the    *)
(* four branches of _update_position agree with plain addition.            *)
THEOREM PositionAdds ==
    ASSUME NEW pos \in PositionT, NEW side \in Sides, NEW fill \in Nat
    PROVE  Net(UpdatePosition(pos, side, fill)) = Net(pos) + Signed(side, fill)
BY DEF UpdatePosition, PositionRow, NoPosition, PositionT, Sides, Net, Signed

(* Prices are naturals; the price of an order without one is zero.         *)
LEMMA PricesNat ==
    AllPrices \subseteq Nat /\ Prices \subseteq AllPrices
<1>1. Prices \subseteq Nat
  BY ConstantAssumption
<1>. QED
  BY <1>1 DEF AllPrices

(* The other side is a side.                                               *)
LEMMA OppositeType ==
    ASSUME NEW side \in Sides
    PROVE  Opposite(side) \in Sides /\ Opposite(side) # side
BY DEF Sides, Opposite

(* Whoever buys and sells, both positions stay positions.                  *)
LEMMA FillPositionsType ==
    ASSUME position \in [Traders -> PositionT], NEW side \in Sides,
           NEW taker \in Traders, NEW maker \in Traders, NEW q \in Nat
    PROVE  FillPositions(side, taker, maker, q) \in [Traders -> PositionT]
<1>. DEFINE buyer == IF side = "long" THEN taker ELSE maker
            seller == IF side = "long" THEN maker ELSE taker
            bought == [position EXCEPT ![buyer] = UpdatePosition(@, "long", q)]
<1>1. buyer \in Traders /\ seller \in Traders
  OBVIOUS
<1>2. "long" \in Sides /\ "short" \in Sides
  BY DEF Sides
<1>3. FillPositions(side, taker, maker, q)
         = [bought EXCEPT ![seller] = UpdatePosition(@, "short", q)]
  BY DEF FillPositions
<1>. HIDE DEF buyer, seller
<1>4. bought \in [Traders -> PositionT]
  BY <1>1, <1>2, PositionType
<1>. HIDE DEF bought
<1>. QED
  BY <1>1, <1>2, <1>3, <1>4, PositionType

(* o.update keeps the row a row and moves filled by what size loses.       *)
LEMMA UpdatedRow ==
    ASSUME NEW row \in OrderT, NEW left \in Nat, left <= row.size
    PROVE  /\ Updated(row, left) \in OrderT
           /\ Updated(row, left).profile = row.profile
           /\ Updated(row, left).side = row.side
           /\ Updated(row, left).price = row.price
           /\ Updated(row, left).size = left
           /\ Updated(row, left).status = IF left = 0 THEN "closed" ELSE "open"
           /\ Updated(row, left).filled = row.filled + (row.size - left)
<1>1. row.size \in Nat /\ row.filled \in Nat
  BY DEF OrderT
<1>2. row.filled + (row.size - left) \in Nat
  BY <1>1
<1>3. (IF left = 0 THEN "closed" ELSE "open") \in Statuses
  BY DEF Statuses
<1>. DEFINE f == row.filled + (row.size - left)
            st == IF left = 0 THEN "closed" ELSE "open"
<1>4. Updated(row, left) = [row EXCEPT !.status = st, !.size = left, !.filled = f]
  BY DEF Updated
<1>. HIDE DEF f, st
<1>5. f \in Nat /\ st \in Statuses
  BY <1>2, <1>3 DEF f, st
<1>6. /\ [row EXCEPT !.status = st, !.size = left, !.filled = f] \in OrderT
      /\ [row EXCEPT !.status = st, !.size = left, !.filled = f].profile = row.profile
      /\ [row EXCEPT !.status = st, !.size = left, !.filled = f].side = row.side
      /\ [row EXCEPT !.status = st, !.size = left, !.filled = f].price = row.price
      /\ [row EXCEPT !.status = st, !.size = left, !.filled = f].size = left
      /\ [row EXCEPT !.status = st, !.size = left, !.filled = f].status = st
      /\ [row EXCEPT !.status = st, !.size = left, !.filled = f].filled = f
  BY <1>5 DEF OrderT
<1>. QED
  BY <1>4, <1>6 DEF f, st

(* o.cancel and o.reject change nothing but the status.                    *)
LEMMA StatusRow ==
    ASSUME NEW row \in OrderT, NEW s \in Statuses
    PROVE  /\ WithStatus(row, s) \in OrderT
           /\ WithStatus(row, s).status = s
           /\ WithStatus(row, s).filled = row.filled
BY DEF WithStatus, OrderT

(* o.create stores a row of the order space with nothing filled.           *)
LEMMA NewRow ==
    ASSUME NEW t \in Traders, NEW ty \in AllTypes, NEW tif \in AllTimesInForce,
           NEW side \in Sides, NEW status \in Statuses, NEW price \in AllPrices,
           NEW trigger \in AllPrices, NEW percent \in 0..100, NEW size \in Nat
    PROVE  LET row == NewOrder(t, ty, tif, side, status, price, trigger,
                               percent, size)
           IN  /\ row \in OrderT
               /\ row.status = status
               /\ row.size = size
               /\ row.filled = 0
BY DEF NewOrder, OrderT

(* Rows are not Nil.                                                       *)
LEMMA NotNil ==
    /\ \A row \in OrderT : row # Nil
    /\ \A e \in EntryT : e # Nil
BY NilAssumption
-----------------------------------------------------------------------------
(* Steps that leave no task running                                        *)

(* What IInv says when no task is matching.                                *)
IdleFacts ==
    /\ TypeOK
    /\ task.pc \in {"idle", "cancelall"}
    /\ \A o \in Orders : EntryRow(order, ob, o)
    /\ \A o \in Orders : OpenRow(order, o) => ob[o] # Nil
    /\ Uncrossed(ob)
    /\ \A o \in Orders : Traded(order, fills, o)
    /\ sequence = IF task.pc = "idle" THEN published ELSE published + 1

(* The conjuncts about a running task hold when no task runs after the step.*)
LEMMA IdleAfter ==
    IdleFacts' => IInv'
BY DEF IdleFacts, IInv, TakerRow, Running, BookRows, SavedRows, BookUncrossed,
       Uncrossed, SavedUncrossed, FillsMatch, SavedFills, SequenceHeld,
       FinalKept

(* With no task running the conjuncts say what holds between tasks.        *)
LEMMA IdleBefore ==
    IInv /\ task.pc \in {"idle", "cancelall"} => IdleFacts
BY DEF IdleFacts, IInv, BookRows, BookUncrossed, Uncrossed, FillsMatch,
       SequenceHeld

(* The engine starts with the inductive invariant.                         *)
LEMMA InitStep ==
    Init => IInv
<1>. SUFFICES ASSUME Init PROVE IInv
  OBVIOUS
<1>1. /\ NoTask \in TaskT /\ NoTask.pc = "idle"
  BY DEF NoTask, TaskT
<1>2. position \in [Traders -> PositionT]
  <2>1. \A side \in Sides, n \in 0..MaxOldPosition :
           PositionRow(side, n) \in PositionT
    BY ConstantAssumption DEF PositionRow, PositionT, NoPosition, Sides
  <2>. QED
    BY <2>1 DEF Init, OldPositions
<1>3. TypeOK
  BY <1>1, <1>2 DEF Init, TypeOK, AllPrices, FillT
<1>4. IInv
  BY <1>1, <1>3 DEF Init, IInv, TakerRow, Running, BookRows, SavedRows,
        BookUncrossed, SavedUncrossed, FillsMatch, SavedFills, SequenceHeld,
        FinalKept, EntryRow, OpenRow, Traded
<1>. QED
  BY <1>4

(* Rows that are not touched keep what is said of them.                    *)
LEMMA PlaceStep ==
    ASSUME IInv, task.pc = "idle", NEW o \in Orders, ~Exists(o),
           NEW row \in OrderT, row.status = "placed", row.filled = 0,
           NEW accepted \in BOOLEAN,
           PlaceOrReject(o, row, accepted)
    PROVE  IInv'
<1>. DEFINE new == IF accepted THEN row ELSE WithStatus(row, "rejected")
<1>0. IdleFacts
  BY IdleBefore
<1>1. new \in OrderT /\ new.status \in {"placed", "rejected"} /\ new.filled = 0
  BY StatusRow DEF Statuses
<1>2. order' = [order EXCEPT ![o] = new]
  BY DEF PlaceOrReject
<1>3. UNCHANGED <<ob, level, notional, position, fills, fair, task, saved>>
  BY DEF PlaceOrReject, CommitAtOnce
<1>4. /\ sequence' = published' /\ published' \in Nat
      /\ touched' \in SUBSET Traders
  BY <1>0 DEF PlaceOrReject, CommitAtOnce, IdleFacts, TypeOK
<1>. HIDE DEF new
<1>5. TypeOK'
  BY <1>0, <1>1, <1>2, <1>3, <1>4 DEF IdleFacts, TypeOK
<1>6. ob[o] = Nil
  BY <1>0 DEF IdleFacts, EntryRow, Exists
<1>7. IdleFacts'
  BY <1>0, <1>1, <1>2, <1>3, <1>4, <1>5, <1>6, NotNil
  DEF IdleFacts, EntryRow, OpenRow, Traded, Uncrossed, Exists, TypeOK
<1>. QED
  BY <1>7, IdleAfter

(* Creating a stop-loss or take-profit order keeps the invariant.          *)
LEMMA CreateDependentStep ==
    ASSUME IInv, NEW o \in Orders, NEW t \in Traders,
           NEW ty \in OrderTypes \cap DependentTypes, NEW price \in Prices,
           NEW trigger \in Prices, NEW percent \in Percents,
           CreateDependent(o, t, ty, price, trigger, percent)
    PROVE  IInv'
<1>. DEFINE accepted == PreCreateDependent(t, ty, price, trigger)
            side == Opposite(position[t].side)
            p == IF ty \in LimitTypes THEN price ELSE 0
            row == NewOrder(t, ty, "gtc", side, "placed", p, trigger, percent, 0)
<1>1. task.pc = "idle" /\ ~Exists(o) /\ PlaceOrReject(o, row, accepted)
  BY DEF CreateDependent, CanStart
<1>2. accepted \in BOOLEAN
  BY DEF PreCreateDependent
<1>3. side \in Sides
  BY OppositeType DEF IInv, TypeOK, PositionT
<1>4. /\ ty \in AllTypes /\ p \in AllPrices /\ trigger \in AllPrices
      /\ percent \in 0..100
  BY ConstantAssumption DEF AllPrices
<1>5. "gtc" \in AllTimesInForce /\ "placed" \in Statuses /\ 0 \in Nat
  BY DEF AllTimesInForce, Statuses
<1>. HIDE DEF accepted, side, p
<1>6. row \in OrderT /\ row.status = "placed" /\ row.filled = 0
  BY <1>3, <1>4, <1>5 DEF NewOrder, OrderT
<1>. HIDE DEF row
<1>. QED
  BY <1>1, <1>2, <1>6, PlaceStep

(* Creating a stop order keeps the invariant.                              *)
LEMMA CreateStopStep ==
    ASSUME IInv, NEW o \in Orders, NEW t \in Traders,
           NEW ty \in OrderTypes \cap StopTypes, NEW side \in Sides,
           NEW price \in Prices, NEW trigger \in Prices, NEW size \in Sizes,
           CreateStop(o, t, ty, side, price, trigger, size)
    PROVE  IInv'
<1>. DEFINE accepted == PreCreateStop(t, ty, side, price, trigger)
            row == NewOrder(t, ty, "gtc", side, "placed", price, trigger, 0, size)
<1>1. task.pc = "idle" /\ ~Exists(o) /\ PlaceOrReject(o, row, accepted)
  BY DEF CreateStop, CanStart
<1>2. accepted \in BOOLEAN
  BY DEF PreCreateStop
<1>4. /\ ty \in AllTypes /\ price \in AllPrices /\ trigger \in AllPrices
      /\ 0 \in 0..100 /\ size \in Nat
  BY ConstantAssumption DEF AllPrices
<1>5. "gtc" \in AllTimesInForce /\ "placed" \in Statuses
  BY DEF AllTimesInForce, Statuses
<1>. HIDE DEF accepted
<1>6. row \in OrderT /\ row.status = "placed" /\ row.filled = 0
  BY <1>4, <1>5, NewRow
<1>. HIDE DEF row
<1>. QED
  BY <1>1, <1>2, <1>6, PlaceStep

(* Deleting an entry together with its order, or canceling a waiting one.  *)
LEMMA WithdrawFacts ==
    ASSUME IdleFacts, NEW o \in Orders, Active(o), Withdraw(o),
           UNCHANGED <<position, fills, fair>>
    PROVE  /\ order' \in [Orders -> OrderT \cup {Nil}]
           /\ ob' \in [Orders -> EntryT \cup {Nil}]
           /\ level' \in [Sides -> [AllPrices -> Int]]
           /\ notional' \in [Traders -> Int]
           /\ \A x \in Orders : EntryRow(order', ob', x)
           /\ \A x \in Orders : OpenRow(order', x) => ob'[x] # Nil
           /\ Uncrossed(ob')
           /\ \A x \in Orders : Traded(order', fills', x)
<1>1. order[o] \in OrderT
  BY DEF Active, HasStatus, IdleFacts, EntryRow, TypeOK
<1>. DEFINE row == WithStatus(order[o], "canceled")
<1>2. row \in OrderT /\ row.status = "canceled" /\ row.filled = order[o].filled
  BY <1>1, StatusRow DEF Statuses
<1>3. order' = [order EXCEPT ![o] = row] /\ ob' = [ob EXCEPT ![o] = Nil]
  BY DEF Withdraw, IdleFacts, TypeOK
<1>. HIDE DEF row
<1>4. level' \in [Sides -> [AllPrices -> Int]] /\ notional' \in [Traders -> Int]
  <2>1. CASE ob[o] = Nil
    BY <2>1 DEF Withdraw, IdleFacts, TypeOK
  <2>2. CASE ob[o] # Nil
    <3>1. ob[o] \in EntryT
      BY <2>2 DEF IdleFacts, TypeOK
    <3>2. ob[o].side \in Sides /\ ob[o].price \in AllPrices /\ ob[o].size \in Nat
          /\ ob[o].trader \in Traders
      BY <3>1 DEF EntryT
    <3>3. ob[o].price \in Nat
      BY <3>2, PricesNat
    <3>4. ob[o].price * (0 - ob[o].size) \in Int
      BY <3>2, <3>3
    <3>5. level' = [level EXCEPT ![ob[o].side][ob[o].price] = @ + (0 - ob[o].size)]
      BY <2>2 DEF Withdraw, AddLevel
    <3>6. notional' = [notional EXCEPT ![ob[o].trader] = @ + ob[o].price * (0 - ob[o].size)]
      BY <2>2 DEF Withdraw, AddNotional
    <3>. QED
      BY <3>2, <3>4, <3>5, <3>6 DEF IdleFacts, TypeOK
  <2>. QED
    BY <2>1, <2>2
<1>. QED
  BY <1>1, <1>2, <1>3, <1>4, NotNil
  DEF IdleFacts, EntryRow, OpenRow, Traded, Uncrossed, TypeOK

(* _handle_cancel keeps the invariant.                                     *)
LEMMA CancelStep ==
    ASSUME IInv, NEW o \in Orders, Cancel(o)
    PROVE  IInv'
<1>1. IdleFacts /\ task.pc = "idle"
  BY IdleBefore DEF Cancel, CanStart
<1>2. /\ sequence' = published' /\ published' \in Nat /\ touched' = {}
      /\ UNCHANGED <<position, fills, fair, task, saved>>
  BY <1>1 DEF Cancel, CommitAtOnce, IdleFacts, TypeOK
<1>3. Active(o) /\ Withdraw(o)
  BY DEF Cancel
<1>4. IdleFacts'
  BY <1>1, <1>2, <1>3, WithdrawFacts DEF IdleFacts, TypeOK
<1>. QED
  BY <1>4, IdleAfter

(* An iteration of _handle_cancelall keeps the invariant.                  *)
LEMMA CancelNextStep ==
    ASSUME IInv, NEW o \in Orders, CancelNext(o)
    PROVE  IInv'
<1>1. IdleFacts /\ task.pc = "cancelall"
  BY IdleBefore DEF CancelNext
<1>2. UNCHANGED <<position, fills, fair, sequence, published, touched, task, saved>>
  BY DEF CancelNext
<1>3. Active(o) /\ Withdraw(o)
  BY DEF CancelNext, Cancellable, Active
<1>4. IdleFacts'
  BY <1>1, <1>2, <1>3, WithdrawFacts DEF IdleFacts, TypeOK
<1>. QED
  BY <1>4, IdleAfter

(* Starting and ending _handle_cancelall keep the invariant.               *)
LEMMA CancelAllStep ==
    ASSUME IInv, (\E t \in Traders : CancelAll(t)) \/ CancelAllDone
    PROVE  IInv'
<1>1. CASE \E t \in Traders : CancelAll(t)
  <2>1. PICK t \in Traders : CancelAll(t)
    BY <1>1
  <2>2. IdleFacts /\ task.pc = "idle"
    BY <2>1, IdleBefore DEF CancelAll, CanStart
  <2>3. task' \in TaskT /\ task'.pc = "cancelall"
    BY <2>1 DEF CancelAll, TaskT, NoTask
  <2>4. /\ UNCHANGED <<order, ob, level, notional, position, fills, fair,
                       published, saved>>
        /\ sequence' = sequence + 1 /\ touched' \in SUBSET Traders
    BY <2>1 DEF CancelAll, db
  <2>5. TypeOK'
    BY <2>2, <2>3, <2>4 DEF IdleFacts, TypeOK
  <2>6. IdleFacts'
    BY <2>2, <2>3, <2>4, <2>5
    DEF IdleFacts, TypeOK, EntryRow, OpenRow, Traded, Uncrossed
  <2>. QED
    BY <2>6, IdleAfter
<1>2. CASE CancelAllDone
  <2>1. IdleFacts /\ task.pc = "cancelall"
    BY <1>2, IdleBefore DEF CancelAllDone
  <2>2. task' \in TaskT /\ task'.pc = "idle"
    BY <1>2 DEF CancelAllDone, TaskT, NoTask
  <2>3. IdleFacts'
    BY <1>2, <2>1, <2>2
    DEF CancelAllDone, IdleFacts, TypeOK, db, EntryRow, OpenRow, Traded, Uncrossed
  <2>. QED
    BY <2>3, IdleAfter
<1>. QED
  BY <1>1, <1>2

(* An entry that changes its size by d.                                    *)
LEMMA AggregateType ==
    ASSUME NEW lv \in [Sides -> [AllPrices -> Int]], NEW nt \in [Traders -> Int],
           NEW e \in EntryT, NEW d \in Int
    PROVE  /\ AddLevel(lv, e, d) \in [Sides -> [AllPrices -> Int]]
           /\ AddNotional(nt, e, d) \in [Traders -> Int]
<1>1. e.side \in Sides /\ e.price \in AllPrices /\ e.trader \in Traders
  BY DEF EntryT
<1>2. e.price \in Nat
  BY <1>1, PricesNat
<1>3. e.price * d \in Int
  BY <1>2
<1>. QED
  BY <1>1, <1>3 DEF AddLevel, AddNotional

(* An amendment that keeps the price keeps the invariant.                  *)
LEMMA AmendSizeStep ==
    ASSUME IInv, NEW o \in Orders, NEW size \in Sizes, AmendSize(o, size)
    PROVE  IInv'
<1>0. size \in Nat /\ size # 0
  BY ConstantAssumption
<1>1. IdleFacts /\ task.pc = "idle" /\ ob[o] # Nil
  BY IdleBefore DEF AmendSize, CanStart
<1>2. /\ ob[o] \in EntryT /\ order[o] \in OrderT /\ EntryRow(order, ob, o)
      /\ ob[o].size \in Nat
  BY <1>1 DEF IdleFacts, TypeOK, EntryRow, EntryT
<1>. DEFINE ts == sequence + 1
            e == [ob[o] EXCEPT !.size = size, !.ts = ts]
            row == [order[o] EXCEPT !.size = size, !.initial = size,
                                    !.status = "open"]
<1>3. /\ e \in EntryT /\ e.trader = ob[o].trader /\ e.side = ob[o].side
      /\ e.price = ob[o].price /\ e.size = size
  <2>1. ts \in Nat
    BY <1>1 DEF IdleFacts, TypeOK
  <2>. HIDE DEF ts
  <2>. QED
    BY <1>0, <1>2, <2>1 DEF EntryT
<1>4. /\ row \in OrderT /\ row.profile = order[o].profile
      /\ row.side = order[o].side /\ row.price = order[o].price
      /\ row.size = size /\ row.status = "open" /\ row.filled = order[o].filled
  BY <1>0, <1>2 DEF OrderT, Statuses
<1>5. ob' = [ob EXCEPT ![o] = e] /\ order' = [order EXCEPT ![o] = row]
  BY DEF AmendSize
<1>6. level' \in [Sides -> [AllPrices -> Int]] /\ notional' \in [Traders -> Int]
  <2>1. size - ob[o].size \in Int
    BY <1>0, <1>2
  <2>. QED
    BY <1>1, <1>2, <2>1, AggregateType DEF AmendSize, IdleFacts, TypeOK
<1>7. /\ sequence' = published' /\ published' \in Nat /\ touched' = {}
      /\ UNCHANGED <<position, fills, fair, task, saved>>
  BY <1>1 DEF AmendSize, CommitAtOnce, IdleFacts, TypeOK
<1>. HIDE DEF e, row
<1>8. TypeOK'
  BY <1>1, <1>3, <1>4, <1>5, <1>6, <1>7 DEF IdleFacts, TypeOK
<1>9. /\ \A x \in Orders : EntryRow(order', ob', x)
      /\ \A x \in Orders : OpenRow(order', x) => ob'[x] # Nil
  BY <1>0, <1>1, <1>2, <1>3, <1>4, <1>5, NotNil
  DEF IdleFacts, TypeOK, EntryRow, OpenRow
<1>10. Uncrossed(ob')
  BY <1>1, <1>2, <1>3, <1>5 DEF IdleFacts, TypeOK, Uncrossed
<1>11. \A x \in Orders : Traded(order', fills', x)
  BY <1>1, <1>2, <1>4, <1>5, <1>7, NotNil DEF IdleFacts, TypeOK, Traded
<1>12. IdleFacts'
  BY <1>1, <1>7, <1>8, <1>9, <1>10, <1>11 DEF IdleFacts
<1>. QED
  BY <1>12, IdleAfter

(* An amendment of a waiting order keeps the invariant.                    *)
LEMMA WaitingStep ==
    ASSUME IInv, CanStart, NEW o \in Orders, HasStatus(o, "placed"),
           NEW row \in OrderT, row.status = "placed",
           row.filled = order[o].filled,
           order' = [order EXCEPT ![o] = row],
           CommitAtOnce,
           UNCHANGED <<ob, level, notional, position, fills, fair>>
    PROVE  IInv'
<1>1. IdleFacts /\ order[o] \in OrderT /\ order[o].status = "placed"
  BY IdleBefore DEF CanStart, IdleFacts, TypeOK, HasStatus
<1>2. /\ sequence' = published' /\ published' \in Nat /\ touched' = {}
      /\ UNCHANGED <<task, saved>>
  BY <1>1 DEF CommitAtOnce, IdleFacts, TypeOK
<1>3. TypeOK'
  BY <1>1, <1>2 DEF IdleFacts, TypeOK
<1>4. /\ \A x \in Orders : EntryRow(order', ob', x)
      /\ \A x \in Orders : OpenRow(order', x) => ob'[x] # Nil
      /\ \A x \in Orders : Traded(order', fills', x)
  BY <1>1, NotNil DEF IdleFacts, TypeOK, EntryRow, OpenRow, Traded
<1>5. IdleFacts'
  BY <1>1, <1>2, <1>3, <1>4 DEF IdleFacts, CanStart, Uncrossed
<1>. QED
  BY <1>5, IdleAfter

(* A waiting stop-loss or take-profit order is amended.                    *)
LEMMA AmendDependentStep ==
    ASSUME IInv, NEW o \in Orders, NEW price \in Prices, NEW trigger \in Prices,
           NEW percent \in Percents, AmendDependent(o, price, trigger, percent)
    PROVE  IInv'
<1>0. percent \in 0..100 /\ price \in AllPrices /\ trigger \in AllPrices
  BY ConstantAssumption, PricesNat
<1>1. order[o] \in OrderT /\ order[o].status = "placed"
  BY DEF AmendDependent, HasStatus, IInv, TypeOK
<1>. DEFINE pr == IF order[o].type \in LimitTypes THEN price ELSE order[o].price
            row == [order[o] EXCEPT !.trigger = trigger, !.percent = percent,
                                    !.price = pr]
<1>2. order' = [order EXCEPT ![o] = row]
  BY DEF AmendDependent
<1>3. pr \in AllPrices
  BY <1>0, <1>1 DEF OrderT
<1>. HIDE DEF pr
<1>4. row \in OrderT /\ row.status = "placed" /\ row.filled = order[o].filled
  BY <1>0, <1>1, <1>3 DEF OrderT
<1>. HIDE DEF row
<1>. QED
  BY <1>2, <1>4, WaitingStep DEF AmendDependent

(* A waiting stop order is amended.                                        *)
LEMMA AmendStopStep ==
    ASSUME IInv, NEW o \in Orders, NEW price \in Prices, NEW trigger \in Prices,
           NEW size \in Sizes, AmendStop(o, price, trigger, size)
    PROVE  IInv'
<1>0. size \in Nat /\ price \in AllPrices /\ trigger \in AllPrices
  BY ConstantAssumption, PricesNat
<1>1. order[o] \in OrderT /\ order[o].status = "placed"
  BY DEF AmendStop, HasStatus, IInv, TypeOK
<1>. DEFINE pr == IF order[o].type \in LimitTypes THEN price ELSE order[o].price
            row == [order[o] EXCEPT !.trigger = trigger, !.size = size,
                                    !.initial = size, !.price = pr]
<1>2. order' = [order EXCEPT ![o] = row]
  BY DEF AmendStop
<1>3. pr \in AllPrices
  BY <1>0, <1>1 DEF OrderT
<1>. HIDE DEF pr
<1>4. row \in OrderT /\ row.status = "placed" /\ row.filled = order[o].filled
  BY <1>0, <1>1, <1>3 DEF OrderT
<1>. HIDE DEF row
<1>. QED
  BY <1>2, <1>4, WaitingStep DEF AmendStop

(* A triggered order that pre_execute refuses: the invariant is kept.      *)
LEMMA ExecuteRejectedStep ==
    ASSUME IInv, NEW o \in Orders, ExecuteRejected(o)
    PROVE  IInv'
<1>1. IdleFacts /\ task.pc = "idle" /\ HasStatus(o, "placed")
  BY IdleBefore DEF ExecuteRejected, IsTriggered
<1>2. order[o] \in OrderT /\ order[o].status = "placed"
  BY <1>1 DEF IdleFacts, TypeOK, HasStatus
<1>. DEFINE row == WithStatus(order[o], "rejected")
<1>3. order' = [order EXCEPT ![o] = row]
  BY DEF ExecuteRejected
<1>4. row \in OrderT /\ row.status = "rejected" /\ row.filled = order[o].filled
  BY <1>2, StatusRow DEF Statuses
<1>. HIDE DEF row
<1>5. UNCHANGED <<ob, level, notional, position, fills, fair, sequence,
                  published, touched, task, saved>>
  BY DEF ExecuteRejected
<1>6. IdleFacts'
  BY <1>1, <1>2, <1>3, <1>4, <1>5, NotNil
  DEF IdleFacts, TypeOK, EntryRow, OpenRow, Traded, Uncrossed
<1>. QED
  BY <1>6, IdleAfter

(* The steps that change no order.                                         *)
LEMMA OtherSteps ==
    ASSUME IInv,
           \/ \E o \in Orders : ExecuteNotMet(o)
           \/ \E t \in Traders, size \in LiquidationSizes : Takeover(t, size)
           \/ \E f \in FairPrices : UpdateFairPrice(f)
    PROVE  IInv'
<1>1. IdleFacts /\ task.pc = "idle"
  BY IdleBefore DEF ExecuteNotMet, CanStart, Takeover, UpdateFairPrice
<1>2. CASE \E o \in Orders : ExecuteNotMet(o)
  <2>1. IdleFacts'
    BY <1>1, <1>2 DEF ExecuteNotMet, CommitAtOnce, db, IdleFacts, TypeOK,
                      EntryRow, OpenRow, Traded, Uncrossed
  <2>. QED
    BY <2>1, IdleAfter
<1>3. CASE \E t \in Traders, size \in LiquidationSizes : Takeover(t, size)
  <2>1. PICK t \in Traders, size \in LiquidationSizes : Takeover(t, size)
    BY <1>3
  <2>2. size \in Nat /\ Insurance \in Traders
    BY ConstantAssumption
  <2>3. position' \in [Traders -> PositionT]
    <3>1. position \in [Traders -> PositionT] /\ position[t].side \in Sides
      BY <1>1 DEF IdleFacts, TypeOK, PositionT
    <3>. QED
      BY <2>1, <2>2, <3>1, FillPositionsType DEF Takeover, TakeoverPositions
  <2>4. UNCHANGED <<order, ob, level, notional, fills, fair, sequence,
                    published, touched, task, saved>>
    BY <2>1 DEF Takeover
  <2>5. IdleFacts'
    BY <1>1, <2>3, <2>4 DEF IdleFacts, TypeOK, EntryRow, OpenRow, Traded, Uncrossed
  <2>. QED
    BY <2>5, IdleAfter
<1>4. CASE \E f \in FairPrices : UpdateFairPrice(f)
  <2>1. IdleFacts'
    BY <1>1, <1>4 DEF UpdateFairPrice, db, IdleFacts, TypeOK, EntryRow, OpenRow,
                      Traded, Uncrossed
  <2>. QED
    BY <2>1, IdleAfter
<1>. QED
  BY <1>2, <1>3, <1>4

(* _post_execute_order changes waiting orders only, and cancels them.      *)
LEMMA StaleRows ==
    ASSUME NEW rows \in [Orders -> OrderT \cup {Nil}], NEW positions, NEW changed
    PROVE  LET after == CancelStale(rows, positions, changed)
           IN  /\ after \in [Orders -> OrderT \cup {Nil}]
               /\ \A o \in Orders :
                     \/ after[o] = rows[o]
                     \/ /\ rows[o] # Nil /\ rows[o].status = "placed"
                        /\ after[o] \in OrderT
                        /\ after[o].status = "canceled"
                        /\ after[o].filled = rows[o].filled
<1>. DEFINE after == CancelStale(rows, positions, changed)
<1>1. \A o \in Orders :
         \/ after[o] = rows[o]
         \/ /\ rows[o] # Nil /\ rows[o].status = "placed"
            /\ after[o] = WithStatus(rows[o], "canceled")
  BY DEF CancelStale
<1>2. \A o \in Orders : rows[o] # Nil => rows[o] \in OrderT
  OBVIOUS
<1>3. "canceled" \in Statuses
  BY DEF Statuses
<1>4. after = [o \in Orders |-> after[o]]
  BY DEF CancelStale
<1>. HIDE DEF after
<1>5. \A o \in Orders :
         \/ after[o] = rows[o]
         \/ /\ rows[o] # Nil /\ rows[o].status = "placed"
            /\ after[o] \in OrderT
            /\ after[o].status = "canceled"
            /\ after[o].filled = rows[o].filled
  BY <1>1, <1>2, <1>3, StatusRow
<1>6. after \in [Orders -> OrderT \cup {Nil}]
  BY <1>4, <1>5
<1>. QED
  BY <1>5, <1>6 DEF after

(* A private match keeps the invariant.                                    *)
LEMMA CreatePrivateStep ==
    ASSUME IInv, NEW o \in Orders, NEW t \in Traders, NEW cp \in Traders,
           NEW side \in Sides, NEW price \in Prices, NEW size \in Sizes,
           NEW ty \in OrderTypes \cap ImmediateTypes,
           CreatePrivate(o, t, ty, side, price, size, cp)
    PROVE  IInv'
<1>0. /\ size \in Nat /\ 0 <= size /\ ty \in AllTypes /\ price \in AllPrices
      /\ 0 \in AllPrices /\ 0 \in 0..100 /\ 0 \in Nat
  BY ConstantAssumption, PricesNat DEF AllPrices
<1>1. IdleFacts /\ task.pc = "idle" /\ order[o] = Nil
  BY IdleBefore DEF CreatePrivate, Exists
<1>. DEFINE row == NewOrder(t, ty, "gtc", side, "open", price, 0, 0, size)
            new == Updated(row, 0)
            pos == [position EXCEPT ![cp] = UpdatePosition(@, Opposite(side), size)]
            positions == [pos EXCEPT ![t] = UpdatePosition(@, side, size)]
            rows == [order EXCEPT ![o] = new]
            after == CancelStale(rows, positions, {t, cp})
<1>2. row \in OrderT /\ row.size = size /\ row.filled = 0
  BY <1>0 DEF NewOrder, OrderT, AllTimesInForce, Statuses
<1>3. new \in OrderT /\ new.status = "closed" /\ new.filled = size
  <2>. HIDE DEF row
  <2>1. row.filled + (row.size - 0) = size
    BY <1>0, <1>2
  <2>. QED
    BY <1>0, <1>2, <2>1, UpdatedRow
<1>4. /\ order' = after /\ position' = positions
      /\ fills' = [fills EXCEPT ![o].taker = @ + size] /\ touched' = {}
      /\ UNCHANGED <<ob, level, notional, fair, sequence, published, task, saved>>
  BY DEF CreatePrivate, PrivatePositions
<1>5. positions \in [Traders -> PositionT]
  <2>1. position \in [Traders -> PositionT]
    BY <1>1 DEF IdleFacts, TypeOK
  <2>2. pos \in [Traders -> PositionT]
    BY <1>0, <2>1, PositionType, OppositeType
  <2>. HIDE DEF pos
  <2>. QED
    BY <1>0, <2>2, PositionType
<1>. HIDE DEF new, positions
<1>6. rows \in [Orders -> OrderT \cup {Nil}]
  BY <1>1, <1>3 DEF IdleFacts, TypeOK
<1>7. /\ after \in [Orders -> OrderT \cup {Nil}]
      /\ \A x \in Orders :
            \/ after[x] = rows[x]
            \/ /\ rows[x] # Nil /\ rows[x].status = "placed"
               /\ after[x] \in OrderT
               /\ after[x].status = "canceled"
               /\ after[x].filled = rows[x].filled
  <2>. HIDE DEF rows
  <2>. QED
    BY <1>6, StaleRows
<1>8. \A x \in Orders : rows[x] = IF x = o THEN new ELSE order[x]
  BY <1>1 DEF IdleFacts, TypeOK
<1>. HIDE DEF rows, after
<1>9. after[o] = new
  BY <1>3, <1>7, <1>8
<1>10. fills' \in [Orders -> FillT]
  BY <1>0, <1>1, <1>4 DEF IdleFacts, TypeOK, FillT
<1>11. TypeOK'
  BY <1>1, <1>4, <1>5, <1>7, <1>10 DEF IdleFacts, TypeOK
<1>12. ob[o] = Nil
  BY <1>1 DEF IdleFacts, EntryRow
<1>13. \A x \in Orders : EntryRow(order', ob', x)
  BY <1>1, <1>4, <1>7, <1>8, <1>12 DEF IdleFacts, EntryRow
<1>14. \A x \in Orders : OpenRow(order', x) => ob'[x] # Nil
  BY <1>1, <1>3, <1>4, <1>7, <1>8, <1>9 DEF IdleFacts, OpenRow
<1>15. \A x \in Orders : Traded(order', fills', x)
  <2>1. \A x \in Orders : x # o => fills'[x] = fills[x]
    BY <1>1, <1>4 DEF IdleFacts, TypeOK
  <2>2. fills'[o].maker + fills'[o].taker = size
    <3>1. fills[o] \in FillT /\ fills[o].maker + fills[o].taker = 0
      BY <1>1 DEF IdleFacts, TypeOK, Traded
    <3>2. fills'[o].maker = fills[o].maker /\ fills'[o].taker = fills[o].taker + size
      BY <1>1, <1>4, <3>1 DEF IdleFacts, TypeOK, FillT
    <3>. QED
      BY <1>0, <3>1, <3>2 DEF FillT
  <2>3. Traded(order', fills', o)
    BY <1>3, <1>4, <1>9, <2>2, NotNil DEF Traded
  <2>4. ASSUME NEW x \in Orders, x # o PROVE Traded(order', fills', x)
    BY <1>1, <1>4, <1>7, <1>8, <2>1, <2>4, NotNil DEF IdleFacts, Traded
  <2>. QED
    BY <2>3, <2>4
<1>16. IdleFacts'
  BY <1>1, <1>4, <1>11, <1>13, <1>14, <1>15 DEF IdleFacts, Uncrossed
<1>. QED
  BY <1>16, IdleAfter
-----------------------------------------------------------------------------
(* Steps that start a match                                                *)

(* The savepoint records the database, with the rows the action gives it.  *)
LEMMA SavepointFacts ==
    ASSUME IdleFacts, NEW rows \in [Orders -> OrderT \cup {Nil}], Savepoint(rows)
    PROVE  /\ saved' \in SavedT
           /\ saved'.order = rows /\ saved'.ob = ob /\ saved'.fills = fills
           /\ saved'.sequence = sequence
           /\ sequence' = sequence + 1 /\ sequence' \in Nat
<1>1. /\ ob \in [Orders -> EntryT \cup {Nil}]
      /\ level \in [Sides -> [AllPrices -> Int]]
      /\ notional \in [Traders -> Int]
      /\ position \in [Traders -> PositionT]
      /\ fills \in [Orders -> FillT]
      /\ sequence \in Nat
  BY DEF IdleFacts, TypeOK
<1>. QED
  BY <1>1 DEF Savepoint, SavedT

(* The start of a create task keeps the invariant.                         *)
LEMMA CreateStep ==
    ASSUME IInv, NEW o \in Orders, NEW t \in Traders,
           NEW ty \in ImmediateTypes, NEW tif \in AllTimesInForce,
           NEW side \in Sides, NEW price \in Prices, NEW size \in Nat,
           NEW liq \in BOOLEAN,
           Create(o, t, ty, tif, side, price, size, liq)
    PROVE  IInv'
<1>. DEFINE row == NewOrder(t, ty, tif, side, "open", price, 0, 0, size)
            rows == [order EXCEPT ![o] = row]
<1>0. /\ ty \in AllTypes /\ price \in AllPrices /\ 0 \in AllPrices /\ 0 \in 0..100
      /\ "open" \in Statuses
  BY PricesNat DEF AllPrices, AllTypes, ImmediateTypes, Statuses
<1>1. IdleFacts /\ task.pc = "idle" /\ order[o] = Nil
  BY IdleBefore DEF Create, CanStart, Exists
<1>2. /\ row \in OrderT /\ row.size = size /\ row.filled = 0 /\ row.status = "open"
      /\ row # Nil
  BY <1>0, NotNil DEF NewOrder, OrderT
<1>3. /\ order' = rows /\ Savepoint(rows)
      /\ UNCHANGED <<ob, level, notional, position, fills, fair, published>>
  BY DEF Create
<1>4. /\ task' = [pc |-> "match", kind |-> "create", oid |-> o, left |-> size,
                  liq |-> liq, who |-> Nil]
      /\ touched' = {t}
  BY DEF Create, StartMatch
<1>5. /\ task' \in TaskT /\ task'.pc = "match" /\ task'.kind = "create"
      /\ task'.oid = o /\ task'.left = size
  BY <1>4 DEF TaskT
<1>. HIDE DEF row
<1>6. /\ rows \in [Orders -> OrderT \cup {Nil}] /\ rows[o] = row
      /\ \A x \in Orders : x # o => rows[x] = order[x]
  BY <1>1, <1>2 DEF IdleFacts, TypeOK
<1>. HIDE DEF rows
<1>7. /\ saved' \in SavedT
      /\ saved'.order = rows /\ saved'.ob = ob /\ saved'.fills = fills
      /\ saved'.sequence = sequence
      /\ sequence' = sequence + 1 /\ sequence' \in Nat
  BY <1>1, <1>3, <1>6, SavepointFacts
<1>8. TypeOK'
  BY <1>1, <1>3, <1>4, <1>5, <1>6, <1>7 DEF IdleFacts, TypeOK
<1>9. ob[o] = Nil /\ fills[o].maker + fills[o].taker = 0 /\ sequence = published
  BY <1>1 DEF IdleFacts, EntryRow, Traded
<1>10. TakerRow'
  BY <1>2, <1>3, <1>5, <1>6, <1>7, <1>9 DEF TakerRow, Running
<1>11. BookRows' /\ SavedRows'
  BY <1>1, <1>2, <1>3, <1>5, <1>6, <1>7, <1>9
  DEF IdleFacts, BookRows, SavedRows, Running, EntryRow, OpenRow, Final
<1>12. BookUncrossed' /\ SavedUncrossed'
  BY <1>1, <1>3, <1>7 DEF IdleFacts, BookUncrossed, SavedUncrossed, Uncrossed
<1>13. FillsMatch' /\ SavedFills'
  BY <1>1, <1>2, <1>3, <1>5, <1>6, <1>7, <1>9
  DEF IdleFacts, FillsMatch, SavedFills, Running, Traded
<1>14. SequenceHeld' /\ FinalKept'
  BY <1>3, <1>5, <1>7, <1>9 DEF SequenceHeld, FinalKept, Running
<1>. QED
  BY <1>8, <1>10, <1>11, <1>12, <1>13, <1>14 DEF IInv

(* The start of a re-match of an amended order keeps the invariant.        *)
LEMMA AmendPriceStep ==
    ASSUME IInv, NEW o \in Orders, NEW price \in Prices, NEW size \in Sizes,
           AmendPrice(o, price, size)
    PROVE  IInv'
<1>0. size \in Nat /\ price \in AllPrices
  BY ConstantAssumption, PricesNat
<1>1. IdleFacts /\ task.pc = "idle" /\ ob[o] # Nil
  BY IdleBefore DEF AmendPrice, CanStart
<1>2. /\ ob[o] \in EntryT /\ order[o] \in OrderT /\ order[o].status = "open"
      /\ ob[o].size \in Nat /\ order[o] # Nil
  BY <1>1 DEF IdleFacts, TypeOK, EntryRow, EntryT
<1>. DEFINE row == [order[o] EXCEPT !.price = price, !.size = size,
                                    !.initial = size, !.status = "open"]
<1>3. /\ row \in OrderT /\ row # Nil /\ row.size = size /\ row.status = "open"
      /\ row.filled = order[o].filled
  BY <1>0, <1>2, NotNil DEF OrderT, Statuses
<1>4. /\ order' = [order EXCEPT ![o] = row] /\ ob' = [ob EXCEPT ![o] = Nil]
      /\ Savepoint(order)
      /\ UNCHANGED <<position, fills, fair, published>>
  BY DEF AmendPrice
<1>5. task' = [pc |-> "match", kind |-> "amend", oid |-> o, left |-> size,
               liq |-> FALSE, who |-> Nil] /\ touched' = {}
  BY DEF AmendPrice, StartMatch
<1>6. /\ task' \in TaskT /\ task'.pc = "match" /\ task'.kind = "amend"
      /\ task'.oid = o /\ task'.left = size
  BY <1>0, <1>5 DEF TaskT
<1>. HIDE DEF row
<1>7. level' \in [Sides -> [AllPrices -> Int]] /\ notional' \in [Traders -> Int]
  <2>1. 0 - ob[o].size \in Int
    BY <1>2
  <2>. QED
    BY <1>1, <1>2, <2>1, AggregateType DEF AmendPrice, IdleFacts, TypeOK
<1>8. /\ order' \in [Orders -> OrderT \cup {Nil}] /\ order'[o] = row
      /\ \A x \in Orders : x # o => order'[x] = order[x]
      /\ ob' \in [Orders -> EntryT \cup {Nil}] /\ ob'[o] = Nil
      /\ \A x \in Orders : x # o => ob'[x] = ob[x]
      /\ order \in [Orders -> OrderT \cup {Nil}]
  BY <1>1, <1>3, <1>4 DEF IdleFacts, TypeOK
<1>9. /\ saved' \in SavedT
      /\ saved'.order = order /\ saved'.ob = ob /\ saved'.fills = fills
      /\ saved'.sequence = sequence
      /\ sequence' = sequence + 1 /\ sequence' \in Nat
  BY <1>1, <1>4, <1>8, SavepointFacts
<1>10. TypeOK'
  BY <1>1, <1>4, <1>5, <1>6, <1>7, <1>8, <1>9 DEF IdleFacts, TypeOK
<1>11. TakerRow'
  BY <1>0, <1>3, <1>6, <1>8, <1>9 DEF TakerRow, Running
<1>12. BookRows' /\ SavedRows'
  BY <1>1, <1>2, <1>3, <1>6, <1>8, <1>9
  DEF IdleFacts, BookRows, SavedRows, Running, EntryRow, OpenRow, Final
<1>13. BookUncrossed' /\ SavedUncrossed'
  BY <1>1, <1>8, <1>9 DEF IdleFacts, BookUncrossed, SavedUncrossed, Uncrossed
<1>14. FillsMatch' /\ SavedFills'
  <2>1. SavedFills'
    BY <1>1, <1>6, <1>9 DEF IdleFacts, SavedFills, Traded
  <2>2. ASSUME NEW x \in Orders, x # o PROVE Traded(order', fills', x)
    BY <1>1, <1>4, <1>8, <2>2 DEF IdleFacts, Traded
  <2>3. order'[o].filled + (order'[o].size - task'.left)
           = fills'[o].maker + fills'[o].taker
    <3>1. order[o].filled = fills[o].maker + fills[o].taker
      BY <1>1, <1>2 DEF IdleFacts, Traded
    <3>2. order[o].filled \in Nat
      BY <1>2 DEF OrderT
    <3>. QED
      BY <1>0, <1>3, <1>4, <1>6, <1>8, <3>1, <3>2
  <2>. QED
    BY <1>6, <2>1, <2>2, <2>3 DEF FillsMatch
<1>15. SequenceHeld' /\ FinalKept'
  BY <1>1, <1>2, <1>4, <1>6, <1>8, <1>9
  DEF IdleFacts, SequenceHeld, FinalKept, Running, Final
<1>. QED
  BY <1>10, <1>11, <1>12, <1>13, <1>14, <1>15 DEF IInv

(* The row pre_execute opens.                                              *)
LEMMA OpenedType ==
    ASSUME NEW row \in OrderT, NEW pos \in PositionT, fair \in FairPrices
    PROVE  LET new == OpenedRow(row, pos)
           IN  /\ new \in OrderT
               /\ new.status = "open"
               /\ new.filled = row.filled
<1>. DEFINE size == IF row.type \in DependentTypes
                      THEN ExecutionSize(pos, row.percent) ELSE row.size
            price == IF row.type \in LimitTypes
                       THEN row.price ELSE ExecutionPrice(row.side, fair)
            new == [row EXCEPT !.status = "open", !.price = price,
                               !.size = size, !.initial = size]
<1>1. OpenedRow(row, pos) = new
  BY DEF OpenedRow
<1>2. price \in AllPrices
  <2>1. row.side \in Sides /\ row.price \in AllPrices
    BY DEF OrderT
  <2>2. ExecutionPrice(row.side, fair) \in AllPrices
    BY <2>1, ExecutionPriceAssumption, PricesNat
  <2>. QED
    BY <2>1, <2>2
<1>3. size \in Nat
  <2>1. row.percent \in Nat /\ row.size \in Nat /\ pos.size \in Nat
    BY DEF OrderT, PositionT
  <2>2. pos.size * row.percent \in Nat
    BY <2>1
  <2>3. (pos.size * row.percent) \div 100 \in Nat
    <3>. DEFINE x == pos.size * row.percent
    <3>1. x \in Nat
      BY <2>2
    <3>. HIDE DEF x
    <3>2. x \div 100 \in Nat
      BY <3>1
    <3>. QED
      BY <3>2 DEF x
  <2>4. ExecutionSize(pos, row.percent) \in Nat
    BY <2>1, <2>3 DEF ExecutionSize
  <2>. QED
    BY <2>1, <2>4
<1>. HIDE DEF price, size
<1>4. new \in OrderT /\ new.status = "open" /\ new.filled = row.filled
  BY <1>2, <1>3 DEF OrderT, Statuses
<1>. QED
  BY <1>1, <1>4

(* The start of an execute task keeps the invariant.                       *)
LEMMA ExecuteStep ==
    ASSUME IInv, NEW o \in Orders, Execute(o)
    PROVE  IInv'
<1>1. IdleFacts /\ task.pc = "idle" /\ HasStatus(o, "placed")
  BY IdleBefore DEF Execute, CanStart, IsTriggered
<1>2. /\ order[o] \in OrderT /\ order[o].status = "placed" /\ order[o] # Nil
      /\ order[o].profile \in Traders /\ fair \in FairPrices
      /\ position[order[o].profile] \in PositionT
  BY <1>1 DEF IdleFacts, TypeOK, HasStatus, OrderT
<1>. DEFINE row == OpenedRow(order[o], position[order[o].profile])
<1>3. row \in OrderT /\ row.status = "open" /\ row.filled = order[o].filled
  BY <1>2, OpenedType
<1>4. /\ order' = [order EXCEPT ![o] = row]
      /\ Savepoint(order)
      /\ UNCHANGED <<ob, level, notional, position, fills, fair, published>>
      /\ touched' = {order[o].profile}
      /\ task' = [pc |-> "match", kind |-> "execute", oid |-> o,
                  left |-> row.size, liq |-> FALSE, who |-> Nil]
  BY DEF Execute, StartMatch
<1>. HIDE DEF row
<1>5. row # Nil /\ row.size \in Nat /\ row.filled \in Nat
  BY <1>3, NotNil DEF OrderT
<1>6. /\ task' \in TaskT /\ task'.pc = "match" /\ task'.kind = "execute"
      /\ task'.oid = o /\ task'.left = row.size
  BY <1>4, <1>5 DEF TaskT
<1>7. /\ order' \in [Orders -> OrderT \cup {Nil}] /\ order'[o] = row
      /\ \A x \in Orders : x # o => order'[x] = order[x]
      /\ order \in [Orders -> OrderT \cup {Nil}]
  BY <1>1, <1>3, <1>4 DEF IdleFacts, TypeOK
<1>8. /\ saved' \in SavedT
      /\ saved'.order = order /\ saved'.ob = ob /\ saved'.fills = fills
      /\ saved'.sequence = sequence
      /\ sequence' = sequence + 1 /\ sequence' \in Nat
  BY <1>1, <1>4, <1>7, SavepointFacts
<1>9. TypeOK'
  BY <1>1, <1>2, <1>4, <1>6, <1>7, <1>8 DEF IdleFacts, TypeOK
<1>10. /\ ob[o] = Nil /\ sequence = published /\ order[o].filled = 0
       /\ fills[o].maker + fills[o].taker = 0
  BY <1>1, <1>2 DEF IdleFacts, EntryRow, Traded
<1>11. TakerRow'
  BY <1>3, <1>4, <1>5, <1>6, <1>7, <1>8, <1>10 DEF TakerRow, Running
<1>12. BookRows' /\ SavedRows'
  BY <1>1, <1>2, <1>3, <1>4, <1>5, <1>6, <1>7, <1>8, <1>10
  DEF IdleFacts, BookRows, SavedRows, Running, EntryRow, OpenRow, Final
<1>13. BookUncrossed' /\ SavedUncrossed'
  BY <1>1, <1>4, <1>8 DEF IdleFacts, BookUncrossed, SavedUncrossed, Uncrossed
<1>14. FillsMatch' /\ SavedFills'
  BY <1>1, <1>2, <1>3, <1>4, <1>5, <1>6, <1>7, <1>8, <1>10
  DEF IdleFacts, FillsMatch, SavedFills, Running, Traded
<1>15. SequenceHeld' /\ FinalKept'
  BY <1>2, <1>4, <1>6, <1>7, <1>8, <1>10
  DEF SequenceHeld, FinalKept, Running, Final
<1>. QED
  BY <1>9, <1>11, <1>12, <1>13, <1>14, <1>15 DEF IInv
-----------------------------------------------------------------------------
(* The steps of a match                                                    *)

(* An iteration of the loop of _match_order keeps the invariant.           *)
LEMMA FillStep ==
    ASSUME IInv, NEW m \in Orders, Fill(m)
    PROVE  IInv'
<1>. DEFINE t == task.oid
            e == ob[m]
            q == FillSize(e, task.left)
            rest == e.size - q
            row == Updated(order[m], rest)
            ent == IF rest = 0 THEN Nil ELSE [e EXCEPT !.size = rest]
<1>1. task.pc = "match" /\ Running /\ e # Nil
  BY DEF Fill, Running, IsBest
<1>2. /\ t \in Orders /\ order[t] \in OrderT /\ ob[t] = Nil /\ m # t
      /\ order[t].status = "open" /\ task.left <= order[t].size
      /\ saved \in SavedT /\ order[t] # Nil
  BY <1>1 DEF IInv, TypeOK, TakerRow
<1>3. /\ e \in EntryT /\ order[m] \in OrderT /\ EntryRow(order, ob, m)
      /\ order[m] # Nil
  BY <1>1 DEF IInv, TypeOK, BookRows, EntryRow
<1>4. /\ e.size \in Nat /\ e.trader \in Traders /\ e.side \in Sides
      /\ task.left \in Nat
      /\ order[m].size = e.size /\ order[m].status = "open"
  BY <1>1, <1>3 DEF EntryT, EntryRow, IInv, TypeOK, TaskT
<1>5. /\ q \in Nat /\ q <= e.size /\ q <= task.left
      /\ rest \in Nat /\ rest <= e.size /\ e.size - rest = q
      /\ task.left - q \in Nat /\ task.left - q <= task.left
  BY <1>4 DEF FillSize
<1>6. /\ ob' = [ob EXCEPT ![m] = ent]
      /\ order' = [order EXCEPT ![m] = row]
      /\ level' = AddLevel(level, e, rest - e.size)
      /\ notional' = AddNotional(notional, e, rest - e.size)
      /\ fills' = [fills EXCEPT ![m].maker = @ + q, ![t].taker = @ + q]
      /\ touched' = touched \cup {e.trader}
      /\ task' = [task EXCEPT !.left = @ - q]
      /\ UNCHANGED <<fair, sequence, published, saved>>
  BY DEF Fill, UpdateEntry
<1>7. position' \in [Traders -> PositionT]
  <2>1. /\ Taker.side \in Sides /\ Taker.profile \in Traders
        /\ position \in [Traders -> PositionT]
    BY <1>2 DEF Taker, OrderT, IInv, TypeOK
  <2>. HIDE DEF q
  <2>2. position' = FillPositions(Taker.side, Taker.profile, e.trader, q)
    BY DEF Fill, q
  <2>. QED
    BY <1>4, <1>5, <2>1, <2>2, FillPositionsType
<1>8. /\ row \in OrderT /\ row # Nil /\ row.profile = order[m].profile
      /\ row.side = order[m].side /\ row.price = order[m].price
      /\ row.size = rest
      /\ row.status = IF rest = 0 THEN "closed" ELSE "open"
      /\ row.filled = order[m].filled + (order[m].size - rest)
  <2>. HIDE DEF rest
  <2>. QED
    BY <1>3, <1>4, <1>5, UpdatedRow, NotNil
<1>9. /\ ent \in EntryT \cup {Nil}
      /\ ent # Nil => /\ rest # 0 /\ ent.size = rest /\ ent.trader = e.trader
                      /\ ent.side = e.side /\ ent.price = e.price
      /\ rest # 0 => ent # Nil
  BY <1>3, <1>5, NotNil DEF EntryT
<1>. HIDE DEF q, rest, row, ent
<1>10. /\ task' \in TaskT /\ task'.pc = "match" /\ task'.oid = t
       /\ task'.left = task.left - q /\ task'.kind = task.kind
  BY <1>1, <1>5, <1>6 DEF IInv, TypeOK, TaskT
<1>11. level' \in [Sides -> [AllPrices -> Int]] /\ notional' \in [Traders -> Int]
  <2>1. rest - e.size \in Int
    BY <1>4, <1>5
  <2>. QED
    BY <1>3, <1>6, <2>1, AggregateType DEF IInv, TypeOK
<1>12. /\ order' \in [Orders -> OrderT \cup {Nil}] /\ order'[m] = row
       /\ \A x \in Orders : x # m => order'[x] = order[x]
       /\ ob' \in [Orders -> EntryT \cup {Nil}] /\ ob'[m] = ent
       /\ \A x \in Orders : x # m => ob'[x] = ob[x]
  BY <1>6, <1>8, <1>9 DEF IInv, TypeOK
<1>13. /\ fills' \in [Orders -> FillT]
       /\ \A x \in Orders : x # m /\ x # t => fills'[x] = fills[x]
       /\ fills'[m].maker = fills[m].maker + q /\ fills'[m].taker = fills[m].taker
       /\ fills'[t].maker = fills[t].maker /\ fills'[t].taker = fills[t].taker + q
  <2>1. fills \in [Orders -> FillT] /\ fills[m] \in FillT /\ fills[t] \in FillT
    BY <1>2 DEF IInv, TypeOK
  <2>2. /\ [fills[m] EXCEPT !.maker = @ + q] \in FillT
        /\ [fills[t] EXCEPT !.taker = @ + q] \in FillT
    BY <1>5, <2>1 DEF FillT
  <2>3. /\ fills'[m] = [fills[m] EXCEPT !.maker = @ + q]
        /\ fills'[t] = [fills[t] EXCEPT !.taker = @ + q]
        /\ \A x \in Orders : x # m /\ x # t => fills'[x] = fills[x]
        /\ fills' = [x \in Orders |-> fills'[x]]
    BY <1>2, <1>6, <2>1
  <2>. QED
    BY <2>1, <2>2, <2>3 DEF FillT
<1>14. TypeOK'
  BY <1>4, <1>6, <1>7, <1>10, <1>11, <1>12, <1>13 DEF IInv, TypeOK
<1>15. TakerRow'
  BY <1>2, <1>4, <1>5, <1>6, <1>10, <1>12 DEF TakerRow, Running, OrderT
<1>16. BookRows'
  BY <1>1, <1>3, <1>8, <1>9, <1>10, <1>12 DEF IInv, BookRows, EntryRow, OpenRow
<1>17. SavedRows' /\ SavedUncrossed'
  BY <1>1, <1>6, <1>10 DEF IInv, SavedRows, SavedUncrossed, Running
<1>18. BookUncrossed'
  <2>1. \A x \in Orders : ob'[x] # Nil =>
           ob[x] # Nil /\ ob'[x].side = ob[x].side /\ ob'[x].price = ob[x].price
    BY <1>1, <1>9, <1>12
  <2>. QED
    BY <2>1 DEF IInv, BookUncrossed
<1>19. FillsMatch'
  <2>1. ASSUME NEW x \in Orders, x # m, x # t PROVE Traded(order', fills', x)
    BY <1>1, <1>12, <1>13, <2>1 DEF IInv, FillsMatch, Traded
  <2>2. Traded(order', fills', m)
    <3>1. order[m].filled = fills[m].maker + fills[m].taker
      BY <1>1, <1>2, <1>3 DEF IInv, FillsMatch, Traded
    <3>2. fills[m].maker \in Nat /\ fills[m].taker \in Nat
      BY DEF IInv, TypeOK, FillT
    <3>3. row.filled = fills'[m].maker + fills'[m].taker
      BY <1>4, <1>5, <1>8, <1>13, <3>1, <3>2
    <3>. QED
      BY <1>8, <1>12, <3>3 DEF Traded
  <2>3. order'[t].filled + (order'[t].size - task'.left)
           = fills'[t].maker + fills'[t].taker
    <3>1. order[t].filled + (order[t].size - task.left)
             = fills[t].maker + fills[t].taker
      BY <1>1, <1>2 DEF IInv, FillsMatch
    <3>2. fills[t].maker \in Nat /\ fills[t].taker \in Nat
      BY <1>2 DEF IInv, TypeOK, FillT
    <3>3. order[t].filled \in Nat /\ order[t].size \in Nat
      BY <1>2 DEF OrderT
    <3>. QED
      BY <1>2, <1>4, <1>5, <1>10, <1>12, <1>13, <3>1, <3>2, <3>3
  <2>. QED
    BY <1>2, <1>10, <2>1, <2>2, <2>3 DEF FillsMatch
<1>20. SavedFills' /\ SequenceHeld'
  BY <1>1, <1>6, <1>10 DEF IInv, SavedFills, SequenceHeld, Running
<1>21. FinalKept'
  BY <1>1, <1>4, <1>6, <1>10, <1>12 DEF IInv, FinalKept, Running, Final
<1>. QED
  BY <1>14, <1>15, <1>16, <1>17, <1>18, <1>19, <1>20, <1>21 DEF IInv

(* The end of the loop of _match_order keeps the invariant.                *)
LEMMA RestStep ==
    ASSUME IInv, Rest
    PROVE  IInv'
<1>. DEFINE t == task.oid
            left == task.left
            e == [trader |-> order[t].profile, side |-> order[t].side,
                  price |-> order[t].price, size |-> left, ts |-> sequence]
            row == Updated(order[t], left)
<1>1. task.pc = "match" /\ Running
  BY DEF Rest, Running
<1>2. /\ t \in Orders /\ order[t] \in OrderT /\ ob[t] = Nil
      /\ order[t].status = "open" /\ left <= order[t].size
      /\ saved \in SavedT /\ order[t] # Nil /\ left \in Nat
      /\ sequence \in Nat
  BY <1>1 DEF IInv, TypeOK, TakerRow, TaskT
<1>3. /\ e \in EntryT /\ e # Nil /\ e.trader = order[t].profile
      /\ e.side = order[t].side /\ e.price = order[t].price /\ e.size = left
  BY <1>2, NotNil DEF EntryT, OrderT
<1>4. /\ row \in OrderT /\ row # Nil /\ row.profile = order[t].profile
      /\ row.side = order[t].side /\ row.price = order[t].price
      /\ row.size = left
      /\ row.status = IF left = 0 THEN "closed" ELSE "open"
      /\ row.filled = order[t].filled + (order[t].size - left)
  BY <1>2, UpdatedRow, NotNil
<1>5. /\ order' = [order EXCEPT ![t] = row]
      /\ task' = [task EXCEPT !.pc = "finish"]
      /\ UNCHANGED <<position, fills, fair, sequence, published, saved>>
  BY DEF Rest
<1>6. /\ left = 0 => UNCHANGED <<ob, level, notional, touched>>
      /\ left # 0 => /\ ob' = [ob EXCEPT ![t] = e]
                     /\ level' = AddLevel(level, e, left)
                     /\ notional' = AddNotional(notional, e, left)
                     /\ touched' = touched \cup {e.trader}
  BY DEF Rest, Taker, CreateEntry
<1>7. left = 0 \/ \A m \in Orders : ob[m] # Nil =>
                       ~Crosses(order[t].side, order[t].price, ob[m])
  BY DEF Rest, Taker
<1>. HIDE DEF e, row
<1>8. /\ task' \in TaskT /\ task'.pc = "finish" /\ task'.oid = t
      /\ task'.left = left /\ task'.kind = task.kind
  BY <1>5 DEF IInv, TypeOK, TaskT
<1>9. /\ order' \in [Orders -> OrderT \cup {Nil}] /\ order'[t] = row
      /\ \A x \in Orders : x # t => order'[x] = order[x]
  BY <1>2, <1>4, <1>5 DEF IInv, TypeOK
<1>10. /\ ob' \in [Orders -> EntryT \cup {Nil}]
       /\ ob'[t] = IF left = 0 THEN Nil ELSE e
       /\ \A x \in Orders : x # t => ob'[x] = ob[x]
  BY <1>2, <1>3, <1>6 DEF IInv, TypeOK
<1>11. /\ level' \in [Sides -> [AllPrices -> Int]]
       /\ notional' \in [Traders -> Int] /\ touched' \in SUBSET Traders
  <2>1. left \in Int /\ e.trader \in Traders
    BY <1>2, <1>3 DEF EntryT
  <2>2. CASE left = 0
    BY <1>6, <2>2 DEF IInv, TypeOK
  <2>3. CASE left # 0
    BY <1>3, <1>6, <2>1, <2>3, AggregateType DEF IInv, TypeOK
  <2>. QED
    BY <2>2, <2>3
<1>12. TypeOK'
  BY <1>5, <1>8, <1>9, <1>10, <1>11 DEF IInv, TypeOK
<1>13. TakerRow'
  BY <1>2, <1>4, <1>5, <1>8, <1>9 DEF TakerRow, Running
<1>14. BookRows'
  BY <1>1, <1>2, <1>3, <1>4, <1>8, <1>9, <1>10
  DEF IInv, BookRows, EntryRow, OpenRow
<1>15. SavedRows' /\ SavedUncrossed' /\ SavedFills' /\ SequenceHeld'
  BY <1>1, <1>5, <1>8
  DEF IInv, SavedRows, SavedUncrossed, SavedFills, SequenceHeld, Running
<1>16. BookUncrossed'
  <2>1. CASE left = 0
    BY <1>2, <1>10, <2>1 DEF IInv, BookUncrossed
  <2>2. CASE left # 0
    <3>1. ob'[t] = e
      BY <1>10, <2>2
    <3>2. /\ order[t].side \in Sides /\ order[t].price \in Nat
          /\ \A x \in Orders : ob[x] # Nil => ob[x].price \in Nat
      BY <1>2, PricesNat DEF IInv, TypeOK, OrderT, EntryT
    <3>3. \A x \in Orders : ob[x] # Nil =>
             /\ order[t].side = "long" /\ ob[x].side = "short" =>
                   order[t].price < ob[x].price
             /\ order[t].side = "short" /\ ob[x].side = "long" =>
                   ob[x].price < order[t].price
      BY <1>7, <2>2, <3>2 DEF Crosses, Opposite
    <3>4. ASSUME NEW b \in Orders, NEW a \in Orders,
                 ob'[b] # Nil, ob'[b].side = "long",
                 ob'[a] # Nil, ob'[a].side = "short"
          PROVE  ob'[b].price < ob'[a].price
      <4>1. CASE b = t
        BY <1>3, <1>10, <3>1, <3>3, <3>4, <4>1
      <4>2. CASE a = t
        BY <1>3, <1>10, <3>1, <3>3, <3>4, <4>2
      <4>3. CASE b # t /\ a # t
        BY <1>10, <3>4, <4>3 DEF IInv, BookUncrossed
      <4>. QED
        BY <4>1, <4>2, <4>3
    <3>. QED
      BY <3>4 DEF BookUncrossed
  <2>. QED
    BY <2>1, <2>2
<1>17. FillsMatch'
  <2>1. ASSUME NEW x \in Orders, x # t PROVE Traded(order', fills', x)
    BY <1>1, <1>5, <1>9, <2>1 DEF IInv, FillsMatch, Traded
  <2>2. Traded(order', fills', t)
    <3>1. order[t].filled + (order[t].size - left)
             = fills[t].maker + fills[t].taker
      BY <1>1, <1>2 DEF IInv, FillsMatch
    <3>. QED
      BY <1>4, <1>5, <1>9, <3>1 DEF Traded
  <2>. QED
    BY <1>8, <2>1, <2>2 DEF FillsMatch
<1>18. FinalKept'
  BY <1>1, <1>2, <1>5, <1>8, <1>9 DEF IInv, FinalKept, Running, Final
<1>. QED
  BY <1>12, <1>13, <1>14, <1>15, <1>16, <1>17, <1>18 DEF IInv

(* The idle task is a task.                                                *)
LEMMA NoTaskType ==
    NoTask \in TaskT /\ NoTask.pc = "idle"
BY DEF NoTask, TaskT

(* The commit of a match keeps the invariant.                              *)
LEMMA CommitStep ==
    ASSUME IInv, Commit
    PROVE  IInv'
<1>. DEFINE o == task.oid
            drop == DropsRest(Taker, task.left)
            rows == IF drop THEN [order EXCEPT ![o] = WithStatus(@, "canceled")]
                            ELSE order
            after == CancelStale(rows, position, touched)
<1>1. task.pc = "finish" /\ Running
  BY DEF Commit, Running
<1>2. /\ o \in Orders /\ order[o] \in OrderT /\ order[o] # Nil
      /\ order[o].status = IF task.left = 0 THEN "closed" ELSE "open"
  BY <1>1 DEF IInv, TypeOK, TakerRow
<1>3. drop => ob[o] # Nil
  BY <1>1, <1>2 DEF IInv, BookRows, OpenRow, DropsRest
<1>4. /\ order' = after /\ published' = sequence /\ touched' = {}
      /\ task' = NoTask /\ saved' = Nil
      /\ UNCHANGED <<position, fills, fair, sequence>>
      /\ drop => /\ ob' = [ob EXCEPT ![o] = Nil]
                 /\ level' = AddLevel(level, ob[o], 0 - ob[o].size)
                 /\ notional' = AddNotional(notional, ob[o], 0 - ob[o].size)
      /\ ~drop => UNCHANGED <<ob, level, notional>>
  BY DEF Commit
<1>5. /\ WithStatus(order[o], "canceled") \in OrderT
      /\ WithStatus(order[o], "canceled").status = "canceled"
      /\ WithStatus(order[o], "canceled").filled = order[o].filled
  BY <1>2, StatusRow DEF Statuses
<1>. HIDE DEF drop
<1>6. /\ rows \in [Orders -> OrderT \cup {Nil}]
      /\ \A x \in Orders : x # o => rows[x] = order[x]
      /\ rows[o] \in OrderT /\ rows[o].filled = order[o].filled
      /\ drop => rows[o].status = "canceled"
      /\ ~drop => rows[o] = order[o]
  BY <1>2, <1>5 DEF IInv, TypeOK
<1>. HIDE DEF rows
<1>7. /\ after \in [Orders -> OrderT \cup {Nil}]
      /\ \A x \in Orders :
            \/ after[x] = rows[x]
            \/ /\ rows[x] # Nil /\ rows[x].status = "placed"
               /\ after[x] \in OrderT
               /\ after[x].status = "canceled"
               /\ after[x].filled = rows[x].filled
  BY <1>6, StaleRows
<1>. HIDE DEF after
<1>8. /\ ob' \in [Orders -> EntryT \cup {Nil}]
      /\ level' \in [Sides -> [AllPrices -> Int]]
      /\ notional' \in [Traders -> Int]
      /\ ob'[o] = IF drop THEN Nil ELSE ob[o]
      /\ \A x \in Orders : x # o => ob'[x] = ob[x]
  <2>1. CASE ~drop
    BY <1>4, <2>1 DEF IInv, TypeOK
  <2>2. CASE drop
    <3>1. ob[o] \in EntryT
      BY <1>2, <1>3, <2>2 DEF IInv, TypeOK
    <3>2. 0 - ob[o].size \in Int
      BY <3>1 DEF EntryT
    <3>3. /\ ob \in [Orders -> EntryT \cup {Nil}]
          /\ level \in [Sides -> [AllPrices -> Int]]
          /\ notional \in [Traders -> Int]
      BY DEF IInv, TypeOK
    <3>4. level' \in [Sides -> [AllPrices -> Int]] /\ notional' \in [Traders -> Int]
      BY <1>4, <2>2, <3>1, <3>2, <3>3, AggregateType
    <3>. QED
      BY <1>2, <1>4, <2>2, <3>3, <3>4
  <2>. QED
    BY <2>1, <2>2
<1>9. TypeOK'
  BY <1>4, <1>7, <1>8, NoTaskType DEF IInv, TypeOK
<1>10. \A x \in Orders : EntryRow(order', ob', x)
  BY <1>1, <1>2, <1>4, <1>6, <1>7, <1>8 DEF IInv, BookRows, EntryRow
<1>11. \A x \in Orders : OpenRow(order', x) => ob'[x] # Nil
  BY <1>1, <1>2, <1>4, <1>6, <1>7, <1>8, NotNil DEF IInv, BookRows, OpenRow
<1>12. Uncrossed(ob')
  BY <1>8 DEF IInv, BookUncrossed, Uncrossed
<1>13. \A x \in Orders : Traded(order', fills', x)
  <2>1. \A x \in Orders : Traded(order, fills, x)
    BY <1>1 DEF IInv, FillsMatch
  <2>2. \A x \in Orders : Traded(rows, fills, x)
    BY <1>2, <1>6, <2>1, NotNil DEF Traded
  <2>3. \A x \in Orders : Traded(after, fills, x)
    BY <1>7, <2>2, NotNil DEF Traded
  <2>. QED
    BY <1>4, <2>3 DEF Traded
<1>14. IdleFacts'
  BY <1>4, <1>9, <1>10, <1>11, <1>12, <1>13, NoTaskType DEF IdleFacts
<1>. QED
  BY <1>14, IdleAfter

(* The rollback of a match keeps the invariant.                            *)
LEMMA AbortStep ==
    ASSUME IInv, Abort
    PROVE  IInv'
<1>. DEFINE o == task.oid
            row == WithStatus(saved.order[o], "rejected")
<1>1. task.pc = "finish" /\ Running
  BY DEF Abort, Running
<1>2. /\ o \in Orders /\ saved \in SavedT /\ saved.order[o] # Nil
  BY <1>1 DEF IInv, TakerRow, SavedRows
<1>3. /\ saved.order \in [Orders -> OrderT \cup {Nil}]
      /\ saved.ob \in [Orders -> EntryT \cup {Nil}]
      /\ saved.level \in [Sides -> [AllPrices -> Int]]
      /\ saved.notional \in [Traders -> Int]
      /\ saved.position \in [Traders -> PositionT]
      /\ saved.fills \in [Orders -> FillT]
      /\ saved.sequence \in Nat
  BY <1>2 DEF SavedT
<1>4. /\ ob' = saved.ob /\ level' = saved.level /\ notional' = saved.notional
      /\ position' = saved.position /\ fills' = saved.fills
      /\ sequence' = saved.sequence /\ touched' = {} /\ task' = NoTask
      /\ saved' = Nil /\ UNCHANGED <<fair, published>>
      /\ task.kind = "amend" => order' = saved.order
      /\ task.kind # "amend" => order' = [saved.order EXCEPT ![o] = row]
  BY DEF Abort, Rollback
<1>5. row \in OrderT /\ row.status = "rejected" /\ row.filled = saved.order[o].filled
  BY <1>2, <1>3, StatusRow DEF Statuses
<1>. HIDE DEF row
<1>6. /\ order' \in [Orders -> OrderT \cup {Nil}]
      /\ \A x \in Orders : x # o => order'[x] = saved.order[x]
      /\ task.kind = "amend" => order'[o] = saved.order[o]
      /\ task.kind # "amend" => order'[o] = row
  BY <1>2, <1>3, <1>4, <1>5
<1>7. TypeOK'
  BY <1>3, <1>4, <1>6, NoTaskType DEF IInv, TypeOK
<1>8. \A x \in Orders : EntryRow(order', ob', x)
  BY <1>1, <1>4, <1>6 DEF IInv, SavedRows, EntryRow
<1>9. \A x \in Orders : OpenRow(order', x) => ob'[x] # Nil
  BY <1>1, <1>4, <1>5, <1>6 DEF IInv, SavedRows, OpenRow
<1>10. Uncrossed(ob') /\ sequence' = published'
  BY <1>1, <1>4 DEF IInv, SavedUncrossed, Uncrossed, SequenceHeld
<1>11. \A x \in Orders : Traded(order', fills', x)
  BY <1>1, <1>2, <1>4, <1>5, <1>6, NotNil DEF IInv, SavedFills, Traded
<1>12. IdleFacts'
  BY <1>4, <1>7, <1>8, <1>9, <1>10, <1>11, NoTaskType DEF IdleFacts
<1>. QED
  BY <1>12, IdleAfter
-----------------------------------------------------------------------------
(* Theorems                                                                *)

(* Every step keeps the inductive invariant.                               *)
LEMMA NextStep ==
    IInv /\ [Next]_vars => IInv'
<1>. SUFFICES ASSUME IInv, [Next]_vars PROVE IInv'
  OBVIOUS
<1>1. CASE UNCHANGED vars
  BY <1>1 DEF vars, IInv, TypeOK, TakerRow, Running, BookRows, SavedRows,
     BookUncrossed, SavedUncrossed, FillsMatch, SavedFills, SequenceHeld,
     FinalKept, EntryRow, OpenRow, Traded, Uncrossed
<1>2. ASSUME NEW o \in Orders, NEW t \in Traders, NEW tif \in TimesInForce,
             NEW side \in Sides, NEW price \in Prices, NEW size \in Sizes,
             NEW ty \in OrderTypes \cap ImmediateTypes,
             Create(o, t, ty, tif, side, price, size, FALSE)
      PROVE  IInv'
  BY <1>2, ConstantAssumption, CreateStep
<1>3. ASSUME NEW o \in Orders, NEW t \in Traders, NEW price \in Prices,
             NEW size \in LiquidationSizes, LiquidateSell(o, t, price, size)
      PROVE  IInv'
  <2>1. Opposite(position[t].side) \in Sides
    BY OppositeType DEF IInv, TypeOK, PositionT
  <2>2. "limit" \in ImmediateTypes /\ "gtc" \in AllTimesInForce /\ size \in Nat
    BY ConstantAssumption DEF ImmediateTypes, AllTimesInForce
  <2>. QED
    BY <1>3, <2>1, <2>2, CreateStep DEF LiquidateSell
<1>4. CASE \E o \in Orders, t, cp \in Traders, side \in Sides, price \in Prices,
              size \in Sizes, ty \in OrderTypes \cap ImmediateTypes :
              CreatePrivate(o, t, ty, side, price, size, cp)
  BY <1>4, CreatePrivateStep
<1>5. CASE \E o \in Orders, t \in Traders, ty \in OrderTypes \cap DependentTypes,
              price, trigger \in Prices, percent \in Percents :
              CreateDependent(o, t, ty, price, trigger, percent)
  BY <1>5, CreateDependentStep
<1>6. CASE \E o \in Orders, t \in Traders, ty \in OrderTypes \cap StopTypes,
              side \in Sides, price, trigger \in Prices, size \in Sizes :
              CreateStop(o, t, ty, side, price, trigger, size)
  BY <1>6, CreateStopStep
<1>7. CASE (\E m \in Orders : Fill(m)) \/ Rest \/ Commit \/ Abort
  BY <1>7, FillStep, RestStep, CommitStep, AbortStep
<1>8. CASE \/ \E o \in Orders : Cancel(o)
           \/ \E t \in Traders : CancelAll(t)
           \/ \E o \in Orders : CancelNext(o)
           \/ CancelAllDone
  BY <1>8, CancelStep, CancelNextStep, CancelAllStep
<1>9. CASE \/ \E o \in Orders, size \in Sizes : AmendSize(o, size)
           \/ \E o \in Orders, price \in Prices, size \in Sizes :
                 AmendPrice(o, price, size)
           \/ \E o \in Orders, price, trigger \in Prices, percent \in Percents :
                 AmendDependent(o, price, trigger, percent)
           \/ \E o \in Orders, price, trigger \in Prices, size \in Sizes :
                 AmendStop(o, price, trigger, size)
  BY <1>9, AmendSizeStep, AmendPriceStep, AmendDependentStep, AmendStopStep
<1>10. CASE (\E o \in Orders : Execute(o)) \/ (\E o \in Orders : ExecuteRejected(o))
  BY <1>10, ExecuteStep, ExecuteRejectedStep
<1>11. CASE \/ \E o \in Orders : ExecuteNotMet(o)
            \/ \E t \in Traders, size \in LiquidationSizes : Takeover(t, size)
            \/ \E f \in FairPrices : UpdateFairPrice(f)
  BY <1>11, OtherSteps
<1>. QED
  BY <1>1, <1>2, <1>3, <1>4, <1>5, <1>6, <1>7, <1>8, <1>9, <1>10, <1>11 DEF Next

(* The inductive invariant holds in every behaviour of the engine.         *)
THEOREM Invariance ==
    Spec => []IInv
BY InitStep, NextStep, PTL DEF Spec

(* The variables of the engine keep their types; in particular no size,    *)
(* remaining size or filled size becomes negative.                         *)
THEOREM TypeCorrect ==
    Spec => []TypeOK
<1>1. IInv => TypeOK
  BY DEF IInv
<1>. QED
  BY <1>1, Invariance, PTL

(* The book is never crossed, whatever is created, amended, triggered or   *)
(* rolled back.                                                            *)
THEOREM NeverCrossed ==
    Spec => []BookUncrossed
<1>1. IInv => BookUncrossed
  BY DEF IInv
<1>. QED
  BY <1>1, Invariance, PTL

(* Between tasks the order space and the orderbook space agree.            *)
THEOREM SpacesAgree ==
    Spec => []EntriesAgree
<1>1. IInv => EntriesAgree
  BY DEF IInv, BookRows, EntryRow, OpenRow, EntriesAgree, HasStatus
<1>. QED
  BY <1>1, Invariance, PTL

(* Between tasks the filled size of every order is what it traded.         *)
THEOREM FilledCorrect ==
    Spec => []FilledIsTraded
<1>1. IInv => FilledIsTraded
  BY DEF IInv, FillsMatch, Traded, FilledIsTraded
<1>. QED
  BY <1>1, Invariance, PTL

(* A rejected order has no fills: the rollback undoes all of them.         *)
THEOREM RejectedUntraded ==
    Spec => []RejectedNeverTraded
<1>1. ASSUME IInv PROVE RejectedNeverTraded
  <2>1. ASSUME task.pc = "idle", NEW o \in Orders, HasStatus(o, "rejected")
        PROVE  fills[o] = [maker |-> 0, taker |-> 0]
    <3>1. fills[o].maker + fills[o].taker = 0
      BY <1>1, <2>1 DEF IInv, FillsMatch, Traded, HasStatus
    <3>2. fills[o] \in FillT
      BY <1>1 DEF IInv, TypeOK
    <3>. QED
      BY <3>1, <3>2 DEF FillT
  <2>. QED
    BY <2>1 DEF RejectedNeverTraded
<1>. QED
  BY <1>1, Invariance, PTL

(* Order book updates carry consecutive sequence numbers.                  *)
THEOREM ConsecutiveUpdates ==
    Spec => UpdatesInSequence
<1>1. ASSUME IInv, [Next]_vars
      PROVE  [published' # published => published' = published + 1]_vars
  <2>. DEFINE Good == published' = published \/ published' = published + 1
  <2>1. sequence = IF task.pc = "idle" THEN published ELSE published + 1
    BY <1>1 DEF IInv, SequenceHeld
  <2>2. CASE UNCHANGED vars
    BY <2>2 DEF vars
  <2>3. \A o, t, ty, tif, side, price, size, liq :
           Create(o, t, ty, tif, side, price, size, liq) => Good
    BY DEF Create
  <2>4. \A o, t, ty, side, price, size, cp :
           CreatePrivate(o, t, ty, side, price, size, cp) => Good
    BY DEF CreatePrivate
  <2>5. \A o, row, accepted :
           task.pc = "idle" /\ PlaceOrReject(o, row, accepted) => Good
    BY <2>1 DEF PlaceOrReject, CommitAtOnce
  <2>6. \A o, t, ty, price, trigger, percent :
           CreateDependent(o, t, ty, price, trigger, percent) => Good
    BY <2>5 DEF CreateDependent, CanStart
  <2>7. \A o, t, ty, side, price, trigger, size :
           CreateStop(o, t, ty, side, price, trigger, size) => Good
    BY <2>5 DEF CreateStop, CanStart
  <2>8. \A m : Fill(m) => Good
    BY DEF Fill
  <2>9. Rest \/ Abort => Good
    BY DEF Rest, Abort
  <2>10. Commit \/ CancelAllDone => Good
    BY <2>1 DEF Commit, CancelAllDone
  <2>11. CommitAtOnce /\ task.pc = "idle" => Good
    BY <2>1 DEF CommitAtOnce
  <2>12. \A o : Cancel(o) \/ ExecuteNotMet(o) => Good
    BY <2>11 DEF Cancel, ExecuteNotMet, CanStart
  <2>13. /\ \A o, size : AmendSize(o, size) => Good
         /\ \A o, price, trigger, percent :
               AmendDependent(o, price, trigger, percent) => Good
         /\ \A o, price, trigger, size :
               AmendStop(o, price, trigger, size) => Good
    BY <2>11 DEF AmendSize, AmendDependent, AmendStop, CanStart
  <2>14. /\ \A o, price, size : AmendPrice(o, price, size) => Good
         /\ \A o : CancelNext(o) \/ Execute(o) \/ ExecuteRejected(o) => Good
         /\ \A t : CancelAll(t) => Good
         /\ \A t, size : Takeover(t, size) => Good
         /\ \A f : UpdateFairPrice(f) => Good
    BY DEF AmendPrice, CancelNext, Execute, ExecuteRejected, CancelAll,
           Takeover, UpdateFairPrice
  <2>15. \A o, t, price, size : LiquidateSell(o, t, price, size) => Good
    BY <2>3 DEF LiquidateSell
  <2>. HIDE DEF Good
  <2>16. Good
    BY <1>1, <2>2, <2>3, <2>4, <2>6, <2>7, <2>8, <2>9, <2>10, <2>12, <2>13,
       <2>14, <2>15 DEF Next, Good, vars
  <2>. QED
    BY <2>16 DEF Good
<1>. QED
  BY <1>1, Invariance, PTL DEF Spec, UpdatesInSequence

(* A committed row that is final.                                          *)
FinalRow(rows, o) == rows[o] # Nil /\ rows[o].status \in Final

(* What FinalOrdersStay demands of a step.                                 *)
FinalStep ==
    \A o \in Orders :
        FinalRow(CommittedOrder, o) => CommittedOrder'[o] = CommittedOrder[o]

(* A step that edits rows outside a match, one order at a time.            *)
LEMMA EditKeeps ==
    ASSUME IInv, task.pc \in {"idle", "cancelall"},
           task'.pc \in {"idle", "cancelall"},
           NEW o \in Orders, ~FinalRow(order, o), NEW row,
           order' = [order EXCEPT ![o] = row]
    PROVE  FinalStep
BY DEF FinalStep, FinalRow, CommittedOrder, IInv, TypeOK

(* A step that edits no committed row changes no final order.              *)
LEMMA NoEditKeeps ==
    ASSUME IInv, order' = order, task.pc \in {"idle", "cancelall"},
           task'.pc \in {"idle", "cancelall"}
    PROVE  FinalStep
BY DEF FinalStep, CommittedOrder

(* A step that starts a match commits nothing but a new order.             *)
LEMMA StartKeeps ==
    ASSUME IInv, task.pc = "idle", task'.pc = "match",
           \A x \in Orders : FinalRow(order, x) => saved'.order[x] = order[x]
    PROVE  FinalStep
BY DEF FinalStep, CommittedOrder

(* Creating an order changes no final order.                               *)
LEMMA CreateKeeps ==
    ASSUME IInv, NEW o \in Orders, NEW t, NEW ty, NEW tif, NEW side, NEW price,
           NEW size, NEW liq, Create(o, t, ty, tif, side, price, size, liq)
    PROVE  FinalStep
<1>1. /\ task.pc = "idle" /\ order[o] = Nil /\ task'.pc = "match"
      /\ saved'.order = order'
  BY DEF Create, CanStart, Exists, StartMatch, Savepoint
<1>2. \A x \in Orders : x # o => order'[x] = order[x]
  BY DEF Create, IInv, TypeOK
<1>. QED
  BY <1>1, <1>2, StartKeeps DEF FinalRow

(* A private match changes no final order.                                 *)
LEMMA PrivateKeeps ==
    ASSUME IInv, NEW o \in Orders, NEW t, NEW ty, NEW side, NEW price, NEW size,
           NEW cp, CreatePrivate(o, t, ty, side, price, size, cp)
    PROVE  FinalStep
<1>. DEFINE new == Updated(NewOrder(t, ty, "gtc", side, "open", price, 0, 0, size), 0)
            rows == [order EXCEPT ![o] = new]
<1>1. task.pc = "idle" /\ order[o] = Nil /\ task' = task
  BY DEF CreatePrivate, Exists
<1>2. PICK positions : order' = CancelStale(rows, positions, {t, cp})
  BY DEF CreatePrivate
<1>. HIDE DEF new
<1>3. \A x \in Orders : x # o => rows[x] = order[x]
  BY DEF IInv, TypeOK
<1>. HIDE DEF rows
<1>4. \A x \in Orders : rows[x].status # "placed" => order'[x] = rows[x]
  BY <1>2 DEF CancelStale
<1>. QED
  BY <1>1, <1>3, <1>4 DEF FinalStep, FinalRow, CommittedOrder, Final

(* Canceling changes no final order.                                       *)
LEMMA WithdrawKeeps ==
    ASSUME IInv, NEW o \in Orders, Cancel(o) \/ CancelNext(o)
    PROVE  FinalStep
<1>1. task.pc \in {"idle", "cancelall"} /\ task' = task
  BY DEF Cancel, CancelNext, CanStart, CommitAtOnce
<1>2. Active(o) /\ Withdraw(o)
  BY DEF Cancel, CancelNext, Cancellable, Active
<1>3. ~FinalRow(order, o)
  BY <1>2 DEF IInv, BookRows, EntryRow, Active, HasStatus, FinalRow, Final
<1>. QED
  BY <1>1, <1>2, <1>3, EditKeeps DEF Withdraw

(* Amending changes no final order.                                        *)
LEMMA AmendKeeps ==
    ASSUME IInv, NEW o \in Orders, NEW price, NEW trigger, NEW percent, NEW size,
           \/ AmendSize(o, size)
           \/ AmendPrice(o, price, size)
           \/ AmendDependent(o, price, trigger, percent)
           \/ AmendStop(o, price, trigger, size)
    PROVE  FinalStep
<1>1. CASE AmendSize(o, size)
  <2>1. task.pc = "idle" /\ task' = task /\ ob[o] # Nil
    BY <1>1 DEF AmendSize, CanStart, CommitAtOnce
  <2>2. ~FinalRow(order, o)
    BY <2>1 DEF IInv, BookRows, EntryRow, FinalRow, Final
  <2>. QED
    BY <1>1, <2>1, <2>2, EditKeeps DEF AmendSize
<1>2. CASE AmendPrice(o, price, size)
  <2>1. task.pc = "idle" /\ task'.pc = "match" /\ saved'.order = order
    BY <1>2 DEF AmendPrice, CanStart, StartMatch, Savepoint
  <2>. QED
    BY <2>1, StartKeeps
<1>3. CASE \/ AmendDependent(o, price, trigger, percent)
           \/ AmendStop(o, price, trigger, size)
  <2>1. task.pc = "idle" /\ task' = task /\ HasStatus(o, "placed")
    BY <1>3 DEF AmendDependent, AmendStop, CanStart, CommitAtOnce
  <2>2. ~FinalRow(order, o)
    BY <2>1 DEF HasStatus, FinalRow, Final
  <2>. QED
    BY <1>3, <2>1, <2>2, EditKeeps DEF AmendDependent, AmendStop
<1>. QED
  BY <1>1, <1>2, <1>3

(* Triggering changes no final order.                                      *)
LEMMA ExecuteKeeps ==
    ASSUME IInv, NEW o \in Orders,
           Execute(o) \/ ExecuteRejected(o) \/ ExecuteNotMet(o)
    PROVE  FinalStep
<1>1. CASE Execute(o)
  <2>1. task.pc = "idle" /\ task'.pc = "match" /\ saved'.order = order
    BY <1>1 DEF Execute, CanStart, StartMatch, Savepoint
  <2>. QED
    BY <2>1, StartKeeps
<1>2. CASE ExecuteRejected(o)
  <2>1. task.pc = "idle" /\ task' = task /\ HasStatus(o, "placed")
    BY <1>2 DEF ExecuteRejected, IsTriggered
  <2>2. ~FinalRow(order, o)
    BY <2>1 DEF HasStatus, FinalRow, Final
  <2>. QED
    BY <1>2, <2>1, <2>2, EditKeeps DEF ExecuteRejected
<1>3. CASE ExecuteNotMet(o)
  BY <1>3, NoEditKeeps DEF ExecuteNotMet, CanStart, CommitAtOnce, db
<1>. QED
  BY <1>1, <1>2, <1>3

(* Placing a conditional order changes no final order.                     *)
LEMMA PlaceKeeps ==
    ASSUME IInv, task.pc = "idle", NEW o \in Orders, ~Exists(o), NEW row,
           NEW accepted \in BOOLEAN, PlaceOrReject(o, row, accepted)
    PROVE  FinalStep
<1>1. task' = task /\ ~FinalRow(order, o)
  BY DEF PlaceOrReject, CommitAtOnce, FinalRow, Exists
<1>2. PICK new : order' = [order EXCEPT ![o] = new]
  BY DEF PlaceOrReject
<1>. QED
  BY <1>1, <1>2, EditKeeps

(* The end of a match: FinalKept says that the rows it has changed were    *)
(* not final before it.                                                    *)
LEMMA FinishKeeps ==
    ASSUME IInv, Commit \/ Abort
    PROVE  FinalStep
<1>. DEFINE o == task.oid
<1>1. /\ task.pc = "finish" /\ Running /\ task'.pc = "idle"
  BY NoTaskType DEF Commit, Abort, Running
<1>2. /\ o \in Orders /\ saved \in SavedT /\ ~FinalRow(saved.order, o)
      /\ \A x \in Orders : FinalRow(saved.order, x) => order[x] = saved.order[x]
      /\ saved.order \in [Orders -> OrderT \cup {Nil}]
  BY <1>1 DEF IInv, TakerRow, SavedRows, FinalKept, FinalRow, SavedT
<1>3. CASE Commit
  <2>. DEFINE drop == DropsRest(Taker, task.left)
              rows == IF drop THEN [order EXCEPT ![o] = WithStatus(@, "canceled")]
                              ELSE order
  <2>1. order' = CancelStale(rows, position, touched)
    BY <1>3 DEF Commit
  <2>. HIDE DEF drop
  <2>2. \A x \in Orders : x # o => rows[x] = order[x]
    BY DEF IInv, TypeOK
  <2>. HIDE DEF rows
  <2>3. \A x \in Orders : rows[x].status # "placed" => order'[x] = rows[x]
    BY <2>1 DEF CancelStale
  <2>. QED
    BY <1>1, <1>2, <2>2, <2>3 DEF FinalStep, FinalRow, CommittedOrder, Final
<1>4. CASE Abort
  <2>1. \A x \in Orders : x # o => order'[x] = saved.order[x]
    BY <1>2, <1>4 DEF Abort
  <2>. QED
    BY <1>1, <1>2, <2>1 DEF FinalStep, FinalRow, CommittedOrder
<1>. QED
  BY <1>3, <1>4

(* Inside a match nothing is committed.                                    *)
LEMMA MatchKeeps ==
    ASSUME IInv, (\E m \in Orders : Fill(m)) \/ Rest
    PROVE  FinalStep
<1>1. task.pc = "match" /\ saved' = saved /\ task'.pc \in {"match", "finish"}
  BY DEF Fill, Rest, IInv, TypeOK, TaskT
<1>. QED
  BY <1>1 DEF FinalStep, CommittedOrder

(* Closed, canceled and rejected are final: no later task changes such an  *)
(* order in any way.                                                       *)
THEOREM FinalForever ==
    Spec => FinalOrdersStay
<1>1. ASSUME IInv, Next PROVE FinalStep
  <2>1. ASSUME NEW o \in Orders, NEW t \in Traders,
               NEW ty \in OrderTypes \cap DependentTypes, NEW price \in Prices,
               NEW trigger \in Prices, NEW percent \in Percents,
               CreateDependent(o, t, ty, price, trigger, percent)
        PROVE  FinalStep
    <3>1. PreCreateDependent(t, ty, price, trigger) \in BOOLEAN
      BY DEF PreCreateDependent
    <3>. QED
      BY <1>1, <2>1, <3>1, PlaceKeeps DEF CreateDependent, CanStart
  <2>2. ASSUME NEW o \in Orders, NEW t \in Traders,
               NEW ty \in OrderTypes \cap StopTypes, NEW side \in Sides,
               NEW price \in Prices, NEW trigger \in Prices, NEW size \in Sizes,
               CreateStop(o, t, ty, side, price, trigger, size)
        PROVE  FinalStep
    <3>1. PreCreateStop(t, ty, side, price, trigger) \in BOOLEAN
      BY DEF PreCreateStop
    <3>. QED
      BY <1>1, <2>2, <3>1, PlaceKeeps DEF CreateStop, CanStart
  <2>3. ASSUME NEW o \in Orders, NEW t \in Traders, NEW price \in Prices,
               NEW size \in LiquidationSizes, LiquidateSell(o, t, price, size)
        PROVE  FinalStep
    BY <1>1, <2>3, CreateKeeps DEF LiquidateSell
  <2>4. ASSUME \/ \E t \in Traders : CancelAll(t)
               \/ CancelAllDone
               \/ \E t \in Traders, size \in LiquidationSizes : Takeover(t, size)
               \/ \E f \in FairPrices : UpdateFairPrice(f)
        PROVE  FinalStep
    <3>1. /\ order' = order /\ task.pc \in {"idle", "cancelall"}
          /\ task'.pc \in {"idle", "cancelall"}
      BY <2>4, NoTaskType
      DEF CancelAll, CancelAllDone, CanStart, Takeover, UpdateFairPrice, db, NoTask
    <3>. QED
      BY <1>1, <3>1, NoEditKeeps
  <2>. QED
    BY <1>1, <2>1, <2>2, <2>3, <2>4, CreateKeeps, PrivateKeeps, WithdrawKeeps,
       AmendKeeps, ExecuteKeeps, FinishKeeps, MatchKeeps DEF Next
<1>2. ASSUME IInv, [Next]_vars
      PROVE  [\A o \in Orders :
                /\ CommittedOrder[o] # Nil
                /\ CommittedOrder[o].status \in {"closed", "canceled", "rejected"}
                => CommittedOrder'[o] = CommittedOrder[o]]_vars
  BY <1>1, <1>2 DEF FinalStep, FinalRow, Final
<1>. QED
  BY <1>2, Invariance, PTL DEF Spec, FinalOrdersStay

(* All that a match leaves behind between tasks, for any orders, prices    *)
(* and limits: types, an uncrossed book, entries and orders that agree, and*)
(* sizes filled as traded.                                                 *)
THEOREM BookStaysConsistent == Spec => []BookConsistent
<1>1. TypeOK /\ BookUncrossed /\ EntriesAgree /\ FilledIsTraded => BookConsistent
  BY DEF BookConsistent
<1>. QED
  BY <1>1, TypeCorrect, NeverCrossed, SpacesAgree, FilledCorrect, PTL

(* post_execute and the rollbacks of handle_task repair everything a       *)
(* refused task has touched: fills, entries and the sequence number.       *)
THEOREM RefusalsRepaired == Spec => RepairsComplete
BY SpacesAgree, RejectedUntraded, ConsecutiveUpdates, PTL DEF RepairsComplete

=============================================================================
