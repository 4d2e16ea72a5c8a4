---------------------------- MODULE EngineMore_proof ----------------------------
(***************************************************************************)
(* Proofs about the matching engine, continued from Engine_proof: the      *)
(* totals the code keeps beside its rows.                                  *)
(***************************************************************************)
EXTENDS Engine_proof, Sums_proof

USE DEF CanceledRow, RejectedRow, Amended

(* Aggregates lv and nt are the sums over book.                            *)
Agree(book, lv, nt) ==
    /\ \A side \in Sides, p \in AllPrices : lv[side][p] = SizeAt(book, side, p)
    /\ \A t \in Traders : nt[t] = ValueOf(book, t)

(* The aggregates agree with the book, and those of the savepoint with the *)
(* book of the savepoint, which is what a rollback relies on.              *)
AggInv ==
    /\ Agree(ob, level, notional)
    /\ Running => Agree(saved.ob, saved.level, saved.notional)
-----------------------------------------------------------------------------
(* Aggregates                                                              *)

(* Sizes and values are integers.                                          *)
LEMMA EntryIntegers ==
    ASSUME NEW e \in EntryT \cup {Nil}, NEW side, NEW p, NEW t
    PROVE  ShownSize(e, side, p) \in Int /\ OpenValue(e, t) \in Int
<1>1. CASE e = Nil
  BY <1>1 DEF ShownSize, OpenValue
<1>2. CASE e \in EntryT
  <2>1. e.size \in Nat /\ e.price \in AllPrices
    BY <1>2 DEF EntryT
  <2>2. e.price \in Nat
    BY <2>1, PricesNat
  <2>3. e.price * e.size \in Int
    BY <2>1, <2>2
  <2>. QED
    BY <2>1, <2>3 DEF ShownSize, OpenValue
<1>. QED
  BY <1>1, <1>2

(* One row of the book changes and the aggregates are told by how much.    *)
LEMMA EntryChange ==
    ASSUME NEW book \in [Orders -> EntryT \cup {Nil}],
           NEW lv \in [Sides -> [AllPrices -> Int]],
           NEW nt \in [Traders -> Int],
           Agree(book, lv, nt),
           NEW o \in Orders, NEW new \in EntryT \cup {Nil},
           NEW e \in EntryT, NEW d \in Int,
           \A side \in Sides, p \in AllPrices :
              ShownSize(new, side, p) = ShownSize(book[o], side, p)
                 + (IF e.side = side /\ e.price = p THEN d ELSE 0),
           \A t \in Traders :
              OpenValue(new, t) = OpenValue(book[o], t)
                 + (IF e.trader = t THEN e.price * d ELSE 0)
    PROVE  Agree([book EXCEPT ![o] = new], AddLevel(lv, e, d),
                 AddNotional(nt, e, d))
<1>. DEFINE later == [book EXCEPT ![o] = new]
<1>1. later \in [Orders -> EntryT \cup {Nil}] /\ later[o] = new
  OBVIOUS
<1>2. \A x \in Orders \ {o} : later[x] = book[x]
  OBVIOUS
<1>3. e.side \in Sides /\ e.price \in AllPrices /\ e.trader \in Traders
  BY DEF EntryT
<1>. HIDE DEF later
<1>4. ASSUME NEW side \in Sides, NEW p \in AllPrices
      PROVE  AddLevel(lv, e, d)[side][p] = SizeAt(later, side, p)
  <2>. DEFINE f == [x \in Orders |-> ShownSize(book[x], side, p)]
              g == [x \in Orders |-> ShownSize(later[x], side, p)]
              c == IF e.side = side /\ e.price = p THEN d ELSE 0
  <2>1. \A x \in Orders : f[x] \in Int /\ g[x] \in Int
    BY <1>1, EntryIntegers
  <2>2. \A x \in Orders \ {o} : f[x] = g[x]
    BY <1>2
  <2>3. g[o] = f[o] + c
    BY <1>1
  <2>4. SizeAt(book, side, p) = SumFunctionOnSet(f, Orders)
        /\ SizeAt(later, side, p) = SumFunctionOnSet(g, Orders)
    BY DEF SizeAt
  <2>5. lv[side][p] = SizeAt(book, side, p)
    BY DEF Agree
  <2>6. AddLevel(lv, e, d)[side][p] = lv[side][p] + c
    BY <1>3 DEF AddLevel
  <2>7. lv[side][p] \in Int /\ c \in Int /\ f[o] \in Int
    BY <2>1
  <2>. HIDE DEF f, g, c
  <2>8. SumFunctionOnSet(g, Orders) = SumFunctionOnSet(f, Orders) - f[o] + g[o]
    BY <2>1, <2>2, SumChange, FiniteAssumption
  <2>. QED
    BY <2>3, <2>4, <2>5, <2>6, <2>7, <2>8
<1>5. ASSUME NEW t \in Traders
      PROVE  AddNotional(nt, e, d)[t] = ValueOf(later, t)
  <2>. DEFINE f == [x \in Orders |-> OpenValue(book[x], t)]
              g == [x \in Orders |-> OpenValue(later[x], t)]
              c == IF e.trader = t THEN e.price * d ELSE 0
  <2>1. \A x \in Orders : f[x] \in Int /\ g[x] \in Int
    BY <1>1, EntryIntegers
  <2>2. \A x \in Orders \ {o} : f[x] = g[x]
    BY <1>2
  <2>3. g[o] = f[o] + c
    BY <1>1
  <2>4. ValueOf(book, t) = SumFunctionOnSet(f, Orders)
        /\ ValueOf(later, t) = SumFunctionOnSet(g, Orders)
    BY DEF ValueOf
  <2>5. nt[t] = ValueOf(book, t)
    BY DEF Agree
  <2>6. e.price * d \in Int
    <3>1. e.price \in Nat
      BY <1>3, PricesNat
    <3>. QED
      BY <3>1
  <2>7. AddNotional(nt, e, d)[t] = nt[t] + c
    BY <1>3 DEF AddNotional
  <2>8. nt[t] \in Int /\ c \in Int /\ f[o] \in Int
    BY <2>1, <2>6
  <2>. HIDE DEF f, g, c
  <2>9. SumFunctionOnSet(g, Orders) = SumFunctionOnSet(f, Orders) - f[o] + g[o]
    BY <2>1, <2>2, SumChange, FiniteAssumption
  <2>. QED
    BY <2>3, <2>4, <2>5, <2>7, <2>8, <2>9
<1>. QED
  BY <1>4, <1>5 DEF Agree, later

(* An entry enters an empty row (_create_entry).                           *)
LEMMA EntryEnters ==
    ASSUME NEW book \in [Orders -> EntryT \cup {Nil}],
           NEW lv \in [Sides -> [AllPrices -> Int]],
           NEW nt \in [Traders -> Int],
           Agree(book, lv, nt), NEW o \in Orders, NEW e \in EntryT,
           book[o] = Nil
    PROVE  Agree([book EXCEPT ![o] = e], AddLevel(lv, e, e.size),
                 AddNotional(nt, e, e.size))
<1>1. e.size \in Int /\ e # Nil
  BY NotNil DEF EntryT
<1>2. \A side \in Sides, p \in AllPrices :
          ShownSize(e, side, p) = ShownSize(book[o], side, p)
             + (IF e.side = side /\ e.price = p THEN e.size ELSE 0)
  BY <1>1 DEF ShownSize
<1>3. e.price * e.size \in Int
  <2>1. e.price \in AllPrices
    BY DEF EntryT
  <2>2. e.price \in Nat
    BY <2>1, PricesNat
  <2>. QED
    BY <1>1, <2>2
<1>4. \A t \in Traders :
          OpenValue(e, t) = OpenValue(book[o], t)
             + (IF e.trader = t THEN e.price * e.size ELSE 0)
  BY <1>1, <1>3 DEF OpenValue
<1>. QED
  BY <1>1, <1>2, <1>4, EntryChange

(* An entry keeps rest of its size, or leaves when that is nothing         *)
(* (_update_entry, _cancel_entry, _amend_entry).                           *)
LEMMA EntryResized ==
    ASSUME NEW book \in [Orders -> EntryT \cup {Nil}],
           NEW lv \in [Sides -> [AllPrices -> Int]],
           NEW nt \in [Traders -> Int],
           Agree(book, lv, nt), NEW o \in Orders, book[o] # Nil,
           NEW rest \in Nat, NEW d \in Int, d = rest - book[o].size,
           NEW new \in EntryT \cup {Nil},
           new = Nil => rest = 0,
           new # Nil => /\ new.side = book[o].side /\ new.price = book[o].price
                        /\ new.trader = book[o].trader /\ new.size = rest
    PROVE  Agree([book EXCEPT ![o] = new], AddLevel(lv, book[o], d),
                 AddNotional(nt, book[o], d))
<1>. DEFINE e == book[o]
<1>1. /\ e \in EntryT /\ e # Nil /\ e.size \in Nat /\ e.price \in AllPrices
      /\ d \in Int /\ rest = e.size + d
  BY DEF EntryT
<1>2. e.price \in Nat
  BY <1>1, PricesNat
<1>3. \A side \in Sides, p \in AllPrices :
          ShownSize(new, side, p) = ShownSize(e, side, p)
             + (IF e.side = side /\ e.price = p THEN d ELSE 0)
  BY <1>1 DEF ShownSize
<1>4. e.price * rest = e.price * e.size + e.price * d
  BY <1>1, <1>2
<1>5. e.price * e.size \in Int /\ e.price * d \in Int /\ e.price * 0 = 0
  BY <1>1, <1>2
<1>6. \A t \in Traders :
          OpenValue(new, t) = OpenValue(e, t)
             + (IF e.trader = t THEN e.price * d ELSE 0)
  <2>. SUFFICES ASSUME NEW t \in Traders
                PROVE  OpenValue(new, t) = OpenValue(e, t)
                          + (IF e.trader = t THEN e.price * d ELSE 0)
    OBVIOUS
  <2>. DEFINE v == e.price * e.size
              w == e.price * d
              r == e.price * rest
  <2>1. OpenValue(e, t) = IF e.trader = t THEN v ELSE 0
    BY <1>1 DEF OpenValue
  <2>2. OpenValue(new, t) = IF e.trader = t THEN r ELSE 0
    BY <1>5 DEF OpenValue
  <2>3. v \in Int /\ w \in Int /\ r = v + w
    BY <1>4, <1>5
  <2>. HIDE DEF v, w, r
  <2>. QED
    BY <2>1, <2>2, <2>3 DEF w
<1>. QED
  BY <1>1, <1>3, <1>6, EntryChange

(* A step that leaves the book and the savepoint alone.                    *)
LEMMA AggregatesKept ==
    ASSUME AggInv, UNCHANGED <<ob, level, notional>>,
           Running' => Running /\ saved' = saved
    PROVE  AggInv'
BY DEF AggInv, Agree

(* A step that takes a savepoint.                                          *)
LEMMA AggregatesSaved ==
    ASSUME AggInv, NEW rows, Savepoint(rows), Agree(ob, level, notional)'
    PROVE  AggInv'
<1>1. saved'.ob = ob /\ saved'.level = level /\ saved'.notional = notional
  BY DEF Savepoint
<1>2. Agree(saved'.ob, saved'.level, saved'.notional)
  BY <1>1 DEF AggInv
<1>. QED
  BY <1>2 DEF AggInv, Agree

(* An iteration of the matching loop keeps the aggregates.                 *)
LEMMA FillAggregates ==
    ASSUME IInv, AggInv, NEW m \in Orders, Fill(m)
    PROVE  AggInv'
<1>. DEFINE e == ob[m]
            q == FillSize(e, task.left)
            rest == e.size - q
            new == IF rest = 0 THEN Nil ELSE [e EXCEPT !.size = rest]
<1>1. TypeOK
  BY DEF IInv
<1>2. e # Nil
  BY DEF Fill, IsBest
<1>3. e \in EntryT /\ e.size \in Nat /\ task.left \in Nat
  BY <1>1, <1>2 DEF TypeOK, EntryT, TaskT
<1>4. q \in Nat /\ q <= e.size /\ rest \in Nat /\ rest - e.size \in Int
  BY <1>3 DEF FillSize
<1>5. UpdateEntry(m, rest)
  BY DEF Fill
<1>. HIDE DEF q, rest
<1>6. /\ ob' = [ob EXCEPT ![m] = new]
      /\ level' = AddLevel(level, e, rest - e.size)
      /\ notional' = AddNotional(notional, e, rest - e.size)
  BY <1>5 DEF UpdateEntry
<1>7. /\ new \in EntryT \cup {Nil}
      /\ new = Nil => rest = 0
      /\ new # Nil => /\ new.side = e.side /\ new.price = e.price
                      /\ new.trader = e.trader /\ new.size = rest
  <2>1. [e EXCEPT !.size = rest] \in EntryT
    BY <1>3, <1>4 DEF EntryT
  <2>. QED
    BY <1>3, <2>1, NotNil DEF EntryT
<1>. HIDE DEF new
<1>8. Agree(ob, level, notional)'
  BY <1>1, <1>2, <1>4, <1>6, <1>7, EntryResized DEF AggInv, TypeOK
<1>9. Running /\ saved' = saved
  BY DEF Fill, Running
<1>. QED
  BY <1>8, <1>9 DEF AggInv, Agree

(* What is left of the taker enters the book and the aggregates.           *)
LEMMA RestAggregates ==
    ASSUME IInv, AggInv, Rest
    PROVE  AggInv'
<1>. DEFINE left == task.left
            e == [trader |-> Taker.profile, side |-> Taker.side,
                  price |-> Taker.price, size |-> left, ts |-> sequence]
<1>1. TypeOK
  BY DEF IInv
<1>2. /\ task.oid \in Orders /\ ob[task.oid] = Nil /\ order[task.oid] # Nil
      /\ Running /\ saved' = saved
  BY DEF IInv, TakerRow, Rest, Running
<1>3. CASE left = 0
  BY <1>2, <1>3, AggregatesKept DEF Rest
<1>4. CASE left # 0
  <2>1. Taker \in OrderT
    BY <1>1, <1>2 DEF TypeOK, Taker
  <2>2. e \in EntryT /\ e.size = left
    BY <1>1, <2>1 DEF TypeOK, OrderT, EntryT, TaskT
  <2>3. CreateEntry(left)
    BY <1>4 DEF Rest
  <2>4. /\ ob' = [ob EXCEPT ![task.oid] = e]
        /\ level' = AddLevel(level, e, e.size)
        /\ notional' = AddNotional(notional, e, e.size)
    BY <2>2, <2>3 DEF CreateEntry
  <2>. HIDE DEF e
  <2>5. Agree(ob, level, notional)'
    BY <1>1, <1>2, <2>2, <2>4, EntryEnters DEF AggInv, TypeOK
  <2>. QED
    BY <1>2, <2>5 DEF AggInv, Agree
<1>. QED
  BY <1>3, <1>4

(* An entry is deleted (_cancel_entry).                                    *)
LEMMA EntryLeaves ==
    ASSUME TypeOK, Agree(ob, level, notional), NEW o \in Orders, ob[o] # Nil,
           ob' = [ob EXCEPT ![o] = Nil],
           level' = AddLevel(level, ob[o], 0 - ob[o].size),
           notional' = AddNotional(notional, ob[o], 0 - ob[o].size)
    PROVE  Agree(ob, level, notional)'
<1>1. ob[o].size \in Nat /\ 0 - ob[o].size \in Int
  BY DEF TypeOK, EntryT
<1>. QED
  BY <1>1, EntryResized DEF TypeOK

(* A commit that drops the rest of an ioc order takes its entry out.       *)
LEMMA CommitAggregates ==
    ASSUME IInv, AggInv, Commit
    PROVE  AggInv'
<1>1. TypeOK /\ task.oid \in Orders
  BY DEF IInv, TakerRow, Running, Commit
<1>2. ~Running'
  BY DEF Commit, NoTask, Running
<1>3. CASE ~DropsRest(Taker, task.left)
  BY <1>2, <1>3, AggregatesKept DEF Commit
<1>4. CASE DropsRest(Taker, task.left)
  <2>1. task.left # 0 /\ OpenRow(order, task.oid)
    BY <1>4 DEF DropsRest, Commit, IInv, TakerRow, Running, OpenRow
  <2>2. ob[task.oid] # Nil
    BY <1>1, <2>1 DEF IInv, BookRows, Commit
  <2>3. Agree(ob, level, notional)'
    BY <1>1, <1>4, <2>2, EntryLeaves DEF Commit, AggInv
  <2>. QED
    BY <1>2, <2>3 DEF AggInv, Agree
<1>. QED
  BY <1>3, <1>4

(* Canceling takes the entry out of the book and the aggregates.           *)
LEMMA WithdrawAggregates ==
    ASSUME IInv, AggInv, NEW o \in Orders, Withdraw(o), ~Running'
    PROVE  AggInv'
<1>1. TypeOK /\ Agree(ob, level, notional)
  BY DEF IInv, AggInv
<1>2. CASE ob[o] = Nil
  BY <1>2, AggregatesKept DEF Withdraw
<1>3. CASE ob[o] # Nil
  <2>1. Agree(ob, level, notional)'
    BY <1>1, <1>3, EntryLeaves DEF Withdraw
  <2>. QED
    BY <2>1 DEF AggInv, Agree
<1>. QED
  BY <1>2, <1>3

(* An amendment of the size moves the aggregates by the difference.        *)
LEMMA AmendSizeAggregates ==
    ASSUME IInv, AggInv, NEW o \in Orders, NEW size \in Sizes,
           AmendSize(o, size)
    PROVE  AggInv'
<1>. DEFINE e == ob[o]
            new == [e EXCEPT !.size = size, !.ts = sequence + 1]
<1>1. TypeOK /\ e # Nil /\ size \in Nat
  BY ConstantAssumption DEF IInv, AmendSize
<1>2. e \in EntryT /\ e.size \in Nat /\ size - e.size \in Int
  BY <1>1 DEF TypeOK, EntryT
<1>3. sequence + 1 \in Nat
  BY <1>1 DEF TypeOK
<1>4. /\ new \in EntryT
      /\ new.side = e.side /\ new.price = e.price
      /\ new.trader = e.trader /\ new.size = size
  BY <1>1, <1>2, <1>3 DEF EntryT
<1>5. /\ ob' = [ob EXCEPT ![o] = new]
      /\ level' = AddLevel(level, e, size - e.size)
      /\ notional' = AddNotional(notional, e, size - e.size)
  BY DEF AmendSize
<1>. HIDE DEF new
<1>6. Agree(ob, level, notional)'
  BY <1>1, <1>2, <1>4, <1>5, NotNil, EntryResized DEF AggInv, TypeOK
<1>7. ~Running'
  BY DEF AmendSize, CommitAtOnce, CanStart, Running
<1>. QED
  BY <1>6, <1>7 DEF AggInv, Agree

(* An amendment of the price takes the entry out, after the savepoint.     *)
LEMMA AmendPriceAggregates ==
    ASSUME IInv, AggInv, NEW o \in Orders, NEW price \in Prices,
           NEW size \in Sizes, AmendPrice(o, price, size)
    PROVE  AggInv'
<1>1. Agree(ob, level, notional)'
  BY EntryLeaves DEF IInv, AggInv, AmendPrice
<1>. QED
  BY <1>1, AggregatesSaved DEF AmendPrice

(* A rollback brings back aggregates that agree.                           *)
LEMMA AbortAggregates ==
    ASSUME IInv, AggInv, Abort
    PROVE  AggInv'
BY DEF Abort, Rollback, Running, NoTask, AggInv, Agree

(* Every step keeps the aggregates.                                        *)
LEMMA NextAggregates ==
    ASSUME IInv, AggInv, [Next]_vars
    PROVE  AggInv'
<1>1. ASSUME NEW rows, Savepoint(rows), UNCHANGED <<ob, level, notional>>
      PROVE  AggInv'
  BY <1>1, AggregatesSaved DEF AggInv, Agree
<1>2. ASSUME NEW o \in Orders, NEW t \in Traders, NEW ty, NEW tif, NEW side,
             NEW price, NEW size, NEW liq,
             Create(o, t, ty, tif, side, price, size, liq)
      PROVE  AggInv'
  BY <1>1, <1>2 DEF Create
<1>3. ASSUME NEW o \in Orders, NEW t \in Traders, NEW cp, NEW ty, NEW side,
             NEW price, NEW size, CreatePrivate(o, t, ty, side, price, size, cp)
      PROVE  AggInv'
  BY <1>3, AggregatesKept DEF CreatePrivate, Running
<1>4. ASSUME NEW o, NEW row, NEW accepted, CanStart,
             PlaceOrReject(o, row, accepted)
      PROVE  AggInv'
  BY <1>4, AggregatesKept DEF PlaceOrReject, CommitAtOnce, CanStart, Running
<1>5. ASSUME NEW o \in Orders, Execute(o)
      PROVE  AggInv'
  BY <1>1, <1>5 DEF Execute
<1>6. ASSUME NEW o \in Orders, Cancel(o) \/ CancelNext(o)
      PROVE  AggInv'
  BY <1>6, WithdrawAggregates
  DEF Cancel, CancelNext, CanStart, CommitAtOnce, Running
<1>7. ASSUME NEW t, CancelAll(t)
      PROVE  AggInv'
  BY <1>7, AggregatesKept DEF CancelAll, NoTask, Running, db
<1>8. ASSUME CancelAllDone
      PROVE  AggInv'
  BY <1>8, AggregatesKept DEF CancelAllDone, NoTask, Running, db
<1>9. ASSUME NEW o \in Orders, NEW price, NEW trigger, NEW n,
             AmendDependent(o, price, trigger, n) \/ AmendStop(o, price, trigger, n)
      PROVE  AggInv'
  BY <1>9, AggregatesKept
  DEF AmendDependent, AmendStop, CanStart, CommitAtOnce, Running
<1>10. ASSUME NEW o \in Orders, ExecuteRejected(o) \/ ExecuteNotMet(o)
       PROVE  AggInv'
  BY <1>10, AggregatesKept
  DEF ExecuteRejected, ExecuteNotMet, CanStart, CommitAtOnce, Running, db
<1>11. ASSUME NEW t, NEW size, Takeover(t, size)
       PROVE  AggInv'
  BY <1>11, AggregatesKept DEF Takeover, Running
<1>12. ASSUME NEW f, UpdateFairPrice(f)
       PROVE  AggInv'
  BY <1>12, AggregatesKept DEF UpdateFairPrice, Running, db
<1>13. ASSUME UNCHANGED vars
       PROVE  AggInv'
  BY <1>13, AggregatesKept DEF vars, Running
<1>14. CASE Next
  BY <1>2, <1>3, <1>4, <1>5, <1>6, <1>7, <1>8, <1>9, <1>10, <1>11, <1>12, <1>14,
     FillAggregates, RestAggregates, CommitAggregates, AbortAggregates,
     AmendSizeAggregates, AmendPriceAggregates
  DEF Next, LiquidateSell, CreateDependent, CreateStop
<1>. QED
  BY <1>13, <1>14

(* An empty book has empty aggregates.                                     *)
LEMMA InitAggregates ==
    Init => AggInv
<1>. SUFFICES ASSUME Init PROVE AggInv
  OBVIOUS
<1>1. ~Running
  BY DEF Init, NoTask, Running
<1>2. ASSUME NEW side \in Sides, NEW p \in AllPrices
      PROVE  level[side][p] = SizeAt(ob, side, p)
  <2>. DEFINE f == [o \in Orders |-> ShownSize(ob[o], side, p)]
  <2>1. \A o \in Orders : f[o] = 0
    BY DEF Init, ShownSize
  <2>. HIDE DEF f
  <2>2. SumFunctionOnSet(f, Orders) = 0
    BY <2>1, SumZero, FiniteAssumption
  <2>. QED
    BY <2>2 DEF Init, SizeAt, f
<1>3. ASSUME NEW t \in Traders
      PROVE  notional[t] = ValueOf(ob, t)
  <2>. DEFINE f == [o \in Orders |-> OpenValue(ob[o], t)]
  <2>1. \A o \in Orders : f[o] = 0
    BY DEF Init, OpenValue
  <2>. HIDE DEF f
  <2>2. SumFunctionOnSet(f, Orders) = 0
    BY <2>1, SumZero, FiniteAssumption
  <2>. QED
    BY <2>2 DEF Init, ValueOf, f
<1>. QED
  BY <1>1, <1>2, <1>3 DEF AggInv, Agree

(* Price levels and open notional are the sums of the entries of the book  *)
(* in every state, through partial fills, amendments, dropped rests and    *)
(* rollbacks (aggregate.lua).                                              *)
THEOREM TotalsCorrect == Spec => []AggregatesAgree
<1>1. IInv /\ AggInv /\ IInv' /\ [Next]_vars => AggInv'
  BY NextAggregates
<1>2. AggInv => AggregatesAgree
  BY DEF AggInv, Agree, AggregatesAgree, LevelsAgree, NotionalAgrees
<1>. QED
  BY <1>1, <1>2, InitAggregates, Invariance, PTL DEF Spec
-----------------------------------------------------------------------------
(* Open interest                                                           *)

(* Positions balance, and so do those a rollback returns to.               *)
OpenInterestInv ==
    /\ NetTotal(position) = 0
    /\ Running => NetTotal(saved.position) = 0

(* The signed size of a position is an integer.                            *)
LEMMA NetType ==
    ASSUME NEW pos \in PositionT
    PROVE  Net(pos) \in Int
BY DEF PositionT, Net, Signed

(* A fill of one trader moves the total by the signed fill.                *)
LEMMA OneFill ==
    ASSUME NEW pos \in [Traders -> PositionT], NEW t \in Traders,
           NEW side \in Sides, NEW q \in Nat,
           NEW new \in [Traders -> PositionT],
           new[t] = UpdatePosition(pos[t], side, q),
           \A x \in Traders \ {t} : new[x] = pos[x]
    PROVE  /\ NetTotal(new) = NetTotal(pos) + Signed(side, q)
           /\ NetTotal(new) \in Int /\ NetTotal(pos) \in Int
<1>. DEFINE p == UpdatePosition(pos[t], side, q)
            f == [x \in Traders |-> Net(pos[x])]
            g == [x \in Traders |-> Net(new[x])]
<1>1. pos[t] \in PositionT /\ p \in PositionT
  BY PositionType
<1>2. Net(p) = Net(pos[t]) + Signed(side, q)
  BY <1>1, PositionAdds
<1>3. new[t] = p
  OBVIOUS
<1>. HIDE DEF p
<1>5. \A x \in Traders : f[x] \in Int /\ g[x] \in Int
  BY <1>3, NetType
<1>6. \A x \in Traders \ {t} : f[x] = g[x]
  OBVIOUS
<1>7. f[t] = Net(pos[t]) /\ g[t] = Net(p)
  BY <1>3
<1>8. NetTotal(pos) = SumFunctionOnSet(f, Traders)
      /\ NetTotal(new) = SumFunctionOnSet(g, Traders)
  BY DEF NetTotal
<1>. HIDE DEF f, g
<1>9. SumFunctionOnSet(g, Traders) = SumFunctionOnSet(f, Traders) - f[t] + g[t]
  BY <1>5, <1>6, SumChange, FiniteAssumption
<1>10. SumFunctionOnSet(f, Traders) \in Int /\ SumFunctionOnSet(g, Traders) \in Int
  BY <1>5, SumType, FiniteAssumption
<1>11. Net(pos[t]) \in Int /\ Net(p) \in Int /\ Signed(side, q) \in Int
  BY <1>1, NetType DEF Signed
<1>12. NetTotal(new) = NetTotal(pos) + Signed(side, q)
  BY <1>2, <1>7, <1>8, <1>9, <1>10, <1>11
<1>. QED
  BY <1>8, <1>10, <1>12

(* The position of t after a fill, all others as they were.                *)
Filled(pos, new, t, side, q) ==
    /\ new \in [Traders -> PositionT]
    /\ new[t] = UpdatePosition(pos[t], side, q)
    /\ \A x \in Traders \ {t} : new[x] = pos[x]

(* How the code writes a fill.                                             *)
LEMMA FilledRow ==
    ASSUME NEW pos \in [Traders -> PositionT], NEW t \in Traders,
           NEW side \in Sides, NEW q \in Nat
    PROVE  Filled(pos, [pos EXCEPT ![t] = UpdatePosition(@, side, q)], t, side, q)
BY PositionType DEF Filled

(* A long and a short fill of the same size leave the total alone, also    *)
(* when one profile is on both sides.                                      *)
LEMMA TwoFills ==
    ASSUME NEW pos \in [Traders -> PositionT], NEW t \in Traders,
           NEW u \in Traders, NEW side \in Sides, NEW q \in Nat,
           NEW given, Filled(pos, given, t, side, q),
           NEW new, Filled(given, new, u, Opposite(side), q)
    PROVE  NetTotal(new) = NetTotal(pos)
<1>1. /\ NetTotal(given) = NetTotal(pos) + Signed(side, q)
      /\ NetTotal(pos) \in Int /\ given \in [Traders -> PositionT]
  BY OneFill DEF Filled
<1>2. Opposite(side) \in Sides
  BY OppositeType
<1>3. NetTotal(new) = NetTotal(given) + Signed(Opposite(side), q)
  BY <1>1, <1>2, OneFill DEF Filled
<1>4. Signed(Opposite(side), q) = 0 - Signed(side, q) /\ Signed(side, q) \in Int
  BY DEF Signed, Opposite, Sides
<1>. QED
  BY <1>1, <1>3, <1>4

(* A fill on the book or a takeover keeps the total.                       *)
LEMMA FillPositionsBalance ==
    ASSUME position \in [Traders -> PositionT], NEW side,
           NEW taker \in Traders, NEW maker \in Traders, NEW q \in Nat
    PROVE  NetTotal(FillPositions(side, taker, maker, q)) = NetTotal(position)
<1>. DEFINE buyer == IF side = "long" THEN taker ELSE maker
            seller == IF side = "long" THEN maker ELSE taker
            bought == [position EXCEPT ![buyer] = UpdatePosition(@, "long", q)]
            sold == [bought EXCEPT ![seller] = UpdatePosition(@, "short", q)]
<1>1. buyer \in Traders /\ seller \in Traders
  OBVIOUS
<1>2. "long" \in Sides /\ "short" \in Sides /\ Opposite("long") = "short"
  BY DEF Sides, Opposite
<1>3. FillPositions(side, taker, maker, q) = sold
  BY DEF FillPositions
<1>. HIDE DEF buyer, seller
<1>4. Filled(position, bought, buyer, "long", q)
  BY <1>1, <1>2, FilledRow
<1>5. bought \in [Traders -> PositionT]
  BY <1>4 DEF Filled
<1>. HIDE DEF bought
<1>6. Filled(bought, sold, seller, Opposite("long"), q)
  BY <1>1, <1>2, <1>5, FilledRow
<1>. HIDE DEF sold
<1>. QED
  BY <1>1, <1>2, <1>3, <1>4, <1>6, TwoFills

(* A private match keeps the total.                                        *)
LEMMA PrivateBalance ==
    ASSUME position \in [Traders -> PositionT], NEW side \in Sides,
           NEW t \in Traders, NEW cp \in Traders, NEW size \in Nat
    PROVE  NetTotal(PrivatePositions(side, t, cp, size)) = NetTotal(position)
<1>. DEFINE other == Opposite(side)
            given == [position EXCEPT ![cp] = UpdatePosition(@, other, size)]
            new == [given EXCEPT ![t] = UpdatePosition(@, side, size)]
<1>1. PrivatePositions(side, t, cp, size) = new
  BY DEF PrivatePositions
<1>2. other \in Sides /\ side = Opposite(other)
  BY DEF Opposite, Sides
<1>. HIDE DEF other
<1>3. Filled(position, given, cp, other, size)
  BY <1>2, FilledRow
<1>4. given \in [Traders -> PositionT]
  BY <1>3 DEF Filled
<1>. HIDE DEF given
<1>5. Filled(given, new, t, Opposite(other), size)
  BY <1>2, <1>4, FilledRow
<1>. HIDE DEF new
<1>. QED
  BY <1>1, <1>2, <1>3, <1>5, TwoFills

(* Every step keeps the total.                                             *)
LEMMA NextOpenInterest ==
    ASSUME IInv, OpenInterestInv, [Next]_vars
    PROVE  OpenInterestInv'
<1>1. TypeOK
  BY DEF IInv
<1>2. ASSUME UNCHANGED position, Running' => Running /\ saved' = saved
      PROVE  OpenInterestInv'
  BY <1>2 DEF OpenInterestInv
<1>3. ASSUME UNCHANGED position, NEW rows, Savepoint(rows)
      PROVE  OpenInterestInv'
  BY <1>3 DEF OpenInterestInv, Savepoint
<1>4. ASSUME NEW o \in Orders, NEW t \in Traders, NEW ty, NEW tif, NEW side,
             NEW price, NEW size, NEW liq,
             Create(o, t, ty, tif, side, price, size, liq)
      PROVE  OpenInterestInv'
  BY <1>3, <1>4 DEF Create
<1>5. ASSUME NEW o \in Orders, NEW t \in Traders, NEW cp \in Traders, NEW ty,
             NEW side \in Sides, NEW price, NEW size \in Sizes,
             CreatePrivate(o, t, ty, side, price, size, cp)
      PROVE  OpenInterestInv'
  <2>1. position' = PrivatePositions(side, t, cp, size) /\ ~Running'
    BY <1>5 DEF CreatePrivate, Running
  <2>2. size \in Nat
    BY ConstantAssumption
  <2>. QED
    BY <1>1, <2>1, <2>2, PrivateBalance DEF OpenInterestInv, TypeOK
<1>6. ASSUME NEW o, NEW row, NEW accepted, CanStart,
             PlaceOrReject(o, row, accepted)
      PROVE  OpenInterestInv'
  BY <1>2, <1>6 DEF PlaceOrReject, CommitAtOnce, CanStart, Running
<1>7. ASSUME NEW m \in Orders, Fill(m)
      PROVE  OpenInterestInv'
  <2>. DEFINE e == ob[m]
              q == FillSize(e, task.left)
  <2>1. e \in EntryT /\ Taker \in OrderT /\ task.left \in Nat
    BY <1>1, <1>7 DEF Fill, IsBest, IInv, TakerRow, Running, TypeOK, Taker, TaskT
  <2>2. e.trader \in Traders /\ Taker.profile \in Traders /\ q \in Nat
    BY <2>1 DEF EntryT, OrderT, FillSize
  <2>3. /\ position' = FillPositions(Taker.side, Taker.profile, e.trader, q)
        /\ Running /\ saved' = saved
    BY <1>7 DEF Fill, Running
  <2>. QED
    BY <1>1, <2>2, <2>3, FillPositionsBalance DEF OpenInterestInv, TypeOK
<1>8. ASSUME Rest \/ Commit
      PROVE  OpenInterestInv'
  BY <1>2, <1>8 DEF Rest, Commit, NoTask, Running
<1>9. ASSUME Abort
      PROVE  OpenInterestInv'
  BY <1>9 DEF Abort, Rollback, NoTask, Running, OpenInterestInv
<1>10. ASSUME NEW o, Cancel(o) \/ CancelNext(o)
       PROVE  OpenInterestInv'
  BY <1>2, <1>10 DEF Cancel, CancelNext, CanStart, CommitAtOnce, Running
<1>11. ASSUME CancelAllDone
       PROVE  OpenInterestInv'
  BY <1>2, <1>11 DEF CancelAllDone, NoTask, Running, db
<1>19. ASSUME NEW t, CancelAll(t)
       PROVE  OpenInterestInv'
  BY <1>2, <1>19 DEF CancelAll, NoTask, Running, db
<1>12. ASSUME NEW o, NEW price, NEW trigger, NEW n,
              AmendDependent(o, price, trigger, n) \/ AmendStop(o, price, trigger, n)
       PROVE  OpenInterestInv'
  BY <1>2, <1>12 DEF AmendDependent, AmendStop, CanStart, CommitAtOnce, Running
<1>13. ASSUME NEW o, NEW price, NEW size,
              AmendSize(o, size) \/ AmendPrice(o, price, size)
       PROVE  OpenInterestInv'
  BY <1>2, <1>3, <1>13 DEF AmendSize, AmendPrice, CanStart, CommitAtOnce, Running
<1>14. ASSUME NEW o, Execute(o) \/ ExecuteRejected(o) \/ ExecuteNotMet(o)
       PROVE  OpenInterestInv'
  BY <1>2, <1>3, <1>14
  DEF Execute, ExecuteRejected, ExecuteNotMet, CanStart, CommitAtOnce, Running, db
<1>15. ASSUME NEW t \in Traders, NEW size \in LiquidationSizes, Takeover(t, size)
       PROVE  OpenInterestInv'
  <2>1. position' = FillPositions(position[t].side, Insurance, t, size) /\ ~Running'
    BY <1>15 DEF Takeover, TakeoverPositions, Running
  <2>2. size \in Nat /\ Insurance \in Traders
    BY ConstantAssumption
  <2>. QED
    BY <1>1, <2>1, <2>2, FillPositionsBalance DEF OpenInterestInv, TypeOK
<1>16. ASSUME NEW f, UpdateFairPrice(f)
       PROVE  OpenInterestInv'
  BY <1>2, <1>16 DEF UpdateFairPrice, Running, db
<1>17. ASSUME UNCHANGED vars
       PROVE  OpenInterestInv'
  BY <1>2, <1>17 DEF vars, Running
<1>18. CASE Next
  BY <1>4, <1>5, <1>6, <1>7, <1>8, <1>9, <1>10, <1>11, <1>12, <1>13, <1>14,
     <1>15, <1>16, <1>18, <1>19
  DEF Next, LiquidateSell, CreateDependent, CreateStop
<1>. QED
  BY <1>17, <1>18

(* Every long unit has a short unit: matching, private matching and        *)
(* takeovers move net positions in pairs, a rollback undoes both sides     *)
(* (_fill, _fill_wf3, _private_match).                                     *)
THEOREM OpenInterestStaysBalanced == Spec => []OpenInterestBalanced
<1>1. Init => OpenInterestInv
  BY DEF Init, OldPositions, OpenInterestInv, NoTask, Running
<1>2. IInv /\ OpenInterestInv /\ [Next]_vars => OpenInterestInv'
  BY NextOpenInterest
<1>3. OpenInterestInv => OpenInterestBalanced
  BY DEF OpenInterestInv, OpenInterestBalanced
<1>. QED
  BY <1>1, <1>2, <1>3, Invariance, PTL DEF Spec
-----------------------------------------------------------------------------
(* Times in force                                                          *)

(* Which types of order have a time in force.                              *)
TypedRow(row) ==
    /\ row.tif # "gtc" => row.type \in ImmediateTypes
    /\ row.tif = "post_only" => row.type = "limit"

(* What the time in force says of a row when no task runs on it.           *)
HonouredRow(row, f) ==
    /\ TypedRow(row)
    /\ row.tif = "fok" => \/ row.status = "closed" /\ row.filled = row.initial
                          \/ row.status = "rejected"
    /\ row.tif = "ioc" => row.status # "open"
    /\ row.tif = "post_only" => f.taker = 0
    /\ row.status = "placed" => row.tif = "gtc"

Honoured(rows, f, o) ==
    IF rows[o] = Nil THEN f[o].taker = 0 ELSE HonouredRow(rows[o], f[o])

(* The taker of a running task: what it took is what it lost of its size,  *)
(* only a new order can be fill-or-kill or immediate-or-cancel.            *)
TakerHonest ==
    LET row  == order[task.oid]
        old  == saved.order[task.oid]
    IN  /\ TypedRow(row)
        /\ row.tif = old.tif /\ row.type = old.type
        /\ task.left <= row.initial
        /\ task.pc = "match" => row.size = row.initial
        /\ fills[task.oid].taker
              = saved.fills[task.oid].taker + (row.initial - task.left)
        /\ task.kind = "create" =>
              /\ old.status = "open"
              /\ saved.fills[task.oid].taker = 0
              /\ row.filled = IF task.pc = "match" THEN 0
                                                   ELSE row.initial - task.left
        /\ task.kind # "create" => row.tif \notin {"fok", "ioc"}

TifInv ==
    /\ \A o \in Orders : ~(Running /\ o = task.oid) => Honoured(order, fills, o)
    /\ Running =>
          /\ TakerHonest
          /\ \A o \in Orders :
                ~(task.kind = "create" /\ o = task.oid) =>
                   Honoured(saved.order, saved.fills, o)

(* Rows keep what an update or a cancellation leaves alone.                *)
LEMMA KeptFields ==
    ASSUME NEW row \in OrderT, NEW n \in Nat, n <= row.size, NEW s \in Statuses
    PROVE  /\ Updated(row, n).tif = row.tif /\ Updated(row, n).type = row.type
           /\ Updated(row, n).initial = row.initial
           /\ WithStatus(row, s).tif = row.tif /\ WithStatus(row, s).type = row.type
           /\ WithStatus(row, s).initial = row.initial
BY DEF Updated, WithStatus, OrderT

(* An order that waits or rests may be canceled or rejected.               *)
LEMMA WithdrawnHonoured ==
    ASSUME NEW row \in OrderT, NEW f, HonouredRow(row, f),
           row.status \in {"placed", "open"}, NEW s \in {"canceled", "rejected"}
    PROVE  HonouredRow(WithStatus(row, s), f)
<1>1. s \in Statuses
  BY DEF Statuses
<1>2. /\ WithStatus(row, s).tif = row.tif /\ WithStatus(row, s).type = row.type
      /\ WithStatus(row, s).status = s
  BY <1>1 DEF WithStatus, OrderT
<1>. QED
  BY <1>2 DEF HonouredRow, TypedRow

(* A step that edits one row while no task matches.                        *)
LEMMA OneRowHonoured ==
    ASSUME TypeOK, TifInv, ~Running, ~Running', NEW o \in Orders,
           NEW row \in OrderT, order' = [order EXCEPT ![o] = row],
           UNCHANGED fills, HonouredRow(row, fills[o])
    PROVE  TifInv'
<1>1. order'[o] = row /\ row # Nil
  BY NotNil DEF TypeOK
<1>2. \A x \in Orders : x # o => order'[x] = order[x]
  BY DEF TypeOK
<1>. QED
  BY <1>1, <1>2 DEF TifInv, Honoured

(* A step that leaves orders and fills alone and starts nothing.           *)
LEMMA NoRowHonoured ==
    ASSUME TifInv, ~Running, ~Running', UNCHANGED <<order, fills>>
    PROVE  TifInv'
BY DEF TifInv, Honoured

(* Canceling stale orders changes waiting orders only.                     *)
LEMMA StaleHonoured ==
    ASSUME NEW rows \in [Orders -> OrderT \cup {Nil}], NEW positions,
           NEW changed, NEW f, \A o \in Orders : Honoured(rows, f, o)
    PROVE  \A o \in Orders : Honoured(CancelStale(rows, positions, changed), f, o)
<1>. SUFFICES ASSUME NEW o \in Orders
              PROVE  Honoured(CancelStale(rows, positions, changed), f, o)
  OBVIOUS
<1>. DEFINE after == CancelStale(rows, positions, changed)
<1>1. \/ after[o] = rows[o]
      \/ /\ rows[o] # Nil /\ rows[o].status = "placed"
         /\ after[o] = WithStatus(rows[o], "canceled")
  BY DEF CancelStale
<1>. HIDE DEF after
<1>2. CASE after[o] = rows[o]
  BY <1>2 DEF Honoured, after
<1>3. CASE /\ rows[o] # Nil /\ rows[o].status = "placed"
           /\ after[o] = WithStatus(rows[o], "canceled")
  <2>1. rows[o] \in OrderT /\ HonouredRow(rows[o], f[o])
    BY <1>3 DEF Honoured
  <2>2. HonouredRow(after[o], f[o]) /\ after[o] \in OrderT
    BY <1>3, <2>1, WithdrawnHonoured, StatusRow DEF Statuses
  <2>3. after[o] # Nil
    BY <2>2, NotNil
  <2>. QED
    BY <2>2, <2>3 DEF Honoured, after
<1>. QED
  BY <1>1, <1>2, <1>3

(* A new order that is matched.                                            *)
LEMMA CreateTif ==
    ASSUME IInv, TifInv, NEW o \in Orders, NEW t \in Traders,
           NEW ty \in ImmediateTypes, NEW tif \in AllTimesInForce,
           NEW side \in Sides, NEW price \in Prices, NEW size \in Nat, NEW liq,
           Create(o, t, ty, tif, side, price, size, liq)
    PROVE  TifInv'
<1>. DEFINE row == NewOrder(t, ty, tif, side, "open", price, 0, 0, size)
<1>1. /\ TypeOK /\ ~Running /\ order[o] = Nil
      /\ ty = "market" => tif # "post_only"
  BY DEF IInv, Create, CanStart, Running, Exists
<1>2. /\ row.type = ty /\ row.tif = tif /\ row.size = size /\ row.initial = size
      /\ row.filled = 0 /\ row.status = "open"
  BY DEF NewOrder
<1>3. row # Nil
  <2>1. /\ ty \in AllTypes /\ price \in AllPrices /\ 0 \in AllPrices
        /\ "open" \in Statuses /\ 0 \in 0..100
    BY PricesNat DEF AllTypes, AllPrices, Statuses
  <2>2. row \in OrderT
    BY <2>1, NewRow
  <2>. QED
    BY <2>2, NotNil
<1>4. /\ order' = [order EXCEPT ![o] = row] /\ saved'.order = order'
      /\ saved'.fills = fills /\ UNCHANGED fills
      /\ task'.pc = "match" /\ task'.kind = "create" /\ task'.oid = o
      /\ task'.left = size
  BY DEF Create, Savepoint, StartMatch
<1>. HIDE DEF row
<1>5. order'[o] = row /\ \A x \in Orders : x # o => order'[x] = order[x]
  BY <1>1, <1>4 DEF TypeOK
<1>6. \A x \in Orders : x # o => Honoured(order', fills', x)
  BY <1>1, <1>4, <1>5 DEF TifInv, Honoured
<1>7. fills[o].taker = 0
  BY <1>1 DEF TifInv, Honoured
<1>8. TypedRow(row)
  BY <1>1, <1>2 DEF TypedRow, ImmediateTypes
<1>9. TakerHonest'
  BY <1>2, <1>4, <1>5, <1>7, <1>8 DEF TakerHonest
<1>. QED
  BY <1>4, <1>6, <1>9 DEF TifInv, Honoured, Running

(* A private match closes a gtc order.                                     *)
LEMMA CreatePrivateTif ==
    ASSUME IInv, TifInv, NEW o \in Orders, NEW t \in Traders, NEW cp,
           NEW side \in Sides, NEW price \in Prices, NEW size \in Sizes,
           NEW ty \in OrderTypes \cap ImmediateTypes,
           CreatePrivate(o, t, ty, side, price, size, cp)
    PROVE  TifInv'
<1>. DEFINE row == NewOrder(t, ty, "gtc", side, "open", price, 0, 0, size)
            new == Updated(row, 0)
            rows == [order EXCEPT ![o] = new]
<1>1. TypeOK /\ ~Running /\ ~Running' /\ order[o] = Nil
  BY DEF IInv, CreatePrivate, Exists, Running
<1>2. row \in OrderT /\ row.tif = "gtc"
  <2>1. /\ ty \in AllTypes /\ price \in AllPrices /\ 0 \in AllPrices
        /\ size \in Nat /\ 0 \in 0..100
    BY ConstantAssumption, PricesNat DEF AllTypes, AllPrices
  <2>. QED
    BY <2>1 DEF NewOrder, OrderT, AllTimesInForce, Statuses
<1>. HIDE DEF row
<1>3. row.size \in Nat
  BY <1>2 DEF OrderT
<1>4. /\ new \in OrderT /\ new.tif = "gtc" /\ new # Nil
      /\ new.status = "closed"
  BY <1>2, <1>3, UpdatedRow, KeptFields, NotNil DEF Statuses
<1>5. /\ order' = CancelStale(rows, position', {t, cp})
      /\ fills' = [fills EXCEPT ![o].taker = @ + size]
  BY DEF CreatePrivate, row
<1>. HIDE DEF new
<1>6. /\ rows \in [Orders -> OrderT \cup {Nil}] /\ rows[o] = new
      /\ \A x \in Orders : x # o => rows[x] = order[x] /\ fills'[x] = fills[x]
  BY <1>1, <1>4, <1>5 DEF TypeOK
<1>. HIDE DEF rows
<1>7. \A x \in Orders : Honoured(rows, fills', x)
  BY <1>1, <1>4, <1>6 DEF TifInv, Honoured, HonouredRow, TypedRow
<1>8. \A x \in Orders : Honoured(order', fills', x)
  BY <1>5, <1>6, <1>7, StaleHonoured
<1>. QED
  BY <1>1, <1>8 DEF TifInv

(* A conditional order is good till canceled.                              *)
LEMMA PlaceTif ==
    ASSUME IInv, TifInv, CanStart, NEW o \in Orders, NEW row \in OrderT,
           row.status = "placed", row.tif = "gtc", NEW accepted,
           PlaceOrReject(o, row, accepted)
    PROVE  TifInv'
<1>. DEFINE new == IF accepted THEN row ELSE WithStatus(row, "rejected")
<1>1. /\ TypeOK /\ ~Running /\ ~Running'
      /\ order' = [order EXCEPT ![o] = new] /\ UNCHANGED fills
  BY DEF IInv, PlaceOrReject, CommitAtOnce, CanStart, Running
<1>2. HonouredRow(row, fills[o])
  BY DEF HonouredRow, TypedRow
<1>3. new \in OrderT /\ HonouredRow(new, fills[o])
  BY <1>2, StatusRow, WithdrawnHonoured DEF Statuses
<1>. HIDE DEF new
<1>. QED
  BY <1>1, <1>3, OneRowHonoured

(* An iteration of the loop: the maker rests, so it may rest.              *)
LEMMA FillTif ==
    ASSUME IInv, TifInv, NEW m \in Orders, Fill(m)
    PROVE  TifInv'
<1>. DEFINE e == ob[m]
            q == FillSize(e, task.left)
            rest == e.size - q
            new == Updated(order[m], rest)
            o == task.oid
<1>1. /\ TypeOK /\ Running /\ task.pc = "match" /\ o \in Orders
      /\ ob[o] = Nil /\ e # Nil /\ order[o] # Nil /\ saved \in SavedT
  BY DEF IInv, TakerRow, Fill, IsBest, Running
<1>2. /\ e \in EntryT /\ e.size \in Nat /\ task.left \in Nat
      /\ order[m] \in OrderT /\ order[m].status = "open"
      /\ e.size = order[m].size
  BY <1>1 DEF TypeOK, EntryT, TaskT, IInv, BookRows, EntryRow
<1>3. q \in Nat /\ q <= e.size /\ q <= task.left /\ rest \in Nat /\ rest <= e.size
  BY <1>2 DEF FillSize
<1>4. /\ order' = [order EXCEPT ![m] = new]
      /\ fills' = [fills EXCEPT ![m].maker = @ + q, ![o].taker = @ + q]
      /\ task' = [task EXCEPT !.left = @ - q]
      /\ UNCHANGED saved
  BY DEF Fill, UpdateEntry
<1>. HIDE DEF q, rest
<1>5. /\ new \in OrderT /\ new.tif = order[m].tif /\ new.type = order[m].type
      /\ new.status \in {"open", "closed"}
  BY <1>2, <1>3, UpdatedRow, KeptFields DEF Statuses
<1>. HIDE DEF new
<1>6. m # o
  BY <1>1
<1>7. /\ order'[m] = new /\ new # Nil
      /\ \A x \in Orders : x # m => order'[x] = order[x]
  BY <1>1, <1>4, <1>5, NotNil DEF TypeOK
<1>8. /\ fills'[m].taker = fills[m].taker
      /\ fills'[o].taker = fills[o].taker + q
      /\ \A x \in Orders : x # m /\ x # o => fills'[x] = fills[x]
  BY <1>1, <1>4, <1>6 DEF TypeOK, FillT
<1>9. /\ task'.left = task.left - q /\ task'.pc = "match" /\ task'.oid = o
      /\ task'.kind = task.kind /\ Running'
  BY <1>1, <1>4 DEF TypeOK, TaskT, Running
<1>10. HonouredRow(order[m], fills[m])
  BY <1>1, <1>2, <1>6, NotNil DEF TifInv, Honoured
<1>11. HonouredRow(new, fills'[m])
  BY <1>2, <1>5, <1>8, <1>10 DEF HonouredRow, TypedRow
<1>12. \A x \in Orders : x # o => Honoured(order', fills', x)
  BY <1>1, <1>7, <1>8, <1>11 DEF TifInv, Honoured
<1>13. TakerHonest'
  <2>1. TakerHonest
    BY <1>1 DEF TifInv
  <2>2. order'[o] = order[o]
    BY <1>1, <1>6, <1>7
  <2>3. /\ order[o].initial \in Nat /\ fills[o].taker \in Nat
        /\ saved.fills[o].taker \in Nat
    BY <1>1 DEF TypeOK, OrderT, FillT, SavedT
  <2>4. fills'[o].taker
          = saved.fills[o].taker + (order[o].initial - (task.left - q))
    BY <1>1, <1>2, <1>3, <1>8, <2>1, <2>3 DEF TakerHonest
  <2>5. task.left - q <= order[o].initial
    BY <1>2, <1>3, <2>1, <2>3 DEF TakerHonest
  <2>. QED
    BY <1>1, <1>4, <1>9, <2>1, <2>2, <2>4, <2>5 DEF TakerHonest
<1>. QED
  BY <1>1, <1>4, <1>9, <1>12, <1>13 DEF TifInv, Honoured

(* The taker's row catches up with what was matched.                       *)
LEMMA RestTif ==
    ASSUME IInv, TifInv, Rest
    PROVE  TifInv'
<1>. DEFINE o == task.oid
            new == Updated(order[o], task.left)
<1>1. /\ TypeOK /\ Running /\ task.pc = "match" /\ o \in Orders
      /\ order[o] # Nil /\ task.left <= order[o].size
  BY DEF IInv, TakerRow, Rest, Running
<1>2. /\ order[o] \in OrderT /\ task.left \in Nat
      /\ order[o].size \in Nat /\ order[o].filled \in Nat
  BY <1>1 DEF TypeOK, TaskT, OrderT
<1>3. /\ order' = [order EXCEPT ![o] = new] /\ UNCHANGED <<fills, saved>>
      /\ task'.pc = "finish" /\ task'.oid = o /\ task'.kind = task.kind
      /\ task'.left = task.left
  BY <1>1 DEF Rest, TypeOK, TaskT
<1>4. /\ new.tif = order[o].tif /\ new.type = order[o].type
      /\ new.initial = order[o].initial
      /\ new.filled = order[o].filled + (order[o].size - task.left)
  BY <1>1, <1>2, UpdatedRow, KeptFields DEF Statuses
<1>. HIDE DEF new
<1>5. order'[o] = new /\ \A x \in Orders : x # o => order'[x] = order[x]
  BY <1>1, <1>3 DEF TypeOK
<1>6. TakerHonest
  BY <1>1 DEF TifInv
<1>7. TakerHonest'
  <2>1. TypedRow(new)
    BY <1>4, <1>6 DEF TakerHonest, TypedRow
  <2>2. task.kind = "create" => new.filled = new.initial - task.left
    BY <1>1, <1>2, <1>4, <1>6 DEF TakerHonest
  <2>. QED
    BY <1>3, <1>4, <1>5, <1>6, <2>1, <2>2 DEF TakerHonest
<1>8. \A x \in Orders : x # o => Honoured(order', fills', x)
  BY <1>1, <1>3, <1>5 DEF TifInv, Honoured
<1>. QED
  BY <1>1, <1>3, <1>7, <1>8 DEF TifInv, Honoured, Running

(* What post_execute lets through honours the time in force.               *)
LEMMA CommitTif ==
    ASSUME IInv, TifInv, Commit
    PROVE  TifInv'
<1>. DEFINE o == task.oid
            drop == DropsRest(Taker, task.left)
            rows == IF drop THEN [order EXCEPT ![o] = WithStatus(@, "canceled")]
                            ELSE order
<1>1. /\ TypeOK /\ Running /\ task.pc = "finish" /\ o \in Orders
      /\ order[o] # Nil /\ ~TifError(order[o], task.left) /\ ~Running'
      /\ order[o].status = IF task.left = 0 THEN "closed" ELSE "open"
  BY DEF IInv, TakerRow, Commit, Running, Taker, NoTask
<1>2. order' = CancelStale(rows, position, touched) /\ UNCHANGED fills
  BY DEF Commit
<1>3. order[o] \in OrderT /\ task.left \in Nat /\ saved \in SavedT
  BY <1>1 DEF TypeOK, TaskT, IInv, TakerRow
<1>4. /\ WithStatus(order[o], "canceled") \in OrderT
      /\ WithStatus(order[o], "canceled").status = "canceled"
      /\ WithStatus(order[o], "canceled").filled = order[o].filled
      /\ WithStatus(order[o], "canceled").tif = order[o].tif
      /\ WithStatus(order[o], "canceled").type = order[o].type
  BY <1>3 DEF WithStatus, OrderT, Statuses
<1>5. drop <=> DropsRest(order[o], task.left)
  BY DEF Taker
<1>. HIDE DEF drop
<1>6. /\ rows \in [Orders -> OrderT \cup {Nil}]
      /\ rows[o] = IF drop THEN WithStatus(order[o], "canceled") ELSE order[o]
      /\ \A x \in Orders : x # o => rows[x] = order[x]
  BY <1>1, <1>4 DEF TypeOK
<1>. HIDE DEF rows
<1>7. /\ order[o].initial \in Nat /\ order[o].filled \in Nat
      /\ fills[o].taker \in Nat /\ saved.fills[o].taker \in Nat
  BY <1>1, <1>3 DEF TypeOK, OrderT, FillT, SavedT
<1>8. TakerHonest
  BY <1>1 DEF TifInv
<1>9. TypedRow(order[o])
  BY <1>8 DEF TakerHonest
<1>10. order[o].tif = "fok" =>
          order[o].status = "closed" /\ order[o].filled = order[o].initial
  BY <1>1, <1>7, <1>8, <1>9 DEF TakerHonest, TypedRow, TifError
<1>11. order[o].tif = "ioc" => order[o].status # "open" \/ drop
  BY <1>1, <1>3, <1>5, <1>7, <1>8, <1>9 DEF TakerHonest, TypedRow, TifError, DropsRest
<1>12. order[o].tif = "post_only" => fills[o].taker = 0
  <2>. SUFFICES ASSUME order[o].tif = "post_only" PROVE fills[o].taker = 0
    OBVIOUS
  <2>1. task.left = order[o].initial
    BY <1>1, <1>9 DEF TypedRow, TifError, ImmediateTypes
  <2>2. fills[o].taker = saved.fills[o].taker
    BY <1>7, <1>8, <2>1 DEF TakerHonest
  <2>3. CASE task.kind = "create"
    BY <1>8, <2>2, <2>3 DEF TakerHonest
  <2>4. CASE task.kind # "create"
    <3>1. saved.order[o] # Nil /\ saved.order[o].tif = "post_only"
      BY <1>1, <1>8 DEF TakerHonest, IInv, SavedRows
    <3>2. Honoured(saved.order, saved.fills, o)
      BY <1>1, <2>4 DEF TifInv
    <3>. QED
      BY <2>2, <3>1, <3>2 DEF Honoured, HonouredRow
  <2>. QED
    BY <2>3, <2>4
<1>13. drop => order[o].tif = "ioc"
  BY <1>5 DEF DropsRest
<1>14. order[o].status # "placed"
  BY <1>1
<1>15. HonouredRow(rows[o], fills[o]) /\ rows[o] # Nil
  BY <1>1, <1>3, <1>4, <1>6, <1>9, <1>10, <1>11, <1>12, <1>13, <1>14, NotNil
  DEF HonouredRow, TypedRow
<1>16. \A x \in Orders : Honoured(rows, fills, x)
  BY <1>1, <1>6, <1>15 DEF TifInv, Honoured
<1>17. \A x \in Orders : Honoured(order', fills', x)
  BY <1>2, <1>6, <1>16, StaleHonoured
<1>. QED
  BY <1>1, <1>17 DEF TifInv

(* A rollback brings back orders that honoured it; a rejected order does.  *)
LEMMA AbortTif ==
    ASSUME IInv, TifInv, Abort
    PROVE  TifInv'
<1>. DEFINE o == task.oid
            row == WithStatus(saved.order[o], "rejected")
<1>1. /\ Running /\ ~Running' /\ o \in Orders /\ saved \in SavedT
      /\ saved.order[o] # Nil
  BY DEF IInv, TakerRow, SavedRows, Abort, Running, NoTask
<1>2. fills' = saved.fills
  BY DEF Abort, Rollback
<1>3. CASE task.kind = "amend"
  <2>1. order' = saved.order
    BY <1>3 DEF Abort
  <2>. QED
    BY <1>1, <1>2, <1>3, <2>1 DEF TifInv, Honoured
<1>4. CASE task.kind # "amend"
  <2>1. order' = [saved.order EXCEPT ![o] = row]
    BY <1>4 DEF Abort
  <2>2. saved.order[o] \in OrderT
    BY <1>1 DEF SavedT
  <2>3. row \in OrderT /\ row # Nil /\ HonouredRow(row, saved.fills[o])
    <3>1. CASE task.kind = "create"
      <4>1. /\ row \in OrderT /\ row.status = "rejected"
            /\ row.tif = saved.order[o].tif /\ row.type = saved.order[o].type
        BY <2>2 DEF WithStatus, OrderT, Statuses
      <4>2. /\ saved.fills[o].taker = 0 /\ TypedRow(order[o])
            /\ order[o].tif = saved.order[o].tif
        BY <1>1, <3>1 DEF TifInv, TakerHonest
      <4>3. TypedRow(saved.order[o])
        BY <1>1, <4>2 DEF TifInv, TakerHonest, TypedRow
      <4>. QED
        BY <4>1, <4>2, <4>3, NotNil DEF HonouredRow, TypedRow
    <3>2. CASE task.kind # "create"
      <4>1. HonouredRow(saved.order[o], saved.fills[o])
        BY <1>1, <3>2 DEF TifInv, Honoured
      <4>2. saved.order[o].status \in {"placed", "open"}
        BY <1>1, <2>2 DEF IInv, SavedRows, OrderT, Statuses, Final
      <4>. QED
        BY <2>2, <4>1, <4>2, StatusRow, WithdrawnHonoured, NotNil DEF Statuses
    <3>. QED
      BY <3>1, <3>2
  <2>. HIDE DEF row
  <2>4. order'[o] = row /\ \A x \in Orders : x # o => order'[x] = saved.order[x]
    BY <1>1, <2>1 DEF SavedT
  <2>. QED
    BY <1>1, <1>2, <2>3, <2>4 DEF TifInv, Honoured
<1>. QED
  BY <1>3, <1>4

(* A canceled order waited or rested.                                      *)
LEMMA WithdrawTif ==
    ASSUME IInv, TifInv, NEW o \in Orders, Active(o), Withdraw(o),
           ~Running, ~Running', UNCHANGED fills
    PROVE  TifInv'
<1>1. TypeOK /\ order[o] \in OrderT /\ order[o].status \in {"placed", "open"}
  BY DEF IInv, BookRows, EntryRow, Active, HasStatus, TypeOK
<1>2. HonouredRow(order[o], fills[o])
  BY <1>1, NotNil DEF TifInv, Honoured
<1>. DEFINE row == WithStatus(order[o], "canceled")
<1>3. row \in OrderT /\ HonouredRow(row, fills[o])
  BY <1>1, <1>2, StatusRow, WithdrawnHonoured DEF Statuses
<1>4. order' = [order EXCEPT ![o] = row]
  BY DEF Withdraw
<1>. HIDE DEF row
<1>. QED
  BY <1>1, <1>3, <1>4, OneRowHonoured

(* A resting order of another size may rest.                               *)
LEMMA AmendSizeTif ==
    ASSUME IInv, TifInv, NEW o \in Orders, NEW size \in Sizes,
           AmendSize(o, size)
    PROVE  TifInv'
<1>. DEFINE row == [order[o] EXCEPT !.price = order[o].price, !.size = size,
                                    !.initial = size, !.status = "open"]
<1>1. /\ TypeOK /\ ~Running /\ ~Running' /\ UNCHANGED fills
      /\ order[o] \in OrderT /\ order[o].status = "open" /\ size \in Nat
  BY ConstantAssumption
  DEF IInv, BookRows, EntryRow, AmendSize, CanStart, CommitAtOnce, Running, TypeOK
<1>2. /\ row \in OrderT /\ row.tif = order[o].tif /\ row.type = order[o].type
      /\ row.status = "open"
  BY <1>1 DEF OrderT, Statuses
<1>3. order' = [order EXCEPT ![o] = row]
  BY DEF AmendSize
<1>4. HonouredRow(order[o], fills[o])
  BY <1>1, NotNil DEF TifInv, Honoured
<1>. HIDE DEF row
<1>5. HonouredRow(row, fills[o])
  BY <1>1, <1>2, <1>4 DEF HonouredRow, TypedRow
<1>. QED
  BY <1>1, <1>2, <1>3, <1>5, OneRowHonoured

(* A task that matches an order again which honours its time in force.     *)
LEMMA RestartTif ==
    ASSUME IInv, TifInv, ~Running, NEW o \in Orders, NEW row \in OrderT,
           NEW kind \in {"amend", "execute"}, NEW changed,
           order[o] # Nil, order[o].tif \notin {"fok", "ioc"},
           order' = [order EXCEPT ![o] = row],
           row.tif = order[o].tif, row.type = order[o].type,
           row.size = row.initial,
           UNCHANGED fills, Savepoint(order),
           StartMatch(kind, o, row.size, FALSE, changed)
    PROVE  TifInv'
<1>1. TypeOK
  BY DEF IInv
<1>2. /\ saved'.order = order /\ saved'.fills = fills
      /\ task'.pc = "match" /\ task'.kind = kind /\ task'.oid = o
      /\ task'.left = row.size
  BY DEF Savepoint, StartMatch
<1>3. order'[o] = row /\ \A x \in Orders : x # o => order'[x] = order[x]
  BY <1>1 DEF TypeOK
<1>4. \A x \in Orders : Honoured(order, fills, x)
  BY DEF TifInv
<1>5. row.initial \in Nat /\ fills[o].taker \in Nat
  BY <1>1 DEF OrderT, TypeOK, FillT
<1>6. TypedRow(row)
  BY <1>4 DEF Honoured, HonouredRow, TypedRow
<1>7. TakerHonest'
  BY <1>2, <1>3, <1>5, <1>6 DEF TakerHonest
<1>8. \A x \in Orders : x # o => Honoured(order', fills', x)
  BY <1>3, <1>4 DEF Honoured
<1>9. \A x \in Orders : Honoured(saved'.order, saved'.fills, x)
  BY <1>2, <1>4 DEF Honoured
<1>. QED
  BY <1>2, <1>7, <1>8, <1>9 DEF TifInv, Running

(* A resting order of another price is matched again.                      *)
LEMMA AmendPriceTif ==
    ASSUME IInv, TifInv, NEW o \in Orders, NEW price \in Prices,
           NEW size \in Sizes, AmendPrice(o, price, size)
    PROVE  TifInv'
<1>. DEFINE row == [order[o] EXCEPT !.price = price, !.size = size,
                                    !.initial = size, !.status = "open"]
<1>1. /\ TypeOK /\ ~Running /\ UNCHANGED fills
      /\ order[o] \in OrderT /\ order[o].status = "open" /\ size \in Nat
      /\ price \in AllPrices
  BY ConstantAssumption, PricesNat
  DEF IInv, BookRows, EntryRow, AmendPrice, CanStart, Running, TypeOK
<1>2. /\ row \in OrderT /\ row.tif = order[o].tif /\ row.type = order[o].type
      /\ row.size = size /\ row.initial = size
  BY <1>1 DEF OrderT, Statuses
<1>3. /\ order' = [order EXCEPT ![o] = row] /\ Savepoint(order)
      /\ StartMatch("amend", o, size, FALSE, {})
  BY DEF AmendPrice
<1>4. HonouredRow(order[o], fills[o]) /\ order[o] # Nil
  BY <1>1, NotNil DEF TifInv, Honoured
<1>. HIDE DEF row
<1>5. order[o].tif \notin {"fok", "ioc"}
  BY <1>1, <1>4 DEF HonouredRow
<1>. QED
  BY <1>1, <1>2, <1>3, <1>4, <1>5, RestartTif

(* A conditional order is matched when its trigger is met.                 *)
LEMMA ExecuteTif ==
    ASSUME IInv, TifInv, NEW o \in Orders, Execute(o)
    PROVE  TifInv'
<1>. DEFINE row == OpenedRow(order[o], position[order[o].profile])
<1>1. /\ TypeOK /\ ~Running /\ UNCHANGED fills
      /\ order[o] \in OrderT /\ order[o].status = "placed"
      /\ order[o].type \in AllTypes
  BY DEF IInv, Execute, IsTriggered, HasStatus, CanStart, Running, TypeOK, OrderT
<1>2. order[o] # Nil /\ order[o].tif = "gtc"
  BY <1>1, NotNil DEF TifInv, Honoured, HonouredRow
<1>3. /\ order' = [order EXCEPT ![o] = row] /\ Savepoint(order)
      /\ StartMatch("execute", o, row.size, FALSE, {order[o].profile})
  BY DEF Execute
<1>4. row \in OrderT
  <2>1. position[order[o].profile] \in PositionT /\ fair \in FairPrices
    BY <1>1 DEF TypeOK, OrderT
  <2>. QED
    BY <1>1, <2>1, OpenedType
<1>5. /\ row.tif = order[o].tif /\ row.type = order[o].type
      /\ row.size = row.initial
  BY <1>1 DEF OpenedRow, OrderT
<1>. HIDE DEF row
<1>. QED
  BY <1>1, <1>2, <1>3, <1>4, <1>5, RestartTif

(* A waiting order is amended or rejected.                                 *)
LEMMA WaitingTif ==
    ASSUME IInv, TifInv, NEW o \in Orders, HasStatus(o, "placed"),
           ~Running, ~Running', NEW row \in OrderT,
           row.tif = order[o].tif, row.type = order[o].type,
           row.status \in {"placed", "rejected"},
           order' = [order EXCEPT ![o] = row], UNCHANGED fills
    PROVE  TifInv'
<1>1. HonouredRow(order[o], fills[o]) /\ TypeOK
  BY DEF IInv, TifInv, Honoured, HasStatus
<1>2. HonouredRow(row, fills[o])
  BY <1>1 DEF HonouredRow, TypedRow, HasStatus
<1>. QED
  BY <1>1, <1>2, OneRowHonoured

(* Every step keeps what the times in force ask for.                       *)
LEMMA NextTif ==
    ASSUME IInv, TifInv, [Next]_vars
    PROVE  TifInv'
<1>. USE ConstantAssumption
<1>1. TypeOK
  BY DEF IInv
<1>2. ASSUME NEW o \in Orders, NEW t \in Traders, NEW tif \in TimesInForce,
             NEW side \in Sides, NEW price \in Prices, NEW size \in Sizes,
             NEW ty \in OrderTypes \cap ImmediateTypes,
             Create(o, t, ty, tif, side, price, size, FALSE)
      PROVE  TifInv'
  BY <1>2, CreateTif
<1>3. ASSUME NEW o \in Orders, NEW t \in Traders, NEW price \in Prices,
             NEW size \in LiquidationSizes, LiquidateSell(o, t, price, size)
      PROVE  TifInv'
  <2>1. /\ "limit" \in ImmediateTypes /\ "gtc" \in AllTimesInForce
        /\ Opposite(position[t].side) \in Sides /\ size \in Nat
    BY <1>1, OppositeType DEF ImmediateTypes, AllTimesInForce, TypeOK, PositionT
  <2>. QED
    BY <1>3, <2>1, CreateTif DEF LiquidateSell
<1>4. ASSUME NEW o \in Orders, NEW t \in Traders,
             NEW ty \in OrderTypes \cap DependentTypes, NEW price \in Prices,
             NEW trigger \in Prices, NEW percent \in Percents,
             CreateDependent(o, t, ty, price, trigger, percent)
      PROVE  TifInv'
  <2>. DEFINE row == NewOrder(t, ty, "gtc", Opposite(position[t].side), "placed",
                              IF ty \in LimitTypes THEN price ELSE 0,
                              trigger, percent, 0)
  <2>1. /\ ty \in AllTypes /\ Opposite(position[t].side) \in Sides
        /\ (IF ty \in LimitTypes THEN price ELSE 0) \in AllPrices
        /\ trigger \in AllPrices /\ percent \in 0..100
        /\ "gtc" \in AllTimesInForce /\ "placed" \in Statuses /\ 0 \in Nat
    BY <1>1, OppositeType
    DEF TypeOK, PositionT, AllPrices, AllTimesInForce, Statuses
  <2>2. row \in OrderT
    BY <2>1, NewRow
  <2>3. row.status = "placed" /\ row.tif = "gtc"
    BY DEF NewOrder
  <2>4. CanStart /\ PlaceOrReject(o, row, PreCreateDependent(t, ty, price, trigger))
    BY <1>4 DEF CreateDependent
  <2>. HIDE DEF row
  <2>. QED
    BY <2>2, <2>3, <2>4, PlaceTif
<1>5. ASSUME NEW o \in Orders, NEW t \in Traders,
             NEW ty \in OrderTypes \cap StopTypes, NEW side \in Sides,
             NEW price \in Prices, NEW trigger \in Prices, NEW size \in Sizes,
             CreateStop(o, t, ty, side, price, trigger, size)
      PROVE  TifInv'
  <2>. DEFINE row == NewOrder(t, ty, "gtc", side, "placed", price, trigger, 0, size)
  <2>1. /\ ty \in AllTypes /\ price \in AllPrices /\ trigger \in AllPrices
        /\ "gtc" \in AllTimesInForce /\ "placed" \in Statuses
        /\ 0 \in 0..100 /\ size \in Nat
    BY DEF AllPrices, AllTimesInForce, Statuses
  <2>2. row \in OrderT
    BY <2>1, NewRow
  <2>3. row.status = "placed" /\ row.tif = "gtc"
    BY DEF NewOrder
  <2>4. CanStart /\ PlaceOrReject(o, row, PreCreateStop(t, ty, side, price, trigger))
    BY <1>5 DEF CreateStop
  <2>. HIDE DEF row
  <2>. QED
    BY <2>2, <2>3, <2>4, PlaceTif
<1>6. ASSUME NEW o \in Orders, Cancel(o) \/ CancelNext(o)
      PROVE  TifInv'
  BY <1>6, WithdrawTif
  DEF Cancel, CancelNext, Cancellable, Active, CanStart, CommitAtOnce, Running
<1>7. ASSUME NEW t, CancelAll(t)
      PROVE  TifInv'
  BY <1>7, NoRowHonoured DEF CancelAll, CanStart, NoTask, Running, db
<1>8. ASSUME CancelAllDone
      PROVE  TifInv'
  BY <1>8, NoRowHonoured DEF CancelAllDone, NoTask, Running, db
<1>9. ASSUME NEW o \in Orders, NEW price \in Prices, NEW trigger \in Prices,
             NEW percent \in Percents, AmendDependent(o, price, trigger, percent)
      PROVE  TifInv'
  <2>. DEFINE p == IF order[o].type \in LimitTypes THEN price ELSE order[o].price
              row == [order[o] EXCEPT !.trigger = trigger, !.percent = percent,
                                      !.price = p]
  <2>1. order[o] \in OrderT /\ HasStatus(o, "placed") /\ ~Running /\ ~Running'
        /\ UNCHANGED fills /\ order' = [order EXCEPT ![o] = row]
    BY <1>1, <1>9
    DEF AmendDependent, HasStatus, TypeOK, CanStart, CommitAtOnce, Running
  <2>2. p \in AllPrices /\ trigger \in AllPrices /\ percent \in 0..100
    BY <2>1 DEF AllPrices, OrderT
  <2>. HIDE DEF p
  <2>3. /\ row \in OrderT /\ row.tif = order[o].tif /\ row.type = order[o].type
        /\ row.status = order[o].status
    BY <2>1, <2>2 DEF OrderT
  <2>. HIDE DEF row
  <2>. QED
    BY <2>1, <2>3, WaitingTif DEF HasStatus
<1>10. ASSUME NEW o \in Orders, NEW price \in Prices, NEW trigger \in Prices,
              NEW size \in Sizes, AmendStop(o, price, trigger, size)
       PROVE  TifInv'
  <2>. DEFINE p == IF order[o].type \in LimitTypes THEN price ELSE order[o].price
              row == [order[o] EXCEPT !.trigger = trigger, !.size = size,
                                      !.initial = size, !.price = p]
  <2>1. order[o] \in OrderT /\ HasStatus(o, "placed") /\ ~Running /\ ~Running'
        /\ UNCHANGED fills /\ order' = [order EXCEPT ![o] = row]
    BY <1>1, <1>10
    DEF AmendStop, HasStatus, TypeOK, CanStart, CommitAtOnce, Running
  <2>2. p \in AllPrices /\ trigger \in AllPrices /\ size \in Nat
    BY <2>1 DEF AllPrices, OrderT
  <2>. HIDE DEF p
  <2>3. /\ row \in OrderT /\ row.tif = order[o].tif /\ row.type = order[o].type
        /\ row.status = order[o].status
    BY <2>1, <2>2 DEF OrderT
  <2>. HIDE DEF row
  <2>. QED
    BY <2>1, <2>3, WaitingTif DEF HasStatus
<1>11. ASSUME NEW o \in Orders, ExecuteRejected(o)
       PROVE  TifInv'
  <2>1. order[o] \in OrderT /\ HasStatus(o, "placed") /\ ~Running /\ ~Running'
        /\ UNCHANGED fills
        /\ order' = [order EXCEPT ![o] = WithStatus(order[o], "rejected")]
    BY <1>1, <1>11
    DEF ExecuteRejected, IsTriggered, HasStatus, TypeOK, Running
  <2>2. /\ WithStatus(order[o], "rejected") \in OrderT
        /\ WithStatus(order[o], "rejected").tif = order[o].tif
        /\ WithStatus(order[o], "rejected").type = order[o].type
        /\ WithStatus(order[o], "rejected").status = "rejected"
    BY <2>1 DEF WithStatus, OrderT, Statuses
  <2>. QED
    BY <2>1, <2>2, WaitingTif
<1>12. ASSUME NEW o, ExecuteNotMet(o)
       PROVE  TifInv'
  BY <1>12, NoRowHonoured DEF ExecuteNotMet, CanStart, CommitAtOnce, Running, db
<1>13. ASSUME NEW t, NEW size, Takeover(t, size)
       PROVE  TifInv'
  BY <1>13, NoRowHonoured DEF Takeover, Running
<1>14. ASSUME NEW f, UpdateFairPrice(f)
       PROVE  TifInv'
  BY <1>14, NoRowHonoured DEF UpdateFairPrice, Running, db
<1>15. ASSUME UNCHANGED vars
       PROVE  TifInv'
  BY <1>15 DEF vars, TifInv, TakerHonest, Running
<1>16. CASE Next
  BY <1>2, <1>3, <1>4, <1>5, <1>6, <1>7, <1>8, <1>9, <1>10, <1>11, <1>12, <1>13,
     <1>14, <1>16, CreatePrivateTif, FillTif, RestTif, CommitTif, AbortTif,
     AmendSizeTif, AmendPriceTif, ExecuteTif
  DEF Next
<1>. QED
  BY <1>15, <1>16

(* Fill-or-kill trades whole or not at all, immediate-or-cancel never      *)
(* rests and post-only never takes, however the order is matched, amended  *)
(* or rolled back: post_execute sees every order that may break it.        *)
THEOREM TimeInForceKept == Spec => []TimeInForceHonoured
<1>1. Init => TifInv
  BY DEF Init, TifInv, Honoured, NoTask, Running
<1>2. IInv /\ TifInv /\ [Next]_vars => TifInv'
  BY NextTif
<1>3. TifInv => TimeInForceHonoured
  BY DEF TifInv, TimeInForceHonoured, Honoured, HonouredRow, Running
<1>. QED
  BY <1>1, <1>2, <1>3, Invariance, PTL DEF Spec
-----------------------------------------------------------------------------
(* Stale orders                                                            *)

(* Every profile whose position a create or execute task has changed is    *)
(* recorded among those that _post_execute_order looks at, the taker from  *)
(* the start.                                                              *)
TouchedInv ==
    /\ ~Running => task.kind \in {"none", "cancelall"}
    /\ Running => task.kind \in {"create", "execute", "amend"}
    /\ Running /\ task.kind \in {"create", "execute"} =>
          /\ order[task.oid].profile \in touched
          /\ \A t \in Traders :
                position[t] # saved.position[t] => t \in touched

(* Positions change only for those who trade.                              *)
LEMMA OthersKeep ==
    ASSUME position \in [Traders -> PositionT], NEW side, NEW taker, NEW maker,
           NEW q
    PROVE  \A t \in Traders \ {taker, maker} :
              FillPositions(side, taker, maker, q)[t] = position[t]
BY DEF FillPositions

(* An iteration of the loop records the maker.                             *)
LEMMA FillTouched ==
    ASSUME IInv, TouchedInv, NEW m \in Orders, Fill(m)
    PROVE  TouchedInv'
<1>. DEFINE e == ob[m]
            o == task.oid
            q == FillSize(e, task.left)
            row == Updated(order[m], e.size - q)
<1>1. /\ TypeOK /\ Running /\ o \in Orders /\ order[o] # Nil
      /\ ob[o] = Nil /\ e # Nil
  BY DEF IInv, TakerRow, Fill, IsBest, Running
<1>2. /\ order' = [order EXCEPT ![m] = row]
      /\ position' = FillPositions(Taker.side, Taker.profile, e.trader, q)
      /\ touched' = touched \cup {e.trader} /\ saved' = saved
      /\ task' = [task EXCEPT !.left = @ - q]
  BY DEF Fill, UpdateEntry
<1>. HIDE DEF row, q
<1>3. order'[o] = order[o]
  BY <1>1, <1>2 DEF TypeOK
<1>4. task'.oid = o /\ task'.kind = task.kind /\ task'.pc = task.pc
  BY <1>1, <1>2 DEF TypeOK, TaskT
<1>5. \A t \in Traders \ {Taker.profile, e.trader} : position'[t] = position[t]
  BY <1>1, <1>2, OthersKeep DEF TypeOK
<1>. QED
  BY <1>1, <1>2, <1>3, <1>4, <1>5 DEF TouchedInv, Running, Taker

(* Every step keeps the record of changed profiles.                        *)
LEMMA NextTouched ==
    ASSUME IInv, TouchedInv, [Next]_vars
    PROVE  TouchedInv'
<1>1. TypeOK
  BY DEF IInv
<1>2. ASSUME ~Running, ~Running', task' = task
      PROVE  TouchedInv'
  BY <1>2 DEF TouchedInv
<1>3. ASSUME task' = NoTask
      PROVE  TouchedInv'
  BY <1>3 DEF TouchedInv, NoTask, Running
<1>4. ASSUME NEW o \in Orders, NEW t \in Traders, NEW ty, NEW tif, NEW side,
             NEW price, NEW size, NEW liq,
             Create(o, t, ty, tif, side, price, size, liq)
      PROVE  TouchedInv'
  <2>1. order'[o].profile = t
    BY <1>1, <1>4 DEF Create, NewOrder, TypeOK
  <2>2. /\ saved'.position = position /\ position' = position
        /\ touched' = {t} /\ task'.oid = o /\ task'.kind = "create"
        /\ task'.pc = "match"
    BY <1>4 DEF Create, Savepoint, StartMatch
  <2>. QED
    BY <2>1, <2>2 DEF TouchedInv, Running
<1>5. ASSUME NEW o \in Orders, Execute(o)
      PROVE  TouchedInv'
  <2>1. order[o] \in OrderT
    BY <1>1, <1>5 DEF Execute, IsTriggered, HasStatus, TypeOK
  <2>2. order'[o].profile = order[o].profile
    BY <1>1, <1>5, <2>1 DEF Execute, OpenedRow, TypeOK, OrderT
  <2>3. /\ saved'.position = position /\ position' = position
        /\ touched' = {order[o].profile} /\ task'.oid = o
        /\ task'.kind = "execute" /\ task'.pc = "match"
    BY <1>5 DEF Execute, Savepoint, StartMatch
  <2>. QED
    BY <2>2, <2>3 DEF TouchedInv, Running
<1>6. ASSUME NEW o, NEW price, NEW size, AmendPrice(o, price, size)
      PROVE  TouchedInv'
  BY <1>6 DEF AmendPrice, StartMatch, TouchedInv, Running
<1>7. ASSUME Rest
      PROVE  TouchedInv'
  <2>. DEFINE o == task.oid
  <2>1. /\ Running /\ o \in Orders /\ order[o] \in OrderT
        /\ task.left \in Nat /\ task.left <= order[o].size
    BY <1>1, <1>7 DEF IInv, TakerRow, Rest, Running, TypeOK, TaskT
  <2>2. order'[o].profile = order[o].profile
    BY <1>1, <1>7, <2>1, UpdatedRow DEF Rest, TypeOK
  <2>3. /\ task'.oid = o /\ task'.kind = task.kind /\ Running'
        /\ UNCHANGED <<position, saved>>
    BY <1>1, <1>7 DEF Rest, TypeOK, TaskT, Running
  <2>4. touched \subseteq touched'
    BY <1>7 DEF Rest, CreateEntry
  <2>. QED
    BY <2>1, <2>2, <2>3, <2>4 DEF TouchedInv
<1>8. ASSUME NEW t, CancelAll(t)
      PROVE  TouchedInv'
  BY <1>8 DEF CancelAll, NoTask, TouchedInv, Running
<1>9. ASSUME NEW o, NEW row, NEW accepted, CanStart,
             PlaceOrReject(o, row, accepted)
      PROVE  TouchedInv'
  BY <1>2, <1>9 DEF PlaceOrReject, CommitAtOnce, CanStart, Running
<1>10. ASSUME NEW o, NEW p, NEW q, NEW n,
              \/ AmendSize(o, n) \/ AmendDependent(o, p, q, n)
              \/ AmendStop(o, p, q, n) \/ Cancel(o) \/ ExecuteNotMet(o)
       PROVE  TouchedInv'
  BY <1>2, <1>10
  DEF AmendSize, AmendDependent, AmendStop, Cancel, ExecuteNotMet, CommitAtOnce,
      CanStart, Running
<1>11. ASSUME NEW o, CancelNext(o) \/ ExecuteRejected(o)
       PROVE  TouchedInv'
  BY <1>2, <1>11 DEF CancelNext, ExecuteRejected, Running
<1>12. ASSUME NEW o, NEW t, NEW ty, NEW side, NEW price, NEW size, NEW cp,
              CreatePrivate(o, t, ty, side, price, size, cp)
       PROVE  TouchedInv'
  BY <1>2, <1>12 DEF CreatePrivate, Running
<1>13. ASSUME NEW t, NEW size, NEW f, Takeover(t, size) \/ UpdateFairPrice(f)
       PROVE  TouchedInv'
  BY <1>2, <1>13 DEF Takeover, UpdateFairPrice, Running
<1>14. ASSUME Commit \/ Abort \/ CancelAllDone
       PROVE  TouchedInv'
  BY <1>3, <1>14 DEF Commit, Abort, CancelAllDone
<1>15. ASSUME UNCHANGED vars
       PROVE  TouchedInv'
  BY <1>15 DEF vars, TouchedInv, Running
<1>16. CASE Next
  BY <1>4, <1>5, <1>6, <1>7, <1>8, <1>9, <1>10, <1>11, <1>12, <1>13, <1>14,
     <1>16, FillTouched
  DEF Next, LiquidateSell, CreateDependent, CreateStop
<1>. QED
  BY <1>15, <1>16

(* A commit leaves no stale order of a profile the task has traded with.   *)
LEMMA CommitCancels ==
    ASSUME IInv, TouchedInv, Commit, task.kind \in {"create", "execute"},
           NEW o \in Orders, order'[o] # Nil, order'[o].status = "placed",
           order'[o].type \in DependentTypes,
           position'[order'[o].profile] # saved.position[order'[o].profile]
    PROVE  /\ position'[order'[o].profile].size # 0
           /\ position'[order'[o].profile].side # order'[o].side
<1>. DEFINE rows == IF DropsRest(Taker, task.left)
                      THEN [order EXCEPT ![task.oid] = WithStatus(@, "canceled")]
                      ELSE order
<1>1. /\ order' = CancelStale(rows, position, touched) /\ position' = position
      /\ Running /\ TypeOK /\ task.oid \in Orders /\ order[task.oid] # Nil
  BY DEF Commit, Running, IInv, TakerRow
<1>2. rows \in [Orders -> OrderT \cup {Nil}]
  <2>1. WithStatus(order[task.oid], "canceled") \in OrderT
    BY <1>1, StatusRow DEF TypeOK, Statuses
  <2>. QED
    BY <1>1, <2>1 DEF TypeOK
<1>. HIDE DEF rows
<1>3. rows[o] # Nil => WithStatus(rows[o], "canceled").status = "canceled"
  BY <1>2, StatusRow DEF Statuses
<1>4. /\ order'[o] = rows[o]
      /\ ~(rows[o].profile \in touched /\ Stale(rows[o], position[rows[o].profile]))
  BY <1>1, <1>3 DEF CancelStale
<1>5. order'[o].profile \in Traders
  BY <1>2, <1>4 DEF OrderT
<1>6. order'[o].profile \in touched
  BY <1>1, <1>5 DEF TouchedInv
<1>. QED
  BY <1>1, <1>4, <1>6 DEF Stale

(* A create or execute task that trades leaves no stop-loss or take-profit *)
(* order waiting that its trades have made pointless, neither of the taker *)
(* nor of any maker (_post_execute_order).                                 *)
THEOREM StaleOrdersCanceled == Spec => TradesCancelStale
<1>. DEFINE Canceled ==
        task.kind \in {"create", "execute"} /\ published' # published =>
          \A o \in Orders :
              /\ order'[o] # Nil
              /\ order'[o].status = "placed"
              /\ order'[o].type \in DependentTypes
              /\ position'[order'[o].profile]
                    # saved.position[order'[o].profile]
              => /\ position'[order'[o].profile].size # 0
                 /\ position'[order'[o].profile].side # order'[o].side
<1>1. Init => TouchedInv
  BY DEF Init, NoTask, TouchedInv, Running
<1>2. IInv /\ TouchedInv /\ [Next]_vars => TouchedInv'
  BY NextTouched
<1>3. ASSUME IInv, TouchedInv, [Next]_vars
      PROVE  Canceled
  <2>. SUFFICES ASSUME task.kind \in {"create", "execute"}, published' # published
                PROVE  Canceled
    OBVIOUS
  <2>1. Running
    BY <1>3 DEF TouchedInv
  <2>2. \A o, t, ty, tif, side, price, size, liq :
           ~Create(o, t, ty, tif, side, price, size, liq)
    BY <2>1 DEF Create, CanStart, Running
  <2>3. \A o, t, ty, side, price, size, cp :
           ~CreatePrivate(o, t, ty, side, price, size, cp)
    BY <2>1 DEF CreatePrivate, Running
  <2>4. \A o, t, ty, side, p, q, n :
           ~CreateDependent(o, t, ty, p, q, n) /\ ~CreateStop(o, t, ty, side, p, q, n)
    BY <2>1 DEF CreateDependent, CreateStop, CanStart, Running
  <2>5. \A o, p, q, n : /\ ~AmendSize(o, n) /\ ~AmendPrice(o, p, n)
                        /\ ~AmendDependent(o, p, q, n) /\ ~AmendStop(o, p, q, n)
    <3>1. ~CanStart
      BY <2>1 DEF CanStart, Running
    <3>2. \A o, p, q, n : ~AmendDependent(o, p, q, n) /\ ~AmendStop(o, p, q, n)
      BY <3>1 DEF AmendDependent, AmendStop
    <3>3. \A o, n : ~AmendSize(o, n)
      BY <3>1 DEF AmendSize
    <3>4. \A o, p, n : ~AmendPrice(o, p, n)
      BY <3>1 DEF AmendPrice
    <3>. QED
      BY <3>2, <3>3, <3>4
  <2>6. \A o : /\ ~Cancel(o) /\ ~CancelNext(o) /\ ~Execute(o)
               /\ ~ExecuteRejected(o) /\ ~ExecuteNotMet(o)
    BY <2>1 DEF Cancel, CancelNext, Execute, ExecuteRejected, ExecuteNotMet,
                CanStart, Running
  <2>7. /\ \A t, n : ~CancelAll(t) /\ ~Takeover(t, n)
        /\ \A f : ~UpdateFairPrice(f)
        /\ ~CancelAllDone
    BY <2>1 DEF CancelAll, Takeover, UpdateFairPrice, CancelAllDone, CanStart, Running
  <2>8. (\A m : ~Fill(m)) /\ ~Rest /\ ~Abort /\ ~UNCHANGED vars
    BY DEF Fill, Rest, Abort, vars
  <2>9. Commit
    BY <1>3, <2>2, <2>3, <2>4, <2>5, <2>6, <2>7, <2>8 DEF Next, LiquidateSell
  <2>. QED
    BY <1>3, <2>9, CommitCancels
<1>4. IInv /\ TouchedInv /\ [Next]_vars => [Canceled]_vars
  BY <1>3
<1>. QED
  BY <1>1, <1>2, <1>4, Invariance, PTL DEF Spec, TradesCancelStale
-----------------------------------------------------------------------------
(* Limits of conditional orders                                            *)

(* A row that counts against a limit of profile t.                         *)
Counts(row, t, types, statuses) ==
    /\ row # Nil
    /\ row.profile = t
    /\ row.type \in types
    /\ row.status \in statuses

Held(rows, t, types, statuses) ==
    {o \in Orders : Counts(rows[o], t, types, statuses)}

Waiting == {"placed"}
Alive   == {"placed", "open"}

Within(rows) ==
    \A t \in Traders :
        /\ Cardinality(Held(rows, t, StopLossTypes, Alive)) <= MaxDependent
        /\ Cardinality(Held(rows, t, TakeProfitTypes, Alive)) <= MaxDependent
        /\ Cardinality(Held(rows, t, StopTypes, Waiting)) <= MaxConditional

(* The limits hold in every state, and in the one a rollback returns to.   *)
LimitsInv ==
    /\ Within(order)
    /\ Running => Within(saved.order)

(* A later row that counts only where the earlier one did.                 *)
NoMore(row, later) ==
    later # Nil /\ later.type \notin ImmediateTypes =>
        /\ row # Nil
        /\ later.profile = row.profile
        /\ later.type = row.type
        /\ later.status = "placed" => row.status = "placed"
        /\ later.status = "open" => row.status \in Alive

(* Rows that count no more than before keep the limits.                    *)
LEMMA NoMoreHeld ==
    ASSUME NEW rows, NEW later, Within(rows),
           \A o \in Orders : NoMore(rows[o], later[o])
    PROVE  Within(later)
<1>1. ASSUME NEW t, NEW types, NEW statuses \in {Waiting, Alive},
             types \cap ImmediateTypes = {}
      PROVE  Cardinality(Held(later, t, types, statuses))
                <= Cardinality(Held(rows, t, types, statuses))
  <2>1. Held(later, t, types, statuses) \subseteq Held(rows, t, types, statuses)
    BY <1>1 DEF Held, Counts, NoMore, Waiting, Alive
  <2>2. IsFiniteSet(Held(rows, t, types, statuses))
    <3>1. Held(rows, t, types, statuses) \in SUBSET Orders
      BY DEF Held
    <3>. QED
      BY <3>1, FS_Subset, FiniteAssumption
  <2>. QED
    BY <2>1, <2>2, FS_Subset
<1>2. /\ StopLossTypes \cap ImmediateTypes = {}
      /\ TakeProfitTypes \cap ImmediateTypes = {}
      /\ StopTypes \cap ImmediateTypes = {}
  BY DEF StopLossTypes, TakeProfitTypes, StopTypes, ImmediateTypes
<1>3. \A t, types, statuses : /\ Cardinality(Held(rows, t, types, statuses)) \in Nat
                              /\ Cardinality(Held(later, t, types, statuses)) \in Nat
  <2>. SUFFICES ASSUME NEW t, NEW types, NEW statuses
                PROVE  /\ Cardinality(Held(rows, t, types, statuses)) \in Nat
                       /\ Cardinality(Held(later, t, types, statuses)) \in Nat
    OBVIOUS
  <2>1. /\ Held(rows, t, types, statuses) \in SUBSET Orders
        /\ Held(later, t, types, statuses) \in SUBSET Orders
    BY DEF Held
  <2>. QED
    BY <2>1, FS_Subset, FS_CardinalityType, FiniteAssumption
<1>4. MaxDependent \in Nat /\ MaxConditional \in Nat
  BY ConstantAssumption
<1>. SUFFICES ASSUME NEW t \in Traders
              PROVE  /\ Cardinality(Held(later, t, StopLossTypes, Alive)) <= MaxDependent
                     /\ Cardinality(Held(later, t, TakeProfitTypes, Alive)) <= MaxDependent
                     /\ Cardinality(Held(later, t, StopTypes, Waiting)) <= MaxConditional
  BY DEF Within
<1>5. Cardinality(Held(later, t, StopLossTypes, Alive))
        <= Cardinality(Held(rows, t, StopLossTypes, Alive))
  BY <1>1, <1>2
<1>6. Cardinality(Held(later, t, TakeProfitTypes, Alive))
        <= Cardinality(Held(rows, t, TakeProfitTypes, Alive))
  BY <1>1, <1>2
<1>7. Cardinality(Held(later, t, StopTypes, Waiting))
        <= Cardinality(Held(rows, t, StopTypes, Waiting))
  BY <1>1, <1>2
<1>. QED
  BY <1>3, <1>4, <1>5, <1>6, <1>7 DEF Within

(* A row that stays, ends, or gives up a part of its size counts no more.  *)
LEMMA NoMoreRows ==
    /\ \A row : row # Nil => NoMore(row, row)
    /\ \A row : NoMore(row, Nil)
    /\ \A row \in OrderT, s \in Statuses \ {"placed", "open"} :
          NoMore(row, WithStatus(row, s))
    /\ \A row \in OrderT, n \in Nat :
          n <= row.size /\ row.status = "open" => NoMore(row, Updated(row, n))
<1>1. \A row : row # Nil => NoMore(row, row)
  BY DEF NoMore, Alive
<1>2. \A row : NoMore(row, Nil)
  BY DEF NoMore
<1>3. ASSUME NEW row \in OrderT, NEW s \in Statuses \ {"placed", "open"}
      PROVE  NoMore(row, WithStatus(row, s))
  <2>1. /\ WithStatus(row, s).profile = row.profile
        /\ WithStatus(row, s).type = row.type
        /\ WithStatus(row, s).status = s
    BY DEF WithStatus, OrderT
  <2>. QED
    BY <2>1, NotNil DEF NoMore
<1>4. ASSUME NEW row \in OrderT, NEW n \in Nat, n <= row.size, row.status = "open"
      PROVE  NoMore(row, Updated(row, n))
  <2>1. /\ Updated(row, n).profile = row.profile
        /\ Updated(row, n).status # "placed"
    BY <1>4, UpdatedRow
  <2>2. Updated(row, n).type = row.type
    BY DEF Updated, OrderT
  <2>. QED
    BY <1>4, <2>1, <2>2, NotNil DEF NoMore, Alive
<1>. QED
  BY <1>1, <1>2, <1>3, <1>4

(* A step that changes one row.                                            *)
LEMMA OneRowWithin ==
    ASSUME TypeOK, LimitsInv, NEW o \in Orders,
           \A x \in Orders : x # o => order'[x] = order[x],
           NoMore(order[o], order'[o]),
           Running' => \/ Running /\ saved' = saved
                       \/ saved'.order \in {order, order'}
    PROVE  LimitsInv'
<1>1. \A x \in Orders : NoMore(order[x], order'[x])
  <2>1. \A x \in Orders : x # o => NoMore(order[x], order'[x])
    BY NoMoreRows
  <2>. QED
    BY <2>1
<1>2. Within(order')
  BY <1>1, NoMoreHeld DEF LimitsInv
<1>. QED
  BY <1>2 DEF LimitsInv, Within, Held

(* A step that changes no row.                                             *)
LEMMA NoRowWithin ==
    ASSUME LimitsInv, UNCHANGED order, Running' => Running /\ saved' = saved
    PROVE  LimitsInv'
BY DEF LimitsInv, Within, Held

(* Canceling stale orders takes counting orders away.                      *)
LEMMA StaleWithin ==
    ASSUME NEW rows \in [Orders -> OrderT \cup {Nil}], Within(rows),
           NEW positions, NEW changed
    PROVE  Within(CancelStale(rows, positions, changed))
<1>. DEFINE after == CancelStale(rows, positions, changed)
<1>1. \A o \in Orders :
         \/ after[o] = rows[o]
         \/ rows[o] # Nil /\ after[o] = WithStatus(rows[o], "canceled")
  BY DEF CancelStale
<1>2. "canceled" \in Statuses \ {"placed", "open"}
  BY DEF Statuses
<1>. HIDE DEF after
<1>3. \A o \in Orders : NoMore(rows[o], after[o])
  BY <1>1, <1>2, NoMoreRows
<1>4. Within(after)
  BY <1>3, NoMoreHeld
<1>. QED
  BY <1>4 DEF after

(* What the count of pre_create says, and what one more order makes of it. *)
LEMMA OneMore ==
    ASSUME TypeOK, Within(order), NEW o \in Orders, order[o] = Nil,
           NEW row, row # Nil, row.profile \in Traders,
           NEW max \in Nat, NEW types, NEW statuses,
           CountOrders(row.profile, types, statuses) < max
    PROVE  Cardinality(Held([order EXCEPT ![o] = row], row.profile, types, statuses))
              <= max
<1>. DEFINE before == Held(order, row.profile, types, statuses)
            after == Held([order EXCEPT ![o] = row], row.profile, types, statuses)
<1>1. before \in SUBSET Orders /\ after \in SUBSET Orders
  BY DEF Held
<1>2. IsFiniteSet(before) /\ Cardinality(before) \in Nat
  BY <1>1, FS_Subset, FS_CardinalityType, FiniteAssumption
<1>3. Cardinality(before) < max
  BY DEF Held, Counts, CountOrders
<1>4. after \subseteq before \cup {o}
  BY DEF Held, TypeOK
<1>. HIDE DEF before, after
<1>5. /\ IsFiniteSet(before \cup {o})
      /\ Cardinality(before \cup {o}) <= Cardinality(before) + 1
      /\ Cardinality(before \cup {o}) \in Nat
  <2>1. IsFiniteSet(before \cup {o})
    BY <1>2, FS_AddElement
  <2>2. Cardinality(before \cup {o}) \in Nat
    BY <2>1, FS_CardinalityType
  <2>3. Cardinality(before \cup {o})
          = IF o \in before THEN Cardinality(before) ELSE Cardinality(before) + 1
    BY <1>2, FS_AddElement
  <2>. QED
    BY <1>2, <2>1, <2>2, <2>3
<1>6. Cardinality(after) <= Cardinality(before \cup {o}) /\ Cardinality(after) \in Nat
  BY <1>4, <1>5, FS_Subset, FS_CardinalityType
<1>7. Cardinality(after) <= max
  BY <1>2, <1>3, <1>5, <1>6
<1>. QED
  BY <1>7 DEF after

(* A new row changes no count but those of its profile and type.           *)
LEMMA OtherCounts ==
    ASSUME NEW o \in Orders, order[o] = Nil,
           \A x \in Orders : x # o => order'[x] = order[x],
           NEW t, NEW types, NEW statuses,
           order'[o].profile # t \/ order'[o].type \notin types
    PROVE  Held(order', t, types, statuses) = Held(order, t, types, statuses)
BY DEF Held, Counts

(* A conditional order that pre_create accepts stays within its limit; one *)
(* it refuses is rejected and counts nowhere.                              *)
LEMMA PlaceLimits ==
    ASSUME TypeOK, LimitsInv, ~Running, NEW o \in Orders, order[o] = Nil,
           NEW row \in OrderT, row.status = "placed",
           row.type \in StopLossTypes \cup TakeProfitTypes \cup StopTypes,
           NEW accepted,
           PlaceOrReject(o, row, accepted),
           accepted /\ row.type \in StopLossTypes =>
              CountOrders(row.profile, StopLossTypes, Alive) < MaxDependent,
           accepted /\ row.type \in TakeProfitTypes =>
              CountOrders(row.profile, TakeProfitTypes, Alive) < MaxDependent,
           accepted /\ row.type \in StopTypes =>
              CountOrders(row.profile, StopTypes, Waiting) < MaxConditional
    PROVE  LimitsInv'
<1>1. ~Running' /\ row # Nil /\ row.profile \in Traders
  BY NotNil DEF PlaceOrReject, CommitAtOnce, Running, OrderT
<1>2. MaxDependent \in Nat /\ MaxConditional \in Nat
  BY ConstantAssumption
<1>3. CASE ~accepted
  <2>. DEFINE new == WithStatus(row, "rejected")
  <2>1. order' = [order EXCEPT ![o] = new]
    BY <1>3 DEF PlaceOrReject
  <2>2. new.status = "rejected"
    BY StatusRow DEF Statuses
  <2>. HIDE DEF new
  <2>3. \A t \in Traders :
           /\ Held(order', t, StopLossTypes, Alive) = Held(order, t, StopLossTypes, Alive)
           /\ Held(order', t, TakeProfitTypes, Alive)
                 = Held(order, t, TakeProfitTypes, Alive)
           /\ Held(order', t, StopTypes, Waiting) = Held(order, t, StopTypes, Waiting)
    BY <2>1, <2>2 DEF TypeOK, Held, Counts, Alive, Waiting
  <2>. QED
    BY <1>1, <2>3 DEF LimitsInv, Within
<1>4. CASE accepted
  <2>1. order' = [order EXCEPT ![o] = row]
    BY <1>4 DEF PlaceOrReject
  <2>2. order'[o] = row /\ \A x \in Orders : x # o => order'[x] = order[x]
    BY <2>1 DEF TypeOK
  <2>3. /\ StopLossTypes \cap TakeProfitTypes = {}
        /\ StopLossTypes \cap StopTypes = {}
        /\ TakeProfitTypes \cap StopTypes = {}
    BY DEF StopLossTypes, TakeProfitTypes, StopTypes
  <2>4. Within(order)
    BY DEF LimitsInv
  <2>. SUFFICES ASSUME NEW t \in Traders
                PROVE
                  /\ Cardinality(Held(order', t, StopLossTypes, Alive)) <= MaxDependent
                  /\ Cardinality(Held(order', t, TakeProfitTypes, Alive)) <= MaxDependent
                  /\ Cardinality(Held(order', t, StopTypes, Waiting)) <= MaxConditional
    BY <1>1 DEF LimitsInv, Within
  <2>5. Cardinality(Held(order', t, StopLossTypes, Alive)) <= MaxDependent
    <3>1. CASE row.profile = t /\ row.type \in StopLossTypes
      BY <1>1, <1>2, <1>4, <2>1, <2>4, <3>1, OneMore
    <3>2. CASE row.profile # t \/ row.type \notin StopLossTypes
      <4>1. Held(order', t, StopLossTypes, Alive) = Held(order, t, StopLossTypes, Alive)
        BY <2>2, <3>2, OtherCounts
      <4>. QED
        BY <2>4, <4>1 DEF Within
    <3>. QED
      BY <3>1, <3>2
  <2>6. Cardinality(Held(order', t, TakeProfitTypes, Alive)) <= MaxDependent
    <3>1. CASE row.profile = t /\ row.type \in TakeProfitTypes
      BY <1>1, <1>2, <1>4, <2>1, <2>4, <3>1, OneMore
    <3>2. CASE row.profile # t \/ row.type \notin TakeProfitTypes
      <4>1. Held(order', t, TakeProfitTypes, Alive)
              = Held(order, t, TakeProfitTypes, Alive)
        BY <2>2, <3>2, OtherCounts
      <4>. QED
        BY <2>4, <4>1 DEF Within
    <3>. QED
      BY <3>1, <3>2
  <2>7. Cardinality(Held(order', t, StopTypes, Waiting)) <= MaxConditional
    <3>1. CASE row.profile = t /\ row.type \in StopTypes
      BY <1>1, <1>2, <1>4, <2>1, <2>4, <3>1, OneMore
    <3>2. CASE row.profile # t \/ row.type \notin StopTypes
      <4>1. Held(order', t, StopTypes, Waiting) = Held(order, t, StopTypes, Waiting)
        BY <2>2, <3>2, OtherCounts
      <4>. QED
        BY <2>4, <4>1 DEF Within
    <3>. QED
      BY <3>1, <3>2
  <2>. QED
    BY <2>5, <2>6, <2>7
<1>. QED
  BY <1>3, <1>4

(* Stop-loss and take-profit orders.                                       *)
LEMMA CreateDependentLimits ==
    ASSUME TypeOK, LimitsInv, NEW o \in Orders, NEW t \in Traders,
           NEW ty \in DependentTypes, NEW price \in Prices,
           NEW trigger \in Prices, NEW percent \in Percents,
           CreateDependent(o, t, ty, price, trigger, percent)
    PROVE  LimitsInv'
<1>. DEFINE p == IF ty \in LimitTypes THEN price ELSE 0
            side == Opposite(position[t].side)
            row == NewOrder(t, ty, "gtc", side, "placed", p, trigger, percent, 0)
            accepted == PreCreateDependent(t, ty, price, trigger)
<1>1. /\ p \in AllPrices /\ trigger \in AllPrices /\ percent \in 0..100 /\ 0 \in Nat
      /\ "gtc" \in AllTimesInForce /\ "placed" \in Statuses /\ ty \in AllTypes
  <2>1. percent \in 0..100
    BY ConstantAssumption
  <2>. QED
    BY <2>1, PricesNat
    DEF AllPrices, AllTimesInForce, Statuses, DependentTypes, AllTypes,
        ConditionalTypes
<1>2. side \in Sides
  BY OppositeType DEF TypeOK, PositionT
<1>3. /\ ~Running /\ order[o] = Nil /\ PlaceOrReject(o, row, accepted)
  BY DEF CreateDependent, CanStart, Exists, Running
<1>. HIDE DEF p, side
<1>4. row \in OrderT /\ row.status = "placed"
  BY <1>1, <1>2 DEF NewOrder, OrderT
<1>5. row.type = ty /\ row.profile = t
  BY DEF NewOrder
<1>. HIDE DEF row
<1>6. accepted /\ ty \in StopLossTypes => CountOrders(t, StopLossTypes, Alive) < MaxDependent
  BY DEF PreCreateDependent, Alive
<1>7. accepted /\ ty \in TakeProfitTypes =>
         CountOrders(t, TakeProfitTypes, Alive) < MaxDependent
  <2>1. TakeProfitTypes \cap StopLossTypes = {}
    BY DEF StopLossTypes, TakeProfitTypes
  <2>. QED
    BY <2>1 DEF PreCreateDependent, Alive
<1>8. ty \notin StopTypes /\ ty \in StopLossTypes \cup TakeProfitTypes
  BY DEF DependentTypes, StopLossTypes, TakeProfitTypes, StopTypes
<1>. HIDE DEF accepted
<1>. QED
  BY <1>3, <1>4, <1>5, <1>6, <1>7, <1>8, PlaceLimits

(* Stop orders.                                                            *)
LEMMA CreateStopLimits ==
    ASSUME TypeOK, LimitsInv, NEW o \in Orders, NEW t \in Traders,
           NEW ty \in StopTypes, NEW side \in Sides, NEW price \in Prices,
           NEW trigger \in Prices, NEW size \in Nat,
           CreateStop(o, t, ty, side, price, trigger, size)
    PROVE  LimitsInv'
<1>. DEFINE row == NewOrder(t, ty, "gtc", side, "placed", price, trigger, 0, size)
            accepted == PreCreateStop(t, ty, side, price, trigger)
<1>1. /\ price \in AllPrices /\ trigger \in AllPrices /\ 0 \in 0..100
      /\ "gtc" \in AllTimesInForce /\ "placed" \in Statuses /\ ty \in AllTypes
  BY PricesNat DEF AllTimesInForce, Statuses, AllTypes, ConditionalTypes
<1>2. /\ ~Running /\ order[o] = Nil /\ PlaceOrReject(o, row, accepted)
  BY DEF CreateStop, CanStart, Exists, Running
<1>3. row \in OrderT /\ row.status = "placed"
  BY <1>1, NewRow
<1>4. row.type = ty /\ row.profile = t
  BY DEF NewOrder
<1>. HIDE DEF row
<1>5. accepted => CountOrders(t, StopTypes, Waiting) < MaxConditional
  BY DEF PreCreateStop, Waiting
<1>6. ty \notin StopLossTypes /\ ty \notin TakeProfitTypes
  BY DEF StopLossTypes, TakeProfitTypes, StopTypes
<1>. HIDE DEF accepted
<1>. QED
  BY <1>2, <1>3, <1>4, <1>5, <1>6, PlaceLimits

(* A private match stores a limit or market order, which no limit counts.  *)
LEMMA CreatePrivateLimits ==
    ASSUME TypeOK, LimitsInv, NEW o \in Orders, NEW t \in Traders,
           NEW cp \in Traders, NEW ty \in ImmediateTypes, NEW side \in Sides,
           NEW price \in Prices, NEW size \in Nat,
           CreatePrivate(o, t, ty, side, price, size, cp)
    PROVE  LimitsInv'
<1>. DEFINE new == NewOrder(t, ty, "gtc", side, "open", price, 0, 0, size)
            row == Updated(new, 0)
            rows == [order EXCEPT ![o] = row]
            positions == PrivatePositions(side, t, cp, size)
<1>1. /\ price \in AllPrices /\ 0 \in AllPrices /\ 0 \in 0..100 /\ 0 \in Nat
      /\ "gtc" \in AllTimesInForce /\ "open" \in Statuses /\ ty \in AllTypes
  BY PricesNat DEF AllPrices, AllTimesInForce, Statuses, AllTypes
<1>2. new \in OrderT /\ new.type = ty /\ new.size = size
  BY <1>1 DEF NewOrder, OrderT
<1>. HIDE DEF new
<1>3. row \in OrderT /\ row.type = ty
  <2>1. row.type = ty
    BY <1>2 DEF Updated, OrderT
  <2>. QED
    BY <1>2, <2>1, UpdatedRow
<1>4. ~Running' /\ order' = CancelStale(rows, positions, {t, cp})
  BY DEF CreatePrivate, Running, new
<1>. HIDE DEF row, positions
<1>5. rows[o] = row /\ \A x \in Orders : x # o => rows[x] = order[x]
  BY DEF TypeOK
<1>6. rows \in [Orders -> OrderT \cup {Nil}]
  BY <1>3 DEF TypeOK
<1>. HIDE DEF rows
<1>7. \A x \in Orders : NoMore(order[x], rows[x])
  <2>1. NoMore(order[o], rows[o])
    BY <1>3, <1>5 DEF NoMore
  <2>2. \A x \in Orders : x # o => NoMore(order[x], rows[x])
    BY <1>5, NoMoreRows
  <2>. QED
    BY <2>1, <2>2
<1>8. Within(rows)
  BY <1>7, NoMoreHeld DEF LimitsInv
<1>9. Within(order')
  BY <1>4, <1>6, <1>8, StaleWithin
<1>. QED
  BY <1>4, <1>9 DEF LimitsInv

(* A commit drops what may not rest and cancels what is stale.             *)
LEMMA CommitLimits ==
    ASSUME IInv, LimitsInv, Commit
    PROVE  LimitsInv'
<1>. DEFINE o == task.oid
            rows == IF DropsRest(Taker, task.left)
                      THEN [order EXCEPT ![o] = WithStatus(@, "canceled")]
                      ELSE order
<1>1. /\ TypeOK /\ ~Running' /\ o \in Orders /\ order[o] # Nil
      /\ order' = CancelStale(rows, position, touched)
  BY DEF IInv, TakerRow, Commit, Running, NoTask
<1>2. order[o] \in OrderT /\ "canceled" \in Statuses \ {"placed", "open"}
  BY <1>1 DEF TypeOK, Statuses
<1>3. WithStatus(order[o], "canceled") \in OrderT
  BY <1>2, StatusRow
<1>4. rows \in [Orders -> OrderT \cup {Nil}]
  BY <1>1, <1>3 DEF TypeOK
<1>5. \A x \in Orders :
         \/ rows[x] = order[x]
         \/ x = o /\ rows[x] = WithStatus(order[o], "canceled")
  BY <1>1 DEF TypeOK
<1>. HIDE DEF rows
<1>6. \A x \in Orders : NoMore(order[x], rows[x])
  BY <1>2, <1>5, NoMoreRows
<1>7. Within(rows)
  BY <1>6, NoMoreHeld DEF LimitsInv
<1>8. Within(order')
  BY <1>1, <1>4, <1>7, StaleWithin
<1>. QED
  BY <1>1, <1>8 DEF LimitsInv

(* A rollback returns to rows that kept the limits.                        *)
LEMMA AbortLimits ==
    ASSUME IInv, LimitsInv, Abort
    PROVE  LimitsInv'
<1>. DEFINE o == task.oid
            row == WithStatus(saved.order[o], "rejected")
<1>1. /\ Running /\ ~Running' /\ o \in Orders /\ saved \in SavedT
      /\ saved.order[o] # Nil
  BY DEF IInv, TakerRow, SavedRows, Abort, Running, NoTask
<1>2. saved.order \in [Orders -> OrderT \cup {Nil}] /\ Within(saved.order)
  BY <1>1 DEF SavedT, LimitsInv
<1>3. \/ order' = saved.order
      \/ order' = [saved.order EXCEPT ![o] = row]
  BY DEF Abort
<1>4. NoMore(saved.order[o], row)
  BY <1>1, <1>2, NoMoreRows DEF Statuses
<1>. HIDE DEF row
<1>5. \A x \in Orders :
         \/ order'[x] = saved.order[x]
         \/ x = o /\ order'[x] = row
  BY <1>1, <1>2, <1>3
<1>6. \A x \in Orders : NoMore(saved.order[x], order'[x])
  BY <1>4, <1>5, NoMoreRows
<1>7. Within(order')
  BY <1>2, <1>6, NoMoreHeld
<1>. QED
  BY <1>1, <1>7 DEF LimitsInv

(* A waiting or resting order that is amended stays what it was.           *)
LEMMA AmendLimits ==
    ASSUME IInv, LimitsInv, ~Running, NEW o \in Orders, order[o] # Nil,
           NEW row \in OrderT, row.type = order[o].type,
           row.profile = order[o].profile, row.status = order[o].status,
           \A x \in Orders : x # o => order'[x] = order[x], order'[o] = row,
           Running' => saved'.order = order
    PROVE  LimitsInv'
<1>1. NoMore(order[o], order'[o])
  BY DEF NoMore, Alive
<1>2. TypeOK
  BY DEF IInv
<1>. QED
  BY <1>1, <1>2, OneRowWithin

(* Every step keeps the limits.                                            *)
LEMMA NextLimits ==
    ASSUME IInv, LimitsInv, [Next]_vars
    PROVE  LimitsInv'
<1>1. TypeOK
  BY DEF IInv
<1>2. Sizes \subseteq Nat
  BY ConstantAssumption
<1>3. ASSUME NEW o \in Orders, NEW t, NEW ty \in ImmediateTypes, NEW tif, NEW side,
             NEW price, NEW size, NEW liq,
             Create(o, t, ty, tif, side, price, size, liq)
      PROVE  LimitsInv'
  <2>1. order'[o].type = ty /\ \A x \in Orders : x # o => order'[x] = order[x]
    BY <1>1, <1>3 DEF Create, NewOrder, TypeOK
  <2>2. NoMore(order[o], order'[o])
    BY <2>1 DEF NoMore
  <2>3. saved'.order = order'
    BY <1>3 DEF Create, Savepoint
  <2>. QED
    BY <1>1, <2>1, <2>2, <2>3, OneRowWithin
<1>4. ASSUME NEW o \in Orders, NEW t \in Traders,
             NEW ty \in OrderTypes \cap DependentTypes, NEW price \in Prices,
             NEW trigger \in Prices, NEW percent \in Percents,
             CreateDependent(o, t, ty, price, trigger, percent)
      PROVE  LimitsInv'
  BY <1>1, <1>4, CreateDependentLimits
<1>5. ASSUME NEW o \in Orders, NEW t \in Traders,
             NEW ty \in OrderTypes \cap StopTypes, NEW side \in Sides,
             NEW price \in Prices, NEW trigger \in Prices, NEW size \in Sizes,
             CreateStop(o, t, ty, side, price, trigger, size)
      PROVE  LimitsInv'
  BY <1>1, <1>2, <1>5, CreateStopLimits
<1>6. ASSUME NEW o \in Orders, NEW t \in Traders, NEW cp \in Traders,
             NEW ty \in OrderTypes \cap ImmediateTypes, NEW side \in Sides,
             NEW price \in Prices, NEW size \in Sizes,
             CreatePrivate(o, t, ty, side, price, size, cp)
      PROVE  LimitsInv'
  BY <1>1, <1>2, <1>6, CreatePrivateLimits
<1>7. ASSUME NEW m \in Orders, Fill(m)
      PROVE  LimitsInv'
  <2>. DEFINE n == ob[m].size - FillSize(ob[m], task.left)
  <2>1. Running /\ Running' /\ saved' = saved /\ ob[m] # Nil /\ ob[m] \in EntryT
    BY <1>1, <1>7 DEF Fill, IsBest, Running, TypeOK, TaskT
  <2>2. /\ order[m] \in OrderT /\ order[m].status = "open"
        /\ ob[m].size = order[m].size
    BY <1>1, <2>1 DEF IInv, BookRows, EntryRow, TypeOK
  <2>3. n \in Nat /\ n <= order[m].size
    BY <1>1, <2>1, <2>2 DEF FillSize, TypeOK, TaskT, EntryT
  <2>4. order' = [order EXCEPT ![m] = Updated(order[m], n)]
    BY <1>7 DEF Fill, UpdateEntry
  <2>. HIDE DEF n
  <2>5. NoMore(order[m], order'[m]) /\ \A x \in Orders : x # m => order'[x] = order[x]
    BY <1>1, <2>2, <2>3, <2>4, NoMoreRows DEF TypeOK
  <2>. QED
    BY <1>1, <2>1, <2>5, OneRowWithin
<1>8. ASSUME Rest
      PROVE  LimitsInv'
  <2>. DEFINE o == task.oid
  <2>1. /\ Running /\ saved' = saved /\ o \in Orders /\ order[o] \in OrderT
        /\ order[o].status = "open" /\ task.left \in Nat /\ task.left <= order[o].size
    BY <1>1, <1>8 DEF IInv, TakerRow, Rest, Running, TypeOK, TaskT
  <2>2. order' = [order EXCEPT ![o] = Updated(order[o], task.left)]
    BY <1>8 DEF Rest
  <2>. HIDE DEF o
  <2>3. NoMore(order[o], order'[o]) /\ \A x \in Orders : x # o => order'[x] = order[x]
    BY <1>1, <2>1, <2>2, NoMoreRows DEF TypeOK
  <2>. QED
    BY <1>1, <2>1, <2>3, OneRowWithin
<1>9. ASSUME NEW o \in Orders, Active(o), Withdraw(o), ~Running'
      PROVE  LimitsInv'
  <2>1. order[o] \in OrderT /\ "canceled" \in Statuses \ {"placed", "open"}
    BY <1>1, <1>9 DEF IInv, BookRows, EntryRow, Active, HasStatus, TypeOK, Statuses
  <2>2. order' = [order EXCEPT ![o] = WithStatus(order[o], "canceled")]
    BY <1>9 DEF Withdraw
  <2>3. NoMore(order[o], order'[o]) /\ \A x \in Orders : x # o => order'[x] = order[x]
    BY <1>1, <2>1, <2>2, NoMoreRows DEF TypeOK
  <2>. QED
    BY <1>1, <1>9, <2>3, OneRowWithin
<1>10. ASSUME NEW o \in Orders, Cancel(o) \/ CancelNext(o)
       PROVE  LimitsInv'
  <2>1. Active(o) /\ Withdraw(o) /\ ~Running'
    BY <1>10
    DEF Cancel, CancelNext, Cancellable, Active, CanStart, CommitAtOnce, Running
  <2>. QED
    BY <1>9, <2>1
<1>11. ASSUME NEW o \in Orders, NEW size \in Sizes, AmendSize(o, size)
       PROVE  LimitsInv'
  <2>. DEFINE row == [order[o] EXCEPT !.price = order[o].price, !.size = size,
                                      !.initial = size, !.status = "open"]
  <2>1. /\ ~Running /\ ~Running' /\ order[o] \in OrderT /\ order[o].status = "open"
        /\ size \in Nat
    BY <1>1, <1>2, <1>11
    DEF IInv, BookRows, EntryRow, AmendSize, CanStart, CommitAtOnce, Running, TypeOK
  <2>2. /\ row \in OrderT /\ row.type = order[o].type
        /\ row.profile = order[o].profile /\ row.status = order[o].status
    BY <2>1 DEF OrderT, Statuses
  <2>3. order' = [order EXCEPT ![o] = row]
    BY <1>11 DEF AmendSize
  <2>. HIDE DEF row
  <2>4. order'[o] = row /\ order[o] # Nil /\ \A x \in Orders : x # o => order'[x] = order[x]
    BY <1>1, <2>1, <2>3, NotNil DEF TypeOK
  <2>. QED
    BY <2>1, <2>2, <2>4, AmendLimits
<1>12. ASSUME NEW o \in Orders, NEW price \in Prices, NEW size \in Sizes,
              AmendPrice(o, price, size)
       PROVE  LimitsInv'
  <2>. DEFINE row == [order[o] EXCEPT !.price = price, !.size = size,
                                      !.initial = size, !.status = "open"]
  <2>1. /\ ~Running /\ saved'.order = order /\ order[o] \in OrderT
        /\ order[o].status = "open" /\ size \in Nat /\ price \in AllPrices
    BY <1>1, <1>2, <1>12, PricesNat
    DEF IInv, BookRows, EntryRow, AmendPrice, CanStart, Savepoint, Running, TypeOK
  <2>2. /\ row \in OrderT /\ row.type = order[o].type
        /\ row.profile = order[o].profile /\ row.status = order[o].status
    BY <2>1 DEF OrderT, Statuses
  <2>3. order' = [order EXCEPT ![o] = row]
    BY <1>12 DEF AmendPrice
  <2>. HIDE DEF row
  <2>4. order'[o] = row /\ order[o] # Nil /\ \A x \in Orders : x # o => order'[x] = order[x]
    BY <1>1, <2>1, <2>3, NotNil DEF TypeOK
  <2>. QED
    BY <2>1, <2>2, <2>4, AmendLimits
<1>13. ASSUME NEW o \in Orders, NEW price \in Prices, NEW trigger \in Prices,
              NEW percent \in Percents, AmendDependent(o, price, trigger, percent)
       PROVE  LimitsInv'
  <2>. DEFINE p == IF order[o].type \in LimitTypes THEN price ELSE order[o].price
              row == [order[o] EXCEPT !.trigger = trigger, !.percent = percent,
                                      !.price = p]
  <2>1. /\ ~Running /\ ~Running' /\ order[o] \in OrderT
        /\ order' = [order EXCEPT ![o] = row]
    BY <1>1, <1>13
    DEF AmendDependent, HasStatus, TypeOK, CanStart, CommitAtOnce, Running
  <2>2. percent \in 0..100
    BY ConstantAssumption
  <2>3. p \in AllPrices /\ trigger \in AllPrices
    BY <2>1 DEF AllPrices, OrderT
  <2>. HIDE DEF p
  <2>4. /\ row \in OrderT /\ row.type = order[o].type
        /\ row.profile = order[o].profile /\ row.status = order[o].status
    BY <2>1, <2>2, <2>3 DEF OrderT
  <2>. HIDE DEF row
  <2>5. order'[o] = row /\ order[o] # Nil /\ \A x \in Orders : x # o => order'[x] = order[x]
    BY <1>1, <2>1, NotNil DEF TypeOK
  <2>. QED
    BY <2>1, <2>4, <2>5, AmendLimits
<1>14. ASSUME NEW o \in Orders, NEW price \in Prices, NEW trigger \in Prices,
              NEW size \in Sizes, AmendStop(o, price, trigger, size)
       PROVE  LimitsInv'
  <2>. DEFINE p == IF order[o].type \in LimitTypes THEN price ELSE order[o].price
              row == [order[o] EXCEPT !.trigger = trigger, !.size = size,
                                      !.initial = size, !.price = p]
  <2>1. /\ ~Running /\ ~Running' /\ order[o] \in OrderT /\ size \in Nat
        /\ order' = [order EXCEPT ![o] = row]
    BY <1>1, <1>2, <1>14
    DEF AmendStop, HasStatus, TypeOK, CanStart, CommitAtOnce, Running
  <2>2. p \in AllPrices /\ trigger \in AllPrices
    BY <2>1 DEF AllPrices, OrderT
  <2>. HIDE DEF p
  <2>3. /\ row \in OrderT /\ row.type = order[o].type
        /\ row.profile = order[o].profile /\ row.status = order[o].status
    BY <2>1, <2>2 DEF OrderT
  <2>. HIDE DEF row
  <2>4. order'[o] = row /\ order[o] # Nil /\ \A x \in Orders : x # o => order'[x] = order[x]
    BY <1>1, <2>1, NotNil DEF TypeOK
  <2>. QED
    BY <2>1, <2>3, <2>4, AmendLimits
<1>15. ASSUME NEW o \in Orders, Execute(o)
       PROVE  LimitsInv'
  <2>. DEFINE row == OpenedRow(order[o], position[order[o].profile])
  <2>1. /\ saved'.order = order /\ order[o] \in OrderT /\ order[o].status = "placed"
        /\ order' = [order EXCEPT ![o] = row]
    BY <1>1, <1>15
    DEF Execute, IsTriggered, HasStatus, Savepoint, TypeOK
  <2>2. /\ row.type = order[o].type /\ row.profile = order[o].profile
        /\ row.status = "open"
    BY <2>1 DEF OpenedRow, OrderT
  <2>. HIDE DEF row
  <2>3. order'[o] = row /\ order[o] # Nil /\ \A x \in Orders : x # o => order'[x] = order[x]
    BY <1>1, <2>1, NotNil DEF TypeOK
  <2>4. NoMore(order[o], order'[o])
    BY <2>1, <2>2, <2>3 DEF NoMore, Alive
  <2>. QED
    BY <1>1, <2>1, <2>3, <2>4, OneRowWithin
<1>16. ASSUME NEW o \in Orders, ExecuteRejected(o)
       PROVE  LimitsInv'
  <2>1. /\ ~Running' /\ order[o] \in OrderT
        /\ order' = [order EXCEPT ![o] = WithStatus(order[o], "rejected")]
        /\ "rejected" \in Statuses \ {"placed", "open"}
    BY <1>1, <1>16
    DEF ExecuteRejected, IsTriggered, HasStatus, TypeOK, Running, Statuses
  <2>2. NoMore(order[o], order'[o]) /\ \A x \in Orders : x # o => order'[x] = order[x]
    BY <1>1, <2>1, NoMoreRows DEF TypeOK
  <2>. QED
    BY <1>1, <2>1, <2>2, OneRowWithin
<1>17. ASSUME NEW o, NEW t, NEW size, NEW f,
              \/ CancelAll(t) \/ CancelAllDone \/ ExecuteNotMet(o)
              \/ Takeover(t, size) \/ UpdateFairPrice(f)
       PROVE  LimitsInv'
  <2>1. UNCHANGED order
    BY <1>17 DEF CancelAll, CancelAllDone, ExecuteNotMet, Takeover,
                 UpdateFairPrice, db
  <2>2. CancelAll(t) \/ CancelAllDone => ~Running'
    <3>1. CancelAll(t) => task'.pc = "cancelall"
      BY DEF CancelAll, NoTask
    <3>2. CancelAllDone => task'.pc = "idle"
      BY DEF CancelAllDone, NoTask
    <3>. QED
      BY <3>1, <3>2 DEF Running
  <2>3. ExecuteNotMet(o) \/ Takeover(t, size) \/ UpdateFairPrice(f) => ~Running'
    BY DEF ExecuteNotMet, Takeover, UpdateFairPrice, CanStart, CommitAtOnce, Running
  <2>. QED
    BY <1>17, <2>1, <2>2, <2>3, NoRowWithin
<1>18. CASE Next
  BY <1>3, <1>4, <1>5, <1>6, <1>7, <1>8, <1>10, <1>11, <1>12, <1>13, <1>14, <1>15,
     <1>16, <1>17, <1>18, CommitLimits, AbortLimits
  DEF Next, LiquidateSell, ImmediateTypes
<1>19. CASE UNCHANGED vars
  BY <1>19, NoRowWithin DEF vars, Running
<1>. QED
  BY <1>18, <1>19

(* No profile ever has more stop-loss, take-profit or stop orders than the *)
(* limits allow: orders that open, close or are rolled back never make     *)
(* room that a later rollback takes away.                                  *)
THEOREM LimitsKept == Spec => []ConditionalLimits
<1>1. Init => LimitsInv
  <2>. SUFFICES ASSUME Init PROVE LimitsInv
    OBVIOUS
  <2>1. ~Running /\ \A o \in Orders : order[o] = Nil
    BY DEF Init, NoTask, Running
  <2>2. \A t, types, statuses : Held(order, t, types, statuses) = {}
    BY <2>1 DEF Held, Counts
  <2>3. Cardinality({}) = 0 /\ MaxDependent \in Nat /\ MaxConditional \in Nat
    BY FS_EmptySet, ConstantAssumption
  <2>. QED
    BY <2>1, <2>2, <2>3 DEF LimitsInv, Within
<1>2. IInv /\ LimitsInv /\ [Next]_vars => LimitsInv'
  BY NextLimits
<1>3. LimitsInv => ConditionalLimits
  BY DEF LimitsInv, Within, ConditionalLimits, Held, Counts, Alive, Waiting
<1>. QED
  BY <1>1, <1>2, <1>3, Invariance, PTL DEF Spec

===============================================================================
