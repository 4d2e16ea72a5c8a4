---------------------------- MODULE TaskQueue_proof ----------------------------
(***************************************************************************)
(* Theorems about TaskQueue, for every set of orders and profiles, every   *)
(* priority table and any number of connection losses and crashes.         *)
(***************************************************************************)
EXTENDS TaskQueue, TLAPS

USE DEF Registered

(* What the loop knows of the task registered in _queue_taken_2: while the *)
(* reply is under way or the handler runs it is the task of the reply,     *)
(* once the loop calls again it has been handled, and while next_task      *)
(* waits there is none.                                                    *)
HandKnown ==
    \A i \in DOMAIN taken :
        /\ loop.pc # "wait"
        /\ loop.pc \in {"reply", "handle"} => loop.task.timestamp = space[i].timestamp
        /\ loop.pc = "call" => space[i].timestamp \in handled

(* A reply that is under way carries a task.                               *)
ReplyFull ==
    /\ loop.pc = "reply" => loop.id \in Nat
    /\ loop.pc \in {"reply", "handle"} => loop.task \in TaskT

(* The liquidation service waits for a profile.                            *)
LiqKnown == liq.pc # "idle" => liq.profile \in Profiles

IInv == TypeOK /\ OneInHand /\ HandKnown /\ ReplyFull /\ LiqKnown /\ NoTaskLost

(* A put adds one ready row under a fresh id and leaves the others alone.  *)
LEMMA PutAdds ==
    ASSUME TypeOK, NEW task \in TaskT, task.timestamp = clock, Put(task)
    PROVE  \E i \in Nat :
              /\ i \notin TaskIds
              /\ DOMAIN space' = TaskIds \cup {i}
              /\ space'[i] = task
              /\ \A j \in TaskIds : space'[j] = space[j]
              /\ clock' = clock + 1
<1>1. PICK i \in 0..clock : IsNextId(i) /\ space' = WithRow(space, i, task)
  BY DEF Put
<1>2. i \in Nat
  BY DEF TypeOK
<1>3. i \notin TaskIds
  BY <1>1, <1>2 DEF IsNextId, TaskIds, TypeOK
<1>4. QED
  BY <1>1, <1>2, <1>3 DEF WithRow, TaskIds, Put

(* Putting a task keeps the invariant.                                     *)
LEMMA PutKeeps ==
    ASSUME IInv, NEW task \in TaskT, task.timestamp = clock, Put(task),
           taken' = taken, loop' = loop, orders' = orders, canceled' = canceled,
           handled' = handled, withdrawn' = withdrawn, failures' = failures,
           issued' \subseteq Orders, liq' \in LiqT, LiqKnown'
    PROVE  IInv'
<1>1. PICK i \in Nat :
              /\ i \notin TaskIds
              /\ DOMAIN space' = TaskIds \cup {i}
              /\ space'[i] = task
              /\ \A j \in TaskIds : space'[j] = space[j]
              /\ clock' = clock + 1
  BY PutAdds DEF IInv
<1>2. TypeOK'
  BY <1>1 DEF IInv, TypeOK, TaskIds
<1>3. OneInHand' /\ HandKnown' /\ ReplyFull'
  BY <1>1 DEF IInv, TypeOK, OneInHand, HandKnown, ReplyFull, TaskIds
<1>4. NoTaskLost'
  BY <1>1 DEF IInv, TypeOK, NoTaskLost, TaskIds
<1>5. QED
  BY <1>2, <1>3, <1>4 DEF IInv

(* The tasks the clients put are tasks.                                    *)
LEMMA TaskType ==
    ASSUME TypeOK, NEW p \in Profiles, NEW o \in Orders \cup {Nil}
    PROVE  /\ \A a \in ClientActions :
                 ClientTask(a, o, p) \in TaskT /\ ClientTask(a, o, p).timestamp = clock
           /\ \A a \in Actions :
                 \A after \in SUBSET Nat :
                    UrgentTask(a, p, after) \in TaskT
                    /\ UrgentTask(a, p, after).timestamp = clock
  BY QueueAssumption DEF TypeOK, ClientTask, UrgentTask, NewTask, TaskT, Highest, Actions, ClientActions

(* The initial state satisfies the invariant.                              *)
LEMMA InitHolds == Init => IInv
<1> SUFFICES ASSUME Init PROVE IInv
  OBVIOUS
<1>1. DOMAIN space = {} /\ DOMAIN taken = {}
  BY DEF Init
<1>2. TypeOK
  BY <1>1, QueueAssumption DEF Init, TypeOK, Start, LoopT, NoLiq, LiqT, TaskIds
<1>3. OneInHand /\ HandKnown /\ ReplyFull /\ LiqKnown /\ NoTaskLost
  BY <1>1 DEF Init, OneInHand, HandKnown, ReplyFull, LiqKnown, NoLiq, NoTaskLost, Start
<1>4. QED
  BY <1>2, <1>3 DEF IInv

(* cancel_order deletes ready rows, which nobody holds.                    *)
LEMMA CancelFromQueueKeeps ==
    ASSUME IInv, NEW o \in Orders, CancelFromQueue(o)
    PROVE  IInv'
<1>1. PICK i \in FindOrderTask(o) :
          /\ space' = WithoutRow(space, i)
          /\ withdrawn' = withdrawn \cup {space[i].timestamp}
  BY DEF CancelFromQueue
<1>2. i \in TaskIds /\ space[i].status = "ready"
  BY DEF FindOrderTask, ReadyIn, TaskIds
<1>3. DOMAIN space' = TaskIds \ {i} /\ \A j \in TaskIds \ {i} : space'[j] = space[j]
  BY <1>1 DEF WithoutRow, TaskIds
<1>4. space[i].timestamp \in Nat
  BY <1>2 DEF IInv, TypeOK, TaskT
<1>5. TypeOK'
  BY <1>1, <1>3, <1>4 DEF IInv, TypeOK, TaskIds, CancelFromQueue
<1>6. i \notin DOMAIN taken
  BY <1>2 DEF IInv, OneInHand
<1>7. OneInHand' /\ HandKnown' /\ ReplyFull' /\ LiqKnown'
  BY <1>2, <1>3, <1>6 DEF IInv, OneInHand, HandKnown, ReplyFull, LiqKnown, TaskIds,
                          CancelFromQueue
<1>8. NoTaskLost'
  BY <1>1, <1>3 DEF IInv, NoTaskLost, TaskIds, CancelFromQueue
<1>9. QED
  BY <1>5, <1>7, <1>8 DEF IInv

(* Each request that puts a task keeps the invariant.                      *)
LEMMA RequestsKeep ==
    ASSUME IInv,
           \/ \E o \in Orders : NewOrder(o) \/ CancelOrder(o) \/ AmendOrder(o)
                                \/ ExecuteOrder(o)
           \/ \E p \in Profiles : CancelAll(p)
           \/ QueueLiqActions
    PROVE  IInv'
<1>1. ASSUME NEW o \in Orders, NewOrder(o) PROVE IInv'
  <2>1. ClientTask("create", o, Owner[o]) \in TaskT
        /\ ClientTask("create", o, Owner[o]).timestamp = clock
    BY TaskType, QueueAssumption DEF IInv, ClientActions
  <2>2. QED
    BY <1>1, <2>1, PutKeeps DEF NewOrder, IInv, TypeOK, LiqKnown
<1>2. ASSUME NEW o \in Orders, CancelOrder(o) PROVE IInv'
  <2>1. ClientTask("cancel", o, Owner[o]) \in TaskT
        /\ ClientTask("cancel", o, Owner[o]).timestamp = clock
    BY TaskType, QueueAssumption DEF IInv, ClientActions
  <2>2. QED
    BY <1>2, <2>1, PutKeeps DEF CancelOrder, IInv, TypeOK, LiqKnown
<1>3. ASSUME NEW o \in Orders, AmendOrder(o) PROVE IInv'
  <2>1. ClientTask("amend", o, Owner[o]) \in TaskT
        /\ ClientTask("amend", o, Owner[o]).timestamp = clock
    BY TaskType, QueueAssumption DEF IInv, ClientActions
  <2>2. QED
    BY <1>3, <2>1, PutKeeps DEF AmendOrder, IInv, TypeOK, LiqKnown
<1>4. ASSUME NEW o \in Orders, ExecuteOrder(o) PROVE IInv'
  <2>1. ClientTask("execute", o, Owner[o]) \in TaskT
        /\ ClientTask("execute", o, Owner[o]).timestamp = clock
    BY TaskType, QueueAssumption DEF IInv, ClientActions
  <2>2. QED
    BY <1>4, <2>1, PutKeeps DEF ExecuteOrder, IInv, TypeOK, LiqKnown
<1>5. ASSUME NEW p \in Profiles, CancelAll(p) PROVE IInv'
  <2>1. ClientTask("cancelall", Nil, p) \in TaskT
        /\ ClientTask("cancelall", Nil, p).timestamp = clock
    BY TaskType DEF IInv, ClientActions
  <2>2. QED
    BY <1>5, <2>1, PutKeeps DEF CancelAll, IInv, TypeOK, LiqKnown
<1>6. ASSUME QueueLiqActions PROVE IInv'
  <2>1. liq.profile \in Profiles /\ liq.asked \in SUBSET Nat
    BY <1>6 DEF IInv, LiqKnown, QueueLiqActions, TypeOK, LiqT
  <2>2. UrgentTask("liquidate", liq.profile, liq.asked) \in TaskT
        /\ UrgentTask("liquidate", liq.profile, liq.asked).timestamp = clock
    BY <2>1, TaskType DEF IInv, Actions
  <2>3. NoLiq \in LiqT /\ LiqKnown'
    BY <1>6 DEF NoLiq, LiqT, LiqKnown, QueueLiqActions
  <2>4. QED
    BY <1>6, <2>2, <2>3, PutKeeps DEF QueueLiqActions, IInv, TypeOK
<1>7. QED
  BY <1>1, <1>2, <1>3, <1>4, <1>5, <1>6

(* The liquidation service's requests keep the invariant.                  *)
LEMMA LiquidationKeeps ==
    ASSUME IInv,
           \/ \E p \in Profiles : HighPriorityCancelAll(p)
           \/ CancelAllAccepted
           \/ CancelAllTimeout
    PROVE  IInv'
<1>1. ASSUME NEW p \in Profiles, HighPriorityCancelAll(p) PROVE IInv'
  <2> DEFINE task == UrgentTask("cancelall", p, {})
  <2>1. task \in TaskT /\ task.timestamp = clock
    BY TaskType DEF IInv, Actions, ClientActions
  <2>2. LiqKnown'
    BY <1>1 DEF HighPriorityCancelAll, LiqKnown
  <2>3. CASE Put(task)
    <3>1. \A i \in DOMAIN space' : space'[i].timestamp \in Nat
      <4>1. PICK k \in Nat : /\ DOMAIN space' = TaskIds \cup {k}
                             /\ space'[k] = task
                             /\ \A j \in TaskIds : space'[j] = space[j]
        BY <2>1, <2>3, PutAdds DEF IInv
      <4>2. \A j \in TaskIds : space[j].timestamp \in Nat
        BY DEF IInv, TypeOK, TaskT
      <4>3. task.timestamp \in Nat
        BY <2>1 DEF IInv, TypeOK
      <4>4. QED
        BY <4>1, <4>2, <4>3
    <3>2. liq' \in LiqT
      BY <1>1, <3>1 DEF HighPriorityCancelAll, LiqT, PendingCancelAll
    <3>3. QED
      BY <1>1, <2>1, <2>2, <2>3, <3>2, PutKeeps DEF HighPriorityCancelAll, IInv, TypeOK
  <2>4. CASE UNCHANGED <<space, clock>>
    <3>1. \A i \in DOMAIN space' : space'[i].timestamp \in Nat
      BY <2>4 DEF IInv, TypeOK, TaskT, TaskIds
    <3>2. liq' \in LiqT
      BY <1>1, <3>1 DEF HighPriorityCancelAll, LiqT, PendingCancelAll
    <3>3. QED
      BY <1>1, <2>2, <2>4, <3>2 DEF HighPriorityCancelAll, IInv, TypeOK, OneInHand,
            HandKnown, ReplyFull, NoTaskLost, TaskIds
  <2>5. QED
    BY <1>1, <2>3, <2>4 DEF HighPriorityCancelAll
<1>2. ASSUME CancelAllAccepted PROVE IInv'
  BY <1>2 DEF CancelAllAccepted, IInv, TypeOK, OneInHand, HandKnown, ReplyFull,
              LiqKnown, LiqT, NoTaskLost, TaskIds
<1>3. ASSUME CancelAllTimeout PROVE IInv'
  BY <1>3 DEF CancelAllTimeout, IInv, TypeOK, OneInHand, HandKnown, ReplyFull,
              LiqKnown, NoLiq, LiqT, NoTaskLost, TaskIds
<1>4. QED
  BY <1>1, <1>2, <1>3

(* Taking from a space in which nothing is registered taken, and in which  *)
(* no unhandled task is missing, keeps the invariant.                      *)
LEMMA TakeKeeps ==
    ASSUME IInv, NEW sp, NEW tk,
           \/ TakeOrWait(sp, tk)
           \/ \E i \in DOMAIN sp : TakeFrom(sp, tk, i) \/ TakeFails(sp, tk, i),
           DOMAIN sp \subseteq Nat, \A i \in DOMAIN sp : sp[i] \in TaskT,
           DOMAIN tk = {},
           \A n \in 0..(clock - 1) :
              n \in handled \cup withdrawn \/ \E i \in DOMAIN sp : sp[i].timestamp = n,
           UNCHANGED <<clock, orders, liq, issued, canceled, handled, withdrawn, failures>>
    PROVE  IInv'
<1>1. ASSUME NEW i \in DOMAIN sp, TakeFrom(sp, tk, i) PROVE IInv'
  <2>1. /\ DOMAIN space' = DOMAIN sp
        /\ space'[i] = [sp[i] EXCEPT !.status = "taken"]
        /\ \A j \in DOMAIN sp : j # i => space'[j] = sp[j]
    BY <1>1 DEF TakeFrom
  <2>2. space'[i] \in TaskT /\ space'[i].status = "taken"
        /\ space'[i].timestamp = sp[i].timestamp
    BY <2>1 DEF TaskT
  <2>3. \A j \in DOMAIN sp : space'[j] \in TaskT /\ space'[j].timestamp = sp[j].timestamp
    BY <2>1, <2>2
  <2>4. DOMAIN taken' = {i} /\ taken'[i] = loop.session
    BY <1>1 DEF TakeFrom, WithRow
  <2>5. /\ loop'.pc = "reply" /\ loop'.id = i /\ loop'.task = space'[i]
        /\ loop'.session = loop.session /\ loop' \in LoopT
    BY <1>1, <2>2 DEF TakeFrom, IInv, TypeOK, LoopT
  <2>6. TypeOK'
    BY <2>1, <2>3, <2>4, <2>5 DEF IInv, TypeOK, TaskIds, LoopT
  <2>7. OneInHand' /\ HandKnown' /\ ReplyFull' /\ LiqKnown'
    BY <2>1, <2>2, <2>4, <2>5 DEF IInv, OneInHand, HandKnown, ReplyFull, LiqKnown, TaskIds
  <2>8. NoTaskLost'
    BY <2>1, <2>3 DEF NoTaskLost, TaskIds
  <2>9. QED
    BY <2>6, <2>7, <2>8 DEF IInv
<1>2. ASSUME space' = sp, taken' = tk, NEW pc \in {"call", "wait"},
             loop' = [loop EXCEPT !.pc = pc]
      PROVE  IInv'
  <2>1. TypeOK'
    BY <1>2 DEF IInv, TypeOK, LoopT, TaskIds
  <2>2. OneInHand' /\ HandKnown' /\ LiqKnown'
    BY <1>2 DEF IInv, OneInHand, HandKnown, LiqKnown
  <2>3. ReplyFull'
    BY <1>2 DEF ReplyFull, IInv, TypeOK, LoopT
  <2>4. NoTaskLost'
    BY <1>2 DEF NoTaskLost, TaskIds
  <2>5. QED
    BY <2>1, <2>2, <2>3, <2>4 DEF IInv
<1>3. QED
  BY <1>1, <1>2 DEF TakeOrWait, TakeFails

(* The engine's calls of next_task keep the invariant.  An acknowledgement *)
(* deletes a task that has been handled: the row it deletes is registered  *)
(* in the loop's session, so it is the task the loop was given last.       *)
LEMMA CallsKeep ==
    ASSUME IInv, AckAndTake \/ FirstTake \/ WaitedTake
    PROVE  IInv'
<1>1. ASSUME AckAndTake PROVE IInv'
  <2> DEFINE n == loop.task_id
             sp == WithoutRow(space, n)
             tk == WithoutRow(taken, n)
  <2>1. /\ loop.pc = "call" /\ n \in DOMAIN taken
        /\ TakeOrWait(sp, tk)
        /\ UNCHANGED <<clock, orders, liq, issued, canceled, handled, withdrawn, failures>>
    BY <1>1 DEF AckAndTake, CheckTaskIsTaken
  <2>2. n \in TaskIds /\ space[n].timestamp \in handled
    BY <2>1 DEF IInv, OneInHand, HandKnown
  <2>3. \A i \in DOMAIN taken : i = n
    BY <2>1 DEF IInv, OneInHand
  <2>4. DOMAIN tk = {}
    BY <2>3 DEF WithoutRow
  <2>5. /\ DOMAIN sp = TaskIds \ {n}
        /\ \A i \in DOMAIN sp : sp[i] = space[i]
    BY DEF WithoutRow, TaskIds
  <2>6. DOMAIN sp \subseteq Nat /\ \A i \in DOMAIN sp : sp[i] \in TaskT
    BY <2>5 DEF IInv, TypeOK, TaskIds
  <2>7. \A m \in 0..(clock - 1) :
           m \in handled \cup withdrawn \/ \E i \in DOMAIN sp : sp[i].timestamp = m
    BY <2>2, <2>5 DEF IInv, NoTaskLost
  <2>8. QED
    BY <2>1, <2>4, <2>5, <2>6, <2>7, TakeKeeps
<1>2. ASSUME FirstTake PROVE IInv'
  <2>1. DOMAIN taken = {}
    BY <1>2, QueueAssumption DEF FirstTake, IInv, TypeOK, OneInHand
  <2>2. QED
    BY <1>2, <2>1, TakeKeeps DEF FirstTake, IInv, TypeOK, NoTaskLost, TaskIds
<1>3. ASSUME WaitedTake PROVE IInv'
  <2>1. DOMAIN taken = {}
    BY <1>3 DEF WaitedTake, IInv, HandKnown
  <2>2. QED
    BY <1>3, <2>1, TakeKeeps DEF WaitedTake, IInv, TypeOK, NoTaskLost, TaskIds
<1>4. QED
  BY <1>1, <1>2, <1>3

(* Receiving and handling a task keep the invariant.                       *)
LEMMA LoopKeeps ==
    ASSUME IInv, Receive \/ Handle
    PROVE  IInv'
<1>1. ASSUME Receive PROVE IInv'
  <2>1. loop.id \in Nat /\ loop.task \in TaskT
    BY <1>1 DEF Receive, IInv, ReplyFull
  <2>2. /\ loop' \in LoopT /\ loop'.pc = "handle" /\ loop'.task_id = loop.id
        /\ loop'.session = loop.session /\ loop'.task = loop.task
    BY <1>1, <2>1 DEF Receive, IInv, TypeOK, LoopT
  <2>3. TypeOK'
    BY <1>1, <2>2 DEF Receive, IInv, TypeOK, TaskIds
  <2>4. OneInHand' /\ HandKnown' /\ ReplyFull' /\ LiqKnown' /\ NoTaskLost'
    BY <1>1, <2>1, <2>2 DEF Receive, IInv, OneInHand, HandKnown, ReplyFull, LiqKnown,
                            NoTaskLost, TaskIds
  <2>5. QED
    BY <2>3, <2>4 DEF IInv
<1>2. ASSUME Handle PROVE IInv'
  <2>1. loop.pc = "handle" /\ loop.task.timestamp \in Nat
    BY <1>2 DEF Handle, IInv, ReplyFull, TaskT
  <2>2. /\ loop' \in LoopT /\ loop'.pc = "call" /\ loop'.task_id = loop.task_id
        /\ loop'.session = loop.session
    BY <1>2 DEF Handle, IInv, TypeOK, LoopT
  <2>3. TypeOK'
    BY <1>2, <2>1, <2>2 DEF Handle, IInv, TypeOK, TaskIds
  <2>4. OneInHand' /\ ReplyFull' /\ LiqKnown' /\ NoTaskLost'
    BY <1>2, <2>1, <2>2 DEF Handle, IInv, OneInHand, ReplyFull, LiqKnown, NoTaskLost, TaskIds
  <2>5. HandKnown'
    BY <1>2, <2>1, <2>2 DEF Handle, IInv, HandKnown
  <2>6. QED
    BY <2>3, <2>4, <2>5 DEF IInv
<1>3. QED
  BY <1>1, <1>2

(* The end of a session empties _queue_taken_2 and changes at most the     *)
(* status of a row.                                                        *)
LEMMA SessionEnds ==
    ASSUME IInv, EndSession
    PROVE  /\ DOMAIN taken' = {}
           /\ DOMAIN space' = TaskIds
           /\ \A i \in TaskIds : space'[i] \in TaskT
                             /\ space'[i].timestamp = space[i].timestamp
<1>1. DOMAIN taken' = {}
  BY DEF EndSession, IInv, OneInHand
<1>2. CASE space' = space
  BY <1>1, <1>2 DEF IInv, TypeOK, TaskIds
<1>3. ASSUME NEW i \in DOMAIN taken, space' = [space EXCEPT ![i].status = "ready"]
      PROVE  /\ DOMAIN space' = TaskIds
             /\ \A j \in TaskIds : space'[j] \in TaskT
                               /\ space'[j].timestamp = space[j].timestamp
  <2>1. i \in TaskIds /\ space[i] \in TaskT
    BY DEF IInv, OneInHand, TypeOK
  <2>2. /\ DOMAIN space' = TaskIds
        /\ space'[i] = [space[i] EXCEPT !.status = "ready"]
        /\ \A j \in TaskIds : j # i => space'[j] = space[j]
    BY <1>3, <2>1 DEF TaskIds
  <2>3. space'[i] \in TaskT /\ space'[i].timestamp = space[i].timestamp
    BY <2>1, <2>2 DEF TaskT
  <2>4. \A j \in TaskIds : space[j] \in TaskT
    BY DEF IInv, TypeOK
  <2>5. QED
    BY <2>2, <2>3, <2>4
<1>4. QED
  BY <1>1, <1>2, <1>3 DEF EndSession, Released

(* Losing the connection and crashing keep the invariant.                  *)
LEMMA FailuresKeep ==
    ASSUME IInv, Drop \/ Crash
    PROVE  IInv'
<1>1. EndSession /\ UNCHANGED <<clock, orders, liq, issued, canceled, handled, withdrawn>>
  BY DEF Drop, Crash
<1>2. /\ DOMAIN taken' = {}
      /\ DOMAIN space' = TaskIds
      /\ \A i \in TaskIds : space'[i] \in TaskT
                        /\ space'[i].timestamp = space[i].timestamp
  BY <1>1, SessionEnds
<1>3. loop' \in LoopT
      /\ (loop'.pc = "call" \/ (loop'.pc = "handle" /\ loop.pc = "handle"
                                /\ loop'.task = loop.task))
  <2>1. loop \in LoopT
    BY DEF IInv, TypeOK
  <2>2. CASE Crash
    <3>1. loop' = Start(loop.session + 1) /\ loop.session + 1 \in Nat
      BY <2>1, <2>2 DEF Crash, LoopT
    <3>2. QED
      BY <3>1 DEF Start, LoopT
  <2>3. CASE Drop /\ loop.pc = "handle"
    <3>1. loop' = [loop EXCEPT !.session = loop.session + 1]
      BY <2>3 DEF Drop
    <3>2. QED
      BY <2>1, <2>3, <3>1 DEF LoopT
  <2>4. CASE Drop /\ loop.pc # "handle"
    <3>1. loop' = [loop EXCEPT !.pc = "call", !.session = loop.session + 1,
                               !.id = Nil, !.task = Nil]
      BY <2>4 DEF Drop
    <3>2. loop.session + 1 \in Nat
      BY <2>1 DEF LoopT
    <3>3. QED
      BY <2>1, <3>1, <3>2 DEF LoopT
  <2>5. QED
    BY <2>2, <2>3, <2>4
<1>4. failures' \in [drops : Nat, crashes : Nat]
  BY DEF Drop, Crash, IInv, TypeOK
<1>5. TypeOK'
  BY <1>1, <1>2, <1>3, <1>4 DEF IInv, TypeOK, TaskIds
<1>6. OneInHand' /\ HandKnown' /\ ReplyFull' /\ LiqKnown' /\ NoTaskLost'
  BY <1>1, <1>2, <1>3 DEF IInv, OneInHand, HandKnown, ReplyFull, LiqKnown, NoTaskLost, TaskIds
<1>7. QED
  BY <1>5, <1>6 DEF IInv

(* The inductive invariant.                                                *)
THEOREM QueueInvariance == Spec => []IInv
<1>1. Init => IInv
  BY InitHolds
<1>2. IInv /\ [Next]_vars => IInv'
  <2> SUFFICES ASSUME IInv, [Next]_vars PROVE IInv'
    OBVIOUS
  <2>1. CASE UNCHANGED vars
    BY <2>1 DEF vars, IInv, TypeOK, OneInHand, HandKnown, ReplyFull, LiqKnown, NoTaskLost, TaskIds
  <2>2. CASE Next
    BY <2>1, <2>2, CancelFromQueueKeeps, RequestsKeep, LiquidationKeeps, CallsKeep,
       LoopKeeps, FailuresKeep DEF Next, AckFails
  <2>3. QED
    BY <2>1, <2>2
<1>3. QED
  BY <1>1, <1>2, PTL DEF Spec

(* The state of queue, loop and services keeps its types.                  *)
THEOREM QueueTypeCorrect == Spec => []TypeOK
<1>1. IInv => TypeOK
  BY DEF IInv
<1>2. QED
  BY <1>1, QueueInvariance, PTL

(* The engine never holds two tasks, however often connections are lost    *)
(* and the engine crashes.                                                 *)
THEOREM SingleTask == Spec => []OneInHand
<1>1. IInv => OneInHand
  BY DEF IInv
<1>2. QED
  BY <1>1, QueueInvariance, PTL

(* No task leaves the queue before the engine has handled it, unless       *)
(* cancel_order deletes it: delivery is at least once across connection    *)
(* losses, crashes and reused task ids.                                    *)
THEOREM AtLeastOnce == Spec => []NoTaskLost
<1>1. IInv => NoTaskLost
  BY DEF IInv
<1>2. QED
  BY <1>1, QueueInvariance, PTL

(* The hand-over as a whole: whatever drops, crashes and reused ids, the   *)
(* engine has one task at most and no task is lost.                        *)
THEOREM QueueSafe == Spec => []QueueKeepsTasks
<1>1. TypeOK /\ OneInHand /\ NoTaskLost => QueueKeepsTasks
  BY DEF QueueKeepsTasks
<1>2. QED
  BY <1>1, QueueTypeCorrect, SingleTask, AtLeastOnce, PTL

=============================================================================
