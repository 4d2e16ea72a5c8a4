------------------------------- MODULE TaskQueue -------------------------------
(***************************************************************************)
(* The task queue of one market and everyone who uses it.                  *)
(*                                                                         *)
(* The gateway keeps the queue (tqueue/abstract.lua, driver/pqueue.lua,    *)
(* enginequeue.lua); clients put tasks through api/public.lua, the         *)
(* slipstopper and the liquidation service through api/internal.lua; the   *)
(* engine's main loop (engine.lua, _start_loop) acknowledges one task and  *)
(* takes the next with the call next_task.  The connection between engine  *)
(* and gateway may drop and the engine process may crash: the queue then   *)
(* releases the tasks of the dead session.                                 *)
(*                                                                         *)
(* What a task does to the order book is Engine.tla's subject.  Here an    *)
(* order is unknown to the engine, live or final.                          *)
(*                                                                         *)
(* A gateway request runs without a yield between what it reads from the   *)
(* queue and what it writes there; each is one action.  next_task is two:  *)
(* the gateway's part and the arrival of the reply.                        *)
(***************************************************************************)
EXTENDS Integers, FiniteSets

CONSTANTS
    Orders,       \* order ids
    Conditional,  \* the orders the slipstopper asks the engine to execute
    Profiles,     \* profiles
    Owner,        \* [Orders -> Profiles]
    Rank,         \* priority of a client's tasks: [client actions -> Nat]
    TotalSize,    \* QUEUE_LIMITS.TOTAL_SIZE
    MaxPuts,      \* bound: tasks put in one behaviour
    MaxDrops,     \* bound: connections lost between engine and gateway
    MaxCrashes,   \* bound: crashes of the engine process
    Nil           \* no task, no order, no profile

ClientActions == {"create", "cancel", "amend", "execute", "cancelall"}
Actions       == ClientActions \cup {"liquidate"}

ASSUME QueueAssumption ==
    /\ Owner \in [Orders -> Profiles]
    /\ Conditional \subseteq Orders
    /\ Rank \in [ClientActions -> Nat]
    /\ TotalSize \in Nat /\ MaxPuts \in Nat
    /\ MaxDrops \in Nat /\ MaxCrashes \in Nat
    /\ Nil \notin Nat /\ Nil \notin Orders

(* equeue.highest_priority: before every client task.                      *)
Highest == -1

(* A row of the tube's space.  rank stands for (o_priority, i_priority),   *)
(* timestamp counts puts and so names the task: task ids are reused.  The  *)
(* field after is history: the cancelall tasks a liquidation has waited    *)
(* for.                                                                    *)
TaskT == [status : {"ready", "taken"}, action : Actions,
          order : Orders \cup {Nil}, profile : Profiles, rank : Int,
          timestamp : Nat, after : SUBSET Nat]

VARIABLES
    space,     \* the tube's space: a function from task ids to rows
    taken,     \* _queue_taken_2: session of each task that is registered taken
    clock,     \* timestamp of the next put
    loop,      \* the engine's main loop
    orders,    \* what the engine has done with each order
    liq,       \* the liquidation service, one profile at a time
    issued,    \* order ids handed out
    canceled,  \* orders a client was told are CANCELED, straight from the queue
    handled,   \* history: timestamps of the tasks the engine has handled
    withdrawn, \* history: timestamps of the tasks cancel_order deleted
    failures   \* connections lost and crashes so far

vars == <<space, taken, clock, loop, orders, liq, issued, canceled, handled,
          withdrawn, failures>>

(* The loop's task_id is the last task it received, Nil after a start.     *)
(* id and task are the reply of next_task that is under way or in hand.    *)
LoopT == [pc : {"call", "wait", "reply", "handle"}, task_id : Nat \cup {Nil},
          session : Nat, id : Nat \cup {Nil}, task : TaskT \cup {Nil}]

Start(n) == [pc |-> "call", task_id |-> Nil, session |-> n, id |-> Nil,
             task |-> Nil]

LiqT == [pc : {"idle", "wait", "accepted"}, profile : Profiles \cup {Nil},
         asked : SUBSET Nat]

NoLiq == [pc |-> "idle", profile |-> Nil, asked |-> {}]

Init ==
    /\ space = << >>
    /\ taken = << >>
    /\ clock = 0
    /\ loop = Start(0)
    /\ orders = [o \in Orders |-> "none"]
    /\ liq = NoLiq
    /\ issued = {}
    /\ canceled = {}
    /\ handled = {}
    /\ withdrawn = {}
    /\ failures = [drops |-> 0, crashes |-> 0]

-------------------------------------------------------------------------------
(* The tube.                                                               *)

TaskIds == DOMAIN space

WithRow(f, i, row) == [j \in DOMAIN f \cup {i} |-> IF j = i THEN row ELSE f[j]]
WithoutRow(f, i) == [j \in DOMAIN f \ {i} |-> f[j]]

(* The order_id column: create and execute tasks carry the order's id,     *)
(* the others a prefixed one, a liquidation a fresh one.                   *)
KeyClass(action) == IF action = "execute" THEN "create" ELSE action

SameKey(a, b) ==
    /\ a.profile = b.profile
    /\ KeyClass(a.action) = KeyClass(b.action)
    /\ a.order = b.order
    /\ a.action # "liquidate"

NewTask(action, o, p, rank, after) ==
    [status |-> "ready", action |-> action, order |-> o, profile |-> p,
     rank |-> rank, timestamp |-> clock, after |-> after]

(* equeue.put: the priority comes from the tables.                         *)
ClientTask(action, o, p) == NewTask(action, o, p, Rank[action], {})

(* equeue.put_with_highest_priority.                                       *)
UrgentTask(action, p, after) == NewTask(action, Nil, p, Highest, after)

(* The unique index by_profile_id_order_id holds at most one row per       *)
(* status, profile and order id.                                           *)
Clashes(sp, task, status) ==
    \E j \in DOMAIN sp : sp[j].status = status /\ SameKey(sp[j], task)

(* find_task sees ready tasks only.                                        *)
FindTask(task) == Clashes(space, task, "ready")

(* put inserts with the id that follows the largest one in use.            *)
IsNextId(i) ==
    IF TaskIds = {} THEN i = 0 ELSE i - 1 \in TaskIds /\ \A j \in TaskIds : j < i

Put(task) ==
    /\ clock < MaxPuts
    /\ ~FindTask(task)
    /\ clock' = clock + 1
    /\ \E i \in 0..clock : IsNextId(i) /\ space' = WithRow(space, i, task)

(* The index by_inside_outside_priority_timestamp.                         *)
Before(a, b) == a.rank < b.rank \/ (a.rank = b.rank /\ a.timestamp <= b.timestamp)

ReadyIn(sp) == {i \in DOMAIN sp : sp[i].status = "ready"}

IsFirst(sp, i) ==
    i \in ReadyIn(sp) /\ \A j \in ReadyIn(sp) : Before(sp[i], sp[j])

CheckTaskIsTakenById(i, session) == i \in TaskIds

(* check_task_is_taken: registered, and in the session of the caller.      *)
CheckTaskIsTaken(i, session) == i \in DOMAIN taken /\ taken[i] = session

(* release: the task is ready again.  When a ready task holds its key the  *)
(* update fails on the unique index, after the row of _queue_taken_2 is    *)
(* gone: the task stays taken and nobody has it.                           *)
Released(i) ==
    IF Clashes(space, space[i], "ready") THEN space
    ELSE [space EXCEPT ![i].status = "ready"]

-------------------------------------------------------------------------------
(* The public API.                                                         *)

BelowLimit == Cardinality(TaskIds) < TotalSize

(* new_order: an id is handed out once.                                    *)
NewOrder(o) ==
    /\ o \notin issued
    /\ BelowLimit
    /\ Put(ClientTask("create", o, Owner[o]))
    /\ issued' = issued \cup {o}
    /\ UNCHANGED <<taken, loop, orders, liq, canceled, handled, withdrawn, failures>>

FindAnyTask(o) ==
    {i \in TaskIds : SameKey(space[i], ClientTask("create", o, Owner[o]))}

(* The ready task that carries the order's own id.                         *)
FindOrderTask(o) ==
    {i \in ReadyIn(space) : SameKey(space[i], ClientTask("create", o, Owner[o]))}

(* cancel_order: a task that carries the order's id is deleted and the     *)
(* client is told the order is CANCELED ...                                *)
CancelFromQueue(o) ==
    /\ o \in issued
    /\ BelowLimit
    /\ \E i \in FindOrderTask(o) :
          /\ space' = WithoutRow(space, i)
          /\ withdrawn' = withdrawn \cup {space[i].timestamp}
    /\ canceled' = canceled \cup {o}
    /\ UNCHANGED <<taken, clock, loop, orders, liq, issued, handled, failures>>

(* ... without one the engine is asked to cancel.  A second cancel of the  *)
(* order is refused while the first is ready.                              *)
CancelOrder(o) ==
    /\ o \in issued
    /\ BelowLimit
    /\ FindOrderTask(o) = {}
    /\ Put(ClientTask("cancel", o, Owner[o]))
    /\ UNCHANGED <<taken, loop, orders, liq, issued, canceled, handled, withdrawn, failures>>

(* amend_order: the engine has to know the order, and none of its tasks    *)
(* may be ready.                                                           *)
AmendOrder(o) ==
    /\ orders[o] # "none"
    /\ BelowLimit
    /\ FindOrderTask(o) = {}
    /\ Put(ClientTask("amend", o, Owner[o]))
    /\ UNCHANGED <<taken, loop, orders, liq, issued, canceled, handled, withdrawn, failures>>

(* cancel_all of a client: nothing is put while one is ready.              *)
CancelAll(p) ==
    /\ Put(ClientTask("cancelall", Nil, p))
    /\ UNCHANGED <<taken, loop, orders, liq, issued, canceled, handled, withdrawn, failures>>

-------------------------------------------------------------------------------
(* The internal API.                                                       *)

(* execute_order, called by the slipstopper for an order the engine has    *)
(* placed; what the slipstopper knows may be out of date.                  *)
ExecuteOrder(o) ==
    /\ o \in Conditional
    /\ orders[o] # "none"
    /\ Put(ClientTask("execute", o, Owner[o]))
    /\ UNCHANGED <<taken, loop, orders, liq, issued, canceled, handled, withdrawn, failures>>

(* The cancelall tasks of p that the engine has yet to handle.             *)
PendingCancelAll(sp, p) ==
    {sp[i].timestamp : i \in {j \in DOMAIN sp :
        sp[j].action = "cancelall" /\ sp[j].profile = p}} \ handled

(* high_priority_cancell_all, the first half of WaitForCancellAllAccepted: *)
(* a cancelall that is already ready is left as it is.                     *)
HighPriorityCancelAll(p) ==
    LET task == UrgentTask("cancelall", p, {})
    IN  /\ liq.pc = "idle"
        /\ \/ Put(task)
           \/ FindTask(task) /\ UNCHANGED <<space, clock>>
        /\ liq' = [pc |-> "wait", profile |-> p,
                   asked |-> PendingCancelAll(space', p)]
        /\ UNCHANGED <<taken, loop, orders, issued, canceled, handled, withdrawn, failures>>

(* is_cancel_all_accepted: no ready cancelall of the profile.              *)
CancelAllAccepted ==
    /\ liq.pc = "wait"
    /\ ~FindTask(UrgentTask("cancelall", liq.profile, {}))
    /\ liq' = [liq EXCEPT !.pc = "accepted"]
    /\ UNCHANGED <<space, taken, clock, loop, orders, issued, canceled, handled,
                   withdrawn, failures>>

(* The service gives up after 20 polls and turns to the next profile.      *)
CancelAllTimeout ==
    /\ liq.pc = "wait"
    /\ FindTask(UrgentTask("cancelall", liq.profile, {}))
    /\ liq' = NoLiq
    /\ UNCHANGED <<space, taken, clock, loop, orders, issued, canceled, handled,
                   withdrawn, failures>>

(* queue_liq_actions for the profile the service has waited for.           *)
QueueLiqActions ==
    /\ liq.pc = "accepted"
    /\ Put(UrgentTask("liquidate", liq.profile, liq.asked))
    /\ liq' = NoLiq
    /\ UNCHANGED <<taken, loop, orders, issued, canceled, handled, withdrawn, failures>>

-------------------------------------------------------------------------------
(* The engine's main loop and next_task.                                   *)

(* on_task_change: a task that becomes taken is registered with the        *)
(* session of the caller.                                                  *)
Registered(tk, i, session) == WithRow(tk, i, session)

(* take in the space sp: the first ready task goes to the caller.  The     *)
(* update fails when a taken task holds its key.                           *)
TakeFrom(sp, tk, i) ==
    /\ IsFirst(sp, i)
    /\ ~Clashes(sp, sp[i], "taken")
    /\ space' = [sp EXCEPT ![i].status = "taken"]
    /\ taken' = Registered(tk, i, loop.session)
    /\ loop' = [loop EXCEPT !.pc = "reply", !.id = i, !.task = space'[i]]

(* The reply carries an error or no task: the loop calls again.            *)
TakeFails(sp, tk, i) ==
    /\ IsFirst(sp, i)
    /\ Clashes(sp, sp[i], "taken")
    /\ space' = sp
    /\ taken' = tk
    /\ loop' = [loop EXCEPT !.pc = "call"]

TakeOrWait(sp, tk) ==
    \/ \E i \in DOMAIN sp : TakeFrom(sp, tk, i) \/ TakeFails(sp, tk, i)
    \/ /\ ReadyIn(sp) = {}
       /\ space' = sp
       /\ taken' = tk
       /\ loop' = [loop EXCEPT !.pc = "wait"]

(* next_task of a loop that has a task to acknowledge.                     *)
AckAndTake ==
    /\ loop.pc = "call" /\ loop.task_id # Nil
    /\ CheckTaskIsTaken(loop.task_id, loop.session)
    /\ TakeOrWait(WithoutRow(space, loop.task_id), WithoutRow(taken, loop.task_id))
    /\ UNCHANGED <<clock, orders, liq, issued, canceled, handled, withdrawn, failures>>

(* A task that is not taken in this session cannot be acknowledged: the    *)
(* loop sees a reply without a task and calls again.                       *)
AckFails ==
    /\ loop.pc = "call" /\ loop.task_id # Nil
    /\ ~CheckTaskIsTaken(loop.task_id, loop.session)
    /\ UNCHANGED vars

(* next_task after a start of the engine.                                  *)
FirstTake ==
    /\ loop.pc = "call" /\ loop.task_id = Nil
    /\ TakeOrWait(space, taken)
    /\ UNCHANGED <<clock, orders, liq, issued, canceled, handled, withdrawn, failures>>

(* A task was put while the gateway's side of next_task was waiting.       *)
WaitedTake ==
    /\ loop.pc = "wait"
    /\ \E i \in TaskIds : TakeFrom(space, taken, i) \/ TakeFails(space, taken, i)
    /\ UNCHANGED <<clock, orders, liq, issued, canceled, handled, withdrawn, failures>>

(* The reply arrives: task_id is set before handle_task runs.              *)
Receive ==
    /\ loop.pc = "reply"
    /\ loop' = [loop EXCEPT !.pc = "handle", !.task_id = loop.id]
    /\ UNCHANGED <<space, taken, clock, orders, liq, issued, canceled, handled,
                   withdrawn, failures>>

(* What handle_task may leave of order o.  Any task may fail, a task that  *)
(* trades may fill other orders, a create whose order exists is refused.   *)
Outcomes(task, o) ==
    CASE orders[o] = "none" /\ task.action = "create" /\ task.order = o
           -> {"none", "live", "final"}
      [] orders[o] = "live" /\ task.action = "cancel"
           -> IF task.order = o THEN {"live", "final"} ELSE {"live"}
      [] orders[o] = "live" /\ task.action = "cancelall"
           -> IF task.profile = Owner[o] THEN {"live", "final"} ELSE {"live"}
      [] orders[o] = "live" /\ task.action \notin {"cancel", "cancelall"}
           -> {"live", "final"}
      [] OTHER -> {orders[o]}

Handle ==
    /\ loop.pc = "handle"
    /\ orders' \in {f \in [Orders -> {"none", "live", "final"}] :
                      \A o \in Orders : f[o] \in Outcomes(loop.task, o)}
    /\ handled' = handled \cup {loop.task.timestamp}
    /\ loop' = [loop EXCEPT !.pc = "call", !.id = Nil, !.task = Nil]
    /\ UNCHANGED <<space, taken, clock, liq, issued, canceled, withdrawn, failures>>

-------------------------------------------------------------------------------
(* Failures.  on_disconnect releases what the session holds.               *)

EndSession ==
    /\ taken' = [i \in {j \in DOMAIN taken : taken[j] # loop.session} |-> taken[i]]
    /\ IF \E i \in DOMAIN taken : taken[i] = loop.session
       THEN \E i \in DOMAIN taken : taken[i] = loop.session /\ space' = Released(i)
       ELSE space' = space

(* The connection drops.  A call that was under way fails and is repeated  *)
(* in a new session; a running handle_task goes on.                        *)
Drop ==
    /\ failures.drops < MaxDrops
    /\ failures' = [failures EXCEPT !.drops = @ + 1]
    /\ EndSession
    /\ loop' = IF loop.pc = "handle" THEN [loop EXCEPT !.session = @ + 1]
               ELSE [loop EXCEPT !.pc = "call", !.session = @ + 1,
                                 !.id = Nil, !.task = Nil]
    /\ UNCHANGED <<clock, orders, liq, issued, canceled, handled, withdrawn>>

(* The engine process dies and starts again.  What handle_task has         *)
(* committed stays.                                                        *)
Crash ==
    /\ failures.crashes < MaxCrashes
    /\ failures' = [failures EXCEPT !.crashes = @ + 1]
    /\ EndSession
    /\ loop' = Start(loop.session + 1)
    /\ UNCHANGED <<clock, orders, liq, issued, canceled, handled, withdrawn>>

-------------------------------------------------------------------------------
Next ==
    \/ \E o \in Orders : \/ NewOrder(o) \/ CancelFromQueue(o)
                         \/ CancelOrder(o) \/ AmendOrder(o) \/ ExecuteOrder(o)
    \/ \E p \in Profiles : CancelAll(p) \/ HighPriorityCancelAll(p)
    \/ CancelAllAccepted \/ CancelAllTimeout \/ QueueLiqActions
    \/ AckAndTake \/ AckFails \/ FirstTake \/ WaitedTake
    \/ Receive \/ Handle
    \/ Drop \/ Crash

Spec == Init /\ [][Next]_vars

(* The engine's fiber keeps running and the gateway answers its calls.     *)
LoopStep == AckAndTake \/ FirstTake \/ WaitedTake \/ Receive \/ Handle

Fairness == WF_vars(LoopStep)

FairSpec == Spec /\ Fairness

-------------------------------------------------------------------------------
(* Properties.                                                             *)

(* The types of the state.                                                 *)
TypeOK ==
    /\ DOMAIN space \subseteq Nat /\ \A i \in TaskIds : space[i] \in TaskT
    /\ DOMAIN taken \subseteq Nat /\ \A i \in DOMAIN taken : taken[i] \in Nat
    /\ clock \in Nat
    /\ loop \in LoopT
    /\ orders \in [Orders -> {"none", "live", "final"}]
    /\ liq \in LiqT
    /\ issued \subseteq Orders /\ canceled \subseteq Orders
    /\ handled \subseteq Nat /\ withdrawn \subseteq Nat
    /\ failures \in [drops : Nat, crashes : Nat]

(* The engine never works on two tasks: what _queue_taken_2 registers is   *)
(* at most the one task the engine was given last, it is taken, and it is  *)
(* registered in the connection's present session.                         *)
OneInHand ==
    \A i \in DOMAIN taken :
        /\ i \in TaskIds /\ space[i].status = "taken"
        /\ taken[i] = loop.session
        /\ i = IF loop.pc = "reply" THEN loop.id ELSE loop.task_id

(* No task disappears: a task that was put is still in the queue, or the   *)
(* engine has handled it, or cancel_order has deleted it.  Task ids are    *)
(* reused and acknowledgements are repeated over new connections, so an    *)
(* acknowledgement could delete a task the engine has never seen.          *)
NoTaskLost ==
    \A n \in 0..(clock - 1) :
        n \in handled \cup withdrawn \/ \E i \in TaskIds : space[i].timestamp = n

(* WaitForCancellAllAccepted guarantees "cancel all orders before moving   *)
(* forward": when the engine comes to liquidate a profile it has handled   *)
(* every cancelall that was pending when the liquidation service asked.    *)
CancelAllGuarantee ==
    loop.pc = "handle" /\ loop.task.action = "liquidate"
        => loop.task.after \subseteq handled

(* An order whose owner was told it is CANCELED is not live in the engine. *)
CanceledNotLive == \A o \in canceled : orders[o] # "live"

(* Every task that is put is handled, or deleted by cancel_order.          *)
TasksAreHandled ==
    <>[](\A n \in 0..(clock - 1) : n \in handled \cup withdrawn)

(* The hand-over survives dropped connections, crashes and reused ids: the *)
(* engine has one task in hand at most, and no task is lost before it was  *)
(* handled (next_task, release_session_tasks).                             *)
QueueKeepsTasks ==
    TypeOK /\ OneInHand /\ NoTaskLost

(* What callers were told holds as long as nothing fails: a liquidation    *)
(* comes after the orders it waited to be canceled, a canceled order does  *)
(* not live, and every task is handled (cancel_order,                      *)
(* is_cancel_all_accepted, _start_loop).                                   *)
RequestsHonoured ==
    [](CancelAllGuarantee /\ CanceledNotLive) /\ TasksAreHandled

=============================================================================
