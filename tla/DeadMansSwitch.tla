----------------------------- MODULE DeadMansSwitch -----------------------------
(* The dead man's switch (src/model/tnt/app/api/deadman.lua): when a       *)
(* profile makes no request for a time of its choice, a fiber of the       *)
(* gateway puts a cancelall task into the queue of every market.  The      *)
(* queues give tasks in the order they were put, as they do without        *)
(* priorities (TaskQueue has those).                                       *)
EXTENDS Integers, SequencesExt

CONSTANTS
    DmProfiles,
    DmOrders,       \* orders
    DmOwner,        \* [DmOrders -> DmProfiles]
    DmMarkets,      \* config.markets
    DmMarket,       \* [DmOrders -> DmMarkets]
    DmTimeouts,     \* timeouts that clients ask for
    DefaultSleep,   \* DEFAULT_SLEEP
    MaxDmTime,      \* bound: time
    MaxDmRequests,  \* bound: requests of clients
    MaxDmRestarts   \* bound: restarts of the gateway

ASSUME DmAssumption ==
    /\ IsFiniteSet(DmProfiles)
    /\ DmOwner \in [DmOrders -> DmProfiles] /\ DmMarket \in [DmOrders -> DmMarkets]
    /\ DmTimeouts \subseteq Nat /\ DefaultSleep \in Nat

VARIABLES
    dmNow,      \* now_milli
    switch,     \* space deadman: per profile timeout, last_updated and status; history: when it was set
    dmTick,     \* space deadman_interval
    wakeAt,     \* when the fiber wakes up
    dmQueue,    \* per market the tasks, oldest first
    dmLive,     \* orders the engines hold
    dmCalls,    \* requests and restarts so far
    behind      \* history: profiles whose cancelall was already queued, before an order, as the switch fired

dmVars == <<dmNow, switch, dmTick, wakeAt, dmQueue, dmLive, dmCalls, behind>>

NoSwitch == [status |-> "none", timeout |-> 0, last |-> 0, since |-> 0]
SwitchedOn == {p \in DmProfiles : switch[p].status # "none"}

DmInit ==
    /\ dmNow = 0 /\ wakeAt = 0 /\ dmTick = DefaultSleep
    /\ switch = [p \in DmProfiles |-> NoSwitch]
    /\ dmQueue = [m \in DmMarkets |-> << >>]
    /\ dmLive = {}
    /\ dmCalls = [requests |-> 0, restarts |-> 0]
    /\ behind = {}

DmRequest == dmCalls.requests < MaxDmRequests /\ dmCalls' = [dmCalls EXCEPT !.requests = @ + 1]

-------------------------------------------------------------------------------
(* Mutant: the interval follows the last switch.                           *)
ResetTickToLast(timeout) == timeout

(* reset_timer_tick: the interval only becomes shorter, until no switch is *)
(* left.                                                                   *)
reset_timer_tick(timeout) ==
    IF dmTick > timeout THEN timeout ELSE IF SwitchedOn = {} THEN DefaultSleep ELSE dmTick

deadman_replace(p) ==
    /\ DmRequest
    /\ \E t \in DmTimeouts :
         /\ dmTick' = reset_timer_tick(t)
         /\ switch' = [switch EXCEPT ![p] = [status |-> "active", timeout |-> t, last |-> dmNow, since |-> dmNow]]
    /\ behind' = behind \ {p}
    /\ UNCHANGED <<dmNow, wakeAt, dmQueue, dmLive>>

(* When a switch is left, the new interval is a row and not a number: the  *)
(* request ends with an error after the switch was deleted.                *)
deadman_delete(p) ==
    /\ DmRequest /\ p \in SwitchedOn
    /\ switch' = [switch EXCEPT ![p] = NoSwitch]
    /\ dmTick' = IF SwitchedOn = {p} THEN DefaultSleep ELSE dmTick
    /\ behind' = behind \ {p}
    /\ UNCHANGED <<dmNow, wakeAt, dmQueue, dmLive>>

(* Every request touches the switch, also one that is refused afterwards,  *)
(* and a switch that has fired is active again.                            *)
deadman_touch(p) ==
    switch' = IF p \notin SwitchedOn THEN switch
              ELSE [switch EXCEPT ![p].status = "active", ![p].last = dmNow]

Refused(p) ==
    /\ DmRequest /\ deadman_touch(p)
    /\ UNCHANGED <<dmNow, dmTick, wakeAt, dmQueue, dmLive, behind>>

CancelAllTask(p) == <<"cancelall", p>>
InQueue(m, task) == task \in Range(dmQueue[m])
Placed(o) == o \in dmLive \/ \E m \in DmMarkets : InQueue(m, <<"create", o>>)

new_order(o) ==
    /\ DmRequest /\ ~Placed(o) /\ deadman_touch(DmOwner[o])
    /\ dmQueue' = [dmQueue EXCEPT ![DmMarket[o]] = Append(@, <<"create", o>>)]
    /\ UNCHANGED <<dmNow, dmTick, wakeAt, dmLive, behind>>

(* A cancelall of the profile that is still in the queue is not repeated.  *)
PutCancelAll(m, ps) == dmQueue[m] \o SetToSeq({CancelAllTask(p) : p \in ps} \ Range(dmQueue[m]))

cancel_all(p) ==
    /\ DmRequest /\ deadman_touch(p)
    /\ dmQueue' = [m \in DmMarkets |-> PutCancelAll(m, {p})]
    /\ UNCHANGED <<dmNow, dmTick, wakeAt, dmLive, behind>>

-------------------------------------------------------------------------------
Expired == {p \in DmProfiles : switch[p].status = "active" /\ dmNow > switch[p].last + switch[p].timeout}

(* An order of p that waits behind a cancelall of p.                       *)
Overtaken(p) ==
    \E m \in DmMarkets : \E i, j \in DOMAIN dmQueue[m] :
        i < j /\ dmQueue[m][i] = CancelAllTask(p)
        /\ dmQueue[m][j][1] = "create" /\ DmOwner[dmQueue[m][j][2]] = p

put_cancel_all(ps) == [m \in DmMarkets |-> PutCancelAll(m, ps)]

(* One round of the fiber, in a transaction.                               *)
SwitchesFire ==
    /\ dmNow = wakeAt /\ wakeAt' = dmNow + dmTick
    /\ switch' = [p \in DmProfiles |-> IF p \in Expired THEN [switch[p] EXCEPT !.status = "canceled"] ELSE switch[p]]
    /\ dmQueue' = put_cancel_all(Expired)
    /\ behind' = (behind \ Expired) \cup {p \in Expired : Overtaken(p)}
    /\ UNCHANGED <<dmNow, dmTick, dmLive, dmCalls>>

(* init_spaces: switches and interval are kept, the fiber starts anew.     *)
GatewayRestarts ==
    /\ dmCalls.restarts < MaxDmRestarts /\ dmCalls' = [dmCalls EXCEPT !.restarts = @ + 1]
    /\ dmTick' = reset_timer_tick(DefaultSleep) /\ wakeAt' = dmNow
    /\ UNCHANGED <<dmNow, switch, dmQueue, dmLive, behind>>

(* The fiber is woken up in time.                                          *)
TimePasses ==
    /\ dmNow < wakeAt /\ dmNow < MaxDmTime /\ dmNow' = dmNow + 1
    /\ UNCHANGED <<switch, dmTick, wakeAt, dmQueue, dmLive, dmCalls, behind>>

(* The engine of m, see TaskQueue and Engine.                              *)
EngineHandles(m) ==
    /\ dmQueue[m] # << >> /\ dmQueue' = [dmQueue EXCEPT ![m] = Tail(@)]
    /\ LET task == Head(dmQueue[m])
       IN  dmLive' = IF task[1] = "create" THEN dmLive \cup {task[2]}
                     ELSE {o \in dmLive : DmMarket[o] # m \/ DmOwner[o] # task[2]}
    /\ UNCHANGED <<dmNow, switch, dmTick, wakeAt, dmCalls, behind>>

DmNext ==
    \/ \E p \in DmProfiles : deadman_replace(p) \/ deadman_delete(p) \/ Refused(p) \/ cancel_all(p)
    \/ \E o \in DmOrders : new_order(o)
    \/ SwitchesFire \/ GatewayRestarts \/ TimePasses
    \/ \E m \in DmMarkets : EngineHandles(m)

DmSpec == DmInit /\ [][DmNext]_dmVars

-------------------------------------------------------------------------------
Earlier(a, b) == IF a < b THEN a ELSE b

(* A switch fires in time: late by no more than its own timeout, or the    *)
(* default interval, however switches of others come and go; one that was  *)
(* set while the fiber slept waits for it to wake up (reset_timer_tick).   *)
FiresInTime ==
    \A p \in DmProfiles : switch[p].status = "active" =>
        \/ dmNow <= switch[p].since + DefaultSleep
        \/ dmNow <= switch[p].last + switch[p].timeout + Earlier(switch[p].timeout, DefaultSleep)

(* A switch that has fired leaves its profile no order in any market, once *)
(* the engines have handled its tasks; unless an order was put behind a    *)
(* cancelall that was still queued when the switch fired, for then no      *)
(* second one is put (put_cancel_all, find_task).                          *)
FiredLeavesNothing ==
    \A o \in DmOrders : switch[DmOwner[o]].status = "canceled" /\ DmOwner[o] \notin behind =>
        LET queue == dmQueue[DmMarket[o]]
            Canceled(i) == \E j \in i + 1 .. Len(queue) : queue[j] = CancelAllTask(DmOwner[o])
        IN  /\ o \in dmLive => Canceled(0)
            /\ \A i \in DOMAIN queue : queue[i] = <<"create", o>> => Canceled(i)

(* A silent profile is out of the market in time, and entirely             *)
(* (deadman.lua).                                                          *)
SwitchesWork ==
    FiresInTime /\ FiredLeavesNothing

================================================================================
