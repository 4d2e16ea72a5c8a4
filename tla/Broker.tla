--------------------------------- MODULE Broker ---------------------------------
(* The broker that every Go service calls Tarantool through                *)
(* (src/model/broker.go, response.go): one connection per instance, shared *)
(* by all goroutines under a reader-writer lock, replaced by whoever finds *)
(* it broken, and the call made again on the new one.                      *)
EXTENDS Integers, Calls

CONSTANTS
    Callers,        \* goroutines, each with one call to make
    Plans,          \* which calls they may make: functions from Callers to names of calls, or to "none"
    MarketId,       \* the market that is asked
    MarketTitle,    \* the title of the instance that serves it
    MaxBreaks       \* faults of the network and of the instances

ASSUME BrokerAssumption == Plans \subseteq [Callers -> DOMAIN Sent \cup {"none"}]

VARIABLES
    link,       \* Pool: per instance "up", "broken", "nil" (never connected), "absent" (no entry)
    down,       \* instances that do not accept connections
    readers,    \* callers that hold reconnectMutex for reading
    call,       \* per caller its call: name, where it is, the connection it dialled, the reply,
                \* how often the procedure ran for it, how often it lost the connection
    breaks      \* faults so far

brokerVars == <<link, down, readers, call, breaks>>

Titles == {"api-gateway", "profile", "auth", "pubsub", MarketTitle}

(* The title that exec looks up.                                           *)
Title(c) ==
    LET asked == Sent[call[c].name]
    IN  CASE asked.byTitle -> MarketId [] asked.role = "market" -> MarketTitle [] OTHER -> asked.role

(* What the pool has for it.                                               *)
Pooled(c) == IF Title(c) \in Titles THEN link[Title(c)] ELSE "absent"

At(c, place) == call[c].at = place
Move(c, place) == call' = [call EXCEPT ![c].at = place]

(* RLock waits while a writer holds the lock or waits for it.              *)
NoWriter == \A c \in Callers : ~At(c, "swap")
ReadUnlock(c) == readers' = readers \ {c}

(* Faults matter on an instance that is still asked.                       *)
Asked == {Title(c) : c \in {d \in Callers : ~At(d, "done")}} \cap Titles

-------------------------------------------------------------------------------
(* GetBroker has run.  An instance that refused the connection has a nil   *)
(* one.  When the configuration could not be read, the first caller had an *)
(* error and the next ones have the broker without its pool.               *)
BrokerInit ==
    /\ readers = {}
    /\ \E p \in Plans :
         call = [c \in Callers |-> [name |-> p[c], at |-> IF p[c] = "none" THEN "done" ELSE "look",
                                    conn |-> "none", reply |-> "none", runs |-> 0, losses |-> 0]]
    /\ \/ down = {} /\ link \in { [t \in Titles |-> "up"], [t \in Titles |-> "absent"] }
       \/ \E t \in Asked : down = {t} /\ link = [u \in Titles |-> IF u = t THEN "nil" ELSE "up"]
    /\ breaks = 0

(* exec looks the connection up and keeps the lock while the call is made. *)
Look(c) ==
    /\ At(c, "look") /\ NoWriter
    /\ \/ /\ Pooled(c) = "absent"
          /\ call' = [call EXCEPT ![c].at = "done", ![c].reply = "notFound"]
          /\ UNCHANGED readers
       \/ Pooled(c) = "nil" /\ Move(c, "dial") /\ UNCHANGED readers
       \/ /\ Pooled(c) \in {"up", "broken"}
          /\ Move(c, "sent") /\ readers' = readers \cup {c}
    /\ UNCHANGED <<link, down, breaks>>

(* The instance runs the procedure, if its role has it and its arguments   *)
(* are the parameters it checks; it may refuse the request as well.        *)
Run(c) ==
    /\ At(c, "sent") /\ link[Title(c)] = "up"
    /\ LET asked == Sent[call[c].name]
           served == Known(asked) /\ Binds(asked)
       IN  \E reply \in IF served THEN {"ok", "refused"} ELSE {"refused"} :
             call' = [call EXCEPT ![c].at = "ran", ![c].reply = reply, ![c].runs = @ + IF served THEN 1 ELSE 0]
    /\ UNCHANGED <<link, down, readers, breaks>>

(* The reply arrives: exec returns, and Request turns a reply without rows *)
(* and one with an error into an error.                                    *)
Answer(c) ==
    /\ At(c, "ran") /\ link[Title(c)] = "up"
    /\ Move(c, "done") /\ ReadUnlock(c)
    /\ UNCHANGED <<link, down, breaks>>

(* Mutant: the lock is kept while the caller connects again.               *)
LoseKeepsLock(c) ==
    /\ call[c].at \in {"sent", "ran"} /\ link[Title(c)] = "broken"
    /\ call' = [call EXCEPT ![c].at = "dial", ![c].reply = "none", ![c].losses = @ + 1]
    /\ UNCHANGED <<link, down, breaks, readers>>

(* The call fails with one of the errors of shouldReconnect: the caller    *)
(* sets out to connect again, whether or not the procedure ran.            *)
Lose(c) ==
    /\ call[c].at \in {"sent", "ran"} /\ link[Title(c)] = "broken"
    /\ call' = [call EXCEPT ![c].at = "dial", ![c].reply = "none", ![c].losses = @ + 1]
    /\ ReadUnlock(c)
    /\ UNCHANGED <<link, down, breaks>>

(* The context of the request ends while the call is made; nothing else in *)
(* exec looks at it.                                                       *)
CancelCall(c) ==
    /\ call[c].at \in {"sent", "ran"}
    /\ call' = [call EXCEPT ![c].at = "done", ![c].reply = "canceled"]
    /\ ReadUnlock(c)
    /\ UNCHANGED <<link, down, breaks>>

(* NewConnection; a failed one is tried again after five seconds.          *)
NewConnection(c) ==
    /\ At(c, "dial") /\ Title(c) \notin down
    /\ call' = [call EXCEPT ![c].at = "swap", ![c].conn = "up"]
    /\ UNCHANGED <<link, down, readers, breaks>>

(* The new connection takes the place of whatever the pool has by now, and *)
(* the call is made from the start.                                        *)
Swap(c) ==
    /\ At(c, "swap") /\ readers = {}
    /\ link' = [link EXCEPT ![Title(c)] = call[c].conn]
    /\ call' = [call EXCEPT ![c].at = "look", ![c].conn = "none"]
    /\ UNCHANGED <<down, readers, breaks>>

(* The connections to an instance break; it may stop for a while.          *)
Break(t) ==
    /\ breaks < MaxBreaks /\ breaks' = breaks + 1
    /\ down' \in {down, down \cup {t}}
    /\ link' = [link EXCEPT ![t] = IF @ = "up" THEN "broken" ELSE @]
    /\ call' = [c \in Callers |-> IF At(c, "swap") /\ Title(c) = t THEN [call[c] EXCEPT !.conn = "broken"]
                                  ELSE call[c]]
    /\ UNCHANGED readers

Recover(t) == t \in down /\ down' = down \ {t} /\ UNCHANGED <<link, readers, call, breaks>>

CallerStep(c) == Look(c) \/ Run(c) \/ Answer(c) \/ Lose(c) \/ NewConnection(c) \/ Swap(c)

BrokerNext ==
    \/ \E c \in Callers : CallerStep(c) \/ CancelCall(c)
    \/ \E t \in Asked : Break(t) \/ Recover(t)

(* Goroutines run, requests are answered or fail, instances come back.     *)
BrokerFairness ==
    /\ \A c \in Callers : WF_brokerVars(CallerStep(c))
    /\ WF_brokerVars(\E t \in Asked : Recover(t))

BrokerSpec == BrokerInit /\ [][BrokerNext]_brokerVars /\ BrokerFairness

-------------------------------------------------------------------------------
(* A procedure is asked of an instance that has it, and every parameter    *)
(* receives the argument meant for it: Go names them in one order, Lua     *)
(* declares them in another file (api*.go, auth.go, the roles).            *)
ArgumentsAgree == \A c \in Callers : At(c, "ran") => Known(Sent[call[c].name]) /\ Binds(Sent[call[c].name])

(* A procedure runs again for one call only after the connection was lost  *)
(* under it, and a call that succeeded has run (exec, shouldReconnect).    *)
RunsExplained ==
    \A c \in Callers :
      /\ call[c].runs <= call[c].losses + 1
      /\ At(c, "done") /\ call[c].reply = "ok" => call[c].runs > 0

(* Whatever breaks, every caller has its answer in the end: nobody keeps   *)
(* the lock that the one who reconnects waits for (exec).                  *)
CallsReturn == <>[](\A c \in Callers : At(c, "done"))

(* A call arrives as it was meant, runs as often as the broker can tell,   *)
(* and is answered (exec, Request).                                        *)
CallsSound ==
    [](ArgumentsAgree /\ RunsExplained) /\ CallsReturn

================================================================================
