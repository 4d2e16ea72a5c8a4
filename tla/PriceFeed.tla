------------------------------- MODULE PriceFeed --------------------------------
(***************************************************************************)
(* The web socket connection of a price source (GobwasSource).             *)
(*                                                                         *)
(* Two goroutines use one connection: wsReader reads, pinger sends pings   *)
(* and looks for timeouts.  Both use it under the read lock of muState and *)
(* both may replace it; who replaces it enters the state connecting under  *)
(* the write lock and then dials without a lock.                           *)
(***************************************************************************)
EXTENDS Integers

CONSTANTS
    MaxDialAttempts, \* MAX_DIAL_ATTEMPTS
    MaxFeedFaults    \* bound: failed dials and broken connections

ASSUME PriceFeedAssumption ==
    MaxDialAttempts \in Nat \ {0} /\ MaxFeedFaults \in Nat

VARIABLES
    feedState,   \* state
    conn,        \* the connection: "none" (nil), "open" or "broken"
    feedPc,      \* what a goroutine does
    attempts,    \* numPrevAttempts of the goroutine that dials
    justStarted, \* less than MIN_RECONNECT_INTERVAL since lastConnectStarted
    feedFaults

feedVars == <<feedState, conn, feedPc, attempts, justStarted, feedFaults>>

Loops == {"wsReader", "pinger"}

(* start: the first reconnect is over before the goroutines start; it may  *)
(* have given up.                                                          *)
FeedInit ==
    /\ \/ feedState = "connected" /\ conn = "open"
       \/ feedState = "disconnected" /\ conn = "none"
    /\ feedPc = [g \in Loops |-> "idle"]
    /\ attempts = 0
    /\ justStarted = TRUE
    /\ feedFaults = 0

FeedFault == feedFaults < MaxFeedFaults /\ feedFaults' = feedFaults + 1

Goes(g, pc) == feedPc' = [feedPc EXCEPT ![g] = pc]

(* No goroutine holds the read lock.                                       *)
Unlocked == \A g \in Loops : feedPc[g] # "use"

-------------------------------------------------------------------------------
(* readWSData up to the read, which is made with the lock held.  When the  *)
(* state is connecting it only sleeps, otherwise it reconnects.            *)
readWSData ==
    /\ feedPc["wsReader"] = "idle" /\ feedState # "connecting"
    /\ Goes("wsReader", IF feedState = "connected" THEN "use" ELSE "reconnect")
    /\ UNCHANGED <<feedState, conn, attempts, justStarted, feedFaults>>

(* handlePingsAndTimeouts: the data of some market is too old, which it is *)
(* too when its price has not changed (reconnect); or a ping is written    *)
(* (writeWSData), when connected.                                          *)
handlePingsAndTimeouts ==
    /\ feedPc["pinger"] = "idle"
    /\ \/ Goes("pinger", "reconnect")
       \/ feedState = "connected" /\ Goes("pinger", "use")
    /\ UNCHANGED <<feedState, conn, attempts, justStarted, feedFaults>>

(* The read or write returns and the lock is released.                     *)
Return(g) ==
    /\ feedPc[g] = "use"
    /\ Goes(g, IF conn = "open" THEN "idle" ELSE "reconnect")
    /\ UNCHANGED <<feedState, conn, attempts, justStarted, feedFaults>>

Refused == feedState = "connecting" \/ justStarted

enterConnectingState(g) ==
    /\ feedPc[g] = "reconnect" /\ Unlocked
    /\ IF Refused
       THEN Goes(g, "idle") /\ UNCHANGED <<feedState, attempts, justStarted>>
       ELSE /\ feedState' = "connecting"
            /\ justStarted' = TRUE
            /\ attempts' = 0
            /\ Goes(g, "dial")
    /\ UNCHANGED <<conn, feedFaults>>

(* Mutant: giving up leaves the state as it is.                            *)
GiveUpConnecting(g) == Goes(g, "idle") /\ UNCHANGED feedState

GiveUp(g) == Goes(g, "idle") /\ feedState' = "disconnected"

(* reconnect: one round of its loop.  The old connection is closed first.  *)
(* A subscription that fails leaves a connection that is of no use.        *)
dial(g) ==
    /\ feedPc[g] = "dial"
    /\ \/ /\ conn' = "open" /\ Goes(g, "dialled")
          /\ UNCHANGED <<feedState, attempts, feedFaults>>
       \/ /\ FeedFault
          /\ conn' \in {"none", "broken"}
          /\ attempts' = attempts + 1
          /\ IF attempts' < MaxDialAttempts THEN UNCHANGED <<feedPc, feedState>>
             ELSE Unlocked /\ GiveUp(g)
    /\ UNCHANGED justStarted

(* The end of reconnect, under the write lock.                             *)
reconnect(g) ==
    /\ feedPc[g] = "dialled" /\ Unlocked
    /\ feedState' = "connected"
    /\ Goes(g, "idle")
    /\ UNCHANGED <<conn, attempts, justStarted, feedFaults>>

ConnectionBreaks ==
    /\ conn = "open" /\ FeedFault
    /\ conn' = "broken"
    /\ UNCHANGED <<feedState, feedPc, attempts, justStarted>>

IntervalPasses ==
    /\ justStarted /\ justStarted' = FALSE
    /\ UNCHANGED <<feedState, conn, feedPc, attempts, feedFaults>>

FeedStep(g) == Return(g) \/ dial(g) \/ reconnect(g)

FeedNext ==
    \/ readWSData \/ handlePingsAndTimeouts \/ ConnectionBreaks \/ IntervalPasses
    \/ \E g \in Loops : FeedStep(g) \/ enterConnectingState(g)

(* The goroutines run, a read ends after IO_TIMEOUT, and a writer that     *)
(* waits for a sync.RWMutex gets it before readers that come later.        *)
FeedFairness ==
    /\ WF_feedVars(readWSData) /\ WF_feedVars(IntervalPasses)
    /\ \A g \in Loops : WF_feedVars(Return(g)) /\ WF_feedVars(dial(g))
    /\ \A g \in Loops : SF_feedVars(enterConnectingState(g)) /\ SF_feedVars(reconnect(g))

FeedSpec == FeedInit /\ [][FeedNext]_feedVars /\ FeedFairness

-------------------------------------------------------------------------------
(* A connection is not taken away from the goroutine that reads or writes: *)
(* it would use nil.                                                       *)
ConnInUse == \A g \in Loops : feedPc[g] = "use" => conn # "none" /\ feedState = "connected"

(* However dials fail and connections break, the source gets connected     *)
(* again, and a broken connection is replaced.                             *)
FeedRestored == []<>(feedState = "connected" /\ conn = "open")

(* A connection is replaced in time, and never under the goroutine that    *)
(* uses it (GobwasSource).                                                 *)
FeedKept ==
    []ConnInUse /\ FeedRestored

================================================================================
