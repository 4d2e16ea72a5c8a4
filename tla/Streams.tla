--------------------------------- MODULE Streams ---------------------------------
(* The order book as clients see it: a snapshot when they subscribe, and   *)
(* then the changes that the engine publishes after each task.             *)
(*                                                                         *)
(* Centrifugo asks the proxy (src/websocket/proxy.go) for the snapshot,    *)
(* the proxy asks the engine, and only its answer makes Centrifugo add the *)
(* client to the channel: what is published meanwhile does not reach it.   *)
(* Changes carry the new size of every level they touch, and a sequence.   *)
(* The client (src/api-client/websocket.go) takes them as they come.       *)
EXTENDS Integers, Sequences, SequencesExt

CONSTANTS
    StreamClients,
    BookLevels,             \* price levels of the book
    LevelSizes,         \* sizes of a level, 0 of an empty one
    StreamMarkets,      \* sequence of the rows of market_data_view
    MaxStreamSeq,       \* bound: order book sequence
    MaxStreamFaults     \* bound: lost publications and connections

VARIABLES
    streamBook,     \* bids_to_size, asks_to_size of the engine
    streamSeq,      \* orderbook_sequence
    engineTask,     \* what the engine does: "idle", "cancel" (it has its sequence), "notify"
    notifs,         \* changes committed and not published: [seq, level, size]
    stream,         \* per client: step, messages on their way, its book and sequences
    bookAt,         \* history: per sequence the book that its last task left
    streamFaults,
    pusher          \* runMarketViewDataPusher: next row (0: it did not start), and the row just sent

streamVars == <<streamBook, streamSeq, engineTask, notifs, stream, bookAt, streamFaults, pusher>>
engineVars == <<streamBook, streamSeq, engineTask, notifs, bookAt>>

EmptyBook == [l \in BookLevels |-> 0]
NoStream == [step |-> "out", inbox |-> <<>>, book |-> EmptyBook, from |-> 0, seq |-> 0,
             gap |-> FALSE, torn |-> FALSE]
StreamAt(c, step) == stream[c].step = step

-------------------------------------------------------------------------------
StreamInit ==
    /\ streamBook = EmptyBook /\ streamSeq = 0 /\ engineTask = "idle" /\ notifs = <<>>
    /\ stream = [c \in StreamClients |-> NoStream]
    /\ bookAt = <<>>
    /\ streamFaults = 0
    /\ pusher \in [row : {0, 1}, sent : {0}]

_next_sequence == streamSeq + 1

Change(seq, l, n) == [seq |-> seq, level |-> l, size |-> n]

(* A task of one transaction, its sequence included: new orders, amends.   *)
(* A refused one leaves nothing behind, sequence included.                 *)
CommitTask ==
    /\ engineTask = "idle" /\ streamSeq < MaxStreamSeq
    /\ \E l \in BookLevels, n \in LevelSizes :
         /\ streamBook' = [streamBook EXCEPT ![l] = n]
         /\ notifs' = <<Change(_next_sequence, l, n)>>
         /\ bookAt' = Append(bookAt, streamBook')
    /\ streamSeq' = _next_sequence /\ engineTask' = "notify"
    /\ UNCHANGED <<stream, streamFaults, pusher>>

(* ping_limit: two sequences in one transaction, published after both.     *)
CommitPing ==
    /\ engineTask = "idle" /\ streamSeq + 1 < MaxStreamSeq
    /\ \E l, k \in BookLevels, n, i \in LevelSizes :
         LET ping == [streamBook EXCEPT ![l] = n]
         IN  /\ streamBook' = [ping EXCEPT ![k] = i]
             /\ notifs' = <<Change(streamSeq + 1, l, n), Change(streamSeq + 2, k, i)>>
             /\ bookAt' = bookAt \o <<ping, streamBook'>>
    /\ streamSeq' = streamSeq + 2 /\ engineTask' = "notify"
    /\ UNCHANGED <<stream, streamFaults, pusher>>

(* Cancels take the sequence before their transaction; the write of the    *)
(* sequence lets other fibers run.                                         *)
TakeSequence ==
    /\ engineTask = "idle" /\ streamSeq < MaxStreamSeq
    /\ streamSeq' = _next_sequence /\ engineTask' = "cancel"
    /\ UNCHANGED <<streamBook, notifs, stream, bookAt, streamFaults, pusher>>

CommitCancel ==
    /\ engineTask = "cancel"
    /\ \E l \in {k \in BookLevels : streamBook[k] > 0} :
         /\ streamBook' = [streamBook EXCEPT ![l] = 0]
         /\ notifs' = <<Change(streamSeq, l, 0)>>
         /\ bookAt' = Append(bookAt, streamBook')
    /\ engineTask' = "notify"
    /\ UNCHANGED <<streamSeq, stream, streamFaults, pusher>>

(* There is no such order: the sequence goes back.                         *)
_rollback_with_sequence ==
    /\ engineTask = "cancel"
    /\ streamSeq' = streamSeq - 1 /\ engineTask' = "idle"
    /\ UNCHANGED <<streamBook, notifs, stream, bookAt, streamFaults, pusher>>

(* Mutant: what was published last is sent first.                          *)
DeliveredFirst(message) ==
    [c \in StreamClients |-> IF StreamAt(c, "in") THEN [stream[c] EXCEPT !.inbox = <<message>> \o @]
                             ELSE stream[c]]

(* What was published first is sent first.                                 *)
Delivered(message) ==
    [c \in StreamClients |-> IF StreamAt(c, "in") THEN [stream[c] EXCEPT !.inbox = Append(@, message)]
                             ELSE stream[c]]

Notified ==
    /\ engineTask = "notify" /\ notifs' = Tail(notifs)
    /\ engineTask' = IF Len(notifs) = 1 THEN "idle" ELSE "notify"
    /\ UNCHANGED <<streamBook, streamSeq, bookAt, pusher>>

(* Publishing is a call; the engine waits for its end.                     *)
notify ==
    /\ Notified /\ stream' = Delivered([kind |-> "data", change |-> Head(notifs)])
    /\ UNCHANGED streamFaults

(* The call fails: nobody looks at its error.                              *)
NotifyFails ==
    /\ Notified /\ streamFaults < MaxStreamFaults /\ streamFaults' = streamFaults + 1
    /\ UNCHANGED stream

-------------------------------------------------------------------------------
StartClient(c) ==
    /\ StreamAt(c, "out") /\ stream' = [stream EXCEPT ![c] = [NoStream EXCEPT !.step = "asking"]]
    /\ UNCHANGED <<engineVars, streamFaults, pusher>>

(* Book and sequence in one transaction; torn: the sequence is that of a   *)
(* cancel whose transaction has not begun.                                 *)
get_orderbook_data(c) ==
    [stream[c] EXCEPT !.step = "answered", !.torn = (engineTask = "cancel"),
                      !.inbox = <<[kind |-> "init", book |-> streamBook, seq |-> streamSeq]>>]

(* The proxy's handler of /centrifugo/subscribe.                           *)
Subscribe(c) ==
    /\ StreamAt(c, "asking") /\ stream' = [stream EXCEPT ![c] = get_orderbook_data(c)]
    /\ UNCHANGED <<engineVars, streamFaults, pusher>>

(* It is refused, or the engine does not answer.                           *)
SubscribeFails(c) ==
    /\ StreamAt(c, "asking") /\ stream' = [stream EXCEPT ![c] = NoStream]
    /\ UNCHANGED <<engineVars, streamFaults, pusher>>

(* External: Centrifugo answers the client and adds it to the channel.     *)
Join(c) ==
    /\ StreamAt(c, "answered") /\ stream' = [stream EXCEPT ![c].step = "in"]
    /\ UNCHANGED <<engineVars, streamFaults, pusher>>

OrderBookData(s, change) == [s.book EXCEPT ![change.level] = change.size]

(* A jump of the sequence is the only sign of a lost change.               *)
Jumps(s, seq) == seq > s.seq + 1

processMessage(c) ==
    /\ StreamAt(c, "in") /\ stream[c].inbox # <<>>
    /\ LET s == stream[c]
           message == Head(s.inbox)
           rest == [s EXCEPT !.inbox = Tail(@)]
       IN  stream' = [stream EXCEPT ![c] =
             IF message.kind = "init"
             THEN [rest EXCEPT !.book = message.book, !.seq = message.seq, !.from = message.seq]
             ELSE [rest EXCEPT !.book = OrderBookData(s, message.change), !.seq = message.change.seq,
                               !.gap = s.gap \/ Jumps(s, message.change.seq)]]
    /\ UNCHANGED <<engineVars, streamFaults, pusher>>

(* The connection is lost with what is on its way: a client starts anew.   *)
ConnectionLost(c) ==
    /\ StreamAt(c, "in") /\ streamFaults < MaxStreamFaults /\ streamFaults' = streamFaults + 1
    /\ stream' = [stream EXCEPT ![c] = NoStream]
    /\ UNCHANGED <<engineVars, pusher>>

-------------------------------------------------------------------------------
(* The proxy's pusher of statistics, a round over the markets each second. *)

NextRow == IF pusher.row = Len(StreamMarkets) THEN 1 ELSE pusher.row + 1

sendMarketViewData ==
    /\ pusher.row # 0 /\ pusher' = [row |-> NextRow, sent |-> pusher.row]
    /\ UNCHANGED <<engineVars, stream, streamFaults>>

(* The round ends at the first failure; the next begins with the first row.*)
PushFails ==
    /\ pusher.row # 0 /\ streamFaults < MaxStreamFaults /\ streamFaults' = streamFaults + 1
    /\ pusher' = [pusher EXCEPT !.row = 1]
    /\ UNCHANGED <<engineVars, stream>>

PusherNext == sendMarketViewData \/ PushFails

OrderBookNext ==
    \/ CommitTask \/ CommitPing \/ TakeSequence \/ CommitCancel \/ _rollback_with_sequence
    \/ notify \/ NotifyFails
    \/ \E c \in StreamClients : \/ StartClient(c) \/ Subscribe(c) \/ SubscribeFails(c) \/ Join(c)
                                \/ processMessage(c) \/ ConnectionLost(c)

StreamNext == OrderBookNext \/ PusherNext

StreamSpec == StreamInit /\ [][StreamNext]_streamVars /\ WF_streamVars(sendMarketViewData)

-------------------------------------------------------------------------------
(* A client that saw no jump of the sequence since its snapshot has the    *)
(* engine's book of that sequence, although changes were published while   *)
(* the snapshot was on its way, and although those that the snapshot       *)
(* contains come again.  Snapshots taken inside a cancel are excepted.     *)
NoGapMeansRight ==
    \A c \in StreamClients :
      LET s == stream[c]
          begun == s.step = "in" /\ ~(s.inbox # <<>> /\ Head(s.inbox).kind = "init")
      IN  begun /\ ~s.gap /\ ~s.torn /\ s.seq >= s.from /\ s.seq > 0 => s.book = bookAt[s.seq]

(* Every client gets the changes in the order of their sequences, each     *)
(* once (notif.notify, notif.notify_from_table).                           *)
ChangesInOrder ==
    \A c \in StreamClients : \A i, j \in DOMAIN stream[c].inbox :
        i < j /\ stream[c].inbox[i].kind = "data" /\ stream[c].inbox[j].kind = "data"
          => stream[c].inbox[i].change.seq < stream[c].inbox[j].change.seq

(* A market whose statistics could not be sent gets them in a later round  *)
(* (runMarketViewDataPusher).                                              *)
StatisticsReachAll == \A m \in DOMAIN StreamMarkets : []<>(pusher.row = 0 \/ pusher.sent = m)

(* A client can tell whether its book is right, and the statistics of      *)
(* every market get through (notif.lua, proxy.go).                         *)
StreamsRight ==
    [](NoGapMeansRight /\ ChangesInOrder) /\ StatisticsReachAll

================================================================================
