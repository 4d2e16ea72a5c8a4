---------------------------- MODULE Payments_proof ----------------------------
(***************************************************************************)
(* Theorems about what other services pay out and take: the deposits of    *)
(* Deposits, the claims of Airdrops, the claw-back of Clawback, the yield  *)
(* of Yields, the stakes of Vaults and the payments of Funding; for any    *)
(* wallets, events, airdrops, requests, traders, holders, vaults, markets  *)
(* and balances.                                                           *)
(***************************************************************************)
EXTENDS Deposits, Airdrops, Clawback, Yields, Vaults, Funding,
        Sums_proof, SequenceTheorems

-------------------------------------------------------------------------------
(* Deposits.                                                               *)

(* The scan reads, of the events up to its block, all that are not         *)
(* recorded, and only confirmed ones.                                      *)
Recorded(d) == eventRow[d] # "none" \/ d \in failed
Confirmed(d) == EventOf[d].block + DepositConfirmations <= depositHead

ScanCovers ==
    /\ \A d \in depositScan.todo : Confirmed(d)
    /\ depositScan.pc \in {"event", "call"} =>
          \A d \in Events : EventOf[d].block <= depositScan.to =>
              Recorded(d) \/ d \in depositScan.todo

ScanT == [pc : {"idle", "range", "event", "call", "pending", "drop"}, to : Int,
          todo : SUBSET Events, known : BOOLEAN, dropped : SUBSET DepositTxs]

DepositRowsOK ==
    /\ eventRow \in [Events -> {"none", "unknown", "success"}]
    /\ resolving \in [Wallets -> SUBSET Events]
    /\ depositScan \in ScanT
    /\ depositHead \in Nat /\ depositsDone \in Int

DepositInv ==
    DepositRowsOK /\ CursorCoversDeposits /\ OnlyConfirmedPaid /\ ScanCovers

LEMMA DepositInitHolds == DepositInit => DepositInv
<1> SUFFICES ASSUME DepositInit PROVE DepositInv
  OBVIOUS
<1> USE DepositsAssumption
<1>1. DepositRowsOK
  <2>1. eventRow \in [Events -> {"none", "unknown", "success"}] /\ resolving \in [Wallets -> SUBSET Events]
    BY DEF DepositInit
  <2>2. NoDepositScan \in ScanT
    BY DEF NoDepositScan, ScanT
  <2> QED
    BY <2>1, <2>2 DEF DepositInit, DepositRowsOK
<1>2. CursorCoversDeposits
  BY DEF DepositInit, CursorCoversDeposits
<1>3. OnlyConfirmedPaid
  BY DEF DepositInit, OnlyConfirmedPaid
<1>4. ScanCovers
  BY DEF DepositInit, ScanCovers, NoDepositScan
<1> QED
  BY <1>1, <1>2, <1>3, <1>4 DEF DepositInv

-------------------------------------------------------------------------------
(* What a step does to the row of an event.                                *)

Paid(d) ==
    /\ eventRow[d] # "success"
    /\ eventRow' = [eventRow EXCEPT ![d] = "success"]
    /\ Pay(d)

Noted(d) ==
    /\ NewEvent(d)
    /\ eventRow' = [eventRow EXCEPT ![d] = "unknown"]
    /\ UNCHANGED credit

RowsSame == UNCHANGED <<eventRow, credit>>

LEMMA ResolveRow ==
    ASSUME NEW d, resolve_unknown(d)
    PROVE  RowsSame \/ (Resolvable(d) /\ Paid(d))
BY DEF resolve_unknown, Resolvable, depositRows, RowsSame, Paid

LEMMA ProcessRow ==
    ASSUME NEW d, process_deposit(d) \/ process_deposit_unknown(d)
    PROVE  RowsSame \/ Paid(d) \/ Noted(d)
BY DEF process_deposit, process_deposit_unknown, NewEvent, depositRows, RowsSame, Paid, Noted

(* The clients create rows of their own and settle unknown ones.           *)
ClientRows == RowsSame \/ \E d \in Events : Resolvable(d) /\ Paid(d)

LEMMA CreateRows ==
    ASSUME NEW w \in Wallets, DepositRowsOK, CreateProfile(w)
    PROVE  RowsSame /\ resolving' \in [Wallets -> SUBSET Events]
BY DEF CreateProfile, depositRows, RowsSame, DepositRowsOK

LEMMA ResolveRows ==
    ASSUME NEW w \in Wallets, DepositRowsOK, resolve_all_unknown(w)
    PROVE  ClientRows /\ resolving' \in [Wallets -> SUBSET Events]
<1>1. PICK d \in resolving[w] : /\ resolve_unknown(d)
                               /\ resolving' = [resolving EXCEPT ![w] = @ \ {d}]
  BY DEF resolve_all_unknown
<1>2. d \in Events
  BY <1>1 DEF DepositRowsOK
<1>3. resolving' \in [Wallets -> SUBSET Events]
  BY <1>1 DEF DepositRowsOK
<1> QED
  BY <1>1, <1>2, <1>3, ResolveRow DEF ClientRows

LEMMA MergeRows ==
    ASSUME merge_unknown_ops
    PROVE  ClientRows
BY ResolveRow DEF merge_unknown_ops, ClientRows

(* Of the scan, only the handler writes rows of events, and the row of the *)
(* first event that is left.                                               *)
LEMMA HandlerRows ==
    ASSUME DepositRowsOK, depositHandler
    PROVE  RowsSame \/ \E d \in depositScan.todo : Paid(d) \/ Noted(d)
<1> DEFINE d == Min(depositScan.todo)
<1>1. d \in depositScan.todo
  BY LeastNumber, DepositsAssumption DEF depositHandler, DepositRowsOK, ScanT
<1>2. RowsSame \/ process_deposit(d) \/ process_deposit_unknown(d)
  BY DEF depositHandler, RowsSame, depositRows
<1> QED
  BY <1>1, <1>2, ProcessRow

LEMMA OtherScanRows ==
    ASSUME \/ checkLastProcessedBlockNumbers \/ processDepositEvents
           \/ SetLastProcessedBlockNumber \/ ProcessDroppedDepositsAndStakes \/ EndTick
    PROVE  RowsSame
BY DEF checkLastProcessedBlockNumbers, processDepositEvents, SetLastProcessedBlockNumber,
       ProcessDroppedDepositsAndStakes, EndTick, pending_deposit_canceled, depositRows, RowsSame

(* The rows of a step.                                                     *)
StepRows ==
    RowsSame \/ \E d \in Events : Paid(d) \/ Noted(d)

LEMMA EveryStepRows ==
    ASSUME DepositRowsOK, [DepositNext]_depositVars
    PROVE  StepRows
<1>1. CASE \E t \in DepositTxs : HandleDeposit(t)
  BY <1>1 DEF HandleDeposit, create_deposit, StepRows, RowsSame
<1>2. CASE \E w \in Wallets : CreateProfile(w)
  BY <1>2, CreateRows DEF StepRows
<1>3. CASE \E w \in Wallets : resolve_all_unknown(w)
  BY <1>3, ResolveRows DEF StepRows, ClientRows
<1>4. CASE merge_unknown_ops
  BY <1>4, MergeRows DEF StepRows, ClientRows
<1>5. CASE depositHandler
  <2>1. depositScan.todo \subseteq Events
    BY DEF DepositRowsOK, ScanT
  <2> QED
    BY <1>5, <2>1, HandlerRows DEF StepRows
<1>6. CASE \/ checkLastProcessedBlockNumbers \/ processDepositEvents
          \/ SetLastProcessedBlockNumber \/ ProcessDroppedDepositsAndStakes \/ EndTick
  BY <1>6, OtherScanRows DEF StepRows
<1>7. CASE UNCHANGED depositRows
  BY <1>7 DEF StepRows, RowsSame, depositRows
<1> QED
  BY <1>1, <1>2, <1>3, <1>4, <1>5, <1>6, <1>7 DEF DepositNext, processDepositsAndStaking, depositVars

-------------------------------------------------------------------------------
(* The invariant of the scan.                                              *)

(* A row that is written stays written.                                    *)
LEMMA RecordsStay ==
    ASSUME DepositRowsOK, StepRows
    PROVE  /\ eventRow' \in [Events -> {"none", "unknown", "success"}]
           /\ \A d \in Events : eventRow[d] # "none" => eventRow'[d] # "none"
BY DEF StepRows, RowsSame, Paid, Noted, DepositRowsOK

(* Nothing new is recorded by a step that writes no new row.               *)
LEMMA ClientsRecordNothing ==
    ASSUME DepositRowsOK, ClientRows
    PROVE  \A d \in Events : eventRow'[d] # "none" => eventRow[d] # "none"
BY DEF ClientRows, RowsSame, Paid, Resolvable, DepositRowsOK

(* The steps that leave the scan and its block alone.                      *)
LEMMA OutsideKeeps ==
    ASSUME DepositInv, ClientRows,
           UNCHANGED <<depositsDone, depositHead, depositScan, failed>>,
           resolving' \in [Wallets -> SUBSET Events]
    PROVE  DepositInv'
<1>1. StepRows
  BY DEF ClientRows, StepRows
<1>2. DepositRowsOK /\ DepositRowsOK'
  BY <1>1, RecordsStay DEF DepositInv, DepositRowsOK
<1>3. \A d \in Events : eventRow'[d] # "none" <=> eventRow[d] # "none"
  BY <1>1, <1>2, RecordsStay, ClientsRecordNothing
<1>4. CursorCoversDeposits'
  BY <1>3 DEF DepositInv, CursorCoversDeposits
<1>5. OnlyConfirmedPaid'
  BY <1>3 DEF DepositInv, OnlyConfirmedPaid
<1>6. ScanCovers'
  <2>1. depositScan.todo \subseteq Events
    BY <1>2 DEF DepositRowsOK, ScanT
  <2> QED
    BY <1>3, <2>1 DEF DepositInv, ScanCovers, Recorded, Confirmed
<1> QED
  BY <1>2, <1>4, <1>5, <1>6 DEF DepositInv

LEMMA BlockKeeps ==
    ASSUME DepositInv, DepositBlock, RowsSame,
           UNCHANGED <<resolving, depositsDone, depositScan, failed>>
    PROVE  DepositInv'
<1> USE DepositsAssumption
<1>1. depositHead \in Nat /\ depositHead' = depositHead + 1
  BY DEF DepositBlock, DepositInv, DepositRowsOK
<1>2. DepositRowsOK'
  BY <1>1 DEF DepositInv, DepositRowsOK, RowsSame
<1>3. CursorCoversDeposits'
  BY DEF DepositInv, CursorCoversDeposits, RowsSame
<1>4. \A d \in Events : Confirmed(d) => Confirmed(d)'
  BY <1>1 DEF Confirmed
<1>5. OnlyConfirmedPaid'
  BY <1>4 DEF DepositInv, OnlyConfirmedPaid, RowsSame, Confirmed
<1>6. ScanCovers'
  <2>1. depositScan.todo \subseteq Events
    BY DEF DepositInv, DepositRowsOK, ScanT
  <2> QED
    BY <1>4, <2>1 DEF DepositInv, ScanCovers, Recorded, RowsSame
<1> QED
  BY <1>2, <1>3, <1>5, <1>6 DEF DepositInv

(* The steps of the scan that write no row and leave the stored block, or  *)
(* set it back, and go on with nothing to do.                              *)
LEMMA ScanMovesKeep ==
    ASSUME DepositInv, RowsSame, UNCHANGED <<resolving, depositHead, failed>>,
           depositsDone' \in {depositsDone, DefaultFrom},
           depositScan' \in ScanT, depositScan'.pc \notin {"event", "call"},
           depositScan'.todo \subseteq depositScan.todo
    PROVE  DepositInv'
<1> USE DepositsAssumption
<1>1. DepositRowsOK'
  BY DEF DepositInv, DepositRowsOK, RowsSame
<1>2. CursorCoversDeposits'
  BY DEF DepositInv, CursorCoversDeposits, RowsSame, DepositRowsOK
<1>3. OnlyConfirmedPaid'
  BY DEF DepositInv, OnlyConfirmedPaid, RowsSame
<1>4. ScanCovers'
  BY DEF DepositInv, ScanCovers, Confirmed
<1> QED
  BY <1>1, <1>2, <1>3, <1>4 DEF DepositInv

LEMMA QuietScanKeeps ==
    ASSUME DepositInv, UNCHANGED <<resolving, depositHead>>,
           checkLastProcessedBlockNumbers \/ ProcessDroppedDepositsAndStakes \/ EndTick
    PROVE  DepositInv'
<1>0. depositScan \in ScanT
  BY DEF DepositInv, DepositRowsOK
<1>1. CASE checkLastProcessedBlockNumbers
  <2>1. depositScan' \in ScanT /\ depositScan'.pc = "range" /\ depositScan'.todo = depositScan.todo
    BY <1>0, <1>1 DEF checkLastProcessedBlockNumbers, ScanTo, ScanT
  <2>2. RowsSame /\ UNCHANGED failed /\ depositsDone' \in {depositsDone, DefaultFrom}
    BY <1>1 DEF checkLastProcessedBlockNumbers, RowsSame, depositRows
  <2> QED
    BY <2>1, <2>2, ScanMovesKeep
<1>2. CASE ProcessDroppedDepositsAndStakes
  <2>1. RowsSame /\ UNCHANGED <<failed, depositsDone>>
    BY <1>2, OtherScanRows DEF ProcessDroppedDepositsAndStakes
  <2>2. depositScan' \in ScanT /\ depositScan'.pc \in {"drop", "idle"} /\ depositScan'.todo = depositScan.todo
    BY <1>0, <1>2 DEF ProcessDroppedDepositsAndStakes, ScanTo, ScanT
  <2> QED
    BY <2>1, <2>2, ScanMovesKeep
<1>3. CASE EndTick
  <2>1. RowsSame /\ UNCHANGED <<failed, depositsDone>>
    BY <1>3, OtherScanRows DEF EndTick
  <2>2. depositScan' \in ScanT /\ depositScan'.pc = "idle" /\ depositScan'.todo = {}
    BY <1>3 DEF EndTick, NoDepositScan, ScanT
  <2> QED
    BY <2>1, <2>2, ScanMovesKeep
<1> QED
  BY <1>1, <1>2, <1>3

(* A range: every event in it is read.                                     *)
LEMMA RangeKeeps ==
    ASSUME DepositInv, UNCHANGED <<resolving, depositHead>>, processDepositEvents
    PROVE  DepositInv'
<1> USE DepositsAssumption
<1>0. depositScan \in ScanT /\ depositHead \in Nat /\ depositsDone \in Int
  BY DEF DepositInv, DepositRowsOK
<1>1. RowsSame /\ UNCHANGED <<failed, depositsDone>>
  BY DEF processDepositEvents, RowsSame, depositRows
<1>2. CASE FirstBlock > LastConfirmed
  <2>1. depositScan' \in ScanT /\ depositScan'.pc = "pending" /\ depositScan'.todo = depositScan.todo
    BY <1>0, <1>2 DEF processDepositEvents, ScanT
  <2> QED
    BY <1>1, <2>1, ScanMovesKeep
<1>3. CASE ~(FirstBlock > LastConfirmed)
  <2> DEFINE read == {d \in Events : /\ EventOf[d].block \in FirstBlock .. LastConfirmed
                                     /\ EventOf[d].block <= depositHead}
  <2>1. LastConfirmed \in Int /\ LastConfirmed <= depositHead - DepositConfirmations
    BY <1>0 DEF LastConfirmed, FirstBlock, Min
  <2>2. /\ depositScan' \in ScanT /\ depositScan'.pc = "event"
        /\ depositScan'.to = LastConfirmed /\ depositScan'.todo = read
    BY <1>0, <1>3, <2>1 DEF processDepositEvents, ScanT
  <2>3. DepositRowsOK'
    BY <1>1, <2>2 DEF DepositInv, DepositRowsOK, RowsSame
  <2>4. CursorCoversDeposits' /\ OnlyConfirmedPaid'
    BY <1>1 DEF DepositInv, CursorCoversDeposits, OnlyConfirmedPaid, RowsSame
  <2>5. \A d \in read : Confirmed(d)'
    BY <1>0, <2>1 DEF Confirmed, FirstBlock
  <2>6. ASSUME NEW d \in Events, EventOf[d].block <= LastConfirmed
        PROVE  Recorded(d)' \/ d \in read
    <3>1. EventOf[d].block \in Nat
      OBVIOUS
    <3>2. CASE depositsDone >= EventOf[d].block
      BY <1>1, <3>2 DEF DepositInv, CursorCoversDeposits, Recorded, RowsSame
    <3>3. CASE EventOf[d].block >= FirstBlock
      BY <1>0, <2>1, <2>6, <3>1, <3>3
    <3> QED
      BY <1>0, <3>1, <3>2, <3>3 DEF FirstBlock
  <2>7. ScanCovers'
    BY <2>2, <2>5, <2>6 DEF ScanCovers
  <2> QED
    BY <2>3, <2>4, <2>7 DEF DepositInv
<1> QED
  BY <1>2, <1>3

(* The range is done: the stored block moves to its end.                   *)
LEMMA StoreKeeps ==
    ASSUME DepositInv, UNCHANGED <<resolving, depositHead>>, SetLastProcessedBlockNumber
    PROVE  DepositInv'
<1>0. depositScan \in ScanT
  BY DEF DepositInv, DepositRowsOK
<1>1. RowsSame /\ UNCHANGED failed /\ depositScan.pc = "event" /\ depositScan.todo = {}
  BY DEF SetLastProcessedBlockNumber, RowsSame, depositRows
<1>2. /\ depositsDone' = depositScan.to /\ depositsDone' \in Int
      /\ depositScan' \in ScanT /\ depositScan'.pc = "range" /\ depositScan'.todo = {}
  BY <1>0, <1>1 DEF SetLastProcessedBlockNumber, StoredBlock, ScanTo, ScanT
<1>3. DepositRowsOK'
  BY <1>1, <1>2 DEF DepositInv, DepositRowsOK, RowsSame
<1>4. CursorCoversDeposits'
  <2>1. \A d \in Events : EventOf[d].block <= depositScan.to => Recorded(d)
    BY <1>1 DEF DepositInv, ScanCovers
  <2>2. \A d \in Events : EventOf[d].block \in Int
    BY DepositsAssumption
  <2>3. depositScan.to \in Int
    BY <1>2
  <2> QED
    BY <1>1, <1>2, <2>1, <2>2, <2>3 DEF CursorCoversDeposits, Recorded, RowsSame
<1>5. OnlyConfirmedPaid'
  BY <1>1 DEF DepositInv, OnlyConfirmedPaid, RowsSame
<1>6. ScanCovers'
  BY <1>2 DEF ScanCovers
<1> QED
  BY <1>3, <1>4, <1>5, <1>6 DEF DepositInv

(* The handler takes the first event that is left: it is recorded, or its  *)
(* failure is.                                                             *)
LEMMA HandlerKeeps ==
    ASSUME DepositInv, UNCHANGED <<resolving, depositHead>>, depositHandler
    PROVE  DepositInv'
<1> USE DepositsAssumption
<1>0. DepositRowsOK /\ depositScan \in ScanT /\ depositScan.pc \in {"event", "call"}
  BY DEF DepositInv, DepositRowsOK, depositHandler
<1>1. PICK d \in Events : d \in depositScan.todo /\ d = Min(depositScan.todo)
  BY <1>0, LeastNumber DEF depositHandler, ScanT
<1> DEFINE next == [depositScan EXCEPT !.pc = "event", !.todo = @ \ {d}, !.known = FALSE]
<1>2. next \in ScanT /\ next.pc = "event" /\ next.to = depositScan.to
      /\ next.todo = depositScan.todo \ {d}
  BY <1>0 DEF ScanT
<1>3. UNCHANGED depositsDone
  BY DEF depositHandler
<1>4. CASE /\ RowsSame /\ UNCHANGED failed
           /\ depositScan' = [depositScan EXCEPT !.pc = "call", !.known = EventOf[d].wallet \in profiles]
  <2>1. /\ depositScan' \in ScanT /\ depositScan'.pc = "call"
        /\ depositScan'.to = depositScan.to /\ depositScan'.todo = depositScan.todo
    <3>1. (EventOf[d].wallet \in profiles) \in BOOLEAN
      OBVIOUS
    <3>2. PICK b \in BOOLEAN : depositScan' = [depositScan EXCEPT !.pc = "call", !.known = b]
      BY <1>4, <3>1
    <3> QED
      BY <1>0, <3>2 DEF ScanT
  <2>2. DepositRowsOK'
    BY <1>0, <1>3, <1>4, <2>1 DEF DepositRowsOK, RowsSame
  <2>3. CursorCoversDeposits' /\ OnlyConfirmedPaid'
    BY <1>3, <1>4 DEF DepositInv, CursorCoversDeposits, OnlyConfirmedPaid, RowsSame
  <2>4. ScanCovers'
    BY <1>0, <1>4, <2>1 DEF DepositInv, ScanCovers, Recorded, Confirmed, RowsSame
  <2> QED
    BY <2>2, <2>3, <2>4 DEF DepositInv
<1>5. CASE /\ depositScan' = next
           /\ \/ process_deposit(d) /\ UNCHANGED failed
              \/ process_deposit_unknown(d) /\ UNCHANGED failed
              \/ RowsSame /\ failed' = failed \cup {d}
  <2>1. /\ eventRow' \in [Events -> {"none", "unknown", "success"}]
        /\ \A e \in Events : Recorded(e) => Recorded(e)'
    <3>1. StepRows /\ failed \subseteq failed'
      BY <1>1, <1>5, ProcessRow DEF StepRows
    <3> QED
      BY <1>0, <3>1, RecordsStay DEF Recorded
  <2>2. Recorded(d)'
    <3>1. CASE d \in failed'
      BY <3>1 DEF Recorded
    <3>2. CASE process_deposit(d)
      <4>1. eventRow'[d] # "none"
        BY <1>0, <1>1, <3>2 DEF process_deposit, NewEvent, depositRows, DepositRowsOK
      <4> QED
        BY <4>1 DEF Recorded
    <3>3. CASE process_deposit_unknown(d)
      <4>1. eventRow'[d] # "none"
        BY <1>0, <1>1, <3>3 DEF process_deposit_unknown, NewEvent, depositRows, DepositRowsOK
      <4> QED
        BY <4>1 DEF Recorded
    <3> QED
      BY <1>5, <3>1, <3>2, <3>3
  <2>3. \A e \in Events : e # d => eventRow'[e] = eventRow[e]
    BY <1>0, <1>1, <1>5 DEF process_deposit, process_deposit_unknown, depositRows, DepositRowsOK, RowsSame
  <2>4. DepositRowsOK'
    BY <1>0, <1>2, <1>3, <1>5, <2>1 DEF DepositRowsOK
  <2>5. CursorCoversDeposits'
    BY <1>3, <2>1 DEF DepositInv, CursorCoversDeposits, Recorded
  <2>6. OnlyConfirmedPaid'
    <3>1. Confirmed(d)
      BY <1>1 DEF DepositInv, ScanCovers
    <3> QED
      BY <2>3, <3>1 DEF DepositInv, OnlyConfirmedPaid, Confirmed
  <2>7. ScanCovers'
    <3>1. \A e \in depositScan'.todo : Confirmed(e)'
      BY <1>2, <1>5 DEF DepositInv, ScanCovers, Confirmed
    <3>2. ASSUME NEW e \in Events, EventOf[e].block <= depositScan'.to
          PROVE  Recorded(e)' \/ e \in depositScan'.todo
      <4>1. Recorded(e) \/ e \in depositScan.todo
        BY <1>0, <1>2, <1>5, <3>2 DEF DepositInv, ScanCovers
      <4>2. Recorded(e)' \/ (e \in depositScan.todo /\ ~(e = d))
        BY <2>1, <2>2, <4>1, Zenon
      <4>3. depositScan'.todo = depositScan.todo \ {d}
        BY <1>2, <1>5
      <4> QED
        BY <4>2, <4>3
    <3> QED
      BY <3>1, <3>2 DEF ScanCovers
  <2> QED
    BY <2>4, <2>5, <2>6, <2>7 DEF DepositInv
<1> HIDE DEF next
<1>6. \/ /\ RowsSame /\ UNCHANGED failed
         /\ depositScan' = [depositScan EXCEPT !.pc = "call", !.known = EventOf[d].wallet \in profiles]
      \/ /\ depositScan' = next
         /\ \/ process_deposit(d) /\ UNCHANGED failed
            \/ process_deposit_unknown(d) /\ UNCHANGED failed
            \/ RowsSame /\ failed' = failed \cup {d}
  BY <1>1 DEF depositHandler, RowsSame, depositRows, next
<1> QED
  BY <1>4, <1>5, <1>6

LEMMA DepositInvKept ==
    ASSUME DepositInv, [DepositNext]_depositVars
    PROVE  DepositInv'
<1>0. DepositRowsOK
  BY DEF DepositInv
<1>1. CASE UNCHANGED depositVars
  <2>1. RowsSame /\ UNCHANGED <<resolving, depositsDone, depositHead, depositScan, failed>>
    BY <1>1 DEF depositVars, depositRows, RowsSame
  <2> QED
    BY <1>0, <2>1, OutsideKeeps DEF ClientRows, DepositRowsOK
<1>2. CASE /\ \E t \in DepositTxs : HandleDeposit(t)
           /\ UNCHANGED <<profiles, resolving, depositsDone, depositHead, depositScan, failed, depositFaults>>
  <2>1. RowsSame
    BY <1>2 DEF HandleDeposit, create_deposit, RowsSame
  <2> QED
    BY <1>0, <1>2, <2>1, OutsideKeeps DEF ClientRows, DepositRowsOK
<1>3. CASE /\ \/ \E w \in Wallets : CreateProfile(w) \/ resolve_all_unknown(w)
              \/ merge_unknown_ops
           /\ UNCHANGED <<depositsDone, depositHead, depositScan, failed, depositFaults>>
  <2>1. CASE \E w \in Wallets : CreateProfile(w)
    BY <1>0, <1>3, <2>1, CreateRows, OutsideKeeps DEF ClientRows
  <2>2. CASE \E w \in Wallets : resolve_all_unknown(w)
    BY <1>0, <1>3, <2>2, ResolveRows, OutsideKeeps
  <2>3. CASE merge_unknown_ops
    <3>1. resolving' \in [Wallets -> SUBSET Events]
      BY <1>0, <2>3 DEF merge_unknown_ops, DepositRowsOK
    <3> QED
      BY <1>0, <1>3, <2>3, <3>1, MergeRows, OutsideKeeps
  <2> QED
    BY <1>3, <2>1, <2>2, <2>3
<1>4. CASE (processDepositsAndStaking \/ EndTick) /\ UNCHANGED <<profiles, resolving, depositHead>>
  BY <1>4, QuietScanKeeps, RangeKeeps, HandlerKeeps, StoreKeeps DEF processDepositsAndStaking
<1>5. CASE /\ DepositBlock
           /\ UNCHANGED <<profiles, resolving, depositRows, depositsDone, depositScan, failed, depositFaults>>
  BY <1>5, BlockKeeps DEF RowsSame, depositRows
<1> QED
  BY <1>1, <1>2, <1>3, <1>4, <1>5 DEF DepositNext

(* Whatever fails, restarts and is scanned again: the stored block passes  *)
(* no event that is not recorded, unless the call for it failed, and only  *)
(* confirmed events are paid (processDepositsAndStaking).                  *)
THEOREM ScanLeavesNothingOut ==
    DepositSpec => [](CursorCoversDeposits /\ OnlyConfirmedPaid)
<1>1. DepositInit => DepositInv
  BY DepositInitHolds
<1>2. DepositInv /\ [DepositNext]_depositVars => DepositInv'
  BY DepositInvKept
<1>3. DepositInv => CursorCoversDeposits /\ OnlyConfirmedPaid
  BY DEF DepositInv
<1> QED
  BY <1>1, <1>2, <1>3, PTL DEF DepositSpec

-------------------------------------------------------------------------------
(* Deposits implements PaidOnce.                                           *)

LEMMA PaidSettles ==
    ASSUME DepositRowsOK, NEW d \in Events, Paid(d)
    PROVE  DepositLedger!Settle(d)
<1> DEFINE paid == {e \in Events : eventRow[e] = "success"}
<1>1. d \notin paid
  BY DEF Paid
<1>2. paid' = paid \cup {d}
  BY DEF Paid, DepositRowsOK
<1>3. credit' = [credit EXCEPT ![WalletOf(d)] = @ + AmountOf(d)]
  BY DEF Paid, Pay
<1> QED
  BY <1>1, <1>2, <1>3 DEF DepositLedger!Settle

LEMMA NotedSettlesNothing ==
    ASSUME DepositRowsOK, \E d \in Events : Noted(d)
    PROVE  UNCHANGED <<{e \in Events : eventRow[e] = "success"}, credit>>
BY DEF Noted, NewEvent, DepositRowsOK

(* Every deposit is paid once, to the profile of its wallet, however       *)
(* often it is scanned, and whoever resolves it (process_deposit,          *)
(* resolve_unknown).                                                       *)
THEOREM EveryDepositPaidOnce == DepositSpec => DepositsPaidOnce
<1>1. DepositInit => DepositLedger!PaidInit
  BY DEF DepositInit, DepositLedger!PaidInit
<1>2. DepositInit => DepositInv
  BY DepositInitHolds
<1>3. DepositInv /\ [DepositNext]_depositVars => DepositInv'
  BY DepositInvKept
<1>4. DepositInv /\ [DepositNext]_depositVars
        => [\E i \in Events : DepositLedger!Settle(i)]_<<{d \in Events : eventRow[d] = "success"}, credit>>
  <2> SUFFICES ASSUME DepositInv, [DepositNext]_depositVars
               PROVE  [\E i \in Events : DepositLedger!Settle(i)]_<<{d \in Events : eventRow[d] = "success"}, credit>>
    OBVIOUS
  <2>1. DepositRowsOK /\ StepRows
    BY EveryStepRows DEF DepositInv
  <2>2. CASE RowsSame
    BY <2>2 DEF RowsSame
  <2>3. CASE \E d \in Events : Paid(d)
    BY <2>1, <2>3, PaidSettles
  <2>4. CASE \E d \in Events : Noted(d)
    BY <2>1, <2>4, NotedSettlesNothing
  <2> QED
    BY <2>1, <2>2, <2>3, <2>4 DEF StepRows
<1> QED
  BY <1>1, <1>2, <1>3, <1>4, PTL DEF DepositSpec, DepositsPaidOnce, DepositLedger!PaidSpec

-------------------------------------------------------------------------------
(* Airdrops.                                                               *)

AirdropTitles == {Titles[k] : k \in DOMAIN Titles}

DropT == [status : {"INIT", "ACTIVE", "FINISHED"}, claimable : Int, claimed : Int, upTo : Int]
ClaimT == [title : AirdropTitles, status : {"CLAIMING", "CLAIMED"}, amount : Int]

RowT == DropT \cup {<<>>}

VisitT == [pc : {"idle", "row", "volume", "fills", "unlock", "list pending", "list chain", "list finish",
                 "claim pending", "claim chain", "claim finish", "claim"},
           k : Nat, row : RowT, to : Int, op : Nat]

WithTitle == {"row", "volume", "fills", "unlock", "claim pending", "claim chain", "claim finish", "claim"}

(* A request that is about to unlock has read a row of an airdrop that had *)
(* a volume.                                                               *)
RequestOK(q) ==
    /\ q.pc \in WithTitle => q.k \in DOMAIN Titles
    /\ q.pc \in {"volume", "fills", "unlock"} => q.row \in DropT
    /\ q.pc \in {"fills", "unlock"} => AirdropVolume[Titles[q.k]] # 0

VisitsOK == visit \in [Visits -> VisitT] /\ \A v \in Visits : RequestOK(visit[v])

DropsOK ==
    /\ drop \in [AirdropTitles -> DropT]
    /\ \A t \in AirdropTitles : drop[t].status = "ACTIVE" => AirdropVolume[t] # 0

AirdropRowsOK == VisitsOK /\ DropsOK /\ claimOps \in Seq(ClaimT) /\ filled \in Int

(* The row of an airdrop counts what the claims for it come to.            *)
ClaimsCounted ==
    \A t \in AirdropTitles : drop[t].claimed = SumFunction(AmountsFor(t)) /\ drop[t].claimed <= TotalRewards[t]

AtMostOnePending == \A i, j \in Pending : i = j

AirdropInv == AirdropRowsOK /\ ClaimsCounted /\ AtMostOnePending

LEMMA AirdropConstants ==
    \A t \in AirdropTitles :
        TotalRewards[t] \in Nat /\ AirdropVolume[t] \in Nat /\ ClaimableFirst[t] \in Nat
BY AirdropAssumption DEF AirdropTitles

LEMMA TitleIn ==
    ASSUME NEW k \in DOMAIN Titles
    PROVE  Titles[k] \in AirdropTitles
BY DEF AirdropTitles

LEMMA TitlesDomain == DOMAIN Titles = 1 .. Len(Titles) /\ Len(Titles) \in Nat
<1>1. Titles \in Seq(STRING)
  BY AirdropAssumption
<1> QED
  BY <1>1

LEMMA TitlesAreNumbered == \A k \in DOMAIN Titles : k \in Nat
BY TitlesDomain

LEMMA NoVisitOK == NoVisit \in VisitT
BY DEF NoVisit, VisitT, RowT

(* A request that has just begun.                                          *)
LEMMA BegunOK ==
    ASSUME NEW pc \in {"row", "claim pending"}, NEW k \in DOMAIN Titles
    PROVE  LET q == [NoVisit EXCEPT !.pc = pc, !.k = k]
           IN  q \in VisitT /\ RequestOK(q)
<1> DEFINE q == [NoVisit EXCEPT !.pc = pc, !.k = k]
<1>1. q \in VisitT /\ q.pc = pc /\ q.k = k
  <2>1. k \in Nat
    BY TitlesAreNumbered
  <2> QED
    BY <2>1, NoVisitOK DEF VisitT
<1>2. RequestOK(q)
  BY <1>1 DEF RequestOK
<1> QED
  BY <1>1, <1>2

LEMMA AirdropInitHolds == AirdropInit => AirdropInv
<1> SUFFICES ASSUME AirdropInit PROVE AirdropInv
  OBVIOUS
<1>1. NoVisit \in VisitT /\ RequestOK(NoVisit)
  BY DEF NoVisit, VisitT, RowT, RequestOK, WithTitle
<1>2. VisitsOK
  BY <1>1 DEF AirdropInit, VisitsOK
<1>3. drop = [t \in AirdropTitles |-> [status |-> "INIT", claimable |-> ClaimableFirst[t], claimed |-> 0, upTo |-> 0]]
  BY DEF AirdropInit, AirdropTitles
<1>4. DropsOK
  BY <1>3, AirdropConstants DEF DropsOK, DropT
<1>5. ClaimsCounted
  <2>1. DOMAIN claimOps = {}
    BY DEF AirdropInit
  <2>2. ASSUME NEW t \in AirdropTitles
        PROVE  SumFunction(AmountsFor(t)) = 0
    <3>1. DOMAIN AmountsFor(t) = {}
      BY <2>1 DEF AmountsFor
    <3> QED
      BY <3>1, SumEmpty DEF SumFunction
  <2> QED
    BY <1>3, <2>2, AirdropConstants DEF ClaimsCounted
<1>6. AtMostOnePending
  BY DEF AirdropInit, AtMostOnePending, Pending
<1>7. claimOps \in Seq(ClaimT) /\ filled \in Int
  BY DEF AirdropInit
<1> QED
  BY <1>2, <1>4, <1>5, <1>6, <1>7 DEF AirdropInv, AirdropRowsOK

-------------------------------------------------------------------------------
(* The requests.                                                           *)

VisitMoves(v) == \E q \in VisitT : RequestOK(q) /\ visit' = [visit EXCEPT ![v] = q]

LEMMA VisitMovesKeeps ==
    ASSUME VisitsOK, NEW v \in Visits, VisitMoves(v)
    PROVE  VisitsOK'
BY DEF VisitMoves, VisitsOK

LEMMA ProceedMoves ==
    ASSUME VisitsOK, NEW v \in Visits,
           NEW pc \in {"idle", "list pending", "list chain", "list finish", "claim chain", "claim finish", "claim"},
           pc \in WithTitle => visit[v].k \in DOMAIN Titles,
           Proceed(v, pc)
    PROVE  VisitMoves(v)
<1> DEFINE q == [visit[v] EXCEPT !.pc = pc]
<1>1. q \in VisitT
  BY DEF VisitsOK, VisitT
<1>2. RequestOK(q)
  BY DEF RequestOK, VisitsOK, VisitT
<1>3. visit' = [visit EXCEPT ![v] = q]
  BY DEF Proceed, VisitsOK
<1> QED
  BY <1>1, <1>2, <1>3 DEF VisitMoves

LEMMA NextTitleMoves ==
    ASSUME VisitsOK, NEW v \in Visits, visit[v].k \in DOMAIN Titles, NextTitle(v)
    PROVE  VisitMoves(v)
<1> DEFINE q == [visit[v] EXCEPT !.pc = "row", !.k = @ + 1]
<1>1. CASE visit[v].k < Len(Titles)
  <2>1. visit[v].k + 1 \in DOMAIN Titles
    BY <1>1, TitlesDomain
  <2>2. q \in VisitT /\ q.pc = "row" /\ q.k = visit[v].k + 1
    <3>1. visit[v] \in VisitT /\ visit[v].k + 1 \in Nat
      BY <2>1, TitlesDomain DEF VisitsOK
    <3> QED
      BY <3>1 DEF VisitT
  <2>4. RequestOK(q)
    BY <2>1, <2>2 DEF RequestOK
  <2>3. visit' = [visit EXCEPT ![v] = q]
    BY <1>1 DEF NextTitle, VisitsOK
  <2> QED
    BY <2>2, <2>3, <2>4 DEF VisitMoves
<1>2. CASE ~(visit[v].k < Len(Titles))
  BY <1>2, ProceedMoves DEF NextTitle, WithTitle
<1> QED
  BY <1>1, <1>2

LEMMA FirstPendingType ==
    ASSUME claimOps \in Seq(ClaimT)
    PROVE  FirstPending \in Nat /\ (Pending # {} => FirstPending \in Pending)
<1>1. Pending \subseteq Nat
  BY DEF Pending
<1> QED
  BY <1>1, LeastNumber DEF FirstPending

(* The steps that only read.                                               *)
LEMMA ReadsMove ==
    ASSUME AirdropRowsOK, NEW v \in Visits,
           \/ HandleAirdropList(v) \/ ReadRow(v) \/ CountFills(v) \/ ListPending(v) \/ ListProcessed(v)
           \/ \E k \in DOMAIN Titles : HandleClaimAll(v, k)
           \/ ClaimPending(v) \/ ClaimProcessed(v) \/ Abandon(v)
    PROVE  VisitMoves(v) /\ UNCHANGED <<drop, claimOps, filled>>
<1>0. VisitsOK /\ visit[v] \in VisitT /\ RequestOK(visit[v])
  BY DEF AirdropRowsOK, VisitsOK
<1>1. UNCHANGED <<drop, claimOps, filled>>
  BY DEF HandleAirdropList, ReadRow, CountFills, ListPending, ListProcessed, HandleClaimAll, ClaimPending,
         ClaimProcessed, Abandon
<1>2. CASE HandleAirdropList(v)
  <2>1. CASE Titles = <<>>
    <3> DEFINE q == [NoVisit EXCEPT !.pc = "list pending"]
    <3>1. q \in VisitT /\ q.pc = "list pending"
      BY NoVisitOK DEF VisitT
    <3>2. RequestOK(q)
      BY <3>1 DEF RequestOK, WithTitle
    <3>3. visit' = [visit EXCEPT ![v] = q]
      BY <1>2, <2>1 DEF HandleAirdropList
    <3> QED
      BY <3>1, <3>2, <3>3, <1>1 DEF VisitMoves
  <2>2. CASE Titles # <<>>
    <3> DEFINE q == [NoVisit EXCEPT !.pc = "row", !.k = 1]
    <3>1. 1 \in DOMAIN Titles
      BY <2>2, AirdropAssumption
    <3>2. q \in VisitT /\ RequestOK(q)
      BY <3>1, BegunOK
    <3>3. visit' = [visit EXCEPT ![v] = q]
      BY <1>2, <2>2 DEF HandleAirdropList
    <3> QED
      BY <3>2, <3>3, <1>1 DEF VisitMoves
  <2> QED
    BY <2>1, <2>2
<1>3. CASE ReadRow(v)
  <2>1. visit[v].pc = "row" /\ visit[v].k \in DOMAIN Titles
    BY <1>0, <1>3 DEF ReadRow, Visiting, RequestOK, WithTitle
  <2>2. drop[Title(v)] \in DropT
    BY <2>1, TitleIn DEF AirdropRowsOK, DropsOK, Title
  <2>3. CASE NextTitle(v)
    BY <1>0, <1>1, <2>1, <2>3, NextTitleMoves
  <2>4. CASE /\ drop[Title(v)].status # "FINISHED"
             /\ visit' = [visit EXCEPT ![v].row = drop[Title(v)],
                    ![v].pc = IF drop[Title(v)].status = "INIT" THEN "volume" ELSE "fills"]
    <3> DEFINE pc == IF drop[Title(v)].status = "INIT" THEN "volume" ELSE "fills"
               q == [visit[v] EXCEPT !.row = drop[Title(v)], !.pc = pc]
    <3>1. pc \in {"volume", "fills"} /\ (pc = "fills" => AirdropVolume[Title(v)] # 0)
      BY <2>1, <2>2, <2>4, TitleIn DEF AirdropRowsOK, DropsOK, DropT, Title
    <3>2. visit' = [visit EXCEPT ![v] = q]
      BY <1>0, <2>4 DEF VisitsOK
    <3> HIDE DEF pc
    <3>3. q \in VisitT
      BY <1>0, <2>2, <3>1 DEF VisitT, RowT
    <3>4. q.pc = pc /\ q.row = drop[Title(v)] /\ q.k = visit[v].k
      BY <1>0 DEF VisitT
    <3>5. RequestOK(q)
      BY <2>1, <2>2, <3>1, <3>4 DEF RequestOK, Title
    <3> QED
      BY <1>1, <3>2, <3>3, <3>5 DEF VisitMoves
  <2> QED
    BY <1>3, <2>3, <2>4 DEF ReadRow
<1>4. CASE CountFills(v)
  <2>1. visit[v].pc = "fills" /\ visit[v].k \in DOMAIN Titles
    BY <1>0, <1>4 DEF CountFills, Visiting, RequestOK, WithTitle
  <2>2. CASE NextTitle(v)
    BY <1>0, <1>1, <2>1, <2>2, NextTitleMoves
  <2>3. CASE visit' = [visit EXCEPT ![v].to = filled, ![v].pc = "unlock"]
    <3> DEFINE q == [visit[v] EXCEPT !.to = filled, !.pc = "unlock"]
    <3>1. q \in VisitT /\ q.pc = "unlock" /\ q.k = visit[v].k /\ q.row = visit[v].row
      BY <1>0 DEF VisitT, AirdropRowsOK
    <3>2. RequestOK(q)
      BY <1>0, <2>1, <3>1 DEF RequestOK
    <3>3. visit' = [visit EXCEPT ![v] = q]
      BY <1>0, <2>3 DEF VisitsOK
    <3> QED
      BY <1>1, <3>1, <3>2, <3>3 DEF VisitMoves
  <2> QED
    BY <1>4, <2>2, <2>3 DEF CountFills
<1>5. CASE ListPending(v)
  <2> DEFINE pc == IF Pending = {} THEN "idle" ELSE "list chain"
             q == [visit[v] EXCEPT !.op = FirstPending, !.pc = pc]
  <2>1. q \in VisitT /\ q.pc = pc
    BY <1>0, FirstPendingType DEF VisitT, AirdropRowsOK
  <2>2. RequestOK(q)
    BY <2>1 DEF RequestOK, WithTitle
  <2>3. visit' = [visit EXCEPT ![v] = q]
    BY <1>0, <1>5 DEF ListPending, VisitsOK
  <2> QED
    BY <1>1, <2>1, <2>2, <2>3 DEF VisitMoves
<1>6. CASE \E k \in DOMAIN Titles : HandleClaimAll(v, k)
  <2>1. PICK k \in DOMAIN Titles : HandleClaimAll(v, k)
    BY <1>6
  <2> DEFINE q == [NoVisit EXCEPT !.pc = "claim pending", !.k = k]
  <2>3. q \in VisitT /\ RequestOK(q)
    BY BegunOK
  <2>4. visit' = [visit EXCEPT ![v] = q]
    BY <2>1 DEF HandleClaimAll
  <2> QED
    BY <1>1, <2>3, <2>4 DEF VisitMoves
<1>7. CASE ClaimPending(v)
  <2> DEFINE pc == IF Pending = {} THEN "claim" ELSE "claim chain"
             q == [visit[v] EXCEPT !.op = FirstPending, !.pc = pc]
  <2>1. q \in VisitT /\ q.pc = pc /\ q.k = visit[v].k
    BY <1>0, FirstPendingType DEF VisitT, AirdropRowsOK
  <2>2. visit[v].k \in DOMAIN Titles
    BY <1>0, <1>7 DEF ClaimPending, Visiting, RequestOK, WithTitle
  <2>3. RequestOK(q)
    <3>1. q.pc \notin {"volume", "fills", "unlock"} /\ q.k \in DOMAIN Titles
      BY <2>1, <2>2
    <3> HIDE DEF q
    <3> QED
      BY <3>1 DEF RequestOK
  <2>4. visit' = [visit EXCEPT ![v] = q]
    BY <1>0, <1>7 DEF ClaimPending, VisitsOK
  <2> QED
    BY <1>1, <2>1, <2>3, <2>4 DEF VisitMoves
<1>8. CASE ListProcessed(v)
  <2>1. Proceed(v, "list finish") \/ Proceed(v, "idle")
    BY <1>8 DEF ListProcessed
  <2> QED
    BY <1>0, <1>1, <2>1, ProceedMoves DEF WithTitle
<1>9. CASE ClaimProcessed(v)
  <2>1. visit[v].k \in DOMAIN Titles
    BY <1>0, <1>9 DEF ClaimProcessed, Visiting, RequestOK, WithTitle
  <2>2. Proceed(v, "claim finish") \/ Proceed(v, "idle")
    BY <1>9 DEF ClaimProcessed
  <2> QED
    BY <1>0, <1>1, <2>1, <2>2, ProceedMoves
<1>10. CASE Abandon(v)
  BY <1>0, <1>1, <1>10, ProceedMoves DEF Abandon, WithTitle
<1> QED
  BY <1>2, <1>3, <1>4, <1>5, <1>6, <1>7, <1>8, <1>9, <1>10

-------------------------------------------------------------------------------
(* The rows.                                                               *)

(* A row changes, but not what it counts.                                  *)
LEMMA DropKeeps ==
    ASSUME AirdropInv, NEW v \in Visits, VisitMoves(v), NEW t \in AirdropTitles, NEW row \in DropT,
           row.claimed = drop[t].claimed, row.status = "ACTIVE" => AirdropVolume[t] # 0,
           drop' = [drop EXCEPT ![t] = row], UNCHANGED <<claimOps, filled>>
    PROVE  AirdropInv'
<1>1. AirdropRowsOK'
  BY VisitMovesKeeps DEF AirdropInv, AirdropRowsOK, DropsOK
<1>2. \A u \in AirdropTitles : drop'[u].claimed = drop[u].claimed
  BY DEF AirdropInv, AirdropRowsOK, DropsOK
<1>3. ClaimsCounted'
  BY <1>2 DEF AirdropInv, ClaimsCounted, AmountsFor
<1>4. AtMostOnePending'
  BY DEF AirdropInv, AtMostOnePending, Pending
<1> QED
  BY <1>1, <1>3, <1>4 DEF AirdropInv

LEMMA NoRowKeeps ==
    ASSUME AirdropInv, VisitsOK', filled' \in Int, UNCHANGED <<drop, claimOps>>
    PROVE  AirdropInv'
<1>1. AirdropRowsOK'
  BY DEF AirdropInv, AirdropRowsOK, DropsOK
<1>2. ClaimsCounted'
  BY DEF AirdropInv, ClaimsCounted, AmountsFor
<1>3. AtMostOnePending'
  BY DEF AirdropInv, AtMostOnePending, Pending
<1> QED
  BY <1>1, <1>2, <1>3 DEF AirdropInv

LEMMA SetVolumeKeeps ==
    ASSUME AirdropInv, NEW v \in Visits, SetVolume(v)
    PROVE  AirdropInv'
<1>0. VisitsOK /\ visit[v] \in VisitT /\ RequestOK(visit[v]) /\ visit[v].pc = "volume"
  BY DEF AirdropInv, AirdropRowsOK, VisitsOK, SetVolume, Visiting
<1>1. visit[v].k \in DOMAIN Titles
  BY <1>0 DEF RequestOK, WithTitle
<1>2. PICK u \in AirdropTitles : u = Title(v)
  BY <1>1, TitleIn DEF Title
<1>3. drop[u] \in DropT
  BY DEF AirdropInv, AirdropRowsOK, DropsOK
<1>4. CASE AirdropVolume[u] = 0
  <2> DEFINE row == [drop[u] EXCEPT !.status = "FINISHED"]
  <2>1. row \in DropT /\ row.claimed = drop[u].claimed /\ row.status = "FINISHED"
    BY <1>3 DEF DropT
  <2>2. drop' = [drop EXCEPT ![u] = row] /\ NextTitle(v) /\ UNCHANGED <<claimOps, filled>>
    BY <1>2, <1>4 DEF SetVolume, AirdropInv, AirdropRowsOK, DropsOK
  <2>3. VisitMoves(v)
    BY <1>0, <1>1, <2>2, NextTitleMoves
  <2> QED
    BY <2>1, <2>2, <2>3, DropKeeps
<1>5. CASE AirdropVolume[u] # 0
  <2> DEFINE row == [drop[u] EXCEPT !.status = "ACTIVE"]
             q == [visit[v] EXCEPT !.pc = "fills"]
  <2>1. row \in DropT /\ row.claimed = drop[u].claimed
    BY <1>3 DEF DropT
  <2>2. drop' = [drop EXCEPT ![u] = row] /\ Proceed(v, "fills") /\ UNCHANGED <<claimOps, filled>>
    BY <1>2, <1>5 DEF SetVolume, AirdropInv, AirdropRowsOK, DropsOK
  <2>3. VisitMoves(v)
    <3>1. q \in VisitT /\ q.pc = "fills" /\ q.k = visit[v].k /\ q.row = visit[v].row
      BY <1>0 DEF VisitT
    <3>2. RequestOK(q)
      BY <1>0, <1>1, <1>2, <1>5, <3>1 DEF RequestOK, Title
    <3>3. visit' = [visit EXCEPT ![v] = q]
      BY <1>0, <2>2 DEF Proceed, VisitsOK
    <3> QED
      BY <3>1, <3>2, <3>3 DEF VisitMoves
  <2> QED
    BY <1>5, <2>1, <2>2, <2>3, DropKeeps
<1> QED
  BY <1>4, <1>5

LEMMA MinOfTwo ==
    ASSUME NEW a \in Int, NEW b \in Int
    PROVE  Min({a, b}) \in {a, b} /\ Min({a, b}) <= a /\ Min({a, b}) <= b
BY DEF Min

LEMMA QuotientType ==
    ASSUME NEW a \in Int, NEW b \in Nat, b # 0
    PROVE  a \div b \in Int
OBVIOUS

LEMMA UnlockKeeps ==
    ASSUME AirdropInv, NEW v \in Visits, Unlock(v)
    PROVE  AirdropInv'
<1>0. VisitsOK /\ visit[v] \in VisitT /\ RequestOK(visit[v]) /\ visit[v].pc = "unlock"
  BY DEF AirdropInv, AirdropRowsOK, VisitsOK, Unlock, Visiting
<1>1. /\ visit[v].k \in DOMAIN Titles /\ visit[v].row \in DropT /\ visit[v].to \in Int
      /\ AirdropVolume[Title(v)] # 0
  BY <1>0 DEF RequestOK, WithTitle, VisitT, Title
<1>2. PICK u \in AirdropTitles : u = Title(v)
  BY <1>1, TitleIn DEF Title
<1>3. drop[u] \in DropT /\ drop \in [AirdropTitles -> DropT] /\ filled \in Int
  BY DEF AirdropInv, AirdropRowsOK, DropsOK
<1>4. CASE Proceed(v, "idle") /\ UNCHANGED drop
  <2>1. VisitsOK'
    BY <1>0, <1>4, ProceedMoves, VisitMovesKeeps DEF WithTitle
  <2> QED
    BY <1>3, <1>4, <2>1, NoRowKeeps DEF Unlock
<1>5. CASE /\ drop' = [drop EXCEPT ![u].status = "ACTIVE", ![u].upTo = visit[v].to,
                 ![u].claimable = @ + Min({Unlockable(u, visit[v].row),
                                           Unlocked(u, visit[v].to - visit[v].row.upTo)})]
           /\ NextTitle(v)
  <2>1. Unlockable(u, visit[v].row) \in Int
    BY <1>1, AirdropConstants DEF Unlockable, DropT
  <2>2. Unlocked(u, visit[v].to - visit[v].row.upTo) \in Int
    <3>1. AirdropVolume[u] \in Nat /\ AirdropVolume[u] # 0
      BY <1>1, <1>2, AirdropConstants
    <3>2. (TotalRewards[u] - ClaimableFirst[u]) * (visit[v].to - visit[v].row.upTo) \in Int
      <4>1. TotalRewards[u] - ClaimableFirst[u] \in Int
        BY AirdropConstants
      <4>2. visit[v].to - visit[v].row.upTo \in Int
        BY <1>1 DEF DropT
      <4> QED
        BY <4>1, <4>2
    <3> QED
      BY <3>1, <3>2, QuotientType DEF Unlocked
  <2>3. PICK m \in Int : m = Min({Unlockable(u, visit[v].row),
                                  Unlocked(u, visit[v].to - visit[v].row.upTo)})
    BY <2>1, <2>2, MinOfTwo
  <2> DEFINE row == [drop[u] EXCEPT !.status = "ACTIVE", !.upTo = visit[v].to, !.claimable = @ + m]
  <2>4. row \in DropT /\ row.claimed = drop[u].claimed
    <3>1. drop[u].claimable + m \in Int /\ visit[v].to \in Int
      BY <1>1, <1>3, <2>3 DEF DropT
    <3> QED
      BY <1>3, <3>1 DEF DropT
  <2>5. drop' = [drop EXCEPT ![u] = row]
    BY <1>3, <1>5, <2>3
  <2>6. VisitMoves(v)
    BY <1>0, <1>1, <1>5, NextTitleMoves
  <2> QED
    BY <1>1, <1>2, <2>4, <2>5, <2>6, DropKeeps DEF Unlock
<1> QED
  BY <1>2, <1>4, <1>5 DEF Unlock

LEMMA ClaimsDomain ==
    ASSUME claimOps \in Seq(ClaimT)
    PROVE  /\ DOMAIN claimOps = 1 .. Len(claimOps) /\ Len(claimOps) \in Nat
           /\ \A j \in DOMAIN claimOps : claimOps[j] \in ClaimT
<1>1. DOMAIN claimOps = 1 .. Len(claimOps) /\ Len(claimOps) \in Nat
  OBVIOUS
<1> QED
  BY <1>1, ElementOfSeq

(* The pending claim is finished: it keeps its title and its amount.       *)
LEMMA FinishKeeps ==
    ASSUME AirdropInv, NEW v \in Visits, NEW pc \in {"list finish", "claim finish"},
           NEW next \in {"idle", "claim"}, next = "claim" => pc = "claim finish",
           FinishClaim(v, pc, next)
    PROVE  AirdropInv'
<1>0. VisitsOK /\ visit[v] \in VisitT /\ RequestOK(visit[v]) /\ visit[v].pc = pc
      /\ claimOps \in Seq(ClaimT) /\ drop \in [AirdropTitles -> DropT] /\ filled \in Int
  BY DEF AirdropInv, AirdropRowsOK, DropsOK, VisitsOK, FinishClaim, Visiting
<1>1. UNCHANGED filled
  BY DEF FinishClaim
<1>2. next \in WithTitle => visit[v].k \in DOMAIN Titles
  BY <1>0 DEF RequestOK, WithTitle
<1>3. CASE UNCHANGED <<claimOps, drop>> /\ Proceed(v, "idle")
  <2>1. VisitsOK'
    BY <1>0, <1>3, ProceedMoves, VisitMovesKeeps DEF WithTitle
  <2> QED
    BY <1>0, <1>1, <1>3, <2>1, NoRowKeeps
<1>4. CASE Pending # {} /\ finish_claim /\ Proceed(v, next)
  <2>1. PICK i \in Pending : i = FirstPending
    BY <1>0, <1>4, FirstPendingType
  <2>2. i \in DOMAIN claimOps /\ claimOps[i] \in ClaimT
    <3>1. i \in DOMAIN claimOps
      BY DEF Pending
    <3> QED
      BY <1>0, <3>1, ClaimsDomain
  <2>3. PICK t \in AirdropTitles : t = claimOps[i].title
    BY <2>2 DEF ClaimT
  <2> DEFINE done == [claimOps[i] EXCEPT !.status = "CLAIMED"]
             row == [drop[t] EXCEPT !.status = "FINISHED"]
  <2>4. /\ done \in ClaimT /\ done.title = claimOps[i].title /\ done.amount = claimOps[i].amount
        /\ done.status = "CLAIMED"
    BY <2>2 DEF ClaimT
  <2>5. claimOps' = [claimOps EXCEPT ![i] = done]
    BY <1>0, <1>4, <2>1, <2>2 DEF finish_claim
  <2> HIDE DEF done
  <2>6. /\ claimOps' \in Seq(ClaimT) /\ DOMAIN claimOps' = DOMAIN claimOps
        /\ claimOps'[i] = done /\ \A j \in DOMAIN claimOps : j # i => claimOps'[j] = claimOps[j]
    <3>1. i \in 1 .. Len(claimOps) /\ DOMAIN claimOps = 1 .. Len(claimOps)
      BY <1>0, <2>2, ClaimsDomain
    <3> QED
      BY <1>0, <2>4, <2>5, <3>1, ExceptSeq
  <2>7. \A j \in DOMAIN claimOps : claimOps'[j].title = claimOps[j].title /\ claimOps'[j].amount = claimOps[j].amount
    BY <2>4, <2>6
  <2>8. AtMostOnePending'
    <3>1. Pending' \subseteq Pending
      BY <2>4, <2>6 DEF Pending
    <3> QED
      BY <3>1 DEF AirdropInv, AtMostOnePending
  <2>9. row \in DropT /\ row.claimed = drop[t].claimed /\ row.status = "FINISHED"
    BY <1>0 DEF DropT
  <2>10. \/ UNCHANGED drop
         \/ drop' = [drop EXCEPT ![t] = row]
    BY <1>0, <1>4, <2>1, <2>3 DEF finish_claim
  <2> HIDE DEF row
  <2>11. DropsOK' /\ \A u \in AirdropTitles : drop'[u].claimed = drop[u].claimed
    BY <1>0, <2>9, <2>10 DEF AirdropInv, AirdropRowsOK, DropsOK
  <2>12. VisitsOK'
    BY <1>0, <1>2, <1>4, ProceedMoves, VisitMovesKeeps
  <2>13. AirdropRowsOK'
    BY <1>0, <1>1, <2>6, <2>11, <2>12 DEF AirdropRowsOK
  <2>14. \A u : AmountsFor(u)' = AmountsFor(u)
    BY <2>6, <2>7 DEF AmountsFor
  <2>15. ClaimsCounted'
    BY <2>11, <2>14 DEF AirdropInv, ClaimsCounted
  <2> QED
    BY <2>8, <2>13, <2>15 DEF AirdropInv
<1> QED
  BY <1>3, <1>4 DEF FinishClaim

(* A claim more.                                                           *)
LEMMA AppendedAmounts ==
    ASSUME claimOps \in Seq(ClaimT), NEW c \in ClaimT, claimOps' = Append(claimOps, c), NEW t
    PROVE  SumFunction(AmountsFor(t)') = SumFunction(AmountsFor(t)) + (IF c.title = t THEN c.amount ELSE 0)
<1> DEFINE n == Len(claimOps) + 1
           new == AmountsFor(t)'
           old == AmountsFor(t)
<1>1. /\ Len(claimOps) \in Nat /\ DOMAIN claimOps = 1 .. Len(claimOps) /\ DOMAIN claimOps' = 1 .. n
      /\ claimOps'[n] = c /\ \A j \in DOMAIN claimOps : claimOps'[j] = claimOps[j]
  OBVIOUS
<1>2. \A j \in DOMAIN claimOps : claimOps[j].amount \in Int
  BY ClaimsDomain DEF ClaimT
<1>3. c.amount \in Int
  BY DEF ClaimT
<1>4. /\ DOMAIN new = 1 .. n /\ DOMAIN old = 1 .. Len(claimOps)
      /\ new[n] = (IF c.title = t THEN c.amount ELSE 0)
      /\ \A j \in 1 .. Len(claimOps) : new[j] = old[j] /\ old[j] \in Int
  BY <1>1, <1>2 DEF AmountsFor
<1> HIDE DEF new, old
<1>5. \A j \in 1 .. n : new[j] \in Int
  <2>1. \A j \in 1 .. n : j = n \/ j \in 1 .. Len(claimOps)
    BY <1>1
  <2> QED
    BY <1>3, <1>4, <2>1
<1>6. IsFiniteSet(1 .. n) /\ IsFiniteSet(1 .. Len(claimOps)) /\ n \in 1 .. n /\ (1 .. n) \ {n} = 1 .. Len(claimOps)
  BY <1>1, FS_Interval
<1>7. SumFunctionOnSet(new, 1 .. n) = new[n] + SumFunctionOnSet(new, (1 .. n) \ {n})
  BY <1>5, <1>6, SumSplit
<1>8. SumFunctionOnSet(new, 1 .. Len(claimOps)) = SumFunctionOnSet(old, 1 .. Len(claimOps))
  BY <1>4, <1>6, SumSame
<1>9. SumFunctionOnSet(old, 1 .. Len(claimOps)) \in Int
  BY <1>4, <1>6, SumType
<1>10. SumFunction(new) = new[n] + SumFunction(old)
  BY <1>4, <1>6, <1>7, <1>8 DEF SumFunction
<1>11. SumFunction(old) \in Int
  BY <1>4, <1>9 DEF SumFunction
<1> QED
  BY <1>3, <1>4, <1>10, <1>11 DEF new, old

LEMMA ClaimedRow ==
    ASSUME NEW old \in DropT
    PROVE  LET row == [old EXCEPT !.claimable = 0, !.claimed = @ + old.claimable]
           IN  /\ row \in DropT /\ row.claimable = 0 /\ row.claimed = old.claimed + old.claimable
               /\ row.status = old.status
<1>1. PICK n \in Int : n = old.claimed + old.claimable
  BY DEF DropT
<1> DEFINE half == [old EXCEPT !.claimable = 0]
           row == [half EXCEPT !.claimed = n]
<1>2. half \in DropT /\ half.claimable = 0 /\ half.claimed = old.claimed /\ half.status = old.status
  BY DEF DropT
<1>3. row \in DropT /\ row.claimable = half.claimable /\ row.claimed = n /\ row.status = half.status
  <2> HIDE DEF half
  <2> QED
    BY <1>2 DEF DropT
<1>4. row = [old EXCEPT !.claimable = 0, !.claimed = @ + old.claimable]
  BY <1>1 DEF DropT
<1> QED
  BY <1>2, <1>3, <1>4, <1>1

LEMMA ClaimKeeps ==
    ASSUME AirdropInv, NEW v \in Visits, claim_all(v)
    PROVE  AirdropInv'
<1>0. VisitsOK /\ visit[v] \in VisitT /\ RequestOK(visit[v]) /\ visit[v].pc = "claim"
      /\ claimOps \in Seq(ClaimT) /\ drop \in [AirdropTitles -> DropT] /\ filled \in Int
  BY DEF AirdropInv, AirdropRowsOK, DropsOK, VisitsOK, claim_all, Visiting
<1>1. UNCHANGED filled
  BY DEF claim_all
<1>2. VisitsOK'
  BY <1>0, ProceedMoves, VisitMovesKeeps DEF claim_all, WithTitle
<1>3. CASE UNCHANGED <<claimOps, drop>>
  BY <1>0, <1>1, <1>2, <1>3, NoRowKeeps
<1>4. CASE ~UNCHANGED <<claimOps, drop>>
  <2>1. visit[v].k \in DOMAIN Titles
    BY <1>0 DEF RequestOK, WithTitle
  <2>2. PICK t \in AirdropTitles : t = Title(v)
    BY <2>1, TitleIn DEF Title
  <2> DEFINE row == [drop[t] EXCEPT !.claimable = 0, !.claimed = @ + drop[t].claimable]
             c == [title |-> t, status |-> "CLAIMING", amount |-> drop[t].claimable]
  <2>3. NonePending /\ WithinTotal(t, row) /\ claimOps' = Append(claimOps, c) /\ drop' = [drop EXCEPT ![t] = row]
    BY <1>4, <2>2 DEF claim_all
  <2>4. drop[t] \in DropT /\ drop[t].claimable \in Int /\ drop[t].claimed \in Int
    BY <1>0 DEF DropT
  <2>5. /\ row \in DropT /\ row.claimable = 0 /\ row.claimed = drop[t].claimed + drop[t].claimable
        /\ row.status = drop[t].status
    BY <2>4, ClaimedRow
  <2>6. c \in ClaimT /\ c.title = t /\ c.amount = drop[t].claimable
    BY <2>4 DEF ClaimT
  <2> HIDE DEF row, c
  <2>7. row.claimed <= TotalRewards[t]
    BY <2>3, <2>4, <2>5, AirdropConstants DEF WithinTotal
  <2>8. drop'[t] = row /\ \A u \in AirdropTitles : u # t => drop'[u] = drop[u]
    BY <1>0, <2>3
  <2>9. AirdropRowsOK'
    <3>1. DropsOK'
      BY <2>3, <2>5, <2>8 DEF AirdropInv, AirdropRowsOK, DropsOK
    <3>2. claimOps' \in Seq(ClaimT)
      BY <1>0, <2>3, <2>6
    <3> QED
      BY <1>0, <1>1, <1>2, <3>1, <3>2 DEF AirdropRowsOK
  <2>10. ClaimsCounted'
    <3> SUFFICES ASSUME NEW u \in AirdropTitles
                 PROVE  drop'[u].claimed = SumFunction(AmountsFor(u)') /\ drop'[u].claimed <= TotalRewards[u]
      BY DEF ClaimsCounted
    <3>1. drop[u].claimed = SumFunction(AmountsFor(u)) /\ drop[u].claimed <= TotalRewards[u]
      BY DEF AirdropInv, ClaimsCounted
    <3>2. SumFunction(AmountsFor(u)') = SumFunction(AmountsFor(u)) + (IF c.title = u THEN c.amount ELSE 0)
      BY <1>0, <2>3, <2>6, AppendedAmounts
    <3>3. CASE u = t
      BY <2>4, <2>5, <2>6, <2>7, <2>8, <3>1, <3>2, <3>3
    <3>4. CASE u # t
      <4>1. drop[u].claimed \in Int
        BY <1>0 DEF DropT
      <4> QED
        BY <2>6, <2>8, <3>1, <3>2, <3>4, <4>1
    <3> QED
      BY <3>3, <3>4
  <2>11. AtMostOnePending'
    <3>1. Pending = {}
      BY <2>3 DEF NonePending
    <3>2. \A i \in Pending' : i = Len(claimOps) + 1
      BY <1>0, <2>3, <3>1 DEF Pending
    <3> QED
      BY <3>2 DEF AtMostOnePending
  <2> QED
    BY <2>9, <2>10, <2>11 DEF AirdropInv
<1> QED
  BY <1>3, <1>4

LEMMA AirdropInvKept ==
    ASSUME AirdropInv, [AirdropNext]_airdropVars
    PROVE  AirdropInv'
<1>0. AirdropRowsOK /\ VisitsOK /\ filled \in Int
  BY DEF AirdropInv, AirdropRowsOK
<1>1. CASE UNCHANGED airdropVars
  <2>1. VisitsOK'
    BY <1>0, <1>1 DEF airdropVars, VisitsOK
  <2> QED
    BY <1>0, <1>1, <2>1, NoRowKeeps DEF airdropVars
<1>2. ASSUME NEW v \in Visits,
             \/ HandleAirdropList(v) \/ ReadRow(v) \/ CountFills(v) \/ ListPending(v) \/ ListProcessed(v)
             \/ \E k \in DOMAIN Titles : HandleClaimAll(v, k)
             \/ ClaimPending(v) \/ ClaimProcessed(v) \/ Abandon(v)
      PROVE  AirdropInv'
  BY <1>0, <1>2, ReadsMove, VisitMovesKeeps, NoRowKeeps
<1>3. ASSUME NEW v \in Visits,
             FinishClaim(v, "list finish", "idle") \/ FinishClaim(v, "claim finish", "claim")
      PROVE  AirdropInv'
  BY <1>3, FinishKeeps
<1>4. CASE (\E i \in DOMAIN claimOps : ClaimOnChain(i)) \/ AirdropTrade
  <2>1. UNCHANGED <<visit, drop, claimOps>> /\ filled' \in Int
    BY <1>0, <1>4 DEF ClaimOnChain, AirdropTrade
  <2>2. VisitsOK'
    BY <1>0, <2>1 DEF VisitsOK
  <2> QED
    BY <2>1, <2>2, NoRowKeeps
<1> QED
  BY <1>1, <1>2, <1>3, <1>4, SetVolumeKeeps, UnlockKeeps, ClaimKeeps DEF AirdropNext

(* However many requests run at once, one claim is open and what was       *)
(* signed for an airdrop stays within its total (claim_all, finish_claim). *)
THEOREM ClaimsStayLimited == AirdropSpec => []ClaimsLimited
<1>1. AirdropInit => AirdropInv
  BY AirdropInitHolds
<1>2. AirdropInv /\ [AirdropNext]_airdropVars => AirdropInv'
  BY AirdropInvKept
<1>3. AirdropInv => ClaimsLimited
  <2> SUFFICES ASSUME AirdropInv PROVE ClaimsLimited
    OBVIOUS
  <2>1. OneClaimPending
    <3>1. CASE Pending = {}
      BY <3>1, FS_EmptySet DEF OneClaimPending
    <3>2. CASE Pending # {}
      <4>1. PICK i \in Pending : Pending = {i}
        BY <3>2 DEF AirdropInv, AtMostOnePending
      <4>2. Cardinality(Pending) = 1
        BY <4>1, FS_Singleton
      <4> QED
        BY <4>2 DEF OneClaimPending
    <3> QED
      BY <3>1, <3>2
  <2>3. ClaimedWithinTotal
    <3>1. DOMAIN drop = AirdropTitles
      BY DEF AirdropInv, AirdropRowsOK, DropsOK
    <3> QED
      BY <3>1 DEF AirdropInv, ClaimsCounted, ClaimedWithinTotal
  <2> QED
    BY <2>1, <2>3 DEF ClaimsLimited
<1> QED
  BY <1>1, <1>2, <1>3, PTL DEF AirdropSpec

-------------------------------------------------------------------------------
(* The claw-back.                                                          *)

ClawTypes ==
    /\ insurancePos \in Nat /\ winning \in [Winners -> Nat]
    /\ clawbackMap \subseteq Winners /\ clawTodo \subseteq Winners
    /\ clawbackSize \in [Winners -> Int] /\ remaining \in [Winners -> Nat]
    /\ deficit \in Int /\ fraction \in Int \X (Nat \ {0})
    /\ clawPass \in {"wait", "proportional", "leftover", "extra", "done"}

(* What is taken from a trader and what it has left is its position.       *)
ClawBooks ==
    /\ \A t \in clawbackMap : clawbackSize[t] + remaining[t] = winning[t]
    /\ \A t \in Winners : clawbackSize[t] <= winning[t]

(* How far each loop is: a trader that a loop has left is not worth        *)
(* another look, or there is nothing left to get rid of.                   *)
ClawProgress ==
    /\ clawPass = "wait" => clawbackMap = {} /\ \A t \in Winners : clawbackSize[t] = 0 /\ remaining[t] = 0
    /\ clawPass = "proportional" =>
          /\ deficit >= 0 /\ \A t \in clawTodo : winning[t] > 0
          /\ \A t \in Winners : t \in clawTodo \/ t \in clawbackMap \/ remaining[t] = 0
    /\ clawPass \in {"leftover", "extra"} => clawTodo \subseteq clawbackMap
    /\ clawPass = "leftover" => \A t \in Winners : t \in clawbackMap \/ remaining[t] = 0
    /\ clawPass = "extra" =>
          deficit < MinOrder \/ \A t \in Winners : t \in clawTodo \/ remaining[t] < MinOrder

ClawInv == ClawTypes /\ ClawBooks /\ ClawProgress /\ ClawCovers

LEMMA ClawInitHolds == ClawInit => ClawInv
<1> SUFFICES ASSUME ClawInit PROVE ClawInv
  OBVIOUS
<1>1. None \in [Winners -> Nat] /\ \A t \in Winners : None[t] = 0
  BY DEF None
<1>2. fraction \in Int \X (Nat \ {0})
  BY DEF ClawInit
<1>3. ClawTypes
  BY <1>1, <1>2 DEF ClawInit, ClawTypes
<1>4. ClawBooks
  BY <1>1 DEF ClawInit, ClawBooks
<1>5. ClawProgress
  BY <1>1 DEF ClawInit, ClawProgress
<1>6. ClawCovers
  BY DEF ClawInit, ClawCovers
<1> QED
  BY <1>3, <1>4, <1>5, <1>6 DEF ClawInv

LEMMA MinOfThree ==
    ASSUME NEW a \in Int, NEW b \in Int, NEW c \in Int
    PROVE  LET m == Min({a, b, c}) IN m \in Int /\ m <= a /\ m <= b /\ m <= c
<1>1. PICK x \in {a, b, c} : \A y \in {a, b, c} : x =< y
  <2>1. CASE a <= b /\ a <= c
    BY <2>1
  <2>2. CASE b <= a /\ b <= c
    BY <2>2
  <2>3. CASE c <= a /\ c <= b
    BY <2>3
  <2> QED
    BY <2>1, <2>2, <2>3
<1>2. Min({a, b, c}) \in {a, b, c} /\ \A y \in {a, b, c} : Min({a, b, c}) =< y
  BY <1>1 DEF Min
<1> QED
  BY <1>2

(* The ticks of a quotient are a whole number of min orders.               *)
LEMMA RoundedType ==
    ASSUME NEW n \in Int, NEW d \in Nat \ {0}
    PROVE  roundToNearestTick(n, d) \in Int /\ roundUpToTick(n, d) \in Int
<1>1. MinOrder \in Nat /\ MinOrder > 0
  BY ClawbackAssumption
<1>2. PICK e \in Nat : e = d * MinOrder /\ e # 0
  BY <1>1
<1>3. 2 * d * MinOrder = 2 * e
  BY <1>1, <1>2
<1>4. (2 * n + e) \div (2 * e) \in Int /\ (n + e - 1) \div e \in Int
  BY <1>2, QuotientType
<1>5. roundToNearestTick(n, d) = ((2 * n + e) \div (2 * e)) * MinOrder
  BY <1>2, <1>3 DEF roundToNearestTick
<1>6. roundUpToTick(n, d) = ((n + e - 1) \div e) * MinOrder
  BY <1>2 DEF roundUpToTick
<1> QED
  BY <1>1, <1>4, <1>5, <1>6

LEMMA ProportionalShareOK ==
    ASSUME ClawInv, clawPass = "proportional", NEW t \in clawTodo
    PROVE  /\ ProportionalShare(t) \in Int
           /\ ProportionalShare(t) <= deficit /\ ProportionalShare(t) <= winning[t]
<1>1. /\ t \in Winners /\ IsFiniteSet(Winners) /\ \A u \in Winners : winning[u] \in Nat
      /\ insurancePos \in Nat /\ deficit \in Int /\ winning[t] > 0
  BY ClawbackAssumption DEF ClawInv, ClawTypes, ClawProgress
<1>2. SumOver(winning, Winners) \in Nat \ {0}
  <2>1. SumOver(winning, Winners) \in Nat
    BY <1>1, SumNat DEF SumOver
  <2>2. winning[t] <= SumOver(winning, Winners)
    BY <1>1, SumAtLeast DEF SumOver
  <2> QED
    BY <1>1, <2>1, <2>2
<1>3. insurancePos * winning[t] \in Int
  BY <1>1
<1>4. roundToNearestTick(insurancePos * winning[t], SumOver(winning, Winners)) \in Int
  BY <1>2, <1>3, RoundedType
<1>5. winning[t] \in Int
  BY <1>1
<1> QED
  BY <1>1, <1>4, <1>5, MinOfThree DEF ProportionalShare

LEMMA LeftoverShareOK ==
    ASSUME ClawInv, NEW t \in Winners
    PROVE  LeftoverShare(t) \in Int /\ LeftoverShare(t) <= remaining[t]
<1>1. remaining[t] \in Int /\ fraction[1] \in Int /\ fraction[2] \in Nat \ {0}
  BY DEF ClawInv, ClawTypes
<1>2. remaining[t] * fraction[1] \in Int
  BY <1>1
<1>3. roundUpToTick(remaining[t] * fraction[1], fraction[2]) \in Int
  BY <1>1, <1>2, RoundedType
<1> QED
  BY <1>1, <1>3, MinOfTwo DEF LeftoverShare

LEMMA ExtraShareOK ==
    ASSUME ClawInv, NEW t \in Winners
    PROVE  /\ ExtraShare(t) \in Int /\ ExtraShare(t) <= remaining[t] /\ ExtraShare(t) >= 0
           /\ \/ deficit - ExtraShare(t) < MinOrder
              \/ remaining[t] - ExtraShare(t) < MinOrder
<1>1. remaining[t] \in Nat /\ deficit \in Int /\ MinOrder \in Nat /\ MinOrder > 0
  BY ClawbackAssumption DEF ClawInv, ClawTypes
<1>2. CASE deficit >= MinOrder /\ remaining[t] >= MinOrder
  <2>1. ExtraShare(t) = Min({deficit, remaining[t]})
    BY <1>2 DEF ExtraShare
  <2>2. ExtraShare(t) \in {deficit, remaining[t]} /\ ExtraShare(t) <= remaining[t]
    BY <1>1, <2>1, MinOfTwo
  <2> QED
    BY <1>1, <1>2, <2>2
<1>3. CASE ~(deficit >= MinOrder /\ remaining[t] >= MinOrder)
  <2>1. ExtraShare(t) = 0
    BY <1>3 DEF ExtraShare
  <2> QED
    BY <1>1, <1>3, <2>1
<1> QED
  BY <1>2, <1>3

LEMMA ReadPositionsKeeps ==
    ASSUME ClawInv, ReadPositions
    PROVE  ClawInv'
<1> USE ClawbackAssumption
<1>1. /\ clawPass = "wait" /\ clawPass' = "proportional" /\ insurancePos' \in Nat
      /\ deficit' = insurancePos' /\ clawTodo' = {t \in Winners : winning'[t] > 0}
      /\ UNCHANGED <<clawbackMap, clawbackSize, remaining, fraction>>
  BY DEF ReadPositions
<1>2. winning' \in [Winners -> Nat]
  <2>1. PICK W \in SUBSET Winners \ {{}} : \E s \in [W -> WinningSizes] :
           winning' = [t \in Winners |-> IF t \in W THEN s[t] ELSE 0]
    BY DEF ReadPositions
  <2>2. PICK s \in [W -> WinningSizes] : winning' = [t \in Winners |-> IF t \in W THEN s[t] ELSE 0]
    BY <2>1
  <2>3. \A t \in W : s[t] \in Nat
    OBVIOUS
  <2> QED
    BY <2>2, <2>3
<1>3. ClawTypes'
  BY <1>1, <1>2 DEF ClawInv, ClawTypes
<1>4. ClawBooks'
  BY <1>1, <1>2 DEF ClawInv, ClawBooks, ClawProgress
<1>5. ClawProgress'
  BY <1>1, <1>2 DEF ClawInv, ClawProgress
<1>6. ClawCovers'
  BY <1>1 DEF ClawCovers
<1> QED
  BY <1>3, <1>4, <1>5, <1>6 DEF ClawInv

LEMMA ProportionalKeeps ==
    ASSUME ClawInv, Proportional
    PROVE  ClawInv'
<1>0. /\ clawPass = "proportional" /\ UNCHANGED <<insurancePos, winning>>
      /\ winning \in [Winners -> Nat] /\ clawbackMap \subseteq Winners /\ clawTodo \subseteq Winners
      /\ clawbackSize \in [Winners -> Int] /\ remaining \in [Winners -> Nat]
      /\ deficit \in Int /\ deficit >= 0 /\ fraction \in Int \X (Nat \ {0}) /\ insurancePos \in Nat
  BY DEF ClawInv, ClawTypes, ClawProgress, Proportional
<1>1. MinOrder \in Nat /\ MinOrder > 0 /\ IsFiniteSet(clawbackMap)
  BY <1>0, ClawbackAssumption, FS_Subset
<1>2. CASE clawTodo = {} \/ deficit < MinOrder
  <2> DEFINE left == SumOver(remaining, clawbackMap)
  <2>1. left \in Nat
    BY <1>0, <1>1, SumNat DEF SumOver
  <2> HIDE DEF left
  <2>2. /\ clawPass' = (IF deficit >= MinOrder THEN "leftover" ELSE "extra")
        /\ fraction' = (IF left <= deficit THEN <<1, 1>> ELSE <<deficit, left>>)
        /\ clawTodo' = clawbackMap
        /\ UNCHANGED <<clawbackMap, clawbackSize, remaining, deficit>>
    BY <1>2 DEF Proportional, left
  <2>3. fraction' \in Int \X (Nat \ {0})
    BY <1>0, <2>1, <2>2
  <2>4. ClawTypes'
    BY <1>0, <2>2, <2>3 DEF ClawTypes
  <2>5. ClawBooks'
    BY <1>0, <2>2 DEF ClawInv, ClawBooks
  <2>6. ClawProgress'
    BY <1>0, <1>1, <1>2, <2>2 DEF ClawInv, ClawProgress
  <2>7. ClawCovers'
    BY <1>1, <2>2 DEF ClawCovers
  <2> QED
    BY <2>4, <2>5, <2>6, <2>7 DEF ClawInv
<1>3. CASE ~(clawTodo = {} \/ deficit < MinOrder)
  <2>1. PICK t \in clawTodo :
           /\ clawbackMap' = (IF Kept(t) THEN clawbackMap \cup {t} ELSE clawbackMap)
           /\ clawbackSize' = [clawbackSize EXCEPT ![t] = ProportionalShare(t)]
           /\ remaining' = [remaining EXCEPT ![t] = winning[t] - ProportionalShare(t)]
           /\ deficit' = deficit - ProportionalShare(t)
           /\ clawTodo' = clawTodo \ {t}
           /\ UNCHANGED <<clawPass, fraction>>
    BY <1>3 DEF Proportional
  <2>2. PICK n \in Int : n = ProportionalShare(t) /\ n <= deficit /\ n <= winning[t]
    BY <1>0, ProportionalShareOK
  <2>3. t \in Winners /\ winning[t] \in Nat /\ winning[t] > 0
    BY <1>0 DEF ClawInv, ClawProgress
  <2>4. n > 0 \/ winning[t] - n > 0
    BY <2>2, <2>3
  <2>5. /\ clawbackMap' = clawbackMap \cup {t}
        /\ clawbackSize' = [clawbackSize EXCEPT ![t] = n]
        /\ remaining' = [remaining EXCEPT ![t] = winning[t] - n]
        /\ deficit' = deficit - n /\ clawTodo' = clawTodo \ {t} /\ UNCHANGED <<clawPass, fraction>>
    BY <2>1, <2>2, <2>4 DEF Kept
  <2>6. winning[t] - n \in Nat
    BY <2>2, <2>3
  <2>7. ClawTypes'
    BY <1>0, <2>2, <2>3, <2>5, <2>6 DEF ClawTypes
  <2>8. ClawBooks'
    BY <1>0, <2>2, <2>3, <2>5, <2>6 DEF ClawInv, ClawBooks
  <2>9. ClawProgress'
    BY <1>0, <2>2, <2>3, <2>5 DEF ClawInv, ClawProgress
  <2>10. ClawCovers'
    BY <1>0, <2>5 DEF ClawCovers
  <2> QED
    BY <2>7, <2>8, <2>9, <2>10 DEF ClawInv
<1> QED
  BY <1>2, <1>3

(* The later loops take from a trader of the map no more than it has left. *)
LEMMA TakeKeeps ==
    ASSUME ClawInv, clawPass \in {"leftover", "extra"}, NEW t \in clawTodo, NEW n \in Int, n <= remaining[t],
           Take(t, n), clawTodo' = clawTodo \ {t}, UNCHANGED <<insurancePos, winning, clawbackMap, fraction, clawPass>>
    PROVE  /\ ClawTypes' /\ ClawBooks'
           /\ remaining'[t] = remaining[t] - n /\ deficit' = deficit - n /\ remaining[t] - n \in Nat
           /\ \A u \in Winners : u # t => remaining'[u] = remaining[u]
<1>0. t \in Winners /\ t \in clawbackMap /\ remaining[t] \in Nat /\ clawbackSize[t] \in Int
  BY DEF ClawInv, ClawTypes, ClawProgress
<1>1. remaining[t] - n \in Nat /\ clawbackSize[t] + n \in Int
  BY <1>0
<1>2. ClawTypes'
  BY <1>0, <1>1 DEF ClawInv, ClawTypes, Take
<1>3. /\ remaining'[t] = remaining[t] - n /\ clawbackSize'[t] = clawbackSize[t] + n /\ deficit' = deficit - n
      /\ \A u \in Winners : u # t => remaining'[u] = remaining[u] /\ clawbackSize'[u] = clawbackSize[u]
  BY <1>0 DEF ClawInv, ClawTypes, Take
<1>4. clawbackSize[t] + remaining[t] = winning[t]
  BY <1>0 DEF ClawInv, ClawBooks
<1>5. clawbackSize'[t] + remaining'[t] = winning[t] /\ clawbackSize'[t] <= winning[t]
  <2>1. winning[t] \in Nat
    BY <1>0 DEF ClawInv, ClawTypes
  <2> QED
    BY <1>0, <1>1, <1>3, <1>4, <2>1
<1>6. ClawBooks'
  <2>1. clawbackMap \subseteq Winners
    BY DEF ClawInv, ClawTypes
  <2> QED
    BY <1>3, <1>5, <2>1 DEF ClawInv, ClawBooks
<1> QED
  BY <1>1, <1>2, <1>3, <1>6

LEMMA LeftoverKeeps ==
    ASSUME ClawInv, Leftover
    PROVE  ClawInv'
<1>0. /\ clawPass = "leftover" /\ UNCHANGED <<insurancePos, winning, clawbackMap, fraction>>
      /\ clawTodo \subseteq clawbackMap /\ clawbackMap \subseteq Winners
  BY DEF ClawInv, ClawTypes, ClawProgress, Leftover
<1>1. MinOrder \in Nat /\ MinOrder > 0
  BY ClawbackAssumption
<1>2. CASE clawTodo = {} \/ deficit < MinOrder
  <2>1. clawPass' = "extra" /\ clawTodo' = clawbackMap /\ UNCHANGED <<clawbackSize, remaining, deficit>>
    BY <1>2 DEF Leftover
  <2>2. ClawTypes'
    BY <1>0, <2>1 DEF ClawInv, ClawTypes
  <2>3. ClawBooks'
    BY <1>0, <2>1 DEF ClawInv, ClawBooks
  <2>4. ClawProgress'
    BY <1>0, <1>1, <2>1 DEF ClawInv, ClawProgress
  <2>5. ClawCovers'
    BY <2>1 DEF ClawCovers
  <2> QED
    BY <2>2, <2>3, <2>4, <2>5 DEF ClawInv
<1>3. CASE ~(clawTodo = {} \/ deficit < MinOrder)
  <2>1. PICK t \in clawTodo : Take(t, LeftoverShare(t)) /\ clawTodo' = clawTodo \ {t} /\ UNCHANGED clawPass
    BY <1>3 DEF Leftover
  <2>2. LeftoverShare(t) \in Int /\ LeftoverShare(t) <= remaining[t]
    BY <1>0, LeftoverShareOK
  <2>3. /\ ClawTypes' /\ ClawBooks'
        /\ \A u \in Winners : u # t => remaining'[u] = remaining[u]
    BY <1>0, <2>1, <2>2, TakeKeeps
  <2>4. ClawProgress'
    BY <1>0, <2>1, <2>3 DEF ClawInv, ClawProgress
  <2>5. ClawCovers'
    BY <1>0, <2>1 DEF ClawCovers
  <2> QED
    BY <2>3, <2>4, <2>5 DEF ClawInv
<1> QED
  BY <1>2, <1>3

LEMMA ExtraKeeps ==
    ASSUME ClawInv, Extra
    PROVE  ClawInv'
<1>0. /\ clawPass = "extra" /\ UNCHANGED <<insurancePos, winning, clawbackMap, fraction>>
      /\ clawTodo \subseteq clawbackMap /\ clawbackMap \subseteq Winners
      /\ deficit < MinOrder \/ \A u \in Winners : u \in clawTodo \/ remaining[u] < MinOrder
  BY DEF ClawInv, ClawTypes, ClawProgress, Extra
<1>1. CASE clawTodo = {}
  <2>1. clawPass' = "done" /\ UNCHANGED <<clawbackSize, remaining, deficit, clawTodo>>
    BY <1>1 DEF Extra
  <2>2. ClawTypes'
    BY <1>0, <2>1 DEF ClawInv, ClawTypes
  <2>3. ClawBooks'
    BY <1>0, <2>1 DEF ClawInv, ClawBooks
  <2>4. ClawProgress'
    BY <2>1 DEF ClawProgress
  <2>5. ClawCovers'
    BY <1>0, <1>1, <2>1 DEF ClawCovers
  <2> QED
    BY <2>2, <2>3, <2>4, <2>5 DEF ClawInv
<1>2. CASE clawTodo # {}
  <2>1. PICK t \in clawTodo : Take(t, ExtraShare(t)) /\ clawTodo' = clawTodo \ {t} /\ UNCHANGED clawPass
    BY <1>2 DEF Extra
  <2>2. PICK n \in Int : n = ExtraShare(t) /\ n <= remaining[t] /\ n >= 0
                         /\ (deficit - n < MinOrder \/ remaining[t] - n < MinOrder)
    BY <1>0, ExtraShareOK
  <2>3. /\ ClawTypes' /\ ClawBooks'
        /\ remaining'[t] = remaining[t] - n /\ deficit' = deficit - n
        /\ \A u \in Winners : u # t => remaining'[u] = remaining[u]
    BY <1>0, <2>1, <2>2, TakeKeeps
  <2>4. deficit \in Int /\ MinOrder \in Nat
    BY ClawbackAssumption DEF ClawInv, ClawTypes
  <2>5. deficit' < MinOrder \/ \A u \in Winners : u \in clawTodo' \/ remaining'[u] < MinOrder
    <3>1. CASE deficit < MinOrder
      BY <2>2, <2>3, <2>4, <3>1
    <3>2. CASE \A u \in Winners : u \in clawTodo \/ remaining[u] < MinOrder
      BY <2>1, <2>2, <2>3, <3>2
    <3> QED
      BY <1>0, <3>1, <3>2
  <2>6. ClawProgress'
    BY <1>0, <2>1, <2>5 DEF ClawProgress
  <2>7. ClawCovers'
    BY <1>0, <2>1 DEF ClawCovers
  <2> QED
    BY <2>3, <2>6, <2>7 DEF ClawInv
<1> QED
  BY <1>1, <1>2

(* However the loops walk their maps, and however shares are rounded, no   *)
(* trader is asked for more than its position, and the insurance keeps a   *)
(* min order only when no winner has one left (clawbackActions).           *)
THEOREM ClawBackIsFair == ClawSpec => []ClawFair
<1>1. ClawInit => ClawInv
  BY ClawInitHolds
<1>2. ClawInv /\ [ClawNext]_clawVars => ClawInv'
  <2> SUFFICES ASSUME ClawInv, [ClawNext]_clawVars PROVE ClawInv'
    OBVIOUS
  <2>1. CASE UNCHANGED clawVars
    BY <2>1 DEF clawVars, ClawInv, ClawTypes, ClawBooks, ClawProgress, ClawCovers
  <2> QED
    BY <2>1, ReadPositionsKeeps, ProportionalKeeps, LeftoverKeeps, ExtraKeeps DEF ClawNext
<1>3. ClawInv => ClawFair
  BY DEF ClawInv, ClawFair, ClawBooks, ClawWithinWinners
<1> QED
  BY <1>1, <1>2, <1>3, PTL DEF ClawSpec
-------------------------------------------------------------------------------
(* The yield.                                                              *)

SplitT == [claim : Claims, rest : Nat, total : Nat \ {0}, todo : SUBSET Holders,
           share : [Holders -> CachedBalances]]

YieldTypes ==
    /\ cached \in [Holders -> CachedBalances]
    /\ yieldPayout \in [Claims -> [Holders -> Nat]]
    /\ claimed \subseteq Claims
    /\ splitting = NoSplit \/ splitting \in SplitT

(* What each holder gets from a split.                                     *)
CutOf(q) == [h \in Holders |-> Part(q.share[h], q.rest, q.total)]

(* The holders of the split under way have got nothing, and what they are  *)
(* still to get is left of the amount.                                     *)
RestSuffices ==
    splitting # NoSplit =>
        /\ \A h \in splitting.todo : yieldPayout[splitting.claim][h] = 0
        /\ PaidOut(splitting.claim) + SumFunctionOnSet(CutOf(splitting), splitting.todo)
              <= YieldAmount[splitting.claim]

NotOverpaid == \A y \in Claims : YieldNotOverpaid(y)

YieldInv == YieldTypes /\ NotOverpaid /\ RestSuffices

(* A step gives only to who got nothing of a claim.                        *)
PayoutsKept ==
    \A y \in Claims, h \in Holders :
        yieldPayout[y][h] > 0 => yieldPayout'[y][h] = yieldPayout[y][h]

LEMMA YieldInitHolds == YieldInit => YieldInv
<1> SUFFICES ASSUME YieldInit PROVE YieldInv
  OBVIOUS
<1> USE YieldsAssumption
<1>1. Max(CachedBalances) \in CachedBalances
  <2>1. \A b \in CachedBalances : b \in Int
    OBVIOUS
  <2>2. PICK b \in CachedBalances : \A c \in CachedBalances : c <= b
    BY <2>1, GreatestNumber
  <2> QED
    BY <2>2 DEF Max
<1>2. YieldTypes
  BY <1>1 DEF YieldInit, YieldTypes
<1>3. NotOverpaid
  <2> SUFFICES ASSUME NEW y \in Claims PROVE PaidOut(y) <= YieldAmount[y]
    BY DEF NotOverpaid, YieldNotOverpaid
  <2>1. \A h \in Holders : yieldPayout[y][h] = 0
    BY DEF YieldInit
  <2>2. PaidOut(y) = 0
    BY <2>1, SumZero DEF PaidOut
  <2> QED
    BY <2>2
<1> QED
  BY <1>2, <1>3 DEF YieldInv, RestSuffices, YieldInit

LEMMA PaidOutType ==
    ASSUME YieldTypes, NEW y \in Claims
    PROVE  PaidOut(y) \in Nat
<1>1. \A h \in Holders : yieldPayout[y][h] \in Nat
  BY DEF YieldTypes
<1> QED
  BY <1>1, SumNat, YieldsAssumption DEF PaidOut

LEMMA CutsNat ==
    ASSUME NEW q \in SplitT
    PROVE  \A h \in Holders : CutOf(q)[h] \in Nat
<1> SUFFICES ASSUME NEW h \in Holders PROVE CutOf(q)[h] \in Nat
  OBVIOUS
<1>1. q.share[h] \in Nat /\ q.rest \in Nat /\ q.total \in Nat \ {0}
  BY YieldsAssumption DEF SplitT
<1>2. q.share[h] * q.rest \in Nat
  BY <1>1
<1> QED
  BY <1>1, <1>2, Quotient DEF CutOf, Part

(* The cuts of a split together are no more than what remains.             *)
LEMMA SplitStarts ==
    ASSUME YieldInv, NEW y \in Claims, StartSplit(y),
           UNCHANGED <<cached, yieldPayout, yieldRow, claimed, gas, yieldFaults>>
    PROVE  YieldInv' /\ PayoutsKept
<1> USE YieldsAssumption
<1>1. PayoutsKept
  BY DEF PayoutsKept
<1>2. NotOverpaid'
  BY DEF YieldInv, NotOverpaid, YieldNotOverpaid, PaidOut
<1>3. CASE splitting' = NoSplit
  <2>1. YieldTypes'
    BY <1>3 DEF YieldInv, YieldTypes
  <2>2. RestSuffices'
    BY <1>3 DEF RestSuffices
  <2> QED
    BY <1>1, <1>2, <2>1, <2>2 DEF YieldInv
<1>4. CASE splitting' # NoSplit
  <2> DEFINE rich == {h \in Holders : cached[h] > 0}
             todo == rich \ PaidTo(y)
             total == SumFunctionOnSet(cached, todo)
             q == [claim |-> y, rest |-> Remains(y), total |-> total,
                   todo |-> todo, share |-> cached]
  <2>1. todo # {} /\ Remains(y) > 0 /\ splitting' = q
    BY <1>4 DEF StartSplit
  <2>2. /\ PaidOut(y) \in Nat /\ YieldAmount[y] \in Nat
        /\ Remains(y) \in Nat /\ Remains(y) = YieldAmount[y] - PaidOut(y)
    <3>1. PaidOut(y) \in Nat /\ YieldAmount[y] \in Nat
      BY PaidOutType DEF YieldInv
    <3> QED
      BY <2>1, <3>1 DEF Remains
  <2>3. todo \in SUBSET Holders /\ IsFiniteSet(todo) /\ \A h \in todo : cached[h] \in Nat /\ cached[h] > 0
    <3>1. todo \in SUBSET Holders
      OBVIOUS
    <3>2. IsFiniteSet(todo)
      BY <3>1, FS_Subset
    <3> QED
      BY <3>1, <3>2 DEF YieldInv, YieldTypes
  <2>4. total \in Nat \ {0}
    <3>1. total \in Nat
      BY <2>3, SumNat
    <3>2. PICK h \in todo : TRUE
      BY <2>1
    <3>3. cached[h] <= total /\ cached[h] \in Nat /\ cached[h] > 0
      BY <2>3, SumAtLeast
    <3> HIDE DEF total
    <3> QED
      BY <3>1, <3>3
  <2>5. q \in SplitT
    BY <2>2, <2>3, <2>4 DEF SplitT, YieldInv, YieldTypes
  <2>6. SumFunctionOnSet(CutOf(q), todo) \in Nat /\ SumFunctionOnSet(CutOf(q), todo) <= Remains(y)
    <3>1. \A h \in todo : CutOf(q)[h] = Part(cached[h], Remains(y), SumFunctionOnSet(cached, todo))
      BY <2>3 DEF CutOf
    <3>2. SumFunctionOnSet(cached, todo) # 0
      BY <2>4
    <3> HIDE DEF q, todo
    <3> QED
      BY <2>2, <2>3, <3>1, <3>2, PartsWithin
  <2>7. \A h \in todo : yieldPayout[y][h] = 0
    <3> SUFFICES ASSUME NEW h \in todo PROVE yieldPayout[y][h] = 0
      OBVIOUS
    <3>1. h \in Holders /\ h \notin PaidTo(y)
      OBVIOUS
    <3>2. yieldPayout[y][h] \in Nat
      BY DEF YieldInv, YieldTypes
    <3> QED
      BY <3>1, <3>2 DEF PaidTo
  <2>8. YieldTypes'
    BY <2>1, <2>5 DEF YieldInv, YieldTypes
  <2>9. RestSuffices'
    <3>1. q.claim = y /\ q.todo = todo
      OBVIOUS
    <3>2. SumFunctionOnSet(yieldPayout'[y], Holders) = PaidOut(y)
      BY DEF PaidOut
    <3>3. PaidOut(y) + SumFunctionOnSet(CutOf(q), todo) <= YieldAmount[y]
      <4> HIDE DEF q, todo
      <4> QED
        BY <2>2, <2>6
    <3> HIDE DEF q, todo
    <3>4. /\ \A h \in q.todo : yieldPayout'[q.claim][h] = 0
          /\ SumFunctionOnSet(yieldPayout'[q.claim], Holders)
                + SumFunctionOnSet(CutOf(q), q.todo) <= YieldAmount[q.claim]
      BY <2>7, <3>1, <3>2, <3>3
    <3> QED
      BY <2>1, <3>4 DEF RestSuffices, PaidOut, CutOf
  <2> QED
    BY <1>1, <1>2, <2>8, <2>9 DEF YieldInv
<1> QED
  BY <1>3, <1>4

(* A chunk takes its cuts out of what was set aside for them.              *)
LEMMA ChunkPaid ==
    ASSUME YieldInv, process_yield_and_invalidate
    PROVE  YieldInv' /\ PayoutsKept
<1> USE YieldsAssumption
<1>1. PICK q \in SplitT : q = splitting /\ q # NoSplit
  BY DEF process_yield_and_invalidate, YieldInv, YieldTypes
<1> DEFINE c == q.claim
           cuts == CutOf(q)
           PaidNow == SumFunctionOnSet(yieldPayout'[c], Holders)
<1>2. PICK now \in SUBSET q.todo :
         /\ yieldPayout' = [yieldPayout EXCEPT ![c] = [h \in Holders |->
                IF h \in now THEN cuts[h] ELSE @[h]]]
         /\ IF now = q.todo
            THEN splitting' = NoSplit
            ELSE splitting' = [q EXCEPT !.todo = @ \ now]
  <2> DEFINE size == Min({Chunk, Cardinality(q.todo)})
  <2>1. PICK now \in kSubset(size, q.todo) :
           /\ yieldPayout' = [yieldPayout EXCEPT ![q.claim] = [h \in Holders |->
                  IF h \in now THEN (q.share[h] * q.rest) \div q.total ELSE @[h]]]
           /\ IF now = q.todo
              THEN yieldRow' = yieldRow \cup {q.claim} /\ splitting' = NoSplit
              ELSE splitting' = [q EXCEPT !.todo = @ \ now] /\ UNCHANGED yieldRow
    BY <1>1 DEF process_yield_and_invalidate
  <2>2. now \in SUBSET q.todo
    BY <2>1 DEF kSubset
  <2>3. \A h \in Holders : cuts[h] = (q.share[h] * q.rest) \div q.total
    BY DEF CutOf, Part
  <2>4. [h \in Holders |-> IF h \in now THEN (q.share[h] * q.rest) \div q.total
                                       ELSE yieldPayout[c][h]]
           = [h \in Holders |-> IF h \in now THEN cuts[h] ELSE yieldPayout[c][h]]
    <3> HIDE DEF cuts
    <3> QED
      BY <2>3
  <2> HIDE DEF cuts
  <2> QED
    BY <2>1, <2>2, <2>4
<1>3. cached' = cached /\ claimed' = claimed
  BY DEF process_yield_and_invalidate
<1>4. /\ c \in Claims /\ q.todo \in SUBSET Holders /\ now \in SUBSET Holders
      /\ IsFiniteSet(q.todo) /\ IsFiniteSet(now) /\ IsFiniteSet(q.todo \ now)
  <2>1. c \in Claims /\ q.todo \in SUBSET Holders
    BY <1>1 DEF SplitT
  <2> QED
    BY <1>2, <2>1, FS_Subset
<1>5. \A h \in Holders : cuts[h] \in Nat
  BY <1>1, CutsNat
<1>6. /\ \A h \in q.todo : yieldPayout[c][h] = 0
      /\ PaidOut(c) + SumFunctionOnSet(cuts, q.todo) <= YieldAmount[c]
  BY <1>1 DEF YieldInv, RestSuffices
<1> HIDE DEF cuts
<1>7. /\ yieldPayout \in [Claims -> [Holders -> Nat]]
      /\ \A h \in Holders : yieldPayout'[c][h] = IF h \in now THEN cuts[h] ELSE yieldPayout[c][h]
      /\ \A y \in Claims : y # c => yieldPayout'[y] = yieldPayout[y]
  BY <1>2, <1>4 DEF YieldInv, YieldTypes
<1>8. yieldPayout' \in [Claims -> [Holders -> Nat]]
  BY <1>2, <1>4, <1>5, <1>7
<1>9. PayoutsKept
  <2> SUFFICES ASSUME NEW y \in Claims, NEW h \in Holders, yieldPayout[y][h] > 0
               PROVE  yieldPayout'[y][h] = yieldPayout[y][h]
    BY DEF PayoutsKept
  <2>1. CASE y # c
    BY <1>7, <2>1
  <2>2. CASE y = c
    <3>1. h \notin now
      BY <1>2, <1>6, <2>2
    <3> QED
      BY <1>7, <2>2, <3>1
  <2> QED
    BY <2>1, <2>2
<1>10. PaidNow = PaidOut(c) + SumFunctionOnSet(cuts, now)
  <2> DEFINE f == yieldPayout[c]
             g == yieldPayout'[c]
  <2>1. \A h \in Holders : f[h] \in Int /\ g[h] \in Int
    <3>1. f \in [Holders -> Nat] /\ g \in [Holders -> Nat]
      <4>1. c \in Claims /\ yieldPayout \in [Claims -> [Holders -> Nat]]
        BY <1>4, <1>7
      <4> QED
        BY <1>8, <4>1
    <3> HIDE DEF f, g
    <3> QED
      BY <3>1
  <2>2. (\A h \in now : f[h] = 0) /\ (\A h \in Holders \ now : f[h] = g[h])
    BY <1>2, <1>6, <1>7
  <2>3. \A h \in now : g[h] = cuts[h]
    BY <1>4, <1>7
  <2> HIDE DEF f, g
  <2>4. SumFunctionOnSet(g, Holders) = SumFunctionOnSet(f, Holders) + SumFunctionOnSet(g, now)
    BY <1>4, <2>1, <2>2, SumFilled
  <2>5. SumFunctionOnSet(g, now) = SumFunctionOnSet(cuts, now)
    BY <1>4, <2>3, SumSame
  <2>6. PaidOut(c) = SumFunctionOnSet(f, Holders) /\ PaidNow = SumFunctionOnSet(g, Holders)
    BY DEF PaidOut, f, g
  <2> QED
    BY <2>4, <2>5, <2>6
<1>11. SumFunctionOnSet(cuts, q.todo)
          = SumFunctionOnSet(cuts, now) + SumFunctionOnSet(cuts, q.todo \ now)
  <2>1. \A h \in q.todo : cuts[h] \in Int
    BY <1>4, <1>5
  <2> QED
    BY <1>2, <1>4, <2>1, SumParts
<1>12. /\ SumFunctionOnSet(cuts, now) \in Nat /\ SumFunctionOnSet(cuts, q.todo \ now) \in Nat
       /\ PaidOut(c) \in Nat /\ YieldAmount[c] \in Nat
  <2>1. (\A h \in now : cuts[h] \in Nat) /\ (\A h \in q.todo \ now : cuts[h] \in Nat)
    BY <1>2, <1>4, <1>5
  <2> QED
    BY <1>4, <2>1, SumNat, PaidOutType DEF YieldInv
<1>13. PaidNow + SumFunctionOnSet(cuts, q.todo \ now) <= YieldAmount[c] /\ PaidNow <= YieldAmount[c]
  <2> HIDE DEF PaidNow, c
  <2> QED
    BY <1>6, <1>10, <1>11, <1>12
<1>14. NotOverpaid'
  <2> SUFFICES ASSUME NEW y \in Claims
               PROVE  SumFunctionOnSet(yieldPayout'[y], Holders) <= YieldAmount[y]
    BY DEF NotOverpaid, YieldNotOverpaid, PaidOut
  <2>1. CASE y = c
    BY <1>13, <2>1
  <2>2. CASE y # c
    <3>1. SumFunctionOnSet(yieldPayout'[y], Holders) = PaidOut(y)
      BY <1>7, <2>2 DEF PaidOut
    <3> QED
      BY <3>1 DEF YieldInv, NotOverpaid, YieldNotOverpaid
  <2> QED
    BY <2>1, <2>2
<1>15. CASE now = q.todo
  <2>1. splitting' = NoSplit
    BY <1>2, <1>15
  <2>2. YieldTypes' /\ RestSuffices'
    BY <1>3, <1>8, <2>1 DEF YieldInv, YieldTypes, RestSuffices
  <2> QED
    BY <1>9, <1>14, <2>2 DEF YieldInv
<1>16. CASE now # q.todo
  <2> DEFINE r == [q EXCEPT !.todo = @ \ now]
  <2>1. /\ splitting' = r /\ r \in SplitT /\ r.claim = c /\ r.todo = q.todo \ now
        /\ r.share = q.share /\ r.rest = q.rest /\ r.total = q.total
    BY <1>1, <1>2, <1>16 DEF SplitT
  <2> HIDE DEF r
  <2>2. CutOf(r) = cuts
    BY <2>1 DEF CutOf, cuts
  <2>3. \A h \in r.todo : yieldPayout'[c][h] = 0
    BY <1>4, <1>6, <1>7, <2>1
  <2>4. PaidNow + SumFunctionOnSet(CutOf(r), r.todo) <= YieldAmount[c]
    BY <1>13, <2>1, <2>2
  <2>5. YieldTypes'
    BY <1>3, <1>8, <2>1 DEF YieldInv, YieldTypes
  <2>6. RestSuffices'
    BY <2>1, <2>3, <2>4 DEF RestSuffices, PaidOut, CutOf
  <2> QED
    BY <1>9, <1>14, <2>5, <2>6 DEF YieldInv
<1> QED
  BY <1>15, <1>16

(* The other steps leave the payouts and the split, or end the split.      *)
LEMMA OtherYieldSteps ==
    ASSUME YieldInv,
           \/ ClaimYield \/ YieldCrash \/ YieldRescan \/ CachedBalanceMoves \/ UNCHANGED yieldVars
    PROVE  YieldInv' /\ PayoutsKept
<1> USE YieldsAssumption
<1>1. yieldPayout' = yieldPayout
  BY DEF ClaimYield, YieldCrash, YieldRescan, CachedBalanceMoves, yieldVars
<1>2. PayoutsKept
  BY <1>1 DEF PayoutsKept
<1>3. NotOverpaid'
  BY <1>1 DEF YieldInv, NotOverpaid, YieldNotOverpaid, PaidOut
<1>4. splitting' = splitting \/ splitting' = NoSplit
  BY DEF ClaimYield, YieldCrash, YieldRescan, CachedBalanceMoves, yieldVars
<1>5. RestSuffices'
  <2>1. CASE splitting' = NoSplit
    BY <2>1 DEF RestSuffices
  <2>2. CASE splitting' = splitting
    BY <1>1, <2>2 DEF YieldInv, RestSuffices, PaidOut, CutOf
  <2> QED
    BY <1>4, <2>1, <2>2
<1>6. claimed' \subseteq Claims
  <2>1. CASE claimed # Claims /\ claimed' = claimed \cup {Min(Claims \ claimed)}
    <3>1. Claims \ claimed \in SUBSET Nat /\ Claims \ claimed # {}
      BY <2>1 DEF YieldInv, YieldTypes
    <3>2. Min(Claims \ claimed) \in Claims \ claimed
      BY <3>1, LeastNumber
    <3> QED
      BY <2>1, <3>2 DEF YieldInv, YieldTypes
  <2>2. CASE claimed' = claimed
    BY <2>2 DEF YieldInv, YieldTypes
  <2> QED
    BY <2>1, <2>2 DEF ClaimYield, YieldCrash, YieldRescan, CachedBalanceMoves, yieldVars
<1>7. cached' \in [Holders -> CachedBalances]
  <2>1. cached \in [Holders -> CachedBalances]
    BY DEF YieldInv, YieldTypes
  <2>2. CASE CachedBalanceMoves
    BY <2>1, <2>2 DEF CachedBalanceMoves
  <2>3. CASE cached' = cached
    BY <2>1, <2>3
  <2> QED
    BY <2>2, <2>3 DEF ClaimYield, YieldCrash, YieldRescan, yieldVars
<1>8. YieldTypes'
  BY <1>1, <1>4, <1>6, <1>7 DEF YieldInv, YieldTypes
<1> QED
  BY <1>2, <1>3, <1>5, <1>8 DEF YieldInv

LEMMA YieldStep ==
    ASSUME YieldInv, [YieldNext]_yieldVars
    PROVE  YieldInv' /\ PayoutsKept
<1>1. CASE ProcessYieldEvents
  <2> DEFINE next == {y \in claimed : y > yieldCursor}
  <2>1. next # {} /\ next \in SUBSET Nat
    BY <1>1, YieldsAssumption DEF ProcessYieldEvents, YieldInv, YieldTypes
  <2>2. Min(next) \in next
    <3> HIDE DEF next
    <3> QED
      BY <2>1, LeastNumber
  <2>3. Min(next) \in Claims
    BY <2>2 DEF YieldInv, YieldTypes
  <2>4. yieldHandler(Min(next))
    BY <1>1 DEF ProcessYieldEvents
  <2> HIDE DEF next
  <2> QED
    BY <2>3, <2>4, SplitStarts DEF yieldHandler
<1>2. CASE process_yield_and_invalidate
  BY <1>2, ChunkPaid
<1>3. CASE \/ ClaimYield \/ YieldCrash \/ YieldRescan \/ CachedBalanceMoves
           \/ UNCHANGED yieldVars
  BY <1>3, OtherYieldSteps
<1> QED
  BY <1>1, <1>2, <1>3 DEF YieldNext, DistributeYield

(* A claim is never split into more than it is, and nobody is paid twice   *)
(* for it, however often the split is interrupted and taken up again while *)
(* the balances move (process_yield_and_invalidate).                       *)
THEOREM YieldStaysSplitOnce == YieldSpec => YieldPaid
<1>1. YieldInit => YieldInv
  BY YieldInitHolds
<1>2. YieldInv /\ [YieldNext]_yieldVars => YieldInv'
  BY YieldStep
<1>3. YieldInv => \A y \in Claims : YieldNotOverpaid(y)
  BY DEF YieldInv, NotOverpaid
<1>4. YieldInv /\ [YieldNext]_yieldVars => PayoutsKept
  BY YieldStep
<1>5. PayoutsKept =>
        \A y \in Claims, h \in Holders :
            yieldPayout[y][h] > 0 => yieldPayout'[y][h] = yieldPayout[y][h]
  BY DEF PayoutsKept
<1> QED
  BY <1>1, <1>2, <1>3, <1>4, <1>5, PTL DEF YieldSpec, YieldPaid, YieldPaidOnce

-------------------------------------------------------------------------------
(* Vaults.                                                                 *)

RowTypes ==
    /\ vault \in [status : {"active", "suspended"}, shares : Nat]
    /\ holding \in [Stakers -> Int] /\ sharesIssued \in [Stakers -> Int]
    /\ unstake \in [Unstakes -> UnstakeRows \cup {NoRow}]
    /\ money \in [VaultProfiles -> Int]
    /\ stakeRow \in [StakeTxs -> {"none", "pending", "canceled", "success"}]
    /\ credited \in SUBSET StakeTxs

(* A staker has one request at a time, so that no two requests that are    *)
(* paid together count on the same holding.                                *)
OneOpen ==
    \A m, n \in Unstakes :
        Requested(m) /\ Requested(n) /\ unstake[m].staker = unstake[n].staker => m = n

RowsInv == RowTypes /\ OneOpen /\ StakedMoneyConserved /\ HoldingsAgree /\ VaultSolvent

SettledKept ==
    \A n \in Unstakes : (unstake[n] # NoRow /\ ~ Requested(n)) => unstake'[n] = unstake[n]

(* Requests, the event under way and the bounds.                           *)
RequestT ==
    [op : {"none", "stake", "balance", "unstake", "cancel", "process"},
     pc : {"idle", "call", "process", "cache", "pay", "release"},
     lock : {NoRow} \cup ({"stake", "withdraw", "unstake"} \X (Stakers \cup {TheVault})),
     arg : {NoRow} \cup StakeTxs \cup StakeAmounts \cup ShareAmounts \cup Unstakes \cup SUBSET Unstakes,
     nav : Int, withdrawable : Int, shares : Nat]

ArgFits(q) ==
    /\ q.op = "stake" => q.arg \in StakeTxs
    /\ q.op = "balance" => q.lock[2] \in Stakers /\ q.arg \in StakeAmounts
    /\ q.op = "unstake" => q.lock[2] \in Stakers /\ q.arg \in ShareAmounts
    /\ q.op = "cancel" => q.arg \in Unstakes
    /\ q.op = "process" => q.arg \in SUBSET Unstakes

RequestsFit ==
    vaultRequest \in [VaultRequests -> RequestT] /\ \A r \in VaultRequests : ArgFits(vaultRequest[r])

ChainRead ==
    /\ mined \in SUBSET StakeTxs /\ credited \subseteq mined
    /\ staking.tx \in mined \cup {NoRow} /\ staking.nav \in Int
    /\ profit \in Profits /\ wiping \in SUBSET Stakers
    /\ wiping # {} => liquidated
    /\ vaultCalls \in 0 .. MaxVaultCalls

VaultInv == RowsInv /\ RequestsFit /\ ChainRead

LEMMA ProfilesFinite == IsFiniteSet(VaultProfiles)
<1>1. IsFiniteSet(Stakers \cup {TheVault})
  BY VaultsAssumption, FS_AddElement
<1>2. IsFiniteSet((Stakers \cup {TheVault}) \cup {Treasurer})
  BY <1>1, FS_AddElement
<1>3. VaultProfiles = (Stakers \cup {TheVault}) \cup {Treasurer}
  BY DEF VaultProfiles
<1> QED
  BY <1>2, <1>3

LEMMA VaultInitHolds == VaultInit => VaultInv
<1> SUFFICES ASSUME VaultInit PROVE VaultInv
  OBVIOUS
<1> USE VaultsAssumption
<1>1. RowTypes
  BY DEF VaultInit, RowTypes
<1>2. OneOpen
  BY DEF VaultInit, OneOpen, Requested
<1>3. StakedMoneyConserved
  <2>1. /\ SumFunctionOnSet([t \in StakeTxs |-> StakeTx[t].amount], {}) = 0
        /\ money = StakeFunds /\ credited = {}
    BY SumEmpty DEF VaultInit
  <2>2. SumFunctionOnSet(StakeFunds, VaultProfiles) \in Int
    <3>1. \A x \in VaultProfiles : StakeFunds[x] \in Int
      OBVIOUS
    <3> QED
      BY <3>1, ProfilesFinite, SumType
  <2> QED
    BY <2>1, <2>2 DEF StakedMoneyConserved
<1>4. HoldingsAgree
  <2> SUFFICES ASSUME NEW s \in Stakers
               PROVE  holding[s] = sharesIssued[s] - SumFunctionOnSet(PaidShares(s), Unstakes)
    BY DEF HoldingsAgree
  <2>1. \A n \in Unstakes : PaidShares(s)[n] = 0
    BY DEF PaidShares, VaultInit
  <2>2. SumFunctionOnSet(PaidShares(s), Unstakes) = 0
    BY <2>1, SumZero
  <2> QED
    BY <2>2 DEF VaultInit
<1>5. VaultSolvent
  BY DEF VaultInit, VaultSolvent, VaultProfiles
<1>6. RequestsFit
  BY DEF VaultInit, RequestsFit, RequestT, ArgFits, NoRequest
<1>7. ChainRead
  BY DEF VaultInit, ChainRead
<1> QED
  BY <1>1, <1>2, <1>3, <1>4, <1>5, <1>6, <1>7 DEF VaultInv, RowsInv

LEMMA PaidSharesNat ==
    ASSUME RowTypes, NEW s
    PROVE  \A n \in Unstakes : PaidShares(s)[n] \in Nat
  BY VaultsAssumption DEF RowTypes, PaidShares, UnstakeRows

(* Rows that stay.                                                         *)
LEMMA MoneySame ==
    ASSUME StakedMoneyConserved, UNCHANGED <<money, credited>>
    PROVE  StakedMoneyConserved'
  BY DEF StakedMoneyConserved

LEMMA HoldingsSame ==
    ASSUME HoldingsAgree, UNCHANGED <<holding, sharesIssued, unstake, liquidated>>
    PROVE  HoldingsAgree'
  BY DEF HoldingsAgree, PaidShares

LEMMA RequestsSame ==
    ASSUME UNCHANGED unstake
    PROVE  SettledKept /\ (OneOpen => OneOpen')
  BY DEF SettledKept, OneOpen, Requested

LEMMA RowsStay ==
    ASSUME RowsInv, UNCHANGED <<vaultRows, liquidated>>
    PROVE  RowsInv' /\ SettledKept
<1>1. /\ vault' = vault /\ holding' = holding /\ sharesIssued' = sharesIssued /\ unstake' = unstake
      /\ money' = money /\ stakeRow' = stakeRow /\ credited' = credited /\ liquidated' = liquidated
  BY DEF vaultRows
<1>2. RowTypes' /\ VaultSolvent'
  BY <1>1 DEF RowsInv, RowTypes, VaultSolvent
<1> QED
  BY <1>1, <1>2, MoneySame, HoldingsSame, RequestsSame DEF RowsInv

(* Shares are issued to a staker.                                          *)
LEMMA SharesIssued ==
    ASSUME RowsInv, NEW s \in Stakers, NEW n \in Nat, IssueShares(s, n),
           UNCHANGED <<unstake, liquidated>>
    PROVE  /\ vault' \in [status : {"active", "suspended"}, shares : Nat]
           /\ holding' \in [Stakers -> Int] /\ sharesIssued' \in [Stakers -> Int]
           /\ HoldingsAgree' /\ \A x \in Stakers : holding'[x] >= 0
<1>1. /\ vault' \in [status : {"active", "suspended"}, shares : Nat]
      /\ holding' \in [Stakers -> Int] /\ sharesIssued' \in [Stakers -> Int]
  BY DEF RowsInv, RowTypes, IssueShares
<1>2. /\ \A x \in Stakers : holding[x] \in Int /\ sharesIssued[x] \in Int /\ holding[x] >= 0
      /\ \A x \in Stakers : holding'[x] = IF x = s THEN holding[x] + n ELSE holding[x]
      /\ \A x \in Stakers : sharesIssued'[x] = IF x = s THEN sharesIssued[x] + n ELSE sharesIssued[x]
  BY DEF RowsInv, RowTypes, VaultSolvent, IssueShares
<1>3. \A x \in Stakers : holding'[x] >= 0
  BY <1>2
<1>4. HoldingsAgree'
  <2> SUFFICES ASSUME ~liquidated, NEW x \in Stakers
               PROVE  holding'[x] = sharesIssued'[x] - SumFunctionOnSet(PaidShares(x), Unstakes)
    BY DEF HoldingsAgree, PaidShares
  <2>1. holding[x] = sharesIssued[x] - SumFunctionOnSet(PaidShares(x), Unstakes)
    BY DEF RowsInv, HoldingsAgree
  <2>2. SumFunctionOnSet(PaidShares(x), Unstakes) \in Int
    <3>1. \A m \in Unstakes : PaidShares(x)[m] \in Int
      BY PaidSharesNat DEF RowsInv
    <3> QED
      BY <3>1, SumType, VaultsAssumption
  <2> QED
    BY <1>2, <2>1, <2>2
<1> QED
  BY <1>1, <1>3, <1>4

LEMMA NewSharesNat ==
    ASSUME RowTypes, NEW amount \in Nat, NEW nav \in Int, StakeAccepted(nav)
    PROVE  NewShares(amount, nav) \in Nat
<1>1. vault.shares \in Nat
  BY DEF RowTypes
<1>2. CASE vault.shares = 0
  BY <1>2 DEF NewShares
<1>3. CASE vault.shares # 0
  <2>1. nav \in Nat /\ nav # 0
    BY <1>3 DEF StakeAccepted
  <2>2. amount * vault.shares \in Nat
    BY <1>1
  <2> QED
    BY <1>3, <2>1, <2>2, Quotient DEF NewShares
<1> QED
  BY <1>2, <1>3

LEMMA CreateStakeRows ==
    ASSUME RowsInv, NEW t \in StakeTxs, create_stake(t), UNCHANGED liquidated
    PROVE  RowsInv' /\ SettledKept
<1>1. RowTypes' /\ VaultSolvent'
  BY DEF RowsInv, RowTypes, VaultSolvent, create_stake
<1> QED
  BY <1>1, MoneySame, HoldingsSame, RequestsSame DEF RowsInv, create_stake

(* An event brings new money, once.                                        *)
LEMMA StakeRows ==
    ASSUME RowsInv, NEW t \in StakeTxs, NEW nav \in Int, process_stake(t, nav), UNCHANGED liquidated
    PROVE  RowsInv' /\ SettledKept /\ credited' \subseteq credited \cup {t}
<1> USE VaultsAssumption
<1>1. CASE ~(NewStake(t) /\ StakeAccepted(nav))
  <2>1. UNCHANGED vaultRows
    BY <1>1 DEF process_stake
  <2> QED
    BY <2>1, RowsStay DEF vaultRows
<1>2. CASE NewStake(t) /\ StakeAccepted(nav)
  <2> DEFINE s == StakeTx[t].staker
             amount == StakeTx[t].amount
             paid == [x \in StakeTxs |-> StakeTx[x].amount]
  <2>1. s \in Stakers /\ amount \in Nat
    OBVIOUS
  <2>2. /\ credited' = credited \cup {t}
        /\ stakeRow' = [stakeRow EXCEPT ![t] = IF @ = "none" THEN @ ELSE "success"]
        /\ money' = [money EXCEPT ![TheVault] = @ + amount]
        /\ IssueShares(s, NewShares(amount, nav))
        /\ UNCHANGED unstake
    BY <1>2 DEF process_stake
  <2>3. NewShares(amount, nav) \in Nat
    BY <1>2, <2>1, NewSharesNat DEF RowsInv
  <2>4. money' \in [VaultProfiles -> Int] /\ TheVault \in VaultProfiles
    BY <2>1, <2>2 DEF RowsInv, RowTypes, VaultProfiles
  <2>5. RowTypes'
    BY <2>1, <2>2, <2>3, <2>4, SharesIssued DEF RowsInv, RowTypes
  <2>6. VaultSolvent'
    <3>1. money'[TheVault] >= 0
      BY <2>1, <2>2, <2>4 DEF RowsInv, RowTypes, VaultSolvent
    <3>2. \A x \in Stakers : holding'[x] >= 0
      BY <2>1, <2>2, <2>3, SharesIssued
    <3> QED
      BY <3>1, <3>2 DEF VaultSolvent
  <2>7. StakedMoneyConserved'
    <3>1. SumFunctionOnSet(money', VaultProfiles)
             = SumFunctionOnSet(money, VaultProfiles) - money[TheVault] + money'[TheVault]
      <4>1. \A x \in VaultProfiles : money[x] \in Int /\ money'[x] \in Int
        BY <2>4 DEF RowsInv, RowTypes
      <4>2. \A x \in VaultProfiles \ {TheVault} : money[x] = money'[x]
        BY <2>2 DEF RowsInv, RowTypes
      <4>3. TheVault \in VaultProfiles
        BY <2>4
      <4> HIDE VaultsAssumption
      <4> QED
        BY <4>1, <4>2, <4>3, ProfilesFinite, SumChange
    <3>2. money'[TheVault] = money[TheVault] + amount /\ money[TheVault] \in Int
      BY <2>2, <2>4 DEF RowsInv, RowTypes
    <3>3. SumFunctionOnSet(paid, credited') = amount + SumFunctionOnSet(paid, credited)
      <4>1. t \notin credited /\ credited' \in SUBSET StakeTxs /\ credited' \ {t} = credited /\ t \in credited'
        BY <1>2, <2>2 DEF NewStake, RowsInv, RowTypes
      <4>2. IsFiniteSet(credited')
        BY <4>1, FS_Subset
      <4>3. \A x \in credited' : paid[x] \in Int
        BY <4>1
      <4>4. paid[t] = amount
        OBVIOUS
      <4> HIDE DEF paid
      <4> QED
        BY <4>1, <4>2, <4>3, <4>4, SumSplit
    <3>4. /\ SumFunctionOnSet(money, VaultProfiles) = SumFunctionOnSet(StakeFunds, VaultProfiles)
                                                      + SumFunctionOnSet(paid, credited)
          /\ SumFunctionOnSet(money, VaultProfiles) \in Int
          /\ SumFunctionOnSet(StakeFunds, VaultProfiles) \in Int
          /\ SumFunctionOnSet(paid, credited) \in Int
      <4>1. \A x \in VaultProfiles : money[x] \in Int /\ StakeFunds[x] \in Int
        BY DEF RowsInv, RowTypes
      <4>2. IsFiniteSet(credited) /\ \A x \in credited : paid[x] \in Int
        BY FS_Subset DEF RowsInv, RowTypes
      <4> QED
        BY <4>1, <4>2, ProfilesFinite, SumType DEF RowsInv, StakedMoneyConserved
    <3> HIDE DEF paid, amount
    <3>5. SumFunctionOnSet(money', VaultProfiles) = SumFunctionOnSet(StakeFunds, VaultProfiles)
                                                      + SumFunctionOnSet(paid, credited')
      BY <2>1, <3>1, <3>2, <3>3, <3>4
    <3> QED
      BY <3>5 DEF StakedMoneyConserved, paid
  <2>8. HoldingsAgree'
    BY <2>1, <2>2, <2>3, SharesIssued
  <2> QED
    BY <2>2, <2>5, <2>6, <2>7, <2>8, RequestsSame DEF RowsInv
<1> QED
  BY <1>1, <1>2

(* A stake from the balance moves money to the vault.                      *)
LEMMA StakeFromBalanceRows ==
    ASSUME RowsInv, NEW s \in Stakers, NEW amount \in Nat, NEW nav \in Int,
           process_stake_from_balance(s, amount, nav), UNCHANGED liquidated
    PROVE  RowsInv' /\ SettledKept /\ credited' = credited
<1> USE VaultsAssumption
<1>1. CASE ~(money[s] >= amount /\ StakeAccepted(nav))
  <2>1. UNCHANGED vaultRows
    BY <1>1 DEF process_stake_from_balance
  <2> QED
    BY <2>1, RowsStay DEF vaultRows
<1>2. CASE money[s] >= amount /\ StakeAccepted(nav)
  <2>1. /\ money' = [money EXCEPT ![s] = @ - amount, ![TheVault] = @ + amount]
        /\ IssueShares(s, NewShares(amount, nav))
        /\ UNCHANGED <<unstake, stakeRow, credited>>
    BY <1>2 DEF process_stake_from_balance
  <2>2. NewShares(amount, nav) \in Nat
    BY <1>2, NewSharesNat DEF RowsInv
  <2>3. /\ TheVault \in VaultProfiles /\ s \in VaultProfiles /\ s # TheVault
        /\ money \in [VaultProfiles -> Int]
    BY DEF RowsInv, RowTypes, VaultProfiles
  <2>4. /\ money' \in [VaultProfiles -> Int]
        /\ money'[s] = money[s] - amount /\ money'[TheVault] = money[TheVault] + amount
        /\ \A x \in VaultProfiles \ {s, TheVault} : money'[x] = money[x]
    BY <2>1, <2>3
  <2>5. RowTypes'
    BY <2>1, <2>2, <2>4, SharesIssued DEF RowsInv, RowTypes
  <2>6. VaultSolvent'
    <3>1. money'[TheVault] >= 0
      BY <2>3, <2>4 DEF RowsInv, VaultSolvent
    <3>2. \A x \in Stakers : holding'[x] >= 0
      BY <2>1, <2>2, SharesIssued
    <3> QED
      BY <3>1, <3>2 DEF VaultSolvent
  <2>7. StakedMoneyConserved'
    <3> DEFINE mid == [money EXCEPT ![s] = @ - amount]
    <3>1. /\ mid \in [VaultProfiles -> Int] /\ mid[s] = money[s] - amount
          /\ mid[TheVault] = money[TheVault] /\ \A x \in VaultProfiles \ {s} : mid[x] = money[x]
      BY <2>3
    <3>2. \A x \in VaultProfiles \ {TheVault} : mid[x] = money'[x]
      BY <2>3, <2>4, <3>1
    <3> HIDE DEF mid
    <3>3. SumFunctionOnSet(mid, VaultProfiles) = SumFunctionOnSet(money, VaultProfiles) - money[s] + mid[s]
      BY <2>3, <3>1, ProfilesFinite, SumChange
    <3>4. SumFunctionOnSet(money', VaultProfiles)
             = SumFunctionOnSet(mid, VaultProfiles) - mid[TheVault] + money'[TheVault]
      BY <2>3, <2>4, <3>1, <3>2, ProfilesFinite, SumChange
    <3>5. SumFunctionOnSet(money, VaultProfiles) \in Int /\ money[s] \in Int /\ money[TheVault] \in Int
      BY <2>3, ProfilesFinite, SumType
    <3>6. SumFunctionOnSet(money', VaultProfiles) = SumFunctionOnSet(money, VaultProfiles)
      BY <2>4, <3>1, <3>3, <3>4, <3>5
    <3> QED
      BY <2>1, <3>6 DEF RowsInv, StakedMoneyConserved
  <2>8. HoldingsAgree'
    BY <2>1, <2>2, SharesIssued
  <2> QED
    BY <2>1, <2>5, <2>6, <2>7, <2>8, RequestsSame DEF RowsInv
<1> QED
  BY <1>1, <1>2

(* A row of a new or a canceled request pays no shares.                    *)
LEMMA UnpaidRow ==
    ASSUME RowTypes, NEW n \in Unstakes, NEW row \in UnstakeRows,
           unstake' = [unstake EXCEPT ![n] = row],
           row.status # "success", unstake[n] = NoRow \/ Requested(n), NEW s
    PROVE  [m \in Unstakes |-> IF unstake'[m] # NoRow /\ unstake'[m].staker = s
                                       /\ unstake'[m].status = "success"
                              THEN unstake'[m].shares ELSE 0] = PaidShares(s)
<1>1. ASSUME NEW m \in Unstakes
      PROVE  (IF unstake'[m] # NoRow /\ unstake'[m].staker = s /\ unstake'[m].status = "success"
              THEN unstake'[m].shares ELSE 0) = PaidShares(s)[m]
  <2>1. CASE m = n
    <3>1. unstake'[m] = row
      BY <2>1 DEF RowTypes
    <3>2. PaidShares(s)[m] = 0
      BY <2>1 DEF PaidShares, Requested
    <3> QED
      BY <3>1, <3>2
  <2>2. CASE m # n
    <3>1. unstake'[m] = unstake[m]
      BY <2>2 DEF RowTypes
    <3> QED
      BY <3>1 DEF PaidShares
  <2> QED
    BY <2>1, <2>2
<1>2. PaidShares(s) = [m \in Unstakes |-> PaidShares(s)[m]]
  BY DEF PaidShares
<1> QED
  BY <1>1, <1>2

LEMMA UnpaidHoldings ==
    ASSUME RowsInv, NEW n \in Unstakes, NEW row \in UnstakeRows,
           unstake' = [unstake EXCEPT ![n] = row],
           row.status # "success", unstake[n] = NoRow \/ Requested(n),
           UNCHANGED <<holding, sharesIssued, liquidated>>
    PROVE  HoldingsAgree' /\ SettledKept
<1>1. HoldingsAgree'
  <2> SUFFICES ASSUME ~liquidated, NEW s \in Stakers
               PROVE  holding[s] = sharesIssued[s]
                         - SumFunctionOnSet([m \in Unstakes |->
                               IF unstake'[m] # NoRow /\ unstake'[m].staker = s
                                     /\ unstake'[m].status = "success"
                               THEN unstake'[m].shares ELSE 0], Unstakes)
    BY DEF HoldingsAgree, PaidShares
  <2> QED
    BY UnpaidRow DEF RowsInv, HoldingsAgree
<1>2. SettledKept
  BY DEF SettledKept, RowsInv, RowTypes
<1> QED
  BY <1>1, <1>2

LEMMA CreateUnstakeRows ==
    ASSUME RowsInv, NEW s \in Stakers, NEW shares \in ShareAmounts, create_unstake(s, shares),
           UNCHANGED liquidated
    PROVE  RowsInv' /\ SettledKept /\ credited' = credited
<1> USE VaultsAssumption
<1>1. CASE UNCHANGED vaultRows
  BY <1>1, RowsStay DEF vaultRows
<1>2. CASE ~UNCHANGED vaultRows
  <2> DEFINE free == {m \in Unstakes : unstake[m] = NoRow}
             n == Min(free)
             row == [staker |-> s, shares |-> shares, status |-> "requested", mirror |-> "requested"]
  <2>1. /\ NoOpenRequest(s) /\ free # {}
        /\ unstake' = [unstake EXCEPT ![n] = row]
        /\ UNCHANGED <<vault, holding, sharesIssued, money, stakeRow, credited>>
    BY <1>2 DEF create_unstake
  <2>2. n \in Unstakes /\ unstake[n] = NoRow
    <3>1. free \in SUBSET Nat
      OBVIOUS
    <3>2. n \in free
      <4> HIDE DEF free
      <4> QED
        BY <2>1, <3>1, LeastNumber
    <3> QED
      BY <3>2
  <2>3. row \in UnstakeRows /\ row.status = "requested" /\ row.staker = s
    BY DEF UnstakeRows, UnstakeStatus
  <2> HIDE DEF n, row, free
  <2>4. RowTypes' /\ VaultSolvent'
    BY <2>1, <2>2, <2>3 DEF RowsInv, RowTypes, VaultSolvent
  <2>5. OneOpen'
    <3>1. \A m \in Unstakes : unstake'[m] = IF m = n THEN row ELSE unstake[m]
      BY <2>1, <2>2 DEF RowsInv, RowTypes
    <3>2. \A m \in Unstakes : Requested(m) => unstake[m].staker # s
      BY <2>1 DEF NoOpenRequest
    <3> QED
      BY <2>3, <3>1, <3>2 DEF RowsInv, OneOpen, Requested
  <2>6. HoldingsAgree' /\ SettledKept
    BY <2>1, <2>2, <2>3, UnpaidHoldings
  <2> QED
    BY <2>1, <2>4, <2>5, <2>6, MoneySame DEF RowsInv
<1> QED
  BY <1>1, <1>2

LEMMA CancelRows ==
    ASSUME RowsInv, NEW s, NEW n \in Unstakes, cancel_unstake(s, n), UNCHANGED liquidated
    PROVE  RowsInv' /\ SettledKept /\ credited' = credited
<1> USE VaultsAssumption
<1>1. CASE UNCHANGED vaultRows
  BY <1>1, RowsStay DEF vaultRows
<1>2. CASE ~UNCHANGED vaultRows
  <2> DEFINE row == [unstake[n] EXCEPT !.status = "canceled", !.mirror = "canceled"]
  <2>1. /\ Requested(n) /\ SettleUnstake({n}, "canceled")
        /\ UNCHANGED <<vault, holding, sharesIssued, money, stakeRow, credited>>
    BY <1>2 DEF cancel_unstake, Cancelable
  <2>2. unstake[n] \in UnstakeRows
    BY <2>1 DEF Requested, RowsInv, RowTypes
  <2>3. row \in UnstakeRows /\ row.status = "canceled"
    BY <2>2 DEF UnstakeRows, UnstakeStatus
  <2>4. unstake' = [unstake EXCEPT ![n] = row]
    BY <2>1 DEF SettleUnstake, RowsInv, RowTypes
  <2> HIDE DEF row
  <2>5. RowTypes' /\ VaultSolvent'
    BY <2>1, <2>3, <2>4 DEF RowsInv, RowTypes, VaultSolvent
  <2>6. OneOpen'
    <3>1. \A m \in Unstakes : unstake'[m] = IF m = n THEN row ELSE unstake[m]
      BY <2>4 DEF RowsInv, RowTypes
    <3> QED
      BY <2>3, <3>1 DEF RowsInv, OneOpen, Requested
  <2>7. HoldingsAgree' /\ SettledKept
    BY <2>1, <2>3, <2>4, UnpaidHoldings
  <2> QED
    BY <2>1, <2>5, <2>6, <2>7, MoneySame DEF RowsInv
<1> QED
  BY <1>1, <1>2

(* What the paid requests of a range move.                                 *)
LEMMA FeeNat ==
    ASSUME NEW v \in Int
    PROVE  Fee(v) \in Nat
<1>1. CASE v > 0
  <2>1. v * FeePercent \in Nat
    BY <1>1, VaultsAssumption
  <2> QED
    BY <1>1, <2>1, Quotient DEF Fee
<1>2. CASE ~(v > 0)
  BY <1>2 DEF Fee
<1> QED
  BY <1>1, <1>2

(* What the vault gives the stakers and the treasurer get.                 *)
LEMMA PayoutsBalance ==
    ASSUME NEW f \in [VaultProfiles -> Int], NEW g \in [VaultProfiles -> Int],
           NEW due, IsFiniteSet(due), NEW owner, \A n \in due : owner[n] \in Stakers,
           NEW value, NEW charge, \A n \in due : value[n] \in Int /\ charge[n] \in Int,
           NEW net, \A n \in due : net[n] = value[n] - charge[n],
           g[TheVault] = f[TheVault] - SumFunctionOnSet(value, due),
           g[Treasurer] = f[Treasurer] + SumFunctionOnSet(charge, due),
           \A s \in Stakers :
               g[s] = f[s] + SumFunctionOnSet(net, OwnedBy(s, due, owner))
    PROVE  SumFunctionOnSet(g, VaultProfiles) = SumFunctionOnSet(f, VaultProfiles)
<1> USE VaultsAssumption
<1> DEFINE rest == VaultProfiles \ {TheVault}
           d == [s \in Stakers |-> SumFunctionOnSet(net, OwnedBy(s, due, owner))]
<1>1. /\ TheVault \in VaultProfiles /\ Treasurer \in rest /\ rest \ {Treasurer} = Stakers
      /\ Stakers \in SUBSET VaultProfiles
  BY DEF VaultProfiles
<1>2. IsFiniteSet(rest)
  BY ProfilesFinite, FS_Subset
<1>3. (\A x \in VaultProfiles : f[x] \in Int /\ g[x] \in Int) /\ \A n \in due : net[n] \in Int
  OBVIOUS
<1>4. ASSUME NEW h, \A x \in VaultProfiles : h[x] \in Int
      PROVE  SumFunctionOnSet(h, VaultProfiles)
                = h[TheVault] + h[Treasurer] + SumFunctionOnSet(h, Stakers)
  <2>1. SumFunctionOnSet(h, VaultProfiles) = h[TheVault] + SumFunctionOnSet(h, rest)
    BY <1>1, <1>4, ProfilesFinite, SumSplit
  <2>2. SumFunctionOnSet(h, rest) = h[Treasurer] + SumFunctionOnSet(h, Stakers)
    <3>1. \A x \in rest : h[x] \in Int
      BY <1>4
    <3> HIDE DEF rest
    <3>2. SumFunctionOnSet(h, rest) = h[Treasurer] + SumFunctionOnSet(h, rest \ {Treasurer})
      BY <1>1, <1>2, <3>1, SumSplit
    <3> QED
      BY <1>1, <3>2
  <2>3. /\ h[TheVault] \in Int /\ h[Treasurer] \in Int /\ SumFunctionOnSet(h, Stakers) \in Int
    BY <1>1, <1>4, SumType
  <2> QED
    BY <2>1, <2>2, <2>3
<1>5. \A s \in Stakers : d[s] \in Int
  <2> SUFFICES ASSUME NEW s \in Stakers PROVE d[s] \in Int
    OBVIOUS
  <2>1. OwnedBy(s, due, owner) \in SUBSET due
    BY DEF OwnedBy
  <2>2. IsFiniteSet(OwnedBy(s, due, owner))
    BY <2>1, FS_Subset
  <2> QED
    BY <1>3, <2>1, <2>2, SumType
<1>6. \A s \in Stakers : f[s] \in Int /\ d[s] \in Int /\ g[s] = f[s] + d[s]
  BY <1>1, <1>3, <1>5
<1>7. SumFunctionOnSet(d, Stakers) = SumFunctionOnSet(net, due)
  <2>1. \A s \in Stakers : d[s] = SumFunctionOnSet(net, OwnedBy(s, due, owner))
    OBVIOUS
  <2>2. (\A n \in due : net[n] \in Int) /\ IsFiniteSet(Stakers)
    BY <1>3
  <2> HIDE VaultsAssumption DEF d, rest
  <2> QED
    BY <2>1, <2>2, SumGrouped
<1> HIDE DEF d
<1>8. SumFunctionOnSet(g, Stakers) = SumFunctionOnSet(f, Stakers) + SumFunctionOnSet(net, due)
  BY <1>6, <1>7, SumPlus
<1>9. SumFunctionOnSet(value, due) = SumFunctionOnSet(net, due) + SumFunctionOnSet(charge, due)
  <2>1. \A n \in due : net[n] \in Int /\ charge[n] \in Int /\ value[n] = net[n] + charge[n]
    OBVIOUS
  <2> QED
    BY <2>1, SumPlus
<1>10. /\ SumFunctionOnSet(net, due) \in Int /\ SumFunctionOnSet(charge, due) \in Int
       /\ SumFunctionOnSet(f, Stakers) \in Int /\ f[TheVault] \in Int /\ f[Treasurer] \in Int
  BY <1>1, <1>3, <1>6, SumType
<1> QED
  BY <1>3, <1>4, <1>8, <1>9, <1>10

(* The requests of a range are paid together: every staker has at most one *)
(* of them, the vault pays no more than it has, and what it pays arrives.  *)
LEMMA PayRows ==
    ASSUME RowsInv, NEW range \in SUBSET Unstakes, NEW nav \in Int, NEW withdrawable \in Int,
           NEW total \in Nat, process_unstakes(range, nav, withdrawable, total), UNCHANGED liquidated
    PROVE  RowsInv' /\ SettledKept /\ credited' = credited
<1> USE VaultsAssumption
<1>1. CASE UNCHANGED vaultRows
  BY <1>1, RowsStay DEF vaultRows
<1>2. CASE ~UNCHANGED vaultRows
  <2> DEFINE due == {n \in range : Requested(n) /\ Covered(n, total)}
             value == [n \in due |-> (nav * unstake[n].shares) \div total]
             sum == SumFunctionOnSet(value, due)
             owner == [n \in due |-> unstake[n].staker]
             shares == [n \in due |-> unstake[n].shares]
             Of(s) == {n \in due : unstake[n].staker = s}
  <2>1. PICK last \in due, charge \in [due -> 0 .. Fee(sum)] :
           /\ sum <= money[TheVault]
           /\ vault' = [vault EXCEPT !.shares = total - unstake[last].shares]
           /\ holding' = [s \in Stakers |-> holding[s] - SumFunctionOnSet(shares, Of(s))]
           /\ money' = [p \in VaultProfiles |->
                  CASE p = TheVault  -> money[p] - sum
                    [] p = Treasurer -> money[p] + SumFunctionOnSet(charge, due)
                    [] OTHER -> money[p]
                         + SumFunctionOnSet([n \in due |-> value[n] - charge[n]], Of(p))]
           /\ SettleUnstake(due, "success")
           /\ UNCHANGED <<sharesIssued, stakeRow, credited>>
    BY <1>2 DEF process_unstakes
  <2> DEFINE net == [n \in due |-> value[n] - charge[n]]
  <2>2. /\ due \in SUBSET Unstakes /\ IsFiniteSet(due)
        /\ \A n \in due : /\ Requested(n) /\ unstake[n] \in UnstakeRows
                           /\ unstake[n].staker \in Stakers
                           /\ unstake[n].shares \in Nat \ {0}
                           /\ unstake[n].shares <= total
                           /\ unstake[n].shares <= holding[unstake[n].staker]
    <3>1. due \in SUBSET Unstakes
      OBVIOUS
    <3>2. IsFiniteSet(due)
      BY <3>1, FS_Subset
    <3>3. \A n \in due : Requested(n) /\ Covered(n, total)
      OBVIOUS
    <3> HIDE DEF due
    <3>4. \A n \in due : unstake[n] \in UnstakeRows
      BY <3>1, <3>3 DEF Requested, RowsInv, RowTypes
    <3> QED
      BY <3>1, <3>2, <3>3, <3>4 DEF Covered, UnstakeRows
  <2>3. /\ \A n \in due : value[n] = (nav * unstake[n].shares) \div total
        /\ \A n \in due : net[n] = value[n] - charge[n]
        /\ \A n \in due : owner[n] = unstake[n].staker
        /\ \A n \in due : shares[n] = unstake[n].shares
    OBVIOUS
  <2>4. \A s : Of(s) = OwnedBy(s, due, owner)
    BY DEF OwnedBy
  <2> HIDE DEF due, value, owner, shares, net, Of
  <2>5. \A n \in due : value[n] \in Int
    <3> SUFFICES ASSUME NEW n \in due PROVE value[n] \in Int
      OBVIOUS
    <3>1. total \in Nat \ {0}
      BY <2>2
    <3>2. nav * unstake[n].shares \in Int
      BY <2>2
    <3> QED
      BY <2>3, <3>1, <3>2
  <2>6. sum \in Int
    BY <2>2, <2>5, SumType
  <2> HIDE DEF sum
  <2>7. \A n \in due : charge[n] \in Nat
    BY <2>6, FeeNat
  <2>8. ASSUME NEW s \in Stakers
        PROVE  /\ SumFunctionOnSet(shares, Of(s)) \in Nat
               /\ SumFunctionOnSet(shares, Of(s)) <= holding[s]
    <3>1. Of(s) \in SUBSET due /\ \A n \in Of(s) : owner[n] = s
      BY <2>4 DEF OwnedBy
    <3>2. IsFiniteSet(Of(s)) /\ \A n \in Of(s) : shares[n] \in Nat
      BY <2>2, <2>3, <3>1, FS_Subset
    <3>3. holding[s] \in Nat
      BY DEF RowsInv, RowTypes, VaultSolvent
    <3>4. CASE Of(s) = {}
      <4>1. SumFunctionOnSet(shares, Of(s)) = 0
        BY <3>4, SumEmpty
      <4> QED
        BY <3>3, <4>1
    <3>5. CASE Of(s) # {}
      <4>1. PICK n \in Of(s) : TRUE
        BY <3>5
      <4>2. Of(s) \ {n} = {}
        <5> SUFFICES ASSUME NEW m \in Of(s), m # n PROVE FALSE
          OBVIOUS
        <5>1. m \in due /\ n \in due /\ owner[m] = s /\ owner[n] = s
          BY <3>1, <4>1
        <5>2. /\ m \in Unstakes /\ n \in Unstakes /\ Requested(m) /\ Requested(n)
              /\ unstake[m].staker = unstake[n].staker
          BY <2>2, <2>3, <5>1
        <5> QED
          BY <5>2 DEF RowsInv, OneOpen
      <4>3. \A m \in Of(s) : shares[m] \in Int
        BY <3>2
      <4>4. SumFunctionOnSet(shares, Of(s)) = shares[n] + SumFunctionOnSet(shares, Of(s) \ {n})
        BY <3>2, <4>1, <4>3, SumSplit
      <4>5. SumFunctionOnSet(shares, Of(s)) = shares[n]
        BY <3>2, <4>2, <4>4, SumEmpty
      <4> QED
        BY <2>2, <2>3, <3>1, <3>2, <4>1, <4>5
    <3> QED
      BY <3>4, <3>5
  <2>9. /\ \A n \in due : unstake'[n] = [unstake[n] EXCEPT !.status = "success", !.mirror = "success"]
        /\ \A n \in Unstakes \ due : unstake'[n] = unstake[n]
        /\ unstake' \in [Unstakes -> UnstakeRows \cup {NoRow}]
    <3>1. unstake' = [n \in Unstakes |->
             IF n \in due THEN [unstake[n] EXCEPT !.status = "success", !.mirror = "success"]
             ELSE unstake[n]]
      BY <2>1 DEF SettleUnstake
    <3>2. \A n \in due : [unstake[n] EXCEPT !.status = "success", !.mirror = "success"] \in UnstakeRows
      BY <2>2 DEF UnstakeRows, UnstakeStatus
    <3>3. unstake \in [Unstakes -> UnstakeRows \cup {NoRow}]
      BY DEF RowsInv, RowTypes
    <3> QED
      BY <2>2, <3>1, <3>2, <3>3
  <2>10. \A n \in due : /\ unstake'[n] # NoRow /\ unstake'[n].status = "success"
                        /\ unstake'[n].staker = unstake[n].staker
                        /\ unstake'[n].shares = unstake[n].shares
    <3> SUFFICES ASSUME NEW n \in due
                 PROVE  /\ unstake'[n] # NoRow /\ unstake'[n].status = "success"
                        /\ unstake'[n].staker = unstake[n].staker
                        /\ unstake'[n].shares = unstake[n].shares
      OBVIOUS
    <3>1. [unstake[n] EXCEPT !.status = "success", !.mirror = "success"] \in UnstakeRows
      BY <2>2 DEF UnstakeRows, UnstakeStatus
    <3> QED
      BY <2>2, <2>9, <3>1 DEF UnstakeRows
  <2>11. SettledKept
    BY <2>2, <2>9 DEF SettledKept
  <2>12. OneOpen'
    <3> SUFFICES ASSUME NEW m \in Unstakes, NEW n \in Unstakes, Requested(m)', Requested(n)',
                        unstake'[m].staker = unstake'[n].staker
                 PROVE  m = n
      BY DEF OneOpen
    <3>1. m \notin due /\ n \notin due
      BY <2>10 DEF Requested
    <3>2. unstake'[m] = unstake[m] /\ unstake'[n] = unstake[n]
      BY <2>9, <3>1
    <3>3. Requested(m) /\ Requested(n) /\ unstake[m].staker = unstake[n].staker
      BY <3>2 DEF Requested
    <3> QED
      BY <3>3 DEF RowsInv, OneOpen
  <2>13. /\ holding' \in [Stakers -> Int]
         /\ \A s \in Stakers : holding'[s] = holding[s] - SumFunctionOnSet(shares, Of(s))
         /\ \A s \in Stakers : holding'[s] >= 0 /\ holding[s] \in Int
    BY <2>1, <2>8 DEF RowsInv, RowTypes
  <2>14. HoldingsAgree'
    <3> SUFFICES ASSUME ~liquidated, NEW s \in Stakers
                 PROVE  holding'[s] = sharesIssued[s]
                           - SumFunctionOnSet([m \in Unstakes |->
                                 IF unstake'[m] # NoRow /\ unstake'[m].staker = s
                                       /\ unstake'[m].status = "success"
                                 THEN unstake'[m].shares ELSE 0], Unstakes)
      BY <2>1 DEF HoldingsAgree, PaidShares
    <3> DEFINE f == PaidShares(s)
               g == [m \in Unstakes |->
                       IF unstake'[m] # NoRow /\ unstake'[m].staker = s
                             /\ unstake'[m].status = "success"
                       THEN unstake'[m].shares ELSE 0]
    <3>1. Of(s) \in SUBSET Unstakes /\ \A n \in Unstakes : n \in Of(s) <=> n \in due /\ unstake[n].staker = s
      BY <2>2, <2>3, <2>4 DEF OwnedBy
    <3>2. \A n \in Of(s) : f[n] = 0 /\ g[n] = shares[n]
      <4> SUFFICES ASSUME NEW n \in Of(s) PROVE f[n] = 0 /\ g[n] = shares[n]
        OBVIOUS
      <4>1. n \in due /\ n \in Unstakes /\ unstake[n].staker = s
        BY <3>1
      <4>2. unstake[n].status = "requested"
        BY <2>2, <4>1 DEF Requested
      <4> QED
        BY <2>3, <2>10, <4>1, <4>2 DEF PaidShares
    <3>3. \A n \in Unstakes \ Of(s) : f[n] = g[n]
      <4> SUFFICES ASSUME NEW n \in Unstakes \ Of(s) PROVE f[n] = g[n]
        OBVIOUS
      <4>1. CASE n \in due
        <5>1. unstake[n].staker # s /\ unstake'[n].staker # s
          BY <2>10, <3>1, <4>1
        <5> QED
          BY <5>1 DEF PaidShares
      <4>2. CASE n \notin due
        <5>1. unstake'[n] = unstake[n]
          BY <2>9, <4>2
        <5> QED
          BY <5>1 DEF PaidShares
      <4> QED
        BY <4>1, <4>2
    <3>4. \A n \in Unstakes : f[n] \in Int
      BY PaidSharesNat DEF RowsInv
    <3>5. \A n \in Of(s) : shares[n] \in Int
      <4> SUFFICES ASSUME NEW n \in Of(s) PROVE shares[n] \in Int
        OBVIOUS
      <4>1. n \in due
        BY <3>1
      <4>2. shares[n] = unstake[n].shares /\ unstake[n].shares \in Nat
        BY <2>2, <2>3, <4>1
      <4> QED
        BY <4>2
    <3> HIDE DEF f, g
    <3>6. \A n \in Unstakes : f[n] \in Int /\ g[n] \in Int
      BY <3>2, <3>3, <3>4, <3>5
    <3>7. SumFunctionOnSet(g, Unstakes) = SumFunctionOnSet(f, Unstakes) + SumFunctionOnSet(g, Of(s))
      <4>1. /\ IsFiniteSet(Unstakes) /\ Of(s) \in SUBSET Unstakes /\ \A n \in Of(s) : f[n] = 0
        BY <3>1, <3>2
      <4> HIDE VaultsAssumption
      <4> QED
        BY <3>3, <3>6, <4>1, SumFilled
    <3>8. SumFunctionOnSet(g, Of(s)) = SumFunctionOnSet(shares, Of(s))
      <4>1. IsFiniteSet(Of(s))
        BY <3>1, FS_Subset
      <4> QED
        BY <3>2, <4>1, SumSame
    <3>9. holding[s] = sharesIssued[s] - SumFunctionOnSet(f, Unstakes)
      BY DEF RowsInv, HoldingsAgree, f
    <3>10. SumFunctionOnSet(f, Unstakes) \in Int /\ sharesIssued[s] \in Int
      BY <3>4, SumType DEF RowsInv, RowTypes
    <3>11. holding'[s] = sharesIssued[s] - SumFunctionOnSet(g, Unstakes)
      BY <2>8, <2>13, <3>7, <3>8, <3>9, <3>10
    <3> QED
      BY <3>11 DEF g
  <2>15. /\ money \in [VaultProfiles -> Int]
         /\ TheVault \in VaultProfiles /\ Treasurer \in VaultProfiles /\ Stakers \in SUBSET VaultProfiles
    BY DEF RowsInv, RowTypes, VaultProfiles
  <2>16. /\ money'[TheVault] = money[TheVault] - sum
         /\ money'[Treasurer] = money[Treasurer] + SumFunctionOnSet(charge, due)
         /\ \A s \in Stakers : money'[s] = money[s] + SumFunctionOnSet(net, Of(s))
    <3>1. money' = [p \in VaultProfiles |->
                  CASE p = TheVault  -> money[p] - sum
                    [] p = Treasurer -> money[p] + SumFunctionOnSet(charge, due)
                    [] OTHER -> money[p] + SumFunctionOnSet(net, Of(p))]
      BY <2>1 DEF net
    <3> QED
      BY <2>15, <3>1
  <2>17. /\ SumFunctionOnSet(charge, due) \in Int
         /\ \A s \in Stakers : SumFunctionOnSet(net, Of(s)) \in Int
    <3>1. \A n \in due : charge[n] \in Int /\ net[n] \in Int
      BY <2>3, <2>5, <2>7
    <3>2. \A s \in Stakers : Of(s) \in SUBSET due
      BY <2>4 DEF OwnedBy
    <3>3. \A s \in Stakers : IsFiniteSet(Of(s))
      BY <2>2, <3>2, FS_Subset
    <3> QED
      BY <2>2, <3>1, <3>2, <3>3, SumType
  <2>18. money' \in [VaultProfiles -> Int]
    <3>1. VaultProfiles = Stakers \cup {TheVault, Treasurer}
      BY DEF VaultProfiles
    <3>2. \A p \in VaultProfiles : money'[p] \in Int
      BY <2>6, <2>15, <2>16, <2>17, <3>1
    <3>3. money' = [p \in VaultProfiles |-> money'[p]]
      BY <2>1
    <3> QED
      BY <3>2, <3>3
  <2>19. SumFunctionOnSet(money', VaultProfiles) = SumFunctionOnSet(money, VaultProfiles)
    <3>1. \A n \in due : owner[n] \in Stakers
      BY <2>2, <2>3
    <3>2. \A n \in due : value[n] \in Int /\ charge[n] \in Int
      BY <2>5, <2>7
    <3>3. \A s \in Stakers : money'[s] = money[s] + SumFunctionOnSet(net, OwnedBy(s, due, owner))
      BY <2>4, <2>16
    <3>4. money'[TheVault] = money[TheVault] - SumFunctionOnSet(value, due)
      BY <2>16 DEF sum
    <3>5. IsFiniteSet(due) /\ \A n \in due : net[n] = value[n] - charge[n]
      BY <2>2, <2>3
    <3>6. /\ money \in [VaultProfiles -> Int] /\ money' \in [VaultProfiles -> Int]
          /\ money'[Treasurer] = money[Treasurer] + SumFunctionOnSet(charge, due)
      BY <2>15, <2>16, <2>18
    <3> HIDE VaultsAssumption
    <3> QED
      BY <3>1, <3>2, <3>3, <3>4, <3>5, <3>6, PayoutsBalance
  <2>20. StakedMoneyConserved'
    BY <2>1, <2>19 DEF RowsInv, StakedMoneyConserved
  <2>21. VaultSolvent'
    BY <2>1, <2>6, <2>13, <2>15, <2>16 DEF VaultSolvent
  <2>22. vault' \in [status : {"active", "suspended"}, shares : Nat]
    <3>1. total - unstake[last].shares \in Nat
      BY <2>2
    <3> QED
      BY <2>1, <3>1 DEF RowsInv, RowTypes
  <2>23. RowTypes'
    BY <2>1, <2>9, <2>13, <2>18, <2>22 DEF RowsInv, RowTypes
  <2> QED
    BY <2>1, <2>11, <2>12, <2>14, <2>20, <2>21, <2>23 DEF RowsInv
<1> QED
  BY <1>1, <1>2

(* The requests and their arguments.                                       *)
LEMMA RequestBegins ==
    ASSUME VaultInv, NEW r \in VaultRequests, NEW op, NEW lock, NEW arg,
           BeginRequest(r, op, lock, arg),
           [NoRequest EXCEPT !.op = op, !.pc = "call", !.lock = lock, !.arg = arg] \in RequestT,
           ArgFits([NoRequest EXCEPT !.op = op, !.pc = "call", !.lock = lock, !.arg = arg])
    PROVE  RequestsFit' /\ vaultCalls' \in 0 .. MaxVaultCalls /\ UNCHANGED vaultRows
<1> DEFINE q == [NoRequest EXCEPT !.op = op, !.pc = "call", !.lock = lock, !.arg = arg]
<1>1. vaultRequest' = [vaultRequest EXCEPT ![r] = q] /\ q \in RequestT /\ ArgFits(q)
  BY DEF BeginRequest
<1> HIDE DEF q
<1>2. RequestsFit'
  BY <1>1 DEF VaultInv, RequestsFit, ArgFits
<1>3. vaultCalls' \in 0 .. MaxVaultCalls /\ UNCHANGED vaultRows
  BY VaultsAssumption DEF BeginRequest, VaultInv, ChainRead
<1> QED
  BY <1>2, <1>3

LEMMA RequestGoesOn ==
    ASSUME VaultInv, NEW r \in VaultRequests, NEW q \in RequestT,
           q.op = vaultRequest[r].op, q.lock = vaultRequest[r].lock, q.arg = vaultRequest[r].arg,
           vaultRequest' = [vaultRequest EXCEPT ![r] = q]
    PROVE  RequestsFit'
<1>1. ArgFits(q)
  BY DEF VaultInv, RequestsFit, ArgFits
<1> QED
  BY <1>1 DEF VaultInv, RequestsFit, ArgFits

LEMMA RequestFinishes ==
    ASSUME VaultInv, NEW r \in VaultRequests, Finish(r)
    PROVE  RequestsFit' /\ vaultCalls' = vaultCalls
<1> DEFINE q == [vaultRequest[r] EXCEPT !.pc = "release"]
<1>1. vaultRequest[r] \in RequestT
  BY DEF VaultInv, RequestsFit
<1>2. /\ q \in RequestT /\ q.op = vaultRequest[r].op /\ q.lock = vaultRequest[r].lock
      /\ q.arg = vaultRequest[r].arg
  BY <1>1 DEF RequestT
<1>3. vaultRequest' = [vaultRequest EXCEPT ![r] = q]
  BY DEF Finish, GoTo, VaultInv, RequestsFit
<1> HIDE DEF q
<1> QED
  BY <1>2, <1>3, RequestGoesOn DEF Finish, GoTo

LEMMA EquityInt ==
    ASSUME VaultInv
    PROVE  Equity \in Int /\ VaultWithdrawable \in Int
<1>1. money[TheVault] \in Int /\ profit \in Int
  BY VaultsAssumption DEF VaultInv, RowsInv, RowTypes, ChainRead, VaultProfiles
<1> QED
  BY <1>1 DEF Equity, VaultWithdrawable

(* What a step of a handler leaves.                                        *)
HandlerKept ==
    /\ RowsInv' /\ SettledKept /\ credited' = credited
    /\ RequestsFit' /\ vaultCalls' \in 0 .. MaxVaultCalls

LEMMA HandlerOnlyReads ==
    ASSUME VaultInv, UNCHANGED vaultRows, UNCHANGED liquidated,
           RequestsFit', vaultCalls' \in 0 .. MaxVaultCalls
    PROVE  HandlerKept
  BY RowsStay DEF HandlerKept, VaultInv, vaultRows

LEMMA HandleStakeKept ==
    ASSUME VaultInv, NEW r \in VaultRequests, HandleStake(r), UNCHANGED liquidated
    PROVE  HandlerKept
<1> USE VaultsAssumption
<1>1. ASSUME NEW t \in StakeTxs, BeginRequest(r, "stake", <<"stake", StakeTx[t].staker>>, t)
      PROVE  HandlerKept
  <2> DEFINE q == [NoRequest EXCEPT !.op = "stake", !.pc = "call",
                                    !.lock = <<"stake", StakeTx[t].staker>>, !.arg = t]
  <2>1. q \in RequestT /\ ArgFits(q)
    BY DEF NoRequest, RequestT, ArgFits
  <2> QED
    BY <1>1, <2>1, RequestBegins, HandlerOnlyReads
<1>2. CASE InStep(r, "stake", "call") /\ create_stake(vaultRequest[r].arg) /\ Finish(r)
  <2>1. vaultRequest[r].arg \in StakeTxs
    BY <1>2 DEF InStep, VaultInv, RequestsFit, ArgFits
  <2>2. RowsInv' /\ SettledKept /\ credited' = credited
    BY <1>2, <2>1, CreateStakeRows DEF VaultInv, create_stake
  <2> QED
    BY <1>2, <2>2, RequestFinishes DEF HandlerKept, VaultInv, ChainRead
<1> QED
  BY <1>1, <1>2 DEF HandleStake

LEMMA HandleStakeFromBalanceKept ==
    ASSUME VaultInv, NEW r \in VaultRequests, HandleStakeFromBalance(r), UNCHANGED liquidated
    PROVE  HandlerKept
<1> USE VaultsAssumption
<1>1. ASSUME NEW s \in Stakers, NEW a \in StakeAmounts,
             BeginRequest(r, "balance", <<"withdraw", s>>, a)
      PROVE  HandlerKept
  <2> DEFINE q == [NoRequest EXCEPT !.op = "balance", !.pc = "call",
                                    !.lock = <<"withdraw", s>>, !.arg = a]
  <2>1. q \in RequestT /\ ArgFits(q)
    BY DEF NoRequest, RequestT, ArgFits
  <2> QED
    BY <1>1, <2>1, RequestBegins, HandlerOnlyReads
<1>2. CASE /\ InStep(r, "balance", "call")
           /\ vaultRequest' = [vaultRequest EXCEPT ![r].pc = "process", ![r].nav = Equity]
           /\ UNCHANGED <<vaultRows, vaultLocks, vaultCalls>>
  <2> DEFINE q == [vaultRequest[r] EXCEPT !.pc = "process", !.nav = Equity]
  <2>1. vaultRequest[r] \in RequestT
    BY DEF VaultInv, RequestsFit
  <2>2. /\ q \in RequestT /\ q.op = vaultRequest[r].op /\ q.lock = vaultRequest[r].lock
        /\ q.arg = vaultRequest[r].arg
    BY <2>1, EquityInt DEF RequestT
  <2>3. vaultRequest' = [vaultRequest EXCEPT ![r] = q]
    BY <1>2 DEF VaultInv, RequestsFit
  <2> HIDE DEF q
  <2>4. RequestsFit' /\ vaultCalls' \in 0 .. MaxVaultCalls
    BY <1>2, <2>2, <2>3, RequestGoesOn DEF VaultInv, ChainRead
  <2> QED
    BY <1>2, <2>4, HandlerOnlyReads
<1>3. CASE /\ InStep(r, "balance", "process")
           /\ process_stake_from_balance(Caller(r), vaultRequest[r].arg, vaultRequest[r].nav)
           /\ Finish(r)
  <2>1. Caller(r) \in Stakers /\ vaultRequest[r].arg \in Nat /\ vaultRequest[r].nav \in Int
    BY <1>3 DEF InStep, Caller, VaultInv, RequestsFit, ArgFits, RequestT
  <2>2. RowsInv' /\ SettledKept /\ credited' = credited
    BY <1>3, <2>1, StakeFromBalanceRows DEF VaultInv
  <2> QED
    BY <1>3, <2>2, RequestFinishes DEF HandlerKept, VaultInv, ChainRead
<1> QED
  BY <1>1, <1>2, <1>3 DEF HandleStakeFromBalance

LEMMA UnstakeHandlersKept ==
    ASSUME VaultInv, NEW r \in VaultRequests, BeginUnstake(r) \/ CancelUnstake(r),
           UNCHANGED liquidated
    PROVE  HandlerKept
<1> USE VaultsAssumption
<1>1. ASSUME NEW s \in Stakers, NEW n \in ShareAmounts,
             BeginRequest(r, "unstake", <<"unstake", s>>, n)
      PROVE  HandlerKept
  <2> DEFINE q == [NoRequest EXCEPT !.op = "unstake", !.pc = "call",
                                    !.lock = <<"unstake", s>>, !.arg = n]
  <2>1. q \in RequestT /\ ArgFits(q)
    BY DEF NoRequest, RequestT, ArgFits
  <2> QED
    BY <1>1, <2>1, RequestBegins, HandlerOnlyReads
<1>2. CASE /\ InStep(r, "unstake", "call")
           /\ create_unstake(Caller(r), vaultRequest[r].arg)
           /\ Finish(r)
  <2>1. Caller(r) \in Stakers /\ vaultRequest[r].arg \in ShareAmounts
    BY <1>2 DEF InStep, Caller, VaultInv, RequestsFit, ArgFits
  <2>2. RowsInv' /\ SettledKept /\ credited' = credited
    BY <1>2, <2>1, CreateUnstakeRows DEF VaultInv
  <2> QED
    BY <1>2, <2>2, RequestFinishes DEF HandlerKept, VaultInv, ChainRead
<1>3. ASSUME NEW n \in Unstakes, unstake[n] # NoRow,
             BeginRequest(r, "cancel", <<"withdraw", unstake[n].staker>>, n)
      PROVE  HandlerKept
  <2> DEFINE q == [NoRequest EXCEPT !.op = "cancel", !.pc = "call",
                                    !.lock = <<"withdraw", unstake[n].staker>>, !.arg = n]
  <2>1. unstake[n].staker \in Stakers
    BY <1>3 DEF VaultInv, RowsInv, RowTypes, UnstakeRows
  <2>2. q \in RequestT /\ ArgFits(q)
    BY <2>1 DEF NoRequest, RequestT, ArgFits
  <2> QED
    BY <1>3, <2>2, RequestBegins, HandlerOnlyReads
<1>4. CASE /\ InStep(r, "cancel", "call")
           /\ cancel_unstake(Caller(r), vaultRequest[r].arg)
           /\ Finish(r)
  <2>1. vaultRequest[r].arg \in Unstakes
    BY <1>4 DEF InStep, VaultInv, RequestsFit, ArgFits
  <2>2. RowsInv' /\ SettledKept /\ credited' = credited
    BY <1>4, <2>1, CancelRows DEF VaultInv
  <2> QED
    BY <1>4, <2>2, RequestFinishes DEF HandlerKept, VaultInv, ChainRead
<1> QED
  BY <1>1, <1>2, <1>3, <1>4 DEF BeginUnstake, CancelUnstake

LEMMA ProcessUnstakesKept ==
    ASSUME VaultInv, NEW r \in VaultRequests, ProcessUnstakes(r), UNCHANGED liquidated
    PROVE  HandlerKept
<1> USE VaultsAssumption
<1>0. vaultRequest[r] \in RequestT
  BY DEF VaultInv, RequestsFit
<1>1. ASSUME NEW from \in Unstakes, NEW to \in Unstakes,
             BeginRequest(r, "process", <<"withdraw", TheVault>>,
                          {n \in Unstakes : from <= n /\ n <= to})
      PROVE  HandlerKept
  <2> DEFINE range == {n \in Unstakes : from <= n /\ n <= to}
             q == [NoRequest EXCEPT !.op = "process", !.pc = "call",
                                    !.lock = <<"withdraw", TheVault>>, !.arg = range]
  <2>1. range \in SUBSET Unstakes
    OBVIOUS
  <2> HIDE DEF range
  <2>2. q \in RequestT /\ ArgFits(q)
    BY <2>1 DEF NoRequest, RequestT, ArgFits
  <2> QED
    BY <1>1, <2>2, RequestBegins, HandlerOnlyReads DEF range
<1>2. CASE /\ InStep(r, "process", "call")
           /\ IF vault.status = "active"
              THEN vaultRequest' = [vaultRequest EXCEPT ![r].pc = "cache",
                                                        ![r].shares = vault.shares]
              ELSE vaultRequest' = [vaultRequest EXCEPT ![r].pc = "release"]
           /\ UNCHANGED <<vaultRows, vaultLocks, vaultCalls>>
  <2> DEFINE q == IF vault.status = "active"
                  THEN [vaultRequest[r] EXCEPT !.pc = "cache", !.shares = vault.shares]
                  ELSE [vaultRequest[r] EXCEPT !.pc = "release"]
  <2>1. vault.shares \in Nat
    BY DEF VaultInv, RowsInv, RowTypes
  <2>2. /\ q \in RequestT /\ q.op = vaultRequest[r].op /\ q.lock = vaultRequest[r].lock
        /\ q.arg = vaultRequest[r].arg
    BY <1>0, <2>1 DEF RequestT
  <2>3. vaultRequest' = [vaultRequest EXCEPT ![r] = q]
    BY <1>2 DEF VaultInv, RequestsFit
  <2> HIDE DEF q
  <2>4. RequestsFit' /\ vaultCalls' \in 0 .. MaxVaultCalls
    BY <1>2, <2>2, <2>3, RequestGoesOn DEF VaultInv, ChainRead
  <2> QED
    BY <1>2, <2>4, HandlerOnlyReads
<1>3. CASE /\ InStep(r, "process", "cache")
           /\ vaultRequest' = [vaultRequest EXCEPT ![r].pc = "pay", ![r].nav = Equity,
                                                   ![r].withdrawable = VaultWithdrawable]
           /\ UNCHANGED <<vaultRows, vaultLocks, vaultCalls>>
  <2> DEFINE q == [vaultRequest[r] EXCEPT !.pc = "pay", !.nav = Equity,
                                          !.withdrawable = VaultWithdrawable]
  <2>1. /\ q \in RequestT /\ q.op = vaultRequest[r].op /\ q.lock = vaultRequest[r].lock
        /\ q.arg = vaultRequest[r].arg
    BY <1>0, EquityInt DEF RequestT
  <2>2. vaultRequest' = [vaultRequest EXCEPT ![r] = q]
    BY <1>3 DEF VaultInv, RequestsFit
  <2> HIDE DEF q
  <2>3. RequestsFit' /\ vaultCalls' \in 0 .. MaxVaultCalls
    BY <1>3, <2>1, <2>2, RequestGoesOn DEF VaultInv, ChainRead
  <2> QED
    BY <1>3, <2>3, HandlerOnlyReads
<1>4. CASE /\ InStep(r, "process", "pay")
           /\ LET q == vaultRequest[r]
              IN  process_unstakes(q.arg, q.nav, q.withdrawable, q.shares)
           /\ Finish(r)
  <2> DEFINE q == vaultRequest[r]
  <2>1. /\ q.arg \in SUBSET Unstakes /\ q.nav \in Int /\ q.withdrawable \in Int
        /\ q.shares \in Nat
    BY <1>0, <1>4 DEF InStep, VaultInv, RequestsFit, ArgFits, RequestT
  <2>2. process_unstakes(q.arg, q.nav, q.withdrawable, q.shares)
    BY <1>4
  <2>3. RowsInv' /\ SettledKept /\ credited' = credited
    BY <2>1, <2>2, PayRows DEF VaultInv
  <2> QED
    BY <1>4, <2>3, RequestFinishes DEF HandlerKept, VaultInv, ChainRead
<1> QED
  BY <1>1, <1>2, <1>3, <1>4 DEF ProcessUnstakes

LEMMA ReleaseKept ==
    ASSUME VaultInv, NEW r \in VaultRequests, Release(r), UNCHANGED liquidated
    PROVE  HandlerKept
<1>1. NoRequest \in RequestT /\ ArgFits(NoRequest)
  BY VaultsAssumption DEF NoRequest, RequestT, ArgFits
<1>2. vaultRequest' = [vaultRequest EXCEPT ![r] = NoRequest]
  BY DEF Release
<1>3. RequestsFit'
  BY <1>1, <1>2 DEF VaultInv, RequestsFit, ArgFits
<1> QED
  BY <1>3, HandlerOnlyReads DEF Release, VaultInv, ChainRead

(* Steps of the settlement service, the liquidation and the chain.         *)
LEMMA StakeHandlerKept ==
    ASSUME VaultInv, stakeHandler,
           UNCHANGED <<profit, mined, vaultLocks, vaultRequest, vaultCalls, wiping, liquidated>>
    PROVE  VaultInv' /\ SettledKept
<1>1. RequestsFit'
  BY DEF VaultInv, RequestsFit, ArgFits
<1>2. CASE UNCHANGED vaultRows
  <2>1. staking'.tx \in mined \cup {NoRow} /\ staking'.nav \in Int
    <3>1. CASE \E t \in StakeLogs : staking' = [tx |-> t, nav |-> Equity]
      BY <3>1, EquityInt DEF StakeLogs
    <3>2. CASE staking' = [tx |-> NoRow, nav |-> 0]
      BY <3>2
    <3> QED
      BY <3>1, <3>2 DEF stakeHandler
  <2>2. ChainRead'
    BY <1>2, <2>1 DEF VaultInv, ChainRead, vaultRows
  <2> QED
    BY <1>1, <1>2, <2>2, RowsStay DEF VaultInv
<1>3. CASE /\ staking.tx # NoRow
           /\ process_stake(staking.tx, staking.nav)
           /\ staking' = [tx |-> NoRow, nav |-> 0]
  <2>1. staking.tx \in mined /\ staking.tx \in StakeTxs /\ staking.nav \in Int
    BY <1>3 DEF VaultInv, ChainRead
  <2>2. RowsInv' /\ SettledKept /\ credited' \subseteq credited \cup {staking.tx}
    BY <1>3, <2>1, StakeRows DEF VaultInv
  <2>3. ChainRead'
    BY <1>3, <2>1, <2>2 DEF VaultInv, ChainRead
  <2> QED
    BY <1>1, <2>2, <2>3 DEF VaultInv
<1> QED
  BY <1>2, <1>3 DEF stakeHandler

LEMMA LiquidatedKept ==
    ASSUME VaultInv, liquidated_vaults,
           UNCHANGED <<profit, mined, vaultLocks, vaultRequest, staking>>
    PROVE  VaultInv' /\ SettledKept
<1> USE VaultsAssumption
<1>1. RequestsFit'
  BY DEF VaultInv, RequestsFit, ArgFits
<1>2. /\ unstake' = unstake /\ money' = money /\ credited' = credited
      /\ sharesIssued' = sharesIssued /\ stakeRow' = stakeRow /\ liquidated' = TRUE
  BY DEF liquidated_vaults, VaultInv, ChainRead
<1>3. /\ vault' \in [status : {"active", "suspended"}, shares : Nat]
      /\ holding' \in [Stakers -> Int] /\ \A s \in Stakers : holding'[s] >= 0
  BY DEF liquidated_vaults, VaultInv, RowsInv, RowTypes, VaultSolvent
<1>4. RowTypes' /\ VaultSolvent' /\ HoldingsAgree'
  BY <1>2, <1>3 DEF VaultInv, RowsInv, RowTypes, VaultSolvent, HoldingsAgree
<1>5. ChainRead'
  <2>1. wiping' \in SUBSET Stakers
    BY DEF liquidated_vaults, VaultInv, ChainRead
  <2>2. vaultCalls' \in 0 .. MaxVaultCalls
    BY DEF liquidated_vaults, VaultInv, ChainRead
  <2> QED
    BY <1>2, <2>1, <2>2 DEF VaultInv, ChainRead
<1> QED
  BY <1>1, <1>2, <1>4, <1>5, MoneySame, RequestsSame DEF VaultInv, RowsInv

LEMMA OtherVaultSteps ==
    ASSUME VaultInv,
           \/ ReactivateVault
              /\ UNCHANGED <<profit, mined, vaultLocks, vaultRequest, vaultCalls, staking, wiping, liquidated>>
           \/ /\ \E t \in StakeTxs : DropStake(t)
              /\ UNCHANGED <<profit, mined, vaultLocks, vaultRequest, vaultCalls, staking, wiping, liquidated>>
           \/ /\ \E t \in StakeTxs : MineStake(t)
              /\ UNCHANGED <<vaultRows, profit, vaultLocks, vaultRequest, vaultCalls, staking, wiping, liquidated>>
           \/ VaultProfit
              /\ UNCHANGED <<vaultRows, mined, vaultLocks, vaultRequest, staking, wiping, liquidated>>
           \/ UNCHANGED vaultVars
    PROVE  VaultInv' /\ SettledKept
<1> USE VaultsAssumption
<1>1. /\ unstake' = unstake /\ money' = money /\ credited' = credited /\ holding' = holding
      /\ sharesIssued' = sharesIssued /\ liquidated' = liquidated /\ vaultRequest' = vaultRequest
      /\ staking' = staking /\ wiping' = wiping
  BY DEF ReactivateVault, DropStake, MineStake, VaultProfit, vaultRows, vaultVars
<1>2. RequestsFit'
  BY <1>1 DEF VaultInv, RequestsFit, ArgFits
<1>3. vault' \in [status : {"active", "suspended"}, shares : Nat]
  BY DEF ReactivateVault, DropStake, MineStake, VaultProfit, vaultRows, vaultVars, VaultInv, RowsInv, RowTypes
<1>4. stakeRow' \in [StakeTxs -> {"none", "pending", "canceled", "success"}]
  BY DEF ReactivateVault, DropStake, MineStake, VaultProfit, vaultRows, vaultVars, VaultInv, RowsInv, RowTypes
<1>5. RowTypes' /\ VaultSolvent'
  BY <1>1, <1>3, <1>4 DEF VaultInv, RowsInv, RowTypes, VaultSolvent
<1>6. /\ mined' \in SUBSET StakeTxs /\ mined \subseteq mined'
      /\ profit' \in Profits /\ vaultCalls' \in 0 .. MaxVaultCalls
  BY DEF ReactivateVault, DropStake, MineStake, VaultProfit, vaultRows, vaultVars, VaultInv, ChainRead
<1>7. ChainRead'
  BY <1>1, <1>6 DEF VaultInv, ChainRead
<1> QED
  BY <1>1, <1>2, <1>5, <1>7, MoneySame, HoldingsSame, RequestsSame DEF VaultInv, RowsInv

LEMMA VaultStep ==
    ASSUME VaultInv, [VaultNext]_vaultVars
    PROVE  VaultInv' /\ SettledKept
<1>1. CASE VaultApi /\ UNCHANGED <<profit, mined, staking, wiping, liquidated>>
  <2>1. PICK r \in VaultRequests :
           \/ HandleStake(r) \/ HandleStakeFromBalance(r)
           \/ BeginUnstake(r) \/ CancelUnstake(r) \/ ProcessUnstakes(r)
           \/ Release(r)
    BY <1>1 DEF VaultApi
  <2>2. HandlerKept
    BY <1>1, <2>1, HandleStakeKept, HandleStakeFromBalanceKept, UnstakeHandlersKept,
       ProcessUnstakesKept, ReleaseKept
  <2>3. ChainRead'
    BY <1>1, <2>2 DEF HandlerKept, VaultInv, ChainRead
  <2> QED
    BY <2>2, <2>3 DEF HandlerKept, VaultInv
<1>2. CASE stakeHandler
           /\ UNCHANGED <<profit, mined, vaultLocks, vaultRequest, vaultCalls, wiping, liquidated>>
  BY <1>2, StakeHandlerKept
<1>3. CASE liquidated_vaults /\ UNCHANGED <<profit, mined, vaultLocks, vaultRequest, staking>>
  BY <1>3, LiquidatedKept
<1>4. CASE ~(\/ VaultApi /\ UNCHANGED <<profit, mined, staking, wiping, liquidated>>
             \/ stakeHandler
                /\ UNCHANGED <<profit, mined, vaultLocks, vaultRequest, vaultCalls, wiping, liquidated>>
             \/ liquidated_vaults /\ UNCHANGED <<profit, mined, vaultLocks, vaultRequest, staking>>)
  BY <1>4, OtherVaultSteps DEF VaultNext
<1> QED
  BY <1>1, <1>2, <1>3, <1>4

(* The vault's money, shares and requests agree for any stakers, events,   *)
(* requests and profits, whatever the handlers read before their           *)
(* transactions (process_stake, process_unstakes).                         *)
THEOREM VaultAccountsAgree == VaultSpec => VaultAccounts
<1>1. VaultInit => VaultInv
  BY VaultInitHolds
<1>2. VaultInv /\ [VaultNext]_vaultVars => VaultInv'
  BY VaultStep
<1>3. VaultInv => VaultTypeOK /\ StakedMoneyConserved /\ HoldingsAgree /\ VaultSolvent
  BY DEF VaultInv, RowsInv, RowTypes, ChainRead, VaultTypeOK
<1>4. VaultInv /\ [VaultNext]_vaultVars =>
        \A n \in Unstakes : (unstake[n] # NoRow /\ ~ Requested(n)) => unstake'[n] = unstake[n]
  BY VaultStep DEF SettledKept
<1> QED
  BY <1>1, <1>2, <1>3, <1>4, PTL DEF VaultSpec, VaultAccounts, UnstakeSettledOnce

-------------------------------------------------------------------------------
(* Funding.                                                                *)

(* Payments that cancel out.                                               *)
FairPayments ==
    {f \in UNION {[S -> Int] : S \in SUBSET FundingProfiles} : PaymentSum(f) = 0}

FundingPlaces == {"market", "meta", "positions", "pay"}

FundingTypes ==
    /\ fundingRate \in [FundedMarkets -> Int]
    /\ fundingTime \in [FundedMarkets -> 0 .. MaxFundings]
    /\ lastUpdate \in [FundedMarkets -> 0 .. MaxFundings]
    /\ exposure \in [FundedMarkets -> [FundingProfiles -> Int]]
    /\ fundingPaid \in [FundedMarkets -> [1 .. MaxFundings -> Seq(FairPayments)]]
    /\ DOMAIN fundingCall = FundingServices

(* What a trade takes from one position it gives to another.               *)
PositionsBalance == \A m \in FundedMarkets : SumFunctionOnSet(exposure[m], FundingProfiles) = 0

CallT == [at : 0 .. Len(FundingMarkets), pc : FundingPlaces, rate : Int, time : 0 .. MaxFundings,
          payments : UNION {[S -> Int] : S \in SUBSET FundingProfiles}]

(* A funding with a payment is not later than the last update, and the     *)
(* service is about to pay one that is.                                    *)
CallFits(s) ==
    LET c == fundingCall[s]
    IN  /\ c \in CallT /\ (c.at = 0 => c.pc = "market")
        /\ c.at > 0 /\ c.pc \in {"positions", "pay"} => c.time > lastUpdate[FundingMarket(s)]
        /\ c.at > 0 /\ c.pc = "pay" => c.payments \in FairPayments

PaidBefore ==
    \A m \in FundedMarkets : \A t \in 1 .. MaxFundings :
        /\ Len(fundingPaid[m][t]) <= 1
        /\ fundingPaid[m][t] # <<>> => t <= lastUpdate[m]

FundingInv ==
    /\ FundingTypes /\ PositionsBalance /\ PaidBefore
    /\ \A s \in FundingServices : CallFits(s)

(* The deployed service is the only one.                                   *)
OneService == \A s, u \in FundingServices : s = u

LEMMA MarketInLoop ==
    ASSUME NEW i \in 1 .. Len(FundingMarkets)
    PROVE  FundingMarkets[i] \in FundedMarkets
<1>1. FundingMarkets \in Seq(FundedMarkets)
  BY FundingAssumption DEF FundedMarkets
<1> QED
  BY <1>1

LEMMA LoopLength == Len(FundingMarkets) \in Nat \ {0}
<1>1. FundingMarkets \in Seq(FundedMarkets) \ {<<>>}
  BY FundingAssumption DEF FundedMarkets
<1> QED
  BY <1>1

LEMMA NextMarketFits ==
    ASSUME NEW c \in CallT
    PROVE  NextMarket(c) \in CallT /\ NextMarket(c).pc = "market"
<1>1. Len(FundingMarkets) \in Nat
  BY LoopLength
<1>2. c.at \in 0 .. Len(FundingMarkets)
  BY DEF CallT
<1>3. (IF c.at < Len(FundingMarkets) THEN c.at + 1 ELSE 0) \in 0 .. Len(FundingMarkets)
  BY <1>1, <1>2
<1> QED
  BY <1>3 DEF NextMarket, CallT, FundingPlaces

LEMMA NoFundingFits == NoFunding \in CallT
<1>1. <<>> \in [{} -> Int]
  BY DEF NoFunding
<1>2. <<>> \in UNION {[S -> Int] : S \in SUBSET FundingProfiles}
  BY <1>1
<1>3. 0 \in 0 .. Len(FundingMarkets) /\ 0 \in 0 .. MaxFundings
  BY LoopLength, FundingAssumption
<1> QED
  BY <1>2, <1>3 DEF NoFunding, CallT, FundingPlaces

LEMMA FundingInitHolds == FundingInit => FundingInv
<1> SUFFICES ASSUME FundingInit PROVE FundingInv
  OBVIOUS
<1>1. FundingTypes
  BY FundingAssumption DEF FundingInit, FundingTypes
<1>2. PositionsBalance
  BY FundingAssumption, SumZero DEF FundingInit, PositionsBalance
<1>3. PaidBefore
  BY DEF FundingInit, PaidBefore
<1>4. ASSUME NEW s \in FundingServices PROVE CallFits(s)
  <2>1. fundingCall[s] = NoFunding
    BY DEF FundingInit
  <2> QED
    BY <2>1, NoFundingFits DEF CallFits, NoFunding
<1> QED
  BY <1>1, <1>2, <1>3, <1>4 DEF FundingInv

(* A trade leaves the sum of the positions at zero.                        *)
LEMMA TradeBalances ==
    ASSUME NEW f \in [FundingProfiles -> Int], NEW b \in FundingProfiles, NEW s \in FundingProfiles, b # s
    PROVE  SumFunctionOnSet([f EXCEPT ![b] = @ + 1, ![s] = @ - 1], FundingProfiles)
               = SumFunctionOnSet(f, FundingProfiles)
<1> DEFINE g == [f EXCEPT ![b] = @ + 1]
           h == [g EXCEPT ![s] = @ - 1]
<1>1. IsFiniteSet(FundingProfiles)
  BY FundingAssumption
<1>2. \A x \in FundingProfiles : f[x] \in Int /\ g[x] \in Int /\ h[x] \in Int
  OBVIOUS
<1>3. SumFunctionOnSet(g, FundingProfiles) = SumFunctionOnSet(f, FundingProfiles) - f[b] + g[b]
  <2>1. \A x \in FundingProfiles \ {b} : f[x] = g[x]
    OBVIOUS
  <2> HIDE DEF g, h
  <2> QED
    BY <1>1, <1>2, <2>1, SumChange
<1>4. SumFunctionOnSet(h, FundingProfiles) = SumFunctionOnSet(g, FundingProfiles) - g[s] + h[s]
  <2>1. \A x \in FundingProfiles \ {s} : g[x] = h[x]
    OBVIOUS
  <2> HIDE DEF g, h
  <2> QED
    BY <1>1, <1>2, <2>1, SumChange
<1>5. g[b] = f[b] + 1 /\ h[s] = g[s] - 1
  OBVIOUS
<1>6. SumFunctionOnSet(f, FundingProfiles) \in Int /\ f[b] \in Int /\ g[s] \in Int
  BY <1>1, <1>2, SumType
<1>7. h = [f EXCEPT ![b] = @ + 1, ![s] = @ - 1]
  OBVIOUS
<1> HIDE DEF g, h
<1> QED
  BY <1>3, <1>4, <1>5, <1>6, <1>7

LEMMA LimitType == ASSUME NEW r \in Int PROVE limit(r) \in Int
  BY FundingAssumption DEF limit

(* Every sum of payments is the limited rate times the sum of all          *)
(* positions, and so is zero.                                              *)
LEMMA PaymentsFair ==
    ASSUME NEW s \in FundingServices, NEW m \in FundedMarkets, FundingInv
    PROVE  Payments(s, m) \in FairPayments
<1> DEFINE f == exposure[m]
           c == limit(fundingCall[s].rate)
           S == {q \in FundingProfiles : exposure[m][q] # 0}
           p == Payments(s, m)
           g == [q \in FundingProfiles |-> -(f[q] * c)]
<1>1. f \in [FundingProfiles -> Int] /\ c \in Int
  BY LimitType DEF FundingInv, FundingTypes, CallFits, CallT
<1>2. SumFunctionOnSet(f, FundingProfiles) = 0
  BY DEF FundingInv, PositionsBalance
<1>3. IsFiniteSet(FundingProfiles) /\ S \in SUBSET FundingProfiles /\ IsFiniteSet(S)
  BY FundingAssumption, FS_Subset
<1>4. p = [q \in S |-> -(f[q] * c)]
  BY DEF Payments
<1>5. \A q \in FundingProfiles : f[q] \in Int /\ f[q] * c \in Int /\ g[q] \in Int
  BY <1>1
<1>6. p \in [S -> Int]
  BY <1>3, <1>4, <1>5
<1>7. SumFunctionOnSet(g, FundingProfiles) = 0
  <2>1. \A q \in FundingProfiles : f[q] \in Int /\ g[q] = -(f[q] * c)
    BY <1>5
  <2>2. SumFunctionOnSet(g, FundingProfiles) = -(SumFunctionOnSet(f, FundingProfiles) * c)
    <3> HIDE DEF f, g, c
    <3> QED
      BY <1>1, <1>3, <2>1, SumTimes
  <2> QED
    BY <1>1, <1>2, <2>2
<1>8. \A q \in FundingProfiles \ S : g[q] = 0
  BY <1>1
<1>9. SumFunctionOnSet(g, FundingProfiles) = SumFunctionOnSet(g, S) + SumFunctionOnSet(g, FundingProfiles \ S)
  <2> HIDE DEF g, S
  <2> QED
    BY <1>3, <1>5, SumParts
<1>10. SumFunctionOnSet(g, FundingProfiles \ S) = 0 /\ SumFunctionOnSet(g, S) \in Int
  <2>1. IsFiniteSet(FundingProfiles \ S)
    BY <1>3, FS_Subset
  <2>2. \A q \in S : g[q] \in Int
    BY <1>3, <1>5
  <2> HIDE DEF g, S
  <2> QED
    BY <1>3, <1>8, <2>1, <2>2, SumZero, SumType
<1>11. SumFunctionOnSet(p, S) = SumFunctionOnSet(g, S)
  <2>1. \A q \in S : p[q] = g[q]
    BY <1>3, <1>4
  <2> HIDE DEF g, S, p
  <2> QED
    BY <1>3, <2>1, SumSame
<1>12. DOMAIN p = S
  BY <1>4
<1>13. PaymentSum(p) = 0
  <2> HIDE DEF g, S, p
  <2> QED
    BY <1>7, <1>9, <1>10, <1>11, <1>12 DEF PaymentSum
<1> HIDE DEF p, S
<1> QED
  BY <1>3, <1>6, <1>13 DEF FairPayments, p

(* The call of a service, when the others change nothing that it depends   *)
(* on.                                                                     *)
LEMMA CallsMove ==
    ASSUME FundingInv, NEW s \in FundingServices, NEW d \in CallT,
           fundingCall' = [fundingCall EXCEPT ![s] = d], UNCHANGED lastUpdate,
           d.at = 0 => d.pc = "market",
           d.at > 0 /\ d.pc \in {"positions", "pay"} => d.time > lastUpdate[FundingMarkets[d.at]],
           d.at > 0 /\ d.pc = "pay" => d.payments \in FairPayments
    PROVE  DOMAIN fundingCall' = FundingServices /\ \A u \in FundingServices : CallFits(u)'
<1>1. DOMAIN fundingCall' = FundingServices /\ fundingCall'[s] = d
      /\ \A u \in FundingServices \ {s} : fundingCall'[u] = fundingCall[u]
  BY DEF FundingInv, FundingTypes
<1>2. ASSUME NEW u \in FundingServices PROVE CallFits(u)'
  <2>1. CASE u = s
    BY <1>1, <2>1 DEF CallFits, FundingMarket
  <2>2. CASE u # s
    <3>1. CallFits(u)
      BY DEF FundingInv
    <3> QED
      BY <1>1, <2>2, <3>1 DEF CallFits, FundingMarket
  <2> QED
    BY <2>1, <2>2
<1> QED
  BY <1>1, <1>2

LEMMA CallMarket ==
    ASSUME FundingInv, NEW s \in FundingServices, fundingCall[s].at > 0
    PROVE  FundingMarket(s) \in FundedMarkets /\ fundingCall[s] \in CallT
<1>1. fundingCall[s] \in CallT
  BY DEF FundingInv, CallFits
<1>2. fundingCall[s].at \in 1 .. Len(FundingMarkets)
  BY <1>1, LoopLength DEF CallT
<1> QED
  BY <1>1, <1>2, MarketInLoop DEF FundingMarket

(* The one service reads.                                                  *)
LEMMA ReadsKeep ==
    ASSUME FundingInv, NEW s \in FundingServices,
           ProcessFunding(s) \/ ReadMarket(s) \/ ReadMeta(s) \/ ReadFundingPositions(s)
    PROVE  FundingInv'
<1>1. UNCHANGED <<fundingRate, fundingTime, lastUpdate, exposure, fundingPaid>>
  BY DEF ProcessFunding, ReadMarket, ReadMeta, ReadFundingPositions
<1>2. PICK c : c = fundingCall[s]
  OBVIOUS
<1>3. c \in CallT /\ (c.at = 0 => c.pc = "market") /\ DOMAIN fundingCall = FundingServices
  BY <1>2 DEF FundingInv, CallFits, FundingTypes
<1>4. c.at \in 0 .. Len(FundingMarkets) /\ Len(FundingMarkets) \in Nat \ {0}
  BY <1>3, LoopLength DEF CallT
<1>5. NextMarket(c) \in CallT /\ NextMarket(c).pc = "market"
  BY <1>3, NextMarketFits
<1>6. DOMAIN fundingCall' = FundingServices /\ \A u \in FundingServices : CallFits(u)'
  <2>1. CASE ProcessFunding(s)
    <3>1. fundingCall' = [fundingCall EXCEPT ![s] = [c EXCEPT !.at = 1]] /\ c.at = 0
      BY <1>2, <1>3, <2>1 DEF ProcessFunding
    <3>2. [c EXCEPT !.at = 1] \in CallT /\ [c EXCEPT !.at = 1].pc = "market"
      BY <1>3, <1>4, <3>1 DEF CallT
    <3> QED
      BY <1>1, <3>1, <3>2, CallsMove
  <2>2. CASE ReadMarket(s)
    <3>1. PICK m \in FundedMarkets : m = FundingMarket(s)
      BY <2>2, CallMarket DEF ReadMarket, FundingCalls
    <3>2. PICK d : d = [c EXCEPT !.pc = "meta", !.rate = fundingRate[m], !.time = fundingTime[m]]
      OBVIOUS
    <3>3. fundingCall' = [fundingCall EXCEPT ![s] = d]
      BY <1>2, <1>3, <2>2, <3>1, <3>2 DEF ReadMarket
    <3>4. fundingRate[m] \in Int /\ fundingTime[m] \in 0 .. MaxFundings
      BY DEF FundingInv, FundingTypes
    <3>5. d \in CallT /\ d.pc = "meta" /\ d.at = c.at /\ c.at > 0
      BY <1>2, <1>3, <2>2, <3>2, <3>4 DEF CallT, FundingPlaces, ReadMarket, FundingCalls
    <3>6. d.at # 0
      BY <1>4, <3>5
    <3> QED
      BY <1>1, <3>3, <3>5, <3>6, CallsMove
  <2>3. CASE ReadMeta(s)
    <3>1. c.at > 0
      BY <1>2, <2>3 DEF ReadMeta, FundingCalls
    <3>2. CASE PeriodDue(FundingMarket(s), c)
      <4>1. PICK d : d = [c EXCEPT !.pc = "positions"]
        OBVIOUS
      <4>2. fundingCall' = [fundingCall EXCEPT ![s] = d]
        BY <1>2, <1>3, <2>3, <3>2, <4>1 DEF ReadMeta
      <4>3. d \in CallT /\ d.pc = "positions" /\ d.at = c.at /\ d.time = c.time /\ d.at # 0
        BY <1>3, <1>4, <3>1, <4>1 DEF CallT, FundingPlaces
      <4>4. d.time > lastUpdate[FundingMarkets[d.at]]
        BY <1>2, <3>2, <4>3 DEF PeriodDue, FundingMarket
      <4> QED
        BY <1>1, <4>2, <4>3, <4>4, CallsMove
    <3>3. CASE ~PeriodDue(FundingMarket(s), c)
      <4>1. fundingCall' = [fundingCall EXCEPT ![s] = NextMarket(c)]
        BY <1>2, <1>3, <2>3, <3>3 DEF ReadMeta
      <4> QED
        BY <1>1, <1>5, <4>1, CallsMove
    <3> QED
      BY <3>2, <3>3
  <2>4. CASE ReadFundingPositions(s)
    <3>1. PICK m \in FundedMarkets : m = FundingMarket(s)
      BY <2>4, CallMarket DEF ReadFundingPositions, FundingCalls
    <3>2. PICK p \in FairPayments : p = Payments(s, m)
      BY PaymentsFair
    <3>3. PICK e : e = [c EXCEPT !.payments = p]
      OBVIOUS
    <3>4. e \in CallT /\ e.at = c.at /\ e.time = c.time /\ e.payments = p
      BY <1>3, <3>2, <3>3 DEF CallT, FairPayments
    <3>5. c.at > 0 /\ c.pc = "positions" /\ c.time > lastUpdate[FundingMarkets[c.at]]
      BY <1>2, <2>4 DEF ReadFundingPositions, FundingCalls, FundingInv, CallFits, FundingMarket
    <3>6. fundingCall' = [fundingCall EXCEPT ![s] =
             IF DOMAIN p = {} THEN NextMarket(e) ELSE [e EXCEPT !.pc = "pay"]]
      BY <1>2, <2>4, <3>1, <3>2, <3>3 DEF ReadFundingPositions
    <3>7. CASE DOMAIN p = {}
      <4>1. NextMarket(e) \in CallT /\ NextMarket(e).pc = "market"
        BY <3>4, NextMarketFits
      <4> QED
        BY <1>1, <3>6, <3>7, <4>1, CallsMove
    <3>8. CASE DOMAIN p # {}
      <4>1. PICK d : d = [e EXCEPT !.pc = "pay"]
        OBVIOUS
      <4>2. d \in CallT /\ d.pc = "pay" /\ d.at = c.at /\ d.time = c.time /\ d.payments = p /\ d.at # 0
        BY <1>4, <3>4, <3>5, <4>1 DEF CallT, FundingPlaces
      <4>3. fundingCall' = [fundingCall EXCEPT ![s] = d]
        BY <3>6, <3>8, <4>1
      <4>4. d.time > lastUpdate[FundingMarkets[d.at]] /\ d.payments \in FairPayments
        BY <3>2, <3>5, <4>2
      <4> QED
        BY <1>1, <4>2, <4>3, <4>4, CallsMove
    <3> QED
      BY <3>7, <3>8
  <2> QED
    BY <2>1, <2>2, <2>3, <2>4
<1> QED
  BY <1>1, <1>6 DEF FundingInv, FundingTypes, PositionsBalance, PaidBefore

(* The payment of a market, by the only service.                           *)
LEMMA PayingKeeps ==
    ASSUME FundingInv, OneService, NEW s \in FundingServices, FundingCalls(s, "pay"), Paying(s),
           NEW d \in CallT, d.pc = "market", fundingCall' = [fundingCall EXCEPT ![s] = d],
           UNCHANGED <<fundingRate, fundingTime, exposure>>
    PROVE  FundingInv'
<1>1. PICK m \in FundedMarkets : m = FundingMarket(s)
  BY CallMarket DEF FundingCalls
<1>2. PICK c \in CallT : c = fundingCall[s]
  BY CallMarket DEF FundingCalls
<1>3. /\ c.time \in 0 .. MaxFundings /\ c.time > lastUpdate[m] /\ c.payments \in FairPayments
      /\ lastUpdate[m] \in 0 .. MaxFundings
  BY <1>1, <1>2 DEF FundingInv, CallFits, FundingCalls, CallT, FundingTypes
<1>4. PICK t \in 1 .. MaxFundings : t = c.time
  BY <1>3
<1>5. PICK row \in [1 .. MaxFundings -> Seq(FairPayments)] : row = fundingPaid[m]
  BY DEF FundingInv, FundingTypes
<1>6. row[t] = <<>>
  BY <1>3, <1>4, <1>5 DEF FundingInv, PaidBefore
<1>7. PICK newRow : newRow = [row EXCEPT ![t] = <<c.payments>>]
  OBVIOUS
<1>8. newRow \in [1 .. MaxFundings -> Seq(FairPayments)]
  <2>1. <<c.payments>> \in Seq(FairPayments)
    BY <1>3
  <2> QED
    BY <1>7, <2>1
<1>9. fundingPaid' = [fundingPaid EXCEPT ![m] = newRow]
  <2>1. Append(row[t], c.payments) = <<c.payments>>
    BY <1>6
  <2> QED
    BY <1>1, <1>2, <1>4, <1>5, <1>7, <2>1 DEF Paying, FundingInv, FundingTypes
<1>10. lastUpdate' = [lastUpdate EXCEPT ![m] = t]
  BY <1>1, <1>2, <1>4 DEF Paying, TimeOfMeta
<1>11. /\ fundingPaid' \in [FundedMarkets -> [1 .. MaxFundings -> Seq(FairPayments)]]
       /\ fundingPaid'[m] = newRow /\ \A n \in FundedMarkets \ {m} : fundingPaid'[n] = fundingPaid[n]
       /\ lastUpdate' \in [FundedMarkets -> 0 .. MaxFundings]
       /\ lastUpdate'[m] = t /\ \A n \in FundedMarkets \ {m} : lastUpdate'[n] = lastUpdate[n]
  BY <1>8, <1>9, <1>10 DEF FundingInv, FundingTypes
<1>12. PaidBefore'
  <2> SUFFICES ASSUME NEW n \in FundedMarkets, NEW u \in 1 .. MaxFundings
               PROVE  Len(fundingPaid'[n][u]) <= 1 /\ (fundingPaid'[n][u] # <<>> => u <= lastUpdate'[n])
    BY DEF PaidBefore
  <2>1. Len(fundingPaid[n][u]) <= 1 /\ (fundingPaid[n][u] # <<>> => u <= lastUpdate[n])
    BY DEF FundingInv, PaidBefore
  <2>2. CASE n # m
    BY <1>11, <2>1, <2>2
  <2>3. CASE n = m /\ u = t
    <3>1. fundingPaid'[n][u] = <<c.payments>> /\ lastUpdate'[n] = t
      BY <1>5, <1>7, <1>11, <2>3
    <3> QED
      BY <2>3, <3>1
  <2>4. CASE n = m /\ u # t
    <3>1. fundingPaid'[n][u] = fundingPaid[n][u] /\ lastUpdate'[n] = t
      BY <1>5, <1>7, <1>11, <2>4
    <3>2. lastUpdate[n] < t /\ lastUpdate[n] \in Int
      BY <1>3, <1>4, <2>4
    <3> QED
      BY <2>1, <3>1, <3>2
  <2> QED
    BY <2>2, <2>3, <2>4
<1>13. DOMAIN fundingCall' = FundingServices /\ fundingCall'[s] = d
  BY DEF FundingInv, FundingTypes
<1>14. ASSUME NEW u \in FundingServices PROVE CallFits(u)'
  <2>1. u = s
    BY DEF OneService
  <2> QED
    BY <1>13, <2>1 DEF CallFits
<1> QED
  BY <1>11, <1>12, <1>13, <1>14 DEF FundingInv, FundingTypes, PositionsBalance

(* What the engine does leaves the rest alone.                             *)
LEMMA EngineFundingKeeps ==
    ASSUME FundingInv, NEW m \in FundedMarkets,
           \/ \E b, s \in FundingProfiles : FundingTrade(m, b, s)
           \/ \E rate \in FundingRates : update_funding(m, rate)
    PROVE  FundingInv'
<1>1. UNCHANGED <<lastUpdate, fundingCall, fundingPaid>>
  BY DEF FundingTrade, update_funding
<1>2. \A u \in FundingServices : CallFits(u)'
  BY <1>1 DEF FundingInv, CallFits, FundingMarket
<1>3. PaidBefore'
  BY <1>1 DEF FundingInv, PaidBefore
<1>4. ASSUME NEW b \in FundingProfiles, NEW s \in FundingProfiles, FundingTrade(m, b, s) PROVE FundingInv'
  <2>1. PICK f \in [FundingProfiles -> Int] : f = exposure[m]
    BY DEF FundingInv, FundingTypes
  <2>2. PICK g : g = [f EXCEPT ![b] = @ + 1, ![s] = @ - 1]
    OBVIOUS
  <2>3. b # s /\ exposure' = [exposure EXCEPT ![m] = g]
    BY <1>4, <2>1, <2>2 DEF FundingTrade, FundingInv, FundingTypes
  <2>4. SumFunctionOnSet(g, FundingProfiles) = 0
    BY <2>1, <2>2, <2>3, TradeBalances DEF FundingInv, PositionsBalance
  <2>5. g \in [FundingProfiles -> Int]
    BY <2>2
  <2>6. exposure' \in [FundedMarkets -> [FundingProfiles -> Int]] /\ PositionsBalance'
    BY <2>3, <2>4, <2>5 DEF FundingInv, FundingTypes, PositionsBalance
  <2> QED
    BY <1>1, <1>2, <1>3, <1>4, <2>6 DEF FundingInv, FundingTypes, FundingTrade
<1>5. ASSUME NEW rate \in FundingRates, update_funding(m, rate) PROVE FundingInv'
  <2>1. fundingTime[m] \in 0 .. MaxFundings /\ fundingTime[m] < MaxFundings /\ MaxFundings \in Nat /\ rate \in Int
    BY <1>5, FundingAssumption DEF FundingInv, FundingTypes, update_funding
  <2>2. fundingTime' \in [FundedMarkets -> 0 .. MaxFundings] /\ fundingRate' \in [FundedMarkets -> Int]
    BY <1>5, <2>1 DEF FundingInv, FundingTypes, update_funding
  <2>3. exposure' = exposure
    BY <1>5 DEF update_funding
  <2> QED
    BY <1>1, <1>2, <1>3, <2>2, <2>3 DEF FundingInv, FundingTypes, PositionsBalance
<1> QED
  BY <1>4, <1>5

(* A call fails or the process is started again.                           *)
LEMMA FailuresKeep ==
    ASSUME FundingInv, OneService, NEW s \in FundingServices, FundingCallFails(s) \/ FundingRestart(s)
    PROVE  FundingInv'
<1>1. UNCHANGED <<fundingRate, fundingTime, exposure>>
  BY DEF FundingCallFails, FundingRestart
<1>2. PICK c : c = fundingCall[s]
  OBVIOUS
<1>3. c \in CallT /\ DOMAIN fundingCall = FundingServices
  BY <1>2 DEF FundingInv, CallFits, FundingTypes
<1>4. PICK d \in CallT : d.pc = "market" /\ fundingCall' = [fundingCall EXCEPT ![s] = d]
  <2>1. CASE FundingRestart(s)
    BY <2>1, NoFundingFits DEF FundingRestart, NoFunding
  <2>2. CASE FundingCallFails(s)
    <3>1. NextMarket(c) \in CallT /\ NextMarket(c).pc = "market"
      BY <1>3, NextMarketFits
    <3>2. [c EXCEPT !.at = 0, !.pc = "market"] \in CallT /\ [c EXCEPT !.at = 0, !.pc = "market"].pc = "market"
      <4>1. 0 \in 0 .. Len(FundingMarkets) /\ "market" \in FundingPlaces
        BY LoopLength DEF FundingPlaces
      <4> QED
        BY <1>3, <4>1 DEF CallT
    <3>3. fundingCall' = [fundingCall EXCEPT ![s] =
             IF c.pc \in {"market", "meta"} THEN NextMarket(c) ELSE [c EXCEPT !.at = 0, !.pc = "market"]]
      BY <1>2, <1>3, <2>2 DEF FundingCallFails
    <3> QED
      BY <3>1, <3>2, <3>3
  <2> QED
    BY <2>1, <2>2
<1>5. CASE UNCHANGED <<fundingPaid, lastUpdate>>
  <2>1. DOMAIN fundingCall' = FundingServices /\ \A u \in FundingServices : CallFits(u)'
    BY <1>4, <1>5, CallsMove
  <2> QED
    BY <1>1, <1>5, <2>1 DEF FundingInv, FundingTypes, PositionsBalance, PaidBefore
<1>6. CASE FundingCalls(s, "pay") /\ Paying(s)
  BY <1>1, <1>4, <1>6, PayingKeeps
<1> QED
  BY <1>5, <1>6 DEF FundingCallFails, FundingRestart, FundingCalls

(* One service pays a funding at most once, although it pays in another    *)
(* call than it asks, calls fail whose effect is there and the process is  *)
(* started again; and what the longs pay is what the shorts get, although  *)
(* trades change the positions meanwhile (ProcessFunding).                 *)
THEOREM FundingNeverTwice ==
    ASSUME OneService
    PROVE  FundingSpec => [](\A m \in FundedMarkets : FundingPaidOnce(m))
<1>1. FundingInv /\ [FundingNext]_fundingVars => FundingInv'
  <2> SUFFICES ASSUME FundingInv, [FundingNext]_fundingVars PROVE FundingInv'
    OBVIOUS
  <2>1. CASE UNCHANGED fundingVars
    BY <2>1 DEF fundingVars, FundingInv, FundingTypes, PositionsBalance, PaidBefore, CallFits, FundingMarket
  <2>2. ASSUME NEW s \in FundingServices, PayFunding(s) PROVE FundingInv'
    <3>1. fundingCall[s] \in CallT
      BY <2>2 DEF FundingInv, CallFits
    <3>2. PICK d \in CallT : d.pc = "market" /\ fundingCall' = [fundingCall EXCEPT ![s] = d]
      BY <2>2, <3>1, NextMarketFits DEF PayFunding
    <3> QED
      BY <2>2, <3>2, PayingKeeps DEF PayFunding
  <2> QED
    BY <2>1, <2>2, ReadsKeep, EngineFundingKeeps, FailuresKeep DEF FundingNext, FundingServiceStep
<1>2. FundingInv => \A m \in FundedMarkets : FundingPaidOnce(m)
  <2> SUFFICES ASSUME FundingInv, NEW m \in FundedMarkets, NEW t \in 1 .. MaxFundings
               PROVE  /\ Len(PaymentsOf(m, t)) <= 1
                      /\ \A k \in DOMAIN PaymentsOf(m, t) : PaymentSum(PaymentsOf(m, t)[k]) = 0
    BY DEF FundingPaidOnce
  <2>1. PaymentsOf(m, t) \in Seq(FairPayments)
    BY DEF PaymentsOf, FundingInv, FundingTypes
  <2> QED
    BY <2>1 DEF FairPayments, FundingInv, PaidBefore, PaymentsOf
<1> QED
  BY <1>1, <1>2, FundingInitHolds, PTL DEF FundingSpec

===============================================================================
