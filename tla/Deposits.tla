-------------------------------- MODULE Deposits --------------------------------
(***************************************************************************)
(* Deposits from the chain.                                                *)
(*                                                                         *)
(* A client announces its transaction (HandleDeposit) and the settlement   *)
(* service scans the chain for the events of the exchange contract and of  *)
(* the pool contract (processDepositsAndStaking), from the block it stored *)
(* last, in ranges of confirmed blocks.  The event of a wallet without a   *)
(* profile is kept as an unknown deposit until the profile is created.     *)
(* Rows that a client announced and the chain does not know are canceled.  *)
(*                                                                         *)
(* The scan is one goroutine; it may die at any point and start again from *)
(* what is stored, and any of its calls may fail.                          *)
(***************************************************************************)
EXTENDS Integers, FiniteSets, FiniteSetsExt

CONSTANTS
    Wallets,          \* wallets that deposit
    Events,           \* Deposit events of the contracts, numbered in the order of their logs
    EventOf,          \* their [wallet, tx, block, amount, pooled]
    DepositTxs,       \* the transactions
    DefaultFrom,      \* DefaultFromBlock
    DepositConfirmations,  \* ConfirmationBlocks
    RangeBlocks,      \* MAX_BLOCKS
    ChainEnd,         \* bound: blocks of the chain
    MaxDepositFaults  \* bound: failing calls and restarts

ASSUME DepositsAssumption ==
    /\ Events \subseteq Nat
    /\ EventOf \in [Events -> [wallet : Wallets, tx : DepositTxs, block : Nat \ {0},
                               amount : Nat \ {0}, pooled : BOOLEAN]]
    /\ \A d, e \in Events : \* "For normal deposits there is only one deposit per tx"
           d # e /\ EventOf[d].tx = EventOf[e].tx => EventOf[d].pooled /\ EventOf[e].pooled
    /\ DefaultFrom \in Nat /\ DepositConfirmations \in Nat \ {0}
    /\ RangeBlocks \in Nat /\ ChainEnd \in Nat /\ MaxDepositFaults \in Nat
    /\ \A d \in Events : EventOf[d].block > DefaultFrom

VARIABLES
    profiles,     \* wallets with a profile
    resolving,    \* unknown rows resolve_all_unknown has still to visit
    clientRow,    \* status of the row create_deposit made for a transaction
    eventRow,     \* status of the row with the event's ops_id2
    credit,       \* what deposits added to the balance of a wallet's profile
    depositsDone, \* last_processed_block of deposit_and_staking
    depositHead,  \* head of the chain
    depositScan,  \* the goroutine
    failed,       \* events whose lookup or call failed and was only logged
    depositFaults \* failures so far

depositRows == <<clientRow, eventRow, credit>>
depositVars == <<profiles, resolving, depositRows, depositsDone, depositHead,
                 depositScan, failed, depositFaults>>

NoDepositScan == [pc |-> "idle", to |-> 0, todo |-> {}, known |-> FALSE, dropped |-> {}]

DepositInit ==
    /\ profiles = {}
    /\ resolving = [w \in Wallets |-> {}]
    /\ clientRow = [t \in DepositTxs |-> "none"]
    /\ eventRow = [d \in Events |-> "none"]
    /\ credit = [w \in Wallets |-> 0]
    /\ depositsDone = DefaultFrom
    /\ depositHead = DefaultFrom
    /\ depositScan = NoDepositScan
    /\ failed = {}
    /\ depositFaults = 0

-------------------------------------------------------------------------------
(* The calls of the profile instance.                                      *)

(* Bound: one announcement of a transaction.                               *)
Announceable(t) == clientRow[t] = "none"

(* CreateDeposit.  Nothing looks for a row of the transaction: when the    *)
(* event came first the new row stays pending.                             *)
create_deposit(t) ==
    /\ Announceable(t)
    /\ clientRow' = [clientRow EXCEPT ![t] = "pending"]
    /\ UNCHANGED <<eventRow, credit>>

WalletOf(d) == EventOf[d].wallet

AmountOf(d) == EventOf[d].amount

Pay(d) == credit' = [credit EXCEPT ![WalletOf(d)] = @ + AmountOf(d)]

NewEvent(d) == eventRow[d] = "none"

(* process_deposit.  The row of a direct deposit is found by its           *)
(* transaction; a pending or canceled one becomes the row of the event.    *)
process_deposit(d) ==
    LET t == EventOf[d].tx
        adopts == ~ EventOf[d].pooled /\ clientRow[t] \in {"pending", "canceled"}
    IN  IF NewEvent(d)
        THEN /\ eventRow' = [eventRow EXCEPT ![d] = "success"]
             /\ clientRow' = [clientRow EXCEPT ![t] = IF adopts THEN "success" ELSE @]
             /\ Pay(d)
        ELSE UNCHANGED depositRows

process_deposit_unknown(d) ==
    IF NewEvent(d)
    THEN /\ eventRow' = [eventRow EXCEPT ![d] = "unknown"]
         /\ UNCHANGED <<clientRow, credit>>
    ELSE UNCHANGED depositRows

(* Mutant: resolve_unknown does not look at the status.                    *)
ResolvableAlways(d) == TRUE

Resolvable(d) == eventRow[d] = "unknown"

resolve_unknown(d) ==
    IF Resolvable(d)
    THEN eventRow' = [eventRow EXCEPT ![d] = "success"] /\ Pay(d) /\ UNCHANGED clientRow
    ELSE UNCHANGED depositRows

pending_deposit_canceled(t) ==
    IF clientRow[t] = "pending"
    THEN /\ clientRow' = [clientRow EXCEPT ![t] = "canceled"]
         /\ UNCHANGED <<eventRow, credit>>
    ELSE UNCHANGED depositRows

-------------------------------------------------------------------------------
(* The clients.                                                            *)

HandleDeposit(t) ==
    /\ \E d \in Events : EventOf[d].tx = t /\ EventOf[d].wallet \in profiles
    /\ create_deposit(t)

(* profile.create inserts the profile and then selects the unknown rows of *)
(* its wallet; resolve_unknown settles each in a transaction.              *)
CreateProfile(w) ==
    /\ w \notin profiles
    /\ profiles' = profiles \cup {w}
    /\ resolving' = [resolving EXCEPT ![w] =
           {d \in Events : EventOf[d].wallet = w /\ eventRow[d] = "unknown"}]
    /\ UNCHANGED depositRows

resolve_all_unknown(w) ==
    /\ \E d \in resolving[w] :
           /\ resolve_unknown(d)
           /\ resolving' = [resolving EXCEPT ![w] = @ \ {d}]
    /\ UNCHANGED profiles

(* Admin call merge_unknown_ops: every unknown row of a wallet that has a  *)
(* profile by now; each row in a transaction.                              *)
merge_unknown_ops ==
    /\ \E d \in Events : /\ eventRow[d] = "unknown" /\ EventOf[d].wallet \in profiles
                         /\ resolve_unknown(d)
    /\ UNCHANGED <<profiles, resolving>>

-------------------------------------------------------------------------------
(* processDepositsAndStaking, the deposit ticker's goroutine.              *)

ScanTo(pc) == depositScan' = [depositScan EXCEPT !.pc = pc]

DepositFault == depositFaults < MaxDepositFaults /\ depositFaults' = depositFaults + 1

(* ensureConnected and checkLastProcessedBlockNumbers: a stored block that *)
(* cannot be read, or is out of range, is replaced by the default.         *)
checkLastProcessedBlockNumbers ==
    /\ depositScan.pc = "idle" /\ ScanTo("range")
    /\ \/ /\ depositsDone' = IF depositsDone > depositHead \/ depositsDone < DefaultFrom
                              THEN DefaultFrom ELSE depositsDone
          /\ UNCHANGED depositFaults
       \/ DepositFault /\ depositsDone' = DefaultFrom
    /\ UNCHANGED <<depositRows, failed>>

FirstBlock == depositsDone + 1

LastConfirmed == Min({depositHead - DepositConfirmations, FirstBlock + RangeBlocks})

(* getL1BlockNumbers and FilterLogs: the events of the next range.         *)
processDepositEvents ==
    /\ depositScan.pc = "range"
    /\ depositScan' = IF FirstBlock > LastConfirmed
                      THEN [depositScan EXCEPT !.pc = "pending"]
                      ELSE [depositScan EXCEPT !.pc = "event", !.to = LastConfirmed,
                            !.todo = {d \in Events :
                                /\ EventOf[d].block \in FirstBlock .. LastConfirmed
                                /\ EventOf[d].block <= depositHead}]
    /\ UNCHANGED <<depositRows, depositsDone, failed, depositFaults>>

(* depositHandler: which profile has the wallet, then the call.  An error  *)
(* of either is logged, and the event counts as processed.                 *)
depositHandler ==
    /\ depositScan.todo # {}
    /\ UNCHANGED depositsDone
    /\ LET d == Min(depositScan.todo)
           next == [depositScan EXCEPT !.pc = "event", !.todo = @ \ {d}, !.known = FALSE]
       IN  \/ /\ depositScan.pc = "event"
              /\ depositScan' = [depositScan EXCEPT !.pc = "call",
                                                    !.known = EventOf[d].wallet \in profiles]
              /\ UNCHANGED <<depositRows, failed, depositFaults>>
           \/ /\ depositScan.pc = "call"
              /\ IF depositScan.known THEN process_deposit(d) ELSE process_deposit_unknown(d)
              /\ depositScan' = next
              /\ UNCHANGED <<failed, depositFaults>>
           \/ /\ depositScan.pc \in {"event", "call"} /\ DepositFault
              /\ depositScan' = next
              /\ failed' = failed \cup {d}
              /\ UNCHANGED depositRows

(* Mutant: the head of the chain is stored for the end of the range.       *)
StoredHead == depositHead

StoredBlock == depositScan.to

SetLastProcessedBlockNumber ==
    /\ depositScan.pc = "event" /\ depositScan.todo = {}
    /\ depositsDone' = StoredBlock
    /\ ScanTo("range")
    /\ UNCHANGED <<depositRows, failed, depositFaults>>

(* ProcessDroppedDepositsAndStakes: the pending rows are read, and then    *)
(* each one whose transaction the node does not know is canceled.  A node  *)
(* behind the others does not know a transaction that is on the chain.     *)
ProcessDroppedDepositsAndStakes ==
    /\ UNCHANGED <<depositsDone, failed>>
    /\ \/ /\ depositScan.pc = "pending"
          /\ depositScan' = [depositScan EXCEPT !.pc = "drop",
                 !.dropped = {t \in DepositTxs : clientRow[t] = "pending"}]
          /\ UNCHANGED <<depositRows, depositFaults>>
       \/ /\ depositScan.pc = "drop" /\ depositScan.dropped = {}
          /\ ScanTo("idle")
          /\ UNCHANGED <<depositRows, depositFaults>>
       \/ /\ depositScan.pc = "drop"
          /\ \E t \in depositScan.dropped :
                 /\ depositScan' = [depositScan EXCEPT !.dropped = @ \ {t}]
                 /\ \/ UNCHANGED <<depositRows, depositFaults>>
                    \/ /\ \E d \in Events : EventOf[d].tx = t /\ EventOf[d].block > depositHead
                       /\ pending_deposit_canceled(t)
                       /\ UNCHANGED depositFaults
                    \/ pending_deposit_canceled(t) /\ DepositFault

(* FilterLogs fails a second time, another call fails, or the process      *)
(* dies: the tick is over, and the next one starts from what is stored.    *)
EndTick ==
    /\ depositScan.pc # "idle" /\ DepositFault
    /\ depositScan' = NoDepositScan
    /\ UNCHANGED <<depositRows, depositsDone, failed>>

processDepositsAndStaking ==
    \/ checkLastProcessedBlockNumbers \/ processDepositEvents \/ depositHandler
    \/ SetLastProcessedBlockNumber \/ ProcessDroppedDepositsAndStakes

DepositBlock == depositHead < ChainEnd /\ depositHead' = depositHead + 1

DepositNext ==
    \/ /\ \E t \in DepositTxs : HandleDeposit(t)
       /\ UNCHANGED <<profiles, resolving, depositsDone, depositHead, depositScan, failed, depositFaults>>
    \/ /\ \/ \E w \in Wallets : CreateProfile(w) \/ resolve_all_unknown(w)
          \/ merge_unknown_ops
       /\ UNCHANGED <<depositsDone, depositHead, depositScan, failed, depositFaults>>
    \/ (processDepositsAndStaking \/ EndTick) /\ UNCHANGED <<profiles, resolving, depositHead>>
    \/ DepositBlock
       /\ UNCHANGED <<profiles, resolving, depositRows, depositsDone, depositScan, failed, depositFaults>>

(* The ticker runs the goroutine again and again, and the chain goes on.   *)
DepositFairness ==
    /\ WF_depositVars(processDepositsAndStaking /\ UNCHANGED <<profiles, resolving, depositHead>>)
    /\ WF_depositVars(DepositBlock /\ UNCHANGED <<profiles, resolving, depositRows,
                                                 depositsDone, depositScan, failed, depositFaults>>)

DepositSpec == DepositInit /\ [][DepositNext]_depositVars /\ DepositFairness

-------------------------------------------------------------------------------
DepositTypeOK ==
    /\ profiles \subseteq Wallets
    /\ resolving \in [Wallets -> SUBSET Events]
    /\ clientRow \in [DepositTxs -> {"none", "pending", "canceled", "success"}]
    /\ eventRow \in [Events -> {"none", "unknown", "success"}]
    /\ credit \in [Wallets -> Nat]
    /\ depositsDone \in DefaultFrom .. depositHead /\ depositHead \in DefaultFrom .. ChainEnd
    /\ depositScan.todo \subseteq Events /\ depositScan.dropped \subseteq DepositTxs
    /\ failed \subseteq Events /\ depositFaults \in 0 .. MaxDepositFaults

(* Every deposit is paid once, to the profile of its wallet: whatever is   *)
(* announced, dropped, scanned twice after a restart, or resolved by the   *)
(* creation of the profile and by the administrator at the same time.      *)
DepositLedger == INSTANCE PaidOnce WITH
    Items <- Events, Owners <- Wallets,
    Owner <- WalletOf, Amount <- AmountOf,
    settled <- {d \in Events : eventRow[d] = "success"}, account <- credit

DepositsPaidOnce == DepositLedger!PaidSpec

(* The stored block never passes an event that was not recorded, unless a  *)
(* call for that very event failed: no crash, range or restart skips one.  *)
CursorCoversDeposits ==
    \A d \in Events : depositsDone >= EventOf[d].block =>
        eventRow[d] # "none" \/ d \in failed

(* Only confirmed blocks are believed.                                     *)
OnlyConfirmedPaid ==
    \A d \in Events : eventRow[d] # "none" =>
        EventOf[d].block + DepositConfirmations <= depositHead

(* A row that announces a direct deposit is a success only with the event, *)
(* and then stays one: cancel and event may come in either order.          *)
AnnouncedRowFinal ==
    [][\A t \in DepositTxs : clientRow[t] = "success" => clientRow'[t] = "success"]_depositVars

(* Every deposit on the chain is recorded at last, through restarts and    *)
(* resets of the stored block, unless the calls for it failed.             *)
DepositsRecorded ==
    <>[](\A d \in Events : depositHead >= EventOf[d].block + DepositConfirmations
                              => eventRow[d] # "none" \/ d \in failed)

(* The scan leaves out nothing and believes nothing too early, and every   *)
(* deposit is recorded at last (processDepositsAndStaking).                *)
DepositsComplete ==
    /\ [](DepositTypeOK /\ CursorCoversDeposits /\ OnlyConfirmedPaid)
    /\ AnnouncedRowFinal /\ DepositsRecorded

================================================================================
