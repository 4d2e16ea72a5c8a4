------------------------------ MODULE Withdrawals ------------------------------
(***************************************************************************)
(* The life of a withdrawal.                                               *)
(*                                                                         *)
(* Requests of the HTTP API (api/balance.go) create, cancel and claim a    *)
(* withdrawal in several calls to the profile instance (balance.lua) under *)
(* a lock that the instance keeps in a space.  The settlement service      *)
(* (settlement/) gives each withdrawal a due block, makes it claimable,    *)
(* and scans the chain for the receipts of paid withdrawals; a second      *)
(* goroutine of it scans deposits with the same handler.  The contract     *)
(* pays a withdrawal once, against the signature a claim returns.          *)
(*                                                                         *)
(* A call to the instance is one action where it runs in a transaction or  *)
(* touches one row.  update_pending_withdrawals and completed_withdrawals  *)
(* write row after row without a transaction and yield at each write: one  *)
(* action per row.                                                         *)
(***************************************************************************)
EXTENDS Integers, FiniteSets, FiniteSetsExt

CONSTANTS
    Profiles,         \* profiles
    WhiteList,        \* space withdraw_white_list
    Ids,              \* ids of withdrawals; bound: how many are created
    Requests,         \* concurrent API requests, of all API instances
    Funds,            \* balance of each profile at the start, in Int
    Amounts,          \* amounts a client may ask for
    Tick,             \* USDT_TICK, in the units of Funds and Amounts
    Tiers,            \* space wd_tier of the exchange: [min, delay]
    SpecialTiers,     \* space wd_special_tier: [profile, from, to, delay]
    BlockDelay,       \* WithdrawalBlockDelay
    Confirmations,    \* ConfirmationBlocks
    MaxBlocks,        \* MAX_BLOCKS
    MaxVolume,        \* MAX_WITHDRAWAL_18
    Never,            \* BLOCK_NUM_NEVER
    TicksOverlap,     \* may the deposit scan run during a withdrawal tick?
    LastBlock,        \* bound: blocks of the chain
    MaxFaults,        \* bound: failing calls and restarts of the settlement
    MaxLost,          \* bound: API requests cut off before their end
    Nil               \* no withdrawal, no profile

Statuses == {"pending", "claimable", "claiming", "processing", "success", "canceled"}

(* A row of balance_operations of type withdrawal.                         *)
Row == [profile : Profiles, status : Statuses, due : Nat, amount : Nat]

ASSUME WithdrawalsAssumption ==
    /\ WhiteList \subseteq Profiles
    /\ Funds \in [Profiles -> Int]
    /\ Amounts \subseteq Nat \ {0}
    /\ Tick \in Nat \ {0}
    /\ Tiers \subseteq [min : Nat, delay : Nat]
    /\ SpecialTiers \subseteq [profile : Profiles, from : Nat, to : Nat, delay : Nat]
    /\ BlockDelay \in Nat
    /\ Confirmations \in Nat \ {0}
    /\ MaxBlocks \in Nat /\ MaxVolume \in Nat
    /\ LastBlock \in Nat /\ LastBlock >= Confirmations
    /\ Never \in Nat /\ Never > LastBlock
    /\ TicksOverlap \in BOOLEAN
    /\ MaxFaults \in Nat /\ MaxLost \in Nat
    /\ Nil \notin Ids /\ Nil \notin Profiles /\ Nil \notin Row

(* There are finitely many ids.                                            *)
ASSUME IdsFinite == IsFiniteSet(Ids)

VARIABLES
    ops,         \* the rows, Nil where the id is not in use
    balance,     \* space balance_sum
    lock,        \* space withdraw_lock
    rolled,      \* wdm.wds_per_24h; a behaviour lasts less than 24 hours
    onHold,      \* global_settlement_status.withdrawals_suspended
    cursor,      \* last_processed_block of withdraw_and_unstake
    depositCursor, \* last_processed_block of deposit_and_staking
    request,     \* the API requests under way
    tick,        \* the withdrawal goroutine
    scan,        \* the deposit goroutine
    suspended,   \* SettlementService.withdrawalSuspended
    latestBlock, \* EthereumHandler.latestBlock, 0 for nil
    block,       \* head of the chain
    paid,        \* block with the receipt of a withdrawal, 0 for none
    signed,      \* withdrawals whose signature was given to the client
    faults, lost \* failures so far

tables     == <<ops, balance, rolled>>
settings   == <<onHold, cursor, depositCursor>>
service    == <<tick, scan, suspended, latestBlock>>
chain      == <<block, paid>>
vars == <<tables, lock, settings, request, service, chain, signed, faults, lost>>

IdleRequest == [pc |-> "idle", profile |-> Nil, id |-> Nil, seen |-> 0]

RequestT == [pc : {"idle", "check", "cache", "create", "cancel", "claim", "sign",
                   "release"},
             profile : Profiles \cup {Nil}, id : Ids \cup {Nil}, seen : Int]

IdleTick == [pc |-> "idle", current |-> 0, to |-> 0, todo |-> {}]

TickT == [pc : {"idle", "pending", "assign", "mature", "blocks", "receipts", "store"},
          current : Nat, to : Nat, todo : SUBSET Ids]

IdleScan == [pc |-> "idle", to |-> 0]

ScanT == [pc : {"idle", "events", "store"}, to : Nat]

Init ==
    /\ ops = [w \in Ids |-> Nil]
    /\ balance = Funds
    /\ lock = [p \in Profiles |-> FALSE]
    /\ rolled = 0
    /\ onHold = FALSE
    /\ cursor = 0
    /\ depositCursor = 0
    /\ request = [r \in Requests |-> IdleRequest]
    /\ tick = IdleTick
    /\ scan = IdleScan
    /\ suspended = FALSE
    /\ latestBlock = 0
    /\ block = Confirmations
    /\ paid = [w \in Ids |-> 0]
    /\ signed = {}
    /\ faults = 0
    /\ lost = 0

-------------------------------------------------------------------------------
(* The balance operations.                                                 *)

HasStatus(w, statuses) == ops[w] # Nil /\ ops[w].status \in statuses

(* find_bop.                                                               *)
Has(w, p, statuses) == HasStatus(w, statuses) /\ ops[w].profile = p

InProgress == {"pending", "claimable", "claiming", "processing"}

(* check_withdraw_allowed.                                                 *)
WithdrawAllowed(p) ==
    p \in WhiteList \/ ~ \E w \in Ids : Has(w, p, InProgress)

SetStatus(w, status) == ops' = [ops EXCEPT ![w].status = status]

(* RoundDownToUsdtTick.                                                    *)
RoundDown(x) == (x \div Tick) * Tick

Available(seen, amount) == RoundDown(IF amount < seen THEN amount ELSE seen)

NewRow(p, amount) ==
    [profile |-> p, status |-> "pending", due |-> 0, amount |-> amount]

(* create_withdrawal.                                                      *)
Create(w, p, amount) ==
    /\ ops[w] = Nil
    /\ ops' = [ops EXCEPT ![w] = NewRow(p, amount)]
    /\ balance' = [balance EXCEPT ![p] = @ - amount]
    /\ rolled' = rolled + amount

CancelableTwice == {"pending", "claimable", "canceled"}

Cancelable == {"pending", "claimable"}

(* cancel_withdrawal.                                                      *)
Cancel(w, p) ==
    /\ Has(w, p, Cancelable)
    /\ SetStatus(w, "canceled")
    /\ balance' = [balance EXCEPT ![p] = @ + ops[w].amount]
    /\ UNCHANGED rolled

(* claim_withdrawal: a claim may be repeated.                              *)
Claim(w, p) ==
    /\ Has(w, p, {"claimable", "claiming", "processing"})
    /\ SetStatus(w, IF ops[w].status = "claimable" THEN "claiming" ELSE ops[w].status)
    /\ UNCHANGED <<balance, rolled>>

(* wdm.get_delay: the first special tier that fits, else the highest tier  *)
(* the amount reaches; future_block of the caller if there is none.  Keys  *)
(* of the tiers are unique, so the set has one element.                    *)
Fitting(p, amount) ==
    {t \in SpecialTiers : t.profile = p /\ t.from <= amount /\ amount <= t.to}

Reached(amount) == {t \in Tiers : t.min <= amount}

KeyBefore(t, u) == t.from < u.from \/ (t.from = u.from /\ t.to <= u.to)

Delay(p, amount) ==
    IF Fitting(p, amount) # {}
      THEN {t.delay : t \in {s \in Fitting(p, amount) :
                               \A u \in Fitting(p, amount) : KeyBefore(s, u)}}
      ELSE IF Reached(amount) # {}
             THEN {t.delay : t \in {s \in Reached(amount) :
                                      \A u \in Reached(amount) : u.min <= s.min}}
             ELSE {BlockDelay}

-------------------------------------------------------------------------------
(* API requests.                                                           *)

Goto(r, pc) == request' = [request EXCEPT ![r].pc = pc]

Proceed(r, from, to) == request[r].pc = from /\ Goto(r, to)

AcquireLockAlways(r, p, pc) ==
    /\ request[r].pc = "idle"
    /\ lock' = [lock EXCEPT ![p] = TRUE]
    /\ request' = [request EXCEPT ![r] = [IdleRequest EXCEPT !.pc = pc, !.profile = p]]
    /\ UNCHANGED <<tables, settings, service, chain, signed, faults, lost>>

(* acquire_withdraw_lock; ALREADY_LOCKED ends the request.                 *)
AcquireLock(r, p, pc) ==
    /\ request[r].pc = "idle"
    /\ ~lock[p]
    /\ lock' = [lock EXCEPT ![p] = TRUE]
    /\ request' = [request EXCEPT ![r] = [IdleRequest EXCEPT !.pc = pc, !.profile = p]]
    /\ UNCHANGED <<tables, settings, service, chain, signed, faults, lost>>

HandleWithdrawal(r, p) == AcquireLock(r, p, "check")
CancelWithdrawal(r, p) == AcquireLock(r, p, "cancel")
ClaimWithdrawal(r, p)  == AcquireLock(r, p, "claim")

CheckWithdrawAllowed(r) ==
    /\ Proceed(r, "check", IF WithdrawAllowed(request[r].profile) THEN "cache" ELSE "release")
    /\ UNCHANGED <<tables, lock, settings, service, chain, signed, faults, lost>>

(* InvalidateCache of a profile without positions: what can be withdrawn   *)
(* is the balance.                                                         *)
ReadCache(r) ==
    LET seen == balance[request[r].profile] IN
    /\ request[r].pc = "cache"
    /\ request' = [request EXCEPT ![r].pc = IF seen > 0 THEN "create" ELSE "release",
                                  ![r].seen = seen]
    /\ UNCHANGED <<tables, lock, settings, service, chain, signed, faults, lost>>

CreateWithdrawal(r) ==
    /\ Proceed(r, "create", "release")
    /\ \E w \in Ids, amount \in Amounts :
         Create(w, request[r].profile, Available(request[r].seen, amount))
    /\ UNCHANGED <<lock, settings, service, chain, signed, faults, lost>>

DoCancel(r) ==
    /\ Proceed(r, "cancel", "release")
    /\ \E w \in Ids : Cancel(w, request[r].profile)
    /\ UNCHANGED <<lock, settings, service, chain, signed, faults, lost>>

DoClaim(r) ==
    /\ request[r].pc = "claim"
    /\ \E w \in Ids :
         /\ Claim(w, request[r].profile)
         /\ request' = [request EXCEPT ![r].pc = "sign", ![r].id = w]
    /\ UNCHANGED <<lock, settings, service, chain, signed, faults, lost>>

(* GetClaimWithdrawalResponse after the claim.                             *)
Sign(r) ==
    /\ Proceed(r, "sign", "release")
    /\ signed' = signed \cup {request[r].id}
    /\ UNCHANGED <<tables, lock, settings, service, chain, faults, lost>>

ErrorResponseKeepsLock(r) ==
    /\ request[r].pc \notin {"idle", "release"}
    /\ request' = [request EXCEPT ![r] = IdleRequest]
    /\ UNCHANGED <<tables, lock, settings, service, chain, signed, faults, lost>>

(* A refusal, a failing call, a broken INV3 or a failing signature.        *)
ErrorResponse(r) ==
    /\ request[r].pc \notin {"idle", "release"}
    /\ Goto(r, "release")
    /\ UNCHANGED <<tables, lock, settings, service, chain, signed, faults, lost>>

(* The deferred release_withdraw_lock.                                     *)
Release(r) ==
    /\ request[r].pc = "release"
    /\ lock' = [lock EXCEPT ![request[r].profile] = FALSE]
    /\ request' = [request EXCEPT ![r] = IdleRequest]
    /\ UNCHANGED <<tables, settings, service, chain, signed, faults, lost>>

(* The API process stops, or the request's context is canceled and its     *)
(* remaining calls, the release among them, are not executed.              *)
Abandon(r) ==
    /\ request[r].pc # "idle"
    /\ lost < MaxLost
    /\ lost' = lost + 1
    /\ request' = [request EXCEPT ![r] = IdleRequest]
    /\ UNCHANGED <<tables, lock, settings, service, chain, signed, faults>>

(* processing_withdrawal: one call, without the lock.                      *)
ProcessingWithdrawal(p, w) ==
    /\ Has(w, p, {"claiming", "processing"})
    /\ SetStatus(w, "processing")
    /\ UNCHANGED <<balance, rolled, lock, settings, request, service, chain, signed, faults,
                   lost>>

(* cancel_all_withdrawals of a revert: row by row, without the lock.       *)
CancelAllWithdrawals(p, w) ==
    /\ Cancel(w, p)
    /\ UNCHANGED <<lock, settings, request, service, chain, signed, faults, lost>>

-------------------------------------------------------------------------------
(* The withdrawal goroutine of the settlement service.                     *)

Api == <<lock, request, signed, lost>>

TickTo(pc) == tick' = [tick EXCEPT !.pc = pc]

Fault == faults < MaxFaults /\ faults' = faults + 1

(* ProcessWithdrawal: the flag is read from the instance.                  *)
StartTick ==
    /\ tick.pc = "idle"
    /\ TicksOverlap \/ scan.pc = "idle"
    /\ ~onHold
    /\ suspended' = FALSE
    /\ TickTo("pending")
    /\ UNCHANGED <<tables, settings, scan, latestBlock, chain, Api, faults>>

(* The flag is set, or reading it failed.                                  *)
TickSuspended ==
    /\ tick.pc = "idle"
    /\ IF onHold THEN UNCHANGED faults ELSE Fault
    /\ ~suspended
    /\ suspended' = TRUE
    /\ UNCHANGED <<tables, settings, tick, scan, latestBlock, chain, Api>>

Pending == {w \in Ids : HasStatus(w, {"pending"})}

(* processPendingWithdrawals with something pending and too much volume:   *)
(* SuspendWithdrawals, whose call may fail.                                *)
SuspendWithdrawals ==
    /\ tick.pc = "pending"
    /\ Pending # {} /\ rolled > MaxVolume
    /\ suspended' = TRUE
    /\ \/ onHold' = TRUE /\ UNCHANGED faults
       \/ UNCHANGED onHold /\ Fault
    /\ TickTo("blocks")
    /\ UNCHANGED <<tables, cursor, depositCursor, scan, latestBlock, chain, Api>>

ProcessPendingWithdrawals ==
    /\ tick.pc = "pending"
    /\ Pending = {} \/ rolled <= MaxVolume
    /\ tick' = [tick EXCEPT !.pc = IF Pending = {} THEN "blocks" ELSE "assign",
                            !.current = block]
    /\ UNCHANGED <<tables, settings, scan, suspended, latestBlock, chain, Api, faults>>

Due(w) == IF ops[w] = Nil THEN Never ELSE ops[w].due

(* update_pending_withdrawals, first loop.                                 *)
AssignDue(w) ==
    /\ tick.pc = "assign"
    /\ Due(w) = 0
    /\ \E d \in Delay(ops[w].profile, ops[w].amount) :
         ops' = [ops EXCEPT ![w].due = tick.current + d]
    /\ UNCHANGED <<balance, rolled, settings, service, chain, Api, faults>>

(* Second loop: every row up to the current block, from the highest down.  *)
(* It starts without a yield when the first loop finds no row; "mature"    *)
(* means that it has written, and so yielded.                              *)
SecondLoop ==
    \/ tick.pc = "assign" /\ \A w \in Ids : Due(w) # 0
    \/ tick.pc = "mature"

Matured(row) ==
    [row EXCEPT !.due = Never,
                !.status = IF @ = "pending" THEN "claimable" ELSE @]

MatureEarly(w) ==
    /\ SecondLoop
    /\ Due(w) <= tick.current + 1
    /\ ops' = [ops EXCEPT ![w] = Matured(@)]
    /\ TickTo("mature")
    /\ UNCHANGED <<balance, rolled, settings, scan, suspended, latestBlock, chain, Api, faults>>

Mature(w) ==
    /\ SecondLoop
    /\ Due(w) <= tick.current
    /\ ops' = [ops EXCEPT ![w] = Matured(@)]
    /\ TickTo("mature")
    /\ UNCHANGED <<balance, rolled, settings, scan, suspended, latestBlock, chain, Api, faults>>

(* A row inserted behind the iterator is missed.                           *)
MatureDone ==
    /\ SecondLoop
    /\ \A w \in Ids : Due(w) = 0 \/ Due(w) > tick.current
    /\ TickTo("blocks")
    /\ UNCHANGED <<tables, settings, scan, suspended, latestBlock, chain, Api, faults>>

(* getL1BlockNumbers.                                                      *)
ToBlock(last) ==
    LET from == last + 1
        confirmed == block - Confirmations
    IN  IF confirmed > from + MaxBlocks THEN from + MaxBlocks ELSE confirmed

ReceiptsAfter(from, to) == {w \in Ids : paid[w] # 0 /\ from < paid[w] /\ paid[w] <= to}

ReceiptsIn(from, to) == {w \in Ids : paid[w] # 0 /\ from <= paid[w] /\ paid[w] <= to}

(* completeWithdrawalsAndUnstakes: the next range of blocks, if any.       *)
NextBlocks ==
    /\ tick.pc = "blocks"
    /\ tick' = IF ~suspended /\ cursor + 1 <= ToBlock(cursor)
                 THEN [tick EXCEPT !.pc = "receipts", !.to = ToBlock(cursor),
                                   !.todo = ReceiptsIn(cursor + 1, ToBlock(cursor))]
                 ELSE IdleTick
    /\ UNCHANGED <<tables, settings, scan, suspended, latestBlock, chain, Api, faults>>

(* completed_withdrawals, one receipt.                                     *)
CompletedWithdrawal(w) ==
    /\ tick.pc = "receipts"
    /\ w \in tick.todo
    /\ SetStatus(w, "success")
    /\ tick' = [tick EXCEPT !.todo = @ \ {w}]
    /\ UNCHANGED <<balance, rolled, settings, scan, suspended, latestBlock, chain, Api, faults>>

(* The end of processEvents.                                               *)
ReceiptsDone ==
    /\ tick.pc = "receipts"
    /\ tick.todo = {}
    /\ latestBlock' = tick.to
    /\ TickTo("store")
    /\ UNCHANGED <<tables, settings, scan, suspended, chain, Api, faults>>

(* SetLastProcessedBlockNumber(eh.latestBlock).  The suspension flag, read *)
(* before it, was clear in NextBlocks and only the next tick sets it.      *)
StoreLatest ==
    /\ tick.pc = "store"
    /\ cursor' = latestBlock
    /\ TickTo("blocks")
    /\ UNCHANGED <<tables, onHold, depositCursor, scan, suspended, latestBlock, chain, Api, faults>>

(* A call to the instance or to the chain fails: update_pending_withdrawals*)
(* is given up, the scan ends.                                             *)
TickFails ==
    /\ tick.pc # "idle"
    /\ Fault
    /\ tick' = IF tick.pc \in {"pending", "assign", "mature"}
                 THEN [tick EXCEPT !.pc = "blocks"] ELSE IdleTick
    /\ UNCHANGED <<tables, settings, scan, suspended, latestBlock, chain, Api>>

(* checkLastProcessedBlockNumbers: the cursor cannot be read, or the node  *)
(* asked is behind it.  Between two ranges it stands for the reset at the  *)
(* start of the next tick.                                                 *)
ResetCursor ==
    /\ tick.pc \in {"pending", "blocks"}
    /\ Fault
    /\ cursor' = 0
    /\ UNCHANGED <<tables, onHold, depositCursor, service, chain, Api>>

-------------------------------------------------------------------------------
(* The deposit goroutine, as far as it shares the handler.                 *)

ScanBlocks ==
    /\ scan.pc = "idle"
    /\ TicksOverlap \/ tick.pc = "idle"
    /\ depositCursor + 1 <= ToBlock(depositCursor)
    /\ scan' = [pc |-> "events", to |-> ToBlock(depositCursor)]
    /\ UNCHANGED <<tables, settings, tick, suspended, latestBlock, chain, Api, faults>>

ScanDone ==
    /\ scan.pc = "events"
    /\ latestBlock' = scan.to
    /\ scan' = [scan EXCEPT !.pc = "store"]
    /\ UNCHANGED <<tables, settings, tick, suspended, chain, Api, faults>>

StoreScanned ==
    /\ scan.pc = "store"
    /\ depositCursor' = scan.to
    /\ scan' = IdleScan
    /\ UNCHANGED <<tables, onHold, cursor, tick, suspended, latestBlock, chain, Api, faults>>

(* A call of the scan fails; the cursor may have been reset before.        *)
ScanFails ==
    /\ scan.pc # "idle"
    /\ Fault
    /\ depositCursor' \in {depositCursor, 0}
    /\ scan' = IdleScan
    /\ UNCHANGED <<tables, onHold, cursor, tick, suspended, latestBlock, chain, Api>>

(* The settlement process restarts and loses what it kept in memory.       *)
Restart ==
    /\ Fault
    /\ tick' = IdleTick
    /\ scan' = IdleScan
    /\ suspended' = FALSE
    /\ latestBlock' = 0
    /\ UNCHANGED <<tables, settings, chain, Api>>

-------------------------------------------------------------------------------
(* The chain.  The contract pays a signed withdrawal at most once.         *)

Mine ==
    /\ block < LastBlock
    /\ block' = block + 1
    /\ \/ UNCHANGED paid
       \/ \E w \in signed :
            /\ paid[w] = 0
            /\ block' + Confirmations <= LastBlock
            /\ paid' = [paid EXCEPT ![w] = block']
    /\ UNCHANGED <<tables, settings, service, Api, faults>>

-------------------------------------------------------------------------------
RequestStep(r) ==
    \/ CheckWithdrawAllowed(r) \/ ReadCache(r) \/ CreateWithdrawal(r)
    \/ DoCancel(r) \/ DoClaim(r) \/ Sign(r) \/ ErrorResponse(r) \/ Release(r)

TickStep ==
    \/ StartTick \/ SuspendWithdrawals \/ ProcessPendingWithdrawals
    \/ MatureDone \/ NextBlocks \/ ReceiptsDone \/ StoreLatest
    \/ \E w \in Ids : AssignDue(w) \/ Mature(w) \/ CompletedWithdrawal(w)

ScanStep == ScanBlocks \/ ScanDone \/ StoreScanned

Next ==
    \/ \E r \in Requests, p \in Profiles :
          HandleWithdrawal(r, p) \/ CancelWithdrawal(r, p) \/ ClaimWithdrawal(r, p)
    \/ \E r \in Requests : RequestStep(r) \/ Abandon(r)
    \/ \E p \in Profiles, w \in Ids :
          ProcessingWithdrawal(p, w) \/ CancelAllWithdrawals(p, w)
    \/ TickStep \/ TickSuspended \/ TickFails \/ ResetCursor
    \/ ScanStep \/ ScanFails \/ Restart
    \/ Mine

Spec == Init /\ [][Next]_vars

(* Handlers run to their end, the tickers fire again and again, and the    *)
(* chain grows.                                                            *)
FairSpec ==
    /\ Spec
    /\ \A r \in Requests : WF_vars(RequestStep(r))
    /\ WF_vars(TickStep) /\ WF_vars(ScanStep) /\ WF_vars(Mine)

-------------------------------------------------------------------------------
(* Properties.                                                             *)

TypeOK ==
    /\ ops \in [Ids -> Row \cup {Nil}]
    /\ balance \in [Profiles -> Int]
    /\ lock \in [Profiles -> BOOLEAN]
    /\ rolled \in Nat
    /\ onHold \in BOOLEAN /\ suspended \in BOOLEAN
    /\ cursor \in Nat /\ depositCursor \in Nat /\ latestBlock \in Nat
    /\ request \in [Requests -> RequestT]
    /\ tick \in TickT
    /\ scan \in ScanT
    /\ block \in Nat
    /\ paid \in [Ids -> Nat]
    /\ signed \subseteq Ids
    /\ faults \in 0..MaxFaults /\ lost \in 0..MaxLost

(* A profile has one unfinished withdrawal at a time (check_withdraw_allowed*)
(* and the lock, over several calls of concurrent requests).               *)
OneInProgress ==
    \A p \in Profiles \ WhiteList, v, w \in Ids :
        /\ Has(v, p, Statuses \ {"success", "canceled"})
        /\ Has(w, p, Statuses \ {"success", "canceled"})
        => v = w

(* Withdrawals never overdraw: the balance read from the cache still covers*)
(* the amount when create_withdrawal subtracts it.                         *)
NeverOverdrawn ==
    \A p \in Profiles : Funds[p] >= 0 => balance[p] >= 0

(* What a row has taken from the balance of p, and all rows together.      *)
Debit(row, p) ==
    IF row # Nil /\ row.profile = p /\ row.status # "canceled" THEN row.amount ELSE 0

Withdrawn(rows, p) == SumFunctionOnSet([w \in Ids |-> Debit(rows[w], p)], Ids)

(* What left the balance is what withdrawals that are not canceled hold.   *)
BalanceConserved ==
    \A p \in Profiles : balance[p] = Funds[p] - Withdrawn(ops, p)

(* A withdrawal that can be paid, because its signature is out, is never   *)
(* given back to the balance.                                              *)
SignedIsDebited ==
    \A w \in Ids : w \in signed \/ paid[w] # 0 =>
        HasStatus(w, {"claiming", "processing", "success"})

(* Blocks up to the stored block number need no second look: their         *)
(* receipts are all in the rows (completeWithdrawalsAndUnstakes).          *)
CursorCoversReceipts ==
    \A w \in Ids : paid[w] # 0 /\ paid[w] <= cursor => HasStatus(w, {"success"})

Steps == [pending |-> {"claimable", "canceled"},
          claimable |-> {"claiming", "canceled"},
          claiming |-> {"processing", "success"},
          processing |-> {"success"},
          success |-> {},
          canceled |-> {}]

(* A status only moves forward, whichever of client, settlement and        *)
(* operator comes last.                                                    *)
StatusMovesForward ==
    [][\A w \in Ids : ops[w] # Nil =>
         ops'[w].status \in {ops[w].status} \cup Steps[ops[w].status]]_vars

BecomesClaimable(w) ==
    HasStatus(w, {"pending"}) /\ ops'[w].status = "claimable"

(* No withdrawal is claimable before the due block it was given.           *)
NotBeforeDue ==
    [][\A w \in Ids : BecomesClaimable(w) => ops[w].due <= block]_vars

(* A withdrawal becomes claimable when the due block it was given is       *)
(* reached (test_claim_withdrawal_flow).                                   *)
DelayAssigned ==
    [][\A w \in Ids : BecomesClaimable(w) => ops[w].due # 0]_vars

(* While withdrawals are suspended none becomes claimable and no receipt   *)
(* is processed.                                                           *)
SuspensionHolds ==
    [][onHold => (\A w \in Ids : ~BecomesClaimable(w)) /\ cursor' \in {cursor, 0}]_vars

(* The withdraw lock of a profile is always released again.                *)
LockReleased == \A p \in Profiles : []<>~lock[p]

(* A paid withdrawal ends in success, unless withdrawals are suspended.    *)
ReceiptSettles ==
    \A w \in Ids : []<>(paid[w] = 0 \/ HasStatus(w, {"success"}) \/ onHold)

(* A new withdrawal is given a due block, and one whose due block is reached*)
(* does not stay pending.                                                  *)
DueIsServed ==
    \A w \in Ids : []<>(~ (HasStatus(w, {"pending"}) /\ ops[w].due <= block) \/ onHold)

(* No interleaving of requests withdraws what a profile does not have: one *)
(* withdrawal at a time, no overdraft, and nothing that was signed is      *)
(* given back (create_withdrawal, cancel_withdrawal).                      *)
WithdrawalsSafe ==
    TypeOK /\ OneInProgress /\ NeverOverdrawn /\ SignedIsDebited

(* A withdrawal becomes claimable when it is due and not during a          *)
(* suspension, and never goes back (update_pending_withdrawals,            *)
(* processing_withdrawal).                                                 *)
WithdrawalsAdvance ==
    NotBeforeDue /\ StatusMovesForward /\ SuspensionHolds

(* Every withdrawal gets on: locks are released, due ones become           *)
(* claimable, paid ones end in success (completeWithdrawalsAndUnstakes).   *)
WithdrawalsServed ==
    LockReleased /\ ReceiptSettles /\ DueIsServed

===============================================================================
