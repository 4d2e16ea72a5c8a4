--------------------------- MODULE Withdrawals_proof ---------------------------
(***************************************************************************)
(* Proofs about Withdrawals, for all profiles, requests, amounts, tiers,   *)
(* bounds and failures.  Invariants of the API's part say what a request   *)
(* may rely on between its calls, because it holds the lock of its profile;*)
(* those of the settlement's part what a tick has already done of the range*)
(* of blocks it is in.                                                     *)
(***************************************************************************)
EXTENDS Withdrawals, Sums_proof, TLAPS

USE DEF tables, settings, service, chain, Api, vars

Active(r) == request[r].pc # "idle"

(* A request that runs holds the lock of its profile ...                   *)
Holder ==
    \A r \in Requests : Active(r) =>
        request[r].profile \in Profiles /\ lock[request[r].profile]

(* ... alone.                                                              *)
Exclusive ==
    \A q, r \in Requests :
        Active(q) /\ Active(r) /\ request[q].profile = request[r].profile => q = r

(* The answer of check_withdraw_allowed holds until the row is created.    *)
Allowed ==
    \A r \in Requests : request[r].pc \in {"cache", "create"} =>
        WithdrawAllowed(request[r].profile)

(* The balance read before the create still covers it.                     *)
Covered ==
    \A r \in Requests : request[r].pc = "create" =>
        0 < request[r].seen /\ request[r].seen <= balance[request[r].profile]

Payable == {"claiming", "processing", "success"}

(* A claimed row stays claimed until its signature is out.                 *)
Signing ==
    \A r \in Requests : request[r].pc = "sign" =>
        request[r].id \in Ids /\ HasStatus(request[r].id, Payable)

(* Receipts are those of signed withdrawals.                               *)
Receipts ==
    /\ \A w \in Ids : paid[w] # 0 => w \in signed
    /\ \A w \in tick.todo : paid[w] # 0

(* A tick works with a block it has seen, below BLOCK_NUM_NEVER.           *)
Bounded == block <= LastBlock /\ tick.current <= block

Inv ==
    /\ TypeOK
    /\ Bounded
    /\ Holder
    /\ Exclusive
    /\ Allowed
    /\ Covered
    /\ Signing
    /\ Receipts
    /\ SignedIsDebited

-------------------------------------------------------------------------------
(* Rounding down to a tick stays within the amount.                        *)
LEMMA RoundDownBound ==
  ASSUME NEW x \in Nat
  PROVE  RoundDown(x) \in Nat /\ RoundDown(x) <= x
<1>1. Tick \in Nat /\ Tick > 0
  BY WithdrawalsAssumption
<1>2. x \div Tick \in Int /\ x = Tick * (x \div Tick) + (x % Tick) /\ x % Tick >= 0
  BY <1>1
<1> QED
  BY <1>1, <1>2 DEF RoundDown

(* What a request may withdraw is covered by what it saw.                  *)
LEMMA AvailableBound ==
  ASSUME NEW seen \in Nat, NEW amount \in Amounts
  PROVE  Available(seen, amount) \in Nat /\ Available(seen, amount) <= seen
<1>1. amount \in Nat
  BY WithdrawalsAssumption
<1> QED
  BY <1>1, RoundDownBound DEF Available

(* Every delay of wdm.get_delay is a number of blocks.                     *)
LEMMA DelayType ==
  ASSUME NEW p, NEW a, NEW d \in Delay(p, a)
  PROVE  d \in Nat
  BY WithdrawalsAssumption DEF Delay, Fitting, Reached

-------------------------------------------------------------------------------
(* Which actions write what.                                               *)

RowStep ==
    \/ \E r \in Requests : CreateWithdrawal(r) \/ DoCancel(r) \/ DoClaim(r)
    \/ \E p \in Profiles, w \in Ids :
          ProcessingWithdrawal(p, w) \/ CancelAllWithdrawals(p, w)
    \/ \E w \in Ids : AssignDue(w) \/ Mature(w) \/ CompletedWithdrawal(w)

(* Only these calls write rows and balances.                               *)
LEMMA RowWriters ==
  ASSUME [Next]_vars
  PROVE  RowStep \/ UNCHANGED <<ops, balance, rolled>>
<1>1. CASE \E r \in Requests, p \in Profiles :
             HandleWithdrawal(r, p) \/ CancelWithdrawal(r, p) \/ ClaimWithdrawal(r, p)
  BY <1>1 DEF HandleWithdrawal, CancelWithdrawal, ClaimWithdrawal, AcquireLock
<1>2. CASE \E r \in Requests : RequestStep(r) \/ Abandon(r)
  BY <1>2 DEF RequestStep, RowStep, CheckWithdrawAllowed, ReadCache, Sign, ErrorResponse,
              Release, Abandon
<1>3. CASE \E p \in Profiles, w \in Ids :
             ProcessingWithdrawal(p, w) \/ CancelAllWithdrawals(p, w)
  BY <1>3 DEF RowStep
<1>4. CASE TickStep
  BY <1>4 DEF TickStep, RowStep, StartTick, SuspendWithdrawals, ProcessPendingWithdrawals,
              MatureDone, NextBlocks, ReceiptsDone, StoreLatest
<1>5. CASE TickSuspended \/ TickFails \/ ResetCursor \/ ScanStep \/ ScanFails \/ Restart \/ Mine
  BY <1>5 DEF TickSuspended, TickFails, ResetCursor, ScanStep, ScanBlocks, ScanDone,
              StoreScanned, ScanFails, Restart, Mine
<1>6. CASE UNCHANGED vars
  BY <1>6
<1> QED
  BY <1>1, <1>2, <1>3, <1>4, <1>5, <1>6 DEF Next

Call(r) ==
    \/ \E p \in Profiles, pc \in {"check", "cancel", "claim"} : AcquireLock(r, p, pc)
    \/ RequestStep(r) \/ Abandon(r)

(* Only the API writes requests, locks and signatures.                     *)
LEMMA CallWriters ==
  ASSUME [Next]_vars
  PROVE  (\E r \in Requests : Call(r)) \/ UNCHANGED <<request, lock, signed, lost>>
<1>1. CASE \E r \in Requests, p \in Profiles :
             HandleWithdrawal(r, p) \/ CancelWithdrawal(r, p) \/ ClaimWithdrawal(r, p)
  BY <1>1 DEF HandleWithdrawal, CancelWithdrawal, ClaimWithdrawal, Call
<1>2. CASE \E r \in Requests : RequestStep(r) \/ Abandon(r)
  BY <1>2 DEF Call
<1>3. CASE \E p \in Profiles, w \in Ids :
             ProcessingWithdrawal(p, w) \/ CancelAllWithdrawals(p, w)
  BY <1>3 DEF ProcessingWithdrawal, CancelAllWithdrawals
<1>4. CASE TickStep
  BY <1>4 DEF TickStep, StartTick, SuspendWithdrawals, ProcessPendingWithdrawals,
              MatureDone, NextBlocks, ReceiptsDone, StoreLatest, AssignDue, Mature,
              CompletedWithdrawal
<1>5. CASE TickSuspended \/ TickFails \/ ResetCursor \/ ScanStep \/ ScanFails \/ Restart \/ Mine
  BY <1>5 DEF TickSuspended, TickFails, ResetCursor, ScanStep, ScanBlocks, ScanDone,
              StoreScanned, ScanFails, Restart, Mine
<1>6. CASE UNCHANGED vars
  BY <1>6
<1> QED
  BY <1>1, <1>2, <1>3, <1>4, <1>5, <1>6 DEF Next

ServiceStep ==
    TickStep \/ TickSuspended \/ TickFails \/ ResetCursor \/ ScanStep \/ ScanFails \/ Restart

(* Only the settlement writes its variables and the settings.              *)
LEMMA ServiceWriters ==
  ASSUME [Next]_vars
  PROVE  ServiceStep \/ UNCHANGED <<settings, service, faults>>
<1>1. CASE \E r \in Requests, p \in Profiles :
             HandleWithdrawal(r, p) \/ CancelWithdrawal(r, p) \/ ClaimWithdrawal(r, p)
  BY <1>1 DEF HandleWithdrawal, CancelWithdrawal, ClaimWithdrawal, AcquireLock
<1>2. CASE \E r \in Requests : RequestStep(r) \/ Abandon(r)
  BY <1>2 DEF RequestStep, CheckWithdrawAllowed, ReadCache, CreateWithdrawal, DoCancel,
              DoClaim, Sign, ErrorResponse, Release, Abandon
<1>3. CASE \E p \in Profiles, w \in Ids :
             ProcessingWithdrawal(p, w) \/ CancelAllWithdrawals(p, w)
  BY <1>3 DEF ProcessingWithdrawal, CancelAllWithdrawals
<1>4. CASE Mine
  BY <1>4 DEF Mine
<1>5. CASE UNCHANGED vars
  BY <1>5
<1> QED
  BY <1>1, <1>2, <1>3, <1>4, <1>5 DEF Next, ServiceStep

(* Only the chain grows the chain.                                         *)
LEMMA ChainWriters ==
  ASSUME [Next]_vars
  PROVE  Mine \/ UNCHANGED chain
<1>1. CASE \E r \in Requests, p \in Profiles :
             HandleWithdrawal(r, p) \/ CancelWithdrawal(r, p) \/ ClaimWithdrawal(r, p)
  BY <1>1 DEF HandleWithdrawal, CancelWithdrawal, ClaimWithdrawal, AcquireLock
<1>2. CASE \E r \in Requests : RequestStep(r) \/ Abandon(r)
  BY <1>2 DEF RequestStep, CheckWithdrawAllowed, ReadCache, CreateWithdrawal, DoCancel,
              DoClaim, Sign, ErrorResponse, Release, Abandon
<1>3. CASE \E p \in Profiles, w \in Ids :
             ProcessingWithdrawal(p, w) \/ CancelAllWithdrawals(p, w)
  BY <1>3 DEF ProcessingWithdrawal, CancelAllWithdrawals
<1>4. CASE TickStep
  BY <1>4 DEF TickStep, StartTick, SuspendWithdrawals, ProcessPendingWithdrawals,
              MatureDone, NextBlocks, ReceiptsDone, StoreLatest, AssignDue, Mature,
              CompletedWithdrawal
<1>5. CASE TickSuspended \/ TickFails \/ ResetCursor \/ ScanStep \/ ScanFails \/ Restart
  BY <1>5 DEF TickSuspended, TickFails, ResetCursor, ScanStep, ScanBlocks, ScanDone,
              StoreScanned, ScanFails, Restart
<1>6. CASE UNCHANGED vars
  BY <1>6
<1> QED
  BY <1>1, <1>2, <1>3, <1>4, <1>5, <1>6 DEF Next

-------------------------------------------------------------------------------
(* Rows and balances.                                                      *)

(* A row stays, keeps its profile, and its status moves as Steps says.     *)
RowsMove ==
    \A w \in Ids : ops[w] # Nil =>
        /\ ops'[w] \in Row
        /\ ops'[w].profile = ops[w].profile
        /\ ops'[w].status \in {ops[w].status} \cup Steps[ops[w].status]

(* A new row is the one of a request that reached create_withdrawal.       *)
RowsAppear ==
    \A w \in Ids : ops[w] = Nil /\ ops'[w] # Nil =>
        \E r \in Requests : CreateWithdrawal(r) /\ ops'[w].profile = request[r].profile

(* What a tick writes is a row, not an id that is not in use.              *)
LEMMA DueRow ==
  ASSUME Inv, NEW w \in Ids, Due(w) <= tick.current \/ Due(w) = 0
  PROVE  ops[w] \in Row
<1>1. /\ tick.current \in Nat /\ block \in Nat
      /\ tick.current <= block /\ block <= LastBlock
  BY DEF Inv, TypeOK, TickT, Bounded
<1> QED
  BY <1>1, WithdrawalsAssumption DEF Inv, TypeOK, Due

(* A receipt belongs to a row that was claimed.                            *)
LEMMA ReceiptRow ==
  ASSUME Inv, NEW w \in tick.todo
  PROVE  w \in Ids /\ ops[w] \in Row /\ ops[w].status \in Payable
<1>1. w \in Ids /\ paid[w] # 0
  BY DEF Inv, TypeOK, TickT, Receipts
<1> QED
  BY <1>1 DEF Inv, TypeOK, SignedIsDebited, HasStatus, Payable

(* Every write of the rows moves a status forward.                         *)
LEMMA RowsAlong ==
  ASSUME Inv, [Next]_vars
  PROVE  RowsMove /\ RowsAppear /\ ops' \in [Ids -> Row \cup {Nil}]
<1> USE WithdrawalsAssumption
<1>0. ops \in [Ids -> Row \cup {Nil}] /\ Nil \notin Row
  BY DEF Inv, TypeOK
<1>1. ASSUME NEW r \in Requests, CreateWithdrawal(r)
      PROVE  RowsMove /\ RowsAppear /\ ops' \in [Ids -> Row \cup {Nil}]
  <2>1. request[r].profile \in Profiles /\ request[r].seen \in Nat
    BY <1>1 DEF Inv, TypeOK, RequestT, Holder, Active, Covered, CreateWithdrawal, Proceed
  <2>2. PICK w \in Ids, amount \in Amounts :
               Create(w, request[r].profile, Available(request[r].seen, amount))
    BY <1>1 DEF CreateWithdrawal
  <2>3. NewRow(request[r].profile, Available(request[r].seen, amount)) \in Row
    BY <2>1, AvailableBound DEF NewRow, Row, Statuses
  <2>4. NewRow(request[r].profile, Available(request[r].seen, amount)).profile
          = request[r].profile
    BY DEF NewRow
  <2>5. ops[w] = Nil
        /\ ops' = [ops EXCEPT ![w] = NewRow(request[r].profile,
                                            Available(request[r].seen, amount))]
    BY <2>2 DEF Create
  <2>6. \A v \in Ids : v # w => ops'[v] = ops[v]
    BY <2>5, <1>0
  <2>7. RowsMove
    BY <2>5, <2>6, <1>0 DEF RowsMove
  <2>8. RowsAppear
    BY <1>1, <2>4, <2>5, <2>6, <1>0 DEF RowsAppear
  <2> QED
    BY <2>3, <2>5, <2>7, <2>8, <1>0
<1>2. ASSUME NEW w \in Ids, NEW row \in Row, ops[w] \in Row, ops' = [ops EXCEPT ![w] = row],
             row.profile = ops[w].profile,
             row.status \in {ops[w].status} \cup Steps[ops[w].status]
      PROVE  RowsMove /\ RowsAppear /\ ops' \in [Ids -> Row \cup {Nil}]
  BY <1>0, <1>2 DEF RowsMove, RowsAppear
<1>3. ASSUME NEW w \in Ids, NEW s \in Statuses, ops[w] \in Row, SetStatus(w, s),
             s \in {ops[w].status} \cup Steps[ops[w].status]
      PROVE  RowsMove /\ RowsAppear /\ ops' \in [Ids -> Row \cup {Nil}]
  <2> DEFINE row == [ops[w] EXCEPT !.status = s]
  <2>1. row \in Row /\ row.profile = ops[w].profile /\ row.status = s
    BY <1>3 DEF Row
  <2>2. ops' = [ops EXCEPT ![w] = row]
    BY <1>3 DEF SetStatus
  <2> HIDE DEF row
  <2> QED
    BY <1>2, <1>3, <2>1, <2>2
<1>4. ASSUME NEW w \in Ids, NEW p, Cancel(w, p)
      PROVE  RowsMove /\ RowsAppear /\ ops' \in [Ids -> Row \cup {Nil}]
  BY <1>0, <1>3, <1>4 DEF Cancel, Has, HasStatus, Cancelable, Steps, Statuses
<1>5. ASSUME NEW w \in Ids, NEW p, Claim(w, p)
      PROVE  RowsMove /\ RowsAppear /\ ops' \in [Ids -> Row \cup {Nil}]
  BY <1>0, <1>3, <1>5 DEF Claim, Has, HasStatus, Steps, Statuses
<1>6. ASSUME NEW w \in Ids, NEW p, ProcessingWithdrawal(p, w)
      PROVE  RowsMove /\ RowsAppear /\ ops' \in [Ids -> Row \cup {Nil}]
  BY <1>0, <1>3, <1>6 DEF ProcessingWithdrawal, Has, HasStatus, Steps, Statuses
<1>7. ASSUME NEW w \in Ids, AssignDue(w)
      PROVE  RowsMove /\ RowsAppear /\ ops' \in [Ids -> Row \cup {Nil}]
  <2>1. ops[w] \in Row
    BY <1>7, DueRow DEF AssignDue
  <2>2. PICK d \in Nat : ops' = [ops EXCEPT ![w].due = tick.current + d]
    BY <1>7, DelayType DEF AssignDue
  <2> DEFINE row == [ops[w] EXCEPT !.due = tick.current + d]
  <2>3. tick.current \in Nat
    BY DEF Inv, TypeOK, TickT
  <2>4. row \in Row /\ row.profile = ops[w].profile /\ row.status = ops[w].status
    BY <2>1, <2>3 DEF Row
  <2>5. ops' = [ops EXCEPT ![w] = row]
    BY <2>2
  <2> HIDE DEF row
  <2> QED
    BY <1>2, <2>1, <2>4, <2>5
<1>8. ASSUME NEW w \in Ids, Mature(w)
      PROVE  RowsMove /\ RowsAppear /\ ops' \in [Ids -> Row \cup {Nil}]
  <2>1. ops[w] \in Row
    BY <1>8, DueRow DEF Mature
  <2>2. ops' = [ops EXCEPT ![w] = Matured(ops[w])]
    BY <1>8 DEF Mature
  <2>3. /\ Matured(ops[w]) \in Row
        /\ Matured(ops[w]).profile = ops[w].profile
        /\ Matured(ops[w]).status \in {ops[w].status} \cup Steps[ops[w].status]
    <3>1. Matured(ops[w]) \in Row /\ Matured(ops[w]).profile = ops[w].profile
      BY <2>1 DEF Matured, Row, Statuses
    <3>2. Matured(ops[w]).status =
            IF ops[w].status = "pending" THEN "claimable" ELSE ops[w].status
      BY <2>1 DEF Matured, Row
    <3> QED
      BY <3>1, <3>2 DEF Steps
  <2> QED
    BY <1>2, <2>1, <2>2, <2>3
<1>9. ASSUME NEW w \in Ids, CompletedWithdrawal(w)
      PROVE  RowsMove /\ RowsAppear /\ ops' \in [Ids -> Row \cup {Nil}]
  BY <1>3, <1>9, ReceiptRow DEF CompletedWithdrawal, Payable, Steps, Statuses
<1>10. ASSUME UNCHANGED ops
       PROVE  RowsMove /\ RowsAppear /\ ops' \in [Ids -> Row \cup {Nil}]
  BY <1>0, <1>10 DEF RowsMove, RowsAppear
<1> QED
  BY <1>1, <1>4, <1>5, <1>6, <1>7, <1>8, <1>9, <1>10, RowWriters
     DEF RowStep, DoCancel, DoClaim, CancelAllWithdrawals

-------------------------------------------------------------------------------
(* The lock.                                                               *)

(* A call in the middle of a request.                                      *)
MiddleCall(r) ==
    \/ CheckWithdrawAllowed(r) \/ ReadCache(r) \/ CreateWithdrawal(r)
    \/ DoCancel(r) \/ DoClaim(r) \/ Sign(r) \/ ErrorResponse(r)

(* It changes its own request only, and keeps its profile and the locks.   *)
LEMMA MiddleCalls ==
  ASSUME Inv, NEW r \in Requests, MiddleCall(r)
  PROVE  /\ Active(r)
         /\ UNCHANGED lock
         /\ \E q \in RequestT : /\ request' = [request EXCEPT ![r] = q]
                                /\ q.profile = request[r].profile
                                /\ q.pc # "idle"
<1> DEFINE Goal == /\ Active(r)
                   /\ UNCHANGED lock
                   /\ \E q \in RequestT : /\ request' = [request EXCEPT ![r] = q]
                                          /\ q.profile = request[r].profile
                                          /\ q.pc # "idle"
<1>1. request[r] \in RequestT /\ request \in [Requests -> RequestT]
  BY DEF Inv, TypeOK
<1>2. ASSUME NEW pc \in {"cache", "create", "release"}, request[r].pc # "idle", UNCHANGED lock,
             Goto(r, pc)
      PROVE  Goal
  <2> DEFINE q == [request[r] EXCEPT !.pc = pc]
  <2>1. q \in RequestT /\ q.profile = request[r].profile /\ q.pc # "idle"
    BY <1>1, <1>2 DEF RequestT
  <2>2. request' = [request EXCEPT ![r] = q]
    BY <1>2 DEF Goto
  <2> HIDE DEF q
  <2> QED
    BY <1>2, <2>1, <2>2 DEF Active
<1>3. CASE CheckWithdrawAllowed(r)
  BY <1>2, <1>3 DEF CheckWithdrawAllowed, Proceed
<1>4. CASE ReadCache(r)
  <2> DEFINE pc == IF balance[request[r].profile] > 0 THEN "create" ELSE "release"
             q == [request[r] EXCEPT !.pc = pc, !.seen = balance[request[r].profile]]
  <2>1. request[r].profile \in Profiles
    BY <1>4 DEF Inv, Holder, Active, ReadCache
  <2>2. balance[request[r].profile] \in Int
    BY <2>1 DEF Inv, TypeOK
  <2>3. pc \in {"create", "release"}
    OBVIOUS
  <2>4. request' = [request EXCEPT ![r] = q] /\ request[r].pc = "cache" /\ UNCHANGED lock
    BY <1>4 DEF ReadCache
  <2> HIDE DEF pc
  <2>5. q \in RequestT /\ q.profile = request[r].profile /\ q.pc # "idle"
    BY <1>1, <2>2, <2>3 DEF RequestT
  <2> HIDE DEF q
  <2> QED
    BY <2>4, <2>5 DEF Active
<1>5. CASE CreateWithdrawal(r)
  BY <1>2, <1>5 DEF CreateWithdrawal, Proceed
<1>6. CASE DoCancel(r)
  BY <1>2, <1>6 DEF DoCancel, Proceed
<1>7. CASE DoClaim(r)
  <2>1. PICK w \in Ids : request' = [request EXCEPT ![r].pc = "sign", ![r].id = w]
    BY <1>7 DEF DoClaim
  <2> DEFINE q == [request[r] EXCEPT !.pc = "sign", !.id = w]
  <2>2. request' = [request EXCEPT ![r] = q]
    BY <2>1
  <2>3. q \in RequestT /\ q.profile = request[r].profile /\ q.pc # "idle"
    BY <1>1 DEF RequestT
  <2> HIDE DEF q
  <2> QED
    BY <1>7, <2>2, <2>3 DEF Active, DoClaim
<1>8. CASE Sign(r)
  BY <1>2, <1>8 DEF Sign, Proceed
<1>9. CASE ErrorResponse(r)
  BY <1>2, <1>9 DEF ErrorResponse
<1> QED
  BY <1>3, <1>4, <1>5, <1>6, <1>7, <1>8, <1>9 DEF MiddleCall

(* The lock of a profile belongs to one request at a time, however the     *)
(* calls of several requests interleave.                                   *)
LEMMA LockHeld ==
  ASSUME Inv, [Next]_vars
  PROVE  /\ request' \in [Requests -> RequestT]
         /\ lock' \in [Profiles -> BOOLEAN]
         /\ Holder' /\ Exclusive'
<1> DEFINE Goal == /\ request' \in [Requests -> RequestT]
                   /\ lock' \in [Profiles -> BOOLEAN]
                   /\ Holder' /\ Exclusive'
<1>0. /\ request \in [Requests -> RequestT] /\ lock \in [Profiles -> BOOLEAN]
      /\ Holder /\ Exclusive
  BY DEF Inv, TypeOK
<1>i. IdleRequest \in RequestT /\ IdleRequest.pc = "idle"
  BY DEF IdleRequest, RequestT
<1>1. ASSUME NEW r \in Requests, NEW p \in Profiles, NEW pc \in {"check", "cancel", "claim"},
             AcquireLock(r, p, pc)
      PROVE  Goal
  <2> DEFINE q == [IdleRequest EXCEPT !.pc = pc, !.profile = p]
  <2>1. q \in RequestT /\ q.profile = p
    BY <1>i DEF IdleRequest, RequestT
  <2>2. /\ request' = [request EXCEPT ![r] = q]
        /\ lock' = [lock EXCEPT ![p] = TRUE]
        /\ ~lock[p]
    BY <1>1 DEF AcquireLock
  <2> HIDE DEF q
  <2>3. \A s \in Requests : s # r => request'[s] = request[s]
    BY <1>0, <2>2
  <2>4. request'[r].profile = p /\ request' \in [Requests -> RequestT]
    BY <1>0, <2>1, <2>2
  <2>5. Holder'
    BY <1>0, <2>2, <2>3, <2>4 DEF Holder, Active
  <2>6. Exclusive'
    BY <1>0, <2>2, <2>3, <2>4 DEF Holder, Exclusive, Active
  <2> QED
    BY <1>0, <2>2, <2>4, <2>5, <2>6
<1>2. ASSUME NEW r \in Requests, MiddleCall(r)
      PROVE  Goal
  <2>1. PICK q \in RequestT : /\ request' = [request EXCEPT ![r] = q]
                              /\ q.profile = request[r].profile
    BY <1>2, MiddleCalls
  <2>2. Active(r) /\ UNCHANGED lock
    BY <1>2, MiddleCalls
  <2> QED
    BY <1>0, <2>1, <2>2 DEF Holder, Exclusive, Active
<1>3. ASSUME NEW r \in Requests, Release(r)
      PROVE  Goal
  <2>1. /\ request' = [request EXCEPT ![r] = IdleRequest]
        /\ lock' = [lock EXCEPT ![request[r].profile] = FALSE]
        /\ Active(r)
    BY <1>3 DEF Release, Active
  <2> QED
    BY <1>0, <1>i, <2>1 DEF Holder, Exclusive, Active
<1>4. ASSUME NEW r \in Requests, Abandon(r)
      PROVE  Goal
  <2>1. request' = [request EXCEPT ![r] = IdleRequest] /\ lock' = lock
    BY <1>4 DEF Abandon
  <2> QED
    BY <1>0, <1>i, <2>1 DEF Holder, Exclusive, Active
<1>5. CASE UNCHANGED <<request, lock>>
  BY <1>0, <1>5 DEF Holder, Exclusive, Active
<1> QED
  BY <1>1, <1>2, <1>3, <1>4, <1>5, CallWriters DEF Call, RequestStep, MiddleCall

(* Where a request arrives tells which call it made.                       *)
LEMMA Arrivals ==
  ASSUME Inv, [Next]_vars, NEW s \in Requests, request'[s] # request[s]
  PROVE  /\ request'[s].pc = "cache" => /\ CheckWithdrawAllowed(s)
                                        /\ WithdrawAllowed(request[s].profile)
                                        /\ request'[s].profile = request[s].profile
         /\ request'[s].pc = "create" => ReadCache(s)
         /\ request'[s].pc = "sign" => DoClaim(s)
<1>0. request \in [Requests -> RequestT]
  BY DEF Inv, TypeOK
<1>1. PICK r \in Requests : Call(r)
  BY CallWriters
<1>2. \E q : request' = [request EXCEPT ![r] = q]
  <2>1. CASE MiddleCall(r)
    BY <2>1, MiddleCalls
  <2>2. CASE \E p \in Profiles, pc \in {"check", "cancel", "claim"} : AcquireLock(r, p, pc)
    BY <2>2 DEF AcquireLock
  <2>3. CASE Release(r) \/ Abandon(r)
    BY <2>3 DEF Release, Abandon
  <2> QED
    BY <1>1, <2>1, <2>2, <2>3 DEF Call, RequestStep, MiddleCall
<1>3. r = s
  BY <1>0, <1>2
<1>4. CASE CheckWithdrawAllowed(s)
  <2>1. request'[s].pc = (IF WithdrawAllowed(request[s].profile) THEN "cache" ELSE "release")
    BY <1>0, <1>4 DEF CheckWithdrawAllowed, Proceed, Goto, RequestT
  <2>2. request'[s].profile = request[s].profile
    BY <1>0, <1>4 DEF CheckWithdrawAllowed, Proceed, Goto, RequestT
  <2> QED
    BY <1>4, <2>1, <2>2
<1>5. CASE ReadCache(s)
  <2>1. request'[s].pc \in {"create", "release"}
    BY <1>0, <1>5 DEF ReadCache, RequestT
  <2> QED
    BY <1>5, <2>1
<1>6. CASE DoClaim(s)
  <2>1. request'[s].pc = "sign"
    BY <1>0, <1>6 DEF DoClaim, RequestT
  <2> QED
    BY <1>6, <2>1
<1>7. CASE CreateWithdrawal(s) \/ DoCancel(s) \/ Sign(s) \/ ErrorResponse(s)
  <2>1. Goto(s, "release")
    BY <1>7 DEF CreateWithdrawal, DoCancel, Sign, ErrorResponse, Proceed
  <2>2. request'[s].pc = "release"
    BY <1>0, <2>1 DEF Goto, RequestT
  <2> QED
    BY <2>2
<1>8. CASE Release(s) \/ Abandon(s)
  <2>1. request'[s].pc = "idle"
    BY <1>0, <1>8 DEF Release, Abandon, IdleRequest
  <2> QED
    BY <2>1
<1>9. CASE \E p \in Profiles, pc \in {"check", "cancel", "claim"} : AcquireLock(s, p, pc)
  <2>1. request'[s].pc \in {"check", "cancel", "claim"}
    BY <1>0, <1>9 DEF AcquireLock, IdleRequest
  <2> QED
    BY <2>1
<1> QED
  BY <1>1, <1>3, <1>4, <1>5, <1>6, <1>7, <1>8, <1>9 DEF Call, RequestStep

-------------------------------------------------------------------------------
(* What a request relies on between its calls.                             *)

(* A withdrawal that is in progress was in progress, or is being created   *)
(* by the request that holds the lock.                                     *)
LEMMA InProgressFrom ==
  ASSUME Inv, [Next]_vars, NEW p \in Profiles, NEW w \in Ids, Has(w, p, InProgress)'
  PROVE  \/ Has(w, p, InProgress)
         \/ ops[w] = Nil /\ \E r \in Requests : CreateWithdrawal(r) /\ request[r].profile = p
<1>1. ops'[w] # Nil /\ ops'[w].status \in InProgress /\ ops'[w].profile = p
  BY DEF Has, HasStatus, InProgress
<1>2. CASE ops[w] = Nil
  BY <1>1, <1>2, RowsAlong DEF RowsAppear
<1>3. CASE ops[w] # Nil
  <2>1. ops[w] \in Row
    BY <1>3 DEF Inv, TypeOK
  <2>2. /\ ops'[w].profile = ops[w].profile
        /\ ops'[w].status \in {ops[w].status} \cup Steps[ops[w].status]
    BY <1>3, RowsAlong DEF RowsMove
  <2>3. ops[w].status \in InProgress
    BY <1>1, <2>1, <2>2 DEF Row, Statuses, Steps, InProgress
  <2> QED
    BY <1>1, <1>3, <2>2, <2>3 DEF Has, HasStatus
<1> QED
  BY <1>2, <1>3

(* No other request creates a row of the profile in between.               *)
LEMMA AllowedStep ==
  ASSUME Inv, [Next]_vars
  PROVE  Allowed'
<1>0. /\ request \in [Requests -> RequestT] /\ request' \in [Requests -> RequestT]
      /\ Holder'
  BY LockHeld DEF Inv, TypeOK
<1> SUFFICES ASSUME NEW s \in Requests, request'[s].pc \in {"cache", "create"},
                    NEW p \in Profiles, p = request'[s].profile, p \notin WhiteList,
                    NEW w \in Ids, Has(w, p, InProgress)'
             PROVE  FALSE
  BY <1>0 DEF Allowed, WithdrawAllowed, Holder, Active
<1>1. ASSUME request[s].pc \in {"cache", "create"}, request[s].profile = p
      PROVE  ~Has(w, p, InProgress)
  BY <1>1 DEF Inv, Allowed, WithdrawAllowed
<1>2. CASE request'[s] = request[s]
  <2>1. PICK r \in Requests : CreateWithdrawal(r) /\ request[r].profile = p
    BY <1>1, <1>2, InProgressFrom
  <2>2. request[r].pc = "create" /\ request'[r].pc = "release"
    BY <1>0, <2>1 DEF CreateWithdrawal, Proceed, Goto, RequestT
  <2>3. r = s
    BY <1>2, <2>1, <2>2 DEF Inv, Exclusive, Active
  <2> QED
    BY <2>2, <2>3
<1>3. CASE request'[s] # request[s]
  <2>1. CASE request'[s].pc = "cache"
    <3>1. /\ CheckWithdrawAllowed(s) /\ WithdrawAllowed(request[s].profile)
          /\ request'[s].profile = request[s].profile
      BY <1>3, <2>1, Arrivals
    <3>2. ops' = ops
      BY <3>1 DEF CheckWithdrawAllowed
    <3> QED
      BY <3>1, <3>2 DEF WithdrawAllowed, Has, HasStatus, InProgress
  <2>2. CASE request'[s].pc = "create"
    <3>1. ReadCache(s)
      BY <1>3, <2>2, Arrivals
    <3>2. request'[s].profile = request[s].profile /\ request[s].pc = "cache" /\ ops' = ops
      BY <1>0, <3>1 DEF ReadCache, RequestT
    <3> QED
      BY <1>1, <3>2 DEF Has, HasStatus, InProgress
  <2> QED
    BY <2>1, <2>2
<1> QED
  BY <1>2, <1>3

(* Only the create of a request lowers a balance, by at most what it saw.  *)
LEMMA BalanceLowered ==
  ASSUME Inv, [Next]_vars
  PROVE  /\ balance' \in [Profiles -> Int] /\ rolled' \in Nat
         /\ \A p \in Profiles :
              \/ balance'[p] >= balance[p]
              \/ \E r \in Requests : /\ CreateWithdrawal(r)
                                     /\ request[r].profile = p
                                     /\ balance'[p] >= balance[p] - request[r].seen
<1> DEFINE Goal == /\ balance' \in [Profiles -> Int] /\ rolled' \in Nat
                   /\ \A p \in Profiles :
                        \/ balance'[p] >= balance[p]
                        \/ \E r \in Requests : /\ CreateWithdrawal(r)
                                               /\ request[r].profile = p
                                               /\ balance'[p] >= balance[p] - request[r].seen
<1>0. balance \in [Profiles -> Int] /\ rolled \in Nat /\ ops \in [Ids -> Row \cup {Nil}]
  BY DEF Inv, TypeOK
<1>1. ASSUME NEW r \in Requests, CreateWithdrawal(r)
      PROVE  Goal
  <2>1. request[r].profile \in Profiles /\ request[r].seen \in Nat
    BY <1>1 DEF Inv, TypeOK, RequestT, Holder, Active, Covered, CreateWithdrawal, Proceed
  <2>2. PICK w \in Ids, amount \in Amounts :
               Create(w, request[r].profile, Available(request[r].seen, amount))
    BY <1>1 DEF CreateWithdrawal
  <2> DEFINE a == Available(request[r].seen, amount)
  <2>3. a \in Nat /\ a <= request[r].seen
    BY <2>1, AvailableBound
  <2>4. balance' = [balance EXCEPT ![request[r].profile] = @ - a] /\ rolled' = rolled + a
    BY <2>2 DEF Create
  <2> HIDE DEF a
  <2> QED
    BY <1>0, <1>1, <2>1, <2>3, <2>4
<1>2. ASSUME NEW w \in Ids, NEW p, Cancel(w, p)
      PROVE  Goal
  <2>1. PICK a \in Nat : a = ops[w].amount
    BY <1>0, <1>2 DEF Cancel, Has, HasStatus, Row
  <2>2. balance' = [balance EXCEPT ![p] = @ + a] /\ rolled' = rolled /\ p \in Profiles
    BY <1>0, <1>2, <2>1 DEF Cancel, Has, HasStatus, Row
  <2>3. balance' \in [Profiles -> Int] /\ rolled' \in Nat
    BY <1>0, <2>2
  <2>4. \A q \in Profiles : balance'[q] = balance[q] \/ balance'[q] = balance[q] + a
    BY <1>0, <2>2
  <2>5. \A q \in Profiles : balance'[q] >= balance[q]
    BY <1>0, <2>3, <2>4
  <2> QED
    BY <2>3, <2>5
<1>3. CASE UNCHANGED <<balance, rolled>>
  BY <1>0, <1>3
<1> QED
  BY <1>1, <1>2, <1>3, RowWriters
     DEF RowStep, DoCancel, DoClaim, Claim, CancelAllWithdrawals, ProcessingWithdrawal,
         AssignDue, Mature, CompletedWithdrawal

(* The balance a request saw still covers it at the create.                *)
LEMMA CoveredStep ==
  ASSUME Inv, [Next]_vars
  PROVE  Covered'
<1>0. /\ request \in [Requests -> RequestT] /\ request' \in [Requests -> RequestT]
      /\ balance \in [Profiles -> Int] /\ balance' \in [Profiles -> Int]
  BY LockHeld, BalanceLowered DEF Inv, TypeOK
<1> SUFFICES ASSUME NEW s \in Requests, request'[s].pc = "create"
             PROVE  /\ 0 < request'[s].seen
                    /\ request'[s].seen <= balance'[request'[s].profile]
  BY DEF Covered
<1>1. CASE request'[s] = request[s]
  <2>1. /\ request[s].profile \in Profiles
        /\ 0 < request[s].seen /\ request[s].seen <= balance[request[s].profile]
        /\ request[s].seen \in Int
    BY <1>0, <1>1 DEF Inv, Covered, Holder, Active, RequestT
  <2>2. ASSUME NEW r \in Requests, CreateWithdrawal(r), request[r].profile = request[s].profile
        PROVE  FALSE
    <3>1. request[r].pc = "create" /\ request'[r].pc = "release"
      BY <1>0, <2>2 DEF CreateWithdrawal, Proceed, Goto, RequestT
    <3>2. r = s
      BY <1>1, <2>2, <3>1 DEF Inv, Exclusive, Active
    <3> QED
      BY <3>1, <3>2
  <2>3. balance'[request[s].profile] >= balance[request[s].profile]
    BY <2>1, <2>2, BalanceLowered
  <2> QED
    BY <1>0, <1>1, <2>1, <2>3
<1>2. CASE request'[s] # request[s]
  <2>1. ReadCache(s)
    BY <1>2, Arrivals
  <2>2. /\ request'[s].profile = request[s].profile
        /\ request'[s].seen = balance[request[s].profile]
        /\ request'[s].pc = IF balance[request[s].profile] > 0 THEN "create" ELSE "release"
        /\ balance' = balance
    BY <1>0, <2>1 DEF ReadCache, RequestT
  <2>3. request[s].profile \in Profiles
    BY <2>1 DEF Inv, Holder, Active, ReadCache
  <2> QED
    BY <1>0, <2>2, <2>3
<1> QED
  BY <1>1, <1>2

(* Claimed rows stay payable.                                              *)
LEMMA PayableStays ==
  ASSUME Inv, [Next]_vars, NEW w \in Ids, HasStatus(w, Payable)
  PROVE  HasStatus(w, Payable)'
<1>1. ops[w] \in Row /\ ops[w] # Nil /\ ops[w].status \in Payable
  BY DEF Inv, TypeOK, HasStatus
<1>2. ops'[w] \in Row /\ ops'[w].status \in {ops[w].status} \cup Steps[ops[w].status]
  BY <1>1, RowsAlong DEF RowsMove
<1>3. ops'[w] # Nil
  BY <1>2, WithdrawalsAssumption
<1>4. ops'[w].status \in Payable
  BY <1>1, <1>2 DEF Payable, Steps
<1> QED
  BY <1>3, <1>4 DEF HasStatus, Payable

(* What is claimed, signed or paid is payable, and stays so.               *)
LEMMA SignedStep ==
  ASSUME Inv, [Next]_vars
  PROVE  /\ signed' \subseteq Ids
         /\ Signing' /\ SignedIsDebited'
<1>0. /\ request \in [Requests -> RequestT] /\ request' \in [Requests -> RequestT]
      /\ ops \in [Ids -> Row \cup {Nil}] /\ signed \subseteq Ids
  BY LockHeld DEF Inv, TypeOK
<1>1. ASSUME NEW s \in Requests, request'[s].pc = "sign"
      PROVE  request'[s].id \in Ids /\ HasStatus(request[s].id, Payable)'
  <2>1. CASE request'[s] = request[s]
    <3>1. request[s].id \in Ids /\ HasStatus(request[s].id, Payable)
      BY <1>1, <2>1 DEF Inv, Signing
    <3>2. PICK v \in Ids : v = request[s].id
      BY <3>1
    <3>3. HasStatus(v, Payable)'
      BY <3>1, <3>2, PayableStays
    <3> QED
      BY <2>1, <3>2, <3>3 DEF HasStatus
  <2>2. CASE request'[s] # request[s]
    <3>1. DoClaim(s)
      BY <1>1, <2>2, Arrivals
    <3>2. PICK w \in Ids : /\ Claim(w, request[s].profile)
                           /\ request' = [request EXCEPT ![s].pc = "sign", ![s].id = w]
      BY <3>1 DEF DoClaim
    <3>3. request'[s].id = w
      BY <1>0, <3>2 DEF RequestT
    <3>4. ops[w] \in Row /\ ops[w].status \in {"claimable", "claiming", "processing"}
      BY <1>0, <3>2 DEF Claim, Has, HasStatus
    <3>5. ops' = [ops EXCEPT ![w].status =
                   IF ops[w].status = "claimable" THEN "claiming" ELSE ops[w].status]
      BY <3>2 DEF Claim, SetStatus
    <3>6. ops'[w].status \in Payable
      BY <1>0, <3>4, <3>5 DEF Row, Payable
    <3>7. ops'[w] # Nil
      BY <3>4, RowsAlong, WithdrawalsAssumption DEF RowsMove
    <3> QED
      BY <3>3, <3>6, <3>7 DEF HasStatus
  <2> QED
    BY <2>1, <2>2
<1>2. Signing'
  BY <1>1 DEF Signing
<1>3. \A w \in signed' : w \in signed \/ (w \in Ids /\ HasStatus(w, Payable))
  <2>1. CASE UNCHANGED signed
    BY <2>1
  <2>2. ASSUME NEW r \in Requests, Sign(r)
        PROVE  \A w \in signed' : w \in signed \/ (w \in Ids /\ HasStatus(w, Payable))
    BY <2>2 DEF Sign, Proceed, Inv, Signing
  <2>3. ASSUME NEW r \in Requests, Call(r), ~Sign(r)
        PROVE  UNCHANGED signed
    BY <2>3 DEF Call, RequestStep, AcquireLock, CheckWithdrawAllowed, ReadCache,
                CreateWithdrawal, DoCancel, DoClaim, ErrorResponse, Release, Abandon
  <2> QED
    BY <2>1, <2>2, <2>3, CallWriters
<1>4. signed' \subseteq Ids
  BY <1>0, <1>3
<1>5. ASSUME NEW w \in Ids, w \in signed' \/ paid'[w] # 0
      PROVE  HasStatus(w, Payable)'
  <2>1. w \in signed' \/ paid[w] # 0
    <3>1. CASE Mine
      <4>1. paid'[w] # 0 => w \in signed \/ paid[w] # 0
        BY <3>1 DEF Mine, Inv, TypeOK
      <4>2. signed' = signed
        BY <3>1 DEF Mine
      <4> QED
        BY <1>5, <4>1, <4>2
    <3> QED
      BY <1>5, <3>1, ChainWriters
  <2>2. HasStatus(w, Payable)
    BY <1>3, <2>1 DEF Inv, SignedIsDebited, Payable
  <2> QED
    BY <2>2, PayableStays
<1> QED
  BY <1>2, <1>4, <1>5 DEF SignedIsDebited, Payable

-------------------------------------------------------------------------------
(* The settlement service.                                                 *)

ServiceT ==
    /\ onHold \in BOOLEAN /\ suspended \in BOOLEAN
    /\ cursor \in Nat /\ depositCursor \in Nat /\ latestBlock \in Nat
    /\ tick \in TickT
    /\ scan \in ScanT
    /\ faults \in 0..MaxFaults

(* What may change in a tick, field by field.                              *)
TickMoves ==
    /\ tick' \in TickT
    /\ tick'.current \in {tick.current, block, 0}
    /\ \A w \in tick'.todo : paid[w] # 0

(* The end of a range of blocks is a block.                                *)
LEMMA ToBlockType ==
  ASSUME block \in Nat, NEW c \in Nat
  PROVE  ToBlock(c) \in Int /\ ToBlock(c) <= block
                /\ (c + 1 <= ToBlock(c) => ToBlock(c) \in Nat)
<1>1. Confirmations \in Nat /\ MaxBlocks \in Nat
  BY WithdrawalsAssumption
<1> QED
  BY <1>1 DEF ToBlock

(* A failing call is counted up to its bound.                              *)
LEMMA FaultType ==
  ASSUME faults \in 0..MaxFaults, Fault
  PROVE  faults' \in 0..MaxFaults
<1>1. MaxFaults \in Nat
  BY WithdrawalsAssumption
<1> QED
  BY <1>1 DEF Fault

(* A move of the program counter alone.                                    *)
LEMMA TickToMoves ==
  ASSUME Inv, NEW pc \in {"pending", "blocks", "mature", "store"}, TickTo(pc)
  PROVE  TickMoves
<1>1. tick \in TickT /\ \A w \in tick.todo : paid[w] # 0
  BY DEF Inv, TypeOK, Receipts
<1>2. tick' = [tick EXCEPT !.pc = pc]
  BY DEF TickTo
<1>3. tick' \in TickT
  BY <1>1, <1>2 DEF TickT
<1>4. tick'.current = tick.current /\ tick'.todo = tick.todo
  BY <1>1, <1>2 DEF TickT
<1> QED
  BY <1>1, <1>3, <1>4 DEF TickMoves

(* The service keeps its types; a tick works on blocks and receipts of the *)
(* chain.                                                                  *)
LEMMA ServiceTyped ==
  ASSUME Inv, [Next]_vars
  PROVE  ServiceT' /\ TickMoves
<1>0. ServiceT /\ block \in Nat /\ \A w \in tick.todo : paid[w] # 0
  BY DEF Inv, TypeOK, ServiceT, Receipts
<1>s. ASSUME UNCHANGED tick
      PROVE  TickMoves
  BY <1>0, <1>s DEF TickMoves, ServiceT
<1>i. ASSUME tick' = IdleTick
      PROVE  TickMoves
  BY <1>i DEF TickMoves, IdleTick, TickT
<1>t. ASSUME TickMoves
      PROVE  tick' \in TickT
  BY <1>t DEF TickMoves
<1>1. CASE StartTick
  <2>1. TickMoves
    BY <1>1, TickToMoves DEF StartTick
  <2> QED
    BY <1>0, <1>1, <1>t, <2>1 DEF StartTick, ServiceT
<1>2. CASE TickSuspended
  <2>1. faults' \in 0..MaxFaults
    BY <1>0, <1>2, FaultType DEF TickSuspended, ServiceT
  <2> QED
    BY <1>0, <1>2, <1>s, <2>1 DEF TickSuspended, ServiceT
<1>3. CASE SuspendWithdrawals
  <2>1. TickMoves
    BY <1>3, TickToMoves DEF SuspendWithdrawals
  <2>2. faults' \in 0..MaxFaults
    BY <1>0, <1>3, FaultType DEF SuspendWithdrawals, ServiceT
  <2> QED
    BY <1>0, <1>3, <1>t, <2>1, <2>2 DEF SuspendWithdrawals, ServiceT
<1>4. CASE ProcessPendingWithdrawals
  <2>1. PICK pc \in {"blocks", "assign"} :
            tick' = [tick EXCEPT !.pc = pc, !.current = block]
    BY <1>4 DEF ProcessPendingWithdrawals
  <2>2. tick' \in TickT /\ tick'.current = block /\ tick'.todo = tick.todo
    BY <1>0, <2>1 DEF ServiceT, TickT
  <2>3. TickMoves
    BY <1>0, <2>2 DEF TickMoves
  <2> QED
    BY <1>0, <1>4, <2>2, <2>3 DEF ProcessPendingWithdrawals, ServiceT
<1>5. CASE \E w \in Ids : AssignDue(w)
  BY <1>0, <1>5, <1>s DEF AssignDue, ServiceT
<1>6. CASE \E w \in Ids : Mature(w)
  <2>1. TickMoves
    BY <1>6, TickToMoves DEF Mature
  <2> QED
    BY <1>0, <1>6, <1>t, <2>1 DEF Mature, ServiceT
<1>7. CASE MatureDone
  <2>1. TickMoves
    BY <1>7, TickToMoves DEF MatureDone
  <2> QED
    BY <1>0, <1>7, <1>t, <2>1 DEF MatureDone, ServiceT
<1>8. CASE NextBlocks
  <2>1. CASE tick' = IdleTick
    BY <1>0, <1>8, <1>i, <1>t, <2>1 DEF NextBlocks, ServiceT
  <2>2. CASE tick' # IdleTick
    <3>1. /\ cursor + 1 <= ToBlock(cursor)
          /\ tick' = [tick EXCEPT !.pc = "receipts", !.to = ToBlock(cursor),
                                  !.todo = ReceiptsIn(cursor + 1, ToBlock(cursor))]
      BY <1>8, <2>2 DEF NextBlocks
    <3>2. ToBlock(cursor) \in Nat
      BY <1>0, <3>1, ToBlockType DEF ServiceT
    <3>3. ReceiptsIn(cursor + 1, ToBlock(cursor)) \subseteq Ids
      BY DEF ReceiptsIn
    <3>4. /\ tick' \in TickT /\ tick'.current = tick.current
          /\ tick'.todo = ReceiptsIn(cursor + 1, ToBlock(cursor))
      BY <1>0, <3>1, <3>2, <3>3 DEF ServiceT, TickT
    <3>5. TickMoves
      BY <3>4 DEF TickMoves, ReceiptsIn
    <3> QED
      BY <1>0, <1>8, <3>4, <3>5 DEF NextBlocks, ServiceT
  <2> QED
    BY <2>1, <2>2
<1>9. CASE \E w \in Ids : CompletedWithdrawal(w)
  <2>1. PICK w \in Ids : tick' = [tick EXCEPT !.todo = @ \ {w}]
    BY <1>9 DEF CompletedWithdrawal
  <2>2. tick' \in TickT /\ tick'.current = tick.current /\ tick'.todo \subseteq tick.todo
    BY <1>0, <2>1 DEF ServiceT, TickT
  <2>3. TickMoves
    BY <1>0, <2>2 DEF TickMoves
  <2> QED
    BY <1>0, <1>9, <2>2, <2>3 DEF CompletedWithdrawal, ServiceT
<1>10. CASE ReceiptsDone
  <2>1. TickMoves
    BY <1>10, TickToMoves DEF ReceiptsDone
  <2> QED
    BY <1>0, <1>10, <1>t, <2>1 DEF ReceiptsDone, ServiceT, TickT
<1>11. CASE StoreLatest
  <2>1. TickMoves
    BY <1>11, TickToMoves DEF StoreLatest
  <2> QED
    BY <1>0, <1>11, <1>t, <2>1 DEF StoreLatest, ServiceT
<1>12. CASE TickFails
  <2>1. CASE tick' = IdleTick
    BY <1>0, <1>12, <1>i, <1>t, <2>1, FaultType DEF TickFails, ServiceT
  <2>2. CASE TickTo("blocks")
    <3>1. TickMoves
      BY <2>2, TickToMoves
    <3> QED
      BY <1>0, <1>12, <1>t, <3>1, FaultType DEF TickFails, ServiceT
  <2> QED
    BY <1>12, <2>1, <2>2 DEF TickFails, TickTo
<1>13. CASE ResetCursor
  <2>1. UNCHANGED <<onHold, depositCursor, service>> /\ cursor' = 0
    BY <1>13 DEF ResetCursor
  <2>2. faults' \in 0..MaxFaults
    BY <1>0, <1>13, FaultType DEF ResetCursor, ServiceT
  <2> QED
    BY <1>0, <1>s, <2>1, <2>2 DEF ServiceT
<1>14. CASE ScanBlocks
  <2>1. ToBlock(depositCursor) \in Nat
    BY <1>0, <1>14, ToBlockType DEF ScanBlocks, ServiceT
  <2> QED
    BY <1>0, <1>14, <1>s, <2>1 DEF ScanBlocks, ServiceT, ScanT
<1>15. CASE ScanDone
  BY <1>0, <1>15, <1>s DEF ScanDone, ServiceT, ScanT
<1>16. CASE StoreScanned
  BY <1>0, <1>16, <1>s DEF StoreScanned, ServiceT, ScanT, IdleScan
<1>17. CASE ScanFails
  BY <1>0, <1>17, <1>s, FaultType DEF ScanFails, ServiceT, ScanT, IdleScan
<1>18. CASE Restart
  BY <1>0, <1>18, <1>i, <1>t, FaultType DEF Restart, ServiceT, ScanT, IdleScan
<1>19. CASE UNCHANGED <<settings, service, faults>>
  BY <1>0, <1>19, <1>s DEF ServiceT
<1> QED
  BY <1>1, <1>2, <1>3, <1>4, <1>5, <1>6, <1>7, <1>8, <1>9, <1>10, <1>11, <1>12, <1>13,
     <1>14, <1>15, <1>16, <1>17, <1>18, <1>19, ServiceWriters
     DEF ServiceStep, TickStep, ScanStep

(* The chain grows to its bound and pays what is signed.                   *)
LEMMA ChainStep ==
  ASSUME Inv, [Next]_vars
  PROVE  /\ block' \in Nat /\ paid' \in [Ids -> Nat]
         /\ Bounded' /\ Receipts'
         /\ \A w \in Ids : paid[w] # 0 => paid'[w] = paid[w]
<1>0. /\ block \in Nat /\ paid \in [Ids -> Nat] /\ signed \subseteq Ids /\ tick \in TickT
      /\ Bounded /\ Receipts /\ LastBlock \in Nat
  BY WithdrawalsAssumption DEF Inv, TypeOK
<1>1. block' \in Nat /\ block <= block' /\ block' <= LastBlock
  BY <1>0, ChainWriters DEF Mine, Bounded
<1>2. /\ paid' \in [Ids -> Nat]
      /\ \A w \in Ids : /\ paid[w] # 0 => paid'[w] = paid[w]
                        /\ paid'[w] # 0 => paid[w] # 0 \/ w \in signed
  BY <1>0, <1>1, ChainWriters DEF Mine
<1>3. signed \subseteq signed'
  BY CallWriters DEF Call, RequestStep, AcquireLock, CheckWithdrawAllowed, ReadCache,
                     CreateWithdrawal, DoCancel, DoClaim, Sign, ErrorResponse, Release, Abandon
<1>4. TickMoves
  BY ServiceTyped
<1>5. Bounded'
  <2>1. tick.current \in Nat /\ tick.current <= block
    BY <1>0 DEF TickT, Bounded
  <2>2. tick'.current \in {tick.current, block, 0}
    BY <1>4 DEF TickMoves
  <2> QED
    BY <1>0, <1>1, <2>1, <2>2 DEF Bounded
<1>6. tick'.todo \subseteq Ids
  BY <1>4 DEF TickMoves, TickT
<1>7. Receipts'
  BY <1>0, <1>2, <1>3, <1>4, <1>6 DEF Receipts, TickMoves
<1> QED
  BY <1>1, <1>2, <1>5, <1>7

(* A cut off request is counted up to its bound.                           *)
LEMMA LostType ==
  ASSUME Inv, [Next]_vars
  PROVE  lost' \in 0..MaxLost
<1>1. lost \in 0..MaxLost /\ MaxLost \in Nat
  BY WithdrawalsAssumption DEF Inv, TypeOK
<1>2. UNCHANGED lost \/ (lost < MaxLost /\ lost' = lost + 1)
  BY CallWriters DEF Call, RequestStep, AcquireLock, CheckWithdrawAllowed, ReadCache,
                     CreateWithdrawal, DoCancel, DoClaim, Sign, ErrorResponse, Release, Abandon
<1> QED
  BY <1>1, <1>2

(* The invariant holds at the start.                                       *)
LEMMA InvInit ==
  ASSUME Init
  PROVE  Inv
<1> USE WithdrawalsAssumption DEF Init
<1>1. TypeOK
  <2>1. IdleRequest \in RequestT
    BY DEF IdleRequest, RequestT
  <2>2. IdleTick \in TickT /\ IdleScan \in ScanT
    BY DEF IdleTick, TickT, IdleScan, ScanT
  <2>3. /\ ops \in [Ids -> Row \cup {Nil}]
        /\ balance \in [Profiles -> Int]
        /\ lock \in [Profiles -> BOOLEAN]
        /\ paid \in [Ids -> Nat]
        /\ request \in [Requests -> RequestT]
    BY <2>1
  <2>4. onHold \in BOOLEAN /\ suspended \in BOOLEAN /\ signed \subseteq Ids
    OBVIOUS
  <2>5. /\ rolled \in Nat /\ cursor \in Nat /\ depositCursor \in Nat /\ latestBlock \in Nat
        /\ block \in Nat /\ faults \in 0..MaxFaults /\ lost \in 0..MaxLost
    OBVIOUS
  <2>6. tick \in TickT /\ scan \in ScanT
    BY <2>2
  <2> QED
    BY <2>3, <2>4, <2>5, <2>6 DEF TypeOK
<1>2. Bounded /\ Receipts
  BY DEF Bounded, Receipts, IdleTick
<1>3. \A r \in Requests : request[r].pc = "idle"
  BY DEF IdleRequest
<1>4. Holder /\ Exclusive /\ Allowed /\ Covered /\ Signing
  BY <1>3 DEF Holder, Exclusive, Allowed, Covered, Signing, Active
<1>5. SignedIsDebited
  BY DEF SignedIsDebited
<1> QED
  BY <1>1, <1>2, <1>4, <1>5 DEF Inv

(* Every step keeps it.                                                    *)
LEMMA InvNext ==
  ASSUME Inv, [Next]_vars
  PROVE  Inv'
<1>1. TypeOK'
  BY RowsAlong, BalanceLowered, LockHeld, ServiceTyped, ChainStep, SignedStep, LostType
     DEF TypeOK, ServiceT
<1> QED
  BY <1>1, ChainStep, LockHeld, AllowedStep, CoveredStep, SignedStep DEF Inv

-------------------------------------------------------------------------------
(* The invariant is one of the specification.                              *)
THEOREM Invariance == Spec => []Inv
  BY InvInit, InvNext, PTL DEF Spec

(* Every variable keeps its type: an amount never becomes negative, a row  *)
(* that is written exists (processing_withdrawal, completed_withdrawals).  *)
THEOREM TypeCorrect == Spec => []TypeOK
<1>1. Inv => TypeOK
  BY DEF Inv
<1> QED
  BY <1>1, Invariance, PTL

(* A withdrawal whose signature is out is never given back to the balance, *)
(* whatever cancels, claims, retries and failures come in between.         *)
THEOREM SignedStaysDebited == Spec => []SignedIsDebited
<1>1. Inv => SignedIsDebited
  BY DEF Inv
<1> QED
  BY <1>1, Invariance, PTL

(* No interleaving of API requests, not even one that loses its lock to a  *)
(* crash, lets a profile that is not white-listed have two unfinished      *)
(* withdrawals.                                                            *)
THEOREM AtMostOne == Spec => []OneInProgress
<1>1. ASSUME Init
      PROVE  OneInProgress
  BY <1>1 DEF Init, OneInProgress, Has, HasStatus
<1>2. ASSUME Inv, OneInProgress, [Next]_vars
      PROVE  OneInProgress'
  <2>1. SUFFICES ASSUME NEW p \in Profiles, p \notin WhiteList, NEW v \in Ids, NEW w \in Ids,
                        Has(v, p, InProgress)', Has(w, p, InProgress)'
                 PROVE  v = w
    BY DEF OneInProgress, Has, HasStatus, Statuses, InProgress
  <2>2. CASE Has(v, p, InProgress) /\ Has(w, p, InProgress)
    BY <1>2, <2>1, <2>2 DEF OneInProgress, Has, HasStatus, Statuses, InProgress
  <2>3. CASE \E r \in Requests : CreateWithdrawal(r) /\ request[r].profile = p
    <3>1. PICK r \in Requests : CreateWithdrawal(r) /\ request[r].profile = p
      BY <2>3
    <3>2. \A u \in Ids : ~Has(u, p, InProgress)
      BY <1>2, <3>1, <2>1 DEF Inv, Allowed, WithdrawAllowed, CreateWithdrawal, Proceed
    <3>3. ops[v] = Nil /\ ops[w] = Nil
      BY <1>2, <2>1, <3>2, InProgressFrom
    <3>4. PICK u \in Ids : \A t \in Ids : t # u => ops'[t] = ops[t]
      BY <1>2, <3>1 DEF CreateWithdrawal, Create, Inv, TypeOK
    <3> QED
      BY <2>1, <3>3, <3>4 DEF Has, HasStatus
  <2> QED
    BY <1>2, <2>1, <2>2, <2>3, InProgressFrom
<1> QED
  BY <1>1, <1>2, Invariance, PTL DEF Spec

(* Withdrawals never overdraw a balance, though what they subtract was read*)
(* in an earlier call.                                                     *)
THEOREM NoOverdraft == Spec => []NeverOverdrawn
<1>1. ASSUME Init
      PROVE  NeverOverdrawn
  BY <1>1, WithdrawalsAssumption DEF Init, NeverOverdrawn
<1>2. ASSUME Inv, NeverOverdrawn, [Next]_vars
      PROVE  NeverOverdrawn'
  <2>1. SUFFICES ASSUME NEW p \in Profiles, Funds[p] >= 0
                 PROVE  balance'[p] >= 0
    BY DEF NeverOverdrawn
  <2>2. balance[p] \in Int /\ balance[p] >= 0
    BY <1>2, <2>1 DEF NeverOverdrawn, Inv, TypeOK
  <2>3. balance'[p] \in Int
    BY <1>2, BalanceLowered
  <2>4. ASSUME NEW r \in Requests, CreateWithdrawal(r), request[r].profile = p,
               balance'[p] >= balance[p] - request[r].seen
        PROVE  balance'[p] >= 0
    <3>1. request[r].seen \in Int /\ request[r].seen <= balance[p]
      BY <1>2, <2>4 DEF Inv, TypeOK, RequestT, Covered, CreateWithdrawal, Proceed
    <3> QED
      BY <2>2, <2>3, <2>4, <3>1
  <2> QED
    BY <1>2, <2>2, <2>3, <2>4, BalanceLowered
<1> QED
  BY <1>1, <1>2, Invariance, PTL DEF Spec

(* A status only moves forward, whichever of client, settlement and        *)
(* operator comes last.                                                    *)
THEOREM ForwardOnly == Spec => StatusMovesForward
<1>1. ASSUME Inv, [Next]_vars
      PROVE  [\A w \in Ids : ops[w] # Nil =>
                ops'[w].status \in {ops[w].status} \cup Steps[ops[w].status]]_vars
  BY <1>1, RowsAlong DEF RowsMove
<1> QED
  BY <1>1, Invariance, PTL DEF Spec, StatusMovesForward

-------------------------------------------------------------------------------
(* The stored block number.                                                *)

(* Every receipt up to block b is in the rows.                             *)
Settled(b) ==
    b <= block /\ \A w \in Ids : paid[w] # 0 /\ paid[w] <= b => HasStatus(w, {"success"})

(* In the middle of a range its receipts are in the rows or still to do.   *)
Settling ==
    tick.pc = "receipts" =>
        /\ tick.to <= block
        /\ \A w \in Ids : paid[w] # 0 /\ paid[w] <= tick.to =>
              w \in tick.todo \/ HasStatus(w, {"success"})

(* The shared latestBlock is the tick's own until it is stored.            *)
OwnLatest == tick.pc = "store" => Settled(latestBlock)

Alternate == tick.pc # "idle" => scan.pc = "idle"

PaidBefore == \A w \in Ids : paid[w] <= block

CursorInv ==
    /\ Settled(cursor)
    /\ Settling
    /\ OwnLatest
    /\ Alternate
    /\ PaidBefore

(* A settled row stays settled.                                            *)
LEMMA SuccessStays ==
  ASSUME Inv, [Next]_vars, NEW w \in Ids, HasStatus(w, {"success"})
  PROVE  HasStatus(w, {"success"})'
<1>1. ops[w] # Nil /\ ops[w].status = "success"
  BY DEF HasStatus
<1>2. ops'[w] \in Row /\ ops'[w].status \in {ops[w].status} \cup Steps[ops[w].status]
  BY <1>1, RowsAlong DEF RowsMove
<1>3. ops'[w].status = "success" /\ ops'[w] # Nil
  BY <1>1, <1>2, WithdrawalsAssumption DEF Steps
<1> QED
  BY <1>3 DEF HasStatus

(* A new receipt is in a new block.                                        *)
LEMMA SettledStays ==
  ASSUME Inv, [Next]_vars, NEW b \in Nat, Settled(b)
  PROVE  Settled(b)'
<1>1. block \in Nat /\ block' \in Nat /\ paid \in [Ids -> Nat] /\ paid' \in [Ids -> Nat]
  BY ChainStep DEF Inv, TypeOK
<1>2. block <= block' /\ \A w \in Ids : paid'[w] = paid[w] \/ paid'[w] = block + 1
  BY <1>1, ChainWriters DEF Mine
<1>3. ASSUME NEW w \in Ids, paid'[w] # 0, paid'[w] <= b
      PROVE  HasStatus(w, {"success"})'
  <2>1. paid[w] # 0 /\ paid[w] <= b
    BY <1>1, <1>2, <1>3 DEF Settled
  <2> QED
    BY <2>1, SuccessStays DEF Settled
<1> QED
  BY <1>1, <1>2, <1>3 DEF Settled

(* While one handler serves both loops in turn, blocks up to the stored    *)
(* number are settled, with every failure, reset and restart.              *)
LEMMA CursorNext ==
  ASSUME ~TicksOverlap, Inv, CursorInv, [Next]_vars
  PROVE  CursorInv'
<1>0. /\ block \in Nat /\ cursor \in Nat /\ latestBlock \in Nat /\ paid \in [Ids -> Nat]
      /\ tick \in TickT /\ scan \in ScanT /\ ops \in [Ids -> Row \cup {Nil}]
      /\ tick.to \in Nat
  BY DEF Inv, TypeOK, TickT
<1>00. block' \in Nat /\ paid' \in [Ids -> Nat]
  BY ChainStep
<1>1. block <= block' /\ \A w \in Ids : paid'[w] = paid[w] \/ paid'[w] = block'
  BY <1>0, ChainWriters DEF Mine
<1>2. PaidBefore'
  BY <1>0, <1>00, <1>1 DEF CursorInv, PaidBefore
<1>3. Settled(0)
  BY <1>0 DEF Settled
<1>4. ASSUME UNCHANGED <<tick, latestBlock>>
      PROVE  Settling' /\ OwnLatest'
  <2>1. \A w \in Ids : paid'[w] = paid[w] \/ paid'[w] = block + 1
    BY <1>0, ChainWriters DEF Mine
  <2>2. ASSUME tick.pc = "receipts", NEW w \in Ids, paid'[w] # 0, paid'[w] <= tick.to
        PROVE  w \in tick.todo \/ HasStatus(w, {"success"})'
    <3>1. paid[w] # 0 /\ paid[w] <= tick.to
      BY <1>0, <1>00, <2>1, <2>2 DEF CursorInv, Settling
    <3> QED
      BY <2>2, <3>1, SuccessStays DEF CursorInv, Settling
  <2>3. tick.pc = "receipts" => tick.to <= block'
    BY <1>0, <1>00, <1>1 DEF CursorInv, Settling
  <2>4. Settling'
    BY <1>4, <2>2, <2>3 DEF Settling
  <2>5. OwnLatest'
    <3> SUFFICES ASSUME tick'.pc = "store"
                 PROVE  Settled(latestBlock)'
      BY DEF OwnLatest
    <3>1. PICK b \in Nat : b = latestBlock /\ b = latestBlock'
      BY <1>0, <1>4
    <3>2. Settled(b)
      BY <1>4, <3>1 DEF CursorInv, OwnLatest
    <3>3. Settled(b)'
      BY <3>2, SettledStays
    <3> QED
      BY <3>1, <3>3 DEF Settled
  <2> QED
    BY <2>4, <2>5
<1>5. ASSUME UNCHANGED cursor \/ cursor' = 0
      PROVE  Settled(cursor)'
  <2>1. PICK b \in Nat : b = cursor' /\ Settled(b)
    BY <1>0, <1>3, <1>5 DEF CursorInv
  <2>2. Settled(b)'
    BY <2>1, SettledStays
  <2> QED
    BY <2>1, <2>2 DEF Settled
<1>6. ASSUME tick'.pc \notin {"receipts", "store"}
      PROVE  Settling' /\ OwnLatest'
  BY <1>6 DEF Settling, OwnLatest
<1>7. CASE StartTick
  <2>1. tick'.pc = "pending" /\ scan'.pc = "idle" /\ cursor' = cursor
    BY <1>0, <1>7 DEF StartTick, TickTo, TickT
  <2> QED
    BY <1>2, <1>5, <1>6, <2>1 DEF CursorInv, Alternate
<1>8. CASE TickSuspended
  BY <1>2, <1>4, <1>5, <1>8 DEF TickSuspended, CursorInv, Alternate
<1>9. CASE SuspendWithdrawals \/ MatureDone \/ \E w \in Ids : Mature(w)
  <2>1. /\ tick'.pc \in {"blocks", "mature"} /\ cursor' = cursor /\ scan' = scan
        /\ tick.pc # "idle"
    BY <1>0, <1>9 DEF SuspendWithdrawals, MatureDone, Mature, SecondLoop, TickTo, TickT
  <2> QED
    BY <1>2, <1>5, <1>6, <2>1 DEF CursorInv, Alternate
<1>10. CASE ProcessPendingWithdrawals
  <2>1. /\ tick'.pc \in {"blocks", "assign"} /\ cursor' = cursor /\ scan' = scan
        /\ tick.pc # "idle"
    BY <1>0, <1>10 DEF ProcessPendingWithdrawals, TickT
  <2> QED
    BY <1>2, <1>5, <1>6, <2>1 DEF CursorInv, Alternate
<1>11. CASE \E w \in Ids : AssignDue(w)
  BY <1>2, <1>4, <1>5, <1>11 DEF AssignDue, CursorInv, Alternate
<1>12. CASE NextBlocks
  <2>1. cursor' = cursor /\ scan' = scan /\ tick.pc # "idle" /\ UNCHANGED <<ops, chain>>
    BY <1>12 DEF NextBlocks
  <2>2. CASE tick' = IdleTick
    BY <1>2, <1>5, <1>6, <2>1, <2>2 DEF CursorInv, Alternate, IdleTick
  <2>3. CASE tick' # IdleTick
    <3>1. PICK b \in Int : b = ToBlock(cursor) /\ b <= block
      BY <1>0, ToBlockType
    <3>2. tick' = [tick EXCEPT !.pc = "receipts", !.to = b,
                               !.todo = ReceiptsIn(cursor + 1, b)]
      BY <1>12, <2>3, <3>1 DEF NextBlocks
    <3>3. tick'.pc = "receipts" /\ tick'.to = b /\ tick'.todo = ReceiptsIn(cursor + 1, b)
      BY <1>0, <3>2 DEF TickT
    <3>4. ASSUME NEW w \in Ids, paid[w] # 0, paid[w] <= b
          PROVE  w \in ReceiptsIn(cursor + 1, b) \/ HasStatus(w, {"success"})
      <4>1. CASE paid[w] <= cursor
        BY <3>4, <4>1 DEF CursorInv, Settled
      <4>2. CASE paid[w] > cursor
        BY <1>0, <3>4, <4>2 DEF ReceiptsIn
      <4> QED
        BY <1>0, <4>1, <4>2
    <3>5. Settling'
      BY <2>1, <3>1, <3>3, <3>4 DEF Settling, HasStatus
    <3> QED
      BY <1>2, <1>5, <2>1, <3>3, <3>5 DEF CursorInv, Alternate, OwnLatest
  <2> QED
    BY <2>2, <2>3
<1>13. CASE \E w \in Ids : CompletedWithdrawal(w)
  <2>1. PICK w \in Ids : CompletedWithdrawal(w)
    BY <1>13
  <2>2. /\ cursor' = cursor /\ scan' = scan /\ UNCHANGED chain /\ tick.pc = "receipts"
        /\ w \in tick.todo
    BY <2>1 DEF CompletedWithdrawal
  <2>3. tick'.pc = "receipts" /\ tick'.to = tick.to /\ tick'.todo = tick.todo \ {w}
    BY <1>0, <2>1 DEF CompletedWithdrawal, TickT
  <2>4. HasStatus(w, {"success"})'
    <3>1. ops[w] \in Row
      BY <2>2, ReceiptRow
    <3>2. ops' = [ops EXCEPT ![w].status = "success"]
      BY <2>1 DEF CompletedWithdrawal, SetStatus
    <3>3. ops'[w].status = "success"
      BY <1>0, <3>1, <3>2 DEF Row
    <3>4. ops'[w] # Nil
      BY <3>1, RowsAlong, WithdrawalsAssumption DEF RowsMove
    <3> QED
      BY <3>3, <3>4 DEF HasStatus
  <2>5. ASSUME NEW v \in Ids, paid'[v] # 0, paid'[v] <= tick'.to
        PROVE  v \in tick'.todo \/ HasStatus(v, {"success"})'
    <3>1. v \in tick.todo \/ HasStatus(v, {"success"})
      BY <2>2, <2>3, <2>5 DEF CursorInv, Settling
    <3> QED
      BY <2>3, <2>4, <3>1, SuccessStays
  <2>6. Settling'
    BY <2>2, <2>3, <2>5 DEF Settling, CursorInv
  <2> QED
    BY <1>2, <1>5, <2>2, <2>3, <2>6 DEF CursorInv, Alternate, OwnLatest
<1>14. CASE ReceiptsDone
  <2>1. /\ cursor' = cursor /\ scan' = scan /\ UNCHANGED <<ops, chain>>
        /\ tick.pc = "receipts" /\ tick.todo = {} /\ latestBlock' = tick.to
    BY <1>14 DEF ReceiptsDone
  <2>2. tick'.pc = "store"
    BY <1>0, <1>14 DEF ReceiptsDone, TickTo, TickT
  <2>3. OwnLatest'
    BY <2>1, <2>2 DEF CursorInv, Settling, OwnLatest, Settled, HasStatus
  <2> QED
    BY <1>2, <1>5, <2>1, <2>2, <2>3 DEF CursorInv, Alternate, Settling
<1>15. CASE StoreLatest
  <2>1. /\ cursor' = latestBlock /\ scan' = scan /\ UNCHANGED <<ops, chain>>
        /\ tick.pc = "store"
    BY <1>15 DEF StoreLatest
  <2>2. tick'.pc = "blocks"
    BY <1>0, <1>15 DEF StoreLatest, TickTo, TickT
  <2>3. Settled(cursor)'
    BY <2>1 DEF CursorInv, OwnLatest, Settled, HasStatus
  <2> QED
    BY <1>2, <1>6, <2>1, <2>2, <2>3 DEF CursorInv, Alternate
<1>16. CASE TickFails
  <2>1. tick'.pc \in {"idle", "blocks"} /\ tick.pc # "idle" /\ scan' = scan /\ cursor' = cursor
    BY <1>0, <1>16 DEF TickFails, IdleTick, TickT
  <2> QED
    BY <1>2, <1>5, <1>6, <2>1 DEF CursorInv, Alternate
<1>17. CASE ResetCursor
  BY <1>2, <1>4, <1>5, <1>17 DEF ResetCursor, CursorInv, Alternate
<1>18. CASE ScanBlocks
  <2>1. tick' = tick /\ tick.pc = "idle" /\ cursor' = cursor
    BY <1>18 DEF ScanBlocks
  <2> QED
    BY <1>2, <1>5, <1>6, <2>1 DEF CursorInv, Alternate
<1>19. CASE ScanDone
  <2>1. tick' = tick /\ cursor' = cursor /\ tick.pc = "idle"
    BY <1>19 DEF ScanDone, CursorInv, Alternate
  <2> QED
    BY <1>2, <1>5, <1>6, <2>1 DEF CursorInv, Alternate
<1>20. CASE StoreScanned \/ ScanFails
  <2>1. UNCHANGED <<tick, cursor, latestBlock>> /\ scan'.pc = "idle"
    BY <1>20 DEF StoreScanned, ScanFails, IdleScan
  <2> QED
    BY <1>2, <1>4, <1>5, <2>1 DEF CursorInv, Alternate
<1>21. CASE Restart
  <2>1. tick'.pc = "idle" /\ cursor' = cursor
    BY <1>21 DEF Restart, IdleTick
  <2> QED
    BY <1>2, <1>5, <1>6, <2>1 DEF CursorInv, Alternate
<1>22. CASE UNCHANGED <<settings, service, faults>>
  BY <1>2, <1>4, <1>5, <1>22 DEF CursorInv, Alternate
<1> QED
  BY <1>7, <1>8, <1>9, <1>10, <1>11, <1>12, <1>13, <1>14, <1>15, <1>16, <1>17, <1>18,
     <1>19, <1>20, <1>21, <1>22, ServiceWriters DEF ServiceStep, TickStep, ScanStep

(* Receipts up to the stored block number are all in the rows, as long as  *)
(* the deposit scan and the withdrawal tick of a handler take turns (the   *)
(* run latest shows what happens when they do not).                        *)
THEOREM CursorSound ==
  ASSUME ~TicksOverlap
  PROVE  Spec => []CursorCoversReceipts
<1>1. ASSUME Init
      PROVE  CursorInv
  BY <1>1, WithdrawalsAssumption
     DEF Init, CursorInv, Settled, Settling, OwnLatest, Alternate, PaidBefore, IdleTick
<1>2. Inv /\ CursorInv /\ [Next]_vars => CursorInv'
  BY CursorNext
<1>3. CursorInv => CursorCoversReceipts
  BY DEF CursorInv, Settled, CursorCoversReceipts
<1> QED
  BY <1>1, <1>2, <1>3, Invariance, PTL DEF Spec

-------------------------------------------------------------------------------
(* Due blocks and suspension.                                              *)

(* Only the second loop of update_pending_withdrawals makes a row          *)
(* claimable.                                                              *)
LEMMA OnlyMature ==
  ASSUME Inv, [Next]_vars, NEW w \in Ids, BecomesClaimable(w)
  PROVE  Mature(w)
<1>0. /\ ops \in [Ids -> Row \cup {Nil}] /\ ops[w] \in Row
      /\ ops[w].status = "pending" /\ ops'[w].status = "claimable"
  BY DEF Inv, TypeOK, BecomesClaimable, HasStatus
<1>1. ASSUME NEW v \in Ids, NEW st, SetStatus(v, st)
      PROVE  st = "claimable"
  BY <1>0, <1>1 DEF SetStatus, Row
<1>2. ASSUME NEW r \in Requests, CreateWithdrawal(r)
      PROVE  FALSE
  <2>1. PICK v \in Ids : ops[v] = Nil /\ ops' = [ops EXCEPT ![v] = ops'[v]]
    BY <1>0, <1>2 DEF CreateWithdrawal, Create
  <2>2. ops[w] # Nil
    BY <1>0, WithdrawalsAssumption
  <2> QED
    BY <1>0, <2>1, <2>2
<1>3. ASSUME NEW v \in Ids, NEW p, Cancel(v, p)
      PROVE  FALSE
  BY <1>1, <1>3 DEF Cancel
<1>4. ASSUME NEW v \in Ids, NEW p, Claim(v, p)
      PROVE  FALSE
  BY <1>1, <1>4 DEF Claim
<1>5. ASSUME NEW v \in Ids, NEW p, ProcessingWithdrawal(p, v)
      PROVE  FALSE
  BY <1>1, <1>5 DEF ProcessingWithdrawal
<1>6. ASSUME NEW v \in Ids, AssignDue(v)
      PROVE  FALSE
  <2>1. PICK d : ops' = [ops EXCEPT ![v].due = tick.current + d]
    BY <1>6 DEF AssignDue
  <2>2. ops'[w].status = ops[w].status
    BY <1>0, <2>1 DEF Row
  <2> QED
    BY <1>0, <2>2
<1>7. ASSUME NEW v \in Ids, Mature(v)
      PROVE  v = w
  BY <1>0, <1>7 DEF Mature
<1>8. ASSUME NEW v \in Ids, CompletedWithdrawal(v)
      PROVE  FALSE
  BY <1>1, <1>8 DEF CompletedWithdrawal
<1>9. ops' # ops
  BY <1>0
<1> QED
  BY <1>2, <1>3, <1>4, <1>5, <1>6, <1>7, <1>8, <1>9, RowWriters
     DEF RowStep, DoCancel, DoClaim, CancelAllWithdrawals

(* No withdrawal is claimable before its due block, with every delay of the*)
(* tiers, however ticks, restarts and new blocks interleave.               *)
THEOREM DueFirst == Spec => NotBeforeDue
<1>1. ASSUME Inv, [Next]_vars
      PROVE  [\A w \in Ids : BecomesClaimable(w) => ops[w].due <= block]_vars
  <2>1. ASSUME NEW w \in Ids, BecomesClaimable(w)
        PROVE  ops[w].due <= block
    <3>1. Due(w) <= tick.current
      BY <1>1, <2>1, OnlyMature DEF Mature
    <3>2. ops[w] # Nil /\ ops[w] \in Row
      BY <1>1, <2>1 DEF BecomesClaimable, HasStatus, Inv, TypeOK
    <3>3. ops[w].due \in Nat /\ ops[w].due <= tick.current
      BY <3>1, <3>2 DEF Due, Row
    <3>4. tick.current \in Nat /\ block \in Nat /\ tick.current <= block
      BY <1>1 DEF Inv, TypeOK, TickT, Bounded
    <3> QED
      BY <3>3, <3>4
  <2> QED
    BY <2>1
<1> QED
  BY <1>1, Invariance, PTL DEF Spec, NotBeforeDue

(* A tick that runs while withdrawals are suspended is on its way out.     *)
Halted == onHold => tick.pc = "idle" \/ (tick.pc = "blocks" /\ suspended)

(* No step of the service leaves that state.                               *)
LEMMA HaltedNext ==
  ASSUME Inv, Halted, [Next]_vars
  PROVE  /\ Halted'
         /\ onHold => cursor' \in {cursor, 0} /\ \A w \in Ids : ~Mature(w)
<1>0. tick \in TickT
  BY DEF Inv, TypeOK
<1>1. CASE StartTick \/ TickSuspended \/ SuspendWithdrawals \/ ProcessPendingWithdrawals
  BY <1>0, <1>1 DEF StartTick, TickSuspended, SuspendWithdrawals, ProcessPendingWithdrawals,
                    Halted, TickTo, TickT, Mature, SecondLoop
<1>2. CASE MatureDone \/ \E w \in Ids : AssignDue(w) \/ Mature(w)
  BY <1>0, <1>2 DEF MatureDone, AssignDue, Mature, SecondLoop, Halted
<1>3. CASE NextBlocks
  BY <1>0, <1>3 DEF NextBlocks, Halted, IdleTick, Mature, SecondLoop
<1>4. CASE ReceiptsDone \/ StoreLatest \/ \E w \in Ids : CompletedWithdrawal(w)
  BY <1>0, <1>4 DEF ReceiptsDone, StoreLatest, CompletedWithdrawal, Halted
<1>5. CASE TickFails
  BY <1>0, <1>5 DEF TickFails, Halted, IdleTick, Mature, SecondLoop
<1>6. CASE ResetCursor
  BY <1>6 DEF ResetCursor, Halted, Mature, SecondLoop
<1>7. CASE ScanStep \/ ScanFails
  BY <1>7 DEF ScanStep, ScanBlocks, ScanDone, StoreScanned, ScanFails, Halted, Mature,
              SecondLoop
<1>8. CASE Restart
  BY <1>8 DEF Restart, IdleTick, Halted, Mature, SecondLoop
<1>9. CASE UNCHANGED <<settings, service, faults>>
  BY <1>9 DEF Halted, Mature, SecondLoop
<1> QED
  BY <1>1, <1>2, <1>3, <1>4, <1>5, <1>6, <1>7, <1>8, <1>9, ServiceWriters
     DEF ServiceStep, TickStep

(* Suspension stops maturing and receipts, though the flag that the loops  *)
(* test is a copy of the one in the instance.                              *)
THEOREM SuspensionStops == Spec => SuspensionHolds
<1>1. ASSUME Init
      PROVE  Halted
  BY <1>1 DEF Init, Halted
<1>2. ASSUME Inv, Halted, [Next]_vars
      PROVE  /\ Halted'
             /\ [onHold => /\ \A w \in Ids : ~BecomesClaimable(w)
                           /\ cursor' \in {cursor, 0}]_vars
  BY <1>2, HaltedNext, OnlyMature
<1> QED
  BY <1>1, <1>2, Invariance, PTL DEF Spec, SuspensionHolds

-------------------------------------------------------------------------------
(* Money.                                                                  *)

(* What a row takes is a number, and so is what all rows take.             *)
LEMMA DebitType ==
  ASSUME NEW rows \in [Ids -> Row \cup {Nil}], NEW p
  PROVE  (\A w \in Ids : Debit(rows[w], p) \in Int) /\ Withdrawn(rows, p) \in Int
<1>1. ASSUME NEW w \in Ids
      PROVE  Debit(rows[w], p) \in Int
  BY DEF Debit, Row
<1> DEFINE f == [w \in Ids |-> Debit(rows[w], p)]
<1>2. \A w \in Ids : f[w] \in Int
  BY <1>1
<1> HIDE DEF f
<1>3. SumFunctionOnSet(f, Ids) \in Int
  BY <1>2, IdsFinite, SumType
<1> QED
  BY <1>1, <1>3 DEF Withdrawn, f

(* One row changes.                                                        *)
LEMMA WithdrawnChange ==
  ASSUME NEW rows \in [Ids -> Row \cup {Nil}], NEW later \in [Ids -> Row \cup {Nil}],
         NEW w \in Ids, \A v \in Ids \ {w} : later[v] = rows[v], NEW p
  PROVE  Withdrawn(later, p)
           = Withdrawn(rows, p) - Debit(rows[w], p) + Debit(later[w], p)
<1> DEFINE f == [v \in Ids |-> Debit(rows[v], p)]
           g == [v \in Ids |-> Debit(later[v], p)]
<1>1. \A v \in Ids : f[v] \in Int /\ g[v] \in Int
  BY DebitType
<1>2. \A v \in Ids \ {w} : f[v] = g[v]
  OBVIOUS
<1>3. f[w] = Debit(rows[w], p) /\ g[w] = Debit(later[w], p)
  OBVIOUS
<1>4. Withdrawn(rows, p) = SumFunctionOnSet(f, Ids)
      /\ Withdrawn(later, p) = SumFunctionOnSet(g, Ids)
  BY DEF Withdrawn
<1> HIDE DEF f, g
<1>5. SumFunctionOnSet(g, Ids) = SumFunctionOnSet(f, Ids) - f[w] + g[w]
  BY <1>1, <1>2, IdsFinite, SumChange
<1> QED
  BY <1>3, <1>4, <1>5

(* A step that settles what it changes in one row with the balances.       *)
Booked(w) ==
    /\ \A v \in Ids \ {w} : ops'[v] = ops[v]
    /\ \A p \in Profiles :
          balance'[p] = balance[p] + Debit(ops[w], p) - Debit(ops'[w], p)

(* A row that only moves on takes what it took.                            *)
LEMMA MovesOn ==
  ASSUME Inv, NEW w \in Ids, NEW row \in Row, ops[w] \in Row,
         ops' = [ops EXCEPT ![w] = row], UNCHANGED balance,
         row.profile = ops[w].profile, row.amount = ops[w].amount,
         row.status = "canceled" <=> ops[w].status = "canceled"
  PROVE  Booked(w)
<1>1. ops' [w] = row /\ \A v \in Ids \ {w} : ops'[v] = ops[v]
  BY DEF Inv, TypeOK
<1>2. ops[w] # Nil /\ row # Nil
  BY WithdrawalsAssumption
<1>3. ASSUME NEW p \in Profiles
      PROVE  balance'[p] = balance[p] + Debit(ops[w], p) - Debit(ops'[w], p)
  <2>1. Debit(ops'[w], p) = Debit(ops[w], p) /\ Debit(ops[w], p) \in Int
    BY <1>1, <1>2 DEF Debit, Row
  <2>2. balance[p] \in Int
    BY DEF Inv, TypeOK
  <2> QED
    BY <2>1, <2>2
<1> QED
  BY <1>1, <1>3 DEF Booked

(* Every write of the rows is booked.                                      *)
LEMMA AllBooked ==
  ASSUME Inv, [Next]_vars
  PROVE  UNCHANGED <<ops, balance>> \/ \E w \in Ids : Booked(w)
<1>0. ops \in [Ids -> Row \cup {Nil}] /\ balance \in [Profiles -> Int]
  BY DEF Inv, TypeOK
<1>1. ASSUME NEW r \in Requests, CreateWithdrawal(r)
      PROVE  \E w \in Ids : Booked(w)
  <2>1. request[r].profile \in Profiles /\ request[r].seen \in Nat
    BY <1>1 DEF Inv, TypeOK, RequestT, Holder, Active, Covered, CreateWithdrawal, Proceed
  <2>2. PICK w \in Ids, amount \in Amounts :
               Create(w, request[r].profile, Available(request[r].seen, amount))
    BY <1>1 DEF CreateWithdrawal
  <2> DEFINE a == Available(request[r].seen, amount)
             q == request[r].profile
  <2>3. a \in Nat
    BY <2>1, AvailableBound
  <2>4. ops[w] = Nil /\ ops' = [ops EXCEPT ![w] = NewRow(q, a)]
        /\ balance' = [balance EXCEPT ![q] = @ - a]
    BY <2>2 DEF Create
  <2> HIDE DEF a, q
  <2>5. /\ NewRow(q, a) \in Row
        /\ NewRow(q, a).profile = q /\ NewRow(q, a).amount = a
        /\ NewRow(q, a).status = "pending"
    BY <2>1, <2>3 DEF NewRow, Row, Statuses, q
  <2>6. ops'[w] = NewRow(q, a) /\ ops'[w] # Nil /\ \A v \in Ids \ {w} : ops'[v] = ops[v]
    BY <1>0, <2>4, <2>5, WithdrawalsAssumption
  <2>7. ASSUME NEW p \in Profiles
        PROVE  balance'[p] = balance[p] + Debit(ops[w], p) - Debit(ops'[w], p)
    <3>1. Debit(ops[w], p) = 0 /\ Debit(ops'[w], p) = IF p = q THEN a ELSE 0
      BY <2>4, <2>5, <2>6 DEF Debit
    <3>2. balance'[p] = IF p = q THEN balance[p] - a ELSE balance[p]
      BY <1>0, <2>4
    <3> QED
      BY <1>0, <2>3, <3>1, <3>2
  <2> QED
    BY <2>6, <2>7 DEF Booked
<1>2. ASSUME NEW w \in Ids, NEW q, Cancel(w, q)
      PROVE  Booked(w)
  <2> DEFINE row == [ops[w] EXCEPT !.status = "canceled"]
  <2>1. /\ ops[w] \in Row /\ ops[w] # Nil /\ ops[w].profile = q /\ q \in Profiles
        /\ ops[w].status # "canceled" /\ ops[w].amount \in Nat
    BY <1>0, <1>2 DEF Cancel, Has, HasStatus, Cancelable, Row
  <2>2. ops' = [ops EXCEPT ![w] = row] /\ balance' = [balance EXCEPT ![q] = @ + ops[w].amount]
    BY <1>2 DEF Cancel, SetStatus
  <2>3. row.status = "canceled"
    BY <2>1 DEF Row
  <2> HIDE DEF row
  <2>4. ops'[w] = row /\ \A v \in Ids \ {w} : ops'[v] = ops[v]
    BY <1>0, <2>2
  <2>5. ASSUME NEW p \in Profiles
        PROVE  balance'[p] = balance[p] + Debit(ops[w], p) - Debit(ops'[w], p)
    <3>1. /\ Debit(ops[w], p) = IF p = q THEN ops[w].amount ELSE 0
          /\ Debit(ops'[w], p) = 0
      BY <2>1, <2>3, <2>4 DEF Debit
    <3>2. balance'[p] = IF p = q THEN balance[p] + ops[w].amount ELSE balance[p]
      BY <1>0, <2>2
    <3> QED
      BY <1>0, <2>1, <3>1, <3>2
  <2> QED
    BY <2>4, <2>5 DEF Booked
<1>3. ASSUME NEW w \in Ids, NEW s \in Statuses \ {"canceled"}, ops[w] \in Row,
             ops[w].status # "canceled", SetStatus(w, s), UNCHANGED balance
      PROVE  Booked(w)
  <2> DEFINE row == [ops[w] EXCEPT !.status = s]
  <2>1. /\ row \in Row /\ row.profile = ops[w].profile /\ row.amount = ops[w].amount
        /\ row.status = s
    BY <1>3 DEF Row
  <2>2. ops' = [ops EXCEPT ![w] = row]
    BY <1>3 DEF SetStatus
  <2> HIDE DEF row
  <2> QED
    BY <1>3, <2>1, <2>2, MovesOn
<1>4. ASSUME NEW w \in Ids, NEW p, Claim(w, p)
      PROVE  Booked(w)
  BY <1>0, <1>3, <1>4 DEF Claim, Has, HasStatus, Statuses
<1>5. ASSUME NEW w \in Ids, NEW p, ProcessingWithdrawal(p, w)
      PROVE  Booked(w)
  BY <1>0, <1>3, <1>5 DEF ProcessingWithdrawal, Has, HasStatus, Statuses
<1>6. ASSUME NEW w \in Ids, CompletedWithdrawal(w)
      PROVE  Booked(w)
  BY <1>3, <1>6, ReceiptRow DEF CompletedWithdrawal, Payable, Statuses
<1>7. ASSUME NEW w \in Ids, AssignDue(w)
      PROVE  Booked(w)
  <2>1. ops[w] \in Row
    BY <1>7, DueRow DEF AssignDue
  <2>2. PICK d \in Nat : ops' = [ops EXCEPT ![w].due = tick.current + d]
    BY <1>7, DelayType DEF AssignDue
  <2> DEFINE row == [ops[w] EXCEPT !.due = tick.current + d]
  <2>3. tick.current \in Nat
    BY DEF Inv, TypeOK, TickT
  <2>4. /\ row \in Row /\ row.profile = ops[w].profile /\ row.amount = ops[w].amount
        /\ row.status = ops[w].status
    BY <2>1, <2>3 DEF Row
  <2>5. ops' = [ops EXCEPT ![w] = row] /\ UNCHANGED balance
    BY <1>7, <2>2 DEF AssignDue
  <2> HIDE DEF row
  <2> QED
    BY <2>1, <2>4, <2>5, MovesOn
<1>8. ASSUME NEW w \in Ids, Mature(w)
      PROVE  Booked(w)
  <2> DEFINE row == Matured(ops[w])
  <2>1. ops[w] \in Row
    BY <1>8, DueRow DEF Mature
  <2>2. /\ row \in Row /\ row.profile = ops[w].profile /\ row.amount = ops[w].amount
    BY <2>1, WithdrawalsAssumption DEF Matured, Row, Statuses
  <2>3. row.status = IF ops[w].status = "pending" THEN "claimable" ELSE ops[w].status
    BY <2>1 DEF Matured, Row
  <2>4. ops' = [ops EXCEPT ![w] = row] /\ UNCHANGED balance
    BY <1>8 DEF Mature
  <2> HIDE DEF row
  <2> QED
    BY <2>1, <2>2, <2>3, <2>4, MovesOn
<1> QED
  BY <1>1, <1>2, <1>4, <1>5, <1>6, <1>7, <1>8, RowWriters
     DEF RowStep, DoCancel, DoClaim, CancelAllWithdrawals

(* Money is never made or lost: the balance of a profile and what its      *)
(* withdrawals hold always add up to its funds (create_withdrawal,         *)
(* cancel_withdrawal, and every other write of a row).                     *)
THEOREM NothingLost == Spec => []BalanceConserved
<1>1. Init => BalanceConserved
  <2> SUFFICES ASSUME Init, NEW p \in Profiles
               PROVE  balance[p] = Funds[p] - Withdrawn(ops, p)
    BY DEF BalanceConserved
  <2> DEFINE f == [w \in Ids |-> Debit(ops[w], p)]
  <2>1. \A w \in Ids : f[w] = 0
    BY DEF Init, Debit
  <2>2. Withdrawn(ops, p) = SumFunctionOnSet(f, Ids)
    BY DEF Withdrawn
  <2> HIDE DEF f
  <2>3. Withdrawn(ops, p) = 0
    BY <2>1, <2>2, IdsFinite, SumZero
  <2>4. balance[p] = Funds[p] /\ Funds[p] \in Int
    BY WithdrawalsAssumption DEF Init
  <2> QED
    BY <2>3, <2>4
<1>2. ASSUME Inv, BalanceConserved, [Next]_vars
      PROVE  BalanceConserved'
  <2>1. CASE UNCHANGED <<ops, balance>>
    BY <1>2, <2>1 DEF BalanceConserved, Withdrawn, Debit
  <2>2. ASSUME NEW w \in Ids, Booked(w), NEW p \in Profiles
        PROVE  balance'[p] = Funds[p] - Withdrawn(ops', p)
    <3>1. ops \in [Ids -> Row \cup {Nil}] /\ ops' \in [Ids -> Row \cup {Nil}]
      BY <1>2, RowsAlong DEF Inv, TypeOK
    <3>2. Withdrawn(ops', p) = Withdrawn(ops, p) - Debit(ops[w], p) + Debit(ops'[w], p)
      BY <2>2, <3>1, WithdrawnChange DEF Booked
    <3>3. /\ Withdrawn(ops, p) \in Int /\ Debit(ops[w], p) \in Int
          /\ Debit(ops'[w], p) \in Int /\ Funds[p] \in Int
      BY <2>2, <3>1, DebitType, WithdrawalsAssumption
    <3>4. balance[p] = Funds[p] - Withdrawn(ops, p)
      BY <1>2, <2>2 DEF BalanceConserved
    <3>5. balance'[p] = balance[p] + Debit(ops[w], p) - Debit(ops'[w], p)
      BY <2>2 DEF Booked
    <3> QED
      BY <3>2, <3>3, <3>4, <3>5
  <2>3. ASSUME NEW w \in Ids, Booked(w)
        PROVE  BalanceConserved'
    BY <2>2, <2>3 DEF BalanceConserved
  <2> QED
    BY <1>2, <2>1, <2>3, AllBooked
<1> QED
  BY <1>1, <1>2, Invariance, PTL DEF Spec

(* What the concurrent requests of a profile may never do, together: two   *)
(* withdrawals at once, an overdraft, or giving back what was signed.      *)
THEOREM Safe == Spec => []WithdrawalsSafe
<1>1. TypeOK /\ OneInProgress /\ NeverOverdrawn /\ SignedIsDebited => WithdrawalsSafe
  BY DEF WithdrawalsSafe
<1> QED
  BY <1>1, TypeCorrect, AtMostOne, NoOverdraft, SignedStaysDebited, PTL

(* How a withdrawal advances: only forward, not before it is due, and not  *)
(* during a suspension.                                                    *)
THEOREM Advances == Spec => WithdrawalsAdvance
  BY DueFirst, ForwardOnly, SuspensionStops DEF WithdrawalsAdvance

===============================================================================
