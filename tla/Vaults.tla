--------------------------------- MODULE Vaults ---------------------------------
(***************************************************************************)
(* Shares of a vault.                                                      *)
(*                                                                         *)
(* A staker pays into a vault from the chain (HandleStake announces the    *)
(* transaction, stakeHandler of the settlement service credits its event)  *)
(* or from the exchange balance (HandleStakeFromBalance), and asks for it  *)
(* back (BeginUnstake).  The vault's owner pays a range of requests        *)
(* (ProcessUnstakes).  Every handler makes several calls to the profile    *)
(* instance, where one call is one transaction (balance.lua); what a       *)
(* handler read in one call may be stale in the next.                      *)
(*                                                                         *)
(* The equity of the vault is its balance and the unrealized profit of its *)
(* positions, which moves between the calls.  Entry prices are left out:   *)
(* the performance charge is any part of the paid value up to the fee.     *)
(***************************************************************************)
EXTENDS Integers, FiniteSets, FiniteSetsExt, Functions

CONSTANTS
    Stakers,          \* profiles that may stake
    TheVault,         \* profile of the vault
    Treasurer,        \* profile that receives the performance charge
    StakeTxs,         \* transactions that stake on the chain
    StakeTx,          \* their [staker, amount]
    VaultRequests,    \* concurrent API requests
    Unstakes,         \* numbers of unstake_id_sequence; bound: how many exist
    StakeFunds,       \* balance of each profile at the start
    StakeAmounts,     \* amounts of a stake from the balance
    ShareAmounts,     \* shares a staker may ask back
    Profits,          \* values of the vault's unrealized profit
    FeePercent,       \* performance_fee of the vault, in percent
    MaxVaultCalls,    \* bound: API requests, moves of the profit and liquidations
    NoRow             \* no row

VaultProfiles == Stakers \cup {TheVault, Treasurer}

UnstakeStatus == {"requested", "canceled", "success"}

(* The rows u_<n> and vus_u_<n> of a request.                              *)
UnstakeRows == [staker : Stakers, shares : ShareAmounts,
                status : UnstakeStatus, mirror : UnstakeStatus]

ASSUME VaultsAssumption ==
    /\ TheVault \notin Stakers /\ Treasurer \notin Stakers /\ TheVault # Treasurer
    /\ IsFiniteSet(Stakers) /\ IsFiniteSet(StakeTxs) /\ IsFiniteSet(Unstakes)
    /\ StakeTx \in [StakeTxs -> [staker : Stakers, amount : Nat \ {0}]]
    /\ Unstakes \subseteq Nat
    /\ StakeFunds \in [VaultProfiles -> Nat]
    /\ StakeAmounts \subseteq Nat \ {0} /\ ShareAmounts \subseteq Nat \ {0}
    /\ Profits \subseteq Int /\ 0 \in Profits
    /\ FeePercent \in 0 .. 99
    /\ MaxVaultCalls \in Nat
    /\ NoRow \notin UnstakeRows

VARIABLES
    vault,          \* row of space vaults
    holding,        \* shares in space vault_holdings
    sharesIssued,   \* sum of a staker's rows of type stake_shares
    unstake,        \* the rows u_<n> and vus_u_<n> of an unstake request
    money,          \* space balance_sum
    profit,         \* unrealized profit of the vault's positions
    stakeRow,       \* status of the row with the transaction's hash that HandleStake made
    credited,       \* transactions whose ops_id2 is taken
    mined,          \* transactions on the chain
    vaultLocks,     \* spaces withdraw_lock, stake_lock, unstake_lock
    vaultRequest,   \* API requests under way
    staking,        \* the event stakeHandler is working on
    wiping,         \* holdings that liquidated_vaults has still to reset
    liquidated,     \* was the vault ever liquidated?
    vaultCalls      \* requests, moves and liquidations so far

vaultRows == <<vault, holding, sharesIssued, unstake, money, stakeRow, credited>>
vaultVars == <<vaultRows, profit, mined, vaultLocks, vaultRequest, vaultCalls, staking,
               wiping, liquidated>>

NoRequest == [op |-> "none", pc |-> "idle", lock |-> NoRow, arg |-> NoRow,
              nav |-> 0, withdrawable |-> 0, shares |-> 0]

VaultInit ==
    /\ vault = [status |-> "active", shares |-> 0]
    /\ holding = [s \in Stakers |-> 0]
    /\ sharesIssued = [s \in Stakers |-> 0]
    /\ unstake = [n \in Unstakes |-> NoRow]
    /\ money = StakeFunds
    /\ profit = 0
    /\ stakeRow = [t \in StakeTxs |-> "none"]
    /\ credited = {}
    /\ mined = {}
    /\ vaultLocks = {}
    /\ vaultRequest = [r \in VaultRequests |-> NoRequest]
    /\ staking = [tx |-> NoRow, nav |-> 0]
    /\ wiping = {}
    /\ liquidated = FALSE
    /\ vaultCalls = 0

-------------------------------------------------------------------------------
(* The transactions of the profile instance.                               *)

(* AccountEquity and WithdrawableBalance of the vault's cache.             *)
Equity == money[TheVault] + profit

VaultWithdrawable == money[TheVault] + (IF profit < 0 THEN profit ELSE 0)

(* Mutant: the row's status is not compared.                               *)
RequestedEver(n) == unstake[n] # NoRow

Requested(n) == unstake[n] # NoRow /\ unstake[n].status = "requested"

SettleUnstake(ns, status) ==
    unstake' = [n \in Unstakes |->
        IF n \in ns THEN [unstake[n] EXCEPT !.status = status, !.mirror = status]
        ELSE unstake[n]]

create_stake(t) ==
    /\ stakeRow' = [stakeRow EXCEPT ![t] = "pending"]
    /\ UNCHANGED <<vault, holding, sharesIssued, unstake, money, credited>>

(* The checks of process_stake that end in a rollback.                     *)
StakeAccepted(nav) == vault.status = "active" /\ (vault.shares = 0 \/ nav > 1)

(* Shares for an amount at the equity the caller read.                     *)
NewShares(amount, nav) ==
    IF vault.shares = 0 THEN amount ELSE (amount * vault.shares) \div nav

IssueShares(s, n) ==
    /\ vault' = [vault EXCEPT !.shares = @ + n]
    /\ holding' = [holding EXCEPT ![s] = @ + n]
    /\ sharesIssued' = [sharesIssued EXCEPT ![s] = @ + n]

NewStake(t) == t \notin credited

(* process_stake for an event: the row of the transaction is upserted.  A  *)
(* row that is pending or canceled becomes a success.                      *)
process_stake(t, nav) ==
    LET s == StakeTx[t].staker
        amount == StakeTx[t].amount
    IN  IF NewStake(t) /\ StakeAccepted(nav)
        THEN /\ credited' = credited \cup {t}
             /\ stakeRow' = [stakeRow EXCEPT ![t] = IF @ = "none" THEN @ ELSE "success"]
             /\ money' = [money EXCEPT ![TheVault] = @ + amount]
             /\ IssueShares(s, NewShares(amount, nav))
             /\ UNCHANGED unstake
        ELSE UNCHANGED vaultRows

(* process_stake from the balance: only the balance is compared.           *)
process_stake_from_balance(s, amount, nav) ==
    IF money[s] >= amount /\ StakeAccepted(nav)
    THEN /\ money' = [money EXCEPT ![s] = @ - amount, ![TheVault] = @ + amount]
         /\ IssueShares(s, NewShares(amount, nav))
         /\ UNCHANGED <<unstake, stakeRow, credited>>
    ELSE UNCHANGED vaultRows

NoOpenRequest(s) == ~ \E n \in Unstakes : Requested(n) /\ unstake[n].staker = s

(* One request per staker, and no more than the holding.                   *)
create_unstake(s, shares) ==
    IF /\ NoOpenRequest(s)
       /\ vault.status = "active"
       /\ shares <= vault.shares /\ shares <= holding[s]
       /\ \E n \in Unstakes : unstake[n] = NoRow
    THEN /\ unstake' = [unstake EXCEPT ![Min({n \in Unstakes : unstake[n] = NoRow})] =
                [staker |-> s, shares |-> shares, status |-> "requested",
                 mirror |-> "requested"]]
         /\ UNCHANGED <<vault, holding, sharesIssued, money, stakeRow, credited>>
    ELSE UNCHANGED vaultRows

Cancelable(n) == Requested(n)

cancel_unstake(s, n) ==
    IF Cancelable(n) /\ unstake[n].staker = s
    THEN /\ SettleUnstake({n}, "canceled")
         /\ UNCHANGED <<vault, holding, sharesIssued, money, stakeRow, credited>>
    ELSE UNCHANGED vaultRows

(* The performance charge is a part of a gain.                             *)
Fee(value) == IF value > 0 THEN (value * FeePercent) \div 100 ELSE 0

Covered(n, total) ==
    unstake[n].shares <= total /\ unstake[n].shares <= holding[unstake[n].staker]

(* process_unstakes: the requests of the range that the holdings cover, in *)
(* one transaction, at the equity and total the caller read.  It rolls     *)
(* back when they exceed the withdrawable balance or the balance.  Every   *)
(* request stores "total_shares - unstake_shares" of the total it was      *)
(* given, so the last one decides (the index orders ids as strings).  With *)
(* a negative equity the values are negative, what remains withdrawable    *)
(* grows, and the first one decides.                                       *)
process_unstakes(range, nav, withdrawable, total) ==
    LET due == {n \in range : Requested(n) /\ Covered(n, total)}
        value == [n \in due |-> (nav * unstake[n].shares) \div total]
        sum == SumFunctionOnSet(value, due)
        Of(s) == {n \in due : unstake[n].staker = s}
    IN  \/ /\ \/ due = {} \/ sum > withdrawable \/ sum > money[TheVault]
              \/ \E first \in due : value[first] > withdrawable
           /\ UNCHANGED vaultRows
        \/ /\ sum <= withdrawable /\ sum <= money[TheVault]
           /\ \E first \in due : value[first] <= withdrawable
           /\ \E last \in due, charge \in [due -> 0 .. Fee(sum)] :
              /\ \A n \in due : charge[n] <= Fee(value[n])
              /\ vault' = [vault EXCEPT !.shares = total - unstake[last].shares]
              /\ holding' = [s \in Stakers |->
                     holding[s] - SumFunctionOnSet([n \in due |-> unstake[n].shares], Of(s))]
              /\ money' = [p \in VaultProfiles |->
                     CASE p = TheVault  -> money[p] - sum
                       [] p = Treasurer -> money[p] + SumFunctionOnSet(charge, due)
                       [] OTHER -> money[p]
                            + SumFunctionOnSet([n \in due |-> value[n] - charge[n]], Of(p))]
              /\ SettleUnstake(due, "success")
              /\ UNCHANGED <<sharesIssued, stakeRow, credited>>

-------------------------------------------------------------------------------
(* The API handlers.  A handler that fails to take its lock changes        *)
(* nothing; after that every error leads to the deferred release.          *)

BeginRequest(r, op, lock, arg) ==
    /\ vaultRequest[r] = NoRequest /\ vaultCalls < MaxVaultCalls
    /\ lock \notin vaultLocks
    /\ vaultCalls' = vaultCalls + 1
    /\ vaultLocks' = vaultLocks \cup {lock}
    /\ vaultRequest' = [vaultRequest EXCEPT ![r] =
           [NoRequest EXCEPT !.op = op, !.pc = "call", !.lock = lock, !.arg = arg]]
    /\ UNCHANGED vaultRows

InStep(r, op, pc) == vaultRequest[r].op = op /\ vaultRequest[r].pc = pc

GoTo(r, pc) ==
    vaultRequest' = [vaultRequest EXCEPT ![r].pc = pc] /\ UNCHANGED vaultCalls

(* The last call of a handler, and the lock is still held.                 *)
Finish(r) == GoTo(r, "release") /\ UNCHANGED vaultLocks

Caller(r) == vaultRequest[r].lock[2]

Release(r) ==
    /\ vaultRequest[r].pc # "idle"
    /\ vaultLocks' = vaultLocks \ {vaultRequest[r].lock}
    /\ vaultRequest' = [vaultRequest EXCEPT ![r] = NoRequest]
    /\ UNCHANGED <<vaultRows, vaultCalls>>

HandleStake(r) ==
    \/ \E t \in StakeTxs : stakeRow[t] = "none"
                           /\ BeginRequest(r, "stake", <<"stake", StakeTx[t].staker>>, t)
    \/ InStep(r, "stake", "call") /\ create_stake(vaultRequest[r].arg) /\ Finish(r)

(* The answer NOT_ENOUGH_FUNDS does not end the handler: no return follows *)
(* it, so what the staker can withdraw decides nothing.                    *)
HandleStakeFromBalance(r) ==
    \/ \E s \in Stakers, a \in StakeAmounts : BeginRequest(r, "balance", <<"withdraw", s>>, a)
    \/ /\ InStep(r, "balance", "call")
       /\ vaultRequest' = [vaultRequest EXCEPT ![r].pc = "process", ![r].nav = Equity]
       /\ UNCHANGED <<vaultRows, vaultLocks, vaultCalls>>
    \/ /\ InStep(r, "balance", "process")
       /\ process_stake_from_balance(Caller(r), vaultRequest[r].arg, vaultRequest[r].nav)
       /\ Finish(r)

BeginUnstake(r) ==
    \/ \E s \in Stakers, n \in ShareAmounts : BeginRequest(r, "unstake", <<"unstake", s>>, n)
    \/ /\ InStep(r, "unstake", "call")
       /\ create_unstake(Caller(r), vaultRequest[r].arg)
       /\ Finish(r)

CancelUnstake(r) ==
    \/ \E n \in Unstakes : /\ unstake[n] # NoRow
                           /\ BeginRequest(r, "cancel", <<"withdraw", unstake[n].staker>>, n)
    \/ /\ InStep(r, "cancel", "call")
       /\ cancel_unstake(Caller(r), vaultRequest[r].arg)
       /\ Finish(r)

(* GetVaultInfo and InvalidateCache, then the transaction.                 *)
ProcessUnstakes(r) ==
    \/ \E from, to \in Unstakes :
           /\ from <= to
           /\ BeginRequest(r, "process", <<"withdraw", TheVault>>,
                    {n \in Unstakes : from <= n /\ n <= to})
    \/ /\ InStep(r, "process", "call")
       /\ IF vault.status = "active"
          THEN vaultRequest' = [vaultRequest EXCEPT ![r].pc = "cache",
                                                    ![r].shares = vault.shares]
          ELSE vaultRequest' = [vaultRequest EXCEPT ![r].pc = "release"]
       /\ UNCHANGED <<vaultRows, vaultLocks, vaultCalls>>
    \/ /\ InStep(r, "process", "cache")
       /\ vaultRequest' = [vaultRequest EXCEPT ![r].pc = "pay", ![r].nav = Equity,
                                               ![r].withdrawable = VaultWithdrawable]
       /\ UNCHANGED <<vaultRows, vaultLocks, vaultCalls>>
    \/ /\ InStep(r, "process", "pay")
       /\ LET q == vaultRequest[r]
          IN  process_unstakes(q.arg, q.nav, q.withdrawable, q.shares)
       /\ Finish(r)

(* The owner reads the status and then asks for the update; one step,      *)
(* because nothing but liquidation changes the status in between.          *)
ReactivateVault ==
    /\ vault.status = "suspended"
    /\ vault' = [vault EXCEPT !.status = "active"]
    /\ UNCHANGED <<holding, sharesIssued, unstake, money, stakeRow, credited>>

VaultApi ==
    \E r \in VaultRequests :
        \/ HandleStake(r) \/ HandleStakeFromBalance(r)
        \/ BeginUnstake(r) \/ CancelUnstake(r) \/ ProcessUnstakes(r)
        \/ Release(r)

-------------------------------------------------------------------------------
(* The settlement service.                                                 *)

(* The logs processEvents passes on.                                       *)
StakeLogs == mined

(* stakeHandler: the profiles and the equity, then process_stake.  A       *)
(* failed call is logged and the event counts as processed; a rescan may   *)
(* bring it again.                                                         *)
stakeHandler ==
    /\ \/ /\ staking.tx = NoRow
          /\ \E t \in StakeLogs : staking' = [tx |-> t, nav |-> Equity]
          /\ UNCHANGED vaultRows
       \/ /\ staking.tx # NoRow
          /\ process_stake(staking.tx, staking.nav)
          /\ staking' = [tx |-> NoRow, nav |-> 0]
       \/ /\ staking.tx # NoRow
          /\ staking' = [tx |-> NoRow, nav |-> 0]
          /\ UNCHANGED vaultRows

(* ProcessDroppedDepositsAndStakes finds no transaction for a pending row. *)
DropStake(t) ==
    /\ stakeRow[t] = "pending" /\ t \notin mined
    /\ stakeRow' = [stakeRow EXCEPT ![t] = "canceled"]
    /\ UNCHANGED <<vault, holding, sharesIssued, unstake, money, credited>>

MineStake(t) == t \notin mined /\ mined' = mined \cup {t}

-------------------------------------------------------------------------------
(* The liquidation service tells the profile instance of the vaults it     *)
(* liquidated: the row of the vault, then every holding, each row alone.   *)

liquidated_vaults ==
    \/ /\ wiping = {} /\ vaultCalls < MaxVaultCalls
       /\ vaultCalls' = vaultCalls + 1
       /\ liquidated' = TRUE
       /\ vault' = [status |-> "suspended", shares |-> 0]
       /\ wiping' = Stakers
       /\ UNCHANGED <<holding, sharesIssued, unstake, money, stakeRow, credited>>
    \/ \E s \in wiping :
       /\ holding' = [holding EXCEPT ![s] = 0]
       /\ wiping' = wiping \ {s}
       /\ UNCHANGED <<vault, sharesIssued, unstake, money, stakeRow, credited, liquidated,
                      vaultCalls>>

(* Prices move.                                                            *)
VaultProfit ==
    /\ vaultCalls < MaxVaultCalls
    /\ vaultCalls' = vaultCalls + 1
    /\ \E x \in Profits : profit' = x /\ x # profit

VaultNext ==
    \/ VaultApi /\ UNCHANGED <<profit, mined, staking, wiping, liquidated>>
    \/ ReactivateVault
       /\ UNCHANGED <<profit, mined, vaultLocks, vaultRequest, vaultCalls, staking, wiping, liquidated>>
    \/ stakeHandler
       /\ UNCHANGED <<profit, mined, vaultLocks, vaultRequest, vaultCalls, wiping, liquidated>>
    \/ /\ \E t \in StakeTxs : DropStake(t)
       /\ UNCHANGED <<profit, mined, vaultLocks, vaultRequest, vaultCalls, staking, wiping, liquidated>>
    \/ /\ \E t \in StakeTxs : MineStake(t)
       /\ UNCHANGED <<vaultRows, profit, vaultLocks, vaultRequest, vaultCalls, staking, wiping, liquidated>>
    \/ liquidated_vaults
       /\ UNCHANGED <<profit, mined, vaultLocks, vaultRequest, staking>>
    \/ VaultProfit
       /\ UNCHANGED <<vaultRows, mined, vaultLocks, vaultRequest, staking, wiping, liquidated>>

VaultSpec == VaultInit /\ [][VaultNext]_vaultVars

-------------------------------------------------------------------------------
(* Type correctness of the rows and of the requests under way.             *)
VaultTypeOK ==
    /\ vault \in [status : {"active", "suspended"}, shares : Int]
    /\ holding \in [Stakers -> Int] /\ sharesIssued \in [Stakers -> Int]
    /\ unstake \in [Unstakes -> UnstakeRows \cup {NoRow}]
    /\ money \in [VaultProfiles -> Int] /\ profit \in Profits
    /\ stakeRow \in [StakeTxs -> {"none", "pending", "canceled", "success"}]
    /\ credited \subseteq mined /\ mined \subseteq StakeTxs
    /\ staking.tx \in StakeTxs \cup {NoRow} /\ staking.nav \in Int
    /\ wiping \subseteq Stakers /\ vaultCalls \in 0 .. MaxVaultCalls

(* Shares and charges move money between the staker, the vault and the     *)
(* treasurer; the chain alone brings new money in, once for a transaction, *)
(* whatever is announced, dropped, rescanned or retried.                   *)
StakedMoneyConserved ==
    SumFunctionOnSet(money, VaultProfiles) =
        SumFunctionOnSet(StakeFunds, VaultProfiles)
            + SumFunctionOnSet([t \in StakeTxs |-> StakeTx[t].amount], credited)

(* The shares of the requests that were paid to a staker.                  *)
PaidShares(s) ==
    [n \in Unstakes |->
        IF unstake[n] # NoRow /\ unstake[n].staker = s /\ unstake[n].status = "success"
        THEN unstake[n].shares ELSE 0]

(* A holding is what the stake_shares rows gave less what the paid unstake *)
(* requests took, so no request is paid twice or beyond the holding, with  *)
(* cancel and process under different locks.                               *)
HoldingsAgree ==
    ~ liquidated => \A s \in Stakers :
        holding[s] = sharesIssued[s] - SumFunctionOnSet(PaidShares(s), Unstakes)

(* No interleaving of stale equities and totals makes the vault pay what   *)
(* it has not, or leaves a negative holding.                               *)
VaultSolvent ==
    money[TheVault] >= 0 /\ \A s \in Stakers : holding[s] >= 0

(* A request is settled once, on both of its rows: after its cancel or its *)
(* payment no later call changes it.                                       *)
UnstakeSettledOnce ==
    [][\A n \in Unstakes : (unstake[n] # NoRow /\ ~ Requested(n)) =>
            unstake'[n] = unstake[n]]_vaultVars

(* The vault's money, shares and requests agree after any interleaving of  *)
(* stakes, cancellations and settlements (process_stake,                   *)
(* process_unstakes).                                                      *)
VaultAccounts ==
    /\ [](VaultTypeOK /\ StakedMoneyConserved /\ HoldingsAgree /\ VaultSolvent)
    /\ UnstakeSettledOnce

================================================================================
