-------------------------------- MODULE Funding --------------------------------
(***************************************************************************)
(* Funding payments.                                                       *)
(*                                                                         *)
(* The periodics of a market set a funding rate and its time.  A ticker of *)
(* the funding service (ProcessFunding) takes the markets in turn: it      *)
(* reads the market, the time of the last payment and the positions in     *)
(* three calls, makes the payments and sends them in a fourth, which the   *)
(* engine applies in one transaction with the time they are for.           *)
(***************************************************************************)
EXTENDS Integers, Sequences, FiniteSets, Functions

CONSTANTS
    FundingServices,  \* processes; one is deployed
    FundingMarkets,   \* cfg.Service.Markets, a sequence
    FundingProfiles,
    FundingRates,     \* rates the periodics set
    FundingLimit,     \* limit() of a rate
    MaxFundings,      \* bound: funding updates of a market
    MaxFundingTrades, \* bound: trades that change positions
    MaxFundingFaults  \* bound: calls that fail

ASSUME FundingAssumption ==
    /\ FundingMarkets \in Seq(Range(FundingMarkets)) \ {<<>>} /\ IsFiniteSet(FundingProfiles)
    /\ FundingRates \subseteq Int /\ FundingLimit \in Nat \ {0}
    /\ MaxFundings \in Nat /\ MaxFundingTrades \in Nat /\ MaxFundingFaults \in Nat

VARIABLES
    fundingRate,    \* last_funding_rate_basis of a market
    fundingTime,    \* last_funding_update_time, 0 before the first
    lastUpdate,     \* last_update of funding_meta
    exposure,       \* signed size of a profile's position
    fundingCall,    \* ProcessFunding of a service
    fundingPaid,    \* history: market -> time -> the payments made for it
    fundingTrades, fundingFaults

fundingVars == <<fundingRate, fundingTime, lastUpdate, exposure, fundingCall,
                 fundingPaid, fundingTrades, fundingFaults>>

FundedMarkets == Range(FundingMarkets)
NoFunding == [at |-> 0, pc |-> "market", rate |-> 0, time |-> 0, payments |-> <<>>]

FundingInit ==
    /\ fundingRate = [m \in FundedMarkets |-> 0]
    /\ fundingTime = [m \in FundedMarkets |-> 0]
    /\ lastUpdate = [m \in FundedMarkets |-> 0]
    /\ exposure = [m \in FundedMarkets |-> [p \in FundingProfiles |-> 0]]
    /\ fundingCall = [s \in FundingServices |-> NoFunding]
    /\ fundingPaid = [m \in FundedMarkets |-> [t \in 1..MaxFundings |-> <<>>]]
    /\ fundingTrades = 0
    /\ fundingFaults = 0

-------------------------------------------------------------------------------
(* The engine: a trade moves a contract from one profile to another, and   *)
(* the periodics set a rate, at most every ten minutes.                    *)
FundingTrade(m, buyer, seller) ==
    /\ fundingTrades < MaxFundingTrades /\ buyer # seller
    /\ fundingTrades' = fundingTrades + 1
    /\ exposure' = [exposure EXCEPT ![m][buyer] = @ + 1, ![m][seller] = @ - 1]
    /\ UNCHANGED <<fundingRate, fundingTime, lastUpdate, fundingCall, fundingPaid, fundingFaults>>

update_funding(m, rate) ==
    /\ fundingTime[m] < MaxFundings
    /\ fundingRate' = [fundingRate EXCEPT ![m] = rate]
    /\ fundingTime' = [fundingTime EXCEPT ![m] = @ + 1]
    /\ UNCHANGED <<lastUpdate, exposure, fundingCall, fundingPaid, fundingTrades, fundingFaults>>

-------------------------------------------------------------------------------
FundingCalls(s, pc) == fundingCall[s].at > 0 /\ fundingCall[s].pc = pc
FundingMarket(s) == FundingMarkets[fundingCall[s].at]

(* The loop goes on with the next market, or ends; the payments of the     *)
(* last market stay in the slice until they are cut.                       *)
NextMarket(c) == [c EXCEPT !.at = IF @ < Len(FundingMarkets) THEN @ + 1 ELSE 0, !.pc = "market"]

(* A tick.                                                                 *)
ProcessFunding(s) ==
    /\ fundingCall[s].at = 0
    /\ fundingCall' = [fundingCall EXCEPT ![s].at = 1]
    /\ UNCHANGED <<fundingRate, fundingTime, lastUpdate, exposure, fundingPaid, fundingTrades, fundingFaults>>

(* GetMarketData.                                                          *)
ReadMarket(s) ==
    /\ FundingCalls(s, "market")
    /\ fundingCall' = [fundingCall EXCEPT ![s].pc = "meta", ![s].rate = fundingRate[FundingMarket(s)],
                                          ![s].time = fundingTime[FundingMarket(s)]]
    /\ UNCHANGED <<fundingRate, fundingTime, lastUpdate, exposure, fundingPaid, fundingTrades, fundingFaults>>

(* Mutant: a market is taken that has just been paid.                      *)
PeriodDueAgain(m, c) == c.time >= lastUpdate[m] /\ c.rate # 0

(* A market is skipped that was paid since its rate was set.               *)
PeriodDue(m, c) == c.time > lastUpdate[m] /\ c.rate # 0

(* GetFundingMeta.                                                         *)
ReadMeta(s) ==
    /\ FundingCalls(s, "meta")
    /\ fundingCall' = [fundingCall EXCEPT ![s] =
           IF PeriodDue(FundingMarket(s), @) THEN [@ EXCEPT !.pc = "positions"] ELSE NextMarket(@)]
    /\ UNCHANGED <<fundingRate, fundingTime, lastUpdate, exposure, fundingPaid, fundingTrades, fundingFaults>>

limit(rate) ==
    CASE rate < -FundingLimit -> -FundingLimit
      [] rate > FundingLimit  -> FundingLimit
      [] OTHER                -> rate

(* A long position pays size times rate and a short one gets it, at a fair *)
(* price of one.                                                           *)
Payments(s, m) ==
    [p \in {q \in FundingProfiles : exposure[m][q] # 0} |->
        -(exposure[m][p] * limit(fundingCall[s].rate))]

(* GetAllActivePositions; a market without positions is not paid.          *)
ReadFundingPositions(s) ==
    LET payments == Payments(s, FundingMarket(s))
        c        == [fundingCall[s] EXCEPT !.payments = payments]
    IN  /\ FundingCalls(s, "positions")
        /\ fundingCall' = [fundingCall EXCEPT ![s] =
               IF DOMAIN payments = {} THEN NextMarket(c) ELSE [c EXCEPT !.pc = "pay"]]
        /\ UNCHANGED <<fundingRate, fundingTime, lastUpdate, exposure, fundingPaid, fundingTrades, fundingFaults>>

(* last_update_time as the service sent it.                                *)
TimeOfMeta(m, c) == c.time

(* engine.pay_funding: the balances and last_update in one transaction.    *)
Paying(s) ==
    LET m == FundingMarket(s)
        c == fundingCall[s]
    IN  /\ fundingPaid' = [fundingPaid EXCEPT ![m][c.time] = Append(@, c.payments)]
        /\ lastUpdate' = [lastUpdate EXCEPT ![m] = TimeOfMeta(m, c)]

PayFunding(s) ==
    /\ FundingCalls(s, "pay")
    /\ Paying(s)
    /\ fundingCall' = [fundingCall EXCEPT ![s] = NextMarket(@)]
    /\ UNCHANGED <<fundingRate, fundingTime, exposure, fundingTrades, fundingFaults>>

(* A call fails: of the first two the loop goes on with the next market,   *)
(* of the last two ProcessFunding returns.  The payment may have been made *)
(* and only its answer be lost.                                            *)
FundingCallFails(s) ==
    /\ fundingFaults < MaxFundingFaults /\ fundingCall[s].at > 0
    /\ fundingFaults' = fundingFaults + 1
    /\ fundingCall' = [fundingCall EXCEPT ![s] =
           IF @.pc \in {"market", "meta"} THEN NextMarket(@) ELSE [@ EXCEPT !.at = 0, !.pc = "market"]]
    /\ \/ UNCHANGED <<fundingPaid, lastUpdate>>
       \/ fundingCall[s].pc = "pay" /\ Paying(s)
    /\ UNCHANGED <<fundingRate, fundingTime, exposure, fundingTrades>>

(* The process is stopped and started again.                               *)
FundingRestart(s) ==
    /\ fundingFaults < MaxFundingFaults
    /\ fundingFaults' = fundingFaults + 1
    /\ fundingCall' = [fundingCall EXCEPT ![s] = NoFunding]
    /\ UNCHANGED <<fundingRate, fundingTime, lastUpdate, exposure, fundingPaid, fundingTrades>>

FundingServiceStep(s) ==
    \/ ProcessFunding(s) \/ ReadMarket(s) \/ ReadMeta(s) \/ ReadFundingPositions(s) \/ PayFunding(s)

FundingNext ==
    \/ \E m \in FundedMarkets :
          \/ \E buyer, seller \in FundingProfiles : FundingTrade(m, buyer, seller)
          \/ \E rate \in FundingRates : update_funding(m, rate)
    \/ \E s \in FundingServices :
          FundingServiceStep(s) \/ FundingCallFails(s) \/ FundingRestart(s)

(* The ticker of the service goes on and its calls return.                 *)
FundingFairness == \A s \in FundingServices : WF_fundingVars(FundingServiceStep(s))

FundingSpec == FundingInit /\ [][FundingNext]_fundingVars /\ FundingFairness

-------------------------------------------------------------------------------
(* The payments of a funding of a market.                                  *)
PaymentsOf(m, t) == fundingPaid[m][t]
PaymentSum(payments) == SumFunctionOnSet(payments, DOMAIN payments)

(* A funding is paid at most once although the payment is made in another  *)
(* call than the test, calls fail whose effect is there, and the service   *)
(* is started again; and what the longs pay is what the shorts get         *)
(* although trades change the positions meanwhile (ProcessFunding).        *)
FundingPaidOnce(m) ==
    \A t \in 1..MaxFundings :
        /\ Len(PaymentsOf(m, t)) <= 1
        /\ \A k \in DOMAIN PaymentsOf(m, t) : PaymentSum(PaymentsOf(m, t)[k]) = 0

(* The last funding of every market with positions is paid in the end,     *)
(* although a failure of one market ends the tick for those behind it.     *)
FundingIsPaid ==
    <>[](\A m \in FundedMarkets :
            \/ fundingRate[m] = 0 \/ PaymentsOf(m, fundingTime[m]) # <<>>
            \/ \A p \in FundingProfiles : exposure[m][p] = 0)

(* Every funding is paid, and no funding twice (ProcessFunding).           *)
FundingPaidExactlyOnce ==
    [](\A m \in FundedMarkets : FundingPaidOnce(m)) /\ FundingIsPaid

================================================================================
