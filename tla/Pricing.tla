-------------------------------- MODULE Pricing ---------------------------------
(***************************************************************************)
(* Index price of one market.                                              *)
(*                                                                         *)
(* Exchange sources keep the latest price they received, with its time.    *)
(* Every interval the aggregator collects the prices that are young enough *)
(* and hands them to the market price service, which checks them against   *)
(* each other and against its last price and sends the combined price to   *)
(* the market's instance.  Prices are integers, multiples of 4 where they  *)
(* come in, so that the averages of medians stay exact.                    *)
(*                                                                         *)
(* The batch is a copy and only priceUpdater touches the service's state,  *)
(* so sending and processing are one action; a batch that is still in the  *)
(* channel at the next interval ends the process (Panic).                  *)
(***************************************************************************)
EXTENDS Integers, FiniteSets, FiniteSetsExt, Functions

CONSTANTS
    PriceSources,   \* sources of the market
    ReceiptAge,     \* ages, in intervals, that the prices of a source arrive with
    SoundSources,   \* those that report the price of the market
    PriceLevels,    \* prices of the market
    ReportError,    \* difference between the reports of sound sources
    MaxUseAge,      \* max_use_age, in intervals
    MaxRejectedRun, \* MAX_REJECTED_RUN_LENGTH
    MaxPriceFaults  \* bound: moves of the market, failed calls and ends of the process

ASSUME PricingAssumption ==
    /\ SoundSources \subseteq PriceSources /\ IsFiniteSet(PriceSources) /\ "last" \notin PriceSources
    /\ ReceiptAge \in [PriceSources -> SUBSET Nat]
    /\ \A p \in PriceLevels \cup {ReportError} : p \in Nat /\ p % 4 = 0
    /\ {MaxUseAge, MaxRejectedRun, MaxPriceFaults} \subseteq Nat

VARIABLES
    market,            \* the price of the market
    latestPrices,      \* of a source: price and age, price 0 for none
    mostRecentPrice,   \* 0 for none
    rejectedRunLength,
    waited,            \* history: batches since the last accepted one
    index,             \* index price of the instance
    indexFrom,         \* history: the batch it was computed from
    priceFaults

priceVars == <<market, latestPrices, mostRecentPrice, rejectedRunLength, waited,
               index, indexFrom, priceFaults>>

NoPrice == [price |-> 0, age |-> 0]

PriceInit ==
    /\ market \in PriceLevels
    /\ latestPrices = [s \in PriceSources |-> NoPrice]
    /\ mostRecentPrice = 0 /\ rejectedRunLength = 0 /\ waited = 0
    /\ index = 0 /\ indexFrom = <<>>
    /\ priceFaults = 0

PriceFault == priceFaults < MaxPriceFaults /\ priceFaults' = priceFaults + 1

unchangedService == UNCHANGED <<mostRecentPrice, rejectedRunLength, waited, index, indexFrom>>

-------------------------------------------------------------------------------
(* The time of a price, per exchange: extractPrice of the web socket       *)
(* sources, extractPrices of the REST sources.                             *)
binance == {0}             \* close of the running candle, cut to now
okx(candle) == 0 .. candle \* start of the running candle
coinbase == {0}            \* time of the trade
kraken == {0}              \* time of the update
coingecko(lag) == 0 .. lag \* last_updated_at
geckoterminal == {0}       \* the time of the read
coinmarketcap(lag) == 0 .. lag \* LastUpdated of the quote

(* The factories that are registered under the names of the configuration. *)
Factories(candle, lag) ==
    [binance |-> binance, okx |-> okx(candle), coinbase |-> coinbase, kraken |-> kraken,
     coingecko |-> coingecko(lag), geckoterminal |-> geckoterminal, coinmarketcap |-> coinmarketcap(lag)]

Reports(s) ==
    IF s \in SoundSources THEN {market, market + ReportError} ELSE PriceLevels

(* store: an unchanged price is not stored, and keeps its old time.        *)
store(s, price, age) ==
    latestPrices' = IF latestPrices[s].price = price THEN latestPrices
                    ELSE [latestPrices EXCEPT ![s] = [price |-> price, age |-> age]]

(* A price arrives: handlePriceData of a web socket, readPriceData of REST. *)
handlePriceData(s) ==
    /\ \E price \in Reports(s), age \in ReceiptAge[s] : store(s, price, age)
    /\ unchangedService /\ UNCHANGED <<market, priceFaults>>

MarketMoves ==
    /\ PriceFault
    /\ market' \in PriceLevels
    /\ unchangedService /\ UNCHANGED latestPrices

-------------------------------------------------------------------------------
(* The combined price.  A batch is a function from its sources to prices.  *)

(* k-th smallest value of f.                                               *)
Ranked(f, k) ==
    CHOOSE v \in Range(f) :
        /\ Cardinality({i \in DOMAIN f : f[i] < v}) < k
        /\ k <= Cardinality({i \in DOMAIN f : f[i] <= v})

median(f) ==
    LET n == Cardinality(DOMAIN f)
    IN  IF n = 0 THEN 0
        ELSE IF n % 2 = 0 THEN (Ranked(f, n \div 2) + Ranked(f, n \div 2 + 1)) \div 2
        ELSE Ranked(f, n \div 2 + 1)

Difference(a, b) == IF a < b THEN b - a ELSE a - b

closeEnough(value, target, percent) == Difference(value, target) * 100 <= target * percent

(* checkDataConsistency: at least two values near the median.              *)
Consistent(f) ==
    \/ Cardinality(DOMAIN f) < 2
    \/ Cardinality({i \in DOMAIN f : closeEnough(f[i], median(f), 5)}) >= 2

WithLast(f) ==
    IF mostRecentPrice = 0 THEN f
    ELSE [s \in DOMAIN f \cup {"last"} |-> IF s = "last" THEN mostRecentPrice ELSE f[s]]

(* Mutant: after the check the inputs are compared with the last price.    *)
CombinedByLast(f) ==
    LET near == {s \in DOMAIN f : mostRecentPrice # 0 /\ closeEnough(f[s], mostRecentPrice, 5)}
    IN  IF near = {} THEN median(f) ELSE median(Restrict(f, near))

(* getCombinedPrice: the median of the prices near the median that         *)
(* includes the last price, or, when that is not consistent, near the      *)
(* median of the inputs alone; 0 for an error.                             *)
getCombinedPrice(f) ==
    LET checked == IF Consistent(WithLast(f)) THEN WithLast(f) ELSE f
        near == {s \in DOMAIN f : closeEnough(f[s], median(checked), 5)}
    IN  IF Cardinality(DOMAIN f) = 1 THEN median(f)
        ELSE IF ~Consistent(checked) THEN 0
        ELSE median(Restrict(f, near))

Accepted(price) ==
    /\ mostRecentPrice' = price
    /\ rejectedRunLength' = 0
    /\ waited' = 0

(* UpdateIndexPrice, which may fail after mostRecentPrice was set.         *)
UpdateIndexPrice(price, f) ==
    \/ index' = price /\ indexFrom' = f /\ UNCHANGED priceFaults
    \/ PriceFault /\ UNCHANGED <<index, indexFrom>>

(* processInputs and updateModelPrice.                                     *)
updateModelPrice(f) ==
    LET latest == getCombinedPrice(f)
        calm == \/ mostRecentPrice = 0
                \/ rejectedRunLength > MaxRejectedRun
                \/ closeEnough(latest, mostRecentPrice, 10)
    IN  \/ /\ latest # 0 /\ calm
           /\ Accepted(latest)
           /\ UpdateIndexPrice(latest, f)
        \/ /\ latest = 0 \/ ~calm
           /\ rejectedRunLength' = IF latest = 0 THEN rejectedRunLength
                                   ELSE rejectedRunLength + 1
           /\ waited' = Min({waited + 1, MaxRejectedRun + 1})
           /\ UNCHANGED <<mostRecentPrice, index, indexFrom, priceFaults>>

Fresh == {s \in PriceSources : latestPrices[s] # NoPrice /\ latestPrices[s].age <= MaxUseAge}

(* An interval passes: sendPriceBatches, and priceUpdater with the batch.  *)
sendPriceBatches ==
    /\ latestPrices' = [s \in PriceSources |->
           [latestPrices[s] EXCEPT !.age = IF latestPrices[s] = NoPrice THEN 0
                                           ELSE Min({@ + 1, MaxUseAge + 1})]]
    /\ IF Fresh = {} THEN unchangedService /\ UNCHANGED priceFaults
       ELSE updateModelPrice([s \in Fresh |-> latestPrices[s].price])
    /\ UNCHANGED market

(* The channel is full: the process ends and starts with no prices.        *)
Panic ==
    /\ PriceFault
    /\ latestPrices' = [s \in PriceSources |-> NoPrice]
    /\ mostRecentPrice' = 0 /\ rejectedRunLength' = 0 /\ waited' = 0
    /\ UNCHANGED <<market, index, indexFrom>>

PriceNext ==
    \/ MarketMoves \/ sendPriceBatches \/ Panic
    \/ \E s \in PriceSources : handlePriceData(s)

PriceSpec == PriceInit /\ [][PriceNext]_priceVars

-------------------------------------------------------------------------------
(* The prices the index was made of: those of sound sources, and whether   *)
(* these agree and outnumber the others.                                   *)
SoundUsed == DOMAIN indexFrom \cap SoundSources

SoundAgree ==
    /\ Cardinality(SoundUsed) >= 2 /\ Cardinality(DOMAIN indexFrom \ SoundUsed) <= 1
    /\ \A s, t \in SoundUsed : closeEnough(indexFrom[s], indexFrom[t], 2)

(* One wrong source of three or more does not move the index: when at      *)
(* least two prices near each other came from sound sources and at most    *)
(* one from another, the index price is within six percent of them.  The   *)
(* five percent of getCombinedPrice are of the median, which may lie above *)
(* the sound price and with the wrong one.                                 *)
IndexFollowsSound == \E s \in SoundUsed : closeEnough(index, indexFrom[s], 6)

(* The price moves by more than a tenth only after more than               *)
(* MAX_REJECTED_RUN_LENGTH batches in which it was not accepted.           *)
JumpWaited ==
    [][mostRecentPrice # 0 /\ mostRecentPrice' # 0 =>
           closeEnough(mostRecentPrice', mostRecentPrice, 10) \/ waited > MaxRejectedRun]_priceVars

(* Neither a wrong source nor a jump moves the index price at once         *)
(* (getCombinedPrice, processInputs).                                      *)
IndexResists ==
    [](SoundAgree => IndexFollowsSound) /\ JumpWaited

================================================================================
