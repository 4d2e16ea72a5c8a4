-------------------------------- MODULE Referrals --------------------------------
(***************************************************************************)
(* The referral service: volumes and milestone bonuses of referrers, their *)
(* share of the fees of those they invited, and the payout of both.        *)
(*                                                                         *)
(* The archiver copies the fills of a shard, in the order of their archive *)
(* ids, to the database; trade t has the fills 2t-1 and 2t.  A job of the  *)
(* service (doVolumes, doPayouts, doProcessPayouts) is one database        *)
(* transaction: it reads after the last window of archive ids that was     *)
(* processed, computes, and stores the new window.  The exclusion          *)
(* constraint of the integrity tables rolls back a transaction whose window*)
(* overlaps a stored one, as when two instances of the service run while   *)
(* one replaces the other.  The payouts themselves go to the profile's     *)
(* market instance by two calls of their own, outside the transaction.     *)
(* Fees and volumes are integers; percentages divide them.  Boards are in  *)
(* Leaderboards.                                                           *)
(***************************************************************************)
EXTENDS Integers, Sequences, FiniteSets, FiniteSetsExt, SequencesExt

CONSTANTS
    Referrers,                \* profiles with a code in app_referral_code
    Traders,                  \* profiles that may be invited
    KolPercent,               \* model_fee_percent of the referrers of model "kol"
    ReferralLevels,           \* REFERRAL_LEVELS: sequence of [volume, percent, bonus]
    TradeKinds,               \* trades: [sides, fees, volume], a pair each
    QueryRank,                \* place of a trade in ORDER BY timestamp, trade_id
    MaxTrades,                \* bound: trades of the run
    ReferralServices,         \* instances of the service
    MaxReferralFaults         \* bound: crashes and failed calls

ASSUME ReferralsAssumption ==
    /\ IsFiniteSet(Referrers)
    /\ ReferralLevels \in Seq([volume : Nat, percent : 0 .. 100, bonus : Nat])
    /\ ReferralLevels # <<>> /\ ReferralLevels[1].volume = 0
    /\ \A i \in 1 .. Len(ReferralLevels) - 1 :
          ReferralLevels[i].volume < ReferralLevels[i + 1].volume
    /\ MaxTrades \in Nat /\ MaxReferralFaults \in Nat
    /\ QueryRank \in [1 .. MaxTrades -> Nat]

VARIABLES
    tradeLog,         \* trades of the shard, by archive id
    copied,           \* archive id of the last fill in the database
    referredBy,       \* app_referral_link: referrer of a trader
    referralVolume,   \* referral_volumes
    bonusIntegrity,   \* referral_payout_bonus_integrity: [profile, level]
    windows,          \* volumes_integrity and fills_integrity: [table, first, last]
    payout,           \* referral_payout: [profile, amount, processed, why]
    payoutOp,         \* row of the payout in balance_operations: none, pending, success
    referralJob,      \* what each instance of the service is doing
    referralFaults    \* crashes and failed calls so far

dbTables == <<referredBy, referralVolume, bonusIntegrity, windows, payout>>
referralVars == <<tradeLog, copied, dbTables, payoutOp, referralJob, referralFaults>>

NoReferrer == 0
Resting == [job |-> "rest"]

ReferralInit ==
    /\ tradeLog = <<>> /\ copied = 0
    /\ referredBy = [t \in Traders |-> NoReferrer]
    /\ referralVolume = [r \in Referrers |-> 0]
    /\ bonusIntegrity = {} /\ windows = {} /\ payout = <<>> /\ payoutOp = <<>>
    /\ referralJob = [s \in ReferralServices |-> Resting]
    /\ referralFaults = 0

TradeOf(f) == (f + 1) \div 2
SideOf(f) == IF f % 2 = 1 THEN 1 ELSE 2
FillsOf(t) == {2 * t - 1, 2 * t}
Fill(f) == [profile |-> tradeLog[TradeOf(f)].sides[SideOf(f)],
            fee |-> tradeLog[TradeOf(f)].fees[SideOf(f)],
            volume |-> tradeLog[TradeOf(f)].volume]
Invited(f) == Fill(f).profile \in Traders /\ referredBy[Fill(f).profile] # NoReferrer
Referrer(f) == referredBy[Fill(f).profile]
Percentage(r) == r \notin DOMAIN KolPercent

(* Where the last processed window ended.                                  *)
From(table) == Max({0} \cup {w.last : w \in {v \in windows : v.table = table}})
Overlaps(w) == \E v \in windows : v.table = w.table /\ v.first <= w.last /\ w.first <= v.last

(* Mutant: the tables have no exclusion constraint.                        *)
StorableAlways(w) == TRUE

(* An empty range (first 0) is not stored; a reversed one is an error.     *)
Storable(w) == w.last = 0 \/ (w.first <= w.last /\ ~Overlaps(w))

Stored(w) == IF w.last = 0 THEN windows ELSE windows \cup {w}

-----------------------------------------------------------------------------
(* Levels, bonuses and commissions.                                        *)

Level(v) == Max({i \in 1 .. Len(ReferralLevels) : ReferralLevels[i].volume <= v})

(* The levels passed on the way from one volume to another.                *)
calculateBonus(old, new) == (Level(old) + 1) .. Level(new)

Percent(r) == IF Percentage(r) THEN ReferralLevels[Level(referralVolume[r])].percent
              ELSE KolPercent[r]

NetFee(t) == -(tradeLog[t].fees[1] + tradeLog[t].fees[2])
PaysFee(f) == Fill(f).fee < 0

(* A side that pays while the other is paid counts with the net fee.       *)
ShareBase(f) ==
    IF \A g \in FillsOf(TradeOf(f)) : PaysFee(g) THEN -Fill(f).fee ELSE NetFee(TradeOf(f))

(* What referrer r earns from the given fills; a rebate earns nothing.     *)
addToFees(fills, r) ==
    LET earning == {f \in fills : /\ Invited(f) /\ Referrer(f) = r
                                  /\ NetFee(TradeOf(f)) > 0 /\ PaysFee(f)}
    IN  MapThenSumSet(LAMBDA f : (ShareBase(f) * Percent(r)) \div 100, earning)

-----------------------------------------------------------------------------
(* Trades and links.                                                       *)

Trade ==
    /\ Len(tradeLog) < MaxTrades
    /\ \E k \in TradeKinds : tradeLog' = Append(tradeLog, k)
    /\ UNCHANGED <<copied, dbTables, payoutOp, referralJob, referralFaults>>

(* The archiver copies a batch of fills, which may end within a trade.     *)
CopyFills ==
    /\ \E n \in copied + 1 .. 2 * Len(tradeLog) : copied' = n
    /\ UNCHANGED <<tradeLog, dbTables, payoutOp, referralJob, referralFaults>>

(* HandleOnboarding starts it for a new profile with the code of a         *)
(* referrer; a profile is invited once.                                    *)
CreateReferralLink(t, r) ==
    /\ referredBy[t] = NoReferrer
    /\ referredBy' = [referredBy EXCEPT ![t] = r]
    /\ UNCHANGED <<tradeLog, copied, referralVolume, bonusIntegrity, windows, payout,
                   payoutOp, referralJob, referralFaults>>

-----------------------------------------------------------------------------
(* doVolumes.                                                              *)

Begin(s, j) == referralJob' = [referralJob EXCEPT ![s] = j]
Rest(s) == referralJob' = [referralJob EXCEPT ![s] = Resting]
AtJob(s, job) == referralJob[s].job = job

(* referral_get_volumes, in the order of the archive ids.                  *)
calculateVolumes(s) ==
    LET rows == {f \in From("volumes") + 1 .. copied : Invited(f)}
        of(r) == {f \in rows : Referrer(f) = r}
    IN  /\ AtJob(s, "rest") /\ rows # {}
        /\ Begin(s, [job |-> "volumes",
                     window |-> [table |-> "volumes", first |-> Min(rows), last |-> Max(rows)],
                     added |-> [r \in Referrers |-> MapThenSumSet(LAMBDA f : Fill(f).volume, of(r))],
                     existing |-> referralVolume])
        /\ UNCHANGED <<tradeLog, copied, dbTables, payoutOp, referralFaults>>

NewPayout(r, amount, why) == [profile |-> r, amount |-> amount, processed |-> FALSE, why |-> why]

doVolumes(s) ==
    LET j == referralJob[s]
        bonuses == {b \in Referrers \X (1 .. Len(ReferralLevels)) :
                       /\ Percentage(b[1]) /\ j.added[b[1]] > 0
                       /\ b[2] \in calculateBonus(j.existing[b[1]], j.existing[b[1]] + j.added[b[1]])}
        rows == SetToSeq({NewPayout(b[1], ReferralLevels[b[2]].bonus, [level |-> b[2]]) : b \in bonuses})
    IN  /\ AtJob(s, "volumes")
        /\ IF Storable(j.window) /\ bonuses \cap bonusIntegrity = {}
           THEN /\ referralVolume' = [r \in Referrers |-> referralVolume[r] + j.added[r]]
                /\ bonusIntegrity' = bonusIntegrity \cup bonuses
                /\ windows' = Stored(j.window)
                /\ payout' = payout \o rows
                /\ payoutOp' = payoutOp \o [i \in 1 .. Len(rows) |-> "none"]
           ELSE UNCHANGED <<referralVolume, bonusIntegrity, windows, payout, payoutOp>>
        /\ Rest(s)
        /\ UNCHANGED <<tradeLog, copied, referredBy, referralFaults>>

-----------------------------------------------------------------------------
(* doPayouts.                                                              *)

(* referral_get_fills: trades with an invited side after the last window,  *)
(* which may have ended with the first fill of a trade.                    *)
NewTrades ==
    {t \in 1 .. Len(tradeLog) :
       /\ \E f \in FillsOf(t) : Invited(f) /\ From("fills") < f /\ f <= copied
       /\ From("fills") = 0 \/ t # TradeOf(From("fills"))}

(* A trade of which one fill is not copied yet breaks the pairs, and one   *)
(* that cost more than it brought stops the shard: calculateFees fails.    *)
Fees(trades) == \A t \in trades : 2 * t <= copied /\ NetFee(t) >= 0

(* The window goes from the first row to the last row of the query, which  *)
(* orders by time and trade id; the two rows of a trade come in any order. *)
getReferralFills(s) ==
    LET trades == NewTrades
        fills == UNION {FillsOf(t) : t \in trades}
        by(t) == QueryRank[t]
    IN  /\ AtJob(s, "rest") /\ trades # {} /\ Fees(trades)
        /\ \E first, last \in trades :
              /\ \A t \in trades : by(first) <= by(t) /\ by(t) <= by(last)
              /\ \E f \in FillsOf(first), l \in FillsOf(last) :
                    /\ first = last => f # l
                    /\ Begin(s, [job |-> "payouts",
                                 window |-> [table |-> "fills", first |-> f, last |-> l],
                                 fees |-> [r \in Referrers |-> addToFees(fills, r)],
                                 trades |-> trades])
        /\ UNCHANGED <<tradeLog, copied, dbTables, payoutOp, referralFaults>>

doPayouts(s) ==
    LET j == referralJob[s]
        rows == SetToSeq({NewPayout(r, j.fees[r], [trades |-> j.trades]) :
                             r \in {q \in Referrers : j.fees[q] > 0}})
    IN  /\ AtJob(s, "payouts")
        /\ IF Storable(j.window)
           THEN /\ windows' = Stored(j.window)
                /\ payout' = payout \o rows
                /\ payoutOp' = payoutOp \o [i \in 1 .. Len(rows) |-> "none"]
           ELSE UNCHANGED <<windows, payout, payoutOp>>
        /\ Rest(s)
        /\ UNCHANGED <<tradeLog, copied, referredBy, referralVolume, bonusIntegrity,
                       referralFaults>>

-----------------------------------------------------------------------------
(* doProcessPayouts.                                                       *)

getUnProcessedPayouts(s) ==
    LET ids == {i \in DOMAIN payout : ~payout[i].processed}
    IN  /\ AtJob(s, "rest") /\ ids # {}
        /\ Begin(s, [job |-> "create", ids |-> ids, left |-> ids])
        /\ UNCHANGED <<tradeLog, copied, dbTables, payoutOp, referralFaults>>

(* Mutant: an id that is there already fails like any error.               *)
DuplicateFails(i) == payoutOp[i] = "none"

(* A duplicate id is an error that the service expects.                    *)
Tolerated(i) == TRUE

(* balance.create_referral_payout, for one payout after the other.         *)
CreateReferralPayout(s) ==
    LET j == referralJob[s]
    IN  /\ AtJob(s, "create") /\ j.left # {}
        /\ \E i \in j.left :
              IF Tolerated(i)
              THEN /\ payoutOp' = [payoutOp EXCEPT ![i] = IF @ = "none" THEN "pending" ELSE @]
                   /\ Begin(s, [j EXCEPT !.left = @ \ {i}])
              ELSE Rest(s) /\ UNCHANGED payoutOp
        /\ UNCHANGED <<tradeLog, copied, dbTables, referralFaults>>

(* profile.process_referral_payout credits every pending row at once.      *)
ProcessReferralPayout(s) ==
    LET j == referralJob[s]
    IN  /\ AtJob(s, "create") /\ j.left = {}
        /\ payoutOp' = [i \in DOMAIN payoutOp |->
                           IF payoutOp[i] = "pending" THEN "success" ELSE payoutOp[i]]
        /\ Begin(s, [job |-> "processed", ids |-> j.ids])
        /\ UNCHANGED <<tradeLog, copied, dbTables, referralFaults>>

MarkedIds(ids) == ids

setToProcessed(s) ==
    /\ AtJob(s, "processed")
    /\ payout' = [i \in DOMAIN payout |->
                     IF i \in MarkedIds(referralJob[s].ids) THEN [payout[i] EXCEPT !.processed = TRUE]
                     ELSE payout[i]]
    /\ Rest(s)
    /\ UNCHANGED <<tradeLog, copied, referredBy, referralVolume, bonusIntegrity, windows,
                   payoutOp, referralFaults>>

(* A call fails or the process ends: the transaction is rolled back.       *)
Rollback(s) ==
    /\ ~AtJob(s, "rest") /\ referralFaults < MaxReferralFaults
    /\ referralFaults' = referralFaults + 1
    /\ Rest(s)
    /\ UNCHANGED <<tradeLog, copied, dbTables, payoutOp>>

ReferralStep(s) ==
    \/ doVolumes(s) \/ doPayouts(s)
    \/ CreateReferralPayout(s) \/ ProcessReferralPayout(s) \/ setToProcessed(s)

ReferralNext ==
    \/ Trade \/ CopyFills
    \/ \E r \in Referrers, t \in Traders : CreateReferralLink(t, r)
    \/ \E s \in ReferralServices :
          \/ calculateVolumes(s) \/ getReferralFills(s) \/ getUnProcessedPayouts(s)
          \/ ReferralStep(s) \/ Rollback(s)

(* Run's loop ends every job, and each of its timers fires again and again.*)
ReferralFairness ==
    \A s \in ReferralServices :
       WF_referralVars(ReferralStep(s)) /\ SF_referralVars(getUnProcessedPayouts(s))

ReferralSpec == ReferralInit /\ [][ReferralNext]_referralVars /\ ReferralFairness

-----------------------------------------------------------------------------
Rows(why(_)) == {i \in DOMAIN payout : why(payout[i].why)}
TradesOf(i) == payout[i].why.trades
OfFees(w) == "trades" \in DOMAIN w
OfBonus(w) == "level" \in DOMAIN w

(* The fees of a trade are shared once: no two payouts of a referrer count *)
(* the same trade, though jobs of two instances overlap, transactions are  *)
(* rolled back, and a window may end within a trade.                       *)
FeesSharedOnce ==
    \A i, k \in Rows(OfFees) :
       i # k /\ payout[i].profile = payout[k].profile => TradesOf(i) \cap TradesOf(k) = {}

(* What is paid out for a batch of trades never exceeds what those trades  *)
(* brought in net of rebates.                                              *)
SharesWithinFees ==
    \A i \in Rows(OfFees) :
       LET batch == {k \in Rows(OfFees) : TradesOf(k) = TradesOf(i)}
       IN  MapThenSumSet(LAMBDA k : payout[k].amount, batch)
              <= MapThenSumSet(LAMBDA t : NetFee(t), TradesOf(i))

(* A referrer has been paid the bonus of exactly the levels its volume has *)
(* passed, each once.                                                      *)
BonusesMatchVolume ==
    \A r \in Referrers : Percentage(r) =>
       /\ {b[2] : b \in {c \in bonusIntegrity : c[1] = r}} = 2 .. Level(referralVolume[r])
       /\ \A i, k \in Rows(OfBonus) :
             payout[i].profile = payout[k].profile /\ payout[i].why = payout[k].why => i = k

(* A payout is not marked processed before the balance has it.             *)
ProcessedIsPaid == \A i \in DOMAIN payout : payout[i].processed => payoutOp[i] = "success"

(* When trading is over every payout has reached the balance of its        *)
(* profile and is marked, whatever calls failed in between.                *)
PayoutsReachBalance ==
    <>[](\A i \in DOMAIN payout : payoutOp[i] = "success" /\ payout[i].processed)

(* What is shared was earned, and reaches the balances in the end          *)
(* (doVolumes, doPayouts, doProcessPayouts).                               *)
ReferralsPaid ==
    [](SharesWithinFees /\ BonusesMatchVolume) /\ PayoutsReachBalance

(* Two services that overlap share no trade twice and mark no payout too   *)
(* early (volumes_integrity, fills_integrity, setToProcessed).             *)
SharedAndPaidOnce ==
    FeesSharedOnce /\ ProcessedIsPaid

=============================================================================
