------------------------------- MODULE MCServices -------------------------------
(* Instances for TLC of the services that work on tickers, of the calls    *)
(* between processes, and of the queue of an engine.  A behaviour is one of*)
(* a single component, the one in focus; the others stand still.           *)
EXTENDS Deposits, Funding, Liquidations, Tiers, PriceFeed, Archiver, Referrals, Broker,
        TaskQueue

CONSTANTS wa, wb, tx1, tx2, ra, rb, ti, tj, ca, cb, alice, o1, o2

(* Two events in one transaction, and one wallet with two events.          *)
DepositEvent(w, t, b, a, p) == [wallet |-> w, tx |-> t, block |-> b, amount |-> a, pooled |-> p]
SomeEvents == << DepositEvent(wa, tx1, 1, 1, FALSE), DepositEvent(wb, tx2, 2, 2, TRUE),
                 DepositEvent(wa, tx2, 2, 4, TRUE) >>

TwoMarkets == <<"m1", "m2">>

(* One profile below the margin of liquidation, one above.                 *)
LowAndSound == <<2, 5>>

TierVolume == 0 :> 0 @@ 1 :> 1 @@ 2 :> 2
InvitedByOne == 1 :> 0 @@ 2 :> 1
AffiliateOfOne == 1 :> 1

(* The second shard has one row, and the oldest row has a chunk of its own. *)
RowShard == [r \in SpaceRows |-> IF r = 4 THEN "s2" ELSE "s1"]
RowChunk == [r \in SpaceRows |-> IF r = 1 THEN 0 ELSE 1]

(* One referrer has a level by volume and one a percentage of its own.     *)
Kol == rb :> 70
Levels == << [volume |-> 0, percent |-> 20, bonus |-> 0], [volume |-> 2, percent |-> 40, bonus |-> 5],
             [volume |-> 3, percent |-> 40, bonus |-> 7] >>
Kinds == { [sides |-> <<ti, tj>>, fees |-> <<-10, 5>>, volume |-> 1],
           [sides |-> <<tj, ti>>, fees |-> <<-10, -10>>, volume |-> 2] }
InOrder == [t \in 1 .. MaxTrades |-> t]

(* One caller makes any call that can succeed, or two call at once.        *)
Unserved == {"InitVault", "LiquidatedVaults", "GetTiersOfProfile", "GetSpecialTiersOfProfile"}
OneOrTwo == { ca :> n @@ cb :> "none" : n \in (DOMAIN Sent \ Unserved) \cup {"none"} }
            \cup { ca :> "CreateDeposit" @@ cb :> n : n \in {"CreateDeposit", "OrderCreate"} }

(* Orders of one profile; cancels go before creates, as the priority tables*)
(* allow.                                                                  *)
OneOwner == o1 :> alice @@ o2 :> alice
CancelsFirst == [a \in ClientActions |-> CASE a = "cancel" -> 0 [] a = "create" -> 1 [] OTHER -> 2]

-------------------------------------------------------------------------------
VARIABLE focus

servicesVars == <<focus, depositVars, fundingVars, liqVars, tierVars, feedVars, archiverVars, referralVars,
                  brokerVars, vars>>

ServicesInit ==
    /\ focus \in {"deposits", "funding", "liquidations", "tiers", "feed", "archiver", "referrals",
                  "broker", "queue"}
    /\ DepositInit /\ FundingInit /\ LiqInit /\ TierInit /\ FeedInit /\ ArchiverInit /\ ReferralInit
    /\ BrokerInit /\ Init
    /\ focus # "archiver" => mode = "live"
    /\ focus # "feed" => conn = "open"
    /\ focus = "broker" <=> \E c \in Callers : ~At(c, "done")
    /\ focus # "broker" => down = {} /\ \A t \in DOMAIN link : link[t] = "up"

(* A step of one component leaves the variables of the others alone.       *)
Only(x) ==
    /\ focus = x /\ UNCHANGED focus
    /\ x # "deposits" => UNCHANGED depositVars
    /\ x # "funding" => UNCHANGED fundingVars
    /\ x # "liquidations" => UNCHANGED liqVars
    /\ x # "tiers" => UNCHANGED tierVars
    /\ x # "feed" => UNCHANGED feedVars
    /\ x # "archiver" => UNCHANGED archiverVars
    /\ x # "referrals" => UNCHANGED referralVars
    /\ x # "broker" => UNCHANGED brokerVars
    /\ x # "queue" => UNCHANGED vars

ServicesNext ==
    \/ Only("deposits") /\ DepositNext
    \/ Only("funding") /\ FundingNext
    \/ Only("liquidations") /\ LiqNext
    \/ Only("tiers") /\ TierNext
    \/ Only("feed") /\ FeedNext
    \/ Only("archiver") /\ ArchiverNext
    \/ Only("referrals") /\ ReferralNext
    \/ Only("broker") /\ BrokerNext
    \/ Only("queue") /\ Next

(* The fairness of the service in focus, as its module states it; the      *)
(* disjuncts of a condition belong to different services.                  *)
ServicesFairness ==
    /\ WF_servicesVars(\/ Only("deposits") /\ processDepositsAndStaking
                              /\ UNCHANGED <<profiles, resolving, depositHead>>
                       \/ Only("funding") /\ \E s \in FundingServices : FundingServiceStep(s)
                       \/ Only("liquidations") /\ Periodics
                       \/ Only("tiers") /\ RefreshVolumes
                       \/ Only("feed") /\ readWSData
                       \/ Only("archiver") /\ ArchiveStep("s1")
                       \/ Only("referrals") /\ \E s \in ReferralServices : ReferralStep(s)
                       \/ Only("broker") /\ CallerStep(ca)
                       \/ Only("queue") /\ LoopStep)
    /\ WF_servicesVars(\/ Only("deposits") /\ DepositBlock
                              /\ UNCHANGED <<profiles, resolving, depositRows, depositsDone,
                                            depositScan, failed, depositFaults>>
                       \/ Only("liquidations") /\ ProcessLiquidations
                       \/ Only("tiers") /\ TierJob("tier")
                       \/ Only("feed") /\ IntervalPasses
                       \/ Only("archiver") /\ ArchiveStep("s2")
                       \/ Only("broker") /\ CallerStep(cb))
    /\ WF_servicesVars(\/ Only("liquidations") /\ HandleUrgent
                       \/ Only("tiers") /\ TierJob("onboard")
                       \/ Only("feed") /\ Return("wsReader")
                       \/ Only("broker") /\ (\E t \in Asked : Recover(t)))
    /\ WF_servicesVars(\/ Only("liquidations") /\ MarginReady(1)
                       \/ Only("feed") /\ Return("pinger"))
    /\ WF_servicesVars(\/ Only("liquidations") /\ MarginReady(2)
                       \/ Only("feed") /\ dial("wsReader"))
    /\ WF_servicesVars(Only("feed") /\ dial("pinger"))
    /\ SF_servicesVars(\/ Only("feed") /\ enterConnectingState("wsReader")
                       \/ Only("referrals") /\ \E s \in ReferralServices : getUnProcessedPayouts(s))
    /\ SF_servicesVars(Only("feed") /\ enterConnectingState("pinger"))
    /\ SF_servicesVars(Only("feed") /\ reconnect("wsReader"))
    /\ SF_servicesVars(Only("feed") /\ reconnect("pinger"))

ServicesSpec == ServicesInit /\ [][ServicesNext]_servicesVars /\ ServicesFairness

-------------------------------------------------------------------------------
(* While the periodics run, every cached margin is the profile's margin in *)
(* the end, although engines and the profile service exchange it in pieces *)
(* (Periodics.RunOnce, GetUpdatedProfilesMeta).                            *)
CachesCatchUpInFocus == <>[](focus = "liquidations" => CachesAgree)

(* Nobody stays under the takeover margin, nobody is liquidated beyond the *)
(* position, and the caches that decide catch up (ProcessLiquidations,     *)
(* Periodics.RunOnce).                                                     *)
LiquidationsEndInFocus ==
    /\ [](\A t \in Debtors \ disturbed : LiquidationWithinPosition(t))
    /\ LowMarginTakenOver /\ CachesCatchUpInFocus

================================================================================
