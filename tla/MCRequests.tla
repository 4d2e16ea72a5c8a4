------------------------------- MODULE MCRequests -------------------------------
(* Instances for TLC of what clients and events drive at once.  A          *)
(* behaviour is one of a single component, the one in focus; the others    *)
(* stand still.                                                            *)
EXTENDS Vaults, Yields, Clawback, Airdrops, Pricing, Sessions, Slipstopper, Referrals, Liquidations,
        DeadMansSwitch

CONSTANTS s1, s2, t1, ra, rb, ti, tj

(* One staker stakes from the chain, the other from its balance.           *)
OneStakeTx == [t \in {t1} |-> [staker |-> s1, amount |-> 4]]
FundsOfOne == [p \in VaultProfiles |-> IF p = s2 THEN 4 ELSE 0]

TwoClaims == <<10, 3>>

(* The second airdrop had no volume while it lasted.                       *)
TwoTitles == <<"a", "b">>
Rewards == "a" :> 4 @@ "b" :> 2
FirstRewards == "a" :> 1 @@ "b" :> 1
VolumeThen == "a" :> 2 @@ "b" :> 0

LowMargin == <<2>>

(* Ages of prices, when candles and quotes are an interval old at most.    *)
ThreeSources == LET Ages == Factories(1, 1)
                IN  ("s1" :> Ages.binance) @@ ("s2" :> Ages.okx) @@ ("s3" :> Ages.geckoterminal)

(* An order in the second market.                                          *)
OwnerIsFirst == [o \in DmOrders |-> s1]
SecondMarket == [o \in DmOrders |-> 2]

(* One referrer has a level by volume and one a percentage of its own.     *)
Kol == rb :> 70
Levels == << [volume |-> 0, percent |-> 20, bonus |-> 0], [volume |-> 2, percent |-> 40, bonus |-> 5],
             [volume |-> 3, percent |-> 40, bonus |-> 7] >>
OneKind == { [sides |-> <<tj, ti>>, fees |-> <<-10, -10>>, volume |-> 2] }
InOrder == [t \in 1 .. MaxTrades |-> t]

-------------------------------------------------------------------------------
VARIABLE focus

requestsVars == <<focus, vaultVars, yieldVars, clawVars, airdropVars, priceVars, sessionVars, slipVars,
                  referralVars, liqVars, dmVars>>

RequestsInit ==
    /\ focus \in {"vaults", "yields", "clawback", "airdrops", "pricing", "sessions", "slipstopper",
                  "referrals", "liquidations", "switches"}
    /\ VaultInit /\ YieldInit /\ ClawInit /\ AirdropInit /\ PriceInit /\ SessionInit /\ SlipInit
    /\ ReferralInit /\ LiqInit /\ DmInit
    /\ focus # "pricing" => market = Min(PriceLevels)

(* A step of one component leaves the variables of the others alone.       *)
Only(x) ==
    /\ focus = x /\ UNCHANGED focus
    /\ x # "vaults" => UNCHANGED vaultVars
    /\ x # "yields" => UNCHANGED yieldVars
    /\ x # "clawback" => UNCHANGED clawVars
    /\ x # "airdrops" => UNCHANGED airdropVars
    /\ x # "pricing" => UNCHANGED priceVars
    /\ x # "sessions" => UNCHANGED sessionVars
    /\ x # "slipstopper" => UNCHANGED slipVars
    /\ x # "referrals" => UNCHANGED referralVars
    /\ x # "liquidations" => UNCHANGED liqVars
    /\ x # "switches" => UNCHANGED dmVars

RequestsNext ==
    \/ Only("vaults") /\ VaultNext
    \/ Only("yields") /\ YieldNext
    \/ Only("clawback") /\ ClawNext
    \/ Only("airdrops") /\ AirdropNext
    \/ Only("pricing") /\ PriceNext
    \/ Only("sessions") /\ SessionNext
    \/ Only("slipstopper") /\ SlipNext
    \/ Only("referrals") /\ ReferralNext
    \/ Only("liquidations") /\ LiqNext
    \/ Only("switches") /\ DmNext

RequestsSpec == RequestsInit /\ [][RequestsNext]_requestsVars
================================================================================
