--------------------------------- MODULE Tiers ----------------------------------
(***************************************************************************)
(* Trading tiers: which fee tier a profile has on every market.            *)
(*                                                                         *)
(* Two goroutines of the profile periodics compute tiers and push them to  *)
(* all markets: onboard_tier takes profiles created since its last run,    *)
(* tier takes all.  They share the map tiersData and the volume cache,     *)
(* which a third goroutine refreshes.  Profiles and volumes come from the  *)
(* time series database, where the archiver brings them later.  Any error  *)
(* ends the process, and it starts again.                                  *)
(***************************************************************************)
EXTENDS Integers, FiniteSets, FiniteSetsExt, Functions

CONSTANTS
    TierProfiles,    \* profile ids, in the order of their creation
    TierMarkets,     \* markets
    MinVolume,       \* minimal volume of the tier ids 0 .. n
    TierVolumes,     \* volumes of the last 30 days
    SpecialTier,     \* id of the special tier
    Inviter,         \* app_referral_link: the profile that invited another, 0 for none
    AffiliateTier,   \* space affiliate_profile_tier: tier id that the special tier replaces
    TierBatch,       \* BatchSize
    MaxTierChanges   \* bound: changes of volumes and special tiers, edits, ends of the process

ASSUME TiersAssumption ==
    /\ TierProfiles \subseteq Nat \ {0} /\ TierVolumes \subseteq Nat
    /\ DOMAIN MinVolume \subseteq Nat /\ IsInjective(MinVolume)
    /\ 0 \in DOMAIN MinVolume /\ MinVolume[0] = 0 \* "No default tier"
    /\ SpecialTier \notin DOMAIN MinVolume
    /\ Inviter \in [TierProfiles -> TierProfiles \cup {0}]
    /\ TierBatch \in Nat \ {0} /\ MaxTierChanges \in Nat

VARIABLES
    volume,        \* volume in the database
    volumes,       \* VolumeStoreCache
    special,       \* profiles with a row in space profile_special_tier
    createdAt,     \* creation time of a profile, 0 for not created
    archived,      \* profiles in the database
    tiersData,     \* TierCalc.tiersData: current tier, next tier, needed volume
    profileTier,   \* space profile_to_tier of every market
    job,           \* the goroutines "tier" and "onboard"
    lastTs,        \* onboard_tier's lastTs
    tierChanges

tierSources == <<volume, special, createdAt, archived>>
tierVars == <<tierSources, volumes, tiersData, profileTier, job, lastTs, tierChanges>>

Jobs == {"tier", "onboard"}

NoTier == [special |-> 0, tier |-> 0]

NoEntry == [current |-> NoTier, next |-> 0, needed |-> 0, known |-> FALSE]

IdleJob == [pc |-> "idle", now |-> 0, ids |-> {}, left |-> {}, special |-> {},
            batch |-> <<>>, markets |-> {}]

TierInit ==
    /\ volume = [p \in TierProfiles |-> 0]
    /\ volumes = volume
    /\ special = {}
    /\ createdAt = [p \in TierProfiles |-> 0]
    /\ archived = {}
    /\ tiersData = [p \in TierProfiles |-> NoEntry]
    /\ profileTier = [m \in TierMarkets |-> [p \in TierProfiles |-> NoTier]]
    /\ job = [j \in Jobs |-> IdleJob]
    /\ lastTs = 0
    /\ tierChanges = 0

Clock == Cardinality({p \in TierProfiles : createdAt[p] > 0})

-------------------------------------------------------------------------------
(* The sources.                                                            *)

TierChange == tierChanges < MaxTierChanges /\ tierChanges' = tierChanges + 1

unchangedJobs == UNCHANGED <<tiersData, job, lastTs>>

CreateProfileRow ==
    /\ \E p \in TierProfiles :
           /\ createdAt[p] = 0 /\ \A q \in TierProfiles : q < p => createdAt[q] > 0
           /\ createdAt' = [createdAt EXCEPT ![p] = Clock + 1]
    /\ unchangedJobs /\ UNCHANGED <<volume, special, archived, volumes, profileTier, tierChanges>>

ArchiveProfile(p) ==
    /\ createdAt[p] > 0 /\ p \notin archived
    /\ archived' = archived \cup {p}
    /\ unchangedJobs
    /\ UNCHANGED <<volume, special, createdAt, volumes, profileTier, tierChanges>>

VolumeMoves ==
    /\ TierChange
    /\ \E p \in archived, v \in TierVolumes : volume' = [volume EXCEPT ![p] = v]
    /\ unchangedJobs /\ UNCHANGED <<special, createdAt, archived, volumes, profileTier>>

SpecialTierSet ==
    /\ TierChange
    /\ \E p \in TierProfiles :
           special' = IF p \in special THEN special \ {p} ELSE special \cup {p}
    /\ unchangedJobs /\ UNCHANGED <<volume, createdAt, archived, volumes, profileTier>>

(* AddProfileToTier and RemoveProfileTier of one market's instance.        *)
AddProfileToTier ==
    /\ TierChange
    /\ \E m \in TierMarkets, p \in archived, t \in {0, SpecialTier} :
           profileTier' = [profileTier EXCEPT ![m][p] = [special |-> t, tier |-> 0]]
    /\ unchangedJobs /\ UNCHANGED <<tierSources, volumes>>

(* Refresh of the volume cache.                                            *)
RefreshVolumes ==
    /\ volumes' = volume
    /\ unchangedJobs /\ UNCHANGED <<tierSources, profileTier, tierChanges>>

-------------------------------------------------------------------------------
(* Recalculate.                                                            *)

TierIds == DOMAIN MinVolume

BestTier(tiers) == CHOOSE t \in tiers : \A u \in tiers : MinVolume[u] <= MinVolume[t]

Lowest(tiers) == CHOOSE t \in tiers : \A u \in tiers : MinVolume[t] <= MinVolume[u]

(* The tiers are visited from the highest MinVolume down, up to the first  *)
(* whose volume is reached, or, for a profile invited by an affiliate, to  *)
(* the one that the affiliate's special tier replaces.                     *)
Stops(v, replaced) == {t \in TierIds : MinVolume[t] <= v \/ t \in replaced}

NextTier(v, stop) == Lowest({t \in TierIds : MinVolume[t] > MinVolume[stop]})

FromVolume(v, replaced) ==
    LET stop == BestTier(Stops(v, replaced))
        above == \E t \in TierIds : MinVolume[t] > MinVolume[stop]
    IN  [current |-> IF stop \in replaced THEN [special |-> SpecialTier, tier |-> 0]
                     ELSE [special |-> 0, tier |-> stop],
         next    |-> IF above THEN NextTier(v, stop) ELSE 0,
         needed  |-> IF above THEN MinVolume[NextTier(v, stop)] - v ELSE 0,
         known   |-> TRUE]

(* The affiliates' rows are read for the ids of the run: an affiliate that *)
(* is not one of them is not found.                                        *)
Replaced(p, ids) ==
    {AffiliateTier[a] : a \in {Inviter[p]} \cap ids \cap DOMAIN AffiliateTier}

Entry(p, j) ==
    IF p \in job[j].special
    THEN [NoEntry EXCEPT !.current.special = SpecialTier, !.known = TRUE]
    ELSE FromVolume(volumes[p], Replaced(p, job[j].ids))

-------------------------------------------------------------------------------
(* RunOnce of the two goroutines.                                          *)

(* Mutant: the hourly run takes new profiles only.                         *)
FetchedNew(j) == {p \in archived : lastTs = 0 \/ createdAt[p] > lastTs}

(* GetProfilesIdsAfterCreatedAt.                                           *)
Fetched(j) == {p \in archived : j = "tier" \/ lastTs = 0 \/ createdAt[p] > lastTs}

unchangedSources == UNCHANGED <<tierSources, volumes, tierChanges>>

RunOnce(j) ==
    /\ job[j].pc = "idle" /\ Fetched(j) # {}
    /\ job' = [job EXCEPT ![j] = [IdleJob EXCEPT !.pc = "calc", !.now = Clock,
                   !.ids = Fetched(j), !.left = Fetched(j), !.special = special]]
    /\ unchangedSources /\ UNCHANGED <<tiersData, profileTier, lastTs>>

Recalculate(j) ==
    /\ job[j].pc = "calc"
    /\ LET p == Min(job[j].left)
           rest == job[j].left \ {p}
       IN  /\ tiersData' = [tiersData EXCEPT ![p] = Entry(p, j)]
           /\ job' = [job EXCEPT ![j].left = IF rest = {} THEN job[j].ids ELSE rest,
                                 ![j].pc = IF rest = {} THEN "batch" ELSE @]
    /\ unchangedSources /\ UNCHANGED <<profileTier, lastTs>>

(* The next batch: its tiers are read from the map both goroutines write.  *)
GetProfileTier(j) ==
    /\ job[j].pc = "batch" /\ job[j].left # {}
    /\ LET n == Min({TierBatch, Cardinality(job[j].left)})
           next == CHOOSE b \in kSubset(n, job[j].left) :
                       \A p \in b, q \in job[j].left \ b : p < q
       IN  job' = [job EXCEPT ![j].pc = "push", ![j].left = @ \ next,
                       ![j].batch = [p \in next |-> tiersData[p].current],
                       ![j].markets = TierMarkets]
    /\ unchangedSources /\ UNCHANGED <<tiersData, profileTier, lastTs>>

(* UpdateProfilesToTiers: a call per market, in any order.                 *)
UpdateProfilesToTiers(j, m) ==
    /\ job[j].pc = "push" /\ m \in job[j].markets
    /\ profileTier' = [profileTier EXCEPT ![m] = [p \in TierProfiles |->
           IF p \in DOMAIN job[j].batch THEN job[j].batch[p] ELSE @[p]]]
    /\ job' = [job EXCEPT ![j].markets = @ \ {m},
                          ![j].pc = IF job[j].markets = {m} THEN "batch" ELSE @]
    /\ unchangedSources /\ UNCHANGED <<tiersData, lastTs>>

RunEnds(j) ==
    /\ job[j].pc = "batch" /\ job[j].left = {}
    /\ job' = [job EXCEPT ![j] = IdleJob]
    /\ lastTs' = IF j = "onboard" THEN job[j].now ELSE lastTs
    /\ unchangedSources /\ UNCHANGED <<tiersData, profileTier>>

(* A call fails: every goroutine ends, and the process starts again.       *)
PeriodicsEnd ==
    /\ TierChange /\ \E j \in Jobs : job[j].pc # "idle"
    /\ job' = [j \in Jobs |-> IdleJob]
    /\ tiersData' = [p \in TierProfiles |-> NoEntry]
    /\ lastTs' = 0
    /\ volumes' = volume
    /\ UNCHANGED <<tierSources, profileTier>>

JobStep(j) == RunOnce(j) \/ Recalculate(j) \/ GetProfileTier(j) \/ RunEnds(j)

(* Every job has one worker or more for the markets it updates.            *)
TierJob(j) == JobStep(j) \/ \E m \in TierMarkets : UpdateProfilesToTiers(j, m)

TierNext ==
    \/ CreateProfileRow \/ VolumeMoves \/ SpecialTierSet \/ AddProfileToTier \/ RefreshVolumes
    \/ PeriodicsEnd
    \/ \E p \in TierProfiles : ArchiveProfile(p)
    \/ \E j \in Jobs : TierJob(j)

(* Tickers and the pool of workers go on.                                  *)
TierFairness ==
    WF_tierVars(RefreshVolumes) /\ \A j \in Jobs : WF_tierVars(TierJob(j))

TierSpec == TierInit /\ [][TierNext]_tierVars /\ TierFairness

-------------------------------------------------------------------------------
(* PM.which_tier: the tier whose fees a market charges.                    *)
Which(m, p) ==
    IF profileTier[m][p].special # 0 THEN SpecialTier ELSE profileTier[m][p].tier

(* The tier a profile has earned: special by name; by its volume; or, if   *)
(* an affiliate invited it and its volume does not earn a tier above the   *)
(* replaced one, the affiliate's special tier.                             *)
Earned(p) ==
    LET byVolume == BestTier({t \in TierIds : MinVolume[t] <= volume[p]})
        affiliated == Inviter[p] \in DOMAIN AffiliateTier \cap archived
    IN  IF p \in special THEN SpecialTier
        ELSE IF affiliated /\ MinVolume[byVolume] <= MinVolume[AffiliateTier[Inviter[p]]]
        THEN SpecialTier ELSE byVolume

(* Once volumes, special tiers and profiles change no more, every market   *)
(* charges every profile its earned tier, although the two goroutines      *)
(* overwrite each other's results, profiles are archived late, markets are *)
(* edited by hand and the process ends in the middle.                      *)
TiersConverge ==
    <>[](\A m \in TierMarkets, p \in archived : Which(m, p) = Earned(p))

(* What a profile is told is consistent: it needs more volume for the next *)
(* tier, and no tier lies between its volume and that tier.                *)
NextTierIsNext ==
    \A p \in TierProfiles :
        LET e == tiersData[p]
            v == MinVolume[e.next] - e.needed
        IN  e.next # 0 =>
                /\ e.needed > 0
                /\ \A t \in TierIds : MinVolume[t] > v =>
                       \/ MinVolume[t] >= MinVolume[e.next]
                       \/ e.current.special # 0

(* Profiles are told of the right next tier, and are charged the tier they *)
(* earned in the end (TierCalc).                                           *)
TiersEarned ==
    []NextTierIsNext /\ TiersConverge

================================================================================
