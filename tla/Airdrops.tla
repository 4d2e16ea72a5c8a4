------------------------------- MODULE Airdrops --------------------------------
(***************************************************************************)
(* The airdrops of a profile: rewards are unlocked by the volume the       *)
(* profile trades after the airdrop and claimed on the chain with a        *)
(* signature of the service.                                               *)
(*                                                                         *)
(* Requests run at once, and each is a row of calls: HandleAirdropList     *)
(* unlocks (update_profile_claimable, which waits for the engines between  *)
(* reading the row and changing it) and finishes a claim that the contract *)
(* has processed; HandleClaimAll makes a claim or signs the pending one    *)
(* again.                                                                  *)
(***************************************************************************)
EXTENDS Integers, Sequences, FiniteSets, FiniteSetsExt

CONSTANTS
    Titles,         \* airdrops of the profile, a sequence, all of them over
    TotalRewards,   \* total_rewards
    ClaimableFirst, \* claimable when the row was made
    AirdropVolume,  \* what the profile traded during the airdrop
    Visits,         \* requests under way
    MaxFilled,      \* bound: volume traded after the airdrop
    MaxVisits,      \* bound: requests
    MaxClaimOps     \* bound: claims

ASSUME AirdropAssumption ==
    /\ Titles \in Seq(STRING) /\ MaxFilled \in Nat /\ MaxVisits \in Nat /\ MaxClaimOps \in Nat
    /\ \A k \in DOMAIN Titles :
          /\ TotalRewards[Titles[k]] \in Nat /\ AirdropVolume[Titles[k]] \in Nat
          /\ ClaimableFirst[Titles[k]] \in 0..TotalRewards[Titles[k]]

VARIABLES
    drop,      \* space profile_airdrop: title -> row
    claimOps,  \* space airdrop_claim_ops
    processed, \* processedClaims of the contract
    filled,    \* volume traded since the airdrops, and the clock of upTo
    visit,     \* a request: its step, title, and what it has read
    visits     \* requests so far

airdropVars == <<drop, claimOps, processed, filled, visit, visits>>

NoVisit == [pc |-> "idle", k |-> 0, row |-> <<>>, to |-> 0, op |-> 0]

(* set_profile_total made the rows.                                        *)
AirdropInit ==
    /\ drop = [t \in {Titles[k] : k \in DOMAIN Titles} |->
                  [status |-> "INIT", claimable |-> ClaimableFirst[t], claimed |-> 0, upTo |-> 0]]
    /\ claimOps = <<>>
    /\ processed = {}
    /\ filled = 0
    /\ visit = [v \in Visits |-> NoVisit]
    /\ visits = 0

Visiting(v, pc) == visit[v].pc = pc
Title(v) == Titles[visit[v].k]
Proceed(v, pc) == visit' = [visit EXCEPT ![v].pc = pc]

(* The index status_profile: the pending claims, oldest first.             *)
Pending == {i \in DOMAIN claimOps : claimOps[i].status = "CLAIMING"}
FirstPending == IF Pending = {} THEN 0 ELSE Min(Pending)

-------------------------------------------------------------------------------
HandleAirdropList(v) ==
    /\ Visiting(v, "idle") /\ visits < MaxVisits
    /\ visits' = visits + 1
    /\ visit' = [visit EXCEPT ![v] = IF Titles = <<>> THEN [NoVisit EXCEPT !.pc = "list pending"]
                                      ELSE [NoVisit EXCEPT !.pc = "row", !.k = 1]]
    /\ UNCHANGED <<drop, claimOps, processed, filled>>

(* update_all_profile_airdrops goes on to the next row, then the handler   *)
(* asks for the pending claim; an error of a title is not passed on.       *)
NextTitle(v) ==
    IF visit[v].k < Len(Titles)
    THEN visit' = [visit EXCEPT ![v].pc = "row", ![v].k = @ + 1]
    ELSE Proceed(v, "list pending")

(* update_profile_claimable reads the row.                                 *)
ReadRow(v) ==
    /\ Visiting(v, "row")
    /\ \/ drop[Title(v)].status = "FINISHED" /\ NextTitle(v)
       \/ /\ drop[Title(v)].status # "FINISHED"
          /\ visit' = [visit EXCEPT ![v].row = drop[Title(v)],
                  ![v].pc = IF drop[Title(v)].status = "INIT" THEN "volume" ELSE "fills"]
    /\ UNCHANGED <<drop, claimOps, processed, filled, visits>>

(* The volume during the airdrop has come from the engines.                *)
SetVolume(v) ==
    /\ Visiting(v, "volume")
    /\ \/ /\ AirdropVolume[Title(v)] = 0
          /\ drop' = [drop EXCEPT ![Title(v)].status = "FINISHED"]
          /\ NextTitle(v)
       \/ /\ AirdropVolume[Title(v)] # 0
          /\ drop' = [drop EXCEPT ![Title(v)].status = "ACTIVE"]
          /\ Proceed(v, "fills")
    /\ UNCHANGED <<claimOps, processed, filled, visits>>

(* The engines are asked for the volume since last_fill_timestamp.         *)
CountFills(v) ==
    /\ Visiting(v, "fills")
    /\ \/ filled = visit[v].row.upTo /\ NextTitle(v)
       \/ filled > visit[v].row.upTo /\ visit' = [visit EXCEPT ![v].to = filled, ![v].pc = "unlock"]
    /\ UNCHANGED <<drop, claimOps, processed, filled, visits>>

Unlockable(t, row) == TotalRewards[t] - (row.claimable + row.claimed)
Unlocked(t, volume) == ((TotalRewards[t] - ClaimableFirst[t]) * volume) \div AirdropVolume[t]

(* The rest of update_profile_claimable, with the row as it was read;      *)
(* DIFF_INTEGRITY_ERROR is thrown and ends the request.                    *)
Unlock(v) ==
    LET t   == Title(v)
        row == visit[v].row
    IN  /\ Visiting(v, "unlock")
        /\ \/ /\ Unlockable(t, row) < 0
              /\ Proceed(v, "idle") /\ UNCHANGED drop
           \/ /\ Unlockable(t, row) >= 0
              /\ drop' = [drop EXCEPT ![t].status = "ACTIVE", ![t].upTo = visit[v].to,
                     ![t].claimable = @ + Min({Unlockable(t, row), Unlocked(t, visit[v].to - row.upTo)})]
              /\ NextTitle(v)
        /\ UNCHANGED <<claimOps, processed, filled, visits>>

(* PendingClaimOps.                                                        *)
ListPending(v) ==
    /\ Visiting(v, "list pending")
    /\ visit' = [visit EXCEPT ![v].op = FirstPending,
                              ![v].pc = IF Pending = {} THEN "idle" ELSE "list chain"]
    /\ UNCHANGED <<drop, claimOps, processed, filled, visits>>

(* ProcessedClaims.                                                        *)
ListProcessed(v) ==
    /\ Visiting(v, "list chain")
    /\ Proceed(v, IF visit[v].op \in processed THEN "list finish" ELSE "idle")
    /\ UNCHANGED <<drop, claimOps, processed, filled, visits>>

(* finish_claim takes the claim that is pending by now.                    *)
finish_claim ==
    LET i == FirstPending
        t == claimOps[i].title
    IN  /\ claimOps' = [claimOps EXCEPT ![i].status = "CLAIMED"]
        /\ drop' = IF drop[t].claimed = TotalRewards[t] THEN [drop EXCEPT ![t].status = "FINISHED"] ELSE drop

(* FinishClaim; with no claim pending the request ends with an error.      *)
FinishClaim(v, pc, next) ==
    /\ Visiting(v, pc)
    /\ \/ Pending # {} /\ finish_claim /\ Proceed(v, next)
       \/ Pending = {} /\ UNCHANGED <<claimOps, drop>> /\ Proceed(v, "idle")
    /\ UNCHANGED <<processed, filled, visits>>

-------------------------------------------------------------------------------
HandleClaimAll(v, k) ==
    /\ Visiting(v, "idle") /\ visits < MaxVisits
    /\ visits' = visits + 1
    /\ visit' = [visit EXCEPT ![v] = [NoVisit EXCEPT !.pc = "claim pending", !.k = k]]
    /\ UNCHANGED <<drop, claimOps, processed, filled>>

ClaimPending(v) ==
    /\ Visiting(v, "claim pending")
    /\ visit' = [visit EXCEPT ![v].op = FirstPending,
                              ![v].pc = IF Pending = {} THEN "claim" ELSE "claim chain"]
    /\ UNCHANGED <<drop, claimOps, processed, filled, visits>>

(* A claim the contract has not processed is signed again, or belongs to   *)
(* another airdrop and the request fails; either way the request ends.     *)
ClaimProcessed(v) ==
    /\ Visiting(v, "claim chain")
    /\ Proceed(v, IF visit[v].op \in processed THEN "claim finish" ELSE "idle")
    /\ UNCHANGED <<drop, claimOps, processed, filled, visits>>

(* Mutant: the handler has asked for a pending claim already.              *)
NonePendingAsked == TRUE

(* claim_all asks itself for a pending claim.                              *)
NonePending == Pending = {}

(* The check of the total after claimable has moved to claimed.            *)
WithinTotal(t, row) == TotalRewards[t] - (row.claimable + row.claimed) >= 0

(* claim_all, and the signature of the claim, which is the reply.          *)
claim_all(v) ==
    LET t   == Title(v)
        row == [drop[t] EXCEPT !.claimable = 0, !.claimed = @ + drop[t].claimable]
    IN  /\ Visiting(v, "claim")
        /\ \/ /\ drop[t].claimable # 0 /\ NonePending /\ WithinTotal(t, row)
              /\ Len(claimOps) < MaxClaimOps
              /\ claimOps' = Append(claimOps, [title |-> t, status |-> "CLAIMING", amount |-> drop[t].claimable])
              /\ drop' = [drop EXCEPT ![t] = row]
           \/ /\ drop[t].claimable = 0 \/ ~NonePending \/ ~WithinTotal(t, row)
              /\ UNCHANGED <<claimOps, drop>>
        /\ Proceed(v, "idle")
        /\ UNCHANGED <<processed, filled, visits>>

-------------------------------------------------------------------------------
(* A call of a request fails or its client goes away.                      *)
Abandon(v) ==
    /\ ~Visiting(v, "idle")
    /\ Proceed(v, "idle")
    /\ UNCHANGED <<drop, claimOps, processed, filled, visits>>

(* External: the wallet redeems a signature, and the contract takes every  *)
(* id once.                                                                *)
ClaimOnChain(i) ==
    /\ i \notin processed
    /\ processed' = processed \cup {i}
    /\ UNCHANGED <<drop, claimOps, filled, visit, visits>>

(* External: the profile trades.                                           *)
AirdropTrade ==
    /\ filled < MaxFilled
    /\ filled' = filled + 1
    /\ UNCHANGED <<drop, claimOps, processed, visit, visits>>

AirdropNext ==
    \/ \E v \in Visits :
          \/ HandleAirdropList(v) \/ ReadRow(v) \/ SetVolume(v) \/ CountFills(v) \/ Unlock(v)
          \/ ListPending(v) \/ ListProcessed(v) \/ FinishClaim(v, "list finish", "idle")
          \/ \E k \in DOMAIN Titles : HandleClaimAll(v, k)
          \/ ClaimPending(v) \/ ClaimProcessed(v) \/ FinishClaim(v, "claim finish", "claim")
          \/ claim_all(v) \/ Abandon(v)
    \/ \E i \in DOMAIN claimOps : ClaimOnChain(i)
    \/ AirdropTrade

AirdropSpec == AirdropInit /\ [][AirdropNext]_airdropVars

-------------------------------------------------------------------------------
(* The amounts of the claims of an airdrop.                                *)
AmountsFor(t) == [i \in DOMAIN claimOps |-> IF claimOps[i].title = t THEN claimOps[i].amount ELSE 0]

(* What was signed for an airdrop never exceeds its total, although two    *)
(* requests may unlock the same volume (airdrop.lua, INTEGRITY_CHECK).     *)
ClaimedWithinTotal ==
    \A t \in DOMAIN drop : SumFunction(AmountsFor(t)) <= TotalRewards[t]

(* At most one claim is pending, whatever requests run at once             *)
(* (finish_claim: "By design only 1 pending claim per time possible").     *)
OneClaimPending == Cardinality(Pending) <= 1

(* However many requests of a profile run at once, one claim is open, and  *)
(* all claims stay within the airdrop (claim_all, finish_claim).           *)
ClaimsLimited ==
    OneClaimPending /\ ClaimedWithinTotal

================================================================================
