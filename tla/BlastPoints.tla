------------------------------- MODULE BlastPoints -------------------------------
(* The points that Blast distributes to wallets (src/api/blast_points.go): *)
(* the first request starts an updater, which reads every batch of every   *)
(* contract again and again while Blast creates and finalizes batches.     *)
EXTENDS Integers, Sequences, FiniteSets, SequencesExt

CONSTANTS
    PointWallets,       \* addresses in lower case
    PointContracts,     \* number of blastPointContractAddresses
    PointBatches,       \* 1 .. n, in the order Blast lists them
    BatchData,          \* per batch [contract, kind, final, transfers]: kind "LIQUIDITY" or "DEVELOPER",
                        \* final its date, transfers a sequence of [to, points]
    PageSize,           \* batches in one answer of getBatches
    MaxPointFaults      \* bound: requests to Blast that fail

VARIABLES
    batchStatus,    \* external: per batch "none", "PENDING" (or "FINALIZING"), "FINALIZED"
    updater,        \* goroutine: step, contract, batches listed and not fetched, tmpResults
    cachedResults,  \* per wallet its points, empty until the first pass ends
    pointFaults     \* requests that failed

pointVars == <<batchStatus, updater, cachedResults, pointFaults>>

NoPoint == [points |-> 0, pending |-> 0, at |-> 0]
NoPoints == [w \in PointWallets |-> [gold |-> NoPoint, blast |-> NoPoint]]

BatchesOf(k) == {b \in PointBatches : BatchData[b].contract = k /\ batchStatus[b] # "none"}
UpdaterAt(step) == updater.step = step

-------------------------------------------------------------------------------
PointsInit ==
    /\ batchStatus \in [PointBatches -> {"none", "PENDING"}]
    /\ updater = [step |-> "off", contract |-> 1, cursor |-> 0, listed |-> <<>>, tmp |-> NoPoints]
    /\ cachedResults = NoPoints
    /\ pointFaults = 0

(* The first request starts the updater; a wallet that is not in           *)
(* cachedResults is answered "no such wallet".                             *)
HandleBlastPoints ==
    /\ UpdaterAt("off") /\ updater' = [updater EXCEPT !.step = "auth"]
    /\ UNCHANGED <<batchStatus, cachedResults, pointFaults>>

(* Challenge and token of a contract.                                      *)
obtainBearerToken ==
    /\ UpdaterAt("auth") /\ updater' = [updater EXCEPT !.step = "list", !.cursor = 0, !.listed = <<>>]
    /\ UNCHANGED <<batchStatus, cachedResults, pointFaults>>

(* The next page and whether it is the last one.                           *)
Page ==
    LET rest == {b \in BatchesOf(updater.contract) : b > updater.cursor}
        size == IF Cardinality(rest) < PageSize THEN Cardinality(rest) ELSE PageSize
    IN  SubSeq(SetToSortSeq(rest, <), 1, size)

IsLastPage(page) == {b \in BatchesOf(updater.contract) : b > updater.cursor} \subseteq {page[i] : i \in DOMAIN page}

(* Mutant: the cursor is not followed.                                     *)
getBatchesFirstPage ==
    /\ UpdaterAt("list")
    /\ updater' = [updater EXCEPT !.step = "fetch", !.listed = @ \o Page]
    /\ UNCHANGED <<batchStatus, cachedResults, pointFaults>>

getBatches ==
    /\ UpdaterAt("list")
    /\ updater' = [updater EXCEPT !.listed = @ \o Page,
                                  !.step = IF IsLastPage(Page) THEN "fetch" ELSE "list",
                                  !.cursor = IF IsLastPage(Page) THEN @ ELSE Page[Len(Page)]]
    /\ UNCHANGED <<batchStatus, cachedResults, pointFaults>>

(* A transfer counts as pending or final by the status of its batch.  The  *)
(* date of the gold is taken when it is after the date of the blast.       *)
Credited(v, batch, status, n) ==
    LET Count(point) == IF status = "FINALIZED" THEN [point EXCEPT !.points = @ + n]
                        ELSE [point EXCEPT !.pending = @ + n]
        late == batch.final > v.blast.at
        Dated(point) == IF late THEN [point EXCEPT !.at = batch.final] ELSE point
    IN  IF batch.kind = "LIQUIDITY" THEN [v EXCEPT !.blast = Dated(Count(@))]
        ELSE [v EXCEPT !.gold = Dated(Count(@))]

WithTransfers(results, b) ==
    FoldLeft(LAMBDA r, t : [r EXCEPT ![t.to] = Credited(@, BatchData[b], batchStatus[b], t.points)],
             results, BatchData[b].transfers)

(* Each batch is fetched by itself, with the status it has by then.        *)
getBatch ==
    /\ UpdaterAt("fetch") /\ updater.listed # <<>>
    /\ updater' = [updater EXCEPT !.listed = Tail(@), !.tmp = WithTransfers(@, Head(updater.listed))]
    /\ UNCHANGED <<batchStatus, cachedResults, pointFaults>>

NextContract ==
    /\ UpdaterAt("fetch") /\ updater.listed = <<>> /\ updater.contract < PointContracts
    /\ updater' = [updater EXCEPT !.step = "auth", !.contract = @ + 1]
    /\ UNCHANGED <<batchStatus, cachedResults, pointFaults>>

Asleep == [step |-> "sleep", contract |-> 1, cursor |-> 0, listed |-> <<>>, tmp |-> NoPoints]

(* A pass that got to its end replaces the results.                        *)
Replace ==
    /\ UpdaterAt("fetch") /\ updater.listed = <<>> /\ updater.contract = PointContracts
    /\ cachedResults' = updater.tmp /\ updater' = Asleep
    /\ UNCHANGED <<batchStatus, pointFaults>>

(* A request fails: the pass is given up.                                  *)
PassFails ==
    /\ updater.step \notin {"off", "sleep"} /\ pointFaults < MaxPointFaults
    /\ pointFaults' = pointFaults + 1 /\ updater' = Asleep
    /\ UNCHANGED <<batchStatus, cachedResults>>

WakeUp ==
    /\ UpdaterAt("sleep") /\ updater' = [updater EXCEPT !.step = "auth"]
    /\ UNCHANGED <<batchStatus, cachedResults, pointFaults>>

(* External: Blast creates batches and finalizes them.                     *)
BatchMoves(b) ==
    /\ batchStatus' = [batchStatus EXCEPT ![b] = IF @ = "none" THEN "PENDING" ELSE "FINALIZED"]
    /\ batchStatus[b] # "FINALIZED"
    /\ UNCHANGED <<updater, cachedResults, pointFaults>>

UpdaterStep == obtainBearerToken \/ getBatches \/ getBatch \/ NextContract \/ Replace \/ WakeUp

PointsNext == HandleBlastPoints \/ UpdaterStep \/ PassFails \/ (\E b \in PointBatches : BatchMoves(b))

(* The goroutine never ends once it is started.                            *)
PointsSpec == PointsInit /\ [][PointsNext]_pointVars /\ WF_pointVars(UpdaterStep)

-------------------------------------------------------------------------------
(* What the transfers to a wallet in these batches come to.                *)
Received(w, kind, batches) ==
    LET own(b) == IF BatchData[b].kind # kind THEN 0
                  ELSE FoldLeft(LAMBDA n, t : n + IF t.to = w THEN t.points ELSE 0, 0, BatchData[b].transfers)
    IN  FoldSet(LAMBDA b, n : n + own(b), 0, batches)

Final == {b \in PointBatches : batchStatus[b] = "FINALIZED"}

(* No batch counts twice, whatever Blast changes while a pass reads it     *)
(* page by page, and nothing counts as final that is not (getBlastPoints). *)
PointsWithinTransfers ==
    \A w \in PointWallets :
      LET shown == cachedResults[w]
      IN  /\ shown.blast.points <= Received(w, "LIQUIDITY", Final)
          /\ shown.gold.points <= Received(w, "DEVELOPER", Final)
          /\ shown.blast.points + shown.blast.pending <= Received(w, "LIQUIDITY", PointBatches)
          /\ shown.gold.points + shown.gold.pending <= Received(w, "DEVELOPER", PointBatches)

(* Points that a wallet was shown as final never become fewer              *)
(* (runBlastPointsUpdater).                                                *)
FinalPointsKept ==
    [][\A w \in PointWallets : /\ cachedResults'[w].blast.points >= cachedResults[w].blast.points
                               /\ cachedResults'[w].gold.points >= cachedResults[w].gold.points]_pointVars

(* Once the updater is started, every final batch is shown in the end, in  *)
(* spite of failed passes (runBlastPointsUpdater).                         *)
FinalPointsShown ==
    <>[](UpdaterAt("off") \/ \A w \in PointWallets :
           /\ cachedResults[w].blast.points = Received(w, "LIQUIDITY", Final)
           /\ cachedResults[w].gold.points = Received(w, "DEVELOPER", Final))

(* The points shown were given, stay, and become complete                  *)
(* (runBlastPointsUpdater).                                                *)
PointsRight ==
    []PointsWithinTransfers /\ FinalPointsKept /\ FinalPointsShown

================================================================================
