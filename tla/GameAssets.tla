------------------------------- MODULE GameAssets -------------------------------
(* Points and gold of players, computed outside and posted in batches      *)
(* (src/gameassets/gameassets.go, src/api/gameassets.go).  Each statement  *)
(* is atomic; several posts run at once and are posted again after errors. *)
EXTENDS Integers, Sequences, FiniteSets, FiniteSetsExt

CONSTANTS
    Gamers,         \* profiles
    Uploads,        \* requests of the poster
    BlastPosts,     \* their rows: sequences of [gamer, batch, points, boost]
    BfxPosts,       \* the same for Bfx: sequences of [gamer, batch, points, time]
    PostLimit,      \* BLAST_LOAD_ASSETS_MAX_BATCH_LEN, BFX_LOAD_ASSETS_MAX_BATCH_LEN
    VolumeSteps,    \* volume at which each tier but the first starts, rising
    MaxTraded,      \* bound: volume traded by a gamer
    MaxUploads,     \* bound: posts
    NoAssets

VARIABLES
    assets,     \* app_game_assets: per gamer [batch, points, boost]
    points,     \* app_bfx_points: set of [gamer, batch, total, time]
    upload,     \* per request: what it posts, where it is, what it has read
    uploads,    \* number of posts
    traded,     \* per gamer its trading volume
    shown,      \* per gamer batch and tier of the last answer
    storedRows  \* history: rows that Blast posts stored

assetVars == <<assets, points, upload, uploads, traded, shown, storedRows>>

RowsOf(post) == {post[i] : i \in DOMAIN post}
AtUpload(u, kind, step) == upload[u].kind = kind /\ upload[u].step = step

(* A statement may not touch one row twice.                                *)
OnceEach(post) == Cardinality({r.gamer : r \in RowsOf(post)}) = Len(post)

-------------------------------------------------------------------------------
AssetsInit ==
    /\ assets = [g \in Gamers |-> NoAssets]
    /\ points = {}
    /\ upload = [u \in Uploads |-> [kind |-> "none", post |-> <<>>, step |-> "done", max |-> 0]]
    /\ uploads = 0 /\ storedRows = {}
    /\ traded = [g \in Gamers |-> 0]
    /\ shown = [g \in Gamers |-> [batch |-> 0, tier |-> 1]]

(* The poster posts; after an error or without an answer it may post the   *)
(* same again.                                                             *)
Post(u, kind, post, first) ==
    /\ upload[u].step \in {"done", "refused"} /\ uploads < MaxUploads
    /\ uploads' = uploads + 1
    /\ upload' = [upload EXCEPT ![u] = [kind |-> kind, post |-> post, max |-> 0,
                                        step |-> IF Len(post) > PostLimit THEN "refused" ELSE first]]
    /\ UNCHANGED <<assets, points, traded, shown, storedRows>>

HandleGameAssetsBlastPost(u) == \E post \in BlastPosts : Post(u, "blast", post, "upsert")
HandleGameAssetsBfxPost(u) == \E post \in BfxPosts : Post(u, "bfx", post, "points")

(* The rows that the upsert writes: older batches leave a row alone.       *)
Replaced(post) ==
    {r \in RowsOf(post) : assets[r.gamer] = NoAssets \/ assets[r.gamer].batch <= r.batch}

(* The upsert sets everything but the boost.                               *)
UpsertAssets(u) ==
    /\ AtUpload(u, "blast", "upsert")
    /\ LET post == upload[u].post
           New(r) == [batch |-> r.batch, points |-> r.points,
                      boost |-> IF assets[r.gamer] = NoAssets THEN r.boost ELSE assets[r.gamer].boost]
       IN  IF OnceEach(post)
           THEN /\ assets' = [g \in Gamers |-> IF \E r \in Replaced(post) : r.gamer = g
                                               THEN New(CHOOSE r \in Replaced(post) : r.gamer = g)
                                               ELSE assets[g]]
                /\ storedRows' = storedRows \cup Replaced(post)
                /\ upload' = [upload EXCEPT ![u].step = "max"]
           ELSE upload' = [upload EXCEPT ![u].step = "refused"] /\ UNCHANGED <<assets, storedRows>>
    /\ UNCHANGED <<points, uploads, traded, shown>>

(* The largest batch in the table.                                         *)
LatestBatch == Max({0} \cup {assets[g].batch : g \in {h \in Gamers : assets[h] # NoAssets}})

ReadLatestBatch(u) ==
    /\ AtUpload(u, "blast", "max")
    /\ upload' = [upload EXCEPT ![u].step = "done", ![u].max = LatestBatch]
    /\ UNCHANGED <<assets, points, uploads, traded, shown, storedRows>>

(* One row per gamer: the batch of its first row, the sum of its points,   *)
(* its earliest time.  The exchange of the profile is left out.            *)
Aggregate(post) ==
    { LET own == {i \in DOMAIN post : post[i].gamer = g}
      IN  [gamer |-> g, batch |-> post[Min(own)].batch,
           total |-> MapThenSumSet(LAMBDA i : post[i].points, own), time |-> Min({post[i].time : i \in own})]
      : g \in {r.gamer : r \in RowsOf(post)} }

SameBatch(r, s) == r.gamer = s.gamer /\ r.batch = s.batch

(* Mutant: a conflict adds the points.                                     *)
UpsertPointsAdded(rows) ==
    {r \in points : ~\E s \in rows : SameBatch(r, s)}
    \cup { [s EXCEPT !.total = @ + MapThenSumSet(LAMBDA r : r.total, {r \in points : SameBatch(r, s)})] : s \in rows }

UpsertPoints(rows) == {r \in points : ~\E s \in rows : SameBatch(r, s)} \cup rows

aggregateAndInsertBfxPoints(u) ==
    /\ AtUpload(u, "bfx", "points")
    /\ points' = UpsertPoints(Aggregate(upload[u].post))
    /\ upload' = [upload EXCEPT ![u].step = "insert"]
    /\ UNCHANGED <<assets, uploads, traded, shown, storedRows>>

(* The insert has no RETURNING for the count that selects from it: the     *)
(* database refuses it, after the points were stored.                      *)
InsertRows(u) ==
    /\ AtUpload(u, "bfx", "insert")
    /\ upload' = [upload EXCEPT ![u].step = IF upload[u].post = <<>> THEN "done" ELSE "refused"]
    /\ UNCHANGED <<assets, points, uploads, traded, shown, storedRows>>

(* The request ends between two statements.                                *)
CutOff(u) ==
    /\ upload[u].step \notin {"done", "refused"}
    /\ upload' = [upload EXCEPT ![u].step = "refused"]
    /\ UNCHANGED <<assets, points, uploads, traded, shown, storedRows>>

(* One tier more for every step reached.                                   *)
VolumeTier(v) == 1 + Cardinality({i \in DOMAIN VolumeSteps : v >= VolumeSteps[i]})

(* The boosts add up from the stored row and from queries of their own;    *)
(* referrer and sums of operations are left out.                           *)
BlastGetAssets(g) ==
    /\ shown' = [shown EXCEPT ![g] = [batch |-> IF assets[g] = NoAssets THEN 0 ELSE assets[g].batch,
                                      tier |-> VolumeTier(traded[g])]]
    /\ UNCHANGED <<assets, points, upload, uploads, traded, storedRows>>

(* External: the archiver brings a fill.                                   *)
ArchiveFill(g) ==
    /\ traded[g] < MaxTraded /\ traded' = [traded EXCEPT ![g] = @ + 1]
    /\ UNCHANGED <<assets, points, upload, uploads, shown, storedRows>>

AssetsNext ==
    \/ \E u \in Uploads :
         \/ HandleGameAssetsBlastPost(u) \/ UpsertAssets(u) \/ ReadLatestBatch(u)
         \/ HandleGameAssetsBfxPost(u)
         \/ aggregateAndInsertBfxPoints(u) \/ InsertRows(u) \/ CutOff(u)
    \/ \E g \in Gamers : BlastGetAssets(g) \/ ArchiveFill(g)

AssetsSpec == AssetsInit /\ [][AssetsNext]_assetVars

-------------------------------------------------------------------------------
(* In whatever order posts arrive, repeated or late, a gamer has the row   *)
(* of the largest batch that was stored for it (BlastLoadAssetsBatch).     *)
LatestBatchKept ==
    \A g \in Gamers :
      LET own == {r \in storedRows : r.gamer = g}
      IN  IF assets[g] = NoAssets THEN own = {}
          ELSE /\ \E r \in own : r.batch = assets[g].batch /\ r.points = assets[g].points
               /\ \A r \in own : r.batch <= assets[g].batch

(* "Returns the LATEST batch id": no smaller than any batch of the post    *)
(* itself, although the statements of other posts come in between.         *)
MaxCoversUpload ==
    \A u \in Uploads : AtUpload(u, "blast", "done") =>
        \A r \in RowsOf(upload[u].post) : r.batch <= upload[u].max

(* A post that is refused after its points were stored is posted again:    *)
(* the points of a batch are those of one post, not of several             *)
(* (aggregateAndInsertBfxPoints).                                          *)
PointsOfOnePost ==
    \A r \in points : \E post \in BfxPosts :
        \E s \in Aggregate(post) : SameBatch(r, s) /\ r.total = s.total /\ r.time = s.time

(* What a gamer is shown never goes back to an older batch or a lower tier *)
(* (BlastGetAssets, calculateVolumeBoost).                                 *)
AnswersMoveForward ==
    [][\A g \in Gamers : shown'[g].batch >= shown[g].batch /\ shown'[g].tier >= shown[g].tier]_assetVars

(* Repeated, late and simultaneous posts leave the newest batch, once, and *)
(* the answers follow (BlastLoadAssetsBatch, aggregateAndInsertBfxPoints). *)
PostsSettle ==
    [](LatestBatchKept /\ MaxCoversUpload /\ PointsOfOnePost) /\ AnswersMoveForward

================================================================================
