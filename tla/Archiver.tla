-------------------------------- MODULE Archiver --------------------------------
(***************************************************************************)
(* The archiver copies Tarantool spaces to tables of the time series       *)
(* database.                                                               *)
(*                                                                         *)
(* Every change of a row takes the next archive id of its shard.  One      *)
(* goroutine per shard reads the last archive id of the table, selects a   *)
(* batch of rows with higher ids and writes it in one transaction.  There  *)
(* is no other memory of what was archived, so the process may end and     *)
(* start again at any moment.  The mode of a space says how it is written: *)
(* live and live-raw keep one row per id, snapshot adds every version,     *)
(* full-snapshot adds all rows of the space each time.                     *)
(***************************************************************************)
EXTENDS Integers, FiniteSets, FiniteSetsExt

CONSTANTS
    ArchiveModes,  \* modes to check
    SpaceRows,     \* primary keys
    Shard,         \* instance that holds a row
    Chunk,         \* chunk of the table for a row: by the row's own time
    SyncBatch,     \* batch_size
    BatcherLimit,  \* maxBatcherLimit
    MaxWrites,     \* bound: changes of rows
    MaxArchFaults  \* bound: ends of the process

ASSUME ArchiverAssumption ==
    /\ ArchiveModes \subseteq {"live", "live-raw", "snapshot", "full-snapshot"}
    /\ SpaceRows \subseteq Nat \ {0} /\ IsFiniteSet(SpaceRows) /\ Chunk \in [SpaceRows -> Nat]
    /\ SyncBatch \in Nat \ {0} /\ {BatcherLimit, MaxWrites, MaxArchFaults} \subseteq Nat

VARIABLES
    mode,       \* of the space
    archiveId,  \* of a row of the space, 0 for no row
    sequencer,  \* last archive id of a shard
    table,      \* archived versions: row and archive id
    archiving,  \* what the goroutine of a shard does
    writes, archFaults

archiverVars == <<mode, archiveId, sequencer, table, archiving, writes, archFaults>>

Shards == {Shard[r] : r \in SpaceRows}

NoRun == [pc |-> "idle", last |-> 0, batch |-> {}, kept |-> {}]

ArchiverInit ==
    /\ mode \in ArchiveModes
    /\ archiveId = [r \in SpaceRows |-> 0]
    /\ sequencer = [s \in Shards |-> 0]
    /\ table = {}
    /\ archiving = [s \in Shards |-> NoRun]
    /\ writes = 0 /\ archFaults = 0

RowsOf(s) == {r \in SpaceRows : Shard[r] = s /\ archiveId[r] > 0}

Version(r) == [row |-> r, id |-> archiveId[r]]

-------------------------------------------------------------------------------
(* insert, update, upsert and replace of archiver.lua.                     *)
WriteRow(r) ==
    /\ writes < MaxWrites /\ writes' = writes + 1
    /\ sequencer' = [sequencer EXCEPT ![Shard[r]] = @ + 1]
    /\ archiveId' = [archiveId EXCEPT ![r] = sequencer'[Shard[r]]]
    /\ UNCHANGED <<mode, table, archiving, archFaults>>

(* A row is deleted: only a full snapshot follows that.                    *)
DeleteRow(r) ==
    /\ mode = "full-snapshot" /\ archiveId[r] > 0
    /\ writes < MaxWrites /\ writes' = writes + 1
    /\ archiveId' = [archiveId EXCEPT ![r] = 0]
    /\ archiving' = [archiving EXCEPT ![Shard[r]].kept = @ \ {r}]
    /\ UNCHANGED <<mode, sequencer, table, archFaults>>

-------------------------------------------------------------------------------
MaxId(versions) == Max({v.id : v \in versions} \cup {0})

Archived(s) == {v \in table : Shard[v.row] = s}

(* last_shard_archive_id: the highest id in the newest chunk of the table, *)
(* or in the whole table when the chunk has no row of the shard.           *)
LastInNewestChunk(s) ==
    LET newest == {v \in Archived(s) : \A w \in table : Chunk[w.row] <= Chunk[v.row]}
    IN  IF newest # {} THEN MaxId(newest) ELSE MaxId(Archived(s))

(* getLastArchiveId; getLastArchiveIdRaw for live-raw.  Snapshots are      *)
(* chunked by archive_timestamp, where the newest chunk has the last ids.  *)
getLastArchiveId(s) ==
    IF mode = "live" THEN LastInNewestChunk(s) ELSE MaxId(Archived(s))

(* archiveUpdatedSpace and archiveUpdatedSpaceRaw.                         *)
archiveUpdatedSpace(s) ==
    /\ mode # "full-snapshot" /\ archiving[s].pc = "idle"
    /\ archiving' = [archiving EXCEPT ![s].pc = "batch", ![s].last = getLastArchiveId(s)]
    /\ UNCHANGED <<mode, archiveId, sequencer, table, writes, archFaults>>

(* Mutant: the rows are taken in the order of their keys.                  *)
BatchByKey(s) ==
    LET newer == {r \in RowsOf(s) : archiveId[r] > archiving[s].last}
    IN  {r \in newer : Cardinality({q \in newer : q < r}) < SyncBatch}

Batch(s) ==
    LET newer == {r \in RowsOf(s) : archiveId[r] > archiving[s].last}
    IN  {r \in newer : Cardinality({q \in newer : archiveId[q] < archiveId[r]}) < SyncBatch}

(* getNextBatch of the incremental batcher.                                *)
getNextBatch(s) ==
    /\ archiving[s].pc = "batch"
    /\ archiving' = [archiving EXCEPT ![s].pc = "sync",
                                      ![s].batch = {Version(r) : r \in Batch(s)}]
    /\ UNCHANGED <<mode, archiveId, sequencer, table, writes, archFaults>>

(* archiveFullSpace starts; last is now a primary key.                     *)
archiveFullSpace(s) ==
    /\ mode = "full-snapshot" /\ archiving[s].pc = "idle"
    /\ archiving' = [archiving EXCEPT ![s] = [NoRun EXCEPT !.pc = "scan", !.kept = RowsOf(s)]]
    /\ UNCHANGED <<mode, archiveId, sequencer, table, writes, archFaults>>

LastPage(page, batch) ==
    Cardinality(page) < SyncBatch \/ Cardinality(batch) > BatcherLimit

(* getNextBatch of the snapshot batcher, one select at a time.             *)
getNextPage(s) ==
    /\ archiving[s].pc = "scan"
    /\ LET after == {r \in RowsOf(s) : r > archiving[s].last}
           page == {r \in after : Cardinality({q \in after : q < r}) < SyncBatch}
           batch == archiving[s].batch \cup {Version(r) : r \in page}
       IN  archiving' = [archiving EXCEPT
               ![s].batch = batch,
               ![s].last = Max(page \cup {@}),
               ![s].pc = IF LastPage(page, batch) THEN "sync" ELSE "scan"]
    /\ UNCHANGED <<mode, archiveId, sequencer, table, writes, archFaults>>

(* tsdbLiveSqlBuilder: a row with the same id is overwritten.              *)
Overwritten(batch) == {v \in table : \E w \in batch : w.row = v.row}

(* sync: one transaction.                                                  *)
sync(s) ==
    /\ archiving[s].pc = "sync"
    /\ LET batch == archiving[s].batch
       IN  table' = IF mode \in {"live", "live-raw"} THEN (table \ Overwritten(batch)) \cup batch
                    ELSE table \cup batch
    /\ archiving' = [archiving EXCEPT ![s] = NoRun]
    /\ UNCHANGED <<mode, archiveId, sequencer, writes, archFaults>>

(* Run: an error of one goroutine ends the process, which starts again.    *)
ArchiverEnds ==
    /\ archFaults < MaxArchFaults /\ archFaults' = archFaults + 1
    /\ archiving' = [s \in Shards |-> NoRun]
    /\ UNCHANGED <<mode, archiveId, sequencer, table, writes>>

ArchiveStep(s) ==
    archiveUpdatedSpace(s) \/ getNextBatch(s) \/ archiveFullSpace(s) \/ getNextPage(s) \/ sync(s)

ArchiverNext ==
    \/ \E r \in SpaceRows : WriteRow(r) \/ DeleteRow(r)
    \/ \E s \in Shards : ArchiveStep(s)
    \/ ArchiverEnds

(* The tickers of the goroutines go on.                                    *)
ArchiverFairness == \A s \in Shards : WF_archiverVars(ArchiveStep(s))

ArchiverSpec == ArchiverInit /\ [][ArchiverNext]_archiverVars /\ ArchiverFairness

-------------------------------------------------------------------------------
(* No change is passed over: a row whose id is not above the last archived *)
(* one is in the table as it is in the space, whatever order rows change   *)
(* in and wherever the archiver was stopped.                               *)
NothingSkipped(s) ==
    mode # "full-snapshot" =>
        \A r \in SpaceRows :
            Shard[r] = s /\ archiveId[r] \in 1..getLastArchiveId(s) => Version(r) \in table

(* A full snapshot has every row that was there all the time it was read.  *)
SnapshotHasAll ==
    [][\A s \in Shards : mode = "full-snapshot" /\ archiving[s].pc = "sync" =>
           archiving[s].kept \subseteq {v.row : v \in archiving[s].batch}]_archiverVars

(* Rows that do not change any more are archived; in mode live as long as  *)
(* fewer rows of older chunks than fit a batch can change.                 *)
ArchiveCatchesUp ==
    LET older(s) == {r \in SpaceRows : Shard[r] = s /\ \E q \in SpaceRows : Chunk[q] > Chunk[r]}
    IN  <>[](\/ mode = "full-snapshot"
             \/ mode = "live" /\ \E s \in Shards : Cardinality(older(s)) >= SyncBatch
             \/ \A r \in SpaceRows : archiveId[r] > 0 => Version(r) \in table)

(* Every mode archives all it promises, wherever the archiver was stopped  *)
(* (TsDB, Archiver).                                                       *)
ArchiveComplete ==
    [](\A s \in Shards : NothingSkipped(s)) /\ SnapshotHasAll /\ ArchiveCatchesUp

================================================================================
