---------------------------------- MODULE Pages ----------------------------------
(* Lists that clients read page by page (src/api/order.go, fill.go,        *)
(* balanceops.go, funding.go, src/vaultdata/vaultdata.go).  A page is      *)
(* found by its offset, and counted before it is read, while the archiver  *)
(* inserts rows, some of them late, and replaces others.                   *)
EXTENDS Integers, FiniteSets

CONSTANTS
    ListRows,           \* rows of a table
    ListKeys,           \* values of the column that a list is ordered by, positive
    PageLimit,          \* p_limit
    MaxListChanges,     \* bound: rows inserted and replaced
    MaxListFaults       \* bound: statements that fail

ASSUME ListsAssumption ==
    IsFiniteSet(ListRows) /\ ListKeys \subseteq Nat \ {0} /\ PageLimit \in Nat \ {0}

VARIABLES
    listKind,       \* the list that is read
    listKey,        \* per row its key, 0 of a row that is not in the list
    listChanges,    \* rows inserted and replaced
    listFaults,     \* statements that failed
    reading         \* of a client: step, order, page, total, rows it got; history: rows at the start,
                    \* rows that moved or left since, rows that came late, were got twice or had equal
                    \* keys, a count that failed, how it stopped

listVars == <<listKind, listKey, listChanges, listFaults, reading>>

OneKeyEach == {"rates", "vaults", "holdings"}   \* ordered by the hour or the vault
Filtered == {"orders", "operations"}            \* by a status that changes

Listed == {r \in ListRows : listKey[r] > 0}
ReadingAt(step) == reading.step = step
NotReading == [step |-> "idle", order |-> "ASC", page |-> 0, total |-> 0, got |-> {}, begun |-> {},
               moved |-> {}, late |-> FALSE, repeated |-> FALSE, tied |-> FALSE, uncounted |-> FALSE,
               by |-> "none"]
Ties == \E r, s \in Listed : r # s /\ listKey[r] = listKey[s]

ListsInit ==
    /\ listKind \in {"orders", "fills", "operations", "rates", "vaults", "holdings", "vault operations"}
    /\ listKey \in [ListRows -> ListKeys \cup {0}]
    /\ listKind \in OneKeyEach => ~Ties
    /\ listChanges = 0 /\ listFaults = 0
    /\ reading = NotReading

-------------------------------------------------------------------------------
Changed == listChanges < MaxListChanges /\ listChanges' = listChanges + 1

(* External: the archiver brings a row, of whatever time.                  *)
RowArrives(r) ==
    /\ listKey[r] = 0 /\ r \notin reading.moved /\ Changed
    /\ \E k \in ListKeys :
         /\ listKind \in OneKeyEach => \A s \in Listed : listKey[s] # k
         /\ listKey' = [listKey EXCEPT ![r] = k]
         /\ reading' = [reading EXCEPT !.late = @ \/ \E s \in Listed : listKey[s] >= k]
    /\ UNCHANGED <<listKind, listFaults>>

(* External: an order changes, and with it its updated_at; an order or an  *)
(* operation gets another status and leaves the list.                      *)
RowMoves(r) ==
    /\ listKey[r] > 0 /\ Changed
    /\ \/ listKind = "orders" /\ \E k \in ListKeys : k > listKey[r] /\ listKey' = [listKey EXCEPT ![r] = k]
       \/ listKind \in Filtered /\ listKey' = [listKey EXCEPT ![r] = 0]
    /\ reading' = [reading EXCEPT !.moved = @ \cup {r}]
    /\ UNCHANGED <<listKind, listFaults>>

-------------------------------------------------------------------------------
(* ASC, or DESC for anything else.                                         *)
PaginationMiddleware ==
    /\ ReadingAt("idle")
    /\ \E order \in {"ASC", "DESC"} :
         reading' = [NotReading EXCEPT !.step = "count", !.order = order, !.begun = Listed]
    /\ UNCHANGED <<listKind, listKey, listChanges, listFaults>>

(* A statement of its own, with the filters of the list.                   *)
Count(failed) ==
    /\ ReadingAt("count")
    /\ \/ reading' = [reading EXCEPT !.step = "read", !.total = Cardinality(Listed)] /\ UNCHANGED listFaults
       \/ listFaults < MaxListFaults /\ listFaults' = listFaults + 1 /\ reading' = failed
    /\ UNCHANGED <<listKind, listKey, listChanges>>

(* The error of Scan is dropped.                                           *)
TotalZero == [reading EXCEPT !.step = "read", !.total = 0, !.uncounted = TRUE]

(* ErrorResponse ends the request.                                         *)
ListFails == [reading EXCEPT !.step = "done", !.by = "error"]

(* Mutant: pages are counted from one.                                     *)
OffsetFromOne == PageLimit * reading.page + 1

Offset == PageLimit * reading.page

NotAfter(r, s) == IF reading.order = "ASC" THEN listKey[r] <= listKey[s] ELSE listKey[r] >= listKey[s]

(* LIMIT and OFFSET; rows with equal keys come in any order.               *)
Pages ==
    {page \in SUBSET Listed : \E before \in SUBSET (Listed \ page) :
        LET after == Listed \ (before \cup page)
        IN  /\ \/ Cardinality(before) = Offset
               \/ Cardinality(before) < Offset /\ page \cup after = {}
            /\ \/ Cardinality(page) = PageLimit
               \/ Cardinality(page) < PageLimit /\ after = {}
            /\ \A r \in before, s \in page \cup after : NotAfter(r, s)
            /\ \A r \in page, s \in after : NotAfter(r, s)}

(* A client goes on to the next page until one is short, or until the      *)
(* total is reached.                                                       *)
SuccessResponsePaginated(page) ==
    LET read == [reading EXCEPT !.got = @ \cup page, !.repeated = @ \/ page \cap reading.got # {},
                                !.tied = @ \/ Ties]
        Stop(by) == reading' = [read EXCEPT !.step = "done", !.by = by]
    IN  \/ Cardinality(page) < PageLimit /\ Stop("short page")
        \/ PageLimit * (reading.page + 1) >= reading.total /\ Stop("total")
        \/ Cardinality(page) = PageLimit /\ reading' = [read EXCEPT !.step = "count", !.page = @ + 1]

ReadPage ==
    /\ ReadingAt("read")
    /\ \/ \E page \in Pages : SuccessResponsePaginated(page) /\ UNCHANGED listFaults
       \/ listFaults < MaxListFaults /\ listFaults' = listFaults + 1 /\ reading' = ListFails
    /\ UNCHANGED <<listKind, listKey, listChanges>>

(* By updated_at; of the statuses, types and market that were asked for.   *)
HandleOrdersList == listKind = "orders" /\ (Count(TotalZero) \/ ReadPage)

(* By timestamp, which is the same for all the fills of one task.          *)
HandleFillsList == listKind = "fills" /\ (Count(TotalZero) \/ ReadPage)

(* By timestamp; of the types and statuses that were asked for.            *)
HandleBalanceOpsList == listKind = "operations" /\ (Count(TotalZero) \/ ReadPage)

(* By the hour, of one market.                                             *)
HandleFundingRateList == listKind = "rates" /\ (Count(TotalZero) \/ ReadPage)

(* By the id of the vault.                                                 *)
HandleVault == listKind = "vaults" /\ (Count(ListFails) \/ ReadPage)

(* By the id of the vault, of one staker.                                  *)
HandleVaultHoldings == listKind = "holdings" /\ (Count(ListFails) \/ ReadPage)

(* By timestamp, of one staker; types do not change.                       *)
HandleVaultBalanceOperations == listKind = "vault operations" /\ (Count(ListFails) \/ ReadPage)

ListsNext ==
    \/ \E r \in ListRows : RowArrives(r) \/ RowMoves(r)
    \/ PaginationMiddleware
    \/ HandleOrdersList \/ HandleFillsList \/ HandleBalanceOpsList \/ HandleFundingRateList
    \/ HandleVault \/ HandleVaultHoldings \/ HandleVaultBalanceOperations

ListsSpec == ListsInit /\ [][ListsNext]_listVars

-------------------------------------------------------------------------------
(* A client that reads up to a short page has every row that was there     *)
(* when it began and stayed, although rows come and push others over the   *)
(* borders of the pages.  Where rows move to the end of the order that     *)
(* holds for the newest first only, and nowhere once a row left; rows of   *)
(* equal times are excepted, for they may change places between two        *)
(* statements (HandleOrdersList, HandleFillsList, HandleBalanceOpsList).   *)
PagesMissNothing ==
    ReadingAt("done") /\ reading.by = "short page" /\ ~reading.tied
    /\ (reading.order = "DESC" \/ listKind # "orders" \/ reading.moved = {})
    /\ reading.moved \subseteq Listed
      => reading.begun \ reading.moved \subseteq reading.got

(* Oldest first, a list that only grows at its end gives no row twice, and *)
(* a client may stop at the total, although it was counted before the page *)
(* was read; where an error of the count is dropped, unless that happened  *)
(* (HandleVault, HandleVaultHoldings, HandleVaultBalanceOperations).       *)
TotalIsEnough ==
    ReadingAt("done") /\ reading.by # "error" /\ reading.order = "ASC"
    /\ ~reading.late /\ reading.moved = {} /\ ~reading.tied
    /\ (~reading.uncounted \/ listKind \in {"vaults", "holdings", "vault operations"})
      => reading.begun \subseteq reading.got /\ ~reading.repeated

(* Page by page a client gets the whole list, and the total says when      *)
(* (HandleOrdersList, HandleFillsList, HandleVault).                       *)
PagesComplete ==
    PagesMissNothing /\ TotalIsEnough

================================================================================
