# A TLA+ model of the Rabbit DEX backend

This directory specifies, model-checks and proves properties of
`rabbit-dex-backend`: the matching engine of a market and the task queue that
feeds it, the money that comes in, goes out and is shared, the services that
run on tickers, and what clients read. Line numbers refer to the sources under
`src/`; `PROJECT.json` maps every definition to the lines it stands for.

## 1. The system

A hybrid exchange. Orders, positions and balances live in a Tarantool cluster
(Lua, `src/model/tnt/app`); Go services around it read prices, liquidate,
settle, pay and archive; a relational database holds what the archiver copies
and what the services compute from it. The cluster has one *gateway*, one
*profile* and one *auth* role, and one *engine* role per market.

| Part | State | Operations | Talks to |
|---|---|---|---|
| Gateway API (`api/public.lua`, `api/internal.lua`) | client order ids, order id sequence, rate counters | `new_order`, `cancel_order`, `amend_order`, `cancel_all`, `next_task`, `queue_liq_actions`, `high_priority_cancell_all`, `is_cancel_all_accepted`, `execute_order` | queue; engine through the queue only |
| Dead man's switch (`api/deadman.lua`) | deadline per profile, one interval | create, touch, delete, fiber | queue |
| Task queue (`enginequeue.lua`, `tqueue/`) | one tube per market, `_queue_taken_2`, `_queue_session_ids`, priority tables | put, find, take, ack, delete, release on disconnect | gateway requests; engines' long-polling `next_task` |
| Engine (`engine/*.lua`) | orders, order book, price levels, open notional, positions, fills, sequence | `handle_task`: create, cancel, amend, execute, cancelall, liquidate; `pay_funding` | queue (RPC), profile cache, pub/sub |
| Balances (`balance.lua`, `wdm.lua`, `api/balance.go`) | sums, balance operations, locks, delay tiers, vaults, shares, unstake requests | deposit, withdrawal, stake, unstake, yield, payouts | settlement, API, engine |
| Settlement (`settlement/`) | last processed blocks, suspension flag | ticks for withdrawals, deposits and stakes, yield | balances, the chain |
| Profile (`profile/`, `model/tnt/app/profile`) | profiles, cached equity and margin, tiers, airdrops | onboarding, periodic recomputation, tiers by volume, claims | engines, database |
| Sessions (`auth/`, `roles/auth.lua`, `api/middleware.go`) | keys, tokens, sessions | onboard, create, refresh, remove, check a signature | auth role |
| Liquidation and insurance (`liqengine/`) | last profile of the round | poll low margins, cancel all, queue sales and takeovers, claw back | gateway, profile |
| Slipstopper (`slipstopper/`) | tree of trigger prices | follow orders and prices, `execute_order` | websocket, gateway |
| Pricing (`pricing/`) | latest prices of the sources, connections | combine, reject jumps, report | exchanges, gateway |
| Funding (`funding/`) | none | pay every market each hour | engines |
| Archiver (`archiver/`) | batches under way | copy changed rows by archive id | every instance, database |
| Referrals (`referrals/`, `api/referral.go`) | codes, links, windows, payouts, boards | share fees, bonus by volume, rank, invite | database, balances |
| Game assets, Blast points (`gameassets/`, `api/blast_points.go`) | posted batches, cached results | post, answer, follow Blast | database, Blast |
| Websocket (`websocket/`, `notif.lua`, `api-client/websocket.go`) | subscriptions | snapshot, publish, statistics | engines, Centrifugo |
| Broker (`model/broker.go`, `model/api*.go`) | one connection per instance | call, reconnect, call again | every instance |
| Lists (`api/order.go`, `fill.go`, `balanceops.go`, `funding.go`, `vaultdata/`) | none | count and read a page | database |

What is hard in this code:

* **one task, many writes.** A task edits six spaces by separate calls. It
  takes its sequence number before it knows whether it will commit. A failed
  check after the match has to undo everything (rollback to a savepoint or of
  the whole transaction) and give the number back.
* **repair after the fact.** `_match_order` lets the remainder rest in the
  book first; time in force, margin and dependent stop orders are dealt with
  afterwards.
* **the queue is a distributed hand-over.** The engine acknowledges the last
  task in the call that takes the next one. Connections drop, engines crash,
  task ids are reused, acknowledgements are repeated.
* **stale knowledge.** Almost every service acts on what it read some calls
  ago: the liquidation on positions, the slipstopper on a tree of its own, the
  tier jobs on tiers, a vault on its equity, an API request on a balance.
* **money across parties.** A withdrawal, a deposit, a stake, a claim of an
  airdrop is advanced by the client, by a service and by a contract, each of
  which may repeat, stop or come late. A range of blocks is read again after a
  failure, and a payout is created in one database and marked in another.
* **two services of one kind.** A deployment may overlap with the one before;
  some jobs guard against that (referrals, archiver), others do not (funding).
* **eventual repair.** Tiers, caches, boards and archives may be wrong for a
  while and have to converge. Tickers that stop at the first failure leave the
  rest to the next round.
* **reading what moves.** Snapshots before subscriptions, pages by offset, and
  batches listed page by page are read while they change.

`PROJECT.json` lists each such hazard at its line under `hazards`, with the
properties that cover it, and each part, modelled or not, under `components`.

## 2. Modules

| Module | Models |
|---|---|
| `Position` | what a fill does to a position (`_update_position`), the size a stop-loss executes; operators only |
| `Engine`, `Engine_proof`, `EngineMore_proof` | the engine of one market: one action per task that only edits rows; a chain `Create`/`AmendPrice`/`Execute` – `Fill`* – `Rest` – `Commit` or `Abort` for a task that matches; proofs |
| `TaskQueue`, `TaskQueue_proof` | the queue, the gateway requests that use it, the engine's main loop, lost connections and crashes; proofs |
| `Withdrawals`, `Withdrawals_proof` | API requests, withdraw lock, balance operations, settlement ticks, receipts of the chain; proofs |
| `PaidOnce` | the abstract ledger: an item is settled at most once, and pays its owner its amount |
| `Deposits` | announced, known, unknown and pooled deposits; implements `PaidOnce` |
| `Yields` | claim of a yield at a rising gas price, its split over profiles |
| `Vaults` | stakes from chain and balance, unstake requests, settlement of a range of requests, liquidated vaults |
| `Liquidations`, `Clawback` | a round over low margins with the caches it reads and what the engine makes of its actions; how the insurance takes from winners |
| `Slipstopper` | the matcher's tree, its channel and its calls |
| `Tiers` | volumes, tier job, onboarding job, special and affiliate tiers |
| `Pricing`, `PriceFeed` | combination of source prices and the jump filter; life of one websocket source |
| `Funding` | the hourly tick over markets |
| `Archiver` | a space of two shards and the copy of it, in four modes |
| `Sessions` | profiles, keys, tokens, sessions, signatures |
| `Airdrops` | claimable amounts and claims of several airdrops |
| `Referrals`, `Invitations`, `Leaderboards` | shares of fees and payouts; codes and links; ranks |
| `GameAssets`, `BlastPoints` | posts of batches; the updater that follows Blast |
| `Streams` | order book clients and the pusher of statistics |
| `Pages` | lists read page by page |
| `DeadMansSwitch` | switches, the fiber, the tasks it puts |
| `Calls`, `Broker` | every remote call with its procedure and arguments; connections and repeated calls |
| `Sums_proof` | lemmas about sums, parts of sums and least elements, used by the other proofs |
| `Payments_proof` | proofs about `Deposits`, `Airdrops`, `Clawback`, `Yields`, `Vaults` and `Funding` |
| `Requests_proof` | proofs about `Broker`, `Sessions`, `DeadMansSwitch` and `Referrals` |
| `Readers_proof` | proofs about `PriceFeed`, `Pricing`, `Pages`, `Slipstopper`, `Liquidations` and `Archiver` |
| `MCEngine`, `MCTaskQueue`, `MCWithdrawals` | instances of one module |
| `MCServices`, `MCRequests`, `MCServed` | instances of many modules, see section 3 |

The order types of `engine.lua` repeat the same code in several tables; a
definition that stands for all copies is mapped to one of them.

### Engine

| Variable | Code |
|---|---|
| `order`, `ob` | spaces `order` and `orderbook`; `Nil` is a missing row |
| `level`, `notional` | spaces of `aggregate.lua`: size by price, open notional by trader |
| `position` | space `position`; size 0 is a deleted row |
| `fills` | space `fill`, summed per order as maker and as taker |
| `fair` | `market.fair_price` |
| `sequence`, `published` | `orderbook_sequence`; the number of the last update sent |
| `touched` | space `nf_profiles_changed` of the running task |
| `task`, `saved` | program counter of the running handler; what a rollback restores |

The handlers run in one fiber inside a transaction that does not yield, so
tasks do not interleave. What the steps of a match make visible is the state
between the calls of `_match_order`, which is where a failing check leaves
off. Sizes count units of `min_order` and prices count ticks, so every
`round_to_nearest_tick` of the engine is the identity except where a ratio is
applied (`ExecutionPrice`, `PriceInRange`, `ExecutionSize`); there it is a
division that rounds down. `risk.post_match` depends on balances and other
markets: `Commit` and `Abort` are both possible after a match (`Abort` not for
a liquidation order, which skips the check). A row that `pre_create` refuses
is stored as rejected with the fields of an accepted one; the code keeps what
the client sent, and nothing reads it. Entry prices, profit, fees, candles,
volumes, statistics and message contents are left out, and so are `ping_limit`
orders, `handle_revert` and `pay_funding`.

### TaskQueue

| Variable | Code |
|---|---|
| `space`, `taken` | the tube's space and `_queue_taken_2` |
| `clock` | timestamp of the next put; it names a task, since ids are reused |
| `loop` | `_start_loop`: program counter, `task_id`, the queue session of its connection, the reply under way |
| `orders` | what the engine knows of an order: none, live (open or placed) or final |
| `liq` | the liquidation service in `WaitForCancellAllAccepted` |
| `issued`, `canceled` | order ids handed out; orders a client was told are CANCELED from the queue |
| `handled`, `withdrawn`, field `after` | history used by the properties |
| `failures` | counts the bounded failures |

One gateway request is one action: between what it reads from the queue and
what it writes there the gateway does not yield, except for WAL writes inside
`take` and between the acknowledgement and the take of `next_task`, which are
not modelled (see the hazards). The priority tables are the constant `Rank`;
the counters of limited priorities, rate limits, gateway restarts and replica
switch-over are left out. A crash of the engine and a dropped connection both
end the queue session; after a crash the loop also forgets `task_id`.

### Withdrawals

| Variable | Code |
|---|---|
| `ops`, `balance`, `lock` | spaces `balance_operations` (withdrawals only), `balance_sum`, `withdraw_lock` |
| `rolled` | `wdm.wds_per_24h` |
| `onHold`, `cursor`, `depositCursor` | `withdrawals_suspended` and the two last processed blocks, in the profile instance |
| `request` | the API requests under way: next call, profile, id, balance seen |
| `tick`, `scan` | the withdrawal and the deposit goroutine of the settlement service |
| `suspended`, `latestBlock` | what the service keeps in memory |
| `block`, `paid`, `signed` | head of the chain, block of each receipt, signatures given out |
| `faults`, `lost` | count the bounded failures |

A request is a sequence of calls; any other call may come between two of them.
A call of the instance is one action when it runs in a transaction.
`update_pending_withdrawals` and `completed_withdrawals` have none and yield at
each write, so they are one action per row. `Mature` takes the rows of the
second loop in any order, the code takes the highest due block first.
A call fails by `ErrorResponse`, `TickFails`, `ScanFails`, the failing choice
of `SuspendWithdrawals` or `TickSuspended`; a client that disconnects or an API
process that stops is `Abandon`; `Restart` restarts the settlement.
`ResetCursor` between two ranges of a tick stands for the reset at the start of
the next.

Assumptions: the profile has no positions, so the withdrawable balance of its
cache is the balance; a call is executed at most once and not after its caller
went on; one exchange, that is one handler; a behaviour lasts less than 24
hours, so `rolled` only grows; the loops on the instance end with the
settlement process that called them. The contract (external) pays a signed
withdrawal at most once and its chain does not reorganise deeper than
`Confirmations`. Receipts are mined only while `LastBlock` leaves room for
their confirmation. `TicksOverlap` says whether the two goroutines may run at
the same time. The code only starts them at different times.

### Money that comes in and is shared

**Deposits.** `clientRow` and `eventRow` are the rows of `balance_operations`
that `create_deposit` and the event of a transaction make; `credit` is what
they added to balances; `depositScan` is the program counter of
`processDepositsAndStaking`, `depositsDone` its stored block, `failed` the
events whose call failed and was only logged. `HandleDeposit`,
`CreateProfile`, `resolve_all_unknown` (one row per step: it yields) and
`merge_unknown_ops` interleave with the scan. `DepositLedger` is an instance of
`PaidOnce`: an event is settled when one of its rows has paid; `DepositsPaidOnce`
says that every step of `Deposits` is a step of that ledger or leaves it alone.

**Vaults.** `vaultRows` has the rows of stakes, shares and unstake requests
and the balances; `vaultRequest` is what each API request has read so
far and which lock it holds; `staking` and `wiping` are the loops of
`stakeHandler` and `liquidated_vaults`. Equity is the balance of the vault and
`profit`, which moves between any two calls. One vault; prices of shares are
kept as integers.

**Yields.** `splitting` is the call of `process_yield_and_invalidate` under
way; it commits after `Chunk` profiles, may die there and be started again
when `cached` balances are different.

**Airdrops.** A `visit` is a request between two of its calls. The contract
(external) marks a claim as processed at any time after it was signed.

### Services on tickers

**Funding**, **Tiers**, **Archiver**, **Referrals**, **Liquidations**,
**Slipstopper**, **Pricing** and **PriceFeed** have one variable for what the
loop has read and where it is (`fundingCall`, `job`, `archiving`, `referralJob`,
`round`, `slipConn`, `feedPc`), the rows it reads and writes, and
a counter of faults. One call or one statement is one action; what happens
between two calls is any action of the others: trades, requests, writes,
moves of a margin or of a price, and the end of the process, after which the
loop starts with what is stored. `Liquidations` has the caches of the profile
service and the queue and book of the engine beside the service, since what is
queued is only as good as the margin it was computed from. `Clawback` starts
from any positions of winners, because sizes may move after they were read,
and walks the map in any order, as Go does. `Slipstopper` has the tree of the
library the code uses (a node with a right child is removed by copying its
successor).

### Requests and sessions

`Sessions` has the rows of the auth role and the profile space, a clock of
seconds, and requests that pass two middlewares before their handler. Tokens
are what they are derived from: a profile and a second. `DeadMansSwitch` has
the space of switches, the interval row, the time the fiber wakes up, the
queues of the markets and the orders of the engines; time passes one unit at a
step and not past a moment at which the fiber is due.

### What clients read

`GameAssets`, `BlastPoints`, `Invitations` and `Leaderboards` have the tables,
the goroutine or request that changes them statement by statement, and
histories of what clients were shown. `Streams` has, per client, its
subscription, the publications on their way and the book it has built.
`Pages` has one table whose rows arrive, move and leave as the list's order and
filter let them, and a client that reads pages; `listKind` selects one of seven
lists, which differ in the order, in what happens to an error of the count, and
in whether rows move.

### Calls

`Calls` is data: what each method of the model's API sends, and what the roles
publish. `Broker` lets callers make any of those calls over connections that
break. `shouldReconnect`, the lock and the repetition of a call are its actions.

## 3. Runs

Every `Engine` run uses symmetry over order ids and over traders other than
the insurance fund, and checks for deadlock. `money` uses symmetry over ids and
requests. The other runs do not check for deadlock: an engine that waits on an
empty queue after the last put is a legal end, and so are a component whose
bounds are used up and a profile whose request was cut off: it leaves its lock
for ever.

Three runs put many modules together. A behaviour of such a run is one of a
single component: the variable `focus` says which, and never changes; the
variables of the others stand still. The components share no variable, so
this is what one run per component would check. Its fairness is the one the modules
state; a condition such as `WF_servicesVars(A \/ B)` with `A` and `B` of
different components is, in a behaviour with one focus, that of `A` or of
`B`. `LiquidationsEndInFocus` and `BoardsRightInFocus` are written for the
component in focus.

A property of a run is printed bold. Most are conjunctions, defined at the end
of a module; the parts are named behind the colon, and the rest of this text
speaks of the parts.

| Run | Checks | Instance and why it is large enough |
|---|---|---|
| `match` | **BookConsistent**: `TypeOK`, `BookUncrossed`, `EntriesAgree`, `FilledIsTraded`; **AggregatesAgree**: `LevelsAgree`, `NotionalAgrees` | 3 orders, 2 traders, 2 prices, 2 sizes, 4 tasks: partial fills on both sides, two entries at one price, amendments that re-match, rejections after fills |
| `kinds` | **TimeInForceHonoured**; **RepairsComplete**: `EntriesAgree`, `RejectedNeverTraded`, `UpdatesInSequence` | 2 orders of the types limit, market, stop-limit and stop-market, times in force ioc, fok and post-only (`match` has gtc), triggers on both sides of 2 fair prices, notional limit 2 so that a trigger can be refused, 3 tasks: each time in force meets an empty, a smaller, an equal and a larger opposite entry |
| `cond` | **ConditionalLimits**, **TradesCancelStale**, **FinalOrdersStay** | stop-loss and take-profit-limit beside limit orders, 3 orders, 2 fair prices, old positions of size 1, limit 1, orders of size 2 so that a trade can flip a position |
| `liq` | **OpenInterestBalanced** | liquidation sizes 1 and 2 against positions of 1, router on: reduce, close, flip, self-takeover, private match |
| `faults` | **QueueKeepsTasks**: `TypeOK`, `OneInHand`, `NoTaskLost` | 1 conditional order, 2 profiles, 4 puts, queue limit 3, 1 drop and 1 crash in any order: a task id is reused and acknowledged late |
| `money` | **WithdrawalsSafe**: `TypeOK`, `OneInProgress`, `NeverOverdrawn`, `SignedIsDebited`; **BalanceConserved**; **WithdrawalsAdvance**: `NotBeforeDue`, `StatusMovesForward`, `SuspensionHolds` | 2 concurrent requests, 1 of them cut off, 2 withdrawals of 1, 3 or 5 with tick 2 from funds of 7, two tiers above the smallest amount, overlapping special ranges, volume limit 3, 3 blocks, one failed call or restart: the second withdrawal of a profile races the first, amounts round down to 0, 2 and 4, delays are 0, 2 and the default, and the volume limit is passed |

The run `services`, of what works on tickers and in loops, under their fairness:

| Focus | Checks | Instance |
|---|---|---|
| deposits | **DepositsPaidOnce**; **DepositsComplete**: `DepositTypeOK`, `CursorCoversDeposits`, `OnlyConfirmedPaid`, `AnnouncedRowFinal`, `DepositsRecorded` | 3 events of 2 wallets in 2 transactions, one of them pooled with two events; 3 blocks in ranges of 1, one confirmation, one failure or restart: every event is known, unknown, announced before or after, read twice |
| funding | **FundingPaidExactlyOnce**: `FundingPaidOnce`, `FundingIsPaid` | 2 markets, 2 updates each, rates 0 and above the limit, a trade between the calls, one failure |
| liquidations | **LiquidationsEndInFocus**: `LiquidationWithinPosition`, `LowMarginTakenOver`, `CachesCatchUpInFocus` | one profile below the liquidation margin and one sound, batches of 1, a move of a margin or an order of their own, one timeout, failed call or restart |
| tiers | **TiersEarned**: `NextTierIsNext`, `TiersConverge` | 2 profiles, one invited by the other and with an affiliate tier, 3 tiers, batches of 1, a change after the start |
| feed | **FeedKept**: `ConnInUse`, `FeedRestored` | both goroutines, 2 attempts, 3 failures |
| archiver | **ArchiveComplete**: `NothingSkipped`, `SnapshotHasAll`, `ArchiveCatchesUp` | 4 rows in 2 shards and 2 chunks, batches of 2, 3 writes, one end of the process, all four modes |
| referrals | **ReferralsPaid**: `SharesWithinFees`, `BonusesMatchVolume`, `PayoutsReachBalance` | 2 referrers (one by volume, one with a percentage of its own), 3 levels of which one trade can pass two, 2 trades with fees and rebates, one failure |
| broker | **CallsSound**: `ArgumentsAgree`, `RunsExplained`, `CallsReturn` | any of the calls of `Calls` by one caller, or two callers on the same and on different instances; one break |
| queue | **RequestsHonoured**: `CancelAllGuarantee`, `CanceledNotLive`, `TasksAreHandled` | 2 orders of one profile, 3 puts, queue limit 2, no failure |

The run `requests`, of what clients and events drive at once, safety only:

| Focus | Checks | Instance |
|---|---|---|
| vaults | **VaultAccounts**: `VaultTypeOK`, `StakedMoneyConserved`, `HoldingsAgree`, `VaultSolvent`, `UnstakeSettledOnce` | 2 stakers, 2 requests at once, 2 unstake requests, 3 calls, profit 0 or 2 |
| yields | **YieldPaid**: `YieldNotOverpaid`, `YieldPaidOnce` | 3 profiles, 2 claims of 10 and 3, transactions of one profile, 3 failures or moves |
| clawback | **ClawFair**: `ClawWithinWinners`, `ClawCovers` | 3 winners of sizes 1 to 5, deficits 2, 5 and 8, minimal order 2, every order of the walk |
| airdrops | **ClaimsLimited**: `OneClaimPending`, `ClaimedWithinTotal` | 2 airdrops, 2 requests at once of 3, 3 claims |
| pricing | **IndexResists**: `IndexFollowsSound`, `JumpWaited` | 3 sources with three kinds of age, 2 of them sound, 2 price levels more than a tenth apart |
| sessions | **SessionsAgree**: `OneProfilePerWallet`, `TokensFollowKeys`, `GeneratedKeysBounded`, `SpentStaysSpent` | one wallet, 2 keys, 2 requests at once of 3, 3 seconds, so that tokens expire and are reissued in one second |
| slipstopper | **PlacedAreWatched** | 3 orders, 2 prices, 3 changes, 6 nodes: a node with two orders, a removal that copies its successor |
| referrals | **SharedAndPaidOnce**: `FeesSharedOnce`, `ProcessedIsPaid` | two services at once, 2 trades |
| liquidations | **LiquidationCareful**: `LiquidationWithinPosition`, `ActivatedWhenDone` | one profile, 2 moves, so that it recovers while it is liquidated |
| switches | **SwitchesWork**: `FiresInTime`, `FiredLeavesNothing` | 2 profiles, 2 markets, timeouts below and above the default interval, 3 requests, one restart |

The run `served`, of what people see in the end, under the fairness of the loops:

| Focus | Checks | Instance |
|---|---|---|
| withdrawals | **CursorCoversReceipts**; **WithdrawalsServed**: `LockReleased`, `ReceiptSettles`, `DueIsServed` | 1 withdrawal, 1 request at a time, 4 blocks in ranges of at most 1, 1 failure: a range is read again, a cursor is reset |
| assets | **PostsSettle**: `LatestBatchKept`, `MaxCoversUpload`, `PointsOfOnePost`, `AnswersMoveForward` | 2 players, 2 posts at once from batches that repeat, overlap and come late |
| points | **PointsRight**: `PointsWithinTransfers`, `FinalPointsKept`, `FinalPointsShown` | 2 wallets, 2 contracts, 3 batches of both kinds in pages of one, one failure |
| invitations | **InvitedRight**: `CodeLeadsToOne`, `InvitedByCreation`, `InvitedInTheEnd` | 2 inviters, 3 texts of 2 codes, 2 edits, 2 requests of one newcomer |
| boards | **BoardsRightInFocus**: `BoardInOrder`, `BoardsReadable`, `BoardsCatchUpInFocus` | 3 inviters on 2 exchanges, 2 periods, 2 fills, one failure |
| orderbook, statistics | **StreamsRight**: `NoGapMeansRight`, `ChangesInOrder`, `StatisticsReachAll` | 2 levels, 3 sequences, one loss; 2 markets |
| pages | **PagesComplete**: `PagesMissNothing`, `TotalIsEnough` | 3 rows in any order, pages of one, one row that comes, moves or leaves, one failure, all seven lists |

Fairness. `TasksAreHandled` is checked under weak fairness of the engine
loop as one process (`LoopStep`): the loop is a fiber that never ends, the gateway answers each call,
and a handler terminates. The runs `services` and `served` assume weak
fairness of a request that has begun (a handler goes on to its deferred
release), of the steps of each ticker and loop (they fire again for ever, and
a round ends), of the chain's next block, and of time where an interval ends.
Strong fairness is assumed twice: of the goroutines of a price feed
that wait for a lock others keep taking (Go's mutex lets a waiting writer in),
and of the job that pays referrals, which shares its service with other jobs.
No fairness is assumed of clients, operators or failures, and failures are
bounded, so that "in the end" means after the last one. `ReceiptSettles` and
`DueIsServed` allow for suspension, which only an operator ends.

Three runs show where the code and what is said about it differ:

| Run | What happens |
|---|---|
| `stale` | `_handle_amend` adds the owner to the changed profiles only after the order was executed. An amended order that trades whole closes the owner's position and the owner's stop-loss order stays placed, although trades of created and triggered orders cancel it (`TradesCancelStale` passes for them). |
| `delay` | A withdrawal is created while `update_pending_withdrawals` yields in its second loop. Its due block is still 0, the iterator runs down to 0, and it becomes claimable without any delay. |
| `latest` | With overlapping ticks the deposit scan sets `latestBlock` between the withdrawal tick's receipts and its store. The stored block number jumps over receipts that are then never read. |

### Where the code stops short

Passing properties that stop holding when a run's constants are widened, which
is why the run has the constants it has:

* `TasksAreHandled` in `services` with `MaxDrops = 1`: after a dropped connection the
  acknowledgement of the last task is refused. The reply has no result, the
  loop takes it for an empty queue (`engine.lua:3601`) and repeats it; nothing
  is handled until a restart. With an equal cancelall ready at the time of the
  drop, the release also violates the unique index after the registration is
  gone (`abstract.lua:199`), and that task stays taken for ever.
* `CancelAllGuarantee` in `services` with `MaxCrashes = 1`: `is_cancel_all_accepted`
  sees ready tasks only, so a cancelall that the engine has taken counts as
  accepted. The engine crashes, the task is released with its client priority,
  and the liquidation overtakes it, although `tnt_assistant.go:153` speaks of a
  guarantee.
* `CanceledNotLive` in `services` with `Conditional = {o1, o2}`: `execute_order` queues
  its task under the order's own id. `cancel_order` finds it, deletes it and
  answers CANCELED; the conditional order stays placed.
* `LockReleased` in `served` with `MaxLost = 1`: a request that is cut off never
  releases the withdraw lock, and the lock does not expire.
* `FundingPaidOnce` in `services` with two `FundingServices`: `pay_funding` does
  not look at `last_update`, so services that overlap pay one funding twice.
* `FeesSharedOnce` in `requests` with one service, three trades and `QueryRank`
  `<<1, 3, 2>>`: fills are ordered by the text of the trade id
  (`referrals/tsdb.go:283`), and the window ends at the archive id of the last
  row. The third trade is paid and lies behind that end, so the next window
  pays it again.

Properties that except a case say so in their comment. The cases, and others
met on the way that no property is about:

* **Withdrawals.** An amount below one tick passes the check for a positive
  amount (`api/balance.go:737`) and is rounded down afterwards: `money` has
  withdrawals of 0.
* **Vaults.** `process_unstakes` subtracts each request's shares from the total
  it was passed, so two requests settled in one call leave a wrong
  `total_shares` (`balance.lua:2264`). `HandleStakeFromBalance` answers
  NOT_ENOUGH_FUNDS without returning (`api/balance.go:216`), and the stake is
  made.
* **Calls that do not agree.** `InitVault` sends four arguments to a procedure
  that wants six. `LiquidatedVaults` goes to the gateway, which does not publish
  the procedure, so no vault is ever suspended. `GetTiers` and
  `GetSpecialTiers` go to a market named "profile". These are not among the
  calls of the run (`Unserved`). Arguments that the other side ignores
  (`GetAffiliateProfilesTiers`, `GetOpenOrders`) do no harm.
* **Broker.** A call that is repeated after a broken connection may run twice.
  Callers that find a connection broken at once each dial, and one connection
  is never closed (a TODO at `broker.go:207`). The singleton is published before
  its configuration is read. `DeletePairForProfile` and `ValidateApiKey` take
  the first result without a look at the length.
* **Referrals.** `getRunnerInterval` returns seconds as nanoseconds
  (`referrals.go:247`), so jobs run at once after a restart.
* **Boards.** `previous - current` of a rank is scanned into an unsigned number
  (`api/referral.go:207`): a board with a rank that fell, or is new, cannot be
  read until the next refresh. `BoardsReadable` says that it can be in the end.
* **Invitations.** When the profile is created and the request then fails, the
  next one finds the profile, `newProfile` is false and no link is ever made.
  A code that is edited between the request and the goroutine is lost, or leads
  to whoever takes it. One's own code is not excluded.
* **Game assets.** The insert of bfx points has no RETURNING, so the post is
  refused after the points were stored (`gameassets.go:271`), and posted again.
  A second post replaces the sums of a batch while the rows of both stay.
  The upsert of Blast assets leaves `vip_extra_boost` as it was. The columns of
  total and referral points change places between the two queries.
* **Blast points.** Before the first pass ends a wallet with points is told that
  it has none. Gold's date is compared with the date of the points.
* **Streams.** A cancel takes its sequence before its transaction
  (`engine.lua:2716`): a snapshot in between has the new number and the old
  book. Changes between snapshot and subscription are lost, and show as a
  jump of the next number; a lost last change does not show.
  `runMarketViewDataPusher` stops its round at the first failure. The client
  never subscribes anew after a read error.
* **Lists.** Orders listed by `updated_at` oldest first, lists filtered by a
  status that rows lose, and rows with equal times can skip a row between two
  pages. The error of a count is dropped and the total is 0.
* **Dead man's switch.** When a cancelall of the profile is still queued and an
  order waits behind it, no second cancelall is put and the order stays. A
  switch that is set while the fiber sleeps is noticed when it wakes.
  `deadman_delete` fails after the deletion when another switch is left,
  because it passes a row as an interval (`deadman.lua:168`). The fiber has no
  pcall. A refused request counts as a touch.

Each passing property has a mutant, a plausible slip in the code (a strict
comparison, a rollback that forgets the sequence, a cursor that is stored
before the work, an offset from one, a first failure that does not end the
round), for which the same run fails.

## 4. Proofs

Eight modules hold theorems, and each is proved for every value of the
constants: any sets of orders, traders, prices, profiles, requests, rows or
services, and any number of tasks, failures and restarts. What is assumed is
named where the constants are declared: their types; that sets which the code
keeps in memory or adds up over are finite (orders, traders, profiles, events,
stakers, prices, rows of a space); that every execution price of a triggered
order is a price; that the chain stays below `BLOCK_NUM_NEVER`. A theorem that
needs more says so in its own statement: `OneService` (funding), `QueriesInOrder`
(referrals), the size of a space (archiver), ticks that take turns
(`CursorSound`). The next paragraphs say why each strengthening is needed.

**Engine.** `EntriesAgree`, `FilledIsTraded` and `RejectedNeverTraded` speak of
the time between tasks and are not inductive. `IInv` says what holds inside a
match: `TakerRow` (the taker is the one open order without an entry, and what
is left to match is part of its row's size), `BookRows`, `FillsMatch` (the
taker's fills are ahead of its row by what has been matched), and the same
facts of the savepoint (`SavedRows`, `SavedUncrossed`, `SavedFills`), which a
rollback brings back; `SequenceHeld` says that a running task holds exactly one
unpublished number, `FinalKept` that it has left final orders alone. The book
stays uncrossed because `Rest` adds an entry only when no opposite entry is
within the price, and an entry never changes its price otherwise. `Invariance`
has one lemma per action; the theorems `TypeCorrect`, `NeverCrossed`,
`SpacesAgree`, `FilledCorrect`, `RejectedUntraded`, `ConsecutiveUpdates` and
`FinalForever` follow, and with them `BookStaysConsistent` and
`RefusalsRepaired`, the properties of the runs. `PositionAdds` shows that the four branches of
`_update_position` amount to adding signed sizes.

`EngineMore_proof` has what depends on sums and on the handler that runs. A
rollback brings back what was saved, so each invariant speaks of the present
and of the savepoint. `AggInv`: levels and notionals are the sums over the book,
and the saved ones over the saved book. `OpenInterestInv`: signed positions add
up to zero after every fill. `TifInv`: every order but the taker honours its
time in force, and of the taker it is known what it took since the savepoint
(`TakerHonest`), which is what the repair after the match goes by. `TouchedInv`:
a position that a create or execute task has changed belongs to a profile that
the task will visit (not so for amendments, see the run `stale`).
`LimitsInv` counts conditional orders. A sum (`SumFunctionOnSet`) is a recursive
function over subsets, and induction over sets is not at hand; `Sums_proof`
takes a smallest subset on which a claim fails instead (`LeastSubset`), and
obtains what one changed entry, a sum of two functions, a grouping or a bound
of the parts does to a sum.

**TaskQueue.** `NoTaskLost` needs to know which task an acknowledgement can
delete. `IInv` adds to it `OneInHand` (what is registered taken is the last
task given to the engine, in the present session), `HandKnown` (the task in
hand is in the queue or has been handled), `ReplyFull` and `LiqKnown`. With
these, an acknowledgement that passes `check_task_is_taken` deletes a handled
task. The theorems are `QueueTypeCorrect`, `SingleTask` and
`AtLeastOnce`, together `QueueSafe`.

**Withdrawals.** A request acts on what earlier calls told it, so
`OneInProgress` and `NeverOverdrawn` hold only because of the lock. `Inv` says
so: a running request holds the lock of its profile (`Holder`), alone
(`Exclusive`); until the create no other row of the profile appears (`Allowed`)
and the balance stays above what was read (`Covered`), although an abandoned
request, an operator's cancel and the settlement may act in between; a claimed
row stays payable until it is signed (`Signing`); a receipt is one of a signed
withdrawal (`Receipts`). Four lemmas say which actions write which variables;
`RowsAlong` gives every write of a row as a step forward. `CursorInv` is
inductive for ticks that take turns: within a range each receipt is in the rows
or still to do (`Settling`), and `latestBlock` is the tick's own until it is
stored (`OwnLatest`, from `Alternate`). This is the part that fails in the run
`latest`. `Halted` says that a tick which runs during a suspension is about to
end. The theorems are `TypeCorrect`, `AtMostOne`, `NoOverdraft`,
`SignedStaysDebited`, `ForwardOnly`, `CursorSound`, `DueFirst` and
`SuspensionStops`; `Safe` and `Advances` bring them together. `NothingLost`
adds `BalanceConserved`: what is in the balance, in operations that may still
be paid, and paid is what came in, since each action moves one amount between
two of these sums.

**Money that comes in and is shared** (`Payments_proof`).
* *Deposits.* `DepositInv`: a scan has to do, of the confirmed events up to its
  block, all that have no row (`ScanCovers`), so the stored block leaves none
  behind (`CursorCoversDeposits`), and only confirmed ones are paid.
  `EveryDepositPaidOnce` is the refinement: every step is a step of `PaidOnce`
  or leaves the ledger alone, for any events, ranges and failures.
* *Airdrops.* `AirdropInv`: the row of an airdrop counts what its claims come to
  (`ClaimsCounted`), and a request that is about to unlock has read the row of
  an airdrop with a volume (`RequestOK`).
* *Clawback.* `ClawInv`: what is taken from a winner and what it has left is its
  position (`ClawBooks`), and a trader that a loop has left is not worth another
  look, or nothing is left to get rid of (`ClawProgress`).
* *Yields.* `YieldInv`: holders of the split under way have got nothing of it,
  and what they are still to get is left of the amount (`RestSuffices`); shares
  that round down and are taken from the rest keep this, at whatever balances
  the last start has read.
* *Vaults.* `VaultInv`: rows agree with the money and a staker has one open
  request (`RowsInv`, `OneOpen`), a request has the arguments its lock stands for
  (`RequestsFit`), and a stake is credited when the chain has it (`ChainRead`).
* *Funding.* `FundingInv`: a funding with a payment is not later than
  `last_update` (`PaidBefore`), the service is about to pay one that is
  (`CallFits`), and positions of a market add up to zero (`PositionsBalance`),
  which makes payments cancel out. `FundingNeverTwice` has the hypothesis
  `OneService`; with two it is false, as section 3 says.

**Requests** (`Requests_proof`).
* *Broker.* `BrokerIInv`: the read lock is held exactly while a call is made, and
  a row's runs exceed its losses only while the reply is under way or after the
  end (`Explained`). `RunsAreExplained` is what a caller may rely on: a
  procedure runs at most once more than its connection was lost.
* *Sessions.* `SessionsInv`: a wallet has one profile, pairs of key and token
  have one row each and their number is bounded (`KeysOK`), and nothing is
  issued or spent in the future (`TokensOK`), so a token that is reissued in the
  second it was spent in does not work again.
* *Dead man's switch.* `DmInv`: the fiber sleeps no longer than any switch
  allows, counted from the last time it looked or the switch was set
  (`DmTiming`), and a switch that fired has a cancelall behind each order and
  each create task of its profile (`DmFired`).
* *Referrals.* `PaidInv`: a payout that is being made is in the balance up to
  where the job is, whatever services overlap. `FeesInv`: a job that can still
  store its window has read trades no window covers (`SharingOK`), and payouts
  of fees are for trades before the last window and share none (`SharedOK`). It
  needs that the query returns trades in the order of the archive
  (`QueriesInOrder`); without that `FeesSharedOnce` is false, see section 3.

**What others write** (`Readers_proof`).
* *PriceFeed.* Reader, pinger and timeouts of a source dial without the lock.
  `FeedIInv` says why nobody uses a connection that was taken away: who dials, or
  has dialled, is the one reason for the state `connecting` (`OneDials`), and the
  state `connected` is one of a connection (`ConnectedHasConn`).
* *Pricing.* `PriceInv`: the combination of a batch in which one source may be
  wrong is within six percent of a price that a sound source reported. It is six
  and not the five of the filter, because the sources are compared with a
  median that the wrong price may be part of. A run of rejected prices is no
  longer than the wait (`RunsWait`).
* *Pages.* `ListsInv`: a row that is still to come has at least as many rows
  before it as the offset (`MissesNone`), and while a list grows at its end only,
  what was got is its beginning (`GotInOrder`).
* *Slipstopper.* `SlipInv`: the last publication of an order tells what the
  engine has of it (`LastTells`), and orders no publication is under way of are
  in the tree, or in the answer that is awaited, as they are at the engine
  (`TreeFits`, `AnswerFits`). A removal that copies the successor loses no node.
* *Liquidations.* `LiqInv`: per trader there is one queued trade at most, before
  any cancelall, and with what is in the book it is within the position
  (`TraderInv`); behind the accepted cancelall of the round nothing is left of
  an earlier liquidation, and the positions that were read still hold, unless
  the trader itself came in between (`RoundInv`).
* *Archiver.* `ArchInv`: ids of the table and of a batch were taken from the
  shard's sequencer (`Numbered`); no row is passed over by any version of the
  table, by the id the goroutine started from or by a version of its batch
  (`TableFollows`, `BatchFollows`); a row that changed after it was read has
  a higher id than the whole table. For a full snapshot the scan has all rows
  that stayed up to the key it reached, and a page shorter than asked for is the
  end of the space (`Snapshotting`). `ArchiveLeavesNothingOut` assumes that a
  space is not larger than `maxBatcherLimit`, above which the code cuts the
  snapshot off with a warning (`batcher.go:108`).

Only model-checked:

* liveness, which is outside the prover's reach: `TasksAreHandled`,
  `WithdrawalsServed`, `FundingIsPaid`, `ArchiveCatchesUp` and the parts named
  `...Converge`, `...CatchUp`, `...Restored`, `...Return`, `...Reach...`;
  the runs that have one of them as a conjunct are `served` and `services`, so
  `FundingPaidExactlyOnce`, `ArchiveComplete` and `FeedKept` are proved in their
  safety parts only;
* `CancelAllGuarantee` and `CanceledNotLive`, which hold for an engine that does
  not fail and need the queue's invariant without its failures;
* the safety parts of `TiersEarned`, `SharesWithinFees`, `BonusesMatchVolume`,
  `PostsSettle`, `PointsRight`, `InvitedRight`, `BoardsRightInFocus`,
  `StreamsRight`; `ArgumentsAgree`, which compares finite tables, is decided by
  evaluating it;
* what induction over data would give: that a recursive definition computes
  the sum or the fold its name says is proved only as far as `LeastSubset`
  carries.

## 5. Plan

Done: all modules of section 2, and proofs of the safety properties named in
section 4. Next, in this order:

1. `CanceledNotLive` and `CancelAllGuarantee` for an engine that does not fail.
2. The safety parts of `GameAssets`, `BlastPoints`, `Invitations`,
   `Leaderboards` and `Streams`; `SharesWithinFees`, `BonusesMatchVolume` and
   `NextTierIsNext`.
3. An abstract exchange (a set of orders and their traded sizes, changed by
   whole tasks) that `Engine` implements, with the proof that a match is one
   atomic step.
4. Several handlers of the settlement that share the suspension flag; one
   space for all types of balance operations, so that
   `cancel_all_withdrawals` meets deposits and stakes.
5. `ping_limit`, `sellOnMarket`, limited priorities, the WAL writes inside
   `take`.

### Not modelled

* The contract bindings under `settlement/` are generated from ABIs.
* Margin, profit, fees, candles and sizes of liquidation orders are decimal
  arithmetic without control; where they decide, the model takes any result.
* `handle_revert` undoes trades by their entry prices and profits, which the
  engine's model leaves out.
* Queries for portfolios and vault statistics read archived rows without pages
  and keep no state.
* Parsing of requests, signatures, and the cryptography of tokens and
  withdrawals: a request here is well formed and well signed.
* Roles, migrations, configuration, deployment, dashboards, commands that
  operators run by hand, and the code of the tests.
