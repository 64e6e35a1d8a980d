# CENNZnet Explorer: a TLA+ model from the node to the page

The explorer follows a CENNZnet node, extracts every block into PostgreSQL and
shows it in web pages. This directory models the programs that have to get
every block into the database exactly once: the orchestrator `orc` (Go), its
task queue in MongoDB, the extraction program `etl` (TypeScript) and the
transaction that stores a batch of blocks; which balances `etl` reads for a
block; and the programs that show the database while it grows: the `api`
(Python), the notifications of `ws` and the pages of the `portal`. TLC checks the modules on small
instances; TLAPS proves every safety property that a passing run checks, and that
the database transaction implements its abstract specification, for every value
of the constants.

## The system

```
 node --heads--> orc: Receive > Schedule > Extract > Notify --POST--> ws --socket.io--> browsers
                          |            \                               |
 taskgen --upsert--> MongoDB blockTask  +--child process--> etl export_all --> PostgreSQL
                          |            /                                          |
                 orc: Start > Run (xN) > Merge > main                  api <------+   portal --HTTP--> api
```

| Component | State it keeps | Operations | What is hard | What makes it correct |
|---|---|---|---|---|
| task queue, `orc/model`, `orc/core` | MongoDB collection `blockTask`: state, priority, processAfter, block | upsert by block, claim of the first ready task, outcome by object id | no unique index on the block; updates by id alone; sort keys in a map | one holder per order, at most one task per client and block, outcome tells the truth |
| worker pipeline, `orc/main.go`, `core.go`, `extraction.go` | goroutines, unbuffered channels, `done2` | Start, Run, Merge, RunBkTask, shutdown | the process may stop anywhere between claim and outcome; channels must close in order | nothing stays started without a holder; the exit leaves nothing behind; ready tasks are taken |
| real-time extractor, `extraction_rt.go`, `newblock.go` | websocket, previous head, buffer of notifications | Receive, Schedule, Extract, Notify | heads jump, repeat and fall back; slow `ws`; loss of the node | no gap, no block twice, no notification lost or overtaken, the pipeline drains |
| `taskgen` | none | upserts a range of blocks as ready | races with the extractor and other taskgens | every order is answered by a later extraction |
| `etl` export_all | the range, the next block, the exit code | main, sync, buildTask | any fetch may fail, the commit's answer may be lost, re-runs | exit code 0 means the range is stored once |
| `etl` store, `db.service.ts` | nine PostgreSQL tables without unique constraints | saveBlockTasks: nine deletes, nine inserts, one transaction | overlapping extractions of one block, failure between statements | whole commits only; no block lost; one copy unless writers overlap |
| `etl` block task and handlers | fields of the block under construction | build: seven handlers in order, collect balances | order of handlers, which accounts and assets are read | every account touched gets its balance, read at its block, and once unless saves of the block overlap |
| `api` | none (PostgreSQL) | REST endpoints, latest balance, pages, limits | the latest row is found by block number; pages are offsets into a growing table; rows and counts are two statements | the latest balance is the best block's; pages read on miss nothing |
| `ws` | requests being served, socket.io clients | POST /notify/message or a socket's message: broadcast the block | reads the height, then the block, over awaits; the orchestrator does not wait for the end | pages are not taken back to an older block; a posted block arrives |
| `portal`, script of the home page | elements of the block list, rows of the table, the template kept for the animation | latestBlock, transitionend | blocks come while the last is animated | list and table show the newest, in order |
| `portal`, pages | cache of the chart | lists, details, search, refresh timer | a page is several requests answered at different times, refused or lost | the parts of a page agree; a search leads where it should; the chart does not go back |
| deployment | configuration, DDL | | | |

How they meet: `orc` starts one `export_all` per task as a child process and
learns only its exit code; `taskgen`, the workers and the real-time extractor
meet in MongoDB; every `export_all` meets the others in PostgreSQL; `orc` tells
`ws` of each block the real-time extractor stored, and `ws` tells the home
pages; `ws` and the portal read PostgreSQL through the `api`, at their own times.

## Modules

| Module | Models | Role |
|---|---|---|
| `TaskQueue` | the collection, its filters and updates | state and operators, extended by `Orchestrator` |
| `Orchestrator` | workers, real-time extractor, taskgen, faults, restarts on the queue | the core |
| `OrchestratorProofs`, `RealTimeProofs`, `EtlSyncProofs`, `BlockStoreProofs`, `BalancesProofs`, `NotifyProofs`, `PortalProofs` | | theorems about the module each is named after |
| `DataTheorems` | | lemmas on sets, sequences, folds and pages of ordered rows, for the last three |
| `RealTime` | the four goroutines of the real-time pipeline | its `Emit` is the channel that `Orchestrator` calls `feed` |
| `EtlSync` | one `export_all` process and its re-runs | takes the transaction as one step |
| `BlockStore` | the transaction, statement by statement, of several writers | |
| `Balances` | the block task's handlers, the balances they collect, the api's latest balance | a save is its begin and its commit; `BlockStore` has the statements between |
| `Notify` | `ws`, the orchestrator's posts and the home page's script | the end of `RealTime`'s notifications |
| `Api` | the endpoints as operators on the stored blocks | no state; extended by `Portal` |
| `Portal` | one browser tab, the requests of its page, the chart's cache | composes pages, `Api` and the growing database |
| `AtomicStore` | what readers may rely on: a batch is saved in one step | abstract specification of `BlockStore` |
| `MC*` | | values of the constants, symmetry and view for TLC |

### TaskQueue and Orchestrator

`queue` is the collection: object id to document or `None`. Of a document's
fields the model keeps state, block, priority and `processAfter` (`after`, told
by the order that inserted the document, as if the clocks of the clients
agreed; the proofs do not use it). Two fields are auxiliary: `order`, a number
given to each upsert, and `by`, the client that inserted the document. A
goroutine's `claim` remembers the order it answers; a claim whose order is no
longer the document's is stale, and the code cannot tell.

The code's steps and the model's:

- `core.Start` polls `done2` (`StarterCheck`), calls `FindOneAndUpdate`
  (`StarterClaim`, `StarterIdle`), and offers the document without polling
  `done2` again (`Handoff` with a worker's receive). The channels are
  unbuffered, so a send and its receive are one step.
- `core.Run` around `RunBkTask`: the child process ends (`Extracted`,
  `ExtractFailed`, which may follow a commit), the outcome is written by object
  id (`Mark`), the document goes to the worker's forwarder (`Forward`) and from
  there to main (`Summarise`). Closing goes the same way: `StarterCheck`,
  `WorkerClose`, `ForwardClose`, `Exit`.
- `extractionRT.Extract` upserts its block as started (`RtUpdate`, or
  `RtLookup` and `RtInsert`) and runs it itself. When main returns it is cut
  off where it stands.
- `taskgen` upserts as ready. An upsert that matches nothing is two steps,
  because without a unique index two of them may both insert.
- Faults: a call refused without effect (`CallRefused`), a call applied whose
  reply is lost (`StarterClaimLost`, `RtUpsertLost`, `MarkError`), a `Crash`.
  `Restart` starts a new process on the old queue. A start that fails after
  `core.Start` has run (`log.Fatalf` when the node cannot be dialled) is a
  crash too.

`lost` and `cut` are auxiliary: the orders whose claim a fault took, and those
the extractor held when main returned. They let the safety properties say that
tasks are stranded in these ways and no other. Nothing in the
code reclaims a started task, and the manual retry of `orc/README.md:30-45`
covers failed ones only.

### RealTime

Receive, Schedule, Extract and Notify are records with a `pc`; `buffer` is the
channel of capacity 10 into Notify. JSON is abstracted to a usable head number
or `Unusable` (which includes `0x0`, because `TrimLeft` takes its zeros).
Schedule's loop `for i := prev + 1; i <= b` is `NextAfter` and `Emit`; a head
not above the previous one emits nothing but still becomes `prev`, as in the
code. The history variables record, in order, the heads taken, the blocks
scheduled, those extracted successfully and those Notify has tried.

### EtlSync

`target`, `current` and `upto` are `targetBlockNumber`, `currentBlockNumber`
and the local `targetNumber` of `sync`. `BuildTask` is one fulfilled promise of
the `Promise.all`, in any order, `Save` the commit and `BatchFails` either
branch into the catch: a rejected fetch, a failed transaction, or a commit
whose answer was lost. `GetBlock` keeps the code's treatment of 0, which asks
for the latest block, so a run from 0 does not store block 0; nothing in the
repository says that it can, and the properties set runs from 0 apart.

### BlockStore and AtomicStore

One row stands for all the rows of a block in a table by one writer. The model
follows PostgreSQL's READ COMMITTED, the level knex gets: a DELETE looks for
its rows once (`Delete`), locks them one by one, waiting for other open
transactions (`LockRow`), and skips rows that have gone. Inserts are seen by
others at the commit. `Rollback` is a failing statement or a killed process at
any point, a deadlock victim included.

### Balances

A block is its history, the sequence of the bodies up to it, as its hash
stands for it; a process that has fetched a block keeps reading by that hash
whatever becomes of the chain. A balance is the block that last changed it, so
that a balance read at the wrong block, or of the wrong account or asset,
differs from the right one.

`Changed` is the node's side: what a block really changes of the assets there
were before it. `TxHandler` to `AttestationHandler` are the code's, in the order
of `BlockFactory`: each adds to `changes` the accounts and assets it thinks
changed, `AddChange` keeps one of each, and `GenerateBalances` reads each at the
block. The two definitions are independent, and `BalanceCurrent` compares them
through several blocks, re-extractions and the api's `max(block_number)`.

They differ in what `Unseen` names. The handlers of contracts, assets and
attestations look for an event, so the fee of a failed extrinsic is not read.
They take the spending asset of the block itself, which is its state after the
block, so a block that changes the spending asset has its fees looked up in the
new one. Nothing in the repository promises otherwise, and both are stated in
the property rather than counted as findings. The code looks up neither the
fees of other kinds of extrinsics nor the first issue of a new asset; these are
outside the model. A call that succeeds is taken to emit the event of its own
transfer first, as `contract-handler.ts` does.

Nothing keeps two processes from saving one block at once, and then the DELETEs
of the one may miss what the other has inserted (`BlockStore`). A save is therefore
`BeginSave` and `Save`. What was saved before it began is replaced; of a copy
that came between (`since`), `Remainder` leaves nothing or the rows of the first tables,
up to the last whose DELETE had started before the other committed. The row
locks of BlockStore, which exclude some of these cases, are not repeated here, so the
model allows more than PostgreSQL does. `overlapped`, auxiliary, holds
the numbers whose last save had another in it, until a save has none.

`JoinsOneBalance` is about every stored block, also a stale one. While no saves
overlapped a transaction or trace joins exactly one balance of each party.
After an overlap there may be two, and the api then answers the transaction twice;
nothing in the code prevents that, and the property does not deny it. What it
says of that case is that no party is left without a balance and none has a wrong one,
if both saved the same block. A block and another of its height may have
different parties, and then copies of the two are mixed; it is silent on these.

After a reorganisation nothing in the repository extracts the old heights
again. `BalanceCurrent` speaks only of a chain whose blocks are all stored as
they are now. It compares values, so second copies do not matter to it.

The rewards of the first block go to the validators, and in the asset, of the
genesis (`GenesisValidators`, `GenesisSpending`), which `etl` reads as it does
those of any parent.

### Notify

`handler` is what `ws` is serving: a request waits for the height (`ReadHeight`),
then for the block and its transactions in either order (`FetchedBlock`,
`FetchedTxns`), then broadcasts. `Timeout` is the context of two seconds in
`SendMessage`: the orchestrator goes on and the request is served on, beside
the next. `getBlock` turns a refusal into null, which is broadcast and ends the
script with a TypeError; any other refusal ends the request.

The home page is rendered from requests that are sent at once and answered at
different times: `Open`, then `ListRead` and `TableRead` in either order, with
blocks stored and broadcast between them. It connects when both are there
(`Connect`), so its table may begin with rows of a block its list does not show,
or the other way round, and broadcasts before that do not reach it.

A page is the elements of `.block-inner` and the rows of `.tx-table`, and the
two handlers of the script on them. The first element is a hidden placeholder
that becomes the new block and shows while it is animated. `TransitionEnd` need
not come before the next broadcast. A page whose list was rendered empty never
fills: the script removes the last element each time. The properties state what
holds of the others; the table, rendered empty, keeps one row.

`top`, `floor`, `listed`, `tabled` and `got` are auxiliary. Two broadcasts whose requests
overlap may be in either order, and `NoRelapse` says that this is the only way
a page is taken back.

### Api and Portal

`Api` gives each endpoint as an operator on `S`, the blocks stored: a block's
rows are constants and become visible together, which is what `BlockStore`
shows of blocks saved once. A timestamp is the block's number. Times that are
refused (400) and a negative OFFSET (500) are `TimesRefused` and `PageRefused`.
`PossiblePages` is ORDER BY, LIMIT and OFFSET as PostgreSQL promises them: rows
the order ties may come in any order, and the order by block and index does tie
an extrinsic with a trace of the same block. `StatsTransactions` has the bins of
the query with its `date_trunc`; `TransactionCount` is the column `etl` fills,
which leaves traces out.

`Portal` has one tab. `Load` sends the requests a controller sends at once,
`Answer` takes one answer from the database as it is then, `Then` what follows:
the count is the api's second statement, an address's lists wait for its
balances. `Refuse` is a request that fails or is lost: "none" to `getBlock` and
`getTx`, an error page from any other. `Click` follows the links of
`pagination.njk`, which lead out of the pages there are when page or count are
not what they were. `Submit` sends the form of the page with any of its filters and
`Reset` clears it: both begin at page 1 again, and keep only the asset that the
page of an address shows, for which the form has no field (`KeptAsset`). The
chart of the home page has its own requests
(`flight`), since one outlives its page and the timer sends others: computing
and coming back are two steps, and the last to come is what the cache keeps.
The model has one period of the code's three, which do not meet. The other
parts of the home page are not told apart.

The assumptions are the chain's doing or the portal's. `ApiAssumption`: blocks
are numbered from 1, tables are finite, a hash is that of one block and of one
block's transaction, an asset has an id of its own, and the parties of a
transaction have balances at its block (`JoinsOneBalance`).
`PortalAssumption`: `None` is no value, what is searched for is a number or else a
hash or an address, the portal's limits are within the api's, and the filters
are those of the forms, which have no field for the page.

`walk`, `start`, `seen`, `early`, `refused`, `landed`, `began` and `floor` are
auxiliary. The properties set apart, by them, what the code does not give: the
block list's last page when its height was read before its rows; the
confirmations and parts of a detail page read before what it is about; a search
with a refused request; a chart whose requests overlapped. Two more are only in
the model: the api ignores `pageNumber`, so each page of a block's transactions
shows the first 50; and the choices of the asset filter are cut off at the
default limit of 30 rows.

## Runs

| Run | Instance | Shows |
|---|---|---|
| `orc_safety` | 2 workers, extractor, 1 taskgen, 1 block, 2 documents, 3 orders, 1 fault, 2 starts | `ClaimExclusive`, `StartedIsHeld`, `OneTaskPerClient`, `SuccessIsStored`, `CleanExit` |
| `orc_liveness` | the same, 2 orders, 2 priorities, no fault | `ShutdownCompletes`, `ReadyIsTaken`, `ClaimIsSettled` |
| `orc_reextract` | 2 blocks, no fault | finding: `OrderHonoured` is violated |
| `orc_priority` | 1 worker, 2 blocks, no real-time | finding: `PriorityRespected` is violated |
| `realtime` | numbers to 3, 3 messages, buffer of 1 | `NoGap`, `Consecutive`, `NotificationsConserved`, `DrainedWhenDone`, and under fairness `DisconnectEndsPipeline`, `HeadsAreWorkedOff` |
| `store_concurrent` | 3 overlapping writers, 2 blocks, 3 tables | `NothingLost`, `TablesAgreeUnlessOverlapping`, `OneCommitAtATime` |
| `store_serial` | 4 writers, ordered where they share a block | `BlockStore` implements `AtomicStore` |
| `etl_sync` | chain of 4 blocks, batches of 1 to 3, 2 runs | `SavedUpToCurrent`, `SuccessIsComplete`, `OnlyItsBatch`, `RunEnds` |
| `balances` | 2 processes, chain of 2 blocks of 2 bodies, 1 reorganisation, 6 accounts, 2 assets | `BalanceCurrent`, `JoinsOneBalance`, `LatestNeverGoesBack` |
| `notify` | 2 blocks with 3 transactions, 2 requests of which 1 may be refused, 1 page of 2 entries and 2 rows, loaded twice | `NoRelapse`, `ListInOrder`, `TableLatest`, and under fairness `PostedIsShown` |
| `portal` | 3 blocks with 5 rows, 3 assets, 1 address, pages of 1 row, 2 requests for the chart | `ListsAreWhole`, `DetailAgrees`, `SearchLands`, `ChartNotStale` |
| `etl_latest` | chain of 2 blocks | finding: `LatestIsExported` is violated |

Each also checks its module's `TypeOK` where the run is expected to pass.

Why the bounds are enough to be interesting: three orders on one block let a
task be inserted, taken, ordered again while it is held, and taken over by the
extractor; two documents let two upserts of the same block race; one fault and
a restart put each kind of loss before, between and after these steps. More
than one worker is needed for tasks to overlap; a third adds nothing that the
second, interchangeable with it, does not. In `realtime` three messages make
every pattern of rise, jump, repeat and fall, and a buffer of one block is full
as soon as one notification waits. Three writers let one commit between another's
delete and a third's. Two runs of `etl_sync` are a run and the retry after any
failure, over ranges that need one, two or several batches. In `balances` two blocks let a
block follow a parent with another spending asset or other validators, and two
processes save them in any order, again and at the same time; the two bodies between them reach every
handler, the same account by two handlers, failures, a reward, a slash and a change of the
spending asset, in either order and each after itself.
In `notify` two requests overlap in every way two can, and an animation is under
way when the second broadcast comes; a list of two entries has one that stays and
one that goes, a table of two rows is shorter than the three there may be, and a
block may be stored before, between and after the two answers a page is rendered from. In `portal` pages of one row make every row a page of its own, so
that a row saved during a walk moves all that follow; the three blocks are a
transfer, a contract call whose trace ties with it, and a block with two
transactions, saved in any order. The constraint `Focus` of `MCPortal` leaves
out states that differ in what cannot meet: only the home page has to do with
the chart, so other pages are looked at with none about, and the chart with
the two blocks its range covers. `MaxPage` and the least of `UserPages` bound
how far links lead out of the pages there are.

`orc_safety` uses symmetry of workers, documents and blocks, which no
definition tells apart, and a view that forgets which extraction `stored`
names and when a claim's began: only `OrderHonoured`, which that run does not
check, reads them. `orc_liveness` uses neither.

Deadlock is checked in `balances`, where a block can always be extracted again.
It is not checked elsewhere because each of the programs ends: the orchestrator
exits, the pipeline closes, transactions finish, `export_all`
exits; in `notify` and `portal` nobody need do anything more. That they do not stop too early is what the liveness properties say.

### Fairness

- Goroutines run (Go's scheduler), one weak fairness condition for each
  goroutine's next step. `StarterStep` polls for ever, as the code does.
- The extraction program ends. `processBkTask` has no timeout, so this is an
  assumption and not something the code sees to; every request of the child is
  answered or refused (`EtlSync`'s fairness), under which `RunEnds` holds.
- The timer of 5 seconds fires; a post of Notify ends within its 2 seconds.
- A request to the api is answered or refused, so each step of a request `ws`
  serves happens; a connected page gets its events (`Notify`). The end of an
  animation, connecting and posting are not obliged to happen.
- Nothing obliges the node, taskgen, an operator or a fault to do anything.
- `ReadyIsTaken` holds because finitely many orders are placed. Under an endless
  stream of tasks of higher priority a task of lower priority may starve.

## Findings

1. A re-extraction order can be lost (`OrderHonoured`). `RunBkTask` writes its
   outcome by object id alone (`extraction.go:113`). If `taskgen` re-arms a
   task while it is run, the outcome of the run under way turns it from ready
   to successful, and no extraction follows. `README.md:78` recommends taskgen
   for re-extraction, and taskgen has reported "Task upserted".
2. Priority may not count (`PriorityRespected`). `StartBkTask` gives its sort
   keys as a Go map (`extraction.go:41`), which has no order; when
   `processAfter` comes before `priority`, an older task of lower priority is
   claimed first. `taskgen.go:25`: "the lower the higher".
3. `-l` ends before the latest block (`LatestIsExported`). `etl/README.md:31`
   says that it sets the target to the latest block, and `-t` of the same
   number exports it.

## Theorems

### The orchestrator

`OrchestratorProofs` proves, for any numbers of workers, documents, blocks,
generators, orders, faults and restarts:

| Theorem | States |
|---|---|
| `Invariance` | `Spec => []IndInv` |
| `TypeCorrect` | `Spec => []TypeOK` |
| `Exclusion` | `Spec => []ClaimExclusive` |
| `NothingStranded` | `Spec => []StartedIsHeld` |
| `UpsertOnce` | `Spec => []OneTaskPerClient` |
| `SuccessStored` | `Spec => []SuccessIsStored` |
| `CleanShutdown` | `Spec => []CleanExit` |

None of the properties is inductive, and `IndInv` adds what they rest on:

- `PcClaim`, `ClaimsOnTasks`, `OrdersNumbered`: a goroutine holds a claim just
  where it has one to answer; the claim names a document, which no code
  deletes, and the order it answers is not newer than the document's; each order belongs to
  one document. Even type correctness needs them, because an outcome written
  for a missing document would not leave a document.
- `ClaimExclusive` needs that a new order is numbered above all claims.
- `StartedIsHeld` needs `ClaimExclusive`: a stale claim's outcome must not be
  mistaken for the present one's.
- `PendingIsNew`, for `OneTaskPerClient`: what a client is about to insert it
  has not inserted before.
- `SucceededIsStored`, for `SuccessIsStored`: a goroutine about to write
  "successful" has seen the child commit.
- `Drain`, for `CleanExit`: the channels close in the order starter, workers,
  forwarders.

The proof goes by kinds of steps: each action either leaves documents and
claims alone, restates a document, arms one, hands over or settles a claim, or
ends the process (lemmas on the actions); the preservation lemmas then argue
per kind, one per part of `IndInv`. The assumptions are the named ones of
`TaskQueue` and `Orchestrator`: the goroutines are distinct, there is at least
one worker (`taskWorkers.block > 0`, which `config.go` does not check; with 0
main would return at once), `None` is none of the records, and the bounds are
natural numbers. The proofs use only that `FirstReady` picks a ready task.

### The real-time pipeline

`RealTimeProofs`, for any heads, any capacity of the channel and any bounds:

| Theorem | States |
|---|---|
| `TypesInvariant` | `Spec => []TypeOK` |
| `NoGapInvariant` | `Spec => []NoGap` |
| `ConsecutiveInvariant` | `Spec => []Consecutive` |
| `NotificationsConservedInvariant` | `Spec => []NotificationsConserved` |
| `DrainedInvariant` | `Spec => []DrainedWhenDone` |

`NoGap` says nothing while Schedule is emitting, so it is not inductive:
`OnlyNextMissing` adds that what is missing then is exactly what Schedule still
has to emit, and `PrevIsLast` that `prev` is the last head. `NextInLine` does
the same for `Consecutive`. `ClosedInOrder` says that a closed goroutine had
nothing left, from which `DrainedWhenDone` follows.

### The store

`BlockStoreProofs`, for any writers, blocks, number of tables, batches and order
of the writers:

| Theorem | States |
|---|---|
| `TypesInvariant` | `Spec => []TypeOK` |
| `NothingLostInvariant` | `Spec => []NothingLost` |
| `TablesAgreeInvariant` | `Spec => []TablesAgreeUnlessOverlapping` |
| `CommitsOnly` | `Spec => OneCommitAtATime` |
| `ImplementsAtomicStore` | if `Serial`, `Spec => AtomicSpec` |

`InsertedSoFar` follows a transaction through its inserts, so that at the commit
every table has its batch; hence nothing it deleted is missing afterwards.
`EarlierAreFound` is the heart of `TablesAgreeUnlessOverlapping`: the DELETE of
a writer finds the rows of every writer that had ended before it began, and
`LocksExclusive` that no other takes them from it. `Serial` says that of two
writers with a block in common one waits for the other; it is the condition
under which the code's statements amount to one step, and `store_serial` takes
an instance of it. Without it the refinement is false, as copies arise.

### export_all

`EtlSyncProofs`, for any length of the chain, batch sizes and number of runs:

| Theorem | States |
|---|---|
| `TypesInvariant` | `Spec => []TypeOK` |
| `SavedInvariant` | `Spec => []SavedUpToCurrent` |
| `SuccessInvariant` | `Spec => []SuccessIsComplete` |
| `BatchOnly` | `Spec => OnlyItsBatch` |

`BatchInRange` and `BuiltAsRequested` say what a batch under way holds,
`OnItsWay` that a run that has not failed keeps the range of its arguments, and
`CodeIsTrue` that exit code 0 is left only at the target.

### Balances

`BalancesProofs`, for any bodies, accounts, assets, heights and processes:

| Theorem | States |
|---|---|
| `TypeCorrect` | `Spec => []TypeOK` |
| `BalanceCurrentInvariant` | `Spec => []BalanceCurrent` |
| `JoinsOneBalanceInvariant` | `Spec => []JoinsOneBalance` |
| `LatestOnlyRises` | `Spec => LatestNeverGoesBack` |

`IndInv` is the inductive invariant of all four. Its `SavedTyped` says that each copy
stored is a part of what `etl` makes of some block of that height: its rows, or
those of the first tables; that a process has one copy of a number at most; and that
one of them is whole, which is the last that was committed. It also says that a
number that is not `overlapped` has that one copy alone. Hence
`JoinsOneBalance`: the whole copy has the balances of every party, and parts of a copy of the
same block have no other ones.
Everything else is about one block, and goes handler by handler.
`ChangesHold` says what the loop over `addChange` leaves: exactly the accounts and
assets it was given, each once. From that come the keys of
`JoinsOneBalance`. `TxHandlerAdds` to `AttestationHandlerAdds` say what each
handler looks up, and `ChangedLookedUp` that together they look up all that
`Changed` names, save `Unseen`. `BalanceOfPrefix` then carries a balance from
the last block that changed it to the best block, over the blocks between,
which is `BalanceCurrent`.

`LatestOnlyRises` rests on what is saved being the chain's own rows while the
chain only grows (`SavedFromChain`), and on what a process still holds being a
beginning of the chain (`BuildersOnChain`).

### Notifications

`NotifyProofs`, for any blocks, lengths of the list and of the table, requests,
pages, faults and loads:

| Theorem | States |
|---|---|
| `TypeCorrect` | `Spec => []TypeOK` |
| `NoRelapseInvariant` | `Spec => []NoRelapse` |
| `ListInOrderInvariant` | `Spec => []ListInOrder` |
| `TableLatestInvariant` | `Spec => []TableLatest` |

`NoRelapse` rests on every number a request holds being one the database has, so
that a later reading of the height is not below it. The page's side is
`ShownInv`: `ServerOK`, that a request broadcasts blocks of the chain only, and
`PageOK` of each page, that its list is what `InOrder` says and its table the
first rows of all it was ever sent, newest first. `ReceivedInOrder` and `AnimatedOK` are the
two handlers of the script on the list, and `PrependAll` what its loop over
the rows of a block does to the table.

### The pages

`PortalProofs`, for any blocks, transactions, traces, assets, addresses, filters,
sizes of pages and number of requests for the chart:

| Theorem | States |
|---|---|
| `TypeCorrect` | `Spec => []TypeOK` |
| `ListsAreWholeInvariant` | `Spec => []ListsAreWhole` |
| `DetailAgreesInvariant` | `Spec => []DetailAgrees` |
| `SearchLandsInvariant` | `Spec => []SearchLands` |
| `ChartNotStaleInvariant` | `Spec => []ChartNotStale` |

- `ChartInv`, for `ChartNotStale`: what the cache must know of, every request
  under way knew of when it set out (`FloorKnown`); so whichever comes back last,
  the cache is not older. The counts agree as each block stored only adds to a bin.
- `TabInv`, for `TypeOK`: each answer that is there has the type of its call, and
  what is still asked for is what the page of that kind asks for.
- `SearchInv`, for `SearchLands`: what a search has asked for and not found was
  not stored when it began, and the page it leads to asks about what is stored.
- `BlockWhole` and `TxWhole`, for `DetailAgrees`: once the block (or transaction)
  has been read, every other part is that of the whole block, as its rows become visible
  together and do not change.
- `ListInv`, for `ListsAreWhole`. `RowsFit`: the total is not below what page and
  rows add up to, as it is counted after them and rows are never removed. `ReadSoFar`:
  what a user who reads on has not been shown is on the pages ahead, as saving a
  block moves rows to later pages only, and a row that ties with no other is on
  the page that has its place. So the count, read later, is beyond the page he is on, and the
  link to the next one is there. `NoneWithoutBalance` and `AssetChosen` do the same for an
  address, whose lists are asked for only after its balances.

All five go by kinds of steps (`StepIs`): a page is begun, is given an answer, is
rendered, or stays.

`DataTheorems` has what the three modules need of data: the greatest and the
least of a set of numbers, by the well-foundedness of `<`; what the library's
folds compute, place by place; and pages. `IsPage` is ORDER BY, LIMIT and
OFFSET for an order with ties; `PageFills` says how many rows a page
has, and `OwnPlace` which it cannot leave out. All proofs assume only the named
assumptions of their modules.

### Only model-checked

Liveness: `ShutdownCompletes`, `ReadyIsTaken`, `ClaimIsSettled`,
`DisconnectEndsPipeline`, `HeadsAreWorkedOff`, `RunEnds` and `PostedIsShown` rest on
weak fairness, that is on ENABLED, which the prover does not reach. The findings are
counterexamples.

## Not modelled

- Of the `portal`: menus, the drawing of charts and texts, which keep nothing a property
  is about; a token's detail page, which shows mock data; the SQS consumer and
  the portal's own gateway, which nothing calls (notifications come from `ws`);
  the cached list of assets, which is only ever asked for past the cache.
- Of the `api`: the columns of its answers, the forms of addresses and hashes it
  refuses, and `/blocks/latest`, which nothing calls.
- Of the block task: what does not decide which balances are read (events,
  keys, attestations and assets as rows of their own), and the genesis block.
- `export_genesis.ts`: its body is commented out.
- `orc` server, configuration and logging; Docker files: no state that a
  property depends on.
- Within the modelled parts: JSON and BSON decoding of a document the same
  program wrote, timestamps other than `processAfter`, error texts, logging.
- Two MongoDB primaries, or a read of rolled-back writes: the code gives no
  write concern, and a single server is what `docker-compose.yml` deploys.

## Plan

Built, most important first: `TaskQueue`, `Orchestrator`, `RealTime`,
`BlockStore` over `AtomicStore`, `EtlSync`, `Balances`, `Notify`, `Api` and
`Portal`, and the proofs of all of them. What is left of the system keeps no
state of its own.

Of the properties only liveness has no proof. The hazards that no property covers
say why in `PROJECT.json`.
