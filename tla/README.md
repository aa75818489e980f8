# A verification of illuvium-pg-backend-node

TLA+ models of the parts of this NestJS backend in which several executions
share state, the TLC runs that check them on small instances, and theorems
about them that TLAPS checks for every instance.

The backend (`src/`, TypeScript on Node) serves a game's reward programme and
assets. It keeps its tables in CockroachDB/PostgreSQL through Kysely, its job
queues in Redis through Bull, and talks to JSON-RPC nodes, subgraphs, price
feeds, EventBridge and Svix. Three facts about the code shape every model here:

- Every repository call is one SQL statement that commits by itself; no use
  case opens a transaction. Another request can run at every `await`, so **one
  awaited call is one action**, and what was read before an `await` may be stale
  after it. Consecutive reads of rows that nothing else can change in between are
  joined into one action.
- `BaseRepository.update` writes *every* column of the row it is given by id
  (`shared/infrastructure/database/repositories/base.repository.ts`, 64-87). A
  row that was read, changed in memory and written back silently undoes whatever
  another execution wrote in between.
- A call may reject and the process may stop between any two calls. In-memory
  maps and timers are gone then; tables and queues are not.

## 1. Inventory

Paths are below `src/src/`.

| Component | State | Operations | Talks to | What is hard | What makes it correct |
|---|---|---|---|---|---|
| Daily shard calculation (`modules/shards`, `calculate-daily-shards.use-case.ts`) | `shard_earning_history` (unique per address, date, season), `shard_balances` (unique per address, season) | `execute`, started by a GET of the balance | seasons, vault positions, contributions, referrals | two requests of one wallet; a crash between the two writes; a day that ends meanwhile; spelling of addresses | a day is credited once, a balance is what the recorded days say, a completed season is final once no older update of it is in flight |
| Referrals (`manage-referral.use-case.ts`) | `referrals` (unique per referee, season) | create, activate, activate all pending, expire; a calculation adds earned shards | balances, calculations | full-row writes of stale rows from four places; a failing row in a batch | only referees that earned the threshold are activated; bonuses are backed by referees' days |
| Seasons (`manage-season.use-case.ts`) | `seasons` | create, update, activate, complete, status batch | calculations | check-then-insert; stale rows; seasons overdue by two statuses | statuses follow the transition table; dates stay ordered; the batch catches up |
| Developer contributions (`developer-contribution.processor.ts`) | `developer_contributions`, verification cache | process, verify, distribute | GitHub, nodes, anti-fraud | duplicate check then insert; late verification; cached refusals | only verified contributions are rewarded, none is stored twice |
| Vault positions (`sync-vault-positions.use-case.ts`, `vault-sync.service.ts`) | `vault_positions` (unique per wallet, vault, date) | sync a wallet, sync a chain, jobs per vault | subgraphs, price feed, calculations | a day's snapshot is deleted, then rebuilt by jobs | a calculation sees a whole snapshot |
| Schedulers and jobs (`shard-processing.scheduler.ts`, `infrastructure/jobs`) | none | log lines | Bull | the `Cron` decorator is a stub, so nothing is ever scheduled | - |
| Prices (`get-token-price.use-case.ts`, `price-update-processor.job.ts`, `coingecko.service.ts`) | `price_history` (unique per token, instant, granularity), the price cache and its timers | requests for current prices, for a date, for a range; price jobs | CoinGecko | a cache behind a cache; a timer of an older value; entries written back late | an answer is no older than the lifetimes allow |
| Token metadata (`cache-token-metadata.use-case.ts`, `sync-lp-tokens.use-case.ts`) | `token_metadata` | look up, refresh, sync pools | contracts of tokens and pools | three writers of one row, none of which knows the others | a synced pool is found as an LP token |
| Leaderboard, history, fraud scores | none | queries | tables above | - | reads only |
| Block listener (`event-listener.service.ts`) | maps of last blocks and timers, in memory | onModuleInit, start, stop, poll | node, block queue | overlapping polls; partial batches; restarts | no block is skipped, the listener keeps up |
| Block processor (`block-processor.job.ts`, `processBlock`) | Bull queue | take, process, retry, fail | node, EventBridge | retries repeat events; swallowed errors; crashes | a completed block has offered its events; every queued block ends |
| Event processing (`process-blockchain-event.use-case.ts`) | `blockchain_assets`, `asset_transactions` | mint, transfer, burn | EventBridge, audit, contracts | events repeated, interleaved and out of order | a token's row is as one of its transfers left it; balances are backed by mints |
| Event retries and recovery (`blockchain-event-integration.service.ts`, `blockchain.controller.ts`) | none | process with retries, recover a contract's NFTs | event processing | an event is processed again after half of it happened | every execution ends |
| Contract discovery (`contract-discovery.service.ts`) | `blockchain_contracts` | discover, refresh | node, EventBridge | overlapping discoveries | a contract is announced once |
| Audit log (`modules/audit`) | `user_audit_logs` (unique per hash and type) | record | events | look-up, then insert, of two executions | a published event has the row of its transaction and type |
| Assets and marketplace (`modules/assets`) | `asset_marketplace`, owners of assets | sell, list in batches, bid, accept, reject, buy, cancel, update, transfer | assets | check, then insert at the end of a batch; late updates | one sale on offer per asset; nothing sold is offered again |
| Staking (`modules/staking`) | caches only | queries of vaults, events, transactions, positions, prices | subgraphs, nodes, feeds | several reads of a chain that grows meanwhile; chunks that fail; pages over a growing list | nothing is lost or counted twice between the reads |
| Inbound webhooks (`modules/webhooks`) | none | validate, map, publish | EventBridge | redelivery is not recognised | at least once |
| Outbound webhooks (`modules/outbound-webhooks`) | `webhook_subscriptions`, Svix endpoints | create, update, delete, send | Svix | two stores, two calls, either may fail | row and endpoint exist together |
| Authentication (`modules/auth`) | users, linked accounts | validate token, link, unlink | Thirdweb | look up the owner, then save | an account belongs to one user |
| Chat (`modules/chat`) | sockets, rooms, messages | join, leave, send | sockets | broadcast although saving failed | - |
| Developer API (`modules/developer`) | keys, recorded NFT operations | one row each | - | - | - |
| Observability, system | metrics | probe | - | - | - |
| Shared: caches, rate limit | maps with timers, Redis | get/set, count per window | - | a timer of an older value | a value lives no longer than its time |
| Shared: validators, schema, migrations | - | pure checks, DDL | - | - | - |

`PROJECT.json` lists the components with their status, and the hazards at the
lines where they bite, with the properties that cover them or the reason why
none does.

## 2. Modules

    ShardTables <- DailyCalculation, Referrals <- ShardProgram
    Seasons
    BlockQueue <- BlockPolling, BlockProcessing <- BlockIndexer
    TokenRegistry <-(refined by) AssetLedger
    PriceCache <- PriceHistory
    Marketplace, DeveloperRewards, WebhookSubscriptions, PriceHistory, LinkedAccounts,
        TokenMetadata <- Services
    VaultEventScan, TransactionPages <- StakingReads

    SumTheorems <- ShardProgram_proofs, BlockIndexer_proofs, AssetLedger_proofs,
        StakingReads_proofs
    Seasons_proofs
    ServiceTables_proofs <- Services_proofs

A module `X_proofs` holds the theorems about `X`; `ServiceTables_proofs` those about the
services that keep a table and no cache.
`MC*` modules hold the definitions the configurations need.

### The shards programme

`ShardTables` holds the tables of one season, their unique keys and the lookups
of the repositories. An address is a wallet and a spelling: lookups use the
lower case, inserts whatever the request says. An amount is a record of the
categories staking, developer and referral (social is always 0 in the code), in
whole units of the column.

`DailyCalculation` is `CalculateDailyShardsUseCase.execute`, one action per
awaited call, in the code's order: `CheckSeason`, `FindExistingHistory`,
`ReadVaultPositions`, `ReadContributions`, `ReadOwnReferral`,
`ReadActiveReferrals`, `AddReferralBonus` (once per referral, in any order),
`RecordHistory`, `ReadBalance`, `UpdateBalance` or `CreateBalance`,
`AddEarnedShards`, `Respond`. `req` holds the local variables of the executions
in flight. `credits` is a history variable that counts the balance writes of a
day. `World` is what others do meanwhile: midnight, updates of the season, a synced
position, a distributed reward. An update of the season is two steps, as every call
of `updateSeason` is: `LoadSeason` reads the row and settles the status it will
write, the one it read or, for an activation or completion, the next one;
`WriteSeason` writes the row whole, whatever was written since. `writing` is the set
of statuses that calls in flight hold; how many hold one is left open.

`Referrals` is `ManageReferralUseCase`: creation with its four checks, activation
by hand and in the batch (where an error ends one row's turn), expiry.
`ShardProgram` composes the two over the same tables and states the properties.

`Seasons` is `ManageSeasonUseCase` over the seasons table, with several calls in
flight: each reads rows, checks them, and writes back a whole row. It is a module
of its own because only one column, the status, reaches the calculations, which have
it in `LoadSeason` and `WriteSeason`.

`DeveloperRewards` is `DeveloperContributionProcessor`: `processContribution`
(duplicate check, validation, which may ask remote services, fraud check, insert; what
lies between the first and the last is one step that may refuse), `verifyContribution`
(cached answer, remote check, write of the whole row) and `distributeRewards`
(read the day's rows, mark each). What remote services answer is an open choice;
`verdicts` is the verification cache, which forgets at any time.

### The block indexer

`BlockQueue` is what listener and workers share: the jobs of the Bull queue, by
block and failed attempts, and the calls that may still reject. `BlockPolling` is
`EventListenerService` for one network: `startListening` and
`startBlockProcessing` as `StartListening`, `TestConnectivity`, `GetFirstBlock`,
`StartBlockProcessing`; `processNewBlocks` as `Tick`, `GetLatestBlock`,
`ReadLast`, one `AddBlock` per block, `SetLast`. Up to `Polls` executions overlap,
because `setInterval` does not wait for the last one.
`BlockProcessing` is the worker side: `TakeJob`, `GetEthTransfers`,
`PublishTransfers`, `GetBlock`, `GetContractEvents`, `PublishLogs`, `Finish`,
and `Throw` for the catch that hands the job back to Bull. A node that does not
(yet) know the block answers null: `processBlock` then goes on without its transfers,
or without its logs, and the job completes. `given` records what an attempt gives up
in this way or because the query of a contract was rejected, `skipped` what was given
up by the attempts that completed their block. The job class
registers two named processors, for which Bull starts two workers per process.
`BlockIndexer` composes them with `Restart`: the process stops, its maps and
timers are lost, Bull hands the stalled jobs out again.

`skipTo` records the highest block at which any start began: `startBlockProcessing`
takes the latest block for processed, so blocks mined while nobody listened are
outside what the code ever promises.

### Events into assets

`AssetLedger` is one contract and the events of its `Transfer` logs (`Chain`).
An execution is either one event with retries (`Deliver`, from a webhook, which
names the type of the event itself) or the recovery of the contract's NFTs
(`SaveNFTs`, which handles the logs of every token without a row, in the
order of the chain). `Handle` has one action
per call of `ProcessBlockchainEventUseCase.execute`: contract, token row, insert
or update, transaction row, audit look-up and insert, publication. For an ERC721
a mint of a known token rewrites its owner, for an ERC1155 it adds to its balance.
A rejected call begins another attempt from the start, which is how an event is
applied twice. `Visits` are calls of `discoverContract` and `refreshContractInfo`.
`attempted`, `published` and `unaudited` are history variables. The audit log has one
row for each transaction and type of event: a second transfer in a transaction finds
the row of the first and gets none, so `PublishedIsAudited` speaks of the row they
share.

`TokenRegistry` is the abstract specification: the row of a token is always as one
transfer of that token left it, owner and block together, and only a burn removes
it. `RowsFollowTransfers == Registry!Spec`, with `held` mapped to owner and block of
the rows of an ERC721, is a property of run `assets`. What it does not promise is
the *order* of transfers, and `says_current_owner` shows that the code does not
keep it.

### The services

`Services` puts side by side the handlers that share no table, cache entry or
call: `Marketplace`, `DeveloperRewards`, `WebhookSubscriptions`, `PriceCache` (with
`PriceHistory` beside it), `LinkedAccounts`, `TokenMetadata`. A behaviour exercises
one of them, its `focus`, and the others stay in their initial states. Nothing is
lost by this: no step of one reads or writes the state of another, so every
behaviour of one service occurs, and an interleaving of two services satisfies an
invariant of one exactly if that one's part does.

In the same way, `Casts` (of `Marketplace`, `Seasons`, `AssetLedger`) and `Together` (of
`PriceHistory`) list the requests that take part in one behaviour. The value is
chosen in `Init`, so one run checks many small combinations, chosen for the pairs
of operations that touch a row, without their product. Properties that hold only
while requests do not overlap name the sets of such behaviours (`Alone`).

- `Marketplace`: every request that writes `asset_marketplace` or the owner of an
  asset. A request looks up, checks, and writes in separate steps; a batch checks
  asset after asset and inserts all at the end. A price is a number in a text
  column: `FindBest` orders it as text. Requests name odd instants and the clock
  has even ones, so a listing is never looked at in the instant it expires.
- `WebhookSubscriptions`: the endpoint at Svix and the row, each call its own step
  and each may fail. `broken` marks a subscription whose creation or deletion died
  between the two.
- `PriceCache`: `CacheService`, a `Map` in which every `set` starts a timer that
  deletes the key whatever is under it by then, under `PriceUpdateProcessorJob`
  and `CoinGeckoService`. A price is represented by the instant CoinGecko gave it.
  `straddled` says that a timer fired while a job held the price.
- `PriceHistory`: `GetTokenPriceUseCase`. `AskCurrent`, `LookUp` per token,
  `TakeCached`, `FetchCurrent`, `Store`; `AskDate`, `FetchDay`, `CreateDay`;
  `AskRange`, `FillDays`, `Store`. A row has the instant it is stored under and, for
  the property, the instant whose price it is.
- `LinkedAccounts`: look up the owner of an account, then upsert. The primary key
  contains the owner, so it does not keep two users apart; `contested` marks
  accounts for which two savers had met.
- `TokenMetadata`: look up the row, ask the chain, insert or update, in
  three use cases that write different columns. `plain` marks tokens first
  cached as ordinary ones.

### Staking reads

`VaultEventScan` is `AlchemyStakingService.getVaultEvents`: `getBlockByTimestamp`
twice (estimate, window, binary search over timestamps of a chain that grows),
the limit on the range, and one request per chunk, each of which may fail and is
then only logged. `TransactionPages` is a client that reads the pages of
`GetUserStakingTransactionsUseCase`: each request asks for the newest
`Limit` transactions anew, sorts, prices and slices them. `StakingReads` puts the
two side by side as `Services` does.

### Abstractions

- The server runs in UTC, so `new Date()` and the column's date agree.
- Amounts are integers; the rounding of decimal(20,2) columns is not modelled.
- `AddReferralBonus` reads a referee's balance and history in one step; neither
  row is ever deleted.
- A transaction of a block is the object the code takes it for, with the events
  it converts; the JSON-RPC client and the ABI decoding are external. (The loops pass
  over a transaction that is a string. With the version of ethers in `package.json`
  `block.transactions` lists hashes, so that `Transfers` and `Logs` may be empty for
  every block; the model takes any.)
- `createSeason` inserts the id 0, and the primary key rejects its second row; nothing
  in the repository inserts others. `Seasons` gives each row a new id, wherever it
  comes from, which allows more tables than the code alone makes.
- The price jobs are queued only by the scheduler, whose decorator is a stub: the
  model runs jobs at any time, which allows more than the deployed code does.
- Priorities and backoff of Bull let any waiting job be next. Bull hands a
  stalled job out again once; the runs have one restart.
- One network, one season, one process. Two processes would share the queue
  (another set of workers) but each has its own maps.
- `lastProcessedBlocks.get(...) || currentBlock` takes block 0 for a missing
  entry, so a chain at its genesis is never followed; `InitialHeadAssumption`
  excludes it.
- Assets are listed with the balance they have; market prices are below 100.
- Where a query takes the first row in the order of a timestamp that the model
  does not keep, any row may be the first.
- Transactions of one type with one timestamp are taken newest first; sorting by
  amount and the filters by vault and date are left out.
- Whether a token's row is stale is an open choice; of its columns only those
  that the three writers treat differently are kept.
- The cache of historical prices is left out: the price of a past day does not
  change.

## 3. Runs

Every run explores its whole state space.

| Run | Checks | Bounds |
|---|---|---|
| `daily_ledger` | `CreditedOnce`, `BalanceBacked` | 1 wallet in 2 spellings, 2 days, 2 requests that may fail anywhere; the season may complete |
| `referrals` | `AllCredited`, `BonusBacked`, `EarnedShardsBacked`, `ActivationEarned` | 2 wallets, 3 days, 1 calculation against 1 referral operation that may fail |
| `progress` | `EveryExecutionEnds`, `RecordedIsCredited`, `SeasonFrozen` | 2 wallets, 1 day, no failures, weak fairness; any number of updates that write `active` or `completed` |
| `seasons` | `EndAfterStart`, `StartedIfNotUpcoming`, `CompletedHasEnd`, `StatusFollowsAlone`, `BatchCatchesUp` | 2 rows, instants 0-2; one call at a time, or two that overlap and may fail |
| `block_polling` | `NoGap`, `KeepsUp` | 4 blocks, batches of 2, 2 overlapping polls, 2 calls of startListening, 1 rejected call, 1 crash, the queue paused |
| `block_indexer` | `CompletedIsOffered`, `RepeatsBounded`, `BlockEnds` | 3 blocks, 2 workers, 2 attempts, 2 rejected calls, 1 crash; one block has an ETH transfer and calls of two contracts, the second of which logs an event; any block may be answered null |
| `assets` | `TypeOK`, `BalanceBacked`, `PublishedIsAudited`, `AnnouncedOnce`, `RowsFollowTransfers` (refinement), `EveryExecutionEnds` | a token minted, moved and burned, mint and move in one transaction (a fourth log, for two of one type, exceeds the run; the theorem is about any chain); as ERC721 and as ERC1155; 2 executions, 2 discoveries, or one of each, one of which may fail; 2 attempts |
| `services` | `ServicesTypeOK` and, by focus, the properties below | below |
| `staking_reads` | `ReadsTypeOK`, `NothingMissed`, `BlockFound`, `ScanComplete`, `ScanEnds` | chains of 7 blocks: steady, halting, bursting, beginning late; chunks of 2, at most 4 blocks scanned; 4 transactions of which 3 are returned, pages of 1, four orders |

`services`, by focus:

| Focus | Checks | Bounds |
|---|---|---|
| market | `OneActiveSale`, `NeverReactivated` | 2 assets, 2 wallets, 3 requests out of 8 casts, expiries before and after the second instant |
| rewards | `NoDuplicate`, `VerifiedStays` | 2 submissions, 2 verifications, 1 distribution, 2 rows; contributions that share an identifier or not |
| webhooks | `EndpointsMatchRows` | 2 creations, 2 deletions, 1 update, 2 URLs; any call fails |
| prices | `NeverStale` | 2 tokens, 2 jobs, lifetimes of 1 and 2, 3 instants after the first |
| history | `AnswersAreRecent` | the same cache; two requests and a job, two and one for a date, or two for dates; a row is stale after 1 instant; a day is 2 |
| accounts | `OneOwner` | 2 users, 1 account, 3 requests |
| tokens | `PoolsAreFound` | 1 pool, 2 executions, its supply rises twice |

Why the bounds are enough. Two requests show every race between a check and a
write; a third adds nothing that unique keys or full-row writes tell apart. Two
days make a day boundary, three let a bonus period of two days begin and end. Two
overlapping polls show every order of two `SetLast` steps; batches of 2 make a
batch that fails halfway. In `block_polling` the workers stand still (`Working =
FALSE`, as after `pauseEventProcessing`): what they do does not reach the listener.
Prices 9 and 10 are the smallest whose order as text differs from that as
numbers. An entry of the cache lives one instant and the map two, so three
instants let an entry be set again, outlive its first timer and lie in the map.
The scanned range of 4 blocks in chunks of 2 has a first, a last and a cut-off
chunk; `Window` and `Close` of 1 let the estimate miss on both sides. With 4
transactions, 3 of which are returned, one that was there is pushed out.

Each of three more runs checks one sentence that the repository says of itself,
and TLC finds a behaviour in which the code does something else:

| Run | What the repository says, and what happens |
|---|---|
| `says_once_per_wallet` | a test: the existing history is returned when a day was already calculated. An address in mixed case is inserted as spelled and looked up in lower case: the wallet is credited again on the same day |
| `says_current_owner` | the entity: "Current owner address". `updateAssetOwnership` does not compare blocks; an older transfer handled later stays the owner |
| `says_best_bid` | `CreateBidUseCase`: "Bid must be higher than the current best bid". The best bid is the first of a text column in descending order: with bids of 9 and 10 active, 9 counts as the best and another bid of 10 is accepted |

Seen while modelling and not kept as runs:

- A process that stops between the history row and the balance: every retry
  returns that row, and the balance never gets the day. A calculation that began
  before midnight overwrites the balance of the next day. Two creations pass the
  referrer's limit together, and a referral is created while its referee's first
  day is being calculated. The balance of an address in mixed case is not found
  again, and its second insert fails on the unique key: only the first of its days
  arrives. A calculation writes back the referral it read before an
  activation, so that a referral is activated twice. The cap of a referrer's bonus
  holds per day, not per referral.
- An update of a season loaded before a completion is written after it: the
  completed season is active again, and days are recorded in it. `SeasonFrozen`
  therefore begins only when no update holds another status than `completed`; an
  update that begins later reads `completed`, and `validateStatusTransition` lets it
  write nothing else. Only active seasons are compared with a new
  one: two overlapping upcoming seasons are both activated.
- A slow verification writes back a row read before the distribution, and the
  contribution is distributed again.
- `startListening` answers `true` when `startBlockProcessing` has failed (470-472).
- A pool first cached as an ordinary token is never listed as an LP token, although
  the sync reports an update. A wallet linked by two users at once belongs to both.
- A transaction for which no price is found is dropped from its page, so the
  following ones move up while the client counts on.
- A price asked for with a date, or a range that is filled, is stored under the
  instant asked for, with the price with which that day began.
  `findLatestByToken` ignores the granularity and answers it as the current price;
  one for later today is not stale until that instant has passed, although the DTO
  says "Maximum cache age in minutes". `AnswersAreRecent` therefore leaves such rows
  out (`past`). `fillMissingData` fills only a range without any row.
- `tokenId` 0 is falsy in the recovery (`blockchain.controller.ts`, 1001).

## 4. Fairness

`ShardProgram!FairSpec`, `BlockIndexer!FairSpec` and `AssetLedger!FairSpec` assume
weak fairness of each execution: Node resumes a promise whose call was answered
or rejected, and clients answer or reject (`progress` has no failures, so there it
means answer). `StakingReads!FairReadsSpec` assumes the same of the one scan; that
the chain grows is never assumed. Arrivals, failures, crashes, new blocks and
stopping are never assumed. The timer fires again while it is set (`Tick`), and
Bull gives a waiting job to a free worker (`WorkerStep`). Nothing assumes strong
fairness.

`KeepsUp` is what follows: with failures bounded, each block after the starting
point is queued while the network is listened to. It would not follow for a node
that rejects for ever. `EveryExecutionEnds` says that attempts and loops over rows
that others change come to an end; `ScanEnds` that the binary search does, over a
chain that grows under it.

`CHECK_DEADLOCK FALSE` stands where the system may stop: every request has been
answered, or the chain and the history have reached their bounds.

## 5. Proofs

Every invariant and every action property that a passing run checks is also a theorem
that TLAPS checks, and so is the refinement of `TokenRegistry`. A run shows a property
on the instance of its configuration; the theorem is about any number of wallets,
requests, blocks, workers, logs, users, listings or transactions, any bounds, and any
interleaving, failure and restart the model allows. Eight modules hold the proofs.

The theorems assume the named `ASSUME`s of the modules and nothing else. They say what the
code and its deployment fix: bounds are naturals; wallets, spellings, workers and
executions of events are finite sets, so that there is a sum over them; `"lower"` is
one of the spellings; `Null` is neither a row nor a status nor a number; an event
belongs to one block and to one of its queries; a transfer moves something; kinds of
requests that the code tells apart are disjoint sets; market prices are from 1 to 99
and expiries odd, as described in section 2; a chain is not at its genesis and its
timestamps never decrease; chunks, pages and batches are not empty.

**How a proof is laid out.** What a run checks is hardly ever inductive, since a step of
an execution relies on what its earlier steps have read. Each module therefore has
an invariant that says, for every program counter, what the execution may still rely
on; a lemma per action shows that the action keeps it, and a further one that the
steps of others do not disturb it. State that changes appears in such lemmas as an
argument of a constant operator (`BackedBy(b, h, n, w, c)`), so that the same lemma
speaks of a state and of the next one.

**`SumTheorems`.** The prover cannot instantiate an induction theorem that takes a
predicate. A predicate is the set of those that satisfy it, though, and induction can
be stated for a set: `NatSet` from a least counterexample (`LeastExists`, from the
library's `WFMin`), and `FiniteSubsets` for the subsets of a finite set, one element
after another. With them the sum of a function over a finite set (`SumFunctionOnSet`)
is shown to be a natural number, to grow by what is added, to keep the order of its
terms (`SumNat`, `SumIncreases`, `SumOfSubset`), and to change as its terms do when a
row is written (`SumOfChange`). The models write their sums in this form.

**`ShardProgram_proofs`.**
- *Types* (`TypeCorrect`): `TypeInv` adds to `TypeOK` the locals that a program counter
  promises (`InFlight`, `OpReady`).
- *`DailyCreditOnce`* (`CreditedOnce`) and *`DailyCreditRecorded`*: `LedgerInv` says that
  an execution between its history row and its balance write is the only one with
  its key, that its row exists and that its day has not been credited. The unique key
  in `RecordHistory` establishes it, the write consumes it, and a failure only gives it up.
- *`CompletedSeasonFrozen`* (`SeasonFrozen`): once the season is completed, no update
  holds another status and no calculation is under way, `Frozen` says that updates which
  begin hold `completed` too and that calculations which begin do not get past the look
  at the season; `FrozenStep` that it stays so and that both ledgers stay what they are.
- *`BalancesBacked`* (`BalanceBacked`): a balance row is written from a row that was read
  before, so the row alone does not bound the next one. `BackedInv` bounds
  what an execution has seen, together with the rows under the other spellings of
  the wallet, by the days credited so far; crediting a day raises both sides.
- *`NothingLostAlone`* (`AllCredited`): equality holds while one calculation runs at a
  time, does not fail and names its wallet in lower case (`OneAtATime`, as in run
  `referrals`; any number of referral operations overlap it and may fail). Each of the
  three conditions is needed: without it a day is lost in one of the ways listed at the
  end of section 3.
- *`EarnedShardsCovered`* and *`ActivationsEarned`*: referral rows are written back whole
  from four places, so `SoundInv` says of every copy, in the table or in the locals of an
  execution, that it has the referrer of its row, that what it has accumulated is
  covered by recorded days, and that it is not pending only where the recorded days
  reach the threshold. Days are never removed, so a stale copy stays sound.
- *`BonusesBacked`* (`BonusBacked`): `BonusInv` bounds the bonus of an execution by what
  the referees it has visited give; each is visited once, and the referees of a
  wallet and their rows only become more.

**`BlockIndexer_proofs`.**
- *Types* (`IndexerTypeCorrect`).
- *`NoBlockSkipped`* (`NoGap`): what the last processed block says is only as good as what
  polls in flight will store. `CoverInv` adds that a poll that is adding blocks has
  all blocks below its next one queued, and one about to set the last block its whole
  batch. Queued blocks stay queued and `skipTo` only rises (`CoveredStays`).
- *`CompletedBlocksOffered`* (`CompletedIsOffered`): `OfferInv` says of a job that an
  event it is not going to offer any more has been offered, or is among those its
  attempt has given up, to a rejected query or to a block answered null. A retry begins
  with none given up, so only the attempt that completes a block leaves events out.
- *`RetriesBounded`* (`RepeatsBounded`): `RepeatInv` adds to the offers made those that the
  jobs waiting and the jobs being worked on can still make; the sum never exceeds the
  bound. A crash gives a stalled job no attempt back but lets its last one begin
  again, for every job of the block: the proof failed for the weaker bound that counted
  one repetition per crash, and the property now states this one.

**`AssetLedger_proofs`.**
- *Types* (`LedgerTypeCorrect`); `Sound` says which events reach which steps.
- *`DiscoveryAnnouncedOnce`* (`AnnouncedOnce`): only the discovery whose insert made the
  row goes on to announce it.
- *`PublishedEventsAudited`* (`PublishedIsAudited`): an execution that is about to publish
  has found or inserted the row of its key, or its audit call was rejected.
- *`RowsImplementRegistry`* (`RowsFollowTransfers`, the refinement): every step maps to a
  mint, a move or a burn of one token or leaves the rows of an ERC721 as they are.
- *`BalancesAreBacked`* (`BalanceBacked`): `BackedInv` adds what executions have begun and
  not written yet, and bounds each row, as stored and as read, together with it.

**`StakingReads_proofs`.**
- *`ScanTypeCorrect`* with `SearchRange`: the window stays on the chain.
- *`SearchLocates`* (`BlockFound`): `Sandwich` says that the instant lies between the
  timestamps on the two sides of the window, as far as it does not touch an end.
- *`ScanCollectsAll`* (`ScanComplete`): `Ends` holds both located ends, `Collected` what has
  been fetched up to the current chunk; the chunks tile the interval whatever its length.
- *`EveryTransactionSeen`* (`NothingMissed`): asking for the newest of each type and then
  for the newest of those is asking for the newest of all (`FrontIsNewest`). When the
  history grows, one transaction at most leaves that front (`OnePushed`), and then the
  new one enters it, so that one which stays never moves to an earlier page
  (`PlaceGrows`), unless the date ascends and an older one left. `PagesInv` says that
  each listed transaction not seen yet has its place on a page to come, in the history
  and in the answer that is being served, which may be older.
- *`ReadsImplementEach`*, *`ReadsTypeCorrect`*, *`ServedReadsComplete`*: the queries side by
  side.

**`Seasons_proofs`.**
- *`SeasonsTypeCorrect`*, *`SeasonsEndAfterStart`*, *`SeasonsStarted`*: `SeasonsInv` says of
  each call in flight what it may rely on (`OpFine`): the row it is about to write is
  `Fine` and has the start date of the row in the table. That stays true while others
  write: rows are never removed, keep their start dates, and the clock goes on.
- *`CompletedSeasonsEnd`*, *`StatusesFollow`*, *`BatchLeavesNoneOverdue`*: for one call at a
  time, `AloneInv` says that the row it holds is the one in the table (`Orderly`)
  and, if it meets no error, that every season overdue when it started is among those
  it has still to do (`Diligent`). The latter is false of a call that fails halfway,
  which is why `BatchCatchesUp` asks that the call does not.

**`ServiceTables_proofs`.**
- *`RowsHaveEndpoints`* (`EndpointsMatchRows`): `HookInv` adds that a request under way
  names a subscription (`HooksReady`), that nothing of a subscription exists while
  it is being created (`CreationsFirst`), and that the others name subscriptions
  whose creation has ended (`OthersLater`).
- *`AccountHasOneOwner`* (`OneOwner`): two savers of one account met (`SaversMeet`), or a
  saver met a row of another (`SaverMeetsRow`), or two rows met (`RowsMeet`): each is
  only so where the account is contested, and each follows from the one before.
- *`SyncedPoolsAreFound`* (`PoolsAreFound`): what an execution read is still there and of
  the same kind (`RowsKept`), a row of the ordinary kind was created as one
  (`PlainCreated`), and a synced pool has a row (`SyncedStored`).
- *`ContributionsDistinct`* (`NoDuplicate`) and *`VerificationsStay`* (`VerifiedStays`, an
  action property): what a submission has compared with a row differs from it
  (`Compared`), unless two of a wallet overlap; a copy that a distribution is about to
  mark was verified when it was read (`MarksVerified`), and so is a distributed row.

**`Services_proofs`.**
- *`OneSaleOnOffer`* (`OneActiveSale`) and *`ListingsStayClosed`* (`NeverReactivated`):
  `MarketInv` says what each request holds of the rows and owners it has read, and of
  requests that follow one another that one begins when the others rest (`InTurn`).
- *`CachedPricesFresh`*, *`ServedPricesFresh`* (`NeverStale`): an entry of the cache, or
  one a job holds, has its timer running (`PricesTimed`, `HeldTimed`), unless a timer
  fired while a job held it.
- *`AnswersNeverOlder`* (`AnswersAreRecent`): rows of the table are no older than the two
  lifetimes together (`RecentRows`, `RequestsTimed`).
- *`ServicesImplementEach`* and *`ServicesTypeCorrect`*: a behaviour of the server is one
  of each service, so that every theorem about one of them holds of the server.

**Model-checked only.** Liveness: `RecordedIsCredited`, both `EveryExecutionEnds`,
`KeepsUp`, `BlockEnds` and `ScanEnds`, for which the prover has neither `ENABLED` nor
the rules of fairness. That the properties can fail at all is shown by TLC as well: each
is violated in some changed form of a definition.

## 6. Not modelled

- *Not called.* The `Cron` decorator registers nothing. The use cases that populate
  and clean up `price_history`, `markAsExpired` of the marketplace and
  `RateLimitGuard` have no caller. `CacheTokenMetadataUseCase` and
  `SyncLpTokensUseCase` are exported and called by nothing in the repository, as is
  `handleWebhookEvent` with its retries, and
  `ShardsModule` and `OutboundWebhooksModule` are not imported by `AppModule`; these
  are modelled as they would run. Nothing processes the `sync-vault` jobs, so that
  the rebuilding of a day's vault positions has no second half to model; nothing
  queues `process-block-range` jobs, nor those of `EventSyncJobProcessor`, which run
  the same `processBlock` for every block of a range and begin it anew when one fails.
- *Without state.* Leaderboards, statistics, fraud scores, the queries of subgraphs
  and price feeds that reformat one answer (most of `modules/staking`), inbound
  webhooks, validators, interceptors, tracing, health probes.
- *One call.* Chat messages (an insert and a broadcast), developer keys and recorded
  NFT operations, the Redis cache, the client of EventBridge as such, token
  validation at Thirdweb.
- *Left out of modelled components.* The branch of `saveNFTsToDatabase` that walks
  `totalSupply` (925-993); recovery metrics; approvals and ETH transfers as events, which
  only publish; the update of a listing's expiry to null; the fallback of the price job
  (73, 271-297), which waits for a `retryCount` and a cache entry nothing writes; the
  JSON configuration of
  seasons; referral statistics. (The clean-up of prices asks for rows of an empty
  address and finds none.)

With one process and one network, two questions stay open: two servers with a
listener each on one queue, and two seasons of different chains at once.

The map covers what keeps state. Most of the remaining lines build queries, map
answers or describe an API; translating them would say nothing a type checker or
a unit test does not.
