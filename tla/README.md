# TLA+ models of poe-tg-tracker

A Telegram bot that reports Path of Exile 2 currency rates.  This directory
models the parts of it that can go wrong between two steps: transactions,
retries, restarts, polls, probes and shutdowns.  Paths of source files are
relative to the repository.  `PROJECT.json` names the source lines behind every
definition, the hazards and which property is for which, and for each property
a mutated definition that breaks it.

Check a run with `tlc -config MCAnswers.cfg MCAnswers`, a proof with `tlapm Rates_proofs.tla`.

## 1. The system

| component | state it keeps | operations | talks to |
|---|---|---|---|
| **fetcher** `cmd/fetcher` | none; `fetch_log` in MySQL | one run per hour (CronJob, `Forbid`, repeated on failure) or a backfill by hand: load the previous hash, fetch up to 6 times, decode, ingest, record | exchange API (HTTP), MySQL |
| **ingest** `internal/ingest` | the map `byPath`, one transaction | `Run`: resolve item paths to currency ids, insert placeholders, upsert snapshots | MySQL |
| **database** `internal/db` | `currencies`, `market_snapshots`, `default_rate_pairs`, `fetch_log`; no foreign keys | the queries in `queries/*.sql`; `Open` with retries; migrations | MySQL |
| **exchange-service** `cmd/exchange-service`, `internal/exchangesvc` | a health status | `QueryServer` (GetRates, ListLeagues, ListDefaultRatePairs, ListCategories), `AdminServer` (Sync, Curate, Bootstrap, ListPlaceholder), `WatchDB`, shutdown on a signal | MySQL, exchange API, poe2scout; called over gRPC |
| **rates and ranking** `internal/exchange` | none | `computeRate`, `RatesByID`, `RankByVolume`, `RankByPrice`, `Trend` | called by GetRates |
| **gateway** `cmd/gateway` | a gRPC connection | HTTP to gRPC, `/readyz`, `/healthz`, shutdown | exchange-service |
| **bot** `cmd/bot` | `offset`, beat times, category cache | poll loop, handlers of messages and presses, category selection, health endpoints | Telegram, gateway |
| **curate** `cmd/curate` | none | list, set, sync, bootstrap from the command line | exchange-service's admin API |
| **retry** `internal/retry` | none | `Do`, backoff, classification of errors | used by every client |
| **clients** `internal/telegram`, `internal/gatewayclient`, `internal/grpcclient`, `internal/poe2scout` | none | one call each, with a retry policy of its own | remote services |

How they interact.  The fetcher writes the tables, once an hour, in one
transaction per digest.  The exchange-service reads them with autocommit
queries, and its admin calls write single rows of `currencies` and
`default_rate_pairs` at any time.  The bot asks the gateway, which asks the
exchange-service.  Nobody holds a lock across two of these steps, so the hard
part is always the same: what was read, and what has happened since.

What makes each part correct, and what is hard about it:

- **ingest**: a digest is visible as a whole or not at all; ids are given once;
  no row refers to a missing currency; the two sides of a row keep their own
  numbers.  Hard: `byPath` is listed before the transaction, two runs lock the
  same rows in opposite orders, a rollback takes placeholders back, the
  acknowledgement of a commit is lost.
- **fetcher**: a stale payload is not stored under a new hour; `fetch_log` never
  runs ahead of the tables; a run ends.  Hard: commit and `RecordFetch` are two
  steps with a deadline and a crash between them; backfills run beside cron.
- **admin calls**: descriptions are not lost; pairs refer to what exists.  Hard:
  no transactions, partial failure at each statement, gRPC repeats calls.
- **GetRates**: an answer is put together from four or five queries; it must not
  go back in time, skip an hour or lose its rows, and its ranking, change and
  trend must not contradict each other.  Hard: a number goes from a digest
  through a swap of sides, a signed column, a query, an inversion and a product
  until a user sees it.
- **poll loop**: nothing is lost, nothing is answered twice by one process, the
  order is kept.  Hard: the offset is in memory and moves before the handler runs.
- **probes**: a hung loop is replaced, a slow one is not.
- **selection**: buttons carry positions in a list that may have changed.
- **sends**: no duplicates, although a failed call may have been delivered.
- **lifecycle**: the health status follows the database and never says
  `SERVING` during a shutdown; calls in flight are answered.
- **request path**: a press of a button ends, whatever hangs or restarts behind
  it, and leaves nothing running.  Hard: the retries of two clients multiply,
  the gateway cuts off what it serves when it ends, and the exchange-service has
  no deadline of its own, so only a cancellation that crosses three processes
  ends what hangs there.

## 2. The modules

| module | models | state and actions |
|---|---|---|
| `MarketTables` | rows of `market_snapshots`, the swap of ids and numbers, the upsert | operators shared by the next two |
| `MarketStore` | abstract: what the tables promise | `Ingest` stores a whole digest in one step, `Describe` describes a currency |
| `Ingest` | `ingest.Run`, concurrent | per run `byPath`, `own`, `held`, `rows`, `idx`; `List`, `Skip`, `Resolve`, `WriteSnapshot`, `Commit`, `Fail`, `LockWaitEnds`, and `Describe` for the admin upserts |
| `MCIngest` | paths, digests and hours of its run | |
| `Fetcher` | `cmd/fetcher`'s `run` | `log`, `store`, a record per run; `Start`, `LoadPrevious`, `Wait`, `FetchError`, `Fetch`, `Decode`, `Ingest` (atomic: what `Ingest` shows), `Record`, `Expire`, `Fail`, `ExpiredCall`, `HourPasses` |
| `Catalogue`, `MCCatalogue` | `AdminServer`, the paging of `internal/poe2scout`, gRPC repeats, an ingest beside them | one action per statement or page: `Curate`, `SyncStart`, `SyncPage`, `SyncRows`, `SyncUpsert`, `BootstrapBase`, `BootstrapQuote`, `BootstrapPair`, `Repeat`, `Fail`; `Discover`, `Commit`, `Rollback` of the ingest |
| `Rates` | `GetRates`, as far as hours go | `stored`, `priced`; one action per query, `Commit` and `Describe` between any two |
| `Ranking` | `internal/exchange`, and what `format.go` makes of a rate | operators: `computeRate`, `RatesByID`, `RankByVolume`, `RankByPrice`, `Trend`, `Shown` |
| `Answers`, `MCAnswers` | `GetRates` with its rows | `Rates` over the tables of `MarketStore`: the rows that each query read, the conversions of `ingest.go` and `convert.go`, `Response` |
| `Serving` | `cmd/exchange-service`'s `run`, `WatchDB` | main, the watcher, the signal goroutine; outages, kills, restarts |
| `RequestPath` | bot's gateway client, gateway, gRPC client, over `Serving` | a press and its attempt, the request in the gateway, handlers left behind; `Press`, `Send`, `HttpTimeout`, `Deadline`, `Invoke`, `Unavailable`, `Reply`, `GatewayExit`, `Probe`, `Cancel`, `CancelledEnds` |
| `Bot` | the poll loop | `offset`, `next`, `last`, Telegram's `confirmed`; `Top`, `PollOK`, `PollError`, `Backoff`, `Begin`, `Handled`, `BatchDone`, `Cancel`, `Die`, `Restart` |
| `BotHealth` | beats against the liveness probe | time in ticks; `Tick`, `PollOK`, `PollFails`, `Wake`, `Handled`, `Hang`, `ProbePasses`, `ProbeFails`, `Kill` |
| `Selection` | keyboards, masks, list cache, callback answers | `shown`, `queue`, `cats`, the press in hand; `Take`, `Load`, `Rank`, `LoadFails`, `Answer`, `Edit`, `Restart`, `ServiceChanges` |
| `Send` | `retry.Do` with `classifySend` | `attempt`, `clock`, `wake`, deliveries; `Call`, `CallCut`, `Wake`, `WaitCut`, `Cancel` |
| `*_proofs` | theorems of the module they extend | |

`Ingest` implements `MarketStore` (`ImplementsStore`, the abstract specification
as a property of its run, variables mapped by name).  `Fetcher`, `Catalogue` and
`Answers` use what that shows: there an ingest's commit is one step, and in
`Answers` it is the action of `MarketStore` itself.  `Answers` implements `Rates`
(`AnswersImplementRates`, proved), and `RequestPath` takes every step of `Serving`
as it is.  Definitions whose
comment begins with "Mutant" are faulty forms of the definition after them; no
specification uses them.

## 3. What the runs check

| run | configuration | shows |
|---|---|---|
| `ingest_concurrent` | `MCIngest.cfg` | Two concurrent runs and admin upserts.  `NoOrphans`, `OneRowPerPair`, `SidesMatch`: the committed tables are consistent.  `NilMeansStored`: a run that returns nil is stored to the last row.  `RunsEnd`: no deadlock is for ever.  `ImplementsStore`: the whole digest or nothing. |
| `fetcher_cron` | `Fetcher.cfg` | Cron alone, with failures, kills, deadlines and re-runs.  `RecordedNotStoredAgain`: a payload *recorded* for the hour before is not stored.  `LogFollowsStore`: a hash is in `fetch_log` only for an hour that had that payload committed (proved with any backfills beside cron).  `RecordMatchesStore`: what a run records is the hash of what its hour has.  `RunsEnd`. |
| `fetcher_stale` | `FetcherStale.cfg` | **violated**, see section 6. |
| `catalogue` | `Catalogue.cfg` | A sync page by page, a curation and a bootstrap, repeated and stopped at any statement, beside an ingest.  `SyncComplete`, `EmojiKept`, `DescribedForGood`, `PairsResolve`, `BootstrapComplete`. |
| `rates` | `MCAnswers.cfg` | `HoursAreCurrent`: no answer is older than its request, and the comparison skips no hour.  `RatesArePresent`: the rates of both hours are there, also for an hour committed between two queries or older than the range.  `ReadsMatchDigests`: the rates are those of the digests, computed a second way from what was ingested.  `AnswersCoherent`: rank, limit, filter, trend and the hour before agree.  `ShownFaithfully`: so do the words, the range, the arrow and the sparkline, also when the rate is turned round. |
| `serving` | `RequestPath.cfg` | `NotServingWhileStopping` (a late ping against `Shutdown`), `CallsDrained`, `ReadyFollowsDb` (the gateway's readiness, through any number of outages and restarts), `ShutdownEnds` (a signal at any time, before `Serve` and with hanging queries too), `PressEnds`, `NothingLeft`. |
| `bot_poll` | `Bot.cfg` | `NothingLost`, `OncePerProcess`, `InOrder`, `EventuallyServed`, with lost requests and responses, SIGTERM inside a batch, and kills. |
| `bot_health` | `BotHealth.cfg` | `OnlyHungFails`: polls, pauses and handlers that keep their timeouts never fail `/healthz`.  `HungIsReplaced`. |
| `bot_health_flood` | `BotHealthFlood.cfg` | **violated**, see section 6. |
| `selection` | `Selection.cfg` | `TickedIsRanked`, `NeverAllByAccident`, `ToggleFlipsOne`, `AnsweredOnce`, with a list that changes, shrinks and is cut off, and restarts. |
| `selection_stale` | `SelectionStale.cfg` | **violated**, see section 6. |
| `send` | `Send.cfg` | `DuplicateOnlyAfterCrash`, `NilMeansDelivered`, `FloodWaitKept`, `Returns`. |

`catalogue` and the two `selection` runs may stop: all calls are done, or the
bounds on changes and presses are used up.  All other runs check deadlock.

### Bounds, and why they are enough

- `MCIngest`: two runs, three paths, one hour and league, three digests.  They
  hold a pair in both orders, two markets with one key, a malformed market, a
  zero amount, and pairs whose overlap makes two runs lock in opposite orders.
  A third run adds no new kind of lock cycle; the safety properties are proved
  for any number.
- `Fetcher`: three hours, all six attempts of the code, no backfill.  Each of
  cron's properties relates an hour with the one before it; three hours give a
  chain of two such pairs with a gap.  `TypeOK` and `LogFollowsStore` are proved
  with any set of backfills; the other two properties are claimed for cron alone.
- `Catalogue`: three paths, one call of each kind, one repeat, three ids for the
  ingest.  The listing has an empty category and one with two pages; its items
  hold a duplicate and one without a path; one quote is left to the ingest, so
  bootstrap meets a missing, a placeholder and a described row.
- `MCAnswers`: three hours, three ingests and a range of two hours (24 in the
  code), so that the hour before lies inside, at the edge of and outside the
  range, and two commits can fall between two queries.  Five currencies, two
  orders of their ids, two lists of quotes, three digests whose markets are
  listed in both orders and twice, and numbers of three bits (64 in the code),
  of which those from 4 on are negative as signed ones.  The digests have rates
  above and below 1, one to which two quotes lead, a side without volume, an
  hour that has rows but none that a query returns, and a market that ingest skips.  Limits of 0 (the default, 2
  instead of 10) and 1, all filters of categories.  One request at a time, for
  requests share nothing; one league.  Categories do not change.
- `RequestPath`: two attempts of each client (3 and 4 in the code), so that each
  retry is met by a first and by a last attempt of the other; two calls in the
  service, one of them always one that nobody waits for; outages, kills and
  restarts without a bound.
- `Bot`: four updates, at most two per response (100 in Telegram), two stops or
  kills: a batch can be cut, redelivered, and cut again.
- `BotHealth`: the values of the code in ticks of five seconds (polls 65 s,
  handlers 60 s, backoff at most 60 s, window 180 s, probes every 30 s, three
  failures), batches of up to four, `retry_after` of 0 or 90 s, the value of the
  repository's test.  Below five seconds `pollBackoff` is rounded up, which is
  on the strict side.
- `Selection`: three categories and masks of two bits (64 in the code), so the
  list can be longer than the mask; one message, one press that waits and one in
  hand, two changes of the list, one restart.  The cache's ten minutes are a
  choice: whenever the list is needed it may be too old.
- `Send`: three attempts of the code's policy in ticks of half a second, a
  deadline of 12 ticks, calls of 0, 1 or 7 ticks, `retry_after` of 0, 5 or 20:
  it fits, fits only after a short call, or never does.

### Fairness, and why the code justifies it

- `Ingest`: a run goes on unless it is blocked; a wait for a lock ends (InnoDB
  picks a victim or times out, and the context has a deadline).
- `Fetcher`: a process with a step to take takes it; HTTP calls have a timeout.
  Nothing is assumed about failures, kills or the start of runs.
- `Bot`: the process runs on and is restarted, and polls do not fail for ever
  (strong fairness of `PollOK`, for a poll may fail again and again in between).
  Handlers end: they have a deadline of 60 s.
- `BotHealth`: time passes and the kubelet probes.
- `Send`: a call returns or is cut at the deadline; a timer fires.
- `RequestPath`: pings have a timeout of 3 s, the ticker fires, `db.Open` gives up
  after its timeout, `GracefulStop` returns when the calls are gone; the bot's
  HTTP client sends what it has to send and has a timeout of 30 s; the kubelet
  probes; a cancelled call is told so and returns.  Nothing is assumed about the
  database, about a handler that was not cancelled, or about a gateway that is
  down: `ReadyFollowsDb` speaks of runs in which the database stays up or down.
- `Catalogue`, `Answers` and `Selection` have no liveness property and no fairness.

## 4. What is proved

Each theorem holds for every value of the constants, from the assumption that the
module names (`DigestsAssumption` and so on: sets are sets of the right things,
bounds are naturals).  The proofs are inductive invariants, one step per action.
Where the third column names an invariant, it is the strengthening that is
inductive, and the text says what the property lacks.

**Ingest** (`Ingest_proofs`, for any paths, hours, digests and number of runs)

| theorem | statement | argument |
|---|---|---|
| `TypeCorrect` | type invariant | action by action |
| `SidesAlwaysMatch`, `NeverOrphans` | `SidesMatch`, `NoOrphans` | neither is inductive: rows are written from `byPath` long before their commit.  `References` adds that a row an open transaction inserted is locked by it and has no committed rival (`OwnLocked`), that `byPath` holds committed ids or the run's own (`ByPathValid`), and that pending rows use ids the run has resolved (`RowsResolved`).  Then `Commit` publishes rows and currencies together. |
| `IdsNeverChange` | `IdsStable` | from `OwnLocked`: what a commit publishes had no row before |
| `NeverTwoRowsPerPair` | `OneRowPerPair` | `CanonicalRows`: smaller id first and the unique key holds, in the table and in every transaction |
| `IngestImplementsStore` | `ImplementsStore` | `Progress`: what a transaction holds is exactly what the markets it has seen leave behind, in the order of the digest; `UniqueIds`: committed and pending ids are distinct.  Then the commit of a run is `MarketStore!Ingest` of its whole digest, an admin upsert is `Describe`, and every other step is a stutter. |
| `NilAlwaysMeansStored` | `NilMeansStored` | from the same invariant |

**Fetcher** (`Fetcher_proofs`)

| theorem | statement | argument |
|---|---|---|
| `TypeCorrect` | type invariant; what does not parse is never stored | with `Decoded`, which ties the hash in hand to the step of the run |
| `LogAlwaysFollowsStore` | `LogFollowsStore`, for any backfills | `Committed`: a run about to record has committed that payload |
| `CronNeverStoresRecorded`, `CronRecordsWhatIsStored` | `RecordedNotStoredAgain`, `RecordMatchesStore`, without backfills | `CronUpToDate`: what the only run has read of `fetch_log` still holds when it is used |

**Admin calls** (`Catalogue_proofs`, for any calls beside each other and an ingest)

| theorem | statement | argument |
|---|---|---|
| `TypeCorrect` | type invariant | with `CallTypes` |
| `PairsAlwaysResolve` | `PairsResolve` | `Read`: an id that a call has in hand is that of a committed row, which no step removes |
| `RowsAreForGood` | `DescribedForGood` | `OwnIsNew`: what the ingest inserted has no committed row |
| `EmojiAlwaysKept` | `EmojiKept` | `Curated`: the row of a finished curation has its emoji; every other statement that writes the row keeps it |
| `SyncAlwaysComplete` | `SyncComplete` | `SyncKnows`, one part per stage of a sync.  While it pages: what it has fetched covers the categories before and the pages before.  While it writes: a path of what it fetched is described already or among the rows still to come.  Descriptions are kept by `RowsAreForGood`. |
| `BootstrapAlwaysComplete` | `BootstrapComplete` | `BootstrapKnows`: the pairs of the quotes done so far are there with the positions asked for, and no others.  `IdsUnique` keeps apart the keys of different quotes, also while the ingest holds ids that are not committed. |

**Rates and answers** (`Rates_proofs`)

| theorem | statement | argument |
|---|---|---|
| `TypeCorrect` | type invariant of `Rates` | |
| `HoursAlwaysCurrent`, `RatesAlwaysPresent` | `HoursAreCurrent`, `RatesArePresent` | `Consistent`: the tables only grow, so what was seen of them still holds, and each hour chosen so far remains the right one |
| `AnswersImplementRates` | `AnswersSpec => Spec` | initial states and steps of `Answers` are those of `Rates` or leave its variables alone |
| `AnswersCurrentAndPresent` | the same two of `AnswersSpec` | from the three before |
| `AnswersAlwaysCoherent` | `AnswersCoherent` | `AnswerKnows`: the rows of the tables have ids of known paths, and the rows in hand are those of the hours that `Rates` says were read.  The rest are lemmas about `Ranking`: `Dearer` and `MoreTraded` are strict total orders of rates (for `Dearer` that is cross-multiplication of positive fractions), a finite set has exactly such a list as `Sorted` asks for, what is cut off ranks below (`NothingAbove`); a direct rate is the same in both views, and so the last point of the trend is the rate (`AnswerRate`). |
| `ShownAlwaysFaithfully` | `ShownFaithfully` | `Ranged`: the hours that were read lie in the range, and none of them between the hour before and the hour, so the last two points that the sparkline knows are the two that the arrow compares (`ChangeCompares`).  A block is a quotient of fractions rounded to the nearest, which keeps their order (`RoundedMonotonic`, `BlockMonotonic`), and turning them round turns it (`InvertedOrder`).  `Less` is a total order of fractions, so `Least` and `Greatest` exist (`Extremes`) and low and high come in order out of `computeRate` and of a chain (`RateOf`, `TimesKeepsOrder`). |
| `ReadsAlwaysMatch` | `ReadsMatchDigests` | `TradesStored`: the rows of an hour are those that its markets leave behind, in the order they came and over all ingests of the hour.  It is inductive because the upsert of one digest into the rows of those before is what both leave behind together (`LastingConcat`).  Two markets share a key if they are of the same two currencies, whatever ids these have (`SameKey`), so the row of a pair is that of its last market (`LastTradeLasts`); a uint64 survives the int64 of the table (`RoundTrip`), so it reads as that market (`MarketRead`); the rest follows `currencyRatesFrom` and `RatesByID` (`DirectFromDigests`, `RatesFromDigests`). |

**Bot and its sends** (`Bot_proofs`, `Send_proofs`, `Health_proofs`)

| theorem | statement | argument |
|---|---|---|
| `Bot_proofs!TypeCorrect` | type invariant and `InBatch` | |
| `NothingEverLost` | `NothingLost` | `Confirmable`: what the offset would confirm has been served, except the update in hand and what a shutdown cut short, after which this process polls no more |
| `HandledOncePerProcess`, `HandledInOrder` | `OncePerProcess`, `InOrder` | `Sequence` (theorem `LoopInSequence`): what this process has begun lies below `offset`, a batch goes on at the first update not begun, and everything before that was served or begun |
| `DuplicatesOnlyAfterCrash`, `NilAlwaysMeansDelivered` | `DuplicateOnlyAfterCrash`, `NilMeansDelivered` | `Accounted`: one message for each 5xx and one for the last call |
| `FloodWaitAlwaysKept` | `FloodWaitKept` | `FloodEnded`: a wait ends no earlier than the flood, for the pause is the longer of the two |
| `Send_proofs!TypeCorrect` | type invariant: no time is past the deadline | with `Waiting`, and `PauseFits` for the arithmetic |
| `RunningLoopIsHealthy` | `OnlyHungFails`, if `Margin` holds | `Bounded`: the time since the last beat and what is left of the phase fit into the window.  `Margin` asks for a poll, the longest pause and a handler to fit; with the code's values it allows a `retry_after` of up to 115 s. |
| `Health_proofs!TypeCorrect` | type invariant of `BotHealth` | |

**Selection** (`Selection_proofs`, for any names, mask width and number of presses)

| theorem | statement | argument |
|---|---|---|
| `EveryCallbackAnsweredOnce` | `AnsweredOnce` | `Answering`: how often a callback was answered is known from where its handler is |
| `KeyboardsFit` | `Shapes`, `InHand` | keyboards, queued presses and the press in hand carry masks of the lists they were drawn from |
| `TypeCorrect` | type invariant | with `Shapes`, and `Room` for the queue |
| `NeverAskedByAccident` | `NeverAllByAccident` | a mask that is not 0 names a category or the press is turned down (`NamedSome`) |
| `TickedAlwaysRanked` | `TickedIsRanked` | `RankedIsRank`: the names sent are those whose bits are set |
| `TogglesFlipOne` | `ToggleFlipsOne` | `HasIsBit`, `ToggledTicks`: adding or taking away 2^i changes bit i and no other |

**Lifecycle and request path** (`Health_proofs`)

| theorem | statement | argument |
|---|---|---|
| `NeverServingWhileStopping` | `NotServingWhileStopping` | `Stopping`: whoever stops the service has shut the health server for good before, so a late ping cannot set its status any more; there are no calls unless it serves, and none once it has drained |
| `CallsAlwaysDrained` | `CallsDrained` | the process ends well only out of `GracefulStop`, which waits for the calls |
| `PathImplementsServing` | `PathSpec => ServingSpec` | every step of `RequestPath` is one of `Serving` or leaves its variables alone |
| `PathStopsCleanly` | the first two, of `PathSpec` | from the three before |
| `HandlersAccounted` | a request that the gateway waits for and the handlers left behind are calls of the service | `Accounted` |

Only model-checked:

- every liveness property (`RunsEnd`, `EventuallyServed`, `HungIsReplaced`,
  `Returns`, `ReadyFollowsDb`, `ShutdownEnds`, `PressEnds`, `NothingLeft`), for
  fairness is out of the proof system's reach.

Every safety invariant and every action property of the runs is proved.

`IdsStable`, the type invariants and the implementation theorems of `Rates` and
`Serving` are proved and not checked in a run.  Operators of TLC's own modules
(`SortSeq`, `@@`, `Permutations`) are not known to the prover, so the models say what a
sort or a query without ORDER BY gives with `CHOOSE` or a choice among
`SetToSeqs`, and records by their fields.  `BootstrapComplete` asks that the
quotes of a request differ, which the code does not check: with a quote given
twice the later position wins, and there is one pair less than the answer says.

## 5. What is not modelled

- **Rounding**: a float64 is a fraction in `Ranking`.  Its products and quotients
  are exact there, so a tie that rounding makes or breaks is not seen.
- **Curate**: it keeps no state; what it does is the calls of `Catalogue`.  They
  are not among the calls of `RequestPath`, which are the queries that come
  through the gateway.
- **The base and `trade_id`**: the base of the default pairs is a constant of
  `Answers`, for the deployed CLI always sends the same one.  A currency keeps
  its `trade_id` once it is described.
- **Texts, emoji, configuration, telemetry, gauges**: layout and observation.
- **`LastFetchUtc`, leagues**: a time and a list of names that are only shown.
- **Times in `RequestPath`**: a timeout may fire at any moment.  An abandoned
  request is gone from the gateway at once; only its handler in the
  exchange-service lives on until the cancellation reaches it.
- **poe2scout** does not change its listing while a sync reads it.
- **Migrations**: run once by goose before an upgrade.
- **Generated code**: the queries of `internal/db/gen` are operators of the
  modules that use them, the gateway's handlers are actions of `RequestPath`.
  Messages, descriptors and interfaces of `internal/pb` are not modelled.
- **MySQL, Telegram, grpc-go, Kubernetes**: external, modelled by what the code
  relies on.  Of MySQL: row locks of upserts until the transaction ends, locking
  reads that see the newest committed row, AUTO_INCREMENT values that are never
  given twice, autocommit elsewhere.  The collation of `item_path` is taken to
  distinguish what Go's map distinguishes.
- **Volumes above 2^63-1** wrap in `int64(volA)` and back in `uint64(r.VolumeA)`.
  `Answers` has both conversions; `Ingest`, where no number is compared, has
  amounts as they are.

## 6. Where code and documentation differ

- `fetcher_stale`: the repository's README says that the payload hash in
  `fetch_log` catches a payload served again.  The hash is recorded after the
  commit of the ingest, in a statement of its own.  A run that dies or runs out
  of time in between leaves rows without a hash, and the next hour stores the
  old payload.  What does hold is `RecordedNotStoredAgain`.
- `bot_health_flood`: the README says that an outage of Telegram never restarts
  the bot.  `pollBackoff` caps its own delay but not `retry_after`, and the loop
  does not beat while it sleeps: with a `retry_after` of some minutes the probe
  fails and the kubelet restarts a bot that only waits.
- `selection_stale`: the README says that the user picks the categories that are
  ranked.  A press on a keyboard drawn from an earlier list ranks the categories
  that have those positions now.

## 7. Plan

Done, in this order: `MarketTables`, `MarketStore`, `Ingest`; `Fetcher`; `Bot`,
`BotHealth`; `Send`; `Catalogue`; `Selection`; `Rates`; `Serving`; their proofs;
`Ranking`, `Answers` and that they implement `Rates`; `RequestPath`; the paging
of the sync.

Next, in this order:

1. `Fetcher` composed with `Answers`: what a user sees while an hour is stored
   twice or late.
2. A poe2scout listing that shifts between two pages of a sync.
