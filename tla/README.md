# A TLA+ model of delegation-strategy-2

`delegation-strategy-2` collects data about the validators of Solana, keeps it in
PostgreSQL and serves it over HTTP. This directory holds TLA+ modules of the parts of
it where the order of events matters, the configurations that check them with TLC, and
proofs for TLAPS.

    tlc -config Uptimes.cfg MCUptimes.tla        (one line per row of "The runs")
    tlapm UptimesProofs.tla                      (and the other modules named ...Proofs)

Paths below are relative to `src/`. `PROJECT.json` maps every definition to the lines
it stands for.

## The system

Four Rust crates and some scripts. Nothing but PostgreSQL connects them: the programs
of `collect/`, `check/` and `store/` are short-lived processes that scheduled pipelines
start; `api/` is one long-lived process.

| part | state it keeps | operations | interacts with |
|---|---|---|---|
| collectors (`collect/`) | none; each writes one snapshot file | snapshot of validators, of performance, Jito accounts, block rewards, events | RPC node, BigQuery, Marinade and whois services; retries with back-off |
| checks (`check/`) | none | is it time to collect block rewards, MEV, priority fees? | RPC node, the tables |
| `store uptime` | table `uptimes` | extend or cut the latest row of each validator, insert new rows | reads performance snapshots |
| `store commissions`, `store versions` | tables `commissions`, `versions` | insert a row when the value or the epoch changed | the same snapshots, run right after `store uptime` |
| `store validators`, `store cluster-info`, `store ls-open-epochs`, `store close-epoch` | tables `validators`, `cluster_info`, `epochs` | upsert running values; record an epoch and set the final values | close-epoch reads `uptimes` and `commissions` |
| Jito job, block-rewards job | tables `mev`, `jito_priority_fee`, `validators_block_rewards` | check, collect, store, one script each | RPC node, BigQuery |
| events | table `validators_events` | upsert settlements of a window of epochs | BigQuery |
| scoring | tables `scoring_runs`, `scores` | upload of a CSV file that the R scripts computed | `POST /admin/scores` of the API |
| API cache | `Cache` in memory | a warmer task reloads everything every ten minutes | all tables, BigQuery, handlers |
| Context lock | one `tokio::sync::RwLock` around database client and cache | read and write | every handler and the warmer |
| handlers | none of their own | answer from the cache or by a query | the lock |

### What is hard

* **Statements are not transactions.** No command opens one: each `UPDATE` and `INSERT`
  is autocommitted, and most go in chunks of 500 rows. A process that stops leaves a
  part of its work, and what the next one does with that is not written down.
* **Commands are run again, or not at all.** The pipelines decide; the commands must
  bear both.
* **Pipelines run beside each other.** Storing snapshots and closing epochs write the
  same rows.
* **The world goes on.** Epochs pass, Jito uploads roots and the ETL loads BigQuery
  tables between the steps of a job or of the warmer.
* **One fair lock.** Handlers, uploads and the warmer share it; it is taken many times
  in one task, in places twice at once.
* **What is not refreshed stays.** A failed refresh is only logged, and data of
  BigQuery is loaded once in an epoch.

`PROJECT.json` lists these hazards one by one, at the line where each bites, with the
properties that are about it or the reason why there is none yet.

## The modules

In all of them a step of a model is one atomic action of the code: an SQL statement, a
request, taking or dropping the lock. A chunk of 500 rows is one row in the models that
have chunks, as its rows are written together; a crash is possible between any two
steps. Faulty variants of definitions stand beside the definitions they are variants
of, and are used by no specification: each is a bug that the checks would find.

**`Uptimes`** (`store/src/uptime.rs`). `uptimes[v]` is the table of one validator in
order of insertion, the position stands for the serial id. `Collect` writes a snapshot;
`SelectLatest` starts a command on one, reads the latest row of each validator and
decides, as lines 48-86 do, which rows to extend, which to cut and which to add;
`UpdateEnds` and `InsertRows` are its two statements; `Crash` ends it before either.
One minute and five minutes are the constants `StatusTail` and `MaxDelay`. The history
variables `stored` and `skipped` record which commands completed and whether a crashed
one was passed over. Properties: rows are disjoint intervals in order (`RowsOrdered`),
what was recorded stays recorded (`ObservationsKept`), an outage is one row
(`OutagesNotSplit`), and re-running a completed command writes nothing
(`RerunWritesNothing`).

**`Downtimes`** extends `Uptimes` by what is computed from the table: the downtime that
close-epoch sums up (`store/src/close_epoch.rs`) and the incidents the API lists
(`store/src/utils.rs`). Each is compared with a definition from the observations alone,
which knows no rows: how long each delinquent observation holds, and which of them form
an outage. Incidents are listed for a window of epochs (`IncidentsWindow`, 90 in the
code) that ends at the last epoch in `cluster_info`, which a command of its own fills;
it is any epoch here, and when the table is empty nothing is listed. Properties: the
incidents are the outages of the window (`IncidentsAreOutages`), `DowntimeIsTimeDown`,
and `DowntimeFinal`: once a validator has a row in a later epoch, its downtime of the
earlier one is settled.

**`ChangeLog`** (`store/src/commissions.rs`, `store/src/versions.rs`). The two commands
have one structure, and `Value` is what they log. A row is written when value or epoch
differ from the validator's latest row. Properties: the row in force at a stored
snapshot says what the snapshot said, epoch included (`LogTellsSnapshots`, on which
close-epoch's observed commissions and the report of ruggers rely), and no row is
superfluous (`RowsAreChanges`), although commands crash, are repeated and are skipped.

**`ObservedCommissions`** extends it by the least commission of an epoch, as close-epoch
stores it, and the three conditions under which `load_ruggers` counts an epoch against a
validator. `RuggersReported` compares them with what the snapshots showed: an epoch
counts exactly if more than the limit was charged and at most the limit was shown at
some time in it, or if what was charged crossed the limit for this epoch alone. A log
that has a row for each change only must lose none of it. The commissions charged in the
epochs before and after may be missing, which makes a comparison in SQL not true
(`Above`, `Within`).

**`EpochClose`** (`store/src/close_epoch.rs`, `validators.rs`, `cluster_info.rs`,
`ls_open_epochs.rs`). Of a row of `validators` only who wrote which group of columns
last is kept: the performance columns, which both `store validators` and close-epoch
write, and the three groups that close-epoch alone writes. Of `epochs` the windows are
kept. `storing` and `closing` are the two commands; they interleave freely, statement
by statement. Properties: a completed close has set everything of every validator that
had a row (`CompletedCloseIsFinal`) and it stays set (`FinalColumnsStay`), an epoch that
is still offered for closing has no final value (`OpenEpochsUntouched`), and windows of
epochs do not overlap in whatever order they are closed (`WindowsDisjoint`).

The performance columns are left out of the last two on purpose: a `store validators`
that runs late puts running values back into a closed epoch. Nothing in the repository
says that this does not happen; the pipelines make it unlikely.

**`ScoresCache`** (`store_scoring`, the upload handler, `warm_scores_cache`, the two
score-breakdown handlers). The upload inserts a run and then its chunks under the write
lock; `WarmSteps` lists the five queries and two cache writes of the warmer in the order
of the code, each of which takes the lock for itself. The handlers are the operators
`ScoreBreakdown` and `ScoreBreakdowns`: what they join from the cache.

**`PublishedScores`** is what the cache of scores promises, told without locks, chunks,
queries or rounds: an upload publishes its run in one step, and a refresh serves
published runs, each with all its scores, never older ones than before, and in the end
the newest. `ScoresCache` implements it (`ServesPublished`). The mapping: a run is
published when its upload has ended, in whichever way; `scores` are those of published
runs; the cache is the cache. So an upload in progress is not seen at all, each step of
the warmer is a stutter or one refresh, and a restart of the API forgets the cache and
ends the upload it interrupts.

**`ContextLock`** (`api/src/context.rs`, all handlers, `api/src/cache.rs`). A task is a
program over `read`, `write`, `query` and `release`, taken from the handler: whether two
guards live in one statement is what matters. tokio's lock is modelled by its queue: it
serves in the order of asking, so that a reader waits behind a waiting writer. A query
may fail, which ends the program and drops its guards. Handlers with the same pattern
share a program (`ReadOnce`, `ReadTwice`, `QueryOnce`).

**`EpochScores`** extends it by what the warmer does inside one of its queries, with the
lock in its hand: `load_scores_in_epochs` (`store/src/utils.rs`) fetches the scores of
past epochs by tasks, `Workers` at a time, which send them through a channel to one more
task, which ends when the last sender is gone. `Senders` and `ChannelEnds` say when.
The channel is a set: its messages end in a map by epoch, so that their order makes no
difference. Properties: all scores that were answered are loaded and the newest becomes
the validator's own (`AnsweredScoresLoaded`), and nobody waits for good
(`EveryTaskEnds`).

**`PerEpochCache`** (`PerEpochCache::load`, `warm_validators_cache`). A table of
BigQuery is represented by the last epoch in it, and so is everything computed from it.
`Land` is the ETL, external to the repository.

**`ValidatorsCache`** extends `PerEpochCache` by what is a single step there:
`load_validators`, query by query, against tables that `store validators` and `store
cluster-info` fill at the same time. Of a row of `validators` the vote account and the
epoch are kept, of `cluster_info` the last epoch. The last epoch is read first, the rows
of the window of epochs after it, then the incidents; validators and aggregates go into
the cache under one write lock. Properties: a listed validator has the flag
`has_last_epoch_stats`, which comes from another query than the list
(`ListedHaveLastStats`); a page that reads validators and aggregates under two locks,
with a refresh in between, shows no epoch without its aggregate
(`PageEpochsAggregated`); and the pages get complete (`PagesGetComplete`).

**`ValidatorsList`** holds the functions of that data: ranks
(`update_validators_ranks`), who is listed, and the epochs a page shows and aggregates
(`list_validators.rs`). `RanksAreStandings` compares the ranks of any four values, in
any order a sort may leave them, with a definition by counting.

**`BlockRewards`** and **`JitoAccounts`** (the two jobs with check, collect and store).
The chain ticks between all steps; each program asks for the epoch itself. The job is
started again and again but never twice at once, as the pipelines do. The manual option
`--epoch` is left out: with it a job may collect any epoch.

**`Collector`** (`collect/src/validators.rs`, `validators_performance.rs`,
`solana_service.rs`, `common.rs`) runs beside the job of `BlockRewards`, on the same
chain. One collector is a sequence of requests, with or without `--epoch`: the epoch,
the withdraw authorities, the stake accounts page by page, block production or, for an
epoch that is over, the slot history, and the credits; the block production is tried
several times, all else ends the program when it fails. Meanwhile slots and epochs pass
and authorities change. Properties: a snapshot tells what happened in its own epoch
(`PerformanceOfItsEpoch`), a stake account counts once for its validator
(`SelfStakeOnce`; `steady` is a history variable), and the validators flagged as
superminority are the members of the smallest groups of largest validators that hold
more than a third of the stake (`SuperminorityOfSmallest`, for any four stakes, in any
order that a sort may leave equal ones in). There are several such groups when the
smallest in one has as much as somebody outside it, and the code flags the members of
all of them: with four equal stakes two hold more than a third, and four are flagged.
Here the code and `glossary.md:97` differ: it calls the superminority "the lowest number
of validators" that hold a third. It does not say which of two equals belongs to it; the
property takes everybody who may.

**`ValidatorsEvents`** (`collect/src/validators_events.rs`,
`store/src/validators_events.rs`, the events handler). Each run of the job asks BigQuery
for the settlements of a window of epochs and upserts them; a cron and a manual backfill
may overlap. `Tick` and `Settle` are the world: settlements of an epoch appear after it
and change for `ClaimWindow` epochs. `Performed` stands for the rows of `validators`,
which the page joins. `EventsPage(v, from)` is what the handler answers for a first
epoch `from`. Properties: a row stamped after the claims of its epoch is right
(`RecentIsRight`), and a completed run that started late enough has brought the page to
the final settlements for good, as `collect/README.md` says of the window
(`FinalAmountsServed`).

**`MC...`** modules give the constants values. **`...Proofs`** modules hold the proofs
about the module they are named after and those it extends or is extended by:
`UptimesProofs` also about `Downtimes`, `ChangeLogProofs` about `ObservedCommissions`,
`ValidatorsCacheProofs` about `PerEpochCache` and `ValidatorsList`, `CollectorProofs`
about `BlockRewards`, and `ScoresProofs` about `ContextLock`, `EpochScores` and
`ScoresCache`.

The modules share no variables, as the parts share only tables that one of them writes
and others read. Where a reader depends on a writer it does so through a property: what
close-epoch needs of `commissions` is `LogTellsSnapshots`, what the sums of downtime
need of `uptimes` is `RowsOrdered` and `OutagesNotSplit`.

## The runs

| run | shows | bounds, and why they are enough |
|---|---|---|
| `uptimes` | the properties of `Uptimes` and `Downtimes` | one validator (rows of one never depend on those of another), five instants, two epochs, `StatusTail` 1, `MaxDelay` 2: gaps that touch, that are bridged and that are not; incidents of one epoch, so that the window leaves outages out; three commands in a row may crash |
| `change_log` | the log under crashes, repetition and skipping, and the ruggers found in it | two validators, a value within the limit and one above it (5 and 15 around 10), two epochs, four snapshots: a value changes and changes back, within an epoch and across; any commission charged, or none, in the epochs before and after |
| `epoch_close` | the four properties of `EpochClose` | one validator, three epochs, four snapshots: the epoch in the middle may be closed last, and cluster info may come after the epoch was closed |
| `scores` | the cache implements `PublishedScores`, so that an upload is served whole or not at all, never after a later one, and in the end; no score without its run; the single-run answer is part of the multi-run one | three runs of up to two chunks, two failures: two uploads within one round of the warmer, one of them partial |
| `scores_breakdown` | a violation, see Findings | two uploads |
| `lock` | the queue is stuck only through a nested read; every task ends unless that happens; the scores of past epochs that are answered are loaded | the warmer and two handlers of any kind: a holder, a writer and a reader behind it; two epochs and one permit: the loop must wait for a permit and the receiver for the loop |
| `lock_hints` | a violation, see Findings | the warmer and one request |
| `validators_cache` | what is cached of BigQuery for an epoch is of that epoch, validators match it, and each epoch gets cached; listed validators, pages and the staking report are consistent with one another and get complete | two validators, of which one joins in the third epoch and has stake from the fourth on; epochs 4 and 5 are stored while BigQuery gets two and one request fails; the cache holds four epochs and a page one or two |
| `collector_and_block_rewards` | snapshots tell of their own epoch, self stake is counted once, the superminority is that of the smallest groups with a third; an uninterrupted store of block rewards is complete whenever epochs pass | three epochs of two slots; two rewards in two chunks; one stake account (accounts are counted each by itself) on two pages; one attempt more; a slot history of less than two epochs and credits of one past epoch, so that both are forgotten within the run |
| `block_rewards_processed` | a violation, see Findings | two epochs |
| `events` | settlements reach their final amount on the page; a row stamped late enough is right | one validator and reason (rows of other keys are independent, but for the order of chunks, which is by epoch), four epochs, a window of two and claims of one epoch, so that there is one epoch in which a run must succeed; a cron and a backfill from epoch 1 |
| `jito_accounts` | no account is missed, one row for each, collections are spaced | two validators, two collected epochs of four slots with one or two collections each |

The runs `lock` and `lock_hints` do not check for deadlock, because the API really may
lock up; the properties say when. All other runs check for it.

Symmetry is declared where a set of model values is interchangeable and the run has no
liveness property: validators, rewards, and runs of the events job.

Every property of a passing run is violated by at least one faulty variant
(`PROJECT.json`, `mutants`).

### Fairness

Safety needs none. The liveness properties assume weak fairness of:

* the steps of the warmer's task: the runtime polls a task that can go on, and
  `spawn_cache_warmer` loops forever, past errors (`api/src/cache.rs:324-359`);
* the steps of an upload in progress and of a handler: likewise;
* the lock's queue (`Grant`): tokio hands the lock to the first waiting task;
* the answer of the database: a query succeeds or fails in the end;
* the answer of the scoring service, likewise, although the code sets no time limit for
  it: if it never comes, the read guard of the warmer stays, and `EveryTaskEnds` fails.

The runs `scores` and `validators_cache` leave the lock out. Their fairness of the
warmer takes for granted that it is not locked up by its own nested read (Finding 1),
or by that of a handler: `CatchesUp`, `EpochGetsCached` and `PagesGetComplete` say what
happens as long as it is not, and `EveryTaskEnds` of the run `lock` under which condition
that is so.

Requests, uploads, the ETL, the commands that store snapshots and failures are under no
fairness. `CatchesUp` (a part of `ServesPublished`), `EpochGetsCached` and
`PagesGetComplete` speak of the time when uploads, landings, new rows and failures are
over, which the bounds bring about; without an end of failures the cache need not get up
to date.

### Assumptions

* Snapshots are stored in the order they were collected, one command of a table at a
  time (`scripts/store-quick-changes.bash` runs them in sequence under `set -e`). With an
  older snapshot after a newer one, `RowsOrdered` and `LogTellsSnapshots` fail.
* `CachedAsOfItsEpoch` and `EpochGetsCached` are checked for an ETL that adds an epoch
  to the BigQuery table `epochs` after the other tables (`EpochsLast`). The ETL is not
  part of the repository, so this is a requirement on it: with `EpochsLast = FALSE`, TLC
  finds `CachedAsOfItsEpoch` violated.
* An epoch lasts for days: none passes without a stored row, and none begins and ends
  between two queries of `load_validators` (the guards of `NextSnapshot`). Tables are
  not empty when the API starts (`StoredBefore`).
* One refresh at most comes between the two locks of a page: rounds are ten minutes apart.
  The epochs a page asks for are two fewer than the cache holds, at least
  (`PageEpochs`); the defaults are 15 and 80.
* Authorities change only while the stake accounts are scanned: what changes at other
  times might as well have been so from the start.
* There are finitely many stake accounts, and the jobs begin in an epoch that has one
  before it (`MaxEpoch` is at least one).
* The ETL loads the block rewards of an epoch at once (the collector guards against a
  part only by a minimal count of rows).
* `FinalAmountsServed` is about runs of the events job that do not overlap, and says so
  by its condition `~overlapped`: the upsert does not compare `updated_at`, so that a
  slow run stores old amounts over newer ones. Without the condition TLC finds this.
* When settlements are generated and how long they change is decided by other systems;
  `collect/README.md` says that the window covers it. `ClaimWindow` stands for it.
* The RPC node's epoch and slot never go back.

## Findings

1. **Unstake hints may lock up the API** (`lock_hints`). Two read guards are taken in
   one statement (`api/src/handlers/unstake_hints.rs:35-36`, `global_unstake_hints.rs`,
   and the warmer itself, `cache.rs:170-171`). If the warmer, or an upload, asks for the
   write lock in between, the second read waits for the writer and the writer for the
   first read, for good; every later request waits behind them. `StuckOnlyByNestedRead`
   shows that there is no other way to lock up.
2. **A score breakdown may mix two runs** (`scores_breakdown`). The last run is loaded
   again after the scores (`cache.rs:283`), so that an upload in between makes the cache
   pair the old run's scores with the new run's epoch, components and weights.
3. **An interrupted store of block rewards is never completed**
   (`block_rewards_processed`). The check compares the largest epoch in the table only.

## The proofs

| module | theorems | proved for |
|---|---|---|
| `UptimesProofs` | `TypeCorrect`, `RowsStayOrdered`, `ObservationsStay`, `OutagesStayWhole`, `RerunIsIdempotent`; of `Downtimes`: `DowntimeIsFinal`, `IncidentsStayOutages`, `DowntimeAddsUp` | any validators, instants, epochs, positive `StatusTail` and `MaxDelay`, any window of incidents |
| `ChangeLogProofs` | `ChangeLogTypeCorrect`, `LogTellsTheTruth`, `NoRowIsSuperfluous`; of `ObservedCommissions`: `RuggersAreThoseShown` | any validators, values, epochs, limit, number of snapshots |
| `ValidatorsEventsProofs` | `EventsTypeCorrect`, `RecentRowsAreRight`, `WindowKeepsPromise` | any keys, any number of runs, any window and claim window |
| `ValidatorsCacheProofs` | `PerEpochTypeCorrect`, `CacheTypeCorrect`, `CacheMatches`, `CacheOfItsEpoch`, `ListedAreReported`, `PagesHaveAggregates`; of `ValidatorsList`: `RankIsStanding`, `CachedRanksAreStandings` | any validators, epochs, failures, cached epochs and page epochs; lists of any length |
| `ScoresProofs` | of `ScoresCache`: `ScoresTypeCorrect`, `NoScoreWithoutRun`, `SingleAmongMulti`, `StepsServePublished`; of `ContextLock`: `LockTypeCorrect`, `LockedUpByNestedRead`; of `EpochScores`: `LoadingTypeCorrect`, `AllAnswersLoaded`, `LoadingKeepsToLock` | any number of runs, chunks, failures, handlers, epochs and workers |
| `EpochCloseProofs` | `EpochCloseTypeCorrect`, `WindowsStayDisjoint`, `FinalColumnsAreKept`, `CompletedClosesAreFinal`, `OpenEpochsAreUntouched` | any validators, number of epochs and snapshots |
| `JitoAccountsProofs` | `JitoTypeCorrect`, `AccountsHaveOneRow`, `EveryAccountStored`, `CollectionsStaySpaced` | any validators, epochs, length of an epoch and execution interval |
| `CollectorProofs` | of `BlockRewards`: `StoredWhole`; of `Collector`: `CollectorTypeCorrect`, `SnapshotOfItsEpoch`, `SelfStakeCountedOnce`, `SuperminorityIsRight` | any rewards, accounts, pages, epochs, slots, attempts; any number of vote accounts with any stakes |

They use the named assumptions on the constants in the modules, and nothing else;
`CacheOfItsEpoch` is about an ETL with `EpochsLast`, as its property says. In each
module the properties are not inductive, or not for every action, and an invariant adds
what the argument needs; there is a lemma for each action that changes more than one
part of it.

Sums, counts and sorting loops are folds of the community modules, or recursive
functions. Their values are proved without induction over data: a fold is `iter[S]` for
some `iter` that satisfies its equation, so that it is enough to write down one function
that does, and to show that there is no least set at which the two differ
(`LeastOfNaturals`, from the well-foundedness of the numbers). So a sum of intervals is
the number of instants they cover, a sum of stakes the number of units of stake, a rank
the distance to the first equal value, and the loop that looks for the superminority
ends at the first place where the sum of the largest stakes exceeds a third.

### Uptimes

The first four theorems are invariants and `RerunIsIdempotent` is an action property.
`IInv` adds:

* `SnapshotsDistinct`: a timestamp names one snapshot;
* `CommandIsNewest`: the running command works on the newest snapshot begun;
* `RowsObserved`: each row starts at an observation of its status and epoch, none later
  than the newest command. Hence a cut never goes before the start of a row: a row that
  starts at the snapshot itself agrees with it and is extended;
* `DecisionIsCurrent`: until the `UPDATE`, what the command decided is still true of the
  table, as nobody else writes it;
* `ReadyToInsert`: after it, an extended row reaches past the snapshot and all others end
  at it or before, so that the `INSERT` appends in order, and splits no outage;
* `NewestKept`: an observation of the newest completed command is in the last row; older
  ones lie in rows, or parts of rows, that no later command changes.

There is one lemma for each action, one for the rows of a validator under each of the
two statements, and `LatestIsLast`: in ordered rows, `DISTINCT ON ... ORDER BY end_at
DESC` selects the last row and has no ties to break.

### Downtime and incidents

`DowntimeIsFinal` needs `EpochsInOrder` only: no step changes a row that has a row of a
later epoch behind it. The other two compare rows with observations, by
`TellsUnlessSkipped`: as long as every failed command was run again, `RowsTell` holds of
each validator, up to an `UPDATE` whose `INSERT` is still to come. It says that each row
stands for the observations from some `s` to some `z` that went on in one state without
a gap (`Unbroken`), that before `s` and after `z` they did not (`CutOff`), that the next
row begins at the observation after `z`, and where the row ends (`EndOfRun`). A new
observation, the `UPDATE` and the `INSERT` each have a lemma that moves this from the
old observations to those with the new one.

`IncidentsStayOutages` follows row by row. For `DowntimeAddsUp` both sides of the
equation are turned into sets of instants: the rows of an epoch are disjoint, and so are
the times for which observations hold, hence either sum is the number of instants
covered (`SumOfIntervals`), and by `RowsTell` the two cover the same
(`SameTimeCovered`).

### The change log

* `RowsObserved`: a row comes from a snapshot that has its value and epoch, and no row is
  newer than the newest command;
* `StoredBegun`: only snapshots that a command has begun on are stored;
* `DecisionIsCurrent`: until the `INSERT`, what the command decided is true of the log.

With these, `LogTellsSnapshots` and `RowsAreChanges` are preserved: an insert appends
after all other rows of the validator, and so changes the row in force of no older
snapshot. The key lemma is `RowAtNewestIsSkipped`: a command run again after its insert
finds its own row the latest and writes nothing.

`RuggersAreThoseShown` adds `RowsStored`, that each row is of a stored snapshot: then the
values logged for an epoch are those its stored snapshots showed, by `LogTellsSnapshots`
in one direction and `RowsStored` in the other. What is charged is compared with the
limit case by case.

### Events

* `RowsSettled` and `AnswersRight`: a row, or an answer that is being stored, which is
  stamped after the claims of its epoch has the settled amount. An amount can change
  only while claims last, hence not any more; this is all `RecentIsRight` needs, and it
  holds for overlapping runs;
* `StartedInPast`, `DueAreOver`: the stamps are of the past, and the claims of epochs
  that are due are over;
* `OneActive`: while runs have never overlapped, one at most is active; it started
  after the claims of every due epoch were over (`DueBeforeActive`), so that it stores
  nothing older over their final amounts;
* `StoredSoFar`: what a run has taken from its list is in the table;
* `DueRight`: for keys of due epochs the table agrees with the settlements. The page is
  computed from these keys alone.

### The validators cache

Of BigQuery's data (`IInv`):

* `OtherTablesFirst`: while epochs are added last, no table is behind `epochs`;
* `CopyIsCached`: the warmer's copy of the cache is the cache, which nobody else writes;
* `LoadedIsNew`: what a round has loaded so far is as new as the epoch it read first;
* `CacheIsNew`: the same of the cache.

Of the tables and the load (`CacheInv`), for `ListedAreReported` and
`PagesHaveAggregates`:

* `TablesInStep`: the two tables follow each other and skip no epoch;
* `Recent`: the last epoch that a round looked up first is that of the rows it got, or
  the one before, as one epoch at most begins between the two queries;
* `CoversCached`: what is loaded has all that is cached, but for rows of early epochs;
* `LoadInStep`: both hold of the load at each of its queries.

`PagesHaveAggregates` then compares a page with the validators of before a refresh and
the aggregates of after it: the epochs it shows are late enough to be still there.

`RankIsStanding` is about the loop of `update_validators_ranks` alone: the counter of
equal values is the distance to the first of them (`SameRanksCount`), so that the rank
counts those that have at least as much, however the sort left equal ones.

### Scores

* `RunsNumbered`, `UploadOfLastRun`: only the last run can be incomplete, and then it
  has its first chunks;
* `CachedWhenPublished`: each of the four things in the cache is what was published at
  some time, in the order of the queries;
* `LoadedInOrder`: so is what the warmer holds at each step. No query sees less than the
  one before it, and the first none less than what is cached.

`NoScoreWithoutRun` and `SingleAmongMulti` compare two of these times.
`StepsServePublished` is the safety part of the refinement: with the invariant, an
upload's end is `Publish`, the cache writes are refreshes and all else is a stutter.

### The lock

For each program there is a function from its positions to the guards that a task holds
there (`TellsGuards`); it exists for the short programs by inspection and for the others
by how they are put together (`OneAfterTheOther`), and at the end nothing is held
(`LetsGo`). `LockInv` says that the guards of a task are those of its position, that the
queue has no task twice, and that who waits is at a `read` or a `write`. If then nobody
can move, the first in the queue waits for a guard whose holder waits itself; a holder
of guards that waits is at a second read. `LoaderInv` says of the loading of scores that
what was answered has been received or is in the channel, and that after the end it has
all been received; as the loader takes only the steps of a query for the lock, it
implements the warmer of `ContextLock` (`LoadingKeepsToLock`).

### Closing epochs

`WindowsDisjoint` follows from `WindowsInv`:

* `SnapshotsInOrder`: a later snapshot is of the same or a later epoch;
* `InfoOfSnapshots`: cluster info has the epoch of its snapshot;
* `WindowsOfSnapshots`: a window ends at a snapshot of its epoch, and starts at one or
  where the window of the epoch before ends. So two windows are in the order of their
  epochs, and touch at most.

`CompletedCloseIsFinal` and `OpenEpochsUntouched` follow from `RowsInv`:

* `ClosingRecorded`, `CompletedRecorded`: epochs that are being closed, or were, have
  their record, so that they are not offered again;
* `ClosedSoFar`: what the statements so far have set is set of every row that was there
  when the epoch was recorded. A row that is inserted later is marked `late`, and the
  `UPDATE` of `store validators` writes none of the columns that close-epoch alone sets.

`FinalColumnsStay` is proved from the types alone, row by row.

### The Jito job

* `EpochsOver`: the job collects an epoch that is over, and so were those of all rows;
* `SnapshotIsPast`: what was fetched was so, and accounts only go from absent to created
  to uploaded;
* `SnapshotSoFar`: after the first request, an account that was there at the beginning is
  in the snapshot or has its root by now, so that the second request finds it;
* `StoredSoFar`: known accounts that are not left have the job's row; what is left to
  insert has no row of the epoch. Nobody else writes the table, and this is what keeps
  accounts at one row;
* `SpacedSoFar`, for `CollectionsSpaced`: the rows that the check found an interval old
  only get older until the collector asks for the slot. When an epoch ends in between,
  the collector takes the next one, of which there is no row.

### Block rewards and the collector

`JobInv`, for `StoredWhole`:

* `TakenAtOnce`: what was collected of an epoch is what BigQuery has of it, or nothing;
* `NoneOfPreviousYet`: from the check to the collector there is no row of the epoch
  before the running one or of a later one. The check makes it so and the epoch can only
  advance, so that the collector takes an epoch that has no rows yet, whichever it is;
* `TakenOrLeft`: while rewards are stored, what was taken is in the table or left.

The collector takes no step of the job (`CollectorLeavesJob`), so that this holds beside
it. `CollectorInv` adds:

* `EpochKept`: the collector's epoch is the running one or an earlier one, an earlier one
  for good if it was over at the beginning, and what it counted are slots of that epoch.
  The case of the node's answer about the running epoch needs that two epochs with the
  same first slot are one (`SlotsOfEpochs`);
* `Scan`: during the scan there is a list of withdrawers as they were asked for, a
  validator has nothing before the page of its withdrawer and its whole share after it
  (`Scanned`), and accounts that have been self stake all the time still have the
  withdrawer that was asked for, since an authority changes alone.

`SuperminorityIsRight` is about the functions alone. For the places of any set, what the
loop has then is written down (`LoopOver`) and shown to satisfy the fold's equation
(`LoopTurns`), and at the place where it breaks the sum exceeds a third for the first
time: `EndsAt` says that those before hold no third, have no less than the last and all
others no more. A group that is not larger holds no more than those before
(`LargestHoldMost`, by counting units of stake), hence no group with a third has fewer
members than the one of the loop (`FlaggedAreSmallestGroups`).

### Only model-checked

The liveness properties `EveryTaskEnds`, `EpochGetsCached`, `PagesGetComplete` and the
liveness part of `ServesPublished` (`CatchesUp`): the installed provers do not reason
about `ENABLED` and fairness. The three properties whose violation is a finding are
false. Every other property of the runs is proved.

## What is not modelled

* **Some contents of the validators cache** (`store/src/utils.rs`): averages, warnings,
  yields.
* **Filters, sorting and pagination of the handlers**, and how a page gets its first
  epoch: a default of 80 epochs is said to be the last 80, and `epoch >= last_epoch -
  80` selects 81 of them.
* **The remaining arithmetic of close-epoch**: uptime percentages, yields.
* **The parts of a snapshot that are copied**: stakes of Marinade and the foundation,
  bonds, rewards, node versions, validator info, data centers.
* **Scoring in R**: statistics over real numbers, beyond TLC.
* **Routing, documentation, metrics, configuration, whois and Marinade clients, the
  builders of SQL text**: input and output without behaviour of their own.

## The plan

In this order:

1. Proofs: what liveness rests on and is no liveness itself, such as that a round of the
   warmer can always go on.
2. Abstract specifications: a timeline of statuses that `Uptimes` implements, a map from
   snapshots to values that `ChangeLog` implements.
3. Operators, each against a definition of what it should return: epoch windows of the
   handlers and of the statistics (unsigned underflow, off by one), warnings, rules for
   hints, uptime percentages.
