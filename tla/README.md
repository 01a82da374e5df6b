# soulseek-charts: a TLA+ model of the collector, the storage and identification pipeline, the charts and the API cache

soulseek-charts joins the Soulseek distributed network, records the search
requests that pass through its node, and turns them into charts of artists and
tracks. This directory models the parts of it whose correctness depends on what
happens *between* steps: at an `await`, between two SQL commands, between two
threads, or when a process dies, and the queries that its results are read with.
Paths below are relative to the repository.

Check a run with `tlc -config Collector.cfg MCCollector.tla`, a module of proofs with
`tlapm CollectorProofs.tla`.

## The system

| Component | State | Operations | Talks to |
|---|---|---|---|
| Event buffer, `collector/buffer.py` | the deque `_pending`, `BufferStatistics`, the batch in flight | `add`, `flush_once`, `run` | called by the node; inserts into ClickHouse from a worker thread |
| Deduplicator and node, `collector/node.py` | set and queue of seen identities, `duplicate_count`, the aioslsk client | `is_new`, `_handle_message`, `start`, `stop` | network messages in, `buffer.add` out |
| Collector process, `collector/__main__.py`, `collector/watchdog.py` | the stop event, previous counter, silent ticks, exit code | `run_collector`, `report_statistics`, `SilenceWatchdog.record`, signal handlers | gathers buffer and reporter; the container supervisor restarts it |
| Reprocess command, `parsing/reprocess_command.py` | none of its own; `since`, the open partition, the batch | `--incremental`, `--rebuild`, `--since` | reads `search_query_events`, writes `parsed_search_queries` |
| Storage layers, `storage/migrations/*.sql` | raw rows, parsed rows, hourly aggregates | merges, TTL, two materialized views fired by every insert | all of the above |
| Response cache, `api/cache.py` | the dictionary `_entries` | `get_or_call`, `_evict_expired` | called by the endpoints in pool threads; calls ClickHouse |
| API endpoints, `api/application.py` | none | one per chart, artist detail, search | cache, `charts/repository.py` |
| Charts, `charts/*.py` | none | periods, ranked queries, movement | the aggregates |
| Parser and resolver, `parsing/*.py`, `identification/resolver.py` | none | query text to artist and track | the catalogue |
| Catalogue load, `identification/catalog_loader.py` | the table `musicbrainz_artists` | truncate, then batches | read by the resolver |
| Migrations, `storage/migrations.py` | the table `schema_migrations`, and every other table | `apply_migrations` | started by every deployment, by hand or by a container |
| Archive import, `storage/archive_import.py` | none | a second writer of the raw layer | raw layer |
| Sync, `scripts/sync_identification.sh` | two ClickHouse servers | pull raw by the hour, reprocess, ship and swap aggregates | every two hours from cron |
| Dashboard, `web/static` | the page | fetches | API |

The hard parts are these.

* **Concurrency on one event loop.** Every `await` of `run()` lets `add()`, the
  stop signal and the reporter in. The insert itself is in a worker thread.
* **Failure of an insert.** A batch goes back in front of a queue that may have
  filled up meanwhile; a failed insert may have been applied.
* **Shutdown and silence.** Three activities must end in an order, one of them
  decides the exit code, and a supervisor reacts to it.
* **Derived data.** The raw and parsed tables forget duplicates, the aggregates
  do not; the watermark of an incremental run is data of the table it fills.
* **Commands without transactions.** Migrations, the catalogue load and the
  synchronization are sequences of commands to a server, any of which can be the
  last: the next run starts from what is there.
* **Threads without locks.** The cache checks, iterates and deletes while other
  threads insert.

What makes each component correct: the buffer loses only the oldest events, and
counts them; the deduplicator suppresses a repeat within its window and nothing
else; the collector restarts after silence and only then, and stops when told;
the schema is that of a fresh database however it came about; the pull skips no
row, and what is swapped in is a whole table; a query is resolved as if the whole
catalogue had been there; the pipeline parses every row and counts it once; the
cache is fresh and bounded;
a chart counts people as people, has a total order, and tells movements against
the adjacent period.

## The modules

| Module | Models | Composed of |
|---|---|---|
| `FlushLoop` | the control flow of `SearchEventBuffer`, events abstracted to counts | – |
| `SearchEventBuffer` | the same with the events and the statistics | implements `FlushLoop` |
| `SearchEventBufferProofs` | theorems of the above: conservation, order, losses are counted, it implements `FlushLoop` | extends `SearchEventBuffer` |
| `Collector` | the process, its node, reporter, watchdog, signals, supervisor | instantiates `FlushLoop` as its buffer |
| `SearchDeduplicator` | `is_new` and `_handle_message` | – |
| `Reprocess` | the command, the three layers, the views, TTL and merges | – |
| `ResponseCache` | `get_or_call` by several threads | – |
| `Charts` | periods, the chart queries and movements over the aggregates | – |
| `Migrations` | `apply_migrations`, the statements of the seven files, releases | – |
| `SyncIdentification` | the synchronization script, cron, two storages | one insert stands for `Reprocess` |
| `CollectorProofs`, `SearchDeduplicatorProofs`, `ReprocessProofs`, `ResponseCacheProofs`, `ChartsProofs`, `MigrationsProofs`, `SyncIdentificationProofs` | theorems of the module in their name | each extends that module; `ReprocessProofs` extends `Identification` too |
| `Identification` | resolver, batch lookup, catalogue load, separators | – |
| `MC...` | constants for TLC | one per component |

**FlushLoop, SearchEventBuffer.** asyncio runs the code between two awaits
without interruption, so one action is everything `run()` does from one await to
the next. `flusher` names the await: `waiting` is `wait_for` on the interval,
`retrying` the retry delay, `flush_size`, `flush_interval` and `flush_drain` the
three calls of `flush_once()`. The operators `LoopTop`, `AfterWait`,
`WaitForInterval`, `Drain` and `FlushReturned` are the places of `run()` between
awaits; each takes the queue found on arrival there and says where control goes.
`InsertSucceeds` and `InsertFails` are the worker thread, a separate actor: the
event loop hears of its end later. A failed insert may have stored any part of
its batch. Events are numbered in the order of `add()`.

**Collector.** The buffer in it is the counts-only `FlushLoop`, so arrivals,
failures and restarts need no bound. `heard` stands for
`received != previous_received`, which is all that the watchdog reads. The
moment just after `TimeoutError` is part of `Tick`: the timeout may win against
a stop signal set in the same pass of the loop, so `Tick` does not require the
signal to be clear. `StopNode` waits for both coroutines as `gather` does.
`Hear` is possible until the client has stopped, in particular while
`node.stop()` is awaited and before the login ends, because the handler is
registered first. `Boot` is the next process with empty memory; the supervisor
starts it unless the operator stopped the container.

**SearchDeduplicator.** An identity is a model value; `accepted` is the history of
what went to `on_search`.

**Reprocess.** A row is the moment it was received. `raw` holds up to two copies
of a row: ReplacingMergeTree removes the second one some time. `parsed` keeps
one version per row, which is what a merge leaves and what the watermark query sees. `counted` is how often each view has counted each row: views add, whatever
the tables below forget. A row is parsed to nothing, an artist, or an artist and a track
(`Outcome`), and the two views take different ones (`Takes`): a row without a track is in
the chart of artists only. Every batch picks one of the `Parsings`, for the parser, the
catalogue and `--no-catalogue` can differ between two readings of a row. `Begin` is `main()` with its arguments, `Truncate` one
TRUNCATE of the rebuild, `ReadDates` and `OpenDay` the two queries, `FlushBatch`
one insert. `FlushFails` is an insert that leaves any of its three effects, and
`Die` is the end of the process anywhere. A partition streams in key order, which is
not the order of time: a batch is any subset of the right size. Three history variables
are for the properties: `last` is what a row was last parsed to since the parsed layer was
cleared, `listed` the moment at which the last run listed the partitions, `reads` the number
of runs that were told to read a row since a view was cleared.

**ResponseCache.** One action is one access to the shared dictionary. The GIL makes
each access atomic and nothing more: the list comprehension and `min()` are
iterations that other threads can interrupt, and they fail when the size of the
dictionary has changed. A value is the moment of its query.

**Charts.** The state is the bag of counted searches, which is all that the hourly
aggregates know, and today's date. The actions fill it: the collector under this
node's key, the archive import under the other. The queries are operators over
the bag, one per common table expression where the expression has a name of its own:
`Within` is the WHERE clause, `Names` and `About` the GROUP BY, `Position` the
`row_number()`, `PositionOrZero` the LEFT JOIN, `SeenBefore` the last expression.
`ResolvePeriod` works on day numbers and a set of first days of months, so that
`replace(day=1)` after 32 days is what it is in the code. The properties restate
what a reader takes a chart to say, from the bag and not from the queries.

**Migrations.** A schema is a set of pairs of an object and something true of it:
that it exists, that it has the column `key_epoch`, that its retention is short.
`Effect` is what a statement makes of it, `Accepted` when ClickHouse executes it.
Where the documentation leaves open whether a statement is refused (a view whose
target was dropped), both happen (`Doubtful`). `Start` is `apply_migrations` up to
its loop and fixes what the runner believes to be applied; `Execute`, `Refuse` and
`Record` are the turns of the loop, and skipping what is recorded is part of the
step that goes to the next migration. `Die` ends a run before its next command, or after
the server has executed the command and before the runner heard of it. A second
process can run at the same time, from the same release or an older one. `Count` is
the rest of the system, which fills the aggregates meanwhile.

**SyncIdentification.** A row is its moment and its artist, so that rows can share a
moment, as rows with the same millisecond do. An artist is a bucket of the transfer.
The aggregates say how often each row is counted, up to two. Each command of the
script is an action, and each has a way to fail that leaves some of its work behind.
Two history variables say when rows are out of reach of the strict watermark: `late`
holds rows that reached the jump when a row of their moment had been pulled, and
`torn` says that a failure within an hour, or within the reprocess command, has left a
row behind a watermark. The count and the hours are two commands: the hours are read from a
process substitution, whose failure bash does not notice, so the script goes on with the
first hours of the list (`ReadHoursFails`). Rows outside `Tracked` are parsed to an artist
alone, and the table of tracks has nothing of them. The initial state is that after `migrate_data_to_jump.sh`.

**Identification.** A query is the sequence of its tokens. The symbols `-` and `&`
are tokens, because separators and the key of a name treat them differently from a
word. Of dashes in a row every second one is a part of the text, because a separator
takes the space after it (`Separators`). `Matches` and `Max` are the loop of `resolve` from the longest prefix down. The
catalogue command and a batch of the reprocess command interleave at every query and
insert; the loader counts the useful keys for its batches, and an insert that fails may have
stored any part of one; `throughout` and `ever` are the keys that the table held all the time since
the batch was begun, and at some time. Its specification bears the name of the module
(`IdentificationSpec`), for the proofs extend it together with `Reprocess`: both are of
`reprocess_command.py`, one of the rows that it parses and one of what it makes of them.

## The runs

| Run | Shows | Bounds |
|---|---|---|
| `buffer` | conservation, order, counting of losses, settlement, termination, refinement of `FlushLoop` | queue of 3, batches of 2, 6 arrivals, 3 failures |
| `collector` | watchdog, exit code, leftovers, no silent collector | queue of 4, batches of 2, tolerance 3; nothing else bounded |
| `collector_drain` | *violation*: an orderly exit can leave events behind | as above |
| `deduplicator` | uniqueness in the window, nothing else suppressed | 4 identities, memory of 2, 7 messages |
| `reprocess` | no holes, exact rebuild, no row counted more often than runs read it | 3 moments in 2 days, batches of 2, 2 versions, 2 catalogues, 2 runs, 1 row stored twice |
| `reprocess_double_count` | *violation*: the overlap is counted twice | scheduled runs only |
| `response_cache` | freshness, the bound that holds | 2 threads, 4 keys, room for 2, 3 moments |
| `charts` | windows, pages, listeners, movements, agreement of the queries | 3 searches, 2 people, 2 keys, 4 songs, 3 days |
| `migrations` | order of the record, one schema, counts that stay, retries that get through | releases of 4 and 7 migrations, 2 runners, 1 failure |
| `sync` | no gap in the pull, whole tables swapped in, every row served in the end | 3 moments in 2 hours, 4 rows, 2 buckets, 1 failure |
| `identification` | batches resolved as against the table | all queries of up to 3 of 6 tokens and one of 4, 2 dumps, chunks of 1, loads of 2 |
| `identification_spellings` | *violation*: a name with `&` is not resolved | as above |

Why the bounds are enough. In `buffer` a batch is shorter than the queue and two
batches are longer, so a returned batch meets a queue with room for all, some or
none of it, and each of the three flush calls meets a failure. In `collector` the
state is finite as it is; a queue of two batches lets a drain take several inserts
and overflow. The deduplicator's seven messages let an identity be forgotten and
accepted twice. `reprocess` has rows on both sides of a partition boundary and of
the watermark overlap, rows that expire from one layer and not the other, a last
batch that is full and one that is not, and a second run after any death of the
first. Between its two catalogues a row goes from both charts to one, another from one to
both, and a third from none to both. Rows stored twice are the exceptions of `RebuildIsExact`
and `CountedOncePerRun`; one of them (`MaxTwice`) is enough to share a batch with a row that
is none. `response_cache` has more keys than its bound allows entries, and every entry can expire.
`charts` has the three days that matter to a window: two adjacent days that a week
separates and a month does not, and a day of the month before that a window of
equal length would miss; three searches are a tie, a pair that changes places, and
a person under both keys next to another. `WindowsTile` is checked for each day of
fourteen months, a leap February and a turn of the year among them.

`migrations` has all seven files; the release of four ends just before the migration
that drops and recreates the aggregates, so a database can be old when it meets that
one. `sync` has hours of two moments, so an hour can be pulled while it is still
being filled, two rows can share a moment, and one failure may hit each command of
either run. The queries of `identification` are longer than the prefixes of its names,
a query in two chunks meets the table before and after a load, and a pair of
queries shares a batch.

Deadlock is checked where the system never stops (`buffer`, `collector`,
`response_cache`, `migrations`, `sync`, `identification`). The runs of `deduplicator`, `reprocess` and `charts` end when the
bound of messages, moments, commands or searches is reached.

### What the violations say

* `collector_drain`: what arrives between the end of the drain and the end of
  `node.stop()` is never written. `LeftoversArrivedLate` bounds the loss to that.
* `reprocess_double_count`: `reprocess_command.py:96-98` argues from the merge of
  the parsed table, but the views have fired by then, as 224-226 of the same file
  explains. Every scheduled run counts the rows of the two-second overlap again.
* `identification_spellings`: `resolver.py:113` keeps the tokens that have a letter
  or a digit, so a lone `&` is gone before the prefixes are keyed; the catalogue has
  `and` in its place. The query `muse & va` is taken for a track of the artist `muse`
  although the catalogue has `muse & va`. Without queries that contain `&` the
  property holds in the same instance.

What is said of "every view that takes it" is said of both views only for a row with a
track; a row with an artist alone is in the chart of artists and not in that of tracks.

Related, and not a run:

* `__main__.py:123-124` says that a signalled shutdown exits zero. A tick of the reporter that
  ends a whole tolerance of silence can find the stop signal set already, and then asks for a
  restart: the operator's stop exits with one. `ExitZeroMeansSignalled` is the converse;
  what bounds the race is `RestartNeedsSilence`.
* The drain of `buffer.py:144` chases the arrivals, because the node is stopped only
  afterwards (`__main__.py:114-120`): with an insert slower than the arrivals a
  signalled collector never ends by itself. `StopEndsRun` of `buffer` holds because
  the arrivals are bounded there.
* `--rebuild` truncates three years of aggregates and the raw layer refills fourteen
  days. An incremental run after a change of `PARSER_VERSION` reparses everything on
  top of the old counts. `--incremental --rebuild` reads its watermark before it
  truncates, so it refills only the end. A run that dies leaves rows below the next
  watermark unparsed until a rebuild.
* The maximum of the cache is exceeded by one entry for every other thread between
  its check (`cache.py:39`) and its insert. `SizeBound` states what does hold.
* Charts are ordered by searches, and the number of listeners is only shown: one
  person can move an artist up. The comments of `periods.py` speak of adjacent windows
  "of the same length": months are adjacent and not of the same length, and the
  mutant of `MovementIsAgainstTheLastChart` shows that they must not be.
* Of two overlapping runs of the migrations only `RecordedInOrder` survives: the
  later one can repeat migration 0005 and drop the counts that have come since, or be
  refused because the tables are there.
* A row that reaches the jump with the millisecond of the newest pulled row, and the
  rows of an hour that an insert left torn, are never pulled. `PullLeavesNoGap` and
  `CatchesUp` say that nothing else is lost. Between the two swaps the charts of
  artists and of tracks are those of different runs.
* A query "the love boat" can be resolved to the artist "the love", whose key is
  "love": the guard of `resolver.py:130` counts the tokens of the prefix, not of its
  key. A row carries the artist as it was spelled, so "the beatles" and "beatles" are
  two entries of a chart.

## Fairness

`SearchEventBuffer` and `Collector` assume weak fairness of what the runtime
provides: ready coroutines run, timers fire, an insert ends in success or in the
driver's timeout, `client.stop()` returns or raises, and the supervisor restarts
what its policy says. Nothing is assumed to make a search arrive, a signal come, a
login end or an insert succeed. `EveryEventSettles` and `StopEndsRun` use the bound
on failures (an outage ends) and on arrivals (`StopEndsRun` only): without the
latter the drain need not end.
`NoSilentCollector` needs no bound: inserts may fail and searches may come for ever.

`Migrations` assumes that a run that was begun goes on until it ends, and that
somebody starts a run again: `scripts/deploy_jump.sh` and `scripts/migrate.sh` do.
`SyncIdentification` assumes the cron job and that the script goes on until it ends. In
both a failure is a step without fairness and their number is bounded; statements
that the server refuses are not failures in this sense and recur without a bound.
`RetriesGetThrough` is about runs that do not overlap, `CatchesUp` about histories
without a torn hour. The other modules have safety properties only.

## The proofs

`SearchEventBufferProofs` proves, for every batch size, queue bound and number of
arrivals and failures, that `Spec` implies `[]TypeOK`, `[]Conservation`,
`[]PendingIsNewest`, `[]LossIsCounted` and the specification of `FlushLoop`. The only assumption is `BufferAssumption`: the two sizes are
positive and the bounds are natural numbers.

`PendingIsNewest` is not inductive: a failed batch is put back in front of the
queue, so one must know that the batch is a run of events without a gap that ends
where the queue begins, unless the queue has been full since (`BatchPlaced`). And
conservation needs that a batch exists exactly while its insert is awaited
(`BatchInFlight`): otherwise a step that suspends would forget events. The
inductive invariant is

    IInv == TypeOK /\ BatchInFlight /\ Conservation /\ PendingIsNewest /\ BatchPlaced

The argument has three layers. Lemmas on the operators say what `_take_batch`,
`_return_batch` and `add` do to a sequence. `Moved(q)` says that any place of
`run()` leaves the queue it found in one of two ways, and `RunMoves` shows it once
for the whole control flow. `RunPreserves`, `AddPreserves`, `InsertPreserves` and
`SetStopPreserves` then need no case analysis of `run()`.

`LossIsCounted` comes on top of it. A failed insert may have stored a part
of its batch, so what is lost is less than what is dropped and never more. It needs
one fact besides `IInv`: a batch whose insert has succeeded is stored before `run()`
hears of it (`SuccessIsStored`). Every step then loses at most the events of a set
that it adds to the counter (`CountedLoss`).

The refinement maps queue and batch to their lengths. The lemmas follow the control flow: each
operator of `run()` on a queue implies the one of the same name on its length. This is
what lets `Collector` use the counts in place of the events.

`CollectorProofs` proves the three invariants and `RestartNeedsSilence` of `Collector`.
None of the properties is inductive. The exit code needs that the stop signal has one of
two causes, that the reporter ends only after the signal, and that the node stops only
after both coroutines (`StopHasACause`). The leftovers need the same statement for every
moment after the drain (`DrainLeavesTheLate`). The watchdog needs that its count is
below the history of silent intervals while nothing was heard (`SilenceIsCounted`).
`FlushMoves` says once, for the whole control flow of the buffer, that `run()` ends
with an empty queue or with a failed insert.

`SearchDeduplicatorProofs` proves `TypeOK`, `UniqueInWindow` and `SuppressesOnlyRepeats`
from `MemoryIsTheWindow`: the queue is the last identities accepted, and the set is the
queue. That the set stays so when the oldest leaves it follows from `UniqueInWindow`,
so the two are proved together.

`ResponseCacheProofs` proves `TypeOK`, `Freshness` and `SizeBound` for any number of
threads, interleaved at every access. `SizeBound` alone is not inductive: a thread that
has found room will insert later. `RoomIsReserved` counts such a thread as an entry
already. `Freshness` needs that an entry expires no later than the time to live
after its value was fetched (`ValuesAreRecent`).

`ReprocessProofs` proves `TypeOK`, `NoHoles`, `RebuildIsExact` and `CountedOncePerRun`. `NoHoles`
and `RebuildIsExact` speak of the time between two runs, so the invariant says what a run has done so
far. For `NoHoles` it divides the rows at or after `since` into three: those read, parsed and
counted (`Covered`), those that the run will still read (`ToCome`), and those that it
will not read because they arrived after it had read their day or the list of days
(`Beyond`). The last are what makes the property delicate: each of them is newer than
everything parsed and everything to come, so that no watermark will pass it. Rows
before `since` are covered already (`CoveredBeforeSince`): they are not newer than the
newest parsed row, from which the run took its watermark. For `RebuildIsExact`,
`ExactSoFar` says that a view has counted a row once exactly when it is behind the stream
and was parsed to something the view takes, for every row that was not stored twice;
`ReadSoFar` that what the raw layer held when the partitions were listed is read or still to
be read; `ClearedSoFar` that the tables are emptied in their order. `CountedOncePerRun` holds
in the middle of a run too: a row that a run has still before it is counted less often
than it was to be read (`OneRunToGo`), and nothing before `since` is in the stream
(`StreamFromSince`). The conjunction was checked on the run `reprocess` before it was proved:

    IInv == /\ TypeOK /\ NothingOfTheFuture /\ LocalsInUse
            /\ HolesInv /\ ExactInv /\ CountedInv

`ChartsProofs` proves all seven properties of `Charts`, for every set of people and of
songs and every calendar whose months have 28 to 31 days (`CalendarAssumption`) and
which is not empty. The invariant is the types and that
finitely many searches are counted; the work is in the queries. `Tiled` says of a
window that it holds the day it is asked for, that each of its days has it, and that
the window before ends where it begins: `MonthsTile`, `WeeksTile` and `DaysTile` show it
for `ResolvePeriod`. `NamesAreOrdered` shows that a chart ranks its names in a strict
total order, ties by name included, and `PositionsNumberTheNames` that `row_number()`
numbers them from one on without a gap. From this `PagesOfAnySize` follows for every
page size and not only for those that the property names. `GrainsAgree` compares sums,
and a sum is a fold of the library over a set: that it does not depend on the order
in which elements are chosen (`AnyOrder`, `SumOfUnion`) is shown by a smallest
counterexample, for the induction theorems cannot be used here.

`MigrationsProofs` proves `TypeOK`, `RecordedInOrder`, `SameSchemaAsFresh` and
`CountsOutliveMigrations` for any number of runners and releases. `RecordedInOrder`
holds of runs that overlap too: a runner records the migration that it is at, so the
invariant says that everything before it is recorded (`RunnersFollowTheRecord`), and
nothing in it depends on what the statements do. The other two are about the seven files as they
are. Their invariant says that, until two runs have overlapped, only one
runs (`OneAtATime`), and the schema lies between those before and after the file at hand (`Between`); the runner
that executes the file has made true what its statements up to `done` make true
(`AppliedSoFar`, `Progress`). Between the two bounds a second attempt can begin
anywhere, which is why a run that died in a file does no harm. `SchemaOfRecord` adds
that a full record means the full schema. `SameSchemaAsFresh` compares with `Fresh`, a
recursive function; that it is the union of the files is again shown by a smallest
counterexample. `CountsOutliveMigrations` follows because a migration that drops the
aggregates is not recorded while it is applied.

Of `Identification` the same module proves `IdentificationTypeOK` and
`RowsMatchTheTable`. `CandidatesSuffice` is the case of a table that stands still, for
all queries and tables: looking up only the candidates of a batch changes no resolution,
because a prefix can match only with a key that is among them (`OnlyCandidatesMatch`).
While the table is loaded it takes an invariant, for no lookup sees the table whole:

    IdentificationInv == /\ IdentificationTypeOK /\ RowsMatchTheTable
                         /\ CatalogueBetween /\ NoneForgotten /\ RemainingAreNames

A candidate that the table has held all the while is found or still to be looked up
(`NoneForgotten`), and whatever is found was held at some time. So what is known when
the batch is flushed lies between the two histories, for the keys that matter to it;
the matches grow with the keys (`MatchesGrow`) and the row takes the longest
(`LongestMatch`), so it lies between the two answers. That the loader inserts no key
that is not of its dump needs that what remains to insert are the last names of one
(`RemainingAreNames`, kept by `FewerNames`). This invariant, too, was checked on its run first.

`SyncIdentificationProofs` proves `TypeOK`, `PullLeavesNoGap` and `LiveIsTheLocalTable`,
from two invariants that share no variable but `step`. The pull needs that the hours still to
pull have no gap (`HoursInOrder`): an hour that a run passed over, and in which a row
arrives later, is not before any of them, because rows arrive in the order of their
moments. And the gap must be excluded at the newest moment too (`NothingSkipped`). The
transfer needs that the open table holds the buckets sent and nothing else
(`StagingFollows`), which is where emptying the table of an earlier run matters.

The assumptions are those that the modules state of their constants: sizes are
positive, bounds are natural numbers, months have their lengths and the calendar has a
day, a parsing gives every row an outcome, a query is a sequence of tokens that does not
begin or end with a dash, as normalization leaves it. The theorems hold for every value of the bounds of TLC, which are constants too.

Only model-checked: every liveness property, for liveness under fairness is outside
this prover's reach (`EveryEventSettles`, `StopEndsRun`, `NoSilentCollector`,
`RetriesGetThrough`, `CatchesUp`). Every invariant and every action property of the passing
runs is proved. Of the tokens of a query the prover knows no more than that they are a
sequence, for it cannot expand `SelectSeq`, so nothing is proved of `Key` and `Tokens`
but what every function of a text has; the proofs above need no more.

## Not modelled

Left out for good: the regular expressions that normalize a raw text, album markers,
response models and request validation, the substring search for artists, reading the
environment, the keyed hash, splitting a migration file at its semicolons, rendering
in the browser, deployment scripts. The configuration value `COLLECTOR_BATCH_SIZE=0`,
which would make every flush empty, is excluded by assumption.

The archive import is a second writer of the raw layer with old timestamps. In
`Charts` it fills the aggregates under the archive's key. In `Reprocess` it multiplies
the states past what a run can visit, so the fact that its rows wait for a full run is
not checked: they are older than the watermark of every incremental one.
