# dataframe_mojo in TLA+

TLA+ models of `dataframe_mojo`, a columnar DataFrame library in Mojo: the worker
runtime that everything parallel in the library rests on
(`dataframe/parallel.mojo`), the pipelines whose workers share morsels and state,
what threads publish for each other, the calibration of the GPU back end from its
measurements to a query's costs, and the programs under `scripts/` that build and
check the repository and generate its Unicode tables.

Paths below are relative to the repository; line numbers are those of
`dataframe/parallel.mojo` unless another file is named.

## The system

### Components

| Component | Where | State it keeps | Operations | Modelled |
|---|---|---|---|---|
| Helper budget | 103-148 | one process-wide atomic counter | `_reserve_helpers`, `_release_helpers` | `HelperBudget` |
| Worker pool | 203-378, 502-694 | the round published to the workers, two barriers, mutex and condition variable | `Pool` start, `run` (static or claimed), `release`; `_worker` | `WorkerPool` |
| Produced rounds | 308-330, 381-499 | a job list that grows while workers run it | `_begin`, `submit`, `_close`, `finish`, destructor | `WorkerPool` |
| Crew, at work | 697-1013, 1158-1183 | 64 postings with a packed state word, a condition variable | `post`, `_take`, `retire`, `_help`, `_crew_worker`, `_run_on_crew` | `Crew` |
| Crew, its life | 812-835, 959-975, 1016-1155 | the current and the parked crew, two process-wide words | `Crew.start`, `release`, `shutdown`, `_Crew.spawn`, `_crew_spawner`, `_stop_crew` | `CrewLifecycle` |
| `run_jobs` without a crew | 1200-1284 | threads started for one call | `_run_jobs`, `_claim_worker`, `_helper_entry` | `SpawnedJobs` |
| Worker sizing | 1287-1319 | none | `worker_count`, `partitions` | no: tuning |
| Morsel pipelines | `pipeline.mojo`, `vector/column_data_collection.mojo` | morsel cursor, per-worker batches, matched build rows | claim, join, sink, unmatched rounds, merge | `MorselPipeline` |
| Aggregation | `aggregation/hash_table.mojo`, `aggregation/table_sink.mojo` | per-worker tables, shared radix bits | sink, fill, repartition, finish | `AggregateTable` |
| Top-N over morsels | `sorting/top_n.mojo`, `sorting/top_n_sink.mojo`, part of `pipeline.mojo`, `table_filter.mojo` | per-worker heap and payload, shared boundary, dynamic filter | `sink_chunk`, `publish`, `refresh`, `_reduce`, combine | `TopN` |
| Device residence | `storage/residence.mojo` | a state word, a host address, references | `host_address`, `_copy`, the destructor | `DeviceResidence` |
| Column statistics | `storage/buffer.mojo`, `kernels/segment_statistics.mojo`, `storage/column.mojo` | a record per values buffer | measure, publish, look up, append in place | `ColumnStatistics` |
| Pattern cache | `text/regex_cache.mojo` | an LRU list under a mutex | look up, compile, enter, evict | `PatternCache` |
| Calibration fit | `scripts/metal_calibration.py` | one run of the program | read records, fit, check | `CalibrationFit` |
| Calibration files | `scripts/metal_calibration.py`, `placement.mojo`, `dataframe_metal/calibration.mojo` | files by content, two process-wide caches | `publish`, `load_costs`, `measured_costs` | `CalibrationFiles` |
| Packaging | `scripts/build_package.py`, `build_identity.py`, `metal_build_identity.py` | a stage, an output directory | hash, copy, compile, replace, describe | `PackageBuild` |
| Repository checks | `scripts/check_*.py` | one run of the program | passes over tests; visits of imports | `TestReachability`, `ImportBoundaries` |
| Unicode tables | `scripts/normalization_tables.py`, `regex_property_tables.py`, `regex_unicode_tables.py` and their lookups | tables packed in text | generate, look up | `NormalizationTables`, `PropertyTables`, `CaseFolding` |
| Joins | `joins/` | hash table built in parallel, scan filters | build, probe | their result only, in `MorselPipeline` |
| Full sorts | `sorting/` | runs and merge bounds of one call | run rounds of a pool | not yet |
| CSV reading | `io/csv_*.mojo` | byte ranges, decoded rows | produced rounds | not yet |
| Planning and optimizer | `lazy_api.mojo`, `planning/`, `optimizer/`, `join_order.mojo` | a plan tree | rewrites | not yet |
| Test corpora, docs, version, timing | other programs under `scripts/` | none | random inputs, text, a stopwatch | no: they decide nothing |
| Columns, kernels, text, time, geo | `vector/`, `storage/`, `kernels/`, `text/`, `time/`, `geo/` | immutable columns | element-wise computation | no: no shared state |
| File formats | `io/`, `json/` | byte buffers | parse, format | no: byte-level I/O |
| Metal back end | `dataframe_metal/` | GPU buffers | kernels | no: generated and driver code |

### How they interact

A lazy query (`LazyFrame.collect`) or an eager operation calls `run_jobs` with a
list of jobs. The call tries, in this order: the crew of the running operation
(a posting that crew threads join), a crew borrowed for this one call, and
threads of its own. Operations with several rounds make a `Pool`; while a crew
runs, its rounds become crew calls. All four ways draw helpers from one budget,
so that the process runs about `DATAFRAME_THREADS` jobs at once. Any job may make
calls of its own, on whatever thread runs it. The components communicate through
shared memory only: atomics, one mutex and condition variable per pool and per
crew, and two process-wide words that name the current and the parked crew.

Pipelines sit on top: their jobs claim morsels from an atomic cursor and keep
local state that is combined when all jobs are back. Some workers also talk while
they run: top-N workers through the boundary and the scan's dynamic filter,
aggregating workers through the number of radix bits, joining workers through the
flags of matched build rows. Columns are shared by counted references between
frames and threads; what is computed about one (statistics, a host copy of device
memory, a compiled pattern) is published to all who hold it.

Two back ends may run a part of a query. Which one does follows from a calibration
file that `scripts/metal_calibration.py` fits from measurements and that both the
core and the Metal back end read, each through a cache of its own. The file names
the build it was measured with, by hashes that `scripts/build_package.py` writes
into the packages. The checks under `scripts/` keep the layers of the library
apart and every test program reachable; the generators write the tables behind
Unicode normalization and the regex engine.

### What is hard, and what makes it correct

* Threads that wake late, spin, park or are woken for nothing: no round starts
  without them knowing and none is torn down under them (`ListAlive`,
  `RoundEnds`, `ReleaseEnds`, `NoLostWakeup`).
* Each job runs exactly once whichever way it is shared out (`NoJobTwice`,
  `ImplementsContract`).
* A budget without a lock that is exact at every moment (`Inv` of `HelperBudget`
  and of `Crew`, `MCInv`, `GrantRespectsLimit`, `ImplementsBudget`,
  `SlotsCoverThreads`).
* Calls that nest and help each other while they wait, without deadlock and
  without leaving anybody in a dead posting (`NoWaitCycle`, `CallsEnd`,
  `JoinedAreAlive`).
* Crews taken over between operations that overlap (`OwnedByOne`, `Inv` of
  `CrewLifecycle`, `JoinedBeforeFreed`, `StopEnds`).
* Threads that cannot be created (`Init` of `WorkerPool`, `CreateFails`).
* Stale copies that may only err on the safe side (`NothingLost`,
  `ResultIsTopN`).
* Morsels taken in any order by any worker, and a result that does not show it
  (`ResultInSourceOrder`, `GroupsExact`).
* Values found by the first thread that needs them and read by all, at addresses
  that are handed out again (`OneWholeCopy`, `ReadsEnd`, `RecordsAreTrue`,
  `HoldsTheLatest`).
* Files that are replaced, torn by a crash or read between two changes
  (`Inv` of `CalibrationFiles`, `PublishedIsWhole`, `PackagesAreWhole`,
  `DescribesThePackages`).
* Algorithms with a boundary that a few examples miss: the fit of an affine model
  that must not win where it lost (`NoLosingScaleWins`, `ReaderTakesProfile`),
  searches to a fixed point and visits of a graph (`FoundExactly`,
  `BoundariesHold`), tables packed into pages, digits and hash slots
  (`TablesAnswer`), names of several kinds searched in one index
  (`NamesAnswer`).

## The modules

| Module | What it is |
|---|---|
| `JobRounds` | abstract: what every way of running jobs promises its caller |
| `ThreadBudget` | abstract: a reservation in one step, which gets what its limit leaves |
| `WorkerPool` | `Pool`, `_ProducedJobs`, `_worker`; implements `JobRounds` |
| `WorkerPoolProofs` | theorems of `WorkerPool`: its places and barriers, its jobs and slots, the refinement |
| `HelperBudget`, `MCHelperBudget` | the compare-and-swap loop; implements `ThreadBudget` |
| `HelperBudgetProofs` | theorems of `HelperBudget` |
| `Crew` | postings, helping, nested calls |
| `CrewProofs` | theorems of `Crew` |
| `CrewLifecycle`, `MCCrewLifecycle` | how crews come and go |
| `CrewLifecycleProofs` | theorems of `CrewLifecycle` |
| `MCCrew` | what threads do at once with crews: `Crew`, and two operations of `CrewLifecycle` |
| `SpawnedJobs` | `run_jobs` on threads of its own; implements `JobRounds` |
| `SpawnedJobsProofs` | theorems of `SpawnedJobs` |
| `MCRunJobs` | `run_jobs` to its end: `SpawnedJobs`, and two callers of `Crew` |
| `MorselPipeline`, `AggregateTable`, `TopN`, `MCPipelines` | three sinks of a pipeline |
| `TopNProofs` | theorems of `TopN` |
| `DeviceResidence`, `ColumnStatistics`, `PatternCache`, `MCShared` | what threads publish for each other |
| `SharedProofs` | theorems of those three |
| `CalibrationFiles` | profiles from a publisher to a query |
| `PackageBuild` | builds into one output directory |
| `MCCalibration` | the two programs that publish files |
| `CalibrationFit` | captures to a profile |
| `TestReachability`, `ImportBoundaries`, `RepositoryChecks` | the repository's checks |
| `ScriptProofs` | theorems of `CalibrationFiles`, `PackageBuild` and `RepositoryChecks` |
| `NormalizationTables`, `PropertyTables`, `CaseFolding` | the Unicode tables and their lookups |
| `MCScripts` | the programs under `scripts/` that check, fit and generate |

`WorkerPool` is checked with constants from its `.cfg`; the others have an `MC`
module that names their sets of values. Modules that share no state with each
other are checked in one run where a run has room for them: its initial states
choose one (`part`, `tool`, `building`, `crewed`), and the others stay as they
began. A property of such a run is one of a single module, under the choice of it.

Operators whose comment starts with "A slip" or "Two slips" are not part of the
specifications: they are faulty versions of an action that each property is
known to catch.

### Granularity

A step is what other threads can observe as one: an atomic load, store, or
read-modify-write, or a critical section. A compare-and-swap loop that loses a
race reads again and is modelled where the value read is kept across steps
(`HelperBudget`, `CrewLifecycle`) and left out where only the winning exchange
has an effect (`Crew`). Mojo's atomics are sequentially consistent by default and
the models assume that. Plain fields are read and written in the step of the
atomic that publishes them.

### WorkerPool

`pc` says where each thread is: a worker goes through `spin`, `lock`, `parked`,
`check`, `enter`, a part (`share`, `claim`, `produce`, `starved`, `run`),
`giveback`, `arrive` and back; the caller through `idle`, `wake` or `submit`, its
own part, `drain`, `barrier`, and finally `join`, `freed`. The variables from
`threads` to `participants` are the fields of `_Shared`. The job list is the
number of its round, 0 when the caller has cleared it, so that reading a dead
list is visible. `size` and `finished` are the caller's view: jobs handed over,
and jobs that have run. The number of helpers granted is any number up to the one
asked for, as other operations hold any part of the budget. `Init` is the state
after `_start`, in which any number of the threads may have started.

### HelperBudget

Each call goes from `idle` over `limit`, `load` and `swap` to `running`. `held` is
a set of slots, so that a slot given back twice differs from one given back once.
The limit is chosen anew by every reservation, as `configured_workers` reads the
environment each time.

`ThreadBudget` says what a reservation promises, as if it were one step: the lesser
of what it asks for and what its limit leaves of the slots taken at that moment, a
refusal only if that is nothing, and a release of the call's own slots only. In the
refinement a call asks from when it has read its limit until it knows that nothing
is free (`Asking`): `ReadLimit` is `Ask`, a successful exchange is `Grant`, `Release` is
`GiveBack`, and a refusal is the load of the counter, first or repeated, that found
nothing free. That is what an abstract step adds to `GrantRespectsLimit`: a call
that gives up, or takes less than was free, is caught as well.

### Crew

Each thread has a stack of frames, innermost first: a crew thread's own loop, a
call it made (role `own`), a posting it joined as a `helper` with a slot, or as a
`guest` without one (`_help`). A job may post: a frame is pushed on the one that
runs it. A posting's state word is the triple `wanted`, `running`, `closed`. The
scan of the postings before parking is one step per posting, under the mutex.
`outside` counts slots that other operations and pools hold.

### CrewLifecycle

`current` and `parked` hold addresses, and a freed address may be allocated
again. `mine` is the crew an operation is responsible for; `seen` an address it
has loaded. Threads of a crew are `none`, `creating` or `create` (the first,
while it looks whether to create another and while it does), `look`, `lock`, `parked` or `exited`. An operation is about to make
calls, makes one, or ends. Steps that would read freed state have no successor:
what happens then is undefined, and `CallsFindTheCrew` says that it is about to.
A stop may begin between the first thread's check of `stopping` and the creation
that follows; the stop reads how many threads to join (`joins`) once none is
being created.

### SpawnedJobs

One call at a time, as calls share only the budget. Which of the two regimes is
used (a job per thread, or claiming) follows from how many slots were granted;
any `pthread_create` may fail.

### MorselPipeline

A row is the sequence of its places in the source and in each build side, 0 where
a join gives nothing, so that the result tells which rows met. A query is a source
in morsels and a chain of joins; a join is its kind, the pairs that match, and the
earlier place it matches on. `Take` claims a morsel from the cursor, sends it
through the chain (`Through`) and flags matched build rows in `found`; `Sink` keeps
what came out as the worker's next batch under the morsel's number. When all
workers of a round are done, `NextRound` begins the next right or full join's
unmatched build rows as a source of its own, numbered after all before it. `Merge`
takes the batch of the least number among the workers' next ones. The reference is
the joins one after another over whole frames (`Frames`), which knows neither workers
nor morsels.

### AggregateTable

A worker's table is its rows per partition, the entries that find a group's row,
and how many rows it has made. A chunk is sunk in the steps of `_full`: room is
checked, a full table grows or forgets its entries, may raise the shared number of
bits, and moves its rows to the partitions of the bits it then loads; others may
raise them between any two of these. `Combine` repartitions all, cuts the
partitions into jobs in any way (the code cuts by row counts), and each job copies
a single worker's rows or merges the workers' by first row. Whether tables probe, grow or are small
is a choice, as the code decides it by measured ratios. `RowsInOrder` is why the
finish may merge without sorting.

### TopN

Rows are numbers in input order with a key each; `maintain` adds the place as a
last key (it also stands for any further sort key, for which the scan's filter
keeps ties in the same way). The source is a constant: morsels of vectors of rows.
A worker claims a morsel; it skips a vector that the dynamic filter rules out, or
offers its rows to the heap one by one (`SinkRow`, `SinkLast`), the first of them
after it has renewed its copy of the boundary, or failed to get the lock for that.
When rows entered, it publishes, sets the filter if its row became the boundary,
and cuts its payload when it is large. These are separate steps. The heap's order is
left out: `Top` is a worst entry. A row gets its place in the payload when it enters
the heap, in the code at the end of its vector; only its worker could tell.

### DeviceResidence, ColumnStatistics, PatternCache

`DeviceResidence`: the state word and the address are loaded and stored in steps of
their own; the back end's copy fills a block between two steps and may fail. A
reader that lost the claim goes around the loop.

`ColumnStatistics`: an address holds the number of the content written there last,
and is free when no column and no record refers to it, as with counted references.
A record notes what it measured; a column reads it if its own bitmap is at the
address the record names. Appending writes in place only for a sole owner. That a
record pins the bitmap it names is what keeps the address from being handed out
again.

`PatternCache`: the list under the mutex, and compilation outside of it. `recent`
is history: the patterns in the order they were last used.

### CalibrationFiles

A profile's path is the hash of its content, here the profile itself. A publisher
creates its file and writes it in two steps and may be killed between; a second
publisher of the same profile finds the file. A query reads the path from the
environment, reads the file, asks the Metal cache under its lock, then asks the
core for CPU costs (`load_costs`, in the steps in which it fills its cache).

### CalibrationFit

`fit` reads records one by one, then fits key by key. Times are integers and models
exact rationals, so the properties are about the method, not the rounding.
`NoLosingScaleWins` is the script's own promise ("no consistently slower measured
scale may be fitted as a GPU win"); `ReaderTakesProfile` is that what it writes
passes the checks of `measured_costs`: the CPU model of a region is that of the
operator it names.

### PackageBuild

A build goes through hashing, copying, compiling, replacing and describing; sources
may be edited at any step, compilation may fail, and it may be killed anywhere,
leaving the file it was writing partial. `DescribesThePackages` compares the
description with the packages beside it at all times but in the one window that the
code leaves open: from a build's first replaced package until it has described them
(`settled` is false then). A build killed in that window leaves new packages beside an
old or a torn description until another build ends. The second window is between the
hash of a tree and its copy: an edit there gives a package the identity of other
sources than its own. `quiet` is whether that happened to the build, and the property
takes the identities for those of the sources compiled only if it did not; edits
before the first hash and after the last copy are no exception. `settled`, `quiet` and
the copy of `quiet` in the description are history.

### TestReachability, ImportBoundaries

`RepositoryChecks` runs the one or the other. Texts are the programs they name,
modules are their layers. Both programs iterate
in an order of names that the models leave open. `FoundExactly` compares the fixed
point with reachability through chains of naming programs; `BoundariesHold` compares
reported cycles with the transitive closure of the imports, and the layers' rules
with chains of imports through the modules of a part. A module may import itself,
which the visit reports as a cycle.

### NormalizationTables, PropertyTables, CaseFolding

Each steps a generator to the tables it writes and then states, for every input of
the lookups, that they return what the tables were made from. Packing is kept where
it can go wrong (pages that are shared, digits below a base, slots of the
composition table and the length of their longest run, offsets into one text, rings
of case orbits); the text format is not.

The index of the properties is an exception: `property_class` scans it letter by
letter, line after line, so words are sequences of letters there, and `Lookup` compares
them as the code does and reads the two offsets digit by digit. `NamesFindTheirSets`
takes each name, spelled with capitals, separators or an "is" before it, to what it
means: the first of the five kinds of words the name stands for, in the order the
script states (`Stands`). A name that is a part of a word or of a line finds nothing.

## What the runs check

| Run | Instance | States | Shows |
|---|---|---|---|
| `worker_pool` | 2 threads started at most, 3 jobs, 2 rounds | 74 thousand | safety, refinement of `JobRounds`, every round and the release end |
| `helper_budget` | 3 calls, limits of 2 and 3 | 110 thousand | the counter, the limit, refinement of `ThreadBudget` |
| `crew` | 1 caller, 2 crew threads, 3 postings, 3 calls, depth 3, 2 slots; and 2 operations, up to 1 helper, 3 starts, 3 addresses | 346 thousand | postings, slots, no wait cycle, no lost wakeup; one owner per crew when starts, releases and shutdowns interleave |
| `crew_lifecycle` | 1 operation at a time, up to 2 helpers, 3 starts | 65 thousand | ownership, sizes, joins, every stop ends |
| `run_jobs` | 4 jobs, 2 calls; and 2 callers, 1 crew thread, 2 calls, 1 slot | 34 thousand | each job once, slots returned, every call ends with and without a crew |
| `pipelines` | 3 workers on 3 morsels, two joins of every kind; a group-by of 4 keys; 2 workers on 5 rows, best 2 | 1.09 million | source order, exact groups, nothing lost from a top-N |
| `shared_caches` | 3 readers and 4 reads; 2 threads, 4 addresses, 5 contents; 2 callers, 4 patterns, 5 calls, 2 entries | 245 thousand | one whole copy, statistics of the right content, the patterns used last, every read ends |
| `calibration` | 2 profiles, 2 publishers, 2 threads, 3 calls, 2 changes; and 2 builds, 1 edit | 409 thousand | no decision mixes two profiles; a publication that returns has left the whole file; packages are whole and described |
| `scripts` | 3 files per check, 3 scales per capture, 16, 8 and 4 code points, 19 spelled names | 975 thousand | the checks find all and only what is there, a fit never wins where it lost, tables answer for every input, names find their sets |
| `crew_use` | 2 operations, up to 1 helper, 2 starts | - | a violation: see below |
| `crew_spins` | 1 operation, up to 1 helper, 1 start | - | a violation: see below |
| `cost_mix` | as `calibration` | - | a violation: see below |

### Bounds

All bounds are constants. They are chosen so that the cases of interest happen.
Two rounds of a pool suffice for a worker to be late for a round by one, which is
what the barrier rules out; three jobs on two workers and the caller give a
static share its second stride and leave a claim to lose. A pool with one of two
threads started is part of the same run. Three calls on three threads allow a
nested call, a call nested in that, a helper that is a crew thread and a guest
that is a waiting caller. With three addresses two operations can own a crew each
while a third is parked. `Postings` is the number of calls, so that a posting is
always free; what a call does when none is, is `SpawnedJobs`. `LeastCut` of `TopN`
is small so that a payload of four rows is cut and grows again; the code's
constant is 10240. Five rows are enough for two heaps of two, evictions from both
and a vector left to skip.

In a group-by, two of the four keys share a partition of one bit and not of two, so
that raising the bits moves rows apart, and tables hold four rows so that they fill
in the middle of a chunk. Two joins are the least in which a round of unmatched
rows goes through a further join, and with a second right or full join there are
two such rounds. Three workers leave one that comes late to every round. A pattern
cache of two entries evicts at the third pattern, of which one does not compile.
Five contents at four addresses let a freed bitmap's place be handed out again.
Three scales of three samples are the least `fit` takes, and their values give
outliers, ties and GPU times on both sides of the CPU's; the captures that it must
reject have one fault of each kind it looks for. The composition table of eight
slots with runs of at most two doubles when a run is longer, with runs around its end
(`MaxSize` bounds it: pairs that all hash alike would make the code's table grow for
ever). Three modules give imports every cycle shape up to three, self-imports
included. The run gives each check three or four of the layers that its rules tell
apart (`SomeLayers`); the theorem is about all of them. The words of the properties
are short, one of them is in two kinds and one begins another, and the names asked for
add parts of lines, an empty name and a doubled prefix.

### Fairness

`WorkerPool`, `Crew`, `CrewLifecycle` and `SpawnedJobs` assume weak fairness of each
thread's steps: the operating system keeps running every thread that can run, the
jobs themselves end, and a producer's input ends. `Crew` adds strong fairness of a
caller's `Signal`, as a thread that waits for a mutex gets it although others
take it again and again. Nothing is assumed of when a caller begins a round, a
call, an operation or a release, of spurious wakeups, or of the slots other
operations hold. That the crew's threads help at all is not assumed for
`CallsEnd`: a caller can do its jobs alone. Where a run chooses between modules
(`run_jobs`, `shared_caches`), fairness is asked of the steps of the module that was
chosen only (`CallerMoves`, `ThreadMoves`, `CrewMoves`, `CrewSignals`, `ReadStep`): the
other stays as it began, and being fair to it would leave no behaviour at all. `DeviceResidence` assumes weak fairness
of each reader inside `host_address`, and that the back end's copy returns; a reader
that spins needs nothing from the others but that.

Deadlock is checked for the worker runtime, where a state in which nothing can move
is a bug. It is not checked in `pipelines`, `shared_caches`, `calibration` and
`scripts`: their programs and bounded numbers of calls end.

### Where code and documentation disagree

* `crew_use`. A call of one operation may run on the crew of another
  (`_run_on_crew` takes whatever `_current_crew` holds). When that operation ends
  while the call runs and its crew is not parked, the crew's state is freed under
  the call. Within one operation it cannot happen (`CallsFindTheCrew` in
  `crew_lifecycle`).
* `crew_spins`. A comment (766-767) says that the crew is joined when the operation
  ends and no thread spins past it; the crew is parked instead, and its threads
  look for work a while longer. The comment above it (750-751) is up to date.
* `cost_mix`. The core's cache of CPU costs holds "the calibration last read, by path"
  (`placement.mojo`, 58). `load_costs` empties and refills it before it notes the
  new path (100-103). When the new file is missing or one of its GPU costs is
  refused, the cache is left with the old path and none or some of the new costs,
  and answers with them when the old path is configured again.

Others were met while modelling and are stated here only:

* The documentation of `run_jobs` (1189-1191) bounds the threads that run jobs by
  `configured_workers()` "across nested and concurrent calls"; that of `_help`
  (936-939) by the budget plus the callers. The code has the second bound: a thread
  that calls from outside any job runs jobs without a slot. `Inv` of `Crew` states
  it.
* `check_kernel_boundaries.py` keeps kernels "below expression/query execution", but
  judges each kernel's own imports: a kernel may import the aggregation layer, and
  that `dataframe.execution`. `OutOfReach` of `ImportBoundaries` is about chains
  through a part's own modules.
* The boundary checks name a package by its `__init__` file, so imports of the
  package itself are no edge of their graph, and cycles through one are not seen.
* `regex_unicode_tables.py` (85) says that nothing outside the candidates may fold
  onto one of them; the assertion covers only the candidates that have an orbit of
  two or more.
* `docs/apple-metal.md` (207) says that the fitter takes an upper Metal envelope; the
  code fits typical models with one margin, and the upper branch of `_envelope`
  is not reached.
* A profile cut short by a crash makes every later publication of it fail as a
  "filename collision" (`metal_calibration.py`, 226), and so does a publisher
  that is still writing. `PublishedIsWhole` holds all the same: a call that returns
  has the whole file. A profile the back end read while it was torn stays refused
  under its path (`dataframe_metal/calibration.mojo`, 197-200).
* A build for the CPU leaves an older `dataframe_metal.mojoc` in the output, and
  `providers/cpu` is in neither build identity. `DescribesThePackages` is about the
  packages that the description names.
* A record of statistics pins its column's bitmap, so a column that has one is never
  the only owner of its buffers: the branch that appends in place never meets
  statistics to forget.

## What is proved

The theorems hold for every value of the constants that the named assumptions
allow: any finite or infinite set of calls, any limits, any number of threads,
jobs and rounds. An invariant that is the reason of a property is a conjunct of
`Inv` in the component's module, so that the runs check it as well, or of a
formula of the proof module, where it was checked in the same way before it was
proved.

**HelperBudgetProofs**, from `BudgetAssumption`. The invariant `Inv` adds to the
properties that `held` is finite and that a call which has no grant holds no slot
(`NoStraySlots`). Without the latter, the slots that a grant adds could be ones the
call still holds, and the counter would move further than the set. From it follow
`CounterExact` (`Exact`), `HelpersWithinLimit` (`WithinLimit`), both parts of `Inv`,
`GrantsRespectLimit` (the action property `GrantRespectsLimit`, because the
exchange succeeds only if the counter is still what the call decided on) and
`LoopImplementsBudget` (the refinement of `ThreadBudget`). For the last, the exactness of
the counter is what makes the number the exchange compares the number of slots taken,
so that the grant is all of the free ones that were asked for; the slots are the
call's own because it held none (`NoStraySlots`), and a call that asks wants something
(`Wants`), so that asking differs from not asking.

**WorkerPoolProofs**, from `PoolAssumption`. `TypeCorrect` comes first, with the
lemma that a job that runs is one of a list (`JobsExist`). `NoLateReader` is
`ListAlive`, which is not inductive: that a thread in a part sees the current
list depends on where the caller can be, which depends on `arrived`, which counts
workers in places. `PlacesHold` says so: each worker is out of the round,
has yet to see its generation, is in it, or is on its way out of the pool
(`WorkerPlace`), and `arrived` is the number of those that are out while a round
is open (`ArrivedCounts`). The key lemma is `AllOut`: when `arrived` reaches
`threads`, every worker is out, by cardinalities of finite sets; so the caller
that passes the barrier leaves nobody behind. `RoundsAreClosed` states that as a
theorem of its own.

Its second part adds the jobs and the slots (`Invariance`). A round shares its jobs out in
one of four ways, and each needs its own account of which jobs are left: the
strides of the participants, the claims below a shared counter, the produced jobs
below `next`, or the caller alone. The invariant says which jobs each thread has run
or may still take, that two threads' jobs differ, and that a round that is over has
none left. From it follow `JobsRunOnce` (`NoJobTwice`) and `KeepsContract`
(`ImplementsContract`): every step of the pool is a step of `JobRounds` or leaves it
alone, and the step that ends a round does so with all its jobs run.
`SlotsAreEnough` (`SlotsCoverThreads`) says that the slots a pool has taken are given
back only after the threads they stand for are joined.

**SpawnedJobsProofs**, from the assumption on the number of jobs and calls. The
jobs of a call are split between those that have run, those a thread or the caller
is running or will run, and those whose thread could not be created; the slots
likewise. `KeepsContract` is the refinement of `JobRounds` for both regimes,
whichever creations fail.

**CrewProofs**, from `CrewAssumption` (finitely many threads, none of which is 0,
the mark of an absent one). The invariant is about the frames of the threads'
stacks. Counted from the outermost one, a frame keeps its place when calls are made
and end above it, which is what makes the conjuncts local: where a frame may be
(`Shape`), whose call it is of (`OwnCall`, `JoinedCall`), one owner per posting
(`OneOwner`). The posting's word, a call's counters and the budget count sets of
frames (`WordsExact`, `JobsExact`, `SlotsHeld`); each action moves, pushes or pops one
frame, and a lemma per kind of change says what that does to the cardinalities.
`JoinedStayAlive` (`JoinedAreAlive`): a retired posting has a word of 0, so nobody is
in it. `WaitsEnd` (`NoWaitCycle`): along a chain of waiting threads the calls get
younger (`YoungerAbove`), so every set of threads has one that waits for none of it,
by the least element of a well-founded order. `CrewStaysAwake` (`NoLostWakeup`): a crew
thread that looks at the postings before it sleeps has not come past one that wants
a helper (`Watched`), because a call broadcasts under the same mutex. `Inv` contains
`SlotsExact` and `BudgetPlusCallers`, so that both are proved. The bound `MaxJobs`
on a posting's helpers is that of the jobs a call is made with.

**CrewLifecycleProofs**, from `LifecycleAssumption`. What is true of a crew's owner
holds for any operations whatever (`OwnershipHolds`): `Placed` says in which steps of
`start`, `release` and `shutdown` an operation has a crew, and `Owned` that a crew
that is allocated is parked or has one owner. What is true of the crew's threads
(`JoinedBeforeFreed`) and of calls (`CallsFindTheCrew`) depends on whose crew a call
posts to, and the run `crew_use` shows that it is false when a call takes another
operation's. `OwnCallsAreSafe` states the exact condition: `OwnCalls`, every call
under way is on its own operation's crew. As long as that holds, for any number of
operations at once, the threads of a crew are those it counts, and what a stop joins
is all of them (`Counted`). With a single operation, that of the run
`crew_lifecycle`, `OwnCalls` is an invariant, and `Invariance`, `NoThreadLeftBehind` and
`CrewOutlivesCalls` need no condition.

The run `crew` has in its other part two operations that start and end crews at
once; `CrewsOwnedOnce` (`OwnedByOne`, in CrewProofs) is `OwnershipHolds` for them.
In the same way `JobsAndPostingsHold` (`MCInv`, in SpawnedJobsProofs) has both ways a
call of `run_jobs` runs its jobs: on threads of its own, for any number of jobs and
calls, and on the run's crew, by the invariant that CrewProofs has for any. Both
assume that the run's model values differ from 0 and the threads from the callers
(`AddressesAssumption`, `PairAssumption`).

**TopNProofs**, from `WorkersAssumption`, `KeysAssumption` (keys are ordered as
integers are), `SizesAssumption` and `MorselsAssumption` (a source gives each row
once, and no vector without rows). Call a row beaten when the heaps hold `HeapSize`
rows that are at least as good (`Beaten`). Four facts carry the proof. A beaten row
stays beaten: `Add` lets go of a row only for one that is better, so the rows that beat
it do not get fewer. The worst row of a full heap is beaten by that heap alone.
So the boundary is beaten when it is published, and every copy of it, however old, and
a row with the filter's key (`BoundsAreBeaten`); and what a bound rules out is no
better than it, hence beaten too. `Beaten` counts rows, so no row may be in two heaps or
twice in one (`RowsHeldOnce`): a worker offers only rows that nobody has looked at,
because its morsel is its own (`MorselsHold`). From `Inv` follow `NothingIsLost`
(`NothingLost`), with the places of the payload through evictions and cuts, and
`BestAreReturned` (`ResultIsTopN`): in the end every row has been looked at, so a row
that is in no heap is beaten, and the best of the rows kept are the best of all.

**SharedProofs**, from `SharedAssumption` (the missing address is none of the
addresses, threads and addresses are finitely many, the cache has room for one
pattern). Its `Invariance` has an invariant for each of the three modules.

* Statistics (`TrueOfTheColumn`, the property `RecordsAreTrue`). The property is about
  columns; the invariant is about records, whoever reads them (`RecordTrue`): a record
  belongs to a buffer that a column has, and describes it and the bitmap it pins. Each
  step must leave both alone. A pinned bitmap has a count above 0, so `Keep` does not
  free it and no allocation hands out its address; a buffer that a record or a second
  column refers to has a count above 1, so `AppendRows` does not own it and copies (the
  lemma on counts is by cardinalities). A bare bitmap is pinned too but not named, and
  a column that has it reads no bits from the record.
* Residence (`CopiedOnce`, the property `OneWholeCopy`). The invariant says where the
  one thread is that has claimed the copy and what there is of the copy at each of its
  places, and that whoever is inside or has an address has a reference. The property
  alone is not inductive: that an address handed out is that of a whole block follows
  from the state "copied" never changing again and the block outliving all references
  but the last.
* Patterns (`LatestAreHeld`, the property `HoldsTheLatest`). The cache is the end of the
  history of uses, entry by entry and in its order. The history holds a pattern once,
  so an entry that is found moves to the end of both; and a caller that enters what it
  compiled holds a program of the pattern it asked for, wherever others were meanwhile.

**ScriptProofs** is about four programs, for any inputs.

* Profiles, from `ProfilesAssumption` (`Invariance`, `PublishedWhole`). `NoMixedModels`
  is not inductive: a call that returns a region's costs got the GPU's from the text
  it has read and the CPU's from the core's cache, which another call may have filled.
  `EntryOfText` says that what it goes on with is its own text; the comparison at its
  end does the rest, wherever the core's costs came from. `LockHeld` is what keeps one
  call at a time in the file. `PublishedWhole` is the action property
  `PublishedIsWhole`: a publisher returns after its own write or after it has compared
  the file.
* Packages, from `BoundsAssumption` (`PackagesWhole`, `DescribesThePackages` by
  `PackagesDescribed`). The invariant says what has been hashed, staged and put out at
  each step of a build. What makes a kill harmless is that a package comes into the
  output by a rename of a whole copy (`PutOut`), so none there is ever partial; what
  makes the description true is that it is written last, of the stage that all the
  packages listed came from (`DescribedNow`), that nothing else touches it or the
  packages until the next replacement, and that a build killed while it writes one has
  replaced packages before. That the identities are those of the sources rests on the
  hashes being those of the trees from the hash to the copy, or an edit being noted
  (`Hashed`, `Staged`).
* Tests (`UsedAreFound`, the property `FoundExactly`). What is found is in every set
  that holds the roots and what its members name (`OnlyUsed`), and a pass that has
  found nothing so far has left nothing behind it that it could find (`NothingMissed`);
  a pass that ends like that has therefore found a set closed in that way, the least.
* Imports, from `LayersAssumption` (`BoundariesAreHeld`, the property `BoundariesHold`),
  for any imports between any modules, of themselves too.
  Until a cycle is reported, the modules visited are closed under their imports and
  use no module that is not visited, and all an active module has done with is visited
  or is the next active one (`NoCycleYet`). A module that is left has all its imports
  visited, so it is on no cycle: it uses visited modules only, and is not one itself.
  In the other direction what is reported is a way through imports that comes back
  to where it was (`CyclesReal`), and a module on it uses itself, by the least place on
  the way that a closed set would have to miss. The layers need no visit: the rules
  that judge single imports (`RulesSuffice`, a case for each script) make a set of
  layers that no import leaves, and what a module uses is in every closed set.

**Only model-checked**:

* Liveness (`RoundEnds`, `ReleaseEnds`, `CallsEnd`, `StopEnds`, `ReadsEnd`), which the
  prover does not handle under fairness.
* `ResultInSourceOrder` and `GroupsExact`: their references are recursive over a
  query's joins or a sequence of morsels, and proving about them is induction over
  data.
* `NoLosingScaleWins`, `ReaderTakesProfile`, `TablesAnswer` and `NamesAnswer`: medians
  of sorted samples, envelopes of models, divisions into pages and digits, scans of an
  index, and folds over ranges are induction over their inputs as well.

## What is not modelled

* Weak memory: see Granularity.
* Time: how long a thread spins before it parks. It may park at any moment.
* What a job does, apart from ending and posting further jobs. A job that raises
  is one that has run, as `_Slot.run` keeps the error.
* In `Crew`, a call that finds all postings taken, and crews that are stopped
  while calls run (`CrewLifecycle` has that part).
* In `TopN`, null keys, the prefix of the sort key that saves encoding a row
  (it lets through every row the heap would), and joins between scan and top-N.
* In `MorselPipeline`, filters and projections, the other sinks, morsels that raise.
* In `AggregateTable`, distinct counts, dictionary and constant keys, merged group
  rows with the sort they need, and what each reduction computes.
* In `ColumnStatistics`, the windows that columns may declare on a buffer.
* In `CalibrationFiles`, identities and row ranges that do not match, which only make
  the back end return nothing; in `CalibrationFit`, floating-point rounding.
* In `ImportBoundaries`, rules about the text of a single file (raw payloads,
  strategy flags, facades that define something), and three layers of the kernel
  check (`fused_compare`, `table_scan`, `table_filter`).
* The parsing of the Unicode database and of JSON, and the random test corpora
  (`json_decode_corpus.py`, `json_strings_corpus.py`, `regex_corpus.py`): they write
  examples with the answers of another implementation and take no decision of
  their own.
* The components marked so in the table above, for the reasons given there.

## Plan

1. Done: the budget, the pool and its proofs, the crew and its life cycle,
   `run_jobs` on its own threads; the three sinks of a pipeline; the shared caches;
   calibration; the programs under `scripts/`. Theorems of the worker runtime, of
   top-N, of the shared caches, and of the programs that publish files or check the
   repository.
2. Theorems still worth a try: the source order of `MorselPipeline` and the groups of
   `AggregateTable`, with references that are sets instead of folds.
3. The parallel build of a join's hash table, the ranges of a parallel CSV read, and
   filters pushed through a small algebra of plans.
