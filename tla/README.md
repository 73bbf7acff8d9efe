# TLA+ models of the Elf index

`src/` holds the Elf, a multi-dimensional main-memory index, with two parallel
variants of its partial-match query, a thread pool, the competing index
structures it is measured against (KD tree, column scans, imprints, sorted
projections, BitWeaving) and a driver (`main.cpp`) that runs TPC-H queries on
all of them and compares the answers. This directory holds models of the parts
listed below, TLC configurations that check them on small instances, and
theorems that TLAPS checks for all instances.

## Inventory

| Component | State it keeps | Operations | Interaction and what is hard |
|---|---|---|---|
| Thread pool (`ThreadPool.h`, `SafeQueue.h`) | queue of tasks with its own mutex; `m_shutdown`; `m_conditional_mutex` and its condition variable; the threads | worker loop, `submit`, `shutdown` | the queue is tested under one lock and filled under another; `wait` has no predicate; `m_shutdown` is read without a lock |
| Node-level partial match (`Elf_final64_nodelevel_enqueue.h`) | the Elf; one pool for the life of the index; the global `results_get` (futures) under `values_mutex`; the answer vector of the query | `partialMatch` | every task may submit tasks to the pool it runs in; the caller waits for a list of futures that grows while it waits; the answer vector has no lock |
| Sub-tree partial match (`Elf_final64_subtree.h`) | the Elf; a new pool for each query; the global `result_subtree` | `partialMatch`, `setNumThreads` | one task per pointer of the first dimension; the answer vector has no lock; the pools are never shut down |
| Sequential Elf (`Elf_final64.h`) | one array of words; `MAX_FIRST_DIM` | `buildIndex`, `exactMatch`, `windowQuery`, `partialMatch` | recursive layout with pointers patched later, bits as marks, an array whose size is a guess |
| Sorting engine (`SortingEngine/`) | none | `sort` on one dimension | stable insertion sort below 100 rows, radix sort in place above |
| Store, sequential scan (`Store.h`, `seqscan.h`) | the rows | `getPoint`, three queries | the reference for every index |
| KD tree (`MyKDTreeSmall.h`) | array of nodes, `nextNodeOffset` | `insert`, three queries | the TID of a node is its position |
| Column scans (`colseqscan.h`, `simdseqscan.h`, parts of `Util.h`) | columns, a bitmap | two or three queries | ends of vectors, wrap-around of the bounds |
| Imprints (`Imprint*.{h,cpp}`) | bins, masks, compressed dictionary | build, queries | run-length counters, bit masks, the cache line at the end |
| Sorted projections (`sortedProjections.h`) | sorted copies of column groups | build, queries | binary search, choice of the projection |
| BitWeaving library (`bitweaving-lib/`) | tables, columns, blocks of packed codes, bit vectors, files | `AddColumn`, `RemoveColumn`, `Resize`, `Bulkload`, `Scan`, iterators, `Save`, `Open`, ... | re-used column ids, block boundaries, comparisons of a whole word at once, files written one after the other |
| BitWeaving index (`bitweaving.cpp`) | a table of the library with a column for each dimension | `buildIndex`, three queries | literals that do not fit the codes |
| Driver (`main.cpp`, `tpc_h.h`) | the queries, the indexes and the answers | makes the queries from `rand()`, runs them, compares the answers | arrays of columns that queries share; a comparison that has to notice what a race has lost |

What makes each of them correct: the pool executes each submitted task once, in
order, and comes to an end when it is shut down; a parallel query returns what
the sequential one returns and leaves nobody behind who writes to the answer;
every index answers what a scan of the table answers and stays inside the
memory it allocated; a table of BitWeaving keeps its columns apart through
additions, removals, resizing and a restart.

## Modules

```
TaskPool <--- implements --- ThreadPool <--- ThreadPoolProofs <-----------+
                               ^      ^               ^                   |
                EXTENDS        |      |               |                   |
      NodeLevelMatch ----------+      +--- SubtreeMatch                   |
        ^         ^                         ^       ^                     |
MCNodeLevelMatch  NodeLevelProofs  MCSubtreeMatch  SubtreeProofs ---------+
                 (NodeLevelProofs extends ThreadPoolProofs, too)

        ElfIndex <--- ElfProofs
          |  ^
          |  MCElfIndex
          v
Store <--- SeqScan <--- implements --- KDTree <--- KDTreeProofs
  ^                                      ^
  |                                   MCKDTree
Bitmaps <--- ColumnScans <--- Imprints <-----------+
                  ^                                |
SortingEngine <--- SortedProjections <------- Workload <--- MCWorkload
                                               |   ^
                              TpchQueries <----+   WorkloadProofs

                          NaiveBlock <--+
BitWords <--- BitVector <--- BwVBlock <-+- BwColumn <--- BwTable
                          BwHBlock  <---+                   ^
     MCBitWeaving ---> BitWeaving ---> BitWeavingIndex ---> BwIterator
                         ^                 ^
        BitWeavingProofs +                 +--- BwLibraryProofs
                         +--- extends ---------------^
```

**TaskPool** is what a pool promises: tasks start in the order of their
submission, once, one per worker, and are done only after they ran.

**ThreadPool** is `ThreadPool.h`. Each call of `SafeQueue` is one step, because
it is one critical section of the queue's mutex. The worker loop is split where
another thread can get in between: the test of `m_shutdown` (`TestShutdown`,
line 34), the lock and `empty()` (`LockAndCheck`, 36-37), the beginning of
`wait` (`Wait`, 38), its end (`Relock`), `dequeue` (`Dequeue`, 40), and the end
of `func()` (`Finish`, 44). `submit` is `Enqueue` (103) and `NotifyOne` (109);
`shutdown` is `SetShutdown` (77), `NotifyAll` (78) and `Join` (81-85).
`SpuriousWakeup` is what a condition variable is allowed to do. `pc` and `owner`
hold where a worker is and who holds `m_conditional_mutex`. The variables
`submitted` and `ready` record which tasks were enqueued and which futures are
ready. A running task may submit tasks, because those of the node-level index
do.

**NodeLevelMatch** composes the pool with
`Elf_final64_nodelevel_enqueue::partialMatch`. The Elf does not change during a
query, so that it is reduced to a graph: lists with their entries, how the value
of an entry compares with the bounds (`Verdict`), and which mono lists pass.
A thread walks a list (`Enter`), submits each entry under `values_mutex`
(`LockValues`, `SubmitEntry`, `Notify`, `PushFuture`), and then goes into the
entry it has set aside in `buffer` (`EndOfList`); at a mono list it tests the row
(`TestRow`) and pushes the TID (`PushTID`). Main does the same with the
collected pointers and then waits for the futures (`Drain`, `Return`). The
loop over the queries of `main.cpp` is `NextQuery`. A column that is not
selected is a list whose entries are all inside the bounds.

**SubtreeMatch** composes the pool with `Elf_final64_subtree::partialMatch`:
one task for each pointer (`SubmitRoot`), each of which walks its sub-tree
alone and pushes the TIDs it finds. What the recursion of one call of
`partialMatch1` finds is the recursive function `Walk`. The history variable
`overlap` records that a `push_back` began while another one went on;
`OnlyOverlapLoses` needs it to say that nothing else loses a TID.

In both, `push_back` on the answer is two steps, the end of the vector is read
(`TestRow`, `ReadEnd`) and later the TID is stored and the end advanced
(`PushTID`, `StoreTID`), because nothing orders the `push_back`s of two
threads. The new end comes from the old value or from the present one. What a
reallocation at the same time would do is left out: it can only be worse.

**ElfIndex** is the sequential `Elf_final64`, as a machine that takes small
steps. `ELF` is the array, as a function whose domain is the set of the words
written so far. A call of the recursive build is a step: `buildFromDataSorting`,
then `createDimListSorting` for a group of several rows, `linearize_elf_mono` for
one row, or `linearize_equal` for the rows that agree in every dimension. What
the recursion has still to do is in `todo`: the slot of a pointer that has not
been written, the rows it stands for, and their dimension; `IsNext` is the order
of the recursion, depth first and along a list. The sort and the loop that cuts
a list into runs of equal values are `Group`; ranks of values give the positions
of the entries. A turn of a loop of a query is a step as well: `NextPointer` on
the pointers of dimension 0, `NextEntry` on a list, `listContains` in
`exactMatch`; `calls` has the entry at which each call of the recursion stands.
`lists` and `monos` are history: which rows a list or a mono list was written
for. `TIDsRead` is the word that line 264 reads out of bounds: any TID that the
memory may happen to hold.

**Store** has the table, the queries and the tests of `Util.h` on a row;
`Scan` and `ScanAnswer` are the loops of `seqscan.h`. **SeqScan** makes of them
the abstract specification of an index: a query is asked, it is answered with
the TIDs that a scan accepts, and the caller deletes the answer.

**KDTree** is `MyKDTreeSmall`. `TREE` is the array, as a function from the
offsets of its nodes, of three words each, to records. `buildIndex` is
`CreateRoot`, then for each row some turns of the loop of `insert` (`Descend`)
and the end of `insert` (`Attach`), then `Built`. A turn of the loop of
`exactMatch` is `Probe`; a call of the recursive `windowQuery` or `partialMatch`
is `Visit`, with the calls that have not begun on `stack`; a window query is a
partial match with all columns, which makes its tests the same. The side on
which a row goes is computed in three places, and so it is in the model
(`Child`, `OnLeft`, `SearchLeft` and `SearchRight`). There are two history
variables: `path`, the nodes a row has been compared with, and the field `dim`,
the dimension of a node, which the code passes along and does not store. The
driver includes the KD tree but does not run it; the queries are those it puts
to the other indexes.

### The other indexes and the driver

**Bitmaps** has the functions of `Util.h` that mark rows in a bitmap, a cache
line or four bytes at a time. A bitmap is the set of the positions of its ones.
The registers of the SIMD functions hold signed numbers of `VALUE_BITS` bits, and
their bounds `lower - 1` and `upper + 1` wrap (`lowerSIMD`, `upperSIMD`).
**ColumnScans** is `Colseqscan` and `SIMDSeqScan` on copies of the columns, with
memory past their ends that nobody wrote.

**Imprints** has the bins (`Bins`, an equidistant sample of the sorted column),
the imprint of a cache line as the set of its bins (`LineMasks`), and the
masks. `EndLine` is a step of `imprints_create`, which keeps one imprint for a
run of equal ones and counts in a dictionary of `cnt` and `repeat`;
`range_select_column` and `ImprintVisits` walk through the dictionary with the
two counters of the code. `WithoutCompression` is the loop of the three classes
that keep all imprints; `FilterPairs` is that of `ImprintSIMD64`.

**SortingEngine** is `sort`: `introsort` (a stable insertion sort) and the
in-place `radixSort`, whose cycles of swaps (`Cycle`) and whose two moving ends
(`Advance`) are modelled as they are. **SortedProjections** builds its copies
with it, and searches them with `lower_bound` and `upper_bound`.

**TpchQueries** has the bounds of each update of `tpc_h.h` as a function from the
selected dimensions, from what `rand()` returns.

**Workload** composes these in the driver. `Prepare` takes one statement of
`main` after the other: `NewQueries` makes a `PartialMatchQueries` (it calls
`srand` and takes random boxes of the table), `UpdateQueries` overwrites its
bounds and the array of columns, which several of them share. Then come
`buildIndex`, `UTrunExactMatch` (every row is searched), `runRangeQuery` and
`runQuery` (the queries `Runs` lists, in the order of the loops). For the Elfs
`runParallel`, `compare_results` and `clear_vectors` follow, for the sub-tree
and then for the node-level index. What a race may leave of an answer is taken
over from `SubtreeMatch` and `NodeLevelMatch` (`Raced`): a TID is missing, and a
place of the vector may hold what nobody wrote. The sequential Elf is its
specification here, a scan, because that is what the run `ElfIndex` shows.
Which index the driver is built with is a choice of `Config.h`, and some calls
are commented out: `kind` ranges over all of them. The configuration "Veit"
stands for the updates of `tpc_h.h` that `main` does not call. The loop over the
numbers of threads has one turn. The Node-level part of Q19 on Part calls the
sub-tree index once more (`main.cpp:802`); the outcomes are the same.

What the code does here is in the exceptions of the properties, each as narrow
as TLC lets it be:

* `SIMDSeqScan` has the rows behind its last register in every answer, and finds
  nothing in the others when the upper bound is `INT_MAX`, because `upper + 1`
  is the smallest signed number. The imprints with SIMD miss rows for the same
  reason.
* `ImprintIndex::exactMatch` counts a cache line too much after a repeat header,
  so that a row may be missed.
* `SortedProjection::partialMatch` returns what is in memory after the TIDs.
  `buildIndex` hands the sort the largest value of dimension 0 also for the
  projections that begin with another one, so that larger values there are not
  sorted. `exactMatch` leaves the last dimension of the projection out, and
  `windowQuery` is not implemented.
* Q14 takes every year for one of 365 days and counts the first day of the next
  month in: a query has one day too many, but for the February of 1996.
* `compare_results` looks only for TIDs of the sequential answer that are
  missing. A TID too many passes, and it may hide a lost one
  (`LossesAreNoticed` allows this for memory nobody wrote).

### BitWeaving

**BitWords**: a word is the set of the positions of its ones, so that the bit
operations of the code are set operations; `Add` and the shifts go through
tables of numbers (`ValueOf`, `WordOf`), and keep the width. **BitVector** is
`bitvector.cpp` and `bitvector_block.cpp`; `Finalize` clears the bits past the
end. **NaiveBlock**, **BwVBlock** and **BwHBlock** are the three formats of a
block of codes with their scans. A BitWeaving/V block has a word for each bit of
a segment of codes, compared from the most significant bit on, group by group,
until no code is left open; a BitWeaving/H word has several codes, compared by
one addition whose carries arrive in the delimiter bits, and the results of the
words of a segment are interleaved and shifted into the words of the vector
(`HScanWords`).

**BwColumn** is `Column`: `ColumnResize`, `ColumnBulkload` and the scans are
loops over blocks; an assertion or a refusal of the code is the field `ok` of
the result. **BwTable** is `Table`: a map from names to columns, the ids they
have, the free ids, and what the files of `Save` and `Load` hold. **BwIterator**
is the walk of `BitVectorIterator` over the ones, and the column iterators'
`Seek`, whose distances are unsigned. **BitWeavingIndex** is the class
`BitWeaving` of `bitweaving.cpp`.

**BitWeaving** is a program that uses the library: `Open`, `AddName`,
`RemoveName`, `Resize`, `BulkloadCodes`, `SetOne`, `NewVector`, `ScanLiteral`,
`ScanColumns`, `Invert`, `Merge`, `ReadBit`, `IteratorSets`, and `Save`, which
writes one file in each `SaveNext`. The program may end or be killed at any
time (`Stop`), also after a file has been opened for writing and before anything
of it has left the buffer of the stream (`StopInFile`), and while a column file
is written, which then ends inside a block (`StopInColumn`; `CutFile` is what
`Column::Load`, which looks at the status of no block, makes of such a file).
`Open` of an empty `meta.dat` returns an error and leaves an empty table that
can be used. `Build` is the index. `fault` holds how the program died, by an
assertion or by a null pointer.

The other variables record what was asked for, independently of the blocks.
`written` and `stored` are the codes as a plain table, in memory and in the
files, each with whether it is `sure` that the tuple reads so: the code is always
the one last written, and it is not sure for a BitWeaving/H tuple that had a code
before, in the block in which a file was cut off, or where codes were loaded
over a block that a cut file has left too short. `chosen` is the selection that
the conditions define, which `GetBit` does not change, and `probed` the tuples
whose bit `GetBit` was asked for. `saved` is the table that the last Save was
asked to write, `torn` that a Save was interrupted since the directory was last
cleared, `lost` which ids were lost, `rewound` that an iterator has begun its walk
again.

What the code does and its documentation or its assertions do not say. The
properties do not make these defects the reference: each of the first six is an
exception of a passing property, no wider than the case it names, and the
property would still hold if the defect were repaired.

* `SetCode` and `Bulkload` of a BitWeaving/H column add the bits of the new code
  to those of the old one (`bwh_column_block.cpp:61`), where `column.h:73-82` and
  `148-152` speak of an update. The tuple is not sure; no other tuple changes
  (`ReadsWhatWasWritten`).
* `GetBit`, a const method, writes the caller's bit into the vector
  (`bitvector.cpp:109`). Bits outside `probed` stay as the scans have left them
  (`ScansSelectWhatTheyShould`).
* `toTids` numbers the TIDs of each block from 0 (`bitvector.cpp:135`), and with it
  the answers of the index with more than one block; the iterator that it replaces
  numbers all tuples. The properties compare the places of TIDs in their blocks and
  their order, and say nothing of the numbering.
* When a table fills its blocks exactly, the length of the last block becomes 0
  (`column.cpp:222`): its codes cannot be read or scanned (`Readable`), and a later
  `Bulkload` or naive scan dies by an assertion (`AssertionsHold`).
* `AddColumn` of a name that is there takes a free id and does not give it back
  (`table.cpp:279`), so that ids reach the maximum by which the iterator sizes its
  array (`IdsAreDense`); `RemoveColumn` leaves its id free. In both cases making an
  iterator dereferences a null pointer (`NullOnlyWhere`).
* An iterator that begins again takes the column iterators back to blocks before
  their own, and they find none (`bwh_column_iterator.cpp:39`). `NullOnlyWhere`
  excepts a walk that has begun again when the selection is in several blocks; a
  first walk, over whatever blocks, does not die.
* An interrupted `Save` leaves new files, old ones and one cut file side by
  side, and `Open` loads them without noticing; a column whose file is missing has
  code size 0. The columns of such a table may be longer or shorter than the
  table: a scan can then leave ones past the end of the vector, and the iterator
  asserts that it meets none. No document of the library promises more.
* A scan of a BitWeaving column refuses a literal that does not fit its codes
  and leaves the vector as it was; the index does not look at the status.
* `table.h` calls `Close` "Close and save the table", but the destructor and
  `Close` save nothing; a program that does not call `Save` loses its changes.

## Runs

| Run | Instance | Shows |
|---|---|---|
| `ThreadPool` | 2 workers, 1 client, 3 tasks, fair | `TypeOK`, `MutexInv`, `CheckedIsThere`, `Conservation`; refinement `ImplementsTaskPool`; `NothingRunsAfterShutdown`; `OnlyLostWakeupStalls`: a submitted task is executed, or the pool is shut down, or every worker sleeps for ever beside the queue |
| `ThreadPoolLostWakeup` | 1 worker, 1 task, fair | `SubmittedIsExecuted` fails |
| `ThreadPoolShutdown` | 1 worker, 1 task, fair | `ShutdownCompletes` fails |
| `NodeLevelMatch` | 2 workers, 2 queries, nested lists, fair | `MatchTypeOK`, `WaitsForAll`, `QueueIsLatestFutures`, `AllSelectedArePushed`, `PushedOnce`, `ReturnsOrLosesWakeup` |
| `NodeLevelMatchRace` | 1 worker, 2 rows | `ResultMatchesSequential` fails |
| `SubtreeMatch` | 2 workers, 3 pointers, fair | `SubtreeTypeOK`, `OnlyOverlapLoses`, `ResultIsFinal`, `ReturnsOrLosesWakeup` |
| `SubtreeMatchRace` | 2 workers, 3 pointers | `ResultMatchesSequential` fails |
| `ElfIndex` | 3 dimensions with 2, 3 and 2 values, 1 to 4 rows | `ElfTypeOK`: a query reads only words that were written; `ElfIsPacked`: the array has no gap and is never left; `MatchIsScan` and `ExactMatchIsScan`: every query answers as a scan does |
| `KDTree` | 2 dimensions, up to 4 rows | `KDTypeOK`, `RowsAreReachable`, `NoneTwice`; refinement `ImplementsSeqScan` |
| `ElfIndexLastRow` | 2 rows, last group of one row | `UnitTestExactMatch` fails |
| `Workload` | 4 tables, 8 indexes, 3 configurations of queries, 30 sequences of random numbers | `WorkloadTypeOK`; `SharedColumnsAgree`: no update of a shared array spoils the queries of another; `MonthsAreCovered`; `ColumnsAnswerAsAScan` and `ImprintsAnswerAsAScan`: each index answers every query, and finds every row, as a scan of the table does, with the exceptions above; `LossesAreNoticed`: a TID that a race has lost ends the program |
| `BitWeaving` | 2 columns of 3 formats, up to 20 tuples in blocks of 16, one stop between or inside files | `BwTypeOK`; `ReadsWhatWasWritten` and `ScansSelectWhatTheyShould`: packed blocks and word-parallel scans against a plain table and a plain selection; `WalkVisitsTheSelection`; `IdsAreDense`; `OpenLoadsTheLastSave`, unless Save was interrupted; `AssertionsHold` and `NullOnlyWhere`: where the library dies; `IndexAnswersAsAScan` |

What the failing runs show:

* **Lost wakeup.** `submit` (line 109) notifies without
  `m_conditional_mutex`. A worker that has seen the empty queue and has not yet
  begun to wait misses the notification and sleeps; if no other `submit`
  follows, the task is never executed and the caller of `partialMatch` spins for
  ever. `OnlyLostWakeupStalls` and `ReturnsOrLosesWakeup` show that this is the
  only way for the pool and the queries to hang.
* **Shutdown.** The same gap lets a worker sleep through the notification of
  `shutdown`, whose `join` then never returns. In this program nobody calls
  `shutdown`.
* **Races on the answer.** `RESULTS->push_back` has no lock. Two workers of the
  sub-tree index, or the caller and the one worker of the node-level index,
  overwrite each other's TIDs; `main.cpp:519` reports it and ends the process.
* **The last row.** `Elf_final64.h:264` indexes with `begin` twice.

Two more disagreements, besides those of BitWeaving above, are in preconditions.
`Elf_final64.h:193` overwrites the pointer of an entry of the last dimension for
each row of its group, so that of several equal rows only the last can be found:
`MatchIsScan` asks for one of each set of equal rows. And because of line 264
`MatchIsScan` and `ExactMatchIsScan` speak of tables in which the largest value
of the first dimension occurs twice, or that have one row (`LastRowIsKept`).

### Bounds

* `Tasks`, `Workers` and `Clients` are the only bounds of the pool. Two
  workers are enough for one that holds the mutex or runs and one that waits for
  it or sleeps, and for a wakeup that reaches a worker whose task another one
  has taken; three tasks are enough for one that runs, one in the queue and one
  between enqueue and notification. The node-level index has a pool of one
  thread; its run has two, which includes what one can do while the other is
  never scheduled.
* The graphs of `MCNodeLevelMatch` and `MCSubtreeMatch` have values below,
  inside and above the bounds, a value behind the first one above them, a
  list inside a list, a list whose buffered entry is itself a list, and a row
  that fails. Every node is submitted at most once in a run.
* `MCElfIndex` has the tables of up to three rows, equal rows included, and
  those of four rows with two values on dimension 1. The rows are in descending
  order: the model takes groups of rows as sets, so that another order only
  renames the TIDs. That is enough for lists of three entries, for a list with
  two sub-lists, for lists with one entry, for groups of equal rows, and for mono
  lists on every dimension. The queries are all bounds that are in order, on all
  choices of columns, and all points; `ElfProofs` has every table and query.
* `MCKDTree` has every table of up to three rows with 3 and 2 values, equal rows
  included, and those of four rows with two values in each dimension, where a
  chain of rows goes through both dimensions twice, so that the cycling and the
  ties on a repeated dimension matter. The queries are all bounds that are in
  order, on all choices of columns, and all points, also those that are in no
  row. (The state graph has the tables as initial states, so that all this is
  130000 states.) A query with a lower bound above the upper one accepts
  nothing; the theorems have those too.
* The masks are 1000 in place of 2^31 and 2^62. Values and positions stay below
  them, as in the code, so that setting and clearing the bit is addition and
  remainder.

* `MCWorkload`: a byte of a bitmap has 4 TIDs, a cache line 8 rows, the word of
  `ImprintSIMD64` 16. Of the tables, one has 9 rows and one 12, so that rows are
  left over behind the last register and the last cache line is not full; one has
  33 rows with equal imprints one after the other, a change, and a line of one
  row, so that a dictionary has both kinds of headers and the counter of 2 bits
  is full; one of 16 rows has the largest value in every dimension, which makes
  the bounds wrap (the smallest, `lower - 1`, wraps wherever a query begins at
  0). There are 13 bits for a value because dates go up to 2525; 8 bins are fewer
  than the different values. The sort has digits of 2 bits and is by radix from
  6 rows on, with bins on both sides of that. The streams reach every month of
  the five years of Q14 and both quantities of Q6. `Raced` has no loss, one, and
  one in each of two answers. Each kind of query is made twice
  (`NUM_Partials`), so that one update overwrites the array of another.
* `MCBitWeaving`: words of 8 bits, blocks of 16 codes (two words of the vector),
  groups of 2 bits. A BitWeaving/H code of 2 bits has a delimiter, a word two
  codes and 2 empty bits, a segment 6 codes: segments, words and blocks end at
  different places. A BitWeaving/V code of 3 bits has a full group and one that is
  not. The batches and sizes give tables with less than a block, exactly one, and
  two; with a start of 5 a batch goes over the end of a block. A column file is cut off
  after three words of the first block, or after one word of the second; `GetBit`
  is asked for tuple 5. Codes loaded over a gap, a block before the last that is not
  full, need a cut file of two blocks and a third one, for which 20 tuples are too
  few: `Unsure` is there for the theorem, which covers it. The predicates have
  each of the six comparators and both-sided ones, and literals that do not fit
  the codes. `MaxTuples`, `MaxChanges`, `MaxScanned`, `MaxScans` and `MaxStops`
  bound the length of a behaviour: 4 changes are enough for two columns that are
  added, loaded and saved or for a column that is removed and added again, 2 scans
  for each operator on a selection that is neither empty nor full, one stop
  for a torn Save. The index is built on 5, 16 and 19 rows.

Deadlock checking is off for `Workload`, whose program comes to its end or
exits, and for `BitWeaving`, where a program may stop at any time and a bound may
be reached, and also for the pool and the parallel queries: workers that
all sleep, a pool that is closed and a caller that has done its last query are
states in which these programs stop. It is on for `ElfIndex` and `KDTree`.

### Fairness

A thread that can take a step takes one in the end: the operating system
schedules every runnable thread, a task that runs returns, and a call that has
begun goes on. This is weak fairness of the steps of each worker and of each
caller. Nobody is assumed to call `submit` or `shutdown`, and a sleeping worker
is not assumed to wake up spuriously. `Workload`, `BitWeaving` and `ElfIndex`
assume no fairness: their properties are about every state. Weak fairness of `LockAndCheck` does not
give a worker the mutex when others take it again and again; the runs show that
the properties do not need it.

## Proofs

Every theorem is about all values of the constants that satisfy the named
assumptions; the run that checks the same property shows it on an instance.

| Module | Theorem | States |
|---|---|---|
| `ThreadPoolProofs` | `TypeCorrect`, `MutualExclusion`, `FoundIsDequeued`, `TasksConserved` | `TypeOK`, `MutexInv`, `CheckedIsThere`, `Conservation` |
| | `PoolImplementsTaskPool` | the refinement `ImplementsTaskPool` |
| | `QuietAfterShutdown` | `NothingRunsAfterShutdown` |
| `NodeLevelProofs` | `QueryUsesPool` | a query's steps are steps of the pool |
| | `MatchTypeCorrect`, `ReturnWaitsForAll`, `QueueFollowsFutures` | `MatchTypeOK`, `WaitsForAll`, `QueueIsLatestFutures` |
| | `SelectedArePushed`, `RowsArePushedOnce` | `AllSelectedArePushed`, `PushedOnce` |
| `SubtreeProofs` | `CallUsesPool` | a query's steps are steps of the pool |
| | `SubtreeTypeCorrect`, `AnswerIsFinal`, `LossNeedsOverlap` | `SubtreeTypeOK`, `ResultIsFinal`, `OnlyOverlapLoses` |
| `ElfProofs` | `ElfTypeCorrect`, `Packed`, `MatchCorrect`, `ExactMatchCorrect` | `ElfTypeOK`, `ElfIsPacked`, `MatchIsScan`, `ExactMatchIsScan` |
| `KDTreeProofs` | `TypeCorrect`, `InsertedStaysReachable`, `ReturnedOnce` | `KDTypeOK`, `RowsAreReachable`, `NoneTwice` |
| | `KDTreeImplementsSeqScan` | the refinement `ImplementsSeqScan` |
| `BitWeavingProofs` | `Invariant` | the inductive invariant `IInv` |
| | `TypeCorrect`, `ReadsWhatWasLastWritten`, `WalksVisitTheSelection` | `BwTypeOK`, `ReadsWhatWasWritten`, `WalkVisitsTheSelection` |
| | `IdsStayDense`, `OpenLoadsWhatWasSaved` | `IdsAreDense`, `OpenLoadsTheLastSave` |
| | `AssertionsAlwaysHold`, `IteratorDiesOnlyWhere` | `AssertionsHold`, `NullOnlyWhere` |
| `WorkloadProofs` | `WorkloadTypeCorrect`, `SharedColumns` | `WorkloadTypeOK`, `SharedColumnsAgree` |
| | `MonthsCovered`, `LossesNoticed` | `MonthsAreCovered`, `LossesAreNoticed` |

The first part of `SubtreeProofs` holds the lemmas about the recursive function
`Walk`. `BwLibraryProofs` holds the lemmas about the data of BitWeaving: words,
blocks and columns first, then bit vectors, their walks and the iterators.

### What is assumed

* `PoolAssumption`: at least one worker, clients that are not workers, and names
  for "no task" and "no thread" that are neither.
* `MatchAssumption`, `SubtreeAssumption`: one client, pointers to nodes, lists
  that are not empty (the build makes a list for a group of rows), a pointer
  that is not submitted twice.
* `TreeAssumption`, `DepthAssumption`: the index is a tree. The build writes one
  pointer to each list, and each pointer of a list leads to the next dimension.
  The values of a list ascend, because it was sorted; the first list, which the
  call makes of the pointers of dimension 0, has no values to compare.
* `StoreAssumption`: a table has a row, TIDs are its positions, every row has a
  value in every dimension. `KDAssumption`: the value for "no answer yet" is
  not a set of TIDs.
* `ElfAssumption`: the masks are above every value, TID and position, so that the
  code can tell a marked word from another; `NOT_FOUND`, which is -1 and is
  compared as an unsigned number, is above every marked pointer; two dimensions
  at least; and the values of dimension 0 have no gaps. The last is the "density
  property in first dim" of `Elf_final64.h:66`, which the code uses and does not
  test.
* `BitWordsAssumption`: words, blocks and groups of bits are not empty, a block is
  a whole number of words, a group is not longer than a word.
* `BitWeavingAssumption`: finitely many names; a schema gives each a format whose
  codes have at least one bit and fewer than a word (`CreateColumnBlock` has 1 to
  32 bits, in words of 64); codes, starting positions and what memory holds are
  unsigned numbers; the index is built on a table with a row and a dimension.
  Nothing is assumed about whether codes or literals fit their columns: where a
  program has to see to it, the action has the guard.
* `WorkloadAssumption`: a `PartialMatchQueries` has a query; `rand()` returns a
  natural number as often as it is called, which is 8 times for each query at
  most after one `srand`; the values of a table and the last date of Q1 are
  signed numbers of a register, which SIMD compares.

### The pool

The inductive invariant `IInv` adds `FuncInv` to the invariants of the run (a
worker holds a task exactly while it runs it): without it a dequeue could
overwrite a task. `CheckedIsThere` needs `MutexInv`: only the owner of the mutex
dequeues. Two lemmas say what an enqueue and a dequeue do to the elements of the
queue. In the refinement `Enqueue` is `Submit`, a successful `Dequeue` is
`Start`, `Finish` is `Finish`, everything else stutters; `Conservation` gives the
precondition of `Submit` (the task is new). `NothingRunsAfterShutdown` follows
from the invariant that every worker has left its loop once the pool is closed.

### The node-level query

* `ReturnWaitsForAll`: a task that is not ready either has its future in
  `results_get` at or behind the index that Main looks at, or its future is in
  the hands of the thread that holds `values_mutex` (`DrainInv`). That thread is
  not inside its own task's future (`FutureInv`) and runs a task that is not
  ready either, so if Main has seen all futures then there is no such thread, and
  no such task. `PlaceInv` says that a worker processes nodes only inside a task.
* `QueueFollowsFutures`: `submit` and `push_back` are apart, so that the queue
  may be one task ahead of `results_get`; `OrderInv` says that this is the task
  in the hands of the holder of `values_mutex`, and that a dequeue takes the
  oldest. Without the mutex, two threads would append in the other order.
* `SelectedArePushed` and `RowsArePushedOnce`: the pending nodes are the tasks in
  the queue, the entries a thread has still to submit, and the node in its
  buffer. `SelectionInv` says that these places are disjoint, that no two pending
  nodes have a node under both, that nothing under one has been pushed, and that
  the pushed rows with those under the pending nodes are the rows that the calls
  so far select. A step that takes up a node replaces it by the entries that
  the walk goes on to, and the nodes under a list are the list and what is under
  those entries: here the tree is needed. When Main returns, `WaitsForAll` and
  the queue leave nothing pending.

### The sub-tree query

`SubtreeInv`: a worker that runs a task has the end of that task's walk still to
push (`RunInv`); while no `push_back` has overlapped, one goes on at a time, and
at the vector's end (`PushInv`); then the vector is an arrangement of the places
in the walks that have been pushed: all of a task that is ready, the first part of
one that runs (`ResultInv`). At the end these are all places, and
`Sequential` is an arrangement of the same ones. `AnswerIsFinal` is `MainInv`:
Main has seen every future, so that no worker is in `func()`.

That `Walk` has a value for every node, and that the concatenation of the walks
arranges all their places, would be inductions. They are proved by a least
counterexample instead: a set of lists without a value would have a member whose
entries lead to none of them (`DepthAssumption`), a set of lengths has a least
number.

### The sequential Elf

`ElfInv` is `BuildInv /\ QueryInv`.

* The build: each list tells apart rows that agree on the dimensions above it,
  and the pointer in its entry for a value leads to a list or mono list for the
  rows with that value, or is a job of `todo` (`ListInv`, `FirstInv`,
  `MonoInv`); no position belongs to two entries (`ApartInv`), which is why
  patching a pointer later spoils nothing; the words below the `writePointer` are
  written but for the slots of the jobs (`PackInv`), which are different, as their
  rows are (`JobInv`).
* `Packed`: why `2 * n * (NUM_DIM + 3)` words are enough is not in the code, which
  guesses. In `SizeInv` each row has two tokens for each dimension and two for its
  TID. A word that is written takes a token away; the jobs keep the tokens of
  their rows from their dimension on, and one of each two when the row is alone.
  A list with k values writes 3k words and has k or more rows, at least two; the
  tokens of its dimension and those that entries of one row no longer need pay
  for it.
* The queries: of the rows that a scan accepts, each is behind a pointer of
  dimension 0 that is ahead, or at or behind the entry at which a call stands
  (`Rest`), or it is in the result, or a row equal to it is (`Found`). These
  places are disjoint (`MatchInv`), so that nothing is returned twice, and the
  rows a call has still to look at are inside the bounds on the dimensions above
  (`Qualifies`), so that nothing wrong is returned. The early return above the
  upper bound drops no such row because ranks follow values. In `exactMatch` the
  rows that are the point lie at or behind the entry that is looked at
  (`ExactInv`).
* `LastRowIsKept` is the precondition of both answers because of line 264.
  Nothing else about the array depends on it: `Packed` and `ElfTypeCorrect` hold
  with it and without it, whatever TID line 264 reads.

### The KD tree

`IInv` has two parts. While the tree is built (`BuildInv`): every child lies
behind its parent and hangs below one node only (`ShapeInv`), the path of a row
is the way from the root to it, and each row lies on the side of every node of
its path that its value says (`PathInv`), and the insertion that is under way
stands on the path of its row (`CursorInv`). `path` is needed because the tree
alone does not say why a row is where it is: after other rows have been
attached, that the child on a row's side is on the way to the row is a fact
about the insertion of that row. While it is searched (`SearchInv`): of a row
that the query accepts and that has not been returned, exactly one call on the
stack has the node on its path (`MatchInv`); a node below a call on the stack has
not been returned. For `exactMatch`, the rows equal to the query lie at or below
the current node (`ExactInv`); `DoneInv` is the answer.

In the refinement `Ask` and `Forget` are those of `SeqScan`, the last step of a
query is `Answer`, everything else stutters. `exactMatch` returns the first of
several equal rows because the nodes lie in the order of the TIDs and a child
lies behind its parent.

### BitWeaving

`BitWeavingProofs` has one lemma for each action that it keeps `IInv`. The parts
of `IInv`:

* `Phases` and `Shapes`: what there can be at a time, and that tables, columns,
  blocks, vectors and files have the shape of such: a block has the words that
  its format needs and no more codes than fit. That every index into a block is
  inside it follows. Not every block before the last one is full: a cut file breaks
  that (`CutFileOK`).
* `Whole`: unless a Save was interrupted, the columns have as many codes as the
  table, in full blocks but for the last (`Fits`), and the vector has no one past its
  end. With it the assertions about
  equal lengths follow (`AssertionsHold`). A torn directory breaks it, which is
  why its exception is there, and why `torn` stays until the directory is cleared.
* `Ids`: as long as no id is lost, those in use and those that are free are the
  numbers up to the largest, each once. `Open` gives out ids in the order of the
  names; a lemma says that the ranks of the names are dense. For that the names
  are numbers.
* `CodesInTable` and `CodesInFiles`: `written` and `stored`, where they are sure,
  agree with the blocks at every tuple number there may ever be, also past the end
  of the table, and in the blocks that are still to be allocated (`CodeAt`). The code
  past the end matters: `Resize` brings it back. `CutCodes` is what a cut file keeps of it, and
  the theorem claims no code that is not sure.
* `Saving` and `SavedOK`: the files that a Save has already written are those of
  the table, which is `saved` until it is done; the files of a complete Save are
  those of the columns of `saved`, formats and blocks, with the lengths of the
  table. `StillOnDisk`: what has been opened is still there.
* `Faults`: the two properties about how the program dies.

Reading a code after a write is the longest part. In a BitWeaving/V block a code
is one bit in each word of its segment, in a BitWeaving/H block a field of one
word; writes go to the fields of other codes only where they overlap, and they
never do (`BwLibraryProofs` shows for each format that a different position has a
different word or different bits). Words are sets of bits and codes are numbers:
`ValueOf` and `WordOf` are inverse to each other, which needs that every number
below a power of two is a sum of different smaller ones. All loops of the code
are recursive functions, which the prover unrolls one turn at a time; what a
loop does is proved for the sequence of its intermediate results (`BulkloadRun`,
`LoadRun`, `BuildRun` and others). Induction over the turns is the lemma
`Induction`, which is about a set of numbers: if a number were missing from it,
there would be a least one (`LeastNumber`).

### Workload

`WorkloadInv` has a part for the queries and a part for the answers; the values of
`config`, of the random numbers and of the table are arbitrary. The properties
do not follow from a typed state alone, because a `PartialMatchQueries` passes
through states in which its bounds and its columns do not fit each other.

* `PrepInv` says for each number of statements of the preparation that are done
  how often `rand()` has been called since the last `srand`, which
  `PartialMatchQueries` there are, and of each of them that it is random corners
  of boxes of the table until the statement that updates it, and from then on the
  bounds of its update for some random numbers, with an array of the columns of
  that update. `LineItemSteps`, `PartSteps` and `VeitSteps` compute from the
  statements of `main` when each is made and updated; they also show that all
  updates of one array select the same columns, without which a later update
  could spoil an earlier one (`SharedColumnsAgree`).
* The bounds of an update are in order, and dates are below 2525: `BoundsOfUpdates`
  is a case for each update of `tpc_h.h`. For Q14 `BeginOfMonths` unrolls the table
  of the first days, and `DaysOfMonths` counts the days of the interval that are
  not in the month (`MonthsAreCovered`).
* `RunInv`: while the parallel Elfs are asked, `result_ELF` is what a scan
  answers, and `result` is a race away from it before a comparison. `Times`
  counts a TID over all answers, as the multisets of `compare_results` do. If a
  TID is missing from an answer, it is counted less often than in the scans,
  unless it is the junk that some other answer has, so that the difference of
  the multisets is not empty and `main` exits (`LossIsDifference`).

### Only model-checked

* The liveness properties `OnlyLostWakeupStalls` and `ReturnsOrLosesWakeup`:
  TLAPS proves no liveness under fairness.
* `ScansSelectWhatTheyShould` and `IndexAnswersAsAScan` of `BitWeaving`: that the
  comparisons of a whole word at once compute what comparing code by code does is
  arithmetic on carries, different for each format and each comparator. What the
  other proofs need of a scan, that it keeps the shape of the vector and
  leaves no one past the end, is proved.
* `ColumnsAnswerAsAScan` and `ImprintsAnswerAsAScan` of `Workload`: the bitmaps of
  the column scans, the imprints and their dictionary are folds, which take an
  operator that the provers cannot instantiate, and what the radix sort of the
  projections returns needs an induction over its recursive functions and the
  permutation of the array.
* The violations are counterexamples of TLC.

## Not modelled, and why

* `vector` reallocation under a concurrent `push_back` or `size()`: the answer
  vectors are wrong without it already, and `results_get` is read in one step.
  This leaves out the unsynchronised read of `results_get` by the caller
  (`Elf_final64_nodelevel_enqueue.h:570-573`).
* The pools that the sub-tree queries leave behind: they share nothing with the
  next query but the process's threads.
* `Elf_final64::buildFromData` and its helpers: nobody calls them.
* The width of the KD tree's offsets: with more than 2^32/3 rows they would not
  fit into a word; no table of the driver comes near that.
* Reading the tables from `.tbl` files, timing and output.
* `BitVector`'s `Save`, `Load`, `Clone` and `Equal`, `Table::Delete` and
  `ImprintIndex::select_column`: at most the tests of the library call them, and
  each is a copy or a loop that the modelled operations have too.
* Errors of the disk, and the classes for files and the environment: a file is
  there with what was written, ends early, is empty or is missing. `meta.dat` is
  taken to fit the buffer of its stream, so that it is not cut off inside.
* That the first dimension of an Elf is dense, which `Elf_final64.h:66` asks for, is
  an assumption (`ElfAssumption`); nothing in the code tests it.
* That more than one of equal rows is found by an Elf, that projections sorted by
  the wrong largest value are incomplete, that a directory torn by a stop is loaded,
  and that `compare_results` lets superfluous TIDs pass: the models do as the code
  does, the properties except these cases, and no document says what should be, so
  that there is no run that shows them.
* The whole range of what `Elf_final64.h:264` may read behind its array: the model
  takes it to be a TID of the table (`TIDsRead`), which matters only for the types
  and for tables that `LastRowIsKept` excepts.
* The heap: that `sortedProjections.h:50` allocates too much or too little, and
  what a write past an array would hit, is outside the values the models have.
  Reads of memory that nobody wrote are a choice (`Junks`).
* The counter of 24 bits that `Imprint.cpp:267` adds to without a test is in the
  model with its width; it wraps only after 2^24 cache lines without a run, which
  no table of the driver has.

## Plan

1. Done: pool, both parallel queries, sequential Elf, KD tree, column scans,
   bitmaps, imprints, sorted projections with the radix sort, BitWeaving from
   words to the saved table, and the driver over the indexes with the TPC-H
   queries.
2. Done: the proofs above, which cover every safety property of the pool, both
   parallel queries, the Elf and the KD tree, those of BitWeaving but for what
   its scans compute, and those of the driver but for what the other indexes
   answer.
3. Left, proofs: `ScansSelectWhatTheyShould`, for naive columns first, whose scan
   compares code by code, and `IndexAnswersAsAScan`, which follows from it for the
   index; and `ColumnsAnswerAsAScan`, with the bitmaps written as functions of the
   TID instead of folds.
