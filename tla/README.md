# TLA+ models of Desbordante's unary IND discovery

This directory holds TLA+ models of the unary inclusion dependency (UIND)
pipeline in `src/src/core`. The models cover building column domains under a
memory limit, and the Spider sort-merge sweep that mines UINDs from those
domains. It also holds the TLC configurations that check them and
`PROJECT.json`, which maps every modelled definition to the source lines it
translates.

## 1. Inventory of the system

| Component | Source | State | Operations |
|---|---|---|---|
| BlockDatasetStream | `model/table/block_dataset_stream.cpp` | `cur_row_`, the wrapped row stream, `capacity_` | `GetRowSize`, `TryStoreNextRow` (drops malformed rows recursively), `GetNextBlock` (packs rows up to the capacity; always takes at least one) |
| DomainPartition | `model/table/column_domain.{h,cpp}` | sorted set `values_`, optional swap file, (table, column, partition id) | `Insert` (ignores the empty string), `IsEmpty`, `GetMemoryUsage`, `TrySwap` (writes the values one per line, then clears them), `GetReader` (a memory or file reader) |
| ColumnDomain | same | list of partitions, cached `mem_usage_` | `Swap` (every partition), `RefreshMemoryUsage` |
| DomainManager | `model/table/column_domain.cpp` | `mem_usage_`, `processed_block_count_`, `swap_candidate_`, finalized `domains_`, the current table's `raw_domains_` | `CreateDomain` (loop: `GetNumberOfBlocks`, then `ProcessNext`), `RefreshMemUsage`, `GetApproximateBlockCount`, `SwapNext` (spill the next finalized domain, otherwise every tail partition, opening a new tail behind each one), `RawDomainsInit` |
| BlockData | `model/table/block_data.cpp` (its header is not in the repository) | per column a `ColumnData`: `raw_data_` (the cells' characters back to back) and `offsets_` | `ColumnData::Insert`, `BlockData::InsertRow`, `ColumnIterator` (`ConstructView`, `TryMoveToNext`) |
| ColumnDomainIterator | `model/table/column_domain_iterator.h` (its .cpp is not in the repository) | a heap of partition readers, the current value | `MoveToNext`, `HasNext`, `GetValue` (a k-way merge that does not de-duplicate) |
| Attribute | `algorithms/ind/spider/attribute.{h,cpp}` | id, iterator, `refs_`, `deps_` | constructor, `IntersectRefs` (also calls `RemoveDependent` on every dropped ref), `HasFinished`, `Compare` |
| Spider | `algorithms/ind/spider/spider.cpp` | `attrs_`, the priority queue | `InitAttributes`, `ProcessAttributes`, `RegisterDeps` |
| INDVerifier | `algorithms/ind/ind_verifier/ind_verifier.cpp` | clusters of violating rows, `error_` | `VerifyIND` (a hash join, with error = violating unique values / distinct LHS values) |

**How the parts interact.** `ColumnDomain::CreateFrom` runs one
DomainManager over the tables in order. For each table it:

- reads blocks from a BlockDatasetStream;
- inserts each column's values into that column's tail partition, one
  `parallel_foreach` per block, where each worker touches only its own
  column;
- spills to disk between batches when the estimate says no block fits.

Spider numbers the resulting domains `0..n-1`. It wraps each domain in an
Attribute with its own iterator, then sweeps all iterators in value order.

**What is hard.**

- The governor's estimate reads a cached `mem_usage_` that three different
  code paths update:
  - `RefreshMemUsage` counts only tail partitions;
  - `SwapNext` subtracts a cached domain usage;
  - the first estimate of each table ignores the usage entirely.
- The estimate uses unsigned `size_t` arithmetic.
- A tail swap opens a new partition that may stay empty.
- A split domain makes the iterator yield a value more than once, and the
  sweep's grouping by value must survive that.
- Inside one sweep round, `IntersectRefs` runs over an `unordered_set` in an
  unspecified order. Each call also edits *other* attributes' `deps_`, which
  `HasFinished` then reads.

**What makes each part correct.**

- **DomainManager:**
  - every finalized domain holds exactly its column's non-empty input values;
  - empty columns are dropped;
  - no partition is empty (a reader asserts on one);
  - every estimate is taken on the memory really held;
  - held memory stays within the limit plus one block;
  - creation terminates.
- **Spider:**
  - `refs_` and `deps_` stay mutually consistent;
  - no valid UIND is ever pruned;
  - the output is exactly the set of valid non-reflexive UINDs;
  - the values are swept once each, in ascending order, and each group
    prunes exactly the refs that lack its value;
  - the sweep terminates.
- **INDVerifier:** the error is the share of distinct LHS values missing from
  the RHS. It is 0 exactly when the IND holds.

## 2. Modules

| Module | Models | State and actions |
|---|---|---|
| `Spider.tla` | Spider, Attribute, the iterator's stream | See below. |
| `UINDMining.tla` | The ascending value sweep a sort-merge miner promises (abstract) | See below. |
| `MCSpider.tla` | Spider instance | The bounds, and the refinement mapping to `UINDMining`: `domain` ↦ union of partitions, `upto` ↦ the largest value any cursor has consumed (the last group's value), `cand` ↦ `refs` with the current group's pending `IntersectRefs` applied, `out` ↦ `result` once `pc = "done"`. |
| `DomainManager.tla` | DomainManager, DomainPartition, ColumnDomain, BlockDatasetStream | See below. |
| `MCDomainManager.tla` | DomainManager instance | The bounds. |
| `DomainPartition.tla` | One DomainPartition at the level of characters: swap file and readers | See below. |
| `MCDomainPartition.tla` | DomainPartition instance | The bounds. |
| `INDVerifier.tla` | INDVerifier's `VerifyIND` and `ResetState` | See below. |
| `MCINDVerifier.tla` | INDVerifier instance | The bounds. |
| `Discovery.tla` | DomainManager followed by Spider (composition) | See below. |
| `MCDiscovery.tla` | Discovery instance | The bounds. |

**Spider.tla.**

- Variables:
  - `dom`: each attribute's partitions;
  - `it`, `pos`: the iterator's stream and position;
  - `refs`, `deps`;
  - `pq`: the queue;
  - `ids`, `todo`: the popped group;
  - `result`;
  - `pc`.
- Actions: `PopGroup` (the do/while pop loop), `IntersectRefs(i)` (one per
  member, in any order), `Advance` (the `HasFinished` / `MoveToNext` /
  re-push loop) and `RegisterDeps`.

The attributes are `DOMAIN dom`, the numbers `0..n-1`; `dom` ranges over
every assignment of domain shapes to `AttrCount` attributes.

**UINDMining.tla.**

- Variables: `domain`, `upto` (the last value swept), `cand`, `out`.
- Actions:
  - `Sweep(v)` moves to a value `v` above `upto` and, for every attribute
    holding `v`, keeps exactly the candidates that hold `v`. It may skip a
    value only when no attribute holding it has candidates left;
  - `Publish` emits the candidates once no value ahead still matters.
- So after value `v`, `cand[a]` is the set of attributes holding every
  value of `a` up to `v`. Spider's `PopGroup` is the `Sweep` step;
  `IntersectRefs` and `Advance` are stuttering steps of the mapping.

**DomainManager.tla.**

- Variables:
  - `raw`: `raw_domains_`. A partition is a record of its values, its
    swap state and file, and its `partition_id`;
  - `domains`: `domains_`, each with its cached `mem`;
  - `memUsage`, `processed`, `count`, `cand`: `swap_candidate_`;
  - `left`: ProcessNext's `block_count`;
  - `pending`: `cur_row_`;
  - `block`, `blockSize`: the block being filled. `block[c]` is column c's
    `ColumnData`, a character buffer and the offset of each cell;
  - `seen`: a history variable with the input values per column;
  - `pc`.
- Actions:
  - `StartTable` (RawDomainsInit and the first read);
  - `GetNumberOfBlocks`;
  - `SwapNextDomain` and `SwapNextTail` (the two branches of SwapNext, each
    followed by the re-estimate);
  - `AddRow` and `StoreBlock` (GetNextBlock, then ProcessNext's insert);
  - `EndBatch`;
  - `FinishTable`.

BlockData is modelled as the code stores it. `ColumnInsert` appends a
cell's characters and its start offset. `View(cd, i)` is `ConstructView`:
from the i-th offset up to the next one, or to the end of the buffer for
the last cell. `StoredValues` is ProcessNext's `store_column`: it walks the
views and inserts the non-empty ones into the tail partition.
`ColumnDomain`'s constructor and `Swap` are `NewDomain` and `DomainSwap`.

Each action models the whole code path, including the trailing
`RefreshMemUsage` and the reset of `processed_block_count_`.

**DomainPartition.tla.**

- Variables: `values` (`values_`), `swapped`, `file` (the swap file's
  characters), `reader`, `cur` (the memory reader's position), `fpos`, `eof`,
  `line` (the file reader's stream state and `cur_`), `out` (what the reader
  yielded), `orig` (a history variable: the values before the swap), `pc`.
- Actions: `TrySwap` (values joined by `'\n'` in set order, then cleared),
  `GetReader` (the file reader's constructor reads the first line),
  `ReadMemory` and `ReadFile` (GetValue, then `TryMove`, as
  ColumnDomainIterator drives a reader). `Getline` is `std::getline`:
  characters up to the next newline, or up to the end, which sets `eof`.
- Strings are sequences of character codes; `StrLess` is `std::string`'s
  order and `Sorted` the `std::set`'s iteration order.

**INDVerifier.tla.**

- Variables: `tables` (two table objects of rows `[lhs, rhs]`), `same` (the
  LHS and RHS streams are one object), `spos` (each stream's position),
  `rhsRows`, `lhsRows`, `rowToId`, `cmap` (cluster id ↦ rows), `nextId`,
  `curRow`, and the outputs `violatingRows`, `clusters`, `error`
  (numerator, denominator), plus `runs` and `first` (the first run's
  outputs), `pc`.
- Actions: `ReadRhs`, `StartLhs` (resets the LHS stream), `LhsRowInRhs`,
  `LhsRowViolates` (the `try_emplace` of a cluster id), `Finish` (moves the
  clusters out in any order, since the map is unordered, and sets the
  error), `ExecuteAgain` (`ResetState`, then a new run).

**Discovery.tla.** `INSTANCE DomainManager` and `INSTANCE Spider` (with
Spider's `pc` renamed `spc`) over disjoint variables. `LoadData` numbers the
finalized domains and builds each attribute on the values its partitions'
readers yield. Its guard `ReadersOpen` is the assert of every
`MemoryBackedReader` (`cur_ != end_`). When a finalized domain holds an
empty in-memory partition (finding 4), the program stops there, or reads
`*end()` in a release build. No step follows, and `EndToEnd` claims nothing
for that input. The two phases run one after the other, as in
`Spider::Execute`. `ExecuteAgain` is a second `Execute` on the loaded
domains: `ResetINDAlgorithmState` drops the attributes, and
`InitAttributes` builds them again with fresh iterators. `MaxExecs = 2`
bounds the calls.

**Abstractions.**

- Values are small integers ordered as the strings are.
- A non-empty value is one character. A partition costs `ValueCost` per
  in-memory value and nothing once swapped.
- `size_t` arithmetic is taken modulo `2^WordBits`.
- A division by a zero per-block usage is the state `pc = "fpe"`.
- The dataset stream yields any well-formed row, up to `MaxRows` rows per
  table. Malformed rows are skipped without a trace, as in the code.
- The `parallel_foreach` over columns is one atomic step: each worker writes
  only its own column's tail.

## 3. Runs

| Run | Config | Expect | What it shows |
|---|---|---|---|
| `spider` | `MCSpider.cfg` | pass | See below. |
| `domain_manager` | `MCDomainManager.cfg` | pass | See below. |
| `dm_memory` | `MCDomainManagerMemory.cfg` | violation | `MemoryDiscipline`. See below. |
| `dm_wrap` | `MCDomainManagerWrap.cfg` | violation | `NoBatchOverLimit`. See below. |
| `dm_empty_tail` | `MCDomainManagerEmptyTail.cfg` | violation | `NoEmptyPartition`. See below. |
| `dm_fpe` | `MCDomainManagerFpe.cfg` | violation | `NoDivisionByZero`. See below. |
| `verifier` | `MCINDVerifier.cfg` | pass | See below. |
| `verifier_empty_lhs` | `MCINDVerifierEmpty.cfg` | violation | `ErrorInRange`. See below. |
| `discovery` | `MCDiscovery.cfg` | pass | `EndToEnd`. See below. |
| `discovery_swap` | `MCDiscoverySwap.cfg` | violation | `EndToEnd`. See below. |
| `domain_partition` | `MCDomainPartition.cfg` | pass | `ReadBack`. See below. |
| `domain_partition_newline` | `MCDomainPartitionNewline.cfg` | violation | `ReadBack`. See below. |

**spider.** Four attributes, values `1..3`, one partition per domain, every
domain shape generated: 55k states. The run checks:

- `MutualRefs`;
- `NoFalsePruning`;
- `ResultIsUINDs`;
- `Terminates`;
- the refinement `ImplementsUINDMining`: Spider is an ascending value sweep.
  It also checks that each group's value is new and above every value
  consumed, that the group prunes exactly the refs lacking it (finished
  attributes included), and that `RegisterDeps` runs only when no value
  ahead matters.

**domain_manager.** Two tables of two columns, values `{1,2}`, at most three
rows per table. With `MemLimit = 8` and blocks of 2 characters, both swap
branches fire: 109k states. The run checks:

- `DomainsHoldInput`: finalized domains are exactly the non-empty input
  columns, in order, with exactly their values, across swaps. The block's
  buffer and offsets lie on this path, so the property also checks the
  BlockData round trip;
- `EstimateOnHeldMem`: every estimate reads a `mem_usage_` equal to the
  memory really held;
- `UniqueSwapPaths`: no two live swapped partitions share a swap-file name
  `tmp/<table>.<column>.<partition_id>`. This holds across tail swaps,
  tables, and moves into `domains_`. `TrySwap` writes by name and the
  destructor removes by name, so a shared name would lose a file;
- `Terminates`.

**dm_memory.** The earlier table's domains hold 6 units. The new table's
first estimate grants 2 blocks regardless, so 14 units end up held against a
bound of 12.

**dm_wrap.** Usage is 10 against a limit of 8. The subtraction wraps and
12 blocks are granted.

**dm_empty_tail.** A tail swap is followed by rows that leave a column's new
tail empty. That empty partition is moved into `domains_`.

**dm_fpe.** One column holding the single value 1 in a long table. Once the
processed block count exceeds the bytes the tail holds, the per-block usage
is 0 and the next estimate divides by it.

**verifier.** Values `{1,2}`, tables of up to three rows, the same table
object possibly used for both sides, two runs: 242k states. The run checks:

- `VerifierCorrect`: for a non-empty LHS, the error is |violating distinct
  values| / |distinct LHS values|, and `Holds` iff LHS ⊆ RHS;
- `ClustersDecompose`: one cluster per violating value, holding exactly its
  rows, and `violating_rows_` is their total;
- `RerunStable`: a second `Execute` gives the first run's outputs (clusters
  compared as a set, since their order is unspecified).

**verifier_empty_lhs.** An empty LHS gives error 0/0.

**discovery.** Two tables of two columns, values `{1,2}`, up to three rows
each, a limit no batch reaches: 43k states. `EndToEnd`: the pairs of
(table, column) Spider registers are exactly the UINDs of the input rows,
after the first `Execute` and after a second one.

**discovery_swap.** The same with `MemLimit = 8`: a tail swap mid-table
leaves column t2c0 with domain `<<{1},{1}>>` and t2c1 with `<<{1,2},{2}>>`.
No partition is empty, so every reader opens. The UIND t2c0 ⊆ t2c1 is
lost. This is the Spider pop-loop bug (finding 1) shown
from input rows.

**domain_partition.** Characters `{a, b}`, values of up to two characters,
up to three values, with and without a swap. `ReadBack`: the reader yields
exactly the values in set order, each once.

**domain_partition_newline.** Characters `{'\n', a}`: the value `"\n"` is
written as one newline and read back as two empty strings.

Each property of a passing run has a mutant in `PROJECT.json`. The mutant is
a plausible bug of the mapped code under which TLC finds the property
violated:

- a pop loop that stops after the top attribute;
- `IntersectRefs` without `RemoveDependent`;
- `HasFinished` ignoring `deps_`;
- a re-push without `MoveToNext`;
- `Attribute::Compare` with its value comparison reversed;
- SwapNext's domain branch without the subtraction;
- SwapNext's tail branch without a new partition, or without the reset;
- a new tail partition that keeps the swapped tail's `partition_id`;
- `ConstructView` ending the last view at its own offset instead of the
  buffer's end;
- ProcessNext ignoring `block_count`;
- a verifier that does not reset a shared stream, does not count a row,
  always assigns a new cluster id, or keeps the count across `ResetState`;
- a Spider pop loop (`PopGroupTopOnly`) for `EndToEnd`;
- a second `Execute` that reuses the exhausted iterators;
- a swap file with a trailing newline;
- a memory reader that moves without `HasNext`.

**Bounds.** Spider's properties are about how attributes interact within one
value group and across rounds. Four attributes over three values give:

- groups of every size;
- chains and mutual inclusions;
- attributes that finish early.

Two attributes suffice for the split case, and they keep the initial states
few. For DomainManager, the limit, costs and capacity are chosen so that the
first estimate grants two blocks, a second table starts with memory held, and
both swap branches and the size_t wrap are reachable. A 6-bit word is wide
enough that the wrap shows only when usage exceeds the limit.

**Fairness.** Both components are single-threaded loops with no waits:
`WF_vars(Next)` says only that the running loop takes its next step. The
domain builder's column parallelism is inside one step. All runs set
`CHECK_DEADLOCK FALSE` because both loops really stop, at `pc = "done"` (or
at `"fpe"`).

## 4. Findings

1. **`column_domain.cpp:209`, `spider.cpp:72`.** A value duplicated across
   partitions makes Spider prune valid UINDs (`discovery_swap`). The design
   text calls such duplicates harmless. They arise whenever a table's tails
   were swapped and a value recurs later in the column.
2. **`column_domain.cpp:170`.** The first estimate of each table ignores the
   memory held by the earlier domains.
3. **`column_domain.cpp:177`.** The unsigned subtraction wraps when usage is
   over the limit.
4. **`column_domain.cpp:209`.** An empty tail partition can reach a
   finalized domain. `MemoryBackedReader` asserts on it.
5. **`column_domain.cpp:176`.** The per-block usage can be 0, and line 177
   divides by it (SIGFPE).
6. **`ind_verifier.cpp:107`.** An empty LHS gives a NaN error; spec 8.7 says
   the error is in [0, 1].
7. **`column_domain.cpp:125`.** A value containing a newline comes back from
   the swap file as several values (spec 8.6 says the round trip is exact).

## 5. Plan for the remaining work

1. **Swap-file names shared between instances.** Within one DomainManager
   the names are checked unique (`UniqueSwapPaths`). Two instances use the
   same names, because nothing in a name identifies the instance. A second
   owner of the `tmp/` namespace would show the collision listed as a
   hazard in `PROJECT.json`. It needs a violation run, and all twelve run
   slots are in use.
2. **ColumnDomainIterator.** Its `.cpp` is not in the repository. The merge
   stays spec-modelled inside `Spider.tla`.

## 6. Not modelled

- File I/O failures (exceptions on open).
- The recursion depth of `TryStoreNextRow` (a stack overflow after many
  malformed rows is beyond a model of bounded rows).
- `GetOptimalBlockCapacity`'s `pow`/`log2` (column_domain.cpp:249). This
  is floating point, and the capacity is a constant here.
  `pow(2, log2(x))` is `x` up to rounding, so for 16 to 63 MB limits that
  are not powers of two, the capacity is not the power of two spec 4.4
  names. It only sizes blocks, and no property depends on it.
- The `int` cluster ids of the verifier overflow only past 2^31 distinct
  violating values.
- Swap-file name collisions between two DomainManager instances (see the
  plan).
- The MemLimit option parsing.
- The Python bindings.
- The MD similarity measure.
- Tests.

`PROJECT.json` lists each of these with its reason.
