# VectorVault in TLA+

VectorVault is an embedded vector database in C++20: named collections of
vectors with metadata, exact and approximate k-nearest-neighbour queries, one
custom arena allocator for all vectors, and one snapshot file per saved
collection. This directory holds TLA+ models of its parts, the TLC
configurations that check them on small instances, and TLAPS proofs of
their safety properties for instances of any size. Paths below are relative to the repository.

## 1. Inventory

| Component | State | Operations | Used by / uses |
|---|---|---|---|
| Memory allocator (`src/core/memory_allocator.cpp`) | free list by offset, table of live blocks, byte and block totals, totals per tag, one mutex | `allocate`, `release`, `release_all`, `stats` | all collections of an engine share one |
| Record store, `Collection` (`src/core/collection.cpp`) | `std::map` id → slot (pointer to a block or into a mapped file, metadata), record count, index, readers-writer lock | `insert`, `insert_batch`, `remove`, `get`, `count`, `info`, `build_index`, `query`, `snapshot_data` | allocator, indexes, distance functions |
| Query path (`Collection::query`, `src/core/distance.cpp`) | none of its own | validation, index or scan, re-rank, fall back, sort, truncate | runs under the shared lock |
| Engine (`src/core/engine.cpp`) | registry name → collection, next tag, one mutex; handles kept by callers | create, get, delete, list, save, load | collections, allocator, persistence |
| IVF index (`src/core/ivf_index.cpp`) | entries with tombstones, lazily rebuilt centroids and cells, dirty flag | `add`, `remove`, `search`, `serialize` | called by the collection under its lock |
| HNSW index (`src/core/hnsw_index.cpp`) | nodes with layers of neighbours, entry point, tombstones | `add`, `remove`, `search`, `serialize`, `deserialize` | same |
| Snapshot protocol (`src/core/persistence.cpp`, `save`, `load`) | files; a counter for temporary names; mappings owned by loaded collections | write to a temporary file, sync, rename, sync directory; map, verify | engine |
| Snapshot format (`encode`, `load`, `snapshot_format.hpp`, `crc64.cpp`) | none | encode; checksum, verify and rebuild | engine |
| SIMD kernels and dispatch (`src/core/distance.cpp`) | the kernels bound when the process starts | detection, dot product, squared distance | distance functions |
| Python bindings (`src/python/module.cpp`) | none of their own; the interpreter lock and the frames of the methods in progress | every method of `Engine` and `Collection`, conversion of arguments, results and errors | engine, collections |
| Value types and errors (`types.hpp`, `error.hpp`) | none | | everywhere |

What is hard here, and what makes each part correct:

* **Allocator.** Any order of releases must leave the arena partitioned into
  live blocks and maximal free spans; accounting must be exact also with
  zero-byte blocks; double and foreign releases must be harmless; exhaustion must
  be real.
* **Collection.** A batch is all or nothing although every `allocate` in it may
  fail, other collections use the same arena between any two of its steps, and
  an overwritten block is given back before the slot stops pointing at it.
  Index and store are updated by separate calls and must agree. Readers under
  the shared lock must see one state.
* **Query.** The index is approximate, may know removed records and may return
  too few; the answer must nevertheless be complete, exact in its distances,
  and ordered with ties broken by identifier.
* **Engine.** The registry mutex is held while a collection lock is awaited.
  Tags must not be reused, since `release_all` works by tag.
* **IVF.** A `const` search rewrites cached cells under a *shared* lock.
  Tombstones, revived entries and replaced vectors must never survive in a clean
  cache.
* **HNSW.** Tombstones still carry the graph; a revived or replaced node keeps the
  edges of its old vector; trimming an overflowing list drops edges on one side
  only; the entry point must be a node of the highest layer after any removal and
  load. A search must never read a layer a node does not have.
* **Kernels.** The vectorised sums must take every component once, for lengths
  around a multiple of the register width, and overflow as the scalar ones do.
* **Python.** Argument conversion runs arbitrary Python code in the middle of a
  method, and other threads with it; no core failure may arrive as anything but
  the package's exceptions.
* **Persistence.** Every file-system call may fail, the process may die and the
  machine may crash between any two; a load looks at the path three times while
  saves replace it; a loaded collection keeps reading from its mapping.
* **Format.** A load reconstructs pointers into the mapping from fields of the
  file, and the header is outside the checksum.

The hazards, each with its line and the properties aimed at it, are in
`PROJECT.json`.

## 2. Modules

| Module | Models | Composition |
|---|---|---|
| `Maps` | finite maps (`Put`, `Erase`, empty), sorting | used by most |
| `Arena` | abstract: an arena grants vacant byte ranges and takes them back, one at a time or by tag | |
| `MemoryAllocator` | the allocator, in its own `size_t` arithmetic | implements `Arena` |
| `VectorStore` | abstract: stores change by whole batches and single removals, one collection at a time; an accepted batch may still be refused | |
| `Collection` | record stores of several collections over one arena, threads inside calls | implements `VectorStore` |
| `Engine` | registry, tags, mutex, handles, snapshots of whole collections | extends `Collection` |
| `Distance` | the three distance functions, scalar and vectorised, over a small float format with overflow | |
| `Query` | `Collection::query` over any answer of the index | extends `Distance` |
| `IvfIndex` | the IVF index with concurrent searches and reloads, beside the record store it indexes | |
| `LayeredGraph` | abstract: how the layers and links of an HNSW graph may change | |
| `HnswIndex` | the HNSW index in full, beside the record store it indexes | implements `LayeredGraph` |
| `Bindings` | Python threads, the interpreter lock, conversions and exceptions | extends `Engine` |
| `SnapshotFile` | abstract: a file that is replaced atomically, and what a crash may leave | |
| `Persistence` | every step of `save` and `load`, failures, deaths, crashes | implements `SnapshotFile` |
| `Crc64` | the checksum, at its full width | |
| `Snapshot` | `encode`, and the validation and rebuilding in `load` | takes the checksum as a constant, which `MCSnapshot` gives it from `Crc64` |
| `MCCollection`, `MCEngine`, `MCBindings`, `MCHnswIndex`, `MCIvfIndex`, `MCQuery`, `MCSnapshot` | values of the constants for TLC | |
| `ProofLemmas` | least elements, induction, recursion in stages, recursion and ranks over finite sets, sorting, and the order of fractions, for the proofs | |
| `MemoryAllocatorProofs`, `PersistenceProofs` | proofs | each extends its component |
| `EngineProofs` | proofs of the collections, the engine and the bindings | extends `Bindings` |
| `QueryProofs`, `IvfIndexProofs`, `HnswIndexProofs`, `SnapshotProofs` | proofs | extend their component and `ProofLemmas` |

### How state and actions correspond to the code

**MemoryAllocator.** `free_by_offset`, `live` and the counters are the members
of the class; offsets stand for addresses relative to the aligned base.
`Allocate` is the first-fit search, the split, the record and the counters;
`Release` the lookup, `free_span` with coalescing on both sides, and the
counters; a pointer that is not in the table is ignored. The public calls hold
the mutex for their whole length and are one action; `release_all` visits a hash
table in unspecified order and is one action per iteration, `releasing` being
the call that holds the mutex. Arithmetic is modulo `SizeMod`.

**Collection.** A call holds its collection's lock from its first step to its
last, so `CanWrite` and `CanRead` are the lock. A call is split at its calls to
the allocator: `Stage` (allocate and copy), `StageFails`, `Rollback`,
`ReleaseOld`, `Install`, `StartRemove`, `EraseRecord`. Those are the points where
threads in *other* collections interleave with it. `insert` is a batch of one
record: the code has the same steps in the same order. A read is a pair of
steps, `StartRead` and `EndRead`; what it copies out must not change in
between. The arena is abstracted to blocks of equal size, any free one being granted; that is the
abstraction of `Arena` for collections of equal dimensionality. An index is the
map of its live entries; that both indexes are that map, and hold what the record
store holds, is `IndexAgrees` of `IvfIndex` and of `HnswIndex`. `Params`
stands for `m` and `nlist`; the test of `ef_construction` is left out.

**Engine.** `create_collection`, `get_collection`, `delete_collection` and
`load_collection` run under the mutex without waiting for anything modelled and
are one action each. `list_collections` and `save_collection` wait for shared
locks with the mutex held and are split there (`StartList`, `StartSave`,
`Inspect`). A save writes all of its copy or nothing (`Persistence` shows why). The contract of
`CollectionHandle` (`collection.hpp:201-204`) makes it undefined to use a handle
across the deletion of its collection: `UseHandle` requires a registered
collection and `DeleteCollection` that no call is in progress on it.

**IvfIndex.** `search` is split where it first reads `dirty_`, where it starts to
rewrite the cells, and where it reads them. `records` is the collection's store,
changed with each `add` and `remove`; `Reload` builds a new index from it, which
is what a save and a load come to. Vectors are integer points on a
line, centroids exact fractions; the seeded shuffle is any of a given set of
permutations, fixed per behaviour since the seed is.

**HnswIndex.** `nodes`, `entry_point`, `max_level` and `live_count` are the members
of the class, internal identifiers being positions (from 1, since 0 is the model's
"no entry point"). `add` and `remove` run under the exclusive lock and are one
action each (`AddNew`, `AddKnown`, `remove`); a search changes nothing and is the
operator `search`. The loops are recursive functions over the code's own state:
`greedy_descend` and `Descend`, the heap-driven exploration (`Visit`, `Expand`,
`search_layer`; a heap of (distance, id) pairs is a set with its order),
`select_neighbors_heuristic`, and `connect_node` with the trimming of lists that
overflow. `serialize` and `deserialize` are the canonical region and its
reconstruction, `Reload` the pair. The random level is any up to a bound; the
metric is any function of two vectors.

**Distance and Query.** One action per path of `query`. The index may return any
list of at most `k` identifiers. `Distance` computes with
integers up to `FloatMax`, beyond which a float is infinite, so that `inf / inf`
is NaN as in IEEE arithmetic; rounding and underflow are left out. The AVX-512
kernels keep `Lanes` partial sums and a remainder loop, and narrow each
difference to float before they square it; which kernels a process has bound
(`uses_simd`) is either, for good.

**Bindings.** The extension never releases the interpreter lock, so a thread in the
core holds it until the core call returns (`DropGil` requires `~InCore`).
A method of `Collection` is split at its conversions, which may run Python code and let the
lock change hands: `Method` resolves `self`, then `ConversionFails`, `CoreRefuses`
or `CallCore`, whose continuation is the collection's own (`CoreStep`). Methods of
`Engine` convert only strings and numbers and enter the core at once. `k32` is the clamp of a
Python integer to `uint32_t`, and `CoreError` the translation of a category to
the exception types. A collection is not deleted while another thread converts
arguments for it (the handle contract again); that nobody is *inside* it is not
assumed but follows.

**Persistence.** One action per file-system call of `save` (POSIX branch) with a
failing twin. `load` looks at the path twice: `Stat` stands for `exists`,
`is_regular_file` and `file_size`, between which only the file's size could
matter, and that is checked again on the mapping; `Map` opens it by name again. The file system is
external: a name leads to an inode; `data` is what readers see, `stable` what a
crash leaves. `rename` is atomic; until the directory is synced a crash may
leave any of the files renamed since. Content not synced is torn after a crash.
The best-effort sync of the directory may fail without consequence for the call.

**Snapshot.** A file is a header record and a sequence of cells, one per encoded
value. `encode` and `load` are operators over it in the order of the code's
steps; the state machine saves, damages at most one place, and loads. What may be
captured is `CollectionSnapshotData`: records in the order of their identifiers,
with vectors of one length, and an index region that agrees with them. The content
checksum is a constant operator, which the run sets to the real CRC-64 over the
cells, each one byte; `Crc64` computes in sets of bits, and an assumption TLC
evaluates compares it with the published check value of the polynomial. Metadata is
the list of a `std::map`'s entries; `read_metadata` keeps the first of several values
of a key, as `emplace` does.

## 3. Runs

Times are for two workers on a small machine.

| Run | Shows |
|---|---|
| `allocator` (46 k states) | `Partition`, `Coalesced`, exact totals globally and per tag, no false exhaustion, refinement of `Arena`, and that the loop of `release_all` ends |
| `collection` (123 k) | `BlocksAccounted` (no block leaked, shared or outlived by a slot), `IndexAgrees`, `ReadersStable`, refinement of `VectorStore`: atomic batches, isolation; `CallsShrink`: every step of a call leaves it fewer to take |
| `engine` (288 k) | `RegistrySound` and `NoOrphanBlocks`, which include the two invariants above, through create, delete, save and load; `RegistryChangeIsolated`; `SavesAndLoadsExact`: a snapshot never holds half a batch, a load gives back what was saved; and `EveryCallReturns`: no deadlock between the registry mutex and the collection locks |
| `bindings` (64 k) | `OneThreadInCore`; `CoreNeverWaits`: no lock of the core is held where Python code runs; every core failure reaches Python as one of the package's exceptions; `QueryReturnsK` also for integers beyond 32 bits; `PythonRuns`: every method returns and nobody keeps the interpreter |
| `hnsw` (29 k) | the index holds exactly the records, the graph is well formed and within its degree caps, searches are exact over what is connected, what is connected as long as no list overflowed (`NothingCutOff`), regions round-trip, refinement of `LayeredGraph` |
| `ivf` (531 k) | the index holds exactly the records, a clean cache covers exactly the live entries in the nearest cells, searches are exact where they should be |
| `query` (58 k) | answers are complete, exact, ordered, and leave out nothing better, whatever the index returns; both kernels give the same distances, also where a difference overflows in a register |
| `persistence` (295 k) | `ImplementsSnapshotFile`: saves are atomic through failures, deaths and crashes; mapped files never change; the engine's own files always load |
| `snapshot` (62 k) | save → load → save is the identity; damaged content is always rejected; a damaged header never leads outside the file |

Three more runs show where the code and a statement about it differ. Each checks
one property that states what the comment or document says, and TLC refutes it;
the quotations are in `PROJECT.json` under `findings`.

| Run | Shows |
|---|---|
| `ivf_race` | two queries under the shared lock both rebuild the IVF cells: a data race on `centroids_`, `inverted_lists_` and `dirty_` |
| `query_nan` | finite vectors whose squared norms overflow have cosine distance NaN, which the sort is documented never to see |
| `ivf_reload` | cells rebuilt after a load may differ from those before the save: the shuffle permutes slots, and the load re-adds in identifier order |

`ivf_race` needs threads of a C++ program: `OneThreadInCore` shows that Python threads
cannot meet.

Seen while modelling, without a run of their own:

* `round_up` wraps for requests within 63 bytes of `SIZE_MAX`, and such a request
  is granted one chunk (`memory_allocator.cpp:12`). No caller asks for so much;
  the theorem `RequestsFit` carries the side condition.
* `collection.cpp:263` says "nprobe is validated at query time"; `query` does not
  look at it and `IvfIndex::search` clamps it, as `Probed` does.
* `CollectionHandle::valid()` is "True when the handle refers to a live
  Collection" (`collection.hpp:210`) but tests the pointer only, so it is true of
  a handle to a deleted collection.
* `persistence.cpp:534-536` says that each loaded vector is 64-byte aligned. Vectors
  are packed, so that is so only when their size is a multiple of 64; the kernels
  use unaligned loads.
* `collection.hpp:34-36`, `docs/cpp-api.md:150-152` and `README.md:48-49` say that
  save takes the exclusive lock of a collection; `snapshot_data` takes the shared
  one. That is enough, as `ReadersStable` shows.
* `persistence.cpp:137` calls the temporary name "process-and-call-unique"; it is
  the clock and a counter of the process and has no process identifier, so two
  processes may take the same name.
* `hnsw_index.cpp:317-318` says that with `ef >= k` "a small ef never starves the
  result of k live candidates". Tombstones among the `ef` nearest do; the query then falls
  back to a scan, which is why `AnswerComplete` holds.
* Trimming an overflowing list, and a load that drops tombstones, may disconnect
  live HNSW nodes. `NothingCutOff` says up to where they cannot.
* From `m = 2^31` on, `max_neighbors_upper_ * 2u` (`hnsw_index.cpp:30`) wraps, to a layer-0
  limit of 0 at that value; validation (`collection.cpp:245-262`) accepts such an `m`.
* `docs/python-api.md:142` lists `"none"` as an index type of `build_index`; the
  core rejects it (`collection.cpp:272-276`).
* A Python `k` beyond `long long` raises `RuntimeError` (the failed cast at
  `module.cpp:487`) although any large `k` "returns all records".
* `distance.cpp:26-29` says the SIMD kernels widen to double; the difference in
  `avx512_l2_squared` is taken in float first. `KernelsAgree` holds because the
  difference overflows only where the sum does.
* `docs/concepts.md:37-38` says that computing a cosine distance to a zero-magnitude
  vector raises `UndefinedDistanceError`, and `docs/python-api.md:234` lists that
  exception. A query, the only way from Python to a distance, counts an undefined
  distance as +infinity and sorts the record to the back (`collection.cpp:342-364`,
  as `collection.hpp:133-135` announces), so Python never sees the exception; only
  the calculator's own C++ callers get the error. `NearestFirst` states what the
  code does.
* A damaged header byte that stays consistent (for instance another valid metric)
  is accepted by `load`, because the checksum covers the content only.

### Bounds, and why they are enough

* *allocator*: five chunks of four bytes out of 22 (the tail that the constructor
  trims is there), requests of 0, 1 and 2 chunks, two tags. Five chunks
  allow a free span with live neighbours on both sides, all four cases of merging,
  a split, and a request that fails although enough bytes are free. The proofs
  lift the bound.
* *collection*: two threads, two collections, three blocks, batches of up to two
  records, three calls. Two batches compete for the third block, so every
  staging failure happens with and without something staged; a batch may hold one
  identifier twice; one collection may start as loaded.
* *engine*: two threads, two names, three tags, two blocks, six calls, without
  symmetry since the run checks liveness. Three tags allow create, delete,
  and create again under one name; a failed load uses up a tag.
* *bindings*: two threads, two names, two tags, one block, four calls. Integers are of three
  (`uint32_t`) and five (`long long`) bits, and `k` takes values beyond each limit:
  below 1, beyond `uint32_t`, and beyond `long long`.
* *hnsw*: four identifiers over three points of a line, two of them moving between
  two points, `m = 2` (its minimum: two links above layer 0 and four on it), two
  layers, `ef_construction` 2, five operations, searches with `k` 1 and 3 and `ef_search` 0 and 5.
  The fifth operation revives, replaces or removes in a graph of four nodes. Lists above layer
  0 overflow with four nodes; those of layer 0 cannot, so their trimming is covered
  only by the code it shares (`Trimmed`).
* *ivf*: three entries at three points, 0 (automatic), 2 or 3 cells, three shuffles.
  With three points the iteration cap of 12 is never reached: that entries are in
  their nearest cells is a statement about runs that converge, which the proofs make
  explicit. `VIEW` drops the cells of a dirty
  cache, which the rebuild clears before anything reads them.
* *query*: up to three records, `k` of 0, below, at and above their number,
  candidate lists of up to two identifiers with duplicates and strangers; registers
  of two lanes and vectors shorter than one, of whole ones, and with a remainder.
  Floats end at 50; the kernels' components are small (0, 1, 3) or large (-30, 30), so
  that sums stay finite, sums overflow, and differences (60) overflow in a register.
* *persistence*: two saves, one load, one path, two clock readings. One save can
  be at any step while the other is, and one load spans both.
* *snapshot*: up to two records of one or two components, absent, empty and
  non-empty metadata, all index types, and one damage anywhere, of the values
  0 to 12 that are too small, in range, and too large for each field.

Symmetry (of threads, blocks and similar model values) is used in `collection`
only, which has no liveness property. Deadlock is switched off in `query` and `snapshot`, where
a behaviour is one call.

### Fairness

* `allocator`: weak fairness of the iteration of `release_all`. It is a loop in
  one thread that holds the mutex and waits for nothing.
* `engine`: weak fairness, per thread, of the continuation of a call on a
  collection and of `Inspect`. A thread inside a call executes straight-line code
  that waits only for the lock `Inspect` names; no fairness is assumed of callers.
  Weak fairness of `Inspect` is enough because the calls in a behaviour are bounded, so the lock is eventually free for good;
  without the bound it would need a lock that does not starve readers, which
  `std::shared_mutex` does not promise.
* `bindings`: weak fairness of the core's steps, as above, and of a thread outside
  the core dropping the interpreter lock, which the interpreter's switch interval
  enforces. Strong fairness of taking it, because it is free only now and then:
  the interpreter does not starve a waiting thread. And strong fairness of the
  step a converting thread takes when it has the lock: conversion is assumed to
  end, so Python code that never returns from an item access is excluded.

The other specifications are safety specifications without fairness.

## 4. Proofs

Every theorem holds for all values of the constants that satisfy the
assumptions named with it; TLC evaluates those assumptions in the run of the
component. A theorem that names a property of a run states of every instance
what the run shows of one.

### Allocator (`MemoryAllocatorProofs`)

For every capacity, alignment, width of `size_t`, set of requests and set of
tags:

| Theorem | Statement |
|---|---|
| `TypeCorrect` | `Spec => []TypeOK` |
| `ArenaPartitioned` | `Spec => []Partition`: live blocks and free spans are disjoint and cover the arena |
| `AlwaysCoalesced` | `Spec => []Coalesced`: no two free spans touch |
| `NoFalseExhaustion` | `Spec => []RefusedOnlyWhenFull`: a refusal means that no vacant run holds the request |
| `BlocksAligned` | `Spec => []AllAligned` |
| `RequestsFit` | `Spec => []BlockHoldsRequest`, if no request wraps when rounded up |
| `TotalsExact` | `Spec => []TotalsMatch`, under the same condition |
| `Refinement` | `Spec => ImplementsArena` |

Assumptions: `AlignmentAssumption` (positive alignment and width),
`CapacityAssumption` and `RequestAssumption` (both fit `size_t`) and
`TagAssumption` (`NoTag` is no tag).

The inductive invariant is `IInv`: `TypeOK`, `Partition`, `Coalesced` and
`CountMatches`. `Partition` is not inductive alone: `free_span` merges with at
most one span on each side, and that nothing else touches the result needs
`Coalesced`; the block counter, decremented in `size_t`, stays typed because it
counts the table (`CountMatches`). The core is a group of lemmas about the two
operators on free lists, as functions and not as state: `FreeSpanShape` and
`FreeSpanFacts` (what merging returns, that it covers exactly the old bytes and
the new ones, and that it is good again) and `CarveFacts` (what a split
leaves). `AllocateIInv` and `ReclaimIInv` apply them once per kind of action,
and `release` and `release_all` share the latter. `NoFalseExhaustion` rests on
`VacantRunInOneSpan`: in a partitioned, coalesced arena every vacant run lies
in one free span. `Refinement` maps a grant to the abstract grant using
`ArenaPartitioned`.

`TotalsExact` needs the stronger `TInv`, in which every total is the sum over the
table and not only congruent to it. `RequestedIs` makes the sum independent of
the order in which it is taken; `RequestedBelow` bounds it: disjoint blocks that
hold their requests ask for no more than the arena, so no counter wraps. The
condition is needed: two requests near the width of `size_t`, rounded up to
nothing, each get one chunk, their sum wraps, and a tag whose counter passes
through zero loses its entry.

### Collections (`EngineProofs`)

For any threads, collections, blocks and inputs, and batches of any length:

| Theorem | Statement |
|---|---|
| `TypeCorrect` | `Spec => []TypeOK`, which includes that `record_count` counts the records |
| `BlocksOwned` | `Spec => []BlocksAccounted`: no block is leaked, shared or outlived by a slot |
| `IndexExact` | `Spec => []IndexAgrees` |
| `ReadersUndisturbed` | `Spec => ReadersStable` |
| `CallsEnd` | `Spec => CallsShrink`: every step of a call leaves it fewer to take |
| `Refinement` | `Spec => ImplementsVectorStore`: batches are atomic and collections isolated |

Assumptions: `TagAssumption` (`NoTag` is no tag, `Mapped` no block),
`InputAssumption` (some input passes validation), `BoundAssumption` (the bounds
are numbers) and `SnapshotAssumption` (a snapshot is a finite map of valid
records).

The inductive invariant is `IInv == Types /\ TypeOK /\ Locks /\ CallsSound /\
Exact /\ Indexed`. `BlocksAccounted` alone is not inductive. `Locks` says that
who writes is alone in its collection; `CallsSound` what a call knows at each
step (how much of the batch is staged, that the identifier in hand is stored);
`Exact` restates `BlocksAccounted` over threads and positions, so that a step,
which touches one thread and one collection, disturbs few instances of it.
`Indexed` needs `Exact`: the block a batch fills is free, so no slot sees it
change. Each action's lemma ends in `Local` facts about its own collection;
`StepIInv` lifts them to the whole state. The refinement maps a batch being
installed to the overlay of what is installed and what is still staged
(`OverlayStep`): the abstract batch happens at the end of staging, in one step.

`CallsEnd` bounds every call by `StepsLeft`: three steps for each record of the
batch and one more. It needs `CallsSound`, since a rollback has something to give
back and an install has a record left, and `Locks`, since no other thread's step
may touch the call.

### Engine (`EngineProofs`)

| Theorem | Statement |
|---|---|
| `RegistryIsSound` | `ESpec => []RegistrySound` |
| `NoBlockOrphaned` | `ESpec => []NoOrphanBlocks` |
| `OthersUntouched` | `ESpec => RegistryChangeIsolated` |
| `NoDeadlock` | `ESpec => []NoWaitCycle`: the registry mutex and the collection locks form no circle of waiting threads |
| `SaveLoadExact` | `ESpec => SavesAndLoadsExact` |
| `ReadersUndisturbedInEngine` | `ESpec => ReadersStable` |
| `StoresAtomicInEngine` | `ESpec => StoresMoveAlone`: while the registry stays as it is, the stores move only as `VectorStore` allows |
| `CallsEndInEngine` | `ESpec => CallsShrink /\ EngineCallsShrink`: calls take a bounded number of steps, list and save read each collection once |

Assumption: `EngineAssumption` (tags are numbers; `NoTag` is no thread,
`NoFile` no path). The inductive invariant is `EIInv`: the collections' `IInv`,
`Directory` (the registry names each tag once, tags are below `next_tag`, and
only the holder of the mutex has collections to inspect), `Attributed` (calls
and blocks belong to registered collections) and `FilesSound` (the index in a
snapshot agrees with its records, without which a load would break
`IndexAgrees`). A tag not handed out yet has no call and no block, so `create`
and `load` and `load` are steps in one collection and reuse `StepIInv`. A step of a call
is a step of `Collection`, whose lemmas apply as they are.

`EngineSteps` says what every engine step is to the collections: it registers or
drops one while every call stands still, or leaves the stores and calls alone, or is
a step of a call. What `Collection` promises of steps carries over by these cases
(`EngineKeeps`). `NoDeadlock` adds to `EIInv` one fact, `Waiting`: a thread with
engine work is in no collection. `SaveLoadExact` rests on `AtRest`: where nobody
writes, the abstract contents are the concrete ones; a save reads under the shared
lock, and nobody is inside a collection just loaded. That a load gives back what
was saved needs `FilesSound` to fix the shape of a snapshot's records too.

### Python (`EngineProofs`)

| Theorem | Statement |
|---|---|
| `BTypeCorrect` | `BSpec => []BTypeOK`, which includes that core failures arrive as the package's exceptions |
| `AloneInCore` | `BSpec => []OneThreadInCore` |
| `KRespected` | `BSpec => []QueryReturnsK`, if no collection can hold more records than `uint32_t` counts (`RecordsFit`) |
| `EngineUnderPython` | `BSpec => EInit /\ [][ENext]_evars` |
| `SoundUnderPython` | `BSpec => [](RegistrySound /\ NoOrphanBlocks)` |
| `KeptUnderPython` | `BSpec =>` the engine's action properties: `ReadersStable`, `StoresMoveAlone`, `RegistryChangeIsolated`, `CallsShrink`, `EngineCallsShrink`, `SavesAndLoadsExact` |
| `NoWaitUnderPython` | `BSpec => []CoreNeverWaits`: the interpreter lock and the locks of the core cannot block each other |

Assumptions: `WidthAssumption` and `PyIntAssumption` (`long long` is at least
as wide as `uint32_t`; arguments are integers). `BIInv` adds to `EIInv` who
holds the interpreter lock and `Framed`: the collection a method has resolved
stays registered until the core is entered. `EngineUnderPython` is the point of
the module. `Engine` takes it from its callers that nobody is inside a
collection that is deleted; here that follows, since whoever is in the core
holds the lock. `RecordsFit` is needed because `k` is clamped to 32 bits: with
more records than that, a larger Python `k` would get fewer.

### Snapshot protocol (`PersistenceProofs`)

For any saves, loads, foreign files and readings of the clock, if one process
saves to the path (`OneProcess`):

| Theorem | Statement |
|---|---|
| `TypeCorrect` | `Spec => []TypeOK` |
| `LoadsAcceptOwnFiles` | `Spec => []OwnFilesLoad` |
| `MappedFilesKept` | `Spec => MappingsStable` |
| `Refinement` | `Spec => ImplementsSnapshotFile`: saves are atomic through failures, deaths and crashes |

Assumption: `FileAssumption` (calls, foreign files and the special contents
differ). The core of the inductive invariant is `Private`: a temporary name
leads to an inode to which no other name, no possible target and no mapping
leads, so what a save writes nobody sees before the rename. `Written` and
`EntriesWhole` carry contents from there: what is renamed is whole and on disk,
so whatever a crash leaves under the path is too. `OneProcess` is not an
artefact: the temporary name is the clock and a counter of the process
(`persistence.cpp:137`), and two processes that take the same one write into
one file. The `persistence` run is one process as well.

### Queries and kernels (`QueryProofs`)

| Theorem | Statement |
|---|---|
| `KernelsEquivalent` | `Spec => []KernelsAgree`: for vectors of every length and registers of every width |
| `AnswersRight` | `Spec => [](DistancesNeverNaN => AnswerComplete /\ NearestFirst)` |
| `FiniteNormsSuffice` | if no squared norm overflows, `Spec => [](DistancesNeverNaN /\ AnswerComplete /\ NearestFirst)` |

Assumptions: `FloatAssumption` and `QueryAssumption` (identifiers are finitely
many integers; vectors are of one length). The premise `DistancesNeverNaN` is
what `collection.cpp:404` relies on and run `query_nan` refutes;
`FiniteNormsSuffice` says when it holds, and so what a caller has to keep to.

`KernelsEquivalent` is an induction over the registers: after any number of
them the lanes hold the sums of the components passed (`RegistersOfLoop`,
`RegisterSumIsSum`). Overflow is compared through the sum: a difference that
overflows belongs to a sum that does (`TermsInSum`). `AnswersRight` follows
from one fact about every state: an answer is the pool ranked by exact
distances (`RanksPool`), where the pool is the live candidates or all records.
`FractionsOrdered` makes the cosine distances a total order.

### IVF index (`IvfIndexProofs`)

| Theorem | Statement |
|---|---|
| `IndexExact` | `Spec => []IndexAgrees` |
| `CellsSound` | `Spec /\ []SerialisedAccess => [](EachInOneCell /\ AnswersSound)` |
| `CellsNearest` | `Spec /\ []SerialisedAccess => [](Converged => CellsCoverLive)` |
| `SearchesExact` | `Spec /\ []SerialisedAccess => [](Converged => SearchExact)` |

Assumptions: `IterationAssumption` (at least one iteration), `NumberAssumption`
(identifiers, points and parameters are numbers) and `ShuffleAssumption` (a
shuffle maps positions to positions; nothing needs it to be a permutation).

`SerialisedAccess` says that no two searches rebuild the cells at once. Run
`ivf_race` shows that C++ threads can break it, which is a data race in the
code after which the cells may be anything; the Python bindings keep it (`AloneInCore`).
`Converged` says that Lloyd's iterations end by themselves and not at
`kMaxKMeansIterations`: the code stops there with entries that may not be in
their nearest cells. The run cannot reach that case; the theorems separate what
needs convergence (`CellsNearest`, `SearchesExact`) from what does not
(`CellsSound`: each live entry in one cell, no tombstone in any, and answers
that are live, at most `k`, and the `k` best when every cell is probed). The
inductive invariant is `Types /\ Cached`: a clean cache is what a rebuild of
the present entries would give, and a search reads it only when clean. That a
converged k-means leaves every entry in the nearest cell is `LloydIs`: a round
that moves no entry leaves the means as they were (`MeansSettle`).

### HNSW index (`HnswIndexProofs`)

For any identifiers, points, metric, `m`, `ef_construction`, levels and sequence
of operations:

| Theorem | Statement |
|---|---|
| `IndexExact` | `Spec => []IndexAgrees` |
| `GraphIsSound` | `Spec => []GraphSound`: every edge leads to a node of its layer, within the caps, and the entry point reaches `max_level` |
| `RoundTrips` | `Spec => []RoundTrip` |
| `SearchesExact` | `Spec => []SearchExact` |
| `NoneCutOff` | `Spec => []NothingCutOff` |
| `Refinement` | `Spec => ImplementsLayeredGraph` |

Assumptions: `ParamAssumption` (the parameters are numbers, `UintMod` is
positive) and `MetricAssumption` (identifiers and distances are numbers, and
`NoNode` is no identifier). The metric need be neither symmetric nor a metric.

The inductive invariant is `Inv`: `Holds` (one node for each identifier, the
live ones holding the records), `Linked` (`GraphSound` of the edges), `Entered`
(of the entry point) and the live count. Its proof follows an insertion down:

* `Explored` is the invariant of `search_layer`: what is visited is connected to
  the start, the result is the `ef` nearest of what is visited, and whatever has
  been expanded has its neighbours visited. Each expansion takes a
  candidate that was never one before, so `Len(nodes)` of them reach
  `Finished` (`SearchLayerIs`); that the bound in the model's loop is
  no bound is proved here, and for `greedy_descend` in `GreedyIs`.
* `SelectionIs` and `TrimIs` say what the heuristic and the caps leave of a list,
  `ConnectIs` what an insertion on one layer changes, and `ConnectedIs`
  carries it through the layers as `Grown`: the new node and those it chose
  have changed on the layers passed, and nothing else. `Grown` is also the
  step of `LayeredGraph`, which is why the refinement needs little more.
* A set has one enumeration in a strict order (`SortedUnique`), so a load
  gives exactly the nodes `RegionNode` describes, in the order of their
  identifiers (`LoadIs`). `RoundTrips` follows: those nodes are their own
  canonical order.
* `Reachable` is the least set that contains its start and is closed under
  edges (`ReachableIs`). An exploration no `ef` limits stops at such a set
  (`FoundIs`), so it finds exactly what is reachable.
* `NothingCutOff` follows from `Joined`: while no list of layer 0 can overflow,
  only all its nodes together are left by no edge. `Tied` says what an insertion
  does there: no edge is lost, since no list is trimmed, and the new node and the
  nearest it chose lead to each other, since the heuristic never chooses none
  (`TiedIs`). A removal changes no edge, and a load that drops no tombstone
  numbers them anew.

### Snapshot format (`SnapshotProofs`)

For any layout, collections, cell values and checksum:

| Theorem | Statement |
|---|---|
| `AcceptedInside` | `Spec => []AcceptedInBounds`: what `load` accepts, of a damaged file or another, lies inside the file |
| `RoundTrips` | `Spec => []RoundTrip` |
| `DamageRejected` | `Spec => []ContentDamageRejected`, if the checksum tells every damaged content from the one written (`Detects`) |

Assumptions: `LayoutAssumption` (header and alignment are positive, the limits
numbers), `CellAssumption` (a damaged cell is a number) and `CapturedAssumption`
(what is captured is `CollectionSnapshotData`; the collection's side of that is
`IndexExact` of the indexes and the order of `std::map`). Nothing is assumed of the
checksum in the first two, so `AcceptedInside` is about the checks of `load` alone,
which matters because the header is outside the checksum. `Detects` cannot be proved
of 64 bits; `MCSnapshot` has TLC evaluate it for the real CRC-64 on the instance of the
run.

The inductive invariant is `SInv`: what the file is, given what happened to it, and
that the outcome is what `load` makes of it. The work is in the operators.
`DirectorySound` is an induction over the entries read: however the cells are
chosen, a directory that parses has `record_count` records, none twice, each with
a place in the vector region; `PlacesInBounds` and `ValidInBounds` turn that into
bounds. For `RoundTrips`, `Laid` says where the parts of an encoded body lie
(`EncodedLaid`, from `FlattenIs`, which unrolls concatenation), `EntryReads` that
`load` reads each directory entry back as it was written, `DirectoryReads` that it
reads them all and stops in front of the vectors, and `AlreadySorted` that building
a `std::map` from entries in order changes nothing.

### Induction over data

The library's induction theorems take operators as parameters, which the
installed provers cannot instantiate. `ProofLemmas` does without: `Inductively`
derives induction over a set of numbers from its least element,
`SubsetInduction` the same for finite sets by cardinality, `Iterates` and
`SubsetRecursion` say that a function defined by recursion exists and obeys its
equation. `Stages` and `StagesDown` are its form for the loops of the indexes: each
step leads from one set of states to the next, so that each stage keeps a property
of its own. With them k-means, the kernels' loops, the exploration and the
descent of HNSW and the ranking of results, recursive functions all, are proved
and not only run.

### Only model-checked

* Liveness: `ReleaseAllReturns`, `EveryCallReturns`, `PythonRuns`. The safety half of
  the last two is proved: no circle of threads waits (`NoDeadlock`,
  `NoWaitUnderPython`), and the work of a call only shrinks (`CallsEndInEngine`,
  `KeptUnderPython`). That fairness then ends every call is left to TLC, and so is
  that a reader gets its turn: `MaxCalls` bounds the writers that may overtake it.
* What CRC-64 detects (`Detects`, the premise of `DamageRejected`).

### Only proved

No run checks these: `TypeOK` of the allocator and of persistence, which their
inductive invariants contain; `AllAligned`; `EachInOneCell` and `AnswersSound`;
`BlockHoldsRequest`; `NoWaitCycle`, beside `EveryCallReturns`;
`StoresMoveAlone` and `EngineCallsShrink`, which are stated for the proofs.

## 5. Not modelled

* **Windows branch** of persistence (`MoveFileExW`, `_commit`).
* **Rounding and underflow of floats, byte order and field widths of the format.**
  A cell of `Snapshot` is one encoded value and one byte of the checksum; of an HNSW region
  `Snapshot` keeps the node identifiers, and `HnswIndex` the rest.
* **Element-wise conversion in the bindings**: which vector, metadata value or message
  raised a `TypeError`. That any of them may is modelled.
* **Deletion during a call of a C++ program, or during a conversion in Python**:
  excluded by the contract of handles (`collection.hpp:201-204`).
* **Thread starvation by `std::shared_mutex`**, see Fairness.
* **The seeded random generators**: the shuffle of k-means and the levels of HNSW are any.
* **`std::bad_alloc`** from standard containers, which no code handles.
* **Value types**: plain data, they appear as records; `Result`, `Status` and
  `span` have no state of their own.

## 6. Plan

Done, in this order: the allocator with its abstract arena and proofs;
collections over the shared arena; the engine over collections; the IVF index;
queries; the snapshot protocol; the snapshot format; the HNSW index with its
abstract graph; both indexes beside the record store; the kernels; the checksum;
the Python bindings over the engine.

Proved, in this order: the allocator; the collections with their refinement;
the engine; the bindings; the snapshot protocol with its refinement; queries
and kernels; the IVF index; the HNSW index with its refinement; the allocator's
totals; the snapshot format; that calls end and cannot deadlock, that saves and
loads are exact, and what collections promise under the engine and under Python.
Every safety property that a run checks is proved.

What remains is liveness, which is out of the prover's reach, and in the models what
section 5 lists.
