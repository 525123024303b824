# A TLA+ verification of the Alelyon Compute Kit

This directory specifies the parts of the Alelyon Compute Kit whose correctness
depends on the order in which things happen: the deferred batch of the Vulkan
runtime, its barriers, its objects, its memory pools and its failures; the
transfer queue; the handles and threads of the C ABI; the expert bank on disk; and
the plans of the operators, whose correctness depends on which bytes each of
thousands of parallel units touches. Each module is translated from the source at
this commit and checked with TLC; the ordering of commands on the device, the life
of devices under threads, the transfer timeline, the geometry of launches, the
preparation, scratch, sorts and accesses of the operator plans, the exploration share
and the commits of the bank are also proved with TLAPS.

Paths below are short for `src/alelyon_compute_kit/_kit/src/*.rs` and
`src/alelyon_compute_kit/_kit/python/*.py`.

## 1. The system

| part | state it keeps | operations | where |
|---|---|---|---|
| Batch plan | counts, buffers written and read since the last barrier | `record_with`, `record_transfer_*`, `due` | batch.rs |
| Context, recording | the open batch, the batch in flight, the ramp, the timestamp switch | `dispatch`, `upload_recorded`, `record_*`, `flush`, `sync` | lib.rs |
| Context, objects | buffer pairs, kernels with two banks of descriptor sets, staging pairs, retirement lists, leak counter, poison | `buffer`, `free_buffer`, `bind`, `one_shot`, `finish`, `lose_batch`, `abandon_batch`, `Drop` | lib.rs |
| Transfer queue | timeline value, armed wait, command buffers of copies | `copy_from_staging_async`, `await_transfer`, `wait_transfer` | lib.rs |
| Pools | freed buffer pairs by size class, idle staging pairs by direction, reset fences; ceilings and counters | `take_pooled`, `recycle_*`, `evict_largest`, `device_local_room`, drains and settings | lib.rs |
| C ABI | process registry; per device a lock, a closed flag and handle tables | `ack_open`, `ack_close`, `ack_buffer_alloc`, `ack_buffer_free`, about 100 operator entries | ffi.rs |
| Operator plans | none: refusals, geometry, passes, kernel selection | a plan per family; its entry records the passes | `*_ops.rs`, attention_fused.rs, ffi.rs |
| Shaders | none: what each unit reads and writes | one invocation or work group a unit | kernels/*.comp |
| Device choice | none: ranks adapters | | device_choice.rs |
| Expert bank | per expert a pointer file and generations of shards | `write_expert`, `read_expert_state` | expert_bank.py |
| Gain scheduler | observations, cursor, exploration credit | `observe`, `select` | expert_bank.py |
| VQ arrays, Python binding, harness, capability records | host arrays, ctypes handles, a command line, immutable records | | vq.py, ack.py, harness.py, capabilities.py, backends.py |

**How they interact.** A program calls the C ABI from any thread. An entry finds
its device in the registry, takes the device's lock and calls the `Context`,
which is used by one thread at a time. The context records commands, asks the
batch plan whether a barrier comes before each, and submits a batch at a flush.
With the asynchronous flush (`ACK_ASYNC_FLUSH`) a flush forced by a full batch or
an exhausted descriptor arena returns while its batch still executes; the next
flush sees that batch through. An operator entry first makes a plan of the
request, or refuses it; the passes of the plan, each with the accesses it declares,
are then recorded, and the batch places its barriers by the declarations alone.
Buffers, scratch and staging come from the pools and go back to them when the
batch that named them is done. The device therefore runs beside the host, and a
second queue runs copies beside both. The bank is a separate, purely
file-based component, read and written by Python processes.

**What is hard.** What the device still executes while the host goes on; which
objects it may still name when one is freed, recycled, rewritten or leaked;
submissions and waits that fail half-way through a batch; two queues and one
wait that is carried by whichever submission comes next; threads that close a
device others are entering; readers and crashes between the steps of a commit;
pools that must give memory back before an allocation fails; and plans at the
limits of their words, whose units race, miss an element or count one twice.
`PROJECT.json` lists the hazards at their lines with the properties over them.

**What makes each part correct.** No two conflicting commands run unordered; no
object is destroyed or reused while a command names it, and none is lost
uncounted; to the caller every accepted call has happened; an awaited copy is
seen; every C call takes effect at one instant and returns; a commit is atomic
and whole or leaves nothing; exploration gets its share to within what doubles round;
accepted work is lost only in a call that is told; no allocation
fails for memory that is only pooled; an admitted operator covers every element
once, stays in storage, has no two units that race, and declares what it touches.

## 2. The modules

| module | what it specifies |
|---|---|
| `BatchPlan` | the plan of one batch, as operators on a record |
| `RecordedBatch` | the command stream of a context and the barriers in it (uses `BatchPlan`) |
| `RecordedBatchProofs` | the theorems about `RecordedBatch` |
| `DeferredContext` | the life of every object of a context under deferral and failure |
| `EagerContext` | what a context promises: every accepted call has happened |
| `DeferredContextProofs` | the theorems about `DeferredContext` |
| `MemoryPools` | the sizes, pools, heaps and budget a context's memory lives in |
| `MemoryPoolsProofs` | the theorems about `MemoryPools` |
| `TransferTimeline` | the compute queue, the transfer queue and the timeline between them |
| `TransferTimelineProofs` | the theorems about `TransferTimeline` |
| `DeviceRegistry` | threads, registry, device locks, references and handles of the C ABI |
| `DeviceRegistryProofs` | the theorems about `DeviceRegistry`, the refinement to `DeviceTable` among them |
| `DeviceTable` | what the C ABI promises: every call acts at one instant on a table |
| `ExpertBank` | files, writers, readers and faults of one expert |
| `ExpertCell` | what a bank promises: an atomic cell |
| `ExpertBankProofs` | the theorems about `ExpertBank`, the refinement to `ExpertCell` among them |
| `GainScheduler` | the scheduler |
| `GainSchedulerProofs` | the theorems about `GainScheduler` |
| `LaunchGeometry` | views, grids, passes, and what a pass may not do |
| `StridedPlans` | conversion, pointwise, indexing, integer and sorting operations, and their entries |
| `RowPlans` | reductions, row softmaxes and norms, losses, embeddings |
| `FusedPlans` | rotary, SwiGLU, weighted bags, the head's loss |
| `FactorPlans` | expert factors, mixed precision, vq4 codes |
| `MatrixPlans`, `Nf4Plans` | casts and products; weights stored in NF4 |
| `AttentionPlans` | fused attention, forward and backward |
| `OperatorPlans` | the caller's view of all of them, and the properties |
| `OperatorResults` | what the operators compute, from which elements, and `ResultsAreComputed` |
| `OperatorPlansProofs` | the theorems about `LaunchGeometry` and about the plans as wholes |
| `MC*` | the model values and small programs of the runs |

### RecordedBatch and BatchPlan
`ctx` is a record with the fields of `Context` that decide ordering, each
commented with its name in the code; the command buffers themselves are
sequences of what each command reads and writes and whether a full barrier was
recorded before it. Actions are the calls: `Dispatch` includes the flush for an
exhausted arena before it and the flush of a full batch after it. The device is
as adversarial as Vulkan allows: commands without a barrier between them run
together, and a submitted batch runs until a call has waited for it. What a
command declares comes from the same operand it is bound to, as
`check_declared_access` demands; every staging area has the id 0.
`HazardFree` is evaluated over the open batch as it stands and recorded when it
is submitted, so nothing depends on when the device happens to run.

### DeferredContext and EagerContext
One `ctx` record again. A retirement list, a pool, a live id and a kernel are
places that hold Vulkan objects; `alive` is what exists. A failing Vulkan call is
an outcome of the flush (`submit`, `reap`, `wait`) or of a submission of its own,
so an action is a whole call with the failure somewhere in the middle and all the
code does about it. `finish`'s ladder has its four ends: the wait succeeds, or
the device is then idle, lost, or in no known state. After the last the context
is poisoned, and objects the device may still use are kept in the history
variable `adrift`, which `NamedObjectsExist` protects for ever. `batch_gen` is a
64-bit counter only ever compared for equality with a kernel's copy, so a kernel
keeps the comparison's result.

`ReadbacksSeeEverything` states that this implements `EagerContext`, where a
dispatch or upload takes effect at once. The refinement mapping executes, in
order, everything in flight and everything recorded on the present memory: a cell
holds what its buffer will hold when all that was accepted has run.

### MemoryPools
Here an object is its size, and the question is which sizes there are. A pool is a
bag of sizes (the map from sizes to lists of pairs in the code, which keeps no
empty list); the staging pool is a bag of pairs of a direction and a capacity; what a
batch retired is a sequence, since it is given back in order. Actions are whole calls: a buffer with
its ladder (pool, eviction for the budget, allocation, drain, flush and again), a
free, an upload at once or recorded, a readback, a sync with each end of its flush, a
discard, and a change of the settings. Heaps are full by
bytes, or by fragmentation while a pool holds something; device-local and host
memory are one heap where `Unified` is set. Size classes, floors, the reuse ratio
and the margin are constants, chosen so that a pair of a larger class serves a
smaller request in one setting and not in another.

### TransferTimeline
The compute queue is a sequence of submissions with the timeline value each
waits for; copies run in any order and the counter follows. A read carries the
value the accepted calls before it, in order, would have left, and `strayed`
remembers one that got something else. `SameContract` says the same of a device
with a transfer queue and of one without.

### DeviceRegistry and DeviceTable
Each call takes the steps the code takes between locks: lookup under the registry
lock, the device's lock with the closed flag, the operation, removal, and the
release of the reference. Handles are packed into words of twice `Half` values,
so exhaustion of ids and of sequence numbers is reached. `CallsAreAtomic` states
that it implements `DeviceTable`, in which a call is asked, acts once, and
returns.

Of a device's Context the module keeps what a close and a drop depend on: what the
deferred batch holds (`work`: items, and uploads, which `recorded_items` does not
count), whether a batch is in flight (`flying`), and whether the context is poisoned.
Any call that records may flush, and a flush may fail, at the submission
(`lose_batch`) or at a wait (`Poisoned`, or `SeenThrough` where the device is found
idle). `CloseFlush` has the three outcomes of a close's flush; a failing one still
answers `ACK_OK` and leaves its message (`error` of the answer), which ffi.rs:2355-2363
calls an open question and not a decision. So `LossesAreTold` does not ask for the
code: it asks that the step in which accepted work is lost is one whose call gets a
message, and that no later call on the device but a free or a close succeeds.

### ExpertBank and ExpertCell
Files are whole, cut short, rotten or absent. A write is one step per file, then
the check, the attempts to replace the pointer, and the return; a cleanup removes
one file per step. The mapping to `ExpertCell` makes the pointer the cell; a
reader answers when it opens the pointer, with a state whose generation is
spoiled if any shard it loaded came from another.

### GainScheduler
The credit is a double and the model rounds as a double does: numbers are counted in
grains finer than any of them, `Spacing` is the distance of neighbouring doubles around
a number and `Rounded` the nearest double, the even one of two as near. `Select` rounds
the product, the sum, the sum with the tolerance of 1e-12, and what is left
(`CreditLeft`, with its clip at zero), in the order of expert_bank.py:483-485. With
2^1074 grains a pick and significands of 2^53 that is the arithmetic of the code: 25
calls of `select(4096)` with a fraction of 0.97 keep 99327 picks there and here, where
exact sums would keep 99328. So `ShareIsKept` does not claim the exact share: what is
kept is within the pick under way, and a drift of the tolerance and three roundings a
call (about 2.4e-12 picks at the widest requests). `BestFirst` is an action property of
`Select`.

### LaunchGeometry, the plans and OperatorPlans
A request is what a caller passes: an operation, sizes, strides, offsets, the
buffers (with shared identities where operands alias) and the device's features.
For each family a list of refusals stands in the order the code tests them, and an
admitted request gives passes. A pass has a kernel, a grid, the accesses its entry
declares, and `touches`: for every unit of work what it reads, writes or changes
atomically, as ranges of bytes of a binding, translated from the shader. A unit is
an invocation, a row or a work group, as the shader divides its work. The
properties are then stated once for all families:

| property | of an admitted request |
|---|---|
| `GridsAreWhole` | the grid has the limits of an axis and starts every unit once |
| `AccessesInStorage` | no unit touches bytes outside the buffer |
| `NoUnitsRace` | no two units of a pass conflict, whatever buffers the operands share |
| `ScratchIsFresh` | a pass reads scratch only where an earlier pass of the call wrote it |
| `RanksAreSorted` | the passes of a sort leave each row sorted, equal keys in order |
| `ResultsAreComputed` | each element that the operation defines (`*Results`, stated from its mathematics) is written by units that read all it depends on |
| `TermsCountedOnce` | the parts of a split reduction or product do not overlap |
| `PassesArePrepared` | the entry declares what its passes touch, and built their kernels |

The refusals meet the geometry here: a reason dropped or off by one admits a
request whose passes break one of these. Element arithmetic is left out; sort keys
are values, since their order is the result. The words of the code are constants
(`U32`, `U64`, `WordLimit`, `MaxGroups`), small enough that requests lie on both
sides of each limit and that sums wrap. Null pointers, the decoding of words and
the errors of handle lookups are left out; how an entry looks up, locks and
resolves is DeviceRegistry's `Use`. With three groups an axis, attention has at
most three heads, for which `h % kv_heads` and the division of heads by groups
choose the same key head: the model cannot tell the two apart.

`ApartByTheCaller` names what three entries leave to their callers: attention does
not refuse output rows that meet, nor a cast or the dense 16-bit product an output
in the storage of an operand. All other families refuse such requests, and
`NoUnitsRace` is checked of them without it. `PositionsFitAWord` is the same for
`AccessesInStorage`: the planner of the student's norms multiplies positions by heads
in a word (student_norm_ops.rs:143), so a product that wraps admits rows whose places
in the output lie anywhere. Without the condition TLC finds such a request; it is one
of the findings of `PROJECT.json`.

## 3. The runs

Passing runs (`NAME.cfg` with the module in `PROJECT.json`):

| run | bounds | what it shows |
|---|---|---|
| RecordedBatch | 2 buffers, 1 area, 4 kernels (producer, reader, consumer, unbound), 3 commands a batch, depth 4 ramping from 1, asynchronous flush, both rules, 3.1 M states | ordering (`HazardFree`) and barrier counts (`BarriersAccounted`) |
| DeferredAsync | 2 pairs, 1 kernel, 1 staging pair, 2 buffer ids, arena of 1 set, batches of 2 items, 1 failing wait, pools, 109 k states | object lifetime with a batch in flight, leaks counted (`LeaksAccounted`) |
| DeferredSync | 2 ids, arena of 2 sets, 2 contents, failing submissions and waits, discards, no pool, 57 k states | object lifetime with every flush seen through |
| Pools | 2 buffers of 2 sizes, 1 upload, heaps of 18 and 28 words, two budgets, pools on or off, 163 k states | bounds, ladders and the budget of the pools |
| Transfer | 2 buffers, 1 area, 2 contents, 2 copies, batches of 2, with and without a timeline, 3.4 M states | the contract of the asynchronous copy |
| TransferTickets | the same with a timeline and fairness, batches of 1, 99 k states | waits end |
| Registry | 2 threads, ids and sequence numbers of 2 bits, 6 calls, failing operations and flushes, device 1 may hang, 112 k states | atomicity, references, lost work told, no stalls |
| OperatorPlans | 25 operators, 103 k requests, 32- and 64-bit words of 7 and 14 bits, 3 groups an axis | the eight properties above |
| ExpertBank | 2 writers, 1 reader, 2 generations of 2 shards, 2 attempts, 1 fault of any kind, 128 k states | commits |
| Scheduler | 4 experts, a share of 409 in 1024 grains, significands of 10 bits, a tolerance of 4 grains, gains 0 to 2, up to 8 picks asked for, 392 k states | exploration |

Why the bounds are enough. A hazard needs two commands and the barrier or
submission between them; with batches of three commands behind one in flight,
every pair of kinds of command meets in both places, under both rules, before and
after a transfer. An object's life touches at most two batches, since at most one
is in flight: two pairs and two ids let a pair be recycled under a new id while
the old batch still names it, and an arena of one set forces the exhausted path
and the second bank; one kernel is enough because kernels share no set. A failure
changes what every later call does, so one failure in a behaviour covers each
ladder; a second one only meets a context that refuses. `DeferredAsync` has one
content besides that of fresh memory (an unseen write is still told from a seen
one); `DeferredSync` has two, so an order of two writes is told too. Two copies
are the fewest with a value to forget. Two threads race each pair of entries, and
words of two bits a half run out. Two generations let a reader hold the first
while the second is committed. Two sizes of buffer, one of which a larger pooled
pair serves, and heaps that take one large and one small buffer, reach every rung
of the ladders: a hit, a larger hit, an eviction, a drain, a flush, a refusal. The
requests of the operators are enumerated around each limit: extents of one, two and
three in each of the dimensions that matter, strides of 0 (broadcast), 1, overlapping,
and past the word, offsets off a word boundary, storage that is too small, and operands
that are the same buffer; a split or a block boundary needs an extent of one block
and one element, so blocks are of two and four. Doubles of ten bits round at the
second pick already: with a share of 409 grains three picks are a tie between two
doubles, and five come within the tolerance of two whole ones, so that the truncation
gives a pick early and the credit is clipped at zero.

Runs that find a violation:

| run | what the code does |
|---|---|
| DeferredSubmit | a failed submission releases objects the batch in flight names |
| PoolsMargin | a process already over its budget evicts too little: how far it is over is lost |

Ten further configurations are kept for the other findings of `PROJECT.json`;
each gives its counterexample in seconds with `tlc -config NAME.cfg MODULE.tla`:
`RecordedBatchAreas`, `RecordedBatchToggle`, `DeferredDiscard`, `DeferredLeaks`, `DeferredAbandon`, `TransferRefused`,
`TransferOverlap` (with `-continue`, counterexamples to both of its invariants),
`RegistryDrop`, `ExpertBankInterrupt`, `ExpertBankPartial`. They differ from a passing run by the
constants that let the program, the device or the environment do what the
passing run rules out (`Shapes`, `QuietToggle`, `MayDiscard`, `Settles`,
`ArmedFails`, `LooseUploads` and `LateFailures`, `Faults`). One finding needs no such constant: naming
`BarriersAreItemsLessOne` as an invariant in `RecordedBatch.cfg` shows it. A passing run holds under that assumption, and only
under it.

### Assumptions of the passing runs
- `QuietToggle`: the program switches the timestamp instrument with no batch in
  flight; kernels of the run are bound to buffers, not to areas.
- `DeferredAsync`: no submission fails and no batch is discarded while one is in
  flight (the two findings above); `DeferredSync` has both.
- `Settles`: the program lets a buffer rest before it copies into it and an area
  before it is destroyed; `ArmedFails = FALSE`: a submission that carries an armed
  wait is accepted.
- `LooseUploads = FALSE`: a batch is not uploads alone at a close; `LateFailures =
  FALSE`: a batch in flight that no close waited for does not fail when the last
  reference goes. Either alone breaks `LossesAreTold` (`RegistryDrop`).
- `Apart`: no second writer replaces between a writer's check and its
  replacement. The bank is documented for a single writer (docs/ARCHITECTURE.md:62);
  the second writer of the run is there for the check.
- `Faults` of ExpertBank without "partial" and "late interrupt", which have
  findings of their own.
- `ApartByTheCaller` for attention, casts and the dense 16-bit product, and
  `PositionsFitAWord` for the q/k norms of the student.
- `BudgetKept` of Pools holds of a process inside its device-local budget.

### Deadlock
Deadlock is checked for the recorded batch, the pools, the transfers, the operators
and the scheduler. It is off where the system stops: a dropped context accepts nothing more
(DeferredContext), the program makes `MaxCalls` calls (DeviceRegistry), the
generations run out (ExpertBank).

### Fairness
- `TransferTimeline`: weak fairness of each queue and of the return of a host
  whose wait is over: a Vulkan implementation must execute what was submitted,
  and operating systems schedule ready threads.
- `DeviceRegistry`: weak fairness of the steps between the locks; an operation
  inside the lock is fair only on devices outside `Stuck`, since a call into the
  driver may hang. Lock acquisition is only weakly fair: the program makes
  finitely many calls, so no thread is overtaken for ever.
- `ExpertBank`: the writer goes on; readers need not, and may hold the pointer
  open for ever.

## 4. What is proved

`RecordedBatchProofs` proves, for any buffers, areas, kernels, rules, depths and
bounds:

- `TypeCorrect`: `Spec => []TypeOK`.
- `HazardFreedom`: `Spec => []HazardFree`, assuming `ItemsNameBuffers` (kernels are
  bound to buffers) and `QuietToggle`. Without either it is false, as
  `RecordedBatchAreas` and `RecordedBatchToggle` show.

`HazardFree` is not inductive: it says nothing of what the plan remembers. The
invariant `Orderly` adds that (1) the sets `written` and `read` of the plan
include whatever the dispatches since the last barrier touched, so that a
command that conflicts with one of them is found, while a transfer since the last
barrier has left `pending` set, so the next command takes one (`Remembered`); (2)
a closed batch is empty; (3) an open batch begins with the
memory barrier whenever a batch is in flight. The step then splits on the calls,
and each call on the steps it is made of: `Opened` and `Flushed` preserve the
parts trivially or re-establish them, and one lemma about appending a command
covers dispatches and transfers alike: if every earlier command is either
separated from the end of the batch or within the sets, the appended one is
ordered after all of them. Assumptions used: those the modules state
(`DeviceAssumption`, `DepthAssumption`, `RulesAssumption`), all evaluated by TLC.
- `BarriersAreEarned`: `Spec => []BarriersAccounted`, assuming `ItemsNameBuffers`
  alone. Its invariant `Audited` is the converse of `Remembered`: what the sets of the
  plan hold was touched by a dispatch since the last barrier (`Touched`), so a
  barrier taken for it has a conflict to show (`Earned`), and the counters of the plan
  follow the batch (`Counts`). Areas share one id in the plan, so a kernel bound to an
  area may earn a barrier from another area: hence the assumption.

`DeferredContextProofs` proves, for any buffers, kernels, staging pairs, bounds,
failures of submissions and waits, and any number of batches in flight:

- `TypeCorrect` and `HoldersApart` (`Spec => []OneHolder`) and `LeaksExact`
  (`Spec => []LeaksAccounted`), without conditions. Their invariant `IInv` says where
  each object may be: with the caller, retired into the open batch or one in flight,
  pooled, destroyed or leaked, one of them at a time, and that the count of leaks is
  the number of the leaked.
- `NamedObjectsSafe` (`Spec => []NamedObjectsExist`), assuming `Orderly`: every flush
  is seen through, or no submission fails and, where the state after a wait may be
  unknown, nothing is discarded and at most one wait fails. `Named` adds that what a
  batch names is live or retired into this batch or a later one, so that it outlives
  the batch. `DeferredSubmit` shows a failing submission break it, `DeferredAbandon` a
  discard; the third condition excludes a device wait and a batch wait failing in one
  drop (lib.rs:3247).
- `HealthyLeavesNothing` (`Spec => []HealthyLeaksNothing`), where every flush is seen
  through; `DeferredLeaks` is the counterexample otherwise.
- `SetsHold` (`Spec => []DescriptorsHold`), unless a batch is discarded while another
  is in flight (`DeferredDiscard`). `Written` relates the bank of each kernel to the
  batches: the sets of the open batch are those taken since the last reset, and a
  bank whose sets a submitted batch uses has not been reset since.
- `ReadbacksAreEager` (`Spec => ReadbacksSeeEverything`): under the condition of
  `SetsHold`, a context implements `EagerContext`, so what the program reads is what
  it would read if every accepted call had happened at once. `Settle` is the memory
  once all that was accepted has run. A flush, a wait and a release leave it alone or
  poison the context: they move commands from recorded to in flight to executed. A command recorded
  changes one cell of it and a submission of its own, which runs after all others,
  likewise (`Settles`, `Put`, `ShotPuts`). Two facts carry this. Executing commands
  depends only on the cells they read and the sets they use (`RunsAgree`), and by
  `Named` and `Written` nothing that a call recycles or rewrites is among them. Each
  call then is a write, a read, a free, a creation, a discard or a refusal of
  `EagerContext`, or changes nothing it shows (`Maps`).

`MemoryPoolsProofs` proves, for any heaps, budgets, size classes, ceilings, settings
and requests and any failures (`SizeAssumption`, `SettingAssumption`), without other
conditions:

- `PoolsStayWithinBounds` (`Spec => []PoolsWithinBounds`), `BuffersFit`
  (`Spec => []BuffersFitTheirRequests`) and `TypeCorrect`. The invariant `Inv` makes
  them inductive: every field of a context has its type, a live buffer is one its
  request's class allows (`Owned`), both counters are the weights of their bags and
  inside the ceilings in force (`PoolFine`, `StageFine`), and the fences pooled or in a
  batch are at most two. The last needs what a flush leaves (`FlushesKeep`): a fence
  goes back only after its batch is gone, and a submission of one's own finds both
  batches closed (`OneShotsKeep`).
- `NothingIsHeldBack` (`Spec => []NothingHeldBack`): the rounds of a miss give back at
  least one pair each while there is any (`RoundsGiveBack`), so they end, with an empty
  pool (`TriesGiveBack`). What is used apart from the pool stays the same all along
  (`Rest`), hence a refused request had no room without the pool either.
- `BudgetIsKept` (`Spec => []BudgetKept`): the eviction for the budget returns what is
  missing or everything (`BudgetMade`), and the rounds after it only return more.
- `SmallPairsAreKept` (`Spec => SmallPairsStay`, an action property): at most one pair
  gives way to a returned one, a larger one, and then there is room (`OneVictim`), so
  the number of pairs up to any size never falls in a step made of returns
  (`RecycleStagingKeeps`, `StageGrew`).

Bags, sums over them and the recursions of the model (evictions, retries, returns) are
reasoned about through lemmas that hold for any of them: `RecursionTo` and `Recursion`
(a recursive function exists), `Follows` (it stays in a set its step stays in),
`SumRemoves` and `WeighsMore` (a sum takes its elements in any order).

`DeviceRegistryProofs` proves, for any number of threads, devices and calls and
any width of a handle (`WidthAssumption`, `ProgramAssumption`):

- `RegistryTypes`: `Spec => []TypeOK`.
- `ObjectsAreReferenced`: `Spec => []ObjectsOutliveCalls`. The invariant
  `Referenced` adds that ids listed, referenced or gone were handed out before
  (`Opened`), so that a new id is never that of a device already gone.
- `LossesReachACaller`: `Spec => LossesAreTold`, assuming `~LooseUploads` and
  `~LateFailures`; without either `RegistryDrop` is the counterexample. The
  invariant `Quiet` adds mutual exclusion (`Locked`: a call that acts holds the
  lock and found the device open), `Flushed`: a device that has left the
  registry, or whose closer is about to remove it, is closed, and a closed one
  holds no work, and `LostWithContext`: where work is lost the context is poisoned.
  `Locked` is what keeps work out after the flush of a close: no other call is
  inside, and none enters again, so a drop finds nothing recorded. The four calls
  under the lock are one step of the proof (`Acted`, lemma `ActsShape`), the ones
  outside another (`StepShape`).
- `RegistryImplementsTable`: `Spec => CallsAreAtomic`, the refinement to `DeviceTable`,
  without conditions. `Coherent` is the invariant: the two halves of a handle handed
  out are a device opened and a number below its next one (`Handed`), so the handle an
  allocation packs is new (`FreshHandle`) and `buffer_of` resolves exactly the live
  ones (`ResolvedLive`); a call holds the device it asked for and a buffer handed out
  once (`Asking`); and whoever is past the flag is closed for good (`Marked`). Each
  step is then a step of the table or a stutter (the lemmas `...Maps`): a call takes
  effect under the lock, or where it is refused; looking up, entering, and leaving the
  registry show nothing; an `Inner` that goes was closed, so no live buffer goes with it.

`ExpertBankProofs` proves, for any number of writers, readers, generations,
shards, attempts and faults, of every kind but "partial" and "late interrupt"
(`Guarded`; both have a counterexample):

- `CommittedStays`: `Spec => []CommittedWhole`. The invariant `Committing` adds who
  owns a generation (`Owned`: it is taken once, and nobody has committed one that is
  being written or removed), that a writer's shards so far are on disk (`Stored`),
  that the pointer and what readers saw of it name committed generations (`Named`),
  and that a pointer, present or to come, has counters the reader takes
  (`Readable`, from lemma `SucceedingAccepted`). A shard goes only in the cleanup of
  its own uncommitted generation; everything else keeps it.
- `NothingIsLeft`: `Spec => []RefusedLeavesNothing`, from `Committing` and `Noted`: a
  writer has noted every file of its generation.
- `BankIsACell`: `Spec => CommitsAreAtomic`, the refinement, assuming `Apart`. `Steady`
  adds that one writer at a time stands before the replacement and finds the pointer
  it read, and that a reader's bytes are of the generation it saw. Each step is then a
  step of `ExpertCell` or a stutter: a replacement commits, opening the pointer takes
  the answer, and loading shards changes nothing.

`TransferTimelineProofs` proves, for any buffers, areas, contents, batches, copies
and refusals:

- `RunningCopiesKeepBuffers` (`Spec => []CommandBuffersOutlive`) and
  `WaitsHaveCopies`: while a ticket is not reached, a copy at or below it is still with
  the transfer queue. The invariant `Timely` says that the counter stays below the
  value of every copy still to execute and tickets at or below the last value given,
  and that each such copy has its command buffer.
- `TypeCorrect`: `Spec => []TypeOK`.
- `CallsInOrder`: `Spec => []SameContract`, assuming `Settles` and `~ArmedFails`
  (`TransferOverlap` and `TransferRefused` are the counterexamples without them). Two
  statements make it inductive. `Flows`: the submissions in their order and then the
  open batch take the buffers, every pending copy executed first, to what the accepted
  calls left, each read finding on its way what it expects; a recorded call adds to
  the end of that run, the compute queue takes from its beginning, and a copy changes
  nothing of it. `Held`: a pending copy is not awaited yet and no command names its
  buffer, or every submission that names it comes with or behind a wait for the copy,
  and so will the next; with `Timely` the compute queue is then never at a command
  that a pending copy disturbs (`FirstIsClear`).

`GainSchedulerProofs` proves, for any experts, gains, share and requests, and doubles
of any precision for which whole picks are doubles (`SpacingAssumption`):

- `ExplorationShare` (`Spec => []ShareIsKept`): the credit is what was earned and not
  yet kept, to within the drift of the calls (`Accounted`), and never passes one pick.
  Rounding moves a number by half a spacing at most (`RoundedNear`) and passes no whole
  number of picks (`RoundedKeeps`); with that, each of the four results of a call comes
  out within its part of the drift (`CallSettles`), the clip at zero within the
  tolerance (`LeftIs`), and a request is never too small for more than one pick of what
  it earned.
- `EveryoneIsReached` (`Spec => []NobodyStarves`): an expert's wait and its distance
  ahead of the cursor are together less than the number of experts (`Waiting`). The
  walk of the cursor is a recursive function (`ExploredTimes`); that it is one, and what
  each step of it leaves, is proved by induction.
- `BestComeFirst` (`Spec => BestFirst`, an action property): the ranks of the picks
  not explored are taken one by one from the top (`RanksAreTaken`), so whoever is left
  out stands below everybody picked.
- `TypeCorrect`: `Spec => []TypeOK`.

`OperatorPlansProofs` proves facts about the operators all plans are made of, for
every width, extent, stride and offset:

- `DistinctAddresses`: where every stride steps over all that the smaller ones reach,
  the test of the code, different coordinates have different addresses. With the
  coordinates a unit takes from its number this is `UnitsWriteApart`.
- `FittingViewsStay`: a view that passed the check of its reach stays in its storage.
- `FoldedGridCovers`: a folded grid keeps to the limit of an axis and has room for
  every unit.
- `ElementPassIsSafe`: put together, a pass of one element a unit stays in storage
  and has no two units that conflict.

and then properties of the plans as wholes, for every request of the 25 operators and
every value of the words, limits and sizes of blocks:

- The lemma `PlanIsTheAnswer` (`Spec => []Answers`) only unfolds the specification: the
  plan in force is the entry's answer to the request in force (`AnswerTo`, a case of its
  operation), or there is none. It carries the theorems below from answers to
  behaviours: a property of answers is a property of the specification, and is proved family
  by family, from the conditions the family's list of refusals has excluded (`Listed`,
  `NothingRefused`: no refusal means that no condition of the list holds).
- `AlwaysPrepared`: `Spec => []PassesArePrepared`. Each family has a lemma
  (`...Prepared`) that its touches are of bindings its accesses name (`Bound`) and its
  kernel is among those its entry builds.
- `AlwaysSorted`: `Spec => []RanksAreSorted`, for keys of any width and rows of any
  number and length. The argument is the one of every radix sort, made precise for the
  passes of this one. Before pass j an element stands at its rank in the order by the
  digits seen so far and then by place (`Order`, `Standing`); the target the shader
  computes, behind every smaller digit and every equal one before it, is the rank in
  the next order (`StandingNext`); after the digits of the key come those of the row
  number, so rows end up together and in order (`SortedOrder`, `RanksSorted`). That
  ranks in a linear order number its elements is proved from cardinalities
  (`RankOnto`); the digits, from the recursive function `Power` (`PowersOf`,
  `DigitTells`).
- `ScratchStaysFresh`: `Spec => [](request.op # "reduce" => ScratchIsFresh)`. Most
  families touch no scratch (`...Public`). The sort alternates between two images, and
  each pass leaves all pairs in the one the next reads (`Flows`, `DigitPassFlows`,
  which rests on the ranks above: every position is some element's target); a bag's
  gradient clears its counts, adds to them, turns them into starts and cursors and
  fills lists that the last pass reads (`BagRunTouches`); an elected scatter clears
  the slots it votes in and writes from (`ElectedFresh`); a grouped scatter-add uses
  the sort, with keys that fit their bytes (`GroupKeysFit`).
- `SplitsCountOnce`: `Spec => [](request.op # "reduce" => TermsCountedOnce)`: two splits
  of a product sum different terms, where the splits stay within 32 bits. Beyond, they
  do not (`PROJECT.json`, the finding at ffi.rs:4241): the entry tests in 64 bits
  what the shader multiplies in 32, so TermsCountedOnce is stated for the calls within,
  and the run has a request on each side.

- `AccessesStay`: `Spec => []AccessesInStorage` for the operations whose units take
  elements, rows or work groups of flat operands: row-wise operations and losses,
  rotary and both swiglu, the weighted bag, both head passes, expert factors, the two
  passes of the scaler, the vector-quantised operations and casts. Each family has
  three lemmas. What its refusals leave (`...Admits`, `...Stocks`): the buffer of every
  operand `Holds` as many elements as the shapes ask, which is where a dropped or
  misplaced size test would show. Where a unit goes (`...Within`): every element it
  touches is below that count, by the arithmetic of the family's own addresses (a
  product of a row and a width, quotients by them, words that two halves share, ids
  read from memory and clamped to the table). What the entry does with both
  (`...Confined`). `ElementWithin` and `WordWithin` take an element or a word below the
  count to bytes inside the buffer, whose memory ends on a whole word.

Besides that limits and sizes of blocks are positive (`WidthAssumption` and the like),
two assumptions about constants matter. `StridedAssumption`: four bytes of a group's
key hold every slot (2^31 slots at most; the code has no wider key).
`RequestAssumption`: what the C ABI's types and its handles already say of a request,
and nothing more. A request of a family names that family's operation; a shape has an
entry for each of its dimensions; counts that arrive as `uint32_t` or `uint64_t` are
naturals; keys are as wide as their type; a flag is a flag; a kind is one of its
enumeration; every operand is a buffer of some size (`Backed`: a handle that resolves
to none is refused before the plan); the class of a loss's row is an integer, a bag's
ids are naturals; and an index is -1, when it is out of range, or an index below the
bound, which is how `pick` is defined. How large sizes and buffers are, which buffers
are one, offsets and strides are arbitrary. TLC evaluates both assumptions on the 103 k
requests of the run.

What is left to TLC only:

- Of the plans as wholes: `GridsAreWhole`, `NoUnitsRace` and `ResultsAreComputed`. The
  model lets sums wrap at the width of the words, so the grids need the sizes of the
  real words besides; races need, family by family, that the addresses of two units
  differ, for which the geometry theorems above are the shared part; results compare a
  plan with the mathematics of its operation, dimension by dimension.
- `AccessesInStorage` of the strided operations (conversion, pointwise, indexing,
  integers), of a reduction, of embedding and the student's norms, and of the products,
  4-bit weights and attention. Their addresses are sums of products over dimensions or
  heads, taken where the words wrap; `FittingViewsStay` is the shared part of the first
  group.
- Of a reduction, `ScratchIsFresh` and `TermsCountedOnce`: how it divides its
  dimensions into splits is a fold over the dimensions, and what a fold computes for
  every input needs an induction theorem with an operator as parameter.
- Everything about liveness under fairness and ENABLED, which is outside the prover
  (`TicketsReached`, `ClosedDevicesGo`, `EveryCallReturns`, `EveryWriteEnds`).

The library's induction theorems take a predicate as a parameter, which the provers
cannot instantiate; where a proof needs induction it uses sets of naturals instead
(`SetInduction` and `LargestExists`, from the well-foundedness of <), enough for the
recursive functions of the scheduler, of the pools, of the execution of recorded
commands and of the digit passes (`Recursion`). No module has a RECURSIVE operator. The
plans write `(UNION S) \cup T` with parentheses and records by their fields, since the
prover reads `UNION S \cup T` as a union over both and has no rule for `@@`.

## 5. What is not modelled

- What shaders compute: floating point, shared memory within a work group, subgroup
  steps. Which bytes a unit touches is modelled.
- Vulkan enumeration and feature negotiation in `open_on`, the choice among adapters
  (device_choice.rs: a filter and a sort of names) and among the cooperative-matrix
  shapes a driver reports, and the timing of kernel variants.
- `CausalSoftmaxPlan` (attention_ops.rs): nothing else in the crate uses it.
- The query pool of the timestamp instrument and the conversion of its ticks; its
  switch and its barrier are in RecordedBatch.
- `arm_submission_signal` and `disarm_signals`, which nothing in this repository
  calls.
- Test-only fault injection, the sabotage modes (`PoolMode::Immediate`, barriers off)
  and the A/B switches that turn off descriptor reuse and the arena.
- A free, or the end of a staging area, while the transfer queue uses it, as far as
  pools and object lists go: `TransferOverlap` shows that nothing stops the caller.
- Python bindings (a handle and a call each), capability records (equality and a
  dictionary), the harness (a client of ExpertCell without concurrency), vq.py
  (numerical), packaging, logging and messages.

`PROJECT.json` gives the reason for each part.

Comments of the source that describe an earlier state of it: batch.rs:574-584 says
that "in phase 1 the access sets decide nothing", and lib.rs:601-602 that every
submission is waited for in the call that makes it. `ack_cast` (ffi.rs:3865) accepts
one buffer as source and destination and no comment says otherwise; its units then
race.

## 6. Plan

1. **Model more.** The composition of DeferredContext with the transfer queue, for
   frees and staging areas under a running copy; MemoryPools as the refinement of
   DeferredContext's set `pool`; the timestamp instrument (query pool, overflow, tick
   conversion with its wrap-around); bank creation and `initialize_expert`.
2. **Pure algorithms** still worth a reference definition: device choice and
   capability matching.
3. **Abstract specifications** still worth stating: a pool as a bag of free pairs,
   and the Python binding's objects over DeviceTable.
4. **Prove more**: `NoUnitsRace` of the families of `AccessesStay`, whose lemmas
   already say which element a unit takes; `GridsAreWhole` under the sizes of the real
   words; `AccessesInStorage` of the strided operations over `FittingViewsStay`; the two
   passes of a reduction.
