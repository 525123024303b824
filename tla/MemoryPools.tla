----------------------------- MODULE MemoryPools -----------------------------
(***************************************************************************)
(* The memory of one Context (lib.rs): which sizes its buffers take, and   *)
(* what its three pools hold -- buffer pairs by size class, mapped staging *)
(* pairs by direction and class, and reset fences -- while buffers are     *)
(* made and freed, transfers are recorded or waited for, batches are       *)
(* flushed and fail, heaps are full and the settings change.               *)
(*                                                                         *)
(* Which object a command may still name is module DeferredContext; here   *)
(* an object is its size.  A map from sizes to lists of pairs, with no     *)
(* empty list, is a bag of sizes.  A buffer frees what it retired in       *)
(* order, so a retirement list is a sequence.                              *)
(***************************************************************************)
EXTENDS Naturals, FiniteSetsExt, Functions, Sequences, Bags

CONSTANTS
  Word,          (* 4: a VkBuffer is whole words long                         *)
  Limit,         (* max_storage_buffer_bytes                                  *)
  ClassFloor,    (* POOL_CLASS_FLOOR                                          *)
  PerOctave,     (* POOL_CLASSES_PER_OCTAVE                                   *)
  ReuseRatio,    (* POOL_REUSE_RATIO                                          *)
  Margin,        (* POOL_BUDGET_MARGIN                                        *)
  StagingFloor,  (* 4096                                                      *)
  MaxPair,       (* STAGING_POOL_MAX_PAIR_BYTES                               *)
  MaxPerClass,   (* STAGING_POOL_MAX_PER_CLASS                                *)
  MaxFences,     (* FENCE_POOL_MAX                                            *)
  MaxRetired,    (* max_retired_bytes                                         *)
  Heap,          (* bytes of the device-local heap                            *)
  HostHeap,      (* bytes of the host-visible heap, if it is another one      *)
  Unified,       (* there is one heap for both                                *)
  Budgets,       (* what the OS may grant on the device-local heap            *)
  Requests,      (* bytes a program asks a buffer of                          *)
  Settings,      (* settings of the pools: [on, larger, max, staging, ...]    *)
  MaxBuffers,    (* bound: live buffers                                       *)
  MaxUploads     (* bound: uploads recorded in one batch                      *)

Kinds == {"upload", "readback"}        \* TransferKind

Pow2[n \in Nat] == IF n = 0 THEN 1 ELSE 2 * Pow2[n-1]

ASSUME SizeAssumption ==
  /\ {Word, PerOctave, ReuseRatio, StagingFloor, MaxPair} \subseteq Nat \ {0}
  /\ {Limit, ClassFloor, Margin, MaxPerClass, MaxFences, MaxRetired,
      Heap, HostHeap, MaxBuffers, MaxUploads} \subseteq Nat
  /\ Budgets \subseteq Nat /\ Requests \subseteq Nat /\ Unified \in BOOLEAN
  /\ \E k, l \in 0 .. 16 : StagingFloor = Pow2[k] /\ PerOctave = Pow2[l]
  /\ PerOctave <= ClassFloor

ASSUME SettingAssumption ==
  Settings \subseteq
    [on: BOOLEAN, larger: BOOLEAN, max: Nat, staging: BOOLEAN,
     stagingMax: Nat, fences: BOOLEAN]

VARIABLE ctx

(* Recorder and Submitted: what a batch will release. *)
NoBatch == [open |-> FALSE, retired |-> << >>, bytes |-> 0, staging |-> << >>]

NewContext(s) ==
  [set |-> s,                  \* pool_enabled, pool_max_bytes, ...
   owned |-> EmptyBag,         \* live buffers: [bytes, allocated]
   pool |-> EmptyBag, poolBytes |-> 0,
   stage |-> EmptyBag, stageBytes |-> 0,    \* pairs [kind, capacity]
   fences |-> 0,
   rec |-> NoBatch, flight |-> NoBatch,     \* recorder, in_flight
   ended |-> "no",             \* poisoned, and whether the device is lost
   adrift |-> 0, hostAdrift |-> 0]          \* bytes left allocated for good

-----------------------------------------------------------------------------
(* Sizes.                                                                  *)

RoundedUp(x, step) == ((x + step - 1) \div step) * step

(* Mutant: a class beyond the limit is used. *)
PoolClassUnclamped(size) ==
  LET e == CHOOSE e \in 0 .. size : Pow2[e] < size /\ size <= Pow2[e+1]
  IN  IF size <= ClassFloor THEN size ELSE RoundedUp(size, Pow2[e] \div PerOctave)

(* The class of a word-rounded request: exact up to the floor, above it    *)
(* the next of PerOctave steps of its octave (2^e, 2^(e+1)], and itself    *)
(* when that class is beyond the limit.                                    *)
PoolClass(size) ==
  LET e == CHOOSE e \in 0 .. size : Pow2[e] < size /\ size <= Pow2[e+1]
      class == RoundedUp(size, Pow2[e] \div PerOctave)
  IN  IF size <= ClassFloor \/ class > Limit THEN size ELSE class

(* The size a request is served at. *)
SizeOf(c, bytes) ==
  IF c.set.on THEN PoolClass(RoundedUp(bytes, Word)) ELSE RoundedUp(bytes, Word)

(* staging_class: the next power of two, at least a page. *)
StagingClass(bytes) ==
  LET powers == {StagingFloor * Pow2[k] : k \in 0 .. bytes}
  IN  Min({p \in powers : p >= bytes})

-----------------------------------------------------------------------------
(* What is allocated.                                                      *)

With(B, x) == B (+) SetToBag({x})
Without(B, x) == B (-) SetToBag({x})
CopiesOf(x, B) == IF BagIn(x, B) THEN B[x] ELSE 0
Count(B) == SumFunction(B)
Weigh(B, weight) == SumFunction([x \in DOMAIN B |-> B[x] * weight[x]])
BytesOf(pool) == Weigh(pool, [size \in DOMAIN pool |-> size])
StagingBytes(stage) == Weigh(stage, [p \in DOMAIN stage |-> p.capacity])
OwnedBytes(owned) == Weigh(owned, [b \in DOMAIN owned |-> b.allocated])
SumOf(sizes) == SumFunction(sizes)
PairBytes(pairs) == SumFunction([i \in DOMAIN pairs |-> pairs[i].capacity])

HostHeld(c) ==
  StagingBytes(c.stage) + PairBytes(c.rec.staging) + PairBytes(c.flight.staging)
    + c.hostAdrift

DeviceHeld(c) ==
  BytesOf(c.pool) + OwnedBytes(c.owned)
    + SumOf(c.rec.retired) + SumOf(c.flight.retired) + c.adrift

(* heapUsage of the device-local heap. *)
Used(c) == DeviceHeld(c) + (IF Unified THEN HostHeld(c) ELSE 0)
HostUsed(c) == IF Unified THEN Used(c) ELSE HostHeld(c)

(* raw_buffer: an allocation fails when its heap has no room for it.  It   *)
(* may also fail on a heap that pooled pairs fragment.                     *)
Fits(c, size) == Used(c) + size <= Heap
MayFail(c, size) == ~Fits(c, size) \/ c.pool # EmptyBag
HostFits(c, size) == HostUsed(c) + size <= (IF Unified THEN Heap ELSE HostHeap)

(* device_local_room: saturating.  A budget no request reaches stands for  *)
(* a driver that reports none.                                             *)
Room(c, budget) == IF Used(c) >= budget THEN 0 ELSE budget - Used(c)

-----------------------------------------------------------------------------
(* The buffer pool.                                                        *)

(* evict_largest: the pool after pairs worth `want' bytes are destroyed,   *)
(* the largest first, or all of them.                                      *)
EvictLargest(pool, want) ==
  LET left[n \in 0 .. Count(pool)] ==
        IF n = 0 THEN pool
        ELSE Without(left[n-1], Max(BagToSet(left[n-1])))
      enough == {n \in DOMAIN left :
                   \/ BytesOf(pool) - BytesOf(left[n]) >= want
                   \/ n = Count(pool)}
  IN  left[Min(enough)]

(* evict_to_ceiling: the smallest pairs go until the pool is inside it. *)
EvictToCeiling(pool, max) ==
  LET left[n \in 0 .. Count(pool)] ==
        IF n = 0 THEN pool
        ELSE Without(left[n-1], Min(BagToSet(left[n-1])))
  IN  left[Min({n \in DOMAIN left : BytesOf(left[n]) <= max})]

(* The pool is left at `pool', and pool_bytes loses what was destroyed. *)
Shrunk(c, pool) ==
  [c EXCEPT !.pool = pool,
            !.poolBytes = @ - (BytesOf(c.pool) - BytesOf(pool))]

(* pool_pick: the request's own class, else the smallest larger pair that  *)
(* is not too large; nothing.                                              *)
Picks(c, size) ==
  LET held == BagToSet(c.pool)
      larger == {s \in held : size < s /\ s <= ReuseRatio * size}
  IN  IF ~c.set.on THEN {}
      ELSE IF size \in held THEN {size}
      ELSE IF c.set.larger /\ size > ClassFloor /\ larger # {} THEN {Min(larger)}
      ELSE {}

(* Mutant: the ceiling is compared before the pair is counted. *)
RecycledAtCeiling(c, size) ==
  IF c.set.on /\ c.poolBytes <= c.set.max
  THEN [c EXCEPT !.pool = With(@, size), !.poolBytes = @ + size]
  ELSE c

(* recycle_or_destroy. *)
Recycled(c, size) ==
  IF c.set.on /\ c.poolBytes + size <= c.set.max
  THEN [c EXCEPT !.pool = With(@, size), !.poolBytes = @ + size]
  ELSE c

(* ... of every buffer a batch retired, in order. *)
RecycledAll(c, sizes) ==
  LET after[n \in 0 .. Len(sizes)] ==
        IF n = 0 THEN c ELSE Recycled(after[n-1], sizes[n])
  IN  after[Len(sizes)]

(* Mutant: nothing is given back before an allocation fails. *)
WithinBudgetOnFailure(c, size, budget) ==
  IF ~Fits(c, size) /\ c.pool # EmptyBag
  THEN Shrunk(c, EvictLargest(c.pool, size + Margin - Room(c, budget)))
  ELSE c

(* Pooled pairs go before the budget does: a request the OS reports too    *)
(* little room for.                                                        *)
WithinBudget(c, size, budget) ==
  IF Room(c, budget) < size + Margin /\ c.pool # EmptyBag
  THEN Shrunk(c, EvictLargest(c.pool, size + Margin - Room(c, budget)))
  ELSE c

(* Mutant: a pool smaller than the request is not asked. *)
TriesIfLarger(c, size) ==
  [n \in (IF BytesOf(c.pool) < size THEN {0} ELSE 0 .. 1) |->
     IF n = 0 THEN c ELSE Shrunk(c, EmptyBag)]

(* The pools a miss tries its allocation with: first as it is, then after  *)
(* each retry, which gives back the size and then twice as much as before, *)
(* until one gave nothing.                                                 *)
Tries(c, size) ==
  LET rounds[n \in Nat] ==
        IF n = 0 THEN c.pool ELSE EvictLargest(rounds[n-1], size * Pow2[n-1])
      last == Min({n \in 1 .. Count(c.pool) + 1 : rounds[n] = rounds[n-1]})
  IN  [n \in 0 .. last |-> Shrunk(c, rounds[n])]

(* The contexts a miss may allocate in, and the ones it may give up in. *)
Served(c, size, budget) ==
  {d \in Range(Tries(WithinBudget(c, size, budget), size)) : Fits(d, size)}

Refused(c, size, budget) ==
  LET tries == Tries(WithinBudget(c, size, budget), size)
  IN  {d \in {tries[Max(DOMAIN tries)]} : MayFail(d, size)}

Owning(c, bytes, allocated) ==
  [c EXCEPT !.owned = With(@, [bytes |-> bytes, allocated |-> allocated])]

-----------------------------------------------------------------------------
(* The staging pool.                                                       *)

Pair(kind, capacity) == [kind |-> kind, capacity |-> capacity]

(* take_staging on a hit and on a miss; a pair the host heap has no room   *)
(* for drains the pool and is tried once more.                             *)
StagingHit(c, pair) ==
  [c EXCEPT !.stage = Without(@, pair), !.stageBytes = @ - pair.capacity]

DrainedStaging(c) == [c EXCEPT !.stage = EmptyBag, !.stageBytes = 0]

StagingRoom(c, capacity) ==
  IF HostFits(c, capacity) \/ c.stage = EmptyBag THEN c ELSE DrainedStaging(c)

(* The capacity a transfer of `bytes' takes. *)
StagingSize(c, bytes) == IF c.set.staging THEN StagingClass(bytes) ELSE bytes

(* What take_staging leaves, and whether it has a pair. *)
TakeStaging(c, kind, bytes) ==
  LET pair == Pair(kind, StagingSize(c, bytes))
      roomy == StagingRoom(c, pair.capacity)
  IN  IF c.set.staging /\ BagIn(pair, c.stage)
      THEN [ctx |-> StagingHit(c, pair), ok |-> TRUE]
      ELSE [ctx |-> roomy, ok |-> HostFits(roomy, pair.capacity)]

(* Whether recycle_staging may keep a pair at all. *)
Poolable(c, pair) ==
  /\ c.set.staging /\ c.ended = "no"
  /\ pair.capacity = StagingClass(pair.capacity)
  /\ pair.capacity <= MaxPair /\ pair.capacity <= c.set.stagingMax
  /\ CopiesOf(pair, c.stage) < MaxPerClass

(* Mutant: any other class may give way. *)
VictimsOfAnySize(c, than) == {p \in BagToSet(c.stage) : p.capacity # than}

(* One pooled pair of the largest class above `than' goes: whichever       *)
(* direction a hash map meets last.                                        *)
Victims(c, than) ==
  LET above == {p \in BagToSet(c.stage) : p.capacity > than}
  IN  {p \in above : \A q \in above : q.capacity <= p.capacity}

Over(c, pair) == c.stageBytes + pair.capacity > c.set.stagingMax

Keep(c, pair) ==
  [c EXCEPT !.stage = With(@, pair), !.stageBytes = @ + pair.capacity]

(* evict_one_larger_staging, if the pair has no room. *)
MadeRoom(c, pair) ==
  IF Over(c, pair) THEN {StagingHit(c, v) : v \in Victims(c, pair.capacity)} ELSE {}

(* recycle_staging: what it can leave. *)
RecycleStaging(c, pair) ==
  LET evicted[n \in Nat] ==
        IF n = 0 THEN {c} ELSE UNION {MadeRoom(d, pair) : d \in evicted[n-1]}
      settled == {d \in UNION {evicted[n] : n \in 0 .. Count(c.stage)} :
                    ~Over(d, pair) \/ Victims(d, pair.capacity) = {}}
  IN  IF ~Poolable(c, pair) THEN {c}
      ELSE {IF Over(d, pair) THEN d ELSE Keep(d, pair) : d \in settled}

RecycleAll(c, pairs) ==
  LET after[n \in 0 .. Len(pairs)] ==
        IF n = 0 THEN {c}
        ELSE UNION {RecycleStaging(d, pairs[n]) : d \in after[n-1]}
  IN  after[Len(pairs)]

-----------------------------------------------------------------------------
(* Fences.                                                                 *)

(* vk_create_fence and release_completed_submission; release_submission    *)
(* destroys the fence, which is then nowhere.                              *)
TakeFence(c) ==
  IF c.set.fences /\ c.fences > 0 THEN [c EXCEPT !.fences = @ - 1] ELSE c

KeepFence(c) ==
  IF c.set.fences /\ c.fences < MaxFences THEN [c EXCEPT !.fences = @ + 1] ELSE c

(* A fence of the context is pooled, or a batch has it. *)
Fences(c) ==
  c.fences + (IF c.rec.open THEN 1 ELSE 0) + (IF c.flight.open THEN 1 ELSE 0)

-----------------------------------------------------------------------------
(* Flushing.  A call leaves one of several contexts: waits and submissions *)
(* may fail, and a failing call returns at once.                           *)

Done(c) == [ctx |-> c, ok |-> TRUE]
Failed(c) == [ctx |-> c, ok |-> FALSE]

(* Nothing a poisoned context whose device is not lost holds is released. *)
Leaked(c, retired, staging) ==
  [c EXCEPT !.adrift = @ + SumOf(retired), !.hostAdrift = @ + PairBytes(staging)]

(* release_retired and release_staging: buffers to the pool, staging pairs *)
(* destroyed.                                                              *)
Released(c, b) ==
  IF c.ended = "unknown" THEN Leaked(c, b.retired, b.staging)
  ELSE RecycledAll(c, b.retired)

(* finish: the wait for batch b succeeds, or fails and the device is idle, *)
(* lost, or neither.                                                       *)
Finishes(c, b) ==
  {Done(KeepFence(d)) : d \in RecycleAll(RecycledAll(c, b.retired), b.staging)}
    \cup {Failed(Released([c EXCEPT !.ended = e], b)) : e \in {"no", "lost", "unknown"}}

(* reap_in_flight. *)
Reaps(c) ==
  IF c.flight.open THEN Finishes([c EXCEPT !.flight = NoBatch], c.flight)
  ELSE {Done(c)}

(* lose_batch: the batch could not be submitted; what it held is released  *)
(* before the context is poisoned.                                         *)
Losses(c, b) ==
  {Failed([Released(c, b) EXCEPT !.ended = e]) : e \in {"lost", "unknown"}}

(* The batch b is submitted and the one before it has been reaped: r. *)
Settled(r, b, completes) ==
  IF ~r.ok THEN {Failed(Leaked(r.ctx, b.retired, b.staging))}
  ELSE IF completes THEN Finishes(r.ctx, b)
  ELSE {Done([r.ctx EXCEPT !.flight = b])}

(* flush. *)
Flushes(c, completes) ==
  LET taken == [c EXCEPT !.rec = NoBatch]
  IN  IF c.rec.open
      THEN Losses(taken, c.rec)
             \cup UNION {Settled(r, c.rec, completes) : r \in Reaps(taken)}
      ELSE IF completes THEN Reaps(c) ELSE {Done(c)}

(* one_shot, after a completing flush: a fence taken and kept again, or    *)
(* destroyed or left behind by a failure.                                  *)
OneShots(c) ==
  {Done(KeepFence(TakeFence(c)))}
    \cup {Failed([TakeFence(c) EXCEPT !.ended = e]) : e \in {"no", "lost", "unknown"}}

(* open_batch. *)
Opened(c) ==
  IF c.rec.open THEN c
  ELSE [TakeFence(c) EXCEPT !.rec = [NoBatch EXCEPT !.open = TRUE]]

-----------------------------------------------------------------------------
(* The calls of the program.                                               *)

Live == ctx.ended = "no"                       \* check_live

(* buffer: served from the pool. *)
BufferHit(bytes) ==
  LET size == SizeOf(ctx, bytes)
  IN  /\ Count(ctx.owned) < MaxBuffers
      /\ bytes # 0 /\ RoundedUp(bytes, Word) <= Limit
      /\ \E s \in Picks(ctx, size) :
           ctx' = [Owning(ctx, bytes, s) EXCEPT !.pool = Without(@, s),
                                                !.poolBytes = @ - s]

(* buffer: allocated, or out of memory once the pool has given all back. *)
BufferMiss(bytes, budget) ==
  LET size == SizeOf(ctx, bytes)
  IN  /\ Count(ctx.owned) < MaxBuffers
      /\ bytes # 0 /\ RoundedUp(bytes, Word) <= Limit
      /\ Picks(ctx, size) = {}
      /\ \/ \E c \in Served(ctx, size, budget) : ctx' = Owning(c, bytes, size)
         \/ ctx' \in Refused(ctx, size, budget)

Buffer ==
  /\ Live
  /\ \E bytes \in Requests :
       BufferHit(bytes) \/ \E budget \in Budgets : BufferMiss(bytes, budget)

(* free_buffer: retired into the open batch, whose budget may be spent,    *)
(* else into the batch in flight, else released at once.                   *)
FreeBuffer ==
  \E b \in BagToSet(ctx.owned) :
    LET c == [ctx EXCEPT !.owned = Without(@, b)]
        retired == [c EXCEPT !.rec.retired = Append(@, b.allocated),
                             !.rec.bytes = @ + b.bytes]
    IN  CASE c.rec.open /\ retired.rec.bytes > MaxRetired /\ Live ->
               \E f \in Flushes(retired, TRUE) : ctx' = f.ctx
          [] c.rec.open /\ ~(retired.rec.bytes > MaxRetired /\ Live) ->
               ctx' = retired
          [] ~c.rec.open /\ c.flight.open ->
               ctx' = [c EXCEPT !.flight.retired = Append(@, b.allocated)]
          [] ~c.rec.open /\ ~c.flight.open ->
               ctx' = Released(c, [NoBatch EXCEPT !.retired = <<b.allocated>>])

(* A dispatch is recorded, and may fill its batch. *)
Record ==
  /\ Live
  /\ \/ ctx' = Opened(ctx)
     \/ \E f \in Flushes(Opened(ctx), FALSE) : ctx' = f.ctx

(* A call that needs the device to have finished: ack_sync. *)
Sync == Live /\ \E f \in Flushes(ctx, TRUE) : ctx' = f.ctx

(* The pair of a transfer that was submitted and waited for, or could not  *)
(* be: released, left behind when the state is unknown.  A readback whose  *)
(* mapping cannot be invalidated destroys it.                              *)
Returned(shot, pair) ==
  IF shot.ok
  THEN RecycleStaging(shot.ctx, pair)
         \cup (IF pair.kind = "readback" THEN {shot.ctx} ELSE {})
  ELSE {Released(shot.ctx, [NoBatch EXCEPT !.staging = <<pair>>])}

(* What a waited-for transfer through a pair of `bytes' can leave. *)
Transfers(kind, bytes) ==
  UNION {
    LET t == TakeStaging(f.ctx, kind, bytes)
    IN  IF ~f.ok THEN {f.ctx}
        ELSE IF ~t.ok THEN {t.ctx}
        ELSE UNION {Returned(shot, Pair(kind, StagingSize(f.ctx, bytes))) :
                      shot \in OneShots(t.ctx)}
    : f \in Flushes(ctx, TRUE)}

(* upload, waited for. *)
Upload ==
  /\ Live
  /\ \E b \in BagToSet(ctx.owned) : ctx' \in Transfers("upload", b.bytes)

(* download_into: chunk after chunk through one pair. *)
Download ==
  /\ Live
  /\ \E b \in BagToSet(ctx.owned) :
       ctx' \in Transfers("readback", Min({b.bytes, MaxPair}))

(* upload_recorded: the pair retires into the open batch.  A batch that    *)
(* cannot be opened gives it back.                                         *)
UploadRecorded ==
  /\ Live
  /\ Len(ctx.rec.staging) < MaxUploads
  /\ \E b \in BagToSet(ctx.owned) :
       LET t == TakeStaging(ctx, "upload", b.bytes)
           pair == Pair("upload", StagingSize(ctx, b.bytes))
       IN  IF ~t.ok THEN ctx' = t.ctx
           ELSE \/ ctx' = [Opened(t.ctx) EXCEPT !.rec.staging = Append(@, pair)]
                \/ ~ctx.rec.open /\ ctx' \in RecycleStaging(t.ctx, pair)

(* discard_recorded_batch: the batch in flight is seen through, whatever   *)
(* comes of it, and the open one dropped.                                  *)
Discard ==
  LET Dropped(c) == RecycleAll(RecycledAll([c EXCEPT !.rec = NoBatch],
                                           c.rec.retired), c.rec.staging)
  IN  \E r \in IF Live THEN Reaps(ctx)
               ELSE {Failed(Leaked([ctx EXCEPT !.flight = NoBatch],
                                   ctx.flight.retired, ctx.flight.staging))} :
        ctx' \in Dropped(r.ctx)

(* The setters, one or several: a pool turned off is drained, one whose    *)
(* ceiling is lowered gives way to it, the staging pool as a whole.        *)
Set(s) ==
  LET kept == EvictToCeiling(ctx.pool, IF s.on THEN s.max ELSE 0)
      b == [Shrunk(ctx, kept) EXCEPT !.set = s,
              !.fences = IF s.fences THEN @ ELSE 0]
  IN  ctx' = IF s.staging /\ ctx.stageBytes <= s.stagingMax THEN b
             ELSE DrainedStaging(b)

Init == \E s \in Settings : ctx = NewContext(s)

Next ==
  \/ Buffer \/ FreeBuffer \/ Record \/ Sync
  \/ Upload \/ Download \/ UploadRecorded \/ Discard
  \/ \E s \in Settings : Set(s)

Spec == Init /\ [][Next]_ctx

-----------------------------------------------------------------------------
(* Properties.                                                             *)

TypeOK ==
  /\ ctx.set \in Settings
  /\ IsABag(ctx.owned) /\ IsABag(ctx.pool) /\ IsABag(ctx.stage)
  /\ BagToSet(ctx.owned) \subseteq [bytes: Requests, allocated: 1 .. Limit]
  /\ BagToSet(ctx.pool) \subseteq 1 .. Limit
  /\ BagToSet(ctx.stage) \subseteq [kind: Kinds, capacity: 1 .. MaxPair]
  /\ ctx.ended \in {"no", "lost", "unknown"}

(* The pools stay inside what their settings and constants allow, and      *)
(* their byte counters are what they hold, through every hit, return,      *)
(* eviction, drain and failure: a counter that drifts would decline every  *)
(* return, or let the pool outgrow its ceiling.  One open batch, one in    *)
(* flight and one call that waits never need more than two fences.         *)
PoolsWithinBounds ==
  /\ ctx.poolBytes = BytesOf(ctx.pool)
  /\ ctx.poolBytes <= (IF ctx.set.on THEN ctx.set.max ELSE 0)
  /\ ctx.stageBytes = StagingBytes(ctx.stage)
  /\ ctx.stageBytes <= (IF ctx.set.staging THEN ctx.set.stagingMax ELSE 0)
  /\ \A p \in BagToSet(ctx.stage) : ctx.stage[p] <= MaxPerClass
  /\ ~ctx.set.fences => ctx.fences = 0
  /\ Fences(ctx) <= 2

(* A buffer holds its request and is at most so much larger than the       *)
(* request's class, whichever pair served it, whatever settings that pair  *)
(* was made and freed under; a buffer on the device is never refused for   *)
(* the size of its class.                                                  *)
BuffersFitTheirRequests ==
  \A b \in BagToSet(ctx.owned) :
    /\ b.bytes <= b.allocated /\ b.allocated <= Limit
    /\ b.allocated <= ReuseRatio * PoolClass(RoundedUp(b.bytes, Word))

(* A request the buffer pool cannot serve. *)
Misses == {bytes \in Requests \ {0} : Picks(ctx, SizeOf(ctx, bytes)) = {}}

(* A pool is never the reason an allocation fails ("THE POOL MUST NEVER BE *)
(* THE REASON AN ALLOCATION FAILED", lib.rs): whatever was pooled, freed   *)
(* and retired before it, a request that finds no room has emptied the     *)
(* pool, and there was none without the pool; a transfer likewise.         *)
NothingHeldBack ==
  Live =>
    /\ \A bytes \in Misses, budget \in Budgets :
         LET size == SizeOf(ctx, bytes)
         IN  \A c \in Refused(ctx, size, budget) :
               /\ c.pool = EmptyBag
               /\ Used(ctx) - BytesOf(ctx.pool) + size > Heap
    /\ \A bytes \in Requests, kind \in Kinds :
         ~TakeStaging(ctx, kind, bytes).ok =>
           ~HostFits(DrainedStaging(ctx), StagingSize(ctx, bytes))

(* An allocation made while the process is inside the budget leaves the    *)
(* margin free below it, or the pool empty.                                *)
LeavesMargin(bytes, budget) ==
  LET size == SizeOf(ctx, bytes)
  IN  \A c \in Served(ctx, size, budget) :
        c.pool # EmptyBag => Used(c) + size + Margin <= budget

BudgetKept ==
  \A bytes \in Misses, budget \in Budgets :
    Used(ctx) <= budget => LeavesMargin(bytes, budget)

(* ... and so does any other allocation: POOL_BUDGET_MARGIN is "bytes a    *)
(* pool miss keeps free under the OS budget" (lib.rs).  It does not: the   *)
(* room of a process over its budget reads 0, not less.                    *)
MarginKept == \A bytes \in Misses, budget \in Budgets : LeavesMargin(bytes, budget)

(* A returned staging pair never costs the pool its smaller ones: through  *)
(* a flush, a free or a discard, whatever is returned and in which order,  *)
(* the pairs of at most any given size grow in number or stay.             *)
AtMost(stage, size) ==
  Weigh(stage, [p \in DOMAIN stage |-> IF p.capacity <= size THEN 1 ELSE 0])

SmallPairsStay ==
  [][(\E p \in BagToSet(ctx.stage) :
         AtMost(ctx.stage, p.capacity) > AtMost(ctx'.stage, p.capacity))
       => ~(FreeBuffer \/ Record \/ Sync \/ Discard)]_ctx
=============================================================================
