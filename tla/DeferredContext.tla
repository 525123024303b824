--------------------------- MODULE DeferredContext ---------------------------
(***************************************************************************)
(* The life of the objects of one Context under the deferred batch         *)
(* (lib.rs): buffer pairs, kernels with their descriptor sets, and upload  *)
(* staging pairs, while commands that name them are recorded, submitted    *)
(* and executed, and while submissions and waits fail.                     *)
(*                                                                         *)
(* Recorded work is submitted by a flush.  With ACK_ASYNC_FLUSH a flush    *)
(* that promises nothing leaves its batch in flight, and the next one sees *)
(* it through.  A freed object is retired into the open batch or into the  *)
(* batch in flight, and released when a wait has returned.                 *)
(*                                                                         *)
(* The device executes the batch in flight at any moment after its         *)
(* submission and reads a descriptor set when it executes, not when it was *)
(* recorded.  Commands of one batch execute in their order (the barriers   *)
(* that make it so are module RecordedBatch).  A kernel is bound to one    *)
(* buffer and writes its push constant into it: enough to see which buffer *)
(* a dispatch reached and whether it ran.  All buffers are of one size     *)
(* class.  batch_gen is u64 and only ever compared with a kernel's copy of *)
(* it, so a kernel keeps here what that comparison gives: mark is          *)
(* descriptor_watermark, and reuse is NoSet when it is of an older batch.  *)
(***************************************************************************)
EXTENDS Naturals, Sequences, FiniteSets, Functions

CONSTANTS
  Pairs,        (* VkBuffer and memory of a Buffer                            *)
  Kernels,      (* the four Vulkan objects of a Kernel                        *)
  Stages,       (* staging pairs of uploads; as many as memory allows         *)
  NoPair, NoSet, NoAnswer, Unheld,
  MaxHandles,   (* bound: buffers the program ever creates                    *)
  Pushed,       (* push constants of a dispatch and contents of an upload     *)
  ArenaSize,    (* sets_per_kernel_pool: descriptor sets of one bank          *)
  MaxItems,     (* max_recorded_items                                         *)
  MaxUploads,   (* bound: uploads recorded into one batch                     *)
  MaxRetired,   (* max_retired_bytes, in buffers                              *)
  AsyncFlush,   (* ACK_ASYNC_FLUSH                                            *)
  DeferUploads, (* deferred_upload(), given AsyncFlush                        *)
  Pooling,      (* the buffer and staging pools are on and have room          *)
  SubmitFaults, (* what may fail: subsets of {"fails", "lost"}                *)
  WaitFaults,   (*   and of {"idle", "lost", "unknown"}                       *)
  MaxFaults,    (* bound: failing Vulkan calls                                *)
  MayDiscard    (* the program calls discard_recorded_batch                   *)

Handles == 1 .. MaxHandles
Everything == MaxHandles + 1    \* every buffer at once
Objects == Pairs \cup Kernels \cup Stages
DescriptorSets == Kernels \X {0, 1} \X (1 .. ArenaSize)
Junk == 0                       \* what memory holds before its first write
Contents == Pushed \cup {Junk}

ASSUME ObjectAssumption ==
  /\ IsFiniteSet(Objects)
  /\ Pairs \cap Kernels = {} /\ Pairs \cap Stages = {} /\ Kernels \cap Stages = {}
  /\ NoPair \notin Pairs /\ NoSet \notin DescriptorSets
  /\ {Unheld, NoAnswer} \cap Contents = {}

ASSUME BoundAssumption ==
  /\ {MaxHandles, ArenaSize, MaxItems} \subseteq Nat \ {0}
  /\ {MaxUploads, MaxRetired, MaxFaults} \subseteq Nat
  /\ SubmitFaults \subseteq {"fails", "lost"}
  /\ WaitFaults \subseteq {"idle", "lost", "unknown"}
  /\ {AsyncFlush, DeferUploads, Pooling, MayDiscard} \subseteq BOOLEAN
  /\ DeferUploads => AsyncFlush

VARIABLE ctx

(* A recorded command: a dispatch of a descriptor set, or the copy of a    *)
(* staging pair.  `to' is the buffer the program addressed.                *)
Commands ==
  [set: DescriptorSets, to: Pairs, value: Pushed]
    \cup [from: Stages, to: Pairs]

IsDispatch(cmd) == "set" \in DOMAIN cmd

(* Recorder and Submitted. *)
Batches == [cmds: Seq(Commands), retired: SUBSET Objects, bank: {0, 1}]

NoBatch == [cmds |-> << >>, retired |-> {}, bank |-> 0]

KernelStates ==
  [built: BOOLEAN,
   bound: Handles \cup {0},             \* the id bound, 0 before any bind
   pending: Pairs \cup {NoPair},        \* what the next write_set writes
   mark: 0 .. ArenaSize,                \* next_set of this generation
   reuse: DescriptorSets \cup {NoSet}]

Unbuilt == [built |-> FALSE, bound |-> 0, pending |-> NoPair, mark |-> 0,
            reuse |-> NoSet]

Context ==
  [open: BOOLEAN, rec: Batches,         \* recorder, and bank while it is open
   flying: BOOLEAN, flight: Batches,    \* in_flight
   ran: BOOLEAN,                        \* the device has executed it
   adrift: SUBSET Objects,              \* named by batches of unknown state
   own: [Handles -> Pairs \cup {NoPair}],   \* the pair of a live buffer id
   next: 1 .. MaxHandles + 1,           \* next_buffer
   pool: SUBSET (Pairs \cup Stages),
   kern: [Kernels -> KernelStates],
   alive: SUBSET Objects,               \* created and not destroyed
   submissions: Nat,                    \* fences and command buffers alive
   scratch: Nat,                        \* other objects of a call, alive
   mem: [Pairs \cup Stages -> Contents],
   bindings: [DescriptorSets -> Pairs \cup {NoPair}],
   poisoned: BOOLEAN, lost: BOOLEAN, leaked: Nat, faults: 0 .. MaxFaults,
   closed: BOOLEAN, answer: Contents \cup {NoAnswer},
   wrote: Handles \cup {0, Everything}] \* history: written by the last call

-----------------------------------------------------------------------------
(* The device.                                                             *)

(* The memory after one command, given what the sets are bound to now. *)
Executed(c, mem, cmd) ==
  IF IsDispatch(cmd)
  THEN IF c.bindings[cmd.set] = NoPair THEN mem
       ELSE [mem EXCEPT ![c.bindings[cmd.set]] = cmd.value]
  ELSE [mem EXCEPT ![cmd.to] = mem[cmd.from]]

RunAll(c, mem, cmds) ==
  LET after[i \in 0 .. Len(cmds)] ==
        IF i = 0 THEN mem ELSE Executed(c, after[i-1], cmds[i])
  IN  after[Len(cmds)]

(* What commands name: buffers, staging pairs, and kernels by their sets. *)
Uses(cmds) ==
  UNION {IF IsDispatch(cmds[i]) THEN {cmds[i].to, cmds[i].set[1]}
         ELSE {cmds[i].from, cmds[i].to} : i \in DOMAIN cmds}

(* The batch in flight has executed, if only now. *)
Ran(c) ==
  IF c.flying /\ ~c.ran
  THEN [c EXCEPT !.mem = RunAll(c, @, c.flight.cmds), !.ran = TRUE] ELSE c

-----------------------------------------------------------------------------
(* Release.                                                                *)

Weight(S) == 2 * Cardinality(S \ Kernels) + 4 * Cardinality(S \cap Kernels)

(* recycle_or_destroy and recycle_staging: into the pool or destroyed. *)
Recycled(c, S) ==
  LET kept == IF Pooling THEN S \ Kernels ELSE {}
  IN  [c EXCEPT !.pool = @ \cup kept, !.alive = @ \ (S \ kept)]

(* destroy_staging_pair, and the pairs and kernels recycled. *)
Scrapped(c, S) ==
  [Recycled(c, S \ Stages) EXCEPT !.alive = @ \ (S \cap Stages)]

(* Mutant: one count per retired entry, not one per Vulkan object. *)
LeakedByEntry(c, S) == [c EXCEPT !.leaked = @ + Cardinality(S)]

Leaked(c, S) == [c EXCEPT !.leaked = @ + Weight(S)]

(* Mutants: no leak at all, and a leak on a lost device too. *)
ReleasedAlways(c, S) == Scrapped(c, S)

LeakedIfPoisoned(c, S) == IF c.poisoned THEN Leaked(c, S) ELSE Scrapped(c, S)

(* release_or_leak, for the objects of a batch or of a call. *)
ReleasedOrLeaked(c, S) ==
  IF c.poisoned /\ ~c.lost THEN Leaked(c, S) ELSE Scrapped(c, S)

(* release_submission: the fence and the command buffer. *)
SubmissionReleased(c) == [c EXCEPT !.submissions = @ - 1]

Poisoned(c, lost) == [c EXCEPT !.poisoned = TRUE, !.lost = @ \/ lost]

-----------------------------------------------------------------------------
(* Flushing.                                                               *)

(* finish: the batch b, submitted and last to execute, is waited for.  The *)
(* wait succeeds, or fails and the device is found idle, lost, or neither. *)
Finished(c, b, wait) ==
  CASE wait = "ok" -> SubmissionReleased(Recycled(c, b.retired))
    [] wait = "idle" -> SubmissionReleased(ReleasedOrLeaked(c, b.retired))
    [] wait = "lost" ->
         SubmissionReleased(ReleasedOrLeaked(Poisoned(c, TRUE), b.retired))
    [] wait = "unknown" ->
         LET p == Poisoned([c EXCEPT !.leaked = @ + 2,
                                     !.adrift = @ \cup Uses(b.cmds)], FALSE)
         IN  ReleasedOrLeaked(p, b.retired)

(* reap_in_flight. *)
Reaped(c, wait) ==
  IF c.flying
  THEN Finished([Ran(c) EXCEPT !.flying = FALSE, !.flight = NoBatch,
                               !.ran = FALSE], c.flight, wait)
  ELSE c

(* Mutant: the loss is not told. *)
LostQuietly(c, b, submit) == SubmissionReleased(ReleasedOrLeaked(c, b.retired))

(* lose_batch: end, reset or submit failed with this batch. *)
Lost(c, b, submit) ==
  Poisoned(SubmissionReleased(ReleasedOrLeaked(c, b.retired)), submit = "lost")

(* batch_gen moves: every watermark and every cached set is of the past. *)
NextGeneration(c) ==
  [c EXCEPT !.kern = [k \in Kernels |-> [@[k] EXCEPT !.mark = 0, !.reuse = NoSet]]]

Idle == [submit |-> "ok", reap |-> "ok", wait |-> "ok"]

(* The ways the Vulkan calls of one flush can end. *)
Outcomes ==
  {Idle} \cup {[Idle EXCEPT !.submit = o] : o \in SubmitFaults}
         \cup {[Idle EXCEPT !.reap = o] : o \in WaitFaults}
         \cup {[Idle EXCEPT !.wait = o] : o \in WaitFaults}

(* A submission whose predecessor could not be seen through: everything it *)
(* holds is counted leaked.  The device may still execute it, unless it is *)
(* idle or lost.                                                           *)
LeakedBehind(c, b, reap) ==
  LET l == Leaked([c EXCEPT !.leaked = @ + 2], b.retired)
  IN  CASE reap = "idle"    -> [l EXCEPT !.mem = RunAll(c, @, b.cmds)]
        [] reap = "lost"    -> l
        [] reap = "unknown" -> [l EXCEPT !.adrift = @ \cup Uses(b.cmds)]

(* flush, on a live context: what it leaves. *)
Flushed(c, completing, f) ==
  LET b == c.rec
      g == NextGeneration([c EXCEPT !.open = FALSE, !.rec = NoBatch])
      r == Reaped(g, f.reap)
  IN  IF ~c.open
      THEN IF completing THEN r ELSE g
      ELSE IF f.submit # "ok" THEN Lost(g, b, f.submit)
      ELSE IF c.flying /\ f.reap # "ok" THEN LeakedBehind(r, b, f.reap)
      ELSE IF completing
      THEN Finished([r EXCEPT !.mem = RunAll(r, @, b.cmds)], b, f.wait)
      ELSE [r EXCEPT !.flying = TRUE, !.flight = b]

(* ... and whether it returns an error. *)
FlushFails(c, completing, f) ==
  \/ c.open /\ f.submit # "ok"
  \/ c.flying /\ (c.open \/ completing) /\ f.reap # "ok"
  \/ c.open /\ completing /\ f.wait # "ok"

(* Mutant: a readback leaves its batch in flight. *)
CompletingButReadback(reason) ==
  ~AsyncFlush \/ reason \notin {"BatchFull", "DescriptorsExhausted", "Readback"}

Completing(reason) ==
  ~AsyncFlush \/ reason \notin {"BatchFull", "DescriptorsExhausted"}

Flush(c, reason, f) == Flushed(c, Completing(reason), f)
Failed(c, reason, f) == FlushFails(c, Completing(reason), f)

-----------------------------------------------------------------------------
(* Recording.                                                              *)

(* Mutant: one bank for every batch. *)
OnlyBank(c) == 0

(* open_bank: not the bank of the batch in flight. *)
OpenBank(c) ==
  IF c.open THEN c.rec.bank ELSE IF c.flying THEN 1 - c.flight.bank ELSE 0

(* open_batch. *)
Opened(c) ==
  IF c.open THEN c
  ELSE [c EXCEPT !.open = TRUE, !.rec = [NoBatch EXCEPT !.bank = OpenBank(c)],
                 !.submissions = @ + 1]

Recorded(c, cmd) == [Opened(c) EXCEPT !.rec.cmds = Append(@, cmd)]

Items(b) == Cardinality({i \in DOMAIN b.cmds : IsDispatch(b.cmds[i])})
Due(c) == Items(c.rec) >= MaxItems

(* acquire_set and write_set: the next set of the open bank, written with  *)
(* what the kernel is bound to.                                            *)
NextSet(c, k) == <<k, OpenBank(c), c.kern[k].mark + 1>>

SetWritten(c, k) ==
  [c EXCEPT !.bindings[NextSet(c, k)] = c.kern[k].pending,
            !.kern[k].mark = @ + 1]

(* The set a dispatch uses: the one its bindings are already written in,   *)
(* or the next.                                                            *)
Acquired(c, k) ==
  IF c.kern[k].reuse # NoSet THEN c
  ELSE [SetWritten(c, k) EXCEPT !.kern[k].reuse = NextSet(c, k)]

(* one_shot, after a flush that left nothing in flight: a submission of    *)
(* its own.  It executes, unless it could not be submitted or the device   *)
(* was lost; `extra' more objects of the call are leaked with it.          *)
Shots == {"ok"} \cup {"fails" : o \in SubmitFaults} \cup WaitFaults

OneShot(c, shot, mem, uses, extra) ==
  CASE shot \in {"ok", "idle"} -> [c EXCEPT !.mem = mem]
    [] shot = "fails" -> c
    [] shot = "lost" -> Poisoned(c, TRUE)
    [] shot = "unknown" ->
         [Poisoned(c, FALSE) EXCEPT !.leaked = @ + 2 + extra, !.scratch = @ + extra,
                                    !.submissions = @ + 1,
                                    !.adrift = @ \cup uses]

(* take_staging: a pooled pair, else a new one. *)
StageChoices(c) ==
  IF c.pool \cap Stages # {} THEN c.pool \cap Stages ELSE Stages \ c.alive

(* Mutant: the pair taken stays in the pool. *)
StageBorrowed(c, s, v) == [c EXCEPT !.alive = @ \cup {s}, !.mem[s] = v]

(* A staging pair taken, and filled by the host. *)
StageTaken(c, s, v) ==
  [c EXCEPT !.pool = @ \ {s}, !.alive = @ \cup {s}, !.mem[s] = v]

(* abandon_batch: the batch in flight is seen through, or leaked by a      *)
(* poisoned context, and the open one dropped.                             *)
Abandoned(c, wait) ==
  LET a == IF c.flying /\ c.poisoned
           THEN Leaked([c EXCEPT !.leaked = @ + 2, !.flying = FALSE,
                                 !.flight = NoBatch, !.ran = FALSE,
                                 !.adrift = @ \cup Uses(c.flight.cmds)],
                       c.flight.retired)
           ELSE Reaped(c, wait)
      d == SubmissionReleased([a EXCEPT !.open = FALSE, !.rec = NoBatch])
  IN  IF ~a.open THEN a
      ELSE IF a.poisoned THEN Scrapped(d, a.rec.retired)
      ELSE Recycled(d, a.rec.retired)

-----------------------------------------------------------------------------
(* The calls.                                                              *)

Init ==
  ctx = [open |-> FALSE, rec |-> NoBatch, flying |-> FALSE, flight |-> NoBatch,
         ran |-> FALSE, adrift |-> {}, own |-> [h \in Handles |-> NoPair],
         next |-> 1, pool |-> {}, kern |-> [k \in Kernels |-> Unbuilt],
         alive |-> {}, submissions |-> 0, scratch |-> 0,
         mem |-> [o \in Pairs \cup Stages |-> Junk],
         bindings |-> [s \in DescriptorSets |-> NoPair],
         poisoned |-> FALSE, lost |-> FALSE, leaked |-> 0, faults |-> 0,
         closed |-> FALSE, answer |-> NoAnswer, wrote |-> 0]

(* The context a call starts from, its failing Vulkan calls counted. *)
Called(failures) ==
  [ctx EXCEPT !.answer = NoAnswer, !.wrote = 0, !.faults = @ + failures]

(* c, by a call that wrote h unless it found the context refusing. *)
Writing(c, h) == [c EXCEPT !.wrote = IF c.poisoned THEN 0 ELSE h]

(* check_live, and the bound on failures. *)
Live(failures) ==
  ~ctx.closed /\ ~ctx.poisoned /\ ctx.faults + failures <= MaxFaults

Cost(outcome, fine) == IF outcome = fine THEN 0 ELSE 1

(* buffer: a pooled pair if there is one, else a new one. *)
Buffer ==
  /\ Live(0)
  /\ ctx.next <= MaxHandles
  /\ LET pooled == ctx.pool \cap Pairs
         c == Called(0)
     IN  \/ \E p \in pooled :
              ctx' = [c EXCEPT !.pool = @ \ {p}, !.own[ctx.next] = p,
                               !.next = @ + 1]
         \/ /\ pooled = {}
            /\ \E p \in Pairs \ ctx.alive :
                 ctx' = [c EXCEPT !.alive = @ \cup {p}, !.own[ctx.next] = p,
                                  !.next = @ + 1, !.mem[p] = Junk]

(* Mutant: a free with nothing recorded forgets the batch in flight. *)
FreeBufferUnderFlight(h, f) ==
  /\ ~ctx.closed /\ ctx.own[h] # NoPair /\ f = Idle
  /\ LET c == [Called(0) EXCEPT !.own[h] = NoPair]
     IN  ctx' = IF c.open THEN [c EXCEPT !.rec.retired = @ \cup {ctx.own[h]}]
                ELSE ReleasedOrLeaked(c, {ctx.own[h]})

(* free_buffer, in three parts: into the open batch and past the budget a  *)
(* flush, into the batch in flight, or released at once.                   *)
FreeBuffer(h, f) ==
  /\ ~ctx.closed /\ ctx.own[h] # NoPair
  /\ LET p == ctx.own[h]
         c == [Called(Cost(f, Idle)) EXCEPT !.own[h] = NoPair]
         r == [c EXCEPT !.rec.retired = @ \cup {p}]
         due == Cardinality(r.rec.retired \cap Pairs) > MaxRetired
     IN  /\ f # Idle => /\ c.open /\ due /\ c.faults <= MaxFaults
                        /\ Failed(r, "RetirementBudget", f)
         /\ ctx' = IF ~c.open /\ c.flying
                   THEN [c EXCEPT !.flight.retired = @ \cup {p}]
                   ELSE IF ~c.open THEN ReleasedOrLeaked(c, {p})
                   ELSE IF due THEN Flush(r, "RetirementBudget", f)
                   ELSE r

(* kernel_with_subgroup. *)
BuildKernel(k) ==
  /\ Live(0) /\ k \notin ctx.alive
  /\ ctx' = [Called(0) EXCEPT
       !.alive = @ \cup {k},
       !.kern[k] = [Unbuilt EXCEPT !.built = TRUE],
       !.bindings = [s \in DescriptorSets |-> IF s[1] = k THEN NoPair ELSE @[s]]]

DestroyKernel(k) ==
  /\ ~ctx.closed /\ ctx.kern[k].built
  /\ LET c == [Called(0) EXCEPT !.kern[k] = Unbuilt]
     IN  ctx' = IF c.open THEN [c EXCEPT !.rec.retired = @ \cup {k}]
                ELSE IF c.flying THEN [c EXCEPT !.flight.retired = @ \cup {k}]
                ELSE ReleasedOrLeaked(c, {k})

Bind(k, h) ==
  /\ Live(0) /\ ctx.kern[k].built /\ ctx.own[h] # NoPair
  /\ ctx' = [Called(0) EXCEPT !.kern[k].bound = h, !.kern[k].pending = ctx.own[h],
                              !.kern[k].reuse = NoSet]

(* check_dispatch: the kernel is bound, to a buffer that is still live. *)
Dispatchable(k) ==
  /\ ctx.kern[k].built /\ ctx.kern[k].bound # 0
  /\ ctx.own[ctx.kern[k].bound] # NoPair

(* dispatch: an exhausted arena is flushed for, a full batch is flushed. *)
Dispatch(k, v, f, g) ==
  /\ Live(Cost(f, Idle) + Cost(g, Idle)) /\ Dispatchable(k)
  /\ LET c == Called(Cost(f, Idle) + Cost(g, Idle))
         exhausted == c.kern[k].reuse = NoSet /\ c.kern[k].mark = ArenaSize
         a == IF exhausted THEN Flush(c, "DescriptorsExhausted", f) ELSE c
         s == Acquired(a, k)
         r == Recorded(s, [set |-> s.kern[k].reuse, to |-> c.kern[k].pending,
                           value |-> v])
         failed == exhausted /\ Failed(c, "DescriptorsExhausted", f)
     IN  /\ f # Idle => failed
         /\ g # Idle => ~failed /\ Due(r) /\ Failed(r, "BatchFull", g)
         /\ ctx' = IF failed THEN a
                   ELSE Writing(IF Due(r) THEN Flush(r, "BatchFull", g) ELSE r,
                                c.kern[k].bound)

(* dispatch_timed: a submission of its own, through the first set.  The    *)
(* query pool is the extra object.                                         *)
DispatchTimed(k, v, f, shot) ==
  /\ Live(Cost(f, Idle) + Cost(shot, "ok")) /\ Dispatchable(k)
  /\ LET c == Called(Cost(f, Idle) + Cost(shot, "ok"))
         a == Flush(c, "TimedDispatch", f)
         s == SetWritten(a, k)
         cmd == [set |-> NextSet(a, k), to |-> c.kern[k].pending, value |-> v]
         failed == Failed(c, "TimedDispatch", f)
     IN  /\ f # Idle => failed
         /\ shot # "ok" => ~failed
         /\ ctx' = IF failed THEN a
                   ELSE LET o == OneShot(s, shot, Executed(s, s.mem, cmd),
                                         Uses(<<cmd>>), 1)
                        IN  IF shot = "fails" THEN o
                            ELSE Writing(o, c.kern[k].bound)

(* upload_recorded. *)
UploadRecorded(h, v, s) ==
  /\ DeferUploads
  /\ Live(0) /\ ctx.own[h] # NoPair /\ s \in StageChoices(ctx)
  /\ Len(ctx.rec.cmds) - Items(ctx.rec) < MaxUploads
  /\ LET r == Recorded(StageTaken(Called(0), s, v),
                       [from |-> s, to |-> ctx.own[h]])
     IN  ctx' = Writing([r EXCEPT !.rec.retired = @ \cup {s}], h)

(* upload, as its own submission. *)
UploadNow(h, v, s, f, shot) ==
  /\ ~DeferUploads
  /\ Live(Cost(f, Idle) + Cost(shot, "ok")) /\ ctx.own[h] # NoPair
  /\ LET c == Called(Cost(f, Idle) + Cost(shot, "ok"))
         a == Flush(c, "Upload", f)
         t == StageTaken(a, s, v)
         cmd == [from |-> s, to |-> ctx.own[h]]
         done == OneShot(t, shot, Executed(t, t.mem, cmd), Uses(<<cmd>>), 0)
         failed == Failed(c, "Upload", f)
     IN  /\ s \in StageChoices(a)
         /\ f # Idle => failed
         /\ shot # "ok" => ~failed
         /\ ctx' = IF failed THEN a
                   ELSE IF shot = "ok" THEN Writing(Recycled(done, {s}), h)
                   ELSE IF shot = "fails" THEN ReleasedOrLeaked(done, {s})
                   ELSE Writing(ReleasedOrLeaked(done, {s}), h)

(* download_into.  Its staging pair, of a pool of its own, is the extra.   *)
Download(h, f, shot) ==
  /\ Live(Cost(f, Idle) + Cost(shot, "ok")) /\ ctx.own[h] # NoPair
  /\ LET c == Called(Cost(f, Idle) + Cost(shot, "ok"))
         a == Flush(c, "Readback", f)
         failed == Failed(c, "Readback", f)
     IN  /\ f # Idle => failed
         /\ shot # "ok" => ~failed
         /\ ctx' = IF failed THEN a
                   ELSE [OneShot(a, shot, a.mem, {ctx.own[h]}, 2) EXCEPT
                           !.answer = IF shot = "ok" THEN a.mem[ctx.own[h]]
                                      ELSE NoAnswer]

Sync(f) ==
  /\ Live(Cost(f, Idle))
  /\ f # Idle => Failed(ctx, "ExplicitSync", f)
  /\ ctx' = Flush(Called(Cost(f, Idle)), "ExplicitSync", f)

DiscardRecordedBatch(wait) ==
  /\ MayDiscard
  /\ ~ctx.closed /\ ctx.faults + Cost(wait, "ok") <= MaxFaults
  /\ wait # "ok" => ctx.flying /\ ~ctx.poisoned
  /\ ctx' = Writing(Abandoned(Called(Cost(wait, "ok")), wait), Everything)

(* Drop: nothing is touched if the state of the device is unknown.  Its    *)
(* own wait for the device may fail unnoticed.                             *)
Drop(idle, wait) ==
  /\ ~ctx.closed /\ ctx.faults + Cost(idle, "ok") + Cost(wait, "ok") <= MaxFaults
  /\ wait # "ok" => ctx.flying /\ ~ctx.poisoned
  /\ LET c == [Called(Cost(idle, "ok") + Cost(wait, "ok")) EXCEPT !.closed = TRUE]
         i == IF idle = "ok" THEN [Ran(c) EXCEPT !.flight.cmds = << >>] ELSE c
         a == Abandoned(i, wait)
     IN  ctx' = IF c.poisoned /\ ~c.lost THEN c
                ELSE [a EXCEPT !.alive = @ \ a.pool, !.pool = {}]

(* The device gets to the batch in flight. *)
DeviceExecutes ==
  /\ ctx.flying /\ ~ctx.ran /\ ~ctx.lost
  /\ ctx' = Ran(ctx)

Waits == {"ok"} \cup WaitFaults

Next ==
  \/ Buffer
  \/ \E h \in Handles, f \in Outcomes : FreeBuffer(h, f)
  \/ \E k \in Kernels : BuildKernel(k) \/ DestroyKernel(k)
  \/ \E k \in Kernels, h \in Handles : Bind(k, h)
  \/ \E k \in Kernels, v \in Pushed, f, g \in Outcomes : Dispatch(k, v, f, g)
  \/ \E k \in Kernels, v \in Pushed, f \in Outcomes, shot \in Shots :
       DispatchTimed(k, v, f, shot)
  \/ \E h \in Handles, v \in Pushed, s \in Stages : UploadRecorded(h, v, s)
  \/ \E h \in Handles, v \in Pushed, s \in Stages, f \in Outcomes, shot \in Shots :
       UploadNow(h, v, s, f, shot)
  \/ \E h \in Handles, f \in Outcomes, shot \in Shots : Download(h, f, shot)
  \/ \E f \in Outcomes : Sync(f)
  \/ \E wait \in Waits : DiscardRecordedBatch(wait)
  \/ \E idle \in {"ok", "fails"}, wait \in Waits : Drop(idle, wait)
  \/ DeviceExecutes

Spec == Init /\ [][Next]_ctx
-----------------------------------------------------------------------------
(* The parts of a context have the types the code gives them. *)
TypeOK == ctx \in Context

(* What a command recorded or submitted and not yet waited for names is    *)
(* neither destroyed nor given to the pool, where the next buffer() would  *)
(* hand it out: retirement and the leak rule exist for this                *)
(* (lib.rs:595-607, 2701-2706, 3181-3183).                                 *)
NamedObjectsExist ==
  ~ctx.lost =>
    Uses(ctx.rec.cmds) \cup Uses(ctx.flight.cmds) \cup ctx.adrift
      \subseteq ctx.alive \ ctx.pool

(* A descriptor set a recorded or submitted dispatch was given still names *)
(* the buffer it was given with: neither the arena's reset, nor the cached *)
(* set, nor the two banks ever rewrite one in use (lib.rs:506-525).        *)
DescriptorsHold ==
  \A b \in {ctx.rec, ctx.flight} : \A i \in DOMAIN b.cmds :
    IsDispatch(b.cmds[i]) => ctx.bindings[b.cmds[i].set] = b.cmds[i].to

OwnedPairs == {ctx.own[h] : h \in Handles} \ {NoPair}
BuiltKernels == {k \in Kernels : ctx.kern[k].built}

(* Every object that exists is held in at most one place: by one live id,  *)
(* as a kernel of the caller, in a pool, or by one batch that releases it  *)
(* once.  Eight refusals of the C ABI read two different ids as two        *)
(* different allocations (lib.rs:727-737).                                 *)
OneHolder ==
  /\ \A g, h \in Handles : ctx.own[g] = ctx.own[h] /\ g # h => ctx.own[g] = NoPair
  /\ LET holders == <<OwnedPairs, BuiltKernels, ctx.pool, ctx.rec.retired,
                      ctx.flight.retired>>
     IN  /\ \A i, j \in DOMAIN holders : i # j => holders[i] \cap holders[j] = {}
         /\ UNION Range(holders) \subseteq ctx.alive

Held == OwnedPairs \cup BuiltKernels \cup ctx.pool \cup ctx.rec.retired
          \cup ctx.flight.retired

(* leaked_on_poison counts exactly the Vulkan objects that exist and that  *)
(* nobody will release any more, whichever of its five places counted them *)
(* (lib.rs:476-483).                                                       *)
LeaksCounted ==
  ctx.leaked = Weight(ctx.alive \ Held) + ctx.scratch
                 + 2 * (ctx.submissions - (IF ctx.open THEN 1 ELSE 0)
                                        - (IF ctx.flying THEN 1 ELSE 0))

(* A context that was closed with the device in a known state and nothing  *)
(* leaked leaves nothing behind but what the caller still holds.           *)
NothingLeftBehind ==
  ctx.closed /\ (ctx.poisoned => ctx.lost) /\ ctx.leaked = 0 =>
    /\ ctx.alive = OwnedPairs \cup BuiltKernels
    /\ ctx.submissions = 0 /\ ctx.scratch = 0

(* Nothing is lost uncounted, and nothing is left uncounted at the end. *)
LeaksAccounted == LeaksCounted /\ NothingLeftBehind

(* lib.rs:3337: "On a healthy or lost context leaked_on_poison() is 0." *)
HealthyLeaksNothing == (ctx.poisoned => ctx.lost) => ctx.leaked = 0

-----------------------------------------------------------------------------
(* The memory as it will be once everything accepted has executed. *)
Settled ==
  LET flown == Ran(ctx).mem
  IN  RunAll(ctx, flown, ctx.rec.cmds)

(* To its caller the context is one where every accepted call has already  *)
(* happened: a readback sees every dispatch and upload accepted before it, *)
(* in order, and no other (lib.rs:3165-3183), or the context refuses.      *)
Refusing == ctx.poisoned \/ ctx.closed

(* What each handle reads, if a read is taken at all. *)
Readable ==
  LET settled == Settled
  IN  [h \in Handles |-> IF Refusing \/ ctx.own[h] = NoPair THEN Unheld
                         ELSE settled[ctx.own[h]]]

Eager == INSTANCE EagerContext WITH
  Values <- Contents,
  cells <- Readable,
  refusing <- Refusing,
  answer <- ctx.answer,
  wrote <- ctx.wrote

ReadbacksSeeEverything == Eager!Spec
=============================================================================
