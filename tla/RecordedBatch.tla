---------------------------- MODULE RecordedBatch ----------------------------
(***************************************************************************)
(* The recorded command stream of one Context and the memory barriers that *)
(* order it on the device (lib.rs: open_batch, dispatch, upload_recorded,  *)
(* record_buffer_copies, record_copies_from_staging, record_readback,      *)
(* flush).  The host records commands into an open batch; a flush submits  *)
(* it.  Under the asynchronous flush the batch before it still executes    *)
(* while the next one is recorded and submitted, so what orders two        *)
(* conflicting commands is a barrier or nothing.                           *)
(*                                                                         *)
(* The device executes at once every command not separated by a barrier:   *)
(* the worst any Vulkan implementation may do.  A submitted batch executes *)
(* until a call of the host has waited for it.  Failures of a call are in  *)
(* module DeferredContext.                                                 *)
(*                                                                         *)
(* Memory is whole buffers and whole staging areas.  A dispatch declares   *)
(* the accesses its shader makes, as check_declared_access obliges it to.  *)
(***************************************************************************)
EXTENDS Naturals, Sequences, FiniteSets

CONSTANTS
  Buffers,          (* device buffers of the context                          *)
  Areas,            (* persistent staging areas (Staging)                     *)
  AreaId,           (* the id bind_operand gives every area: 0                *)
  Shapes,           (* the accesses the kernels of this program make          *)
  Rules,            (* the barrier rules a context may be opened under        *)
  AsyncFlush,       (* ACK_ASYNC_FLUSH                                        *)
  Ramp,             (* ACK_BATCH_RAMP                                         *)
  MaxRecordedItems, (* the batch depth                                        *)
  RampFirst,        (* RAMP_FIRST                                             *)
  RampMax,          (* RAMP_FIRST << 16, where the doubling stops             *)
  MaxCommands,      (* bound: commands of one batch, recorded transfers       *)
                    (* included (a transfer alone never fills a batch)        *)
  QuietToggle       (* the program switches the timestamp instrument only     *)
                    (* when no batch is in flight                             *)

Memory == Buffers \cup Areas

ASSUME DeviceAssumption ==
  /\ Buffers \cap Areas = {}
  /\ AreaId \notin Buffers
  /\ Shapes \subseteq [reads: SUBSET Memory, writes: SUBSET Memory]
  /\ {AsyncFlush, Ramp, QuietToggle} \subseteq BOOLEAN

ASSUME DepthAssumption ==
  /\ {MaxRecordedItems, RampFirst} \subseteq Nat \ {0}
  /\ {RampMax, MaxCommands} \subseteq Nat

INSTANCE BatchPlan WITH Ids <- Buffers \cup {AreaId}

ASSUME RulesAssumption == Rules \subseteq BarrierRule

VARIABLE ctx

(* A command as the device sees it: what it touches and whether a full     *)
(* memory barrier was recorded right before it.                            *)
Command == [reads: SUBSET Memory, writes: SUBSET Memory, barrier: BOOLEAN,
            item: BOOLEAN]     \* a dispatch, else a recorded transfer

(* What orders the first command of a batch after the batch before it: the *)
(* cross-batch memory barrier; the origin barrier of the timestamp         *)
(* instrument, which names no memory; or nothing.                          *)
Opening == {"memory", "execution", "none"}

Context ==
  [open: BOOLEAN,            \* recorder.is_some()
   plan: Plan,
   pending: BOOLEAN,         \* pending_transfer
   batch: Seq(Command),      \* the open batch's command buffer
   opening: Opening,         \* what it begins with
   flying: BOOLEAN,          \* in_flight.is_some()
   flight: Seq(Command),     \* the command buffer in flight
   ts: BOOLEAN,              \* ts_enabled
   rampDepth: Nat,           \* RAMP_FIRST << ramp
   raced: BOOLEAN]           \* history: an unordered conflict was submitted

-----------------------------------------------------------------------------
(* Ordering on the device.                                                 *)

Conflict(a, b) ==
  \/ a.writes \cap (b.reads \cup b.writes) # {}
  \/ b.writes \cap a.reads # {}

(* A barrier stands between commands i and j of one command buffer. *)
Separated(cmds, i, j) == \E k \in i+1 .. j : cmds[k].barrier

OrderedWithin(cmds) ==
  \A i, j \in 1 .. Len(cmds) :
    i < j /\ Conflict(cmds[i], cmds[j]) => Separated(cmds, i, j)

(* What the opening of b's batch leaves unordered between a, of the batch  *)
(* before, and b.  The origin barrier makes a dispatch wait for earlier    *)
(* commands but hands no write over to it, and holds no transfer.          *)
LeftOpen(opening, a, b) ==
  CASE opening = "memory"    -> FALSE
    [] opening = "none"      -> Conflict(a, b)
    [] opening = "execution" -> \/ a.writes \cap (b.reads \cup b.writes) # {}
                                \/ ~b.item /\ b.writes \cap a.reads # {}

(* A barrier's first scope reaches every command submitted before it. *)
OrderedAfter(first, opening, cmds) ==
  \A i \in 1 .. Len(first), j \in 1 .. Len(cmds) :
    LeftOpen(opening, first[i], cmds[j]) => Separated(cmds, 0, j)

Raced(c) ==
  ~ /\ OrderedWithin(c.batch)
    /\ c.flying => OrderedAfter(c.flight, c.opening, c.batch)

-----------------------------------------------------------------------------
(* The steps the calls are made of, as functions of the context.           *)

Completes(c, reason) ==
  ~AsyncFlush \/ c.ts \/ reason \notin {"BatchFull", "DescriptorsExhausted"}

BatchDepth(c) ==
  IF ~Ramp \/ ~AsyncFlush \/ c.ts \/ MaxRecordedItems < c.rampDepth
  THEN MaxRecordedItems ELSE c.rampDepth

RampUp(d) == IF d < RampMax THEN 2 * d ELSE d

(* open_batch: nothing to do with a batch already open. *)
Opened(c) ==
  IF c.open THEN c
  ELSE [c EXCEPT !.open = TRUE,
                 !.plan = NewPlan(c.plan.rule, BatchDepth(c)),
                 !.opening = IF c.ts THEN "execution"
                             ELSE IF AsyncFlush THEN "memory" ELSE "none"]

(* flush: the open batch is submitted beside the batch in flight, which is *)
(* then seen through; the submitted one is seen through too, or takes its  *)
(* place.  With nothing recorded only a completing flush does anything.    *)
Flushed(c, reason) ==
  LET done == Completes(c, reason)
      leaves == c.open /\ ~done
  IN  IF ~c.open /\ ~done THEN c
      ELSE [c EXCEPT !.open = FALSE, !.pending = FALSE, !.batch = << >>,
                     !.plan = NewPlan(@.rule, 1), !.opening = "none",
                     !.flying = leaves,
                     !.flight = IF leaves THEN c.batch ELSE << >>,
                     !.rampDepth = IF done THEN RampFirst ELSE RampUp(@),
                     !.raced = @ \/ Raced(c)]

(* The id of a resource in a declaration: every area is AreaId. *)
Named(S) == (S \cap Buffers) \cup (IF S \cap Areas # {} THEN {AreaId} ELSE {})

Declares(a) == [reads |-> Named(a.reads), writes |-> Named(a.writes)]

(* The command of a dispatch: behind its own barrier, or behind the one    *)
(* after a recorded transfer whatever its place in the batch.              *)
ItemCommand(c, a) ==
  [reads |-> a.reads, writes |-> a.writes,
   barrier |-> ItemBarrier(c.plan, Declares(a)) \/ c.pending, item |-> TRUE]

ItemRecorded(c, a) ==
  [c EXCEPT !.plan = RecordWith(@, Declares(a)),
            !.batch = Append(@, ItemCommand(c, a)),
            !.pending = FALSE]

(* A transfer that touches memory a, the plan being told of d. *)
TransferCommand(c, a, d) ==
  [reads |-> a.reads, writes |-> a.writes,
   barrier |-> TransferBarrier(c.plan, d) \/ c.pending, item |-> FALSE]

TransferRecorded(c, a, d) ==
  [c EXCEPT !.plan = RecordTransfer(@, d),
            !.batch = Append(@, TransferCommand(c, a, d)),
            !.pending = TRUE]

AfterDue(c) == IF Due(c.plan) THEN Flushed(c, "BatchFull") ELSE c

-----------------------------------------------------------------------------
Init ==
  \E rule \in Rules :
    ctx = [open |-> FALSE, plan |-> NewPlan(rule, 1), pending |-> FALSE,
           batch |-> << >>, opening |-> "none", flying |-> FALSE,
           flight |-> << >>, ts |-> FALSE, rampDepth |-> RampFirst,
           raced |-> FALSE]

Room == Len(ctx.batch) < MaxCommands

(* Context::dispatch of a kernel whose descriptor arena may be exhausted.  *)
Dispatch(a, exhausted) ==
  /\ Room
  /\ LET c == IF exhausted THEN Flushed(ctx, "DescriptorsExhausted") ELSE ctx
     IN  ctx' = AfterDue(ItemRecorded(Opened(c), a))

(* upload_recorded: the kit's own staging pair is fresh to the batch, so   *)
(* the copy is known by its destination alone.                             *)
UploadRecorded(b) ==
  /\ Room
  /\ AsyncFlush /\ ~ctx.ts
  /\ LET a == [reads |-> {}, writes |-> {b}]
     IN  ctx' = AfterDue(TransferRecorded(Opened(ctx), a, a))

(* record_buffer_copies: refused if a buffer is both read and written. *)
RecordBufferCopies(from, to) ==
  /\ Room
  /\ from # {} /\ to # {} /\ from \cap to = {}
  /\ LET a == [reads |-> from, writes |-> to]
     IN  ctx' = TransferRecorded(Opened(ctx), a, a)

(* record_copies_from_staging: the plan hears of the destinations only. *)
RecordCopiesFromStaging(area, to) ==
  /\ Room
  /\ to # {}
  /\ ctx' = TransferRecorded(Opened(ctx), [reads |-> {area}, writes |-> to],
                                          [reads |-> {}, writes |-> to])

(* record_readback: the plan hears of the source only. *)
RecordReadback(b, area) ==
  /\ Room
  /\ ctx' = TransferRecorded(Opened(ctx), [reads |-> {b}, writes |-> {area}],
                                          [reads |-> {b}, writes |-> {}])

(* A call that sees the device through: sync, a readback, an upload that   *)
(* is its own submission, a timed dispatch, the retirement budget, close.  *)
CompletingFlush ==
  ctx' = Flushed(ctx, "ExplicitSync")

(* set_dispatch_timestamps: refused with a batch open. *)
SetDispatchTimestamps(on) ==
  /\ ~ctx.open
  /\ QuietToggle => ~ctx.flying
  /\ ctx' = [ctx EXCEPT !.ts = on]

Next ==
  \/ \E a \in Shapes, exhausted \in BOOLEAN : Dispatch(a, exhausted)
  \/ \E b \in Buffers : UploadRecorded(b)
  \/ \E from, to \in SUBSET Buffers : RecordBufferCopies(from, to)
  \/ \E area \in Areas, to \in SUBSET Buffers : RecordCopiesFromStaging(area, to)
  \/ \E b \in Buffers, area \in Areas : RecordReadback(b, area)
  \/ CompletingFlush
  \/ \E on \in BOOLEAN : SetDispatchTimestamps(on)

Spec == Init /\ [][Next]_ctx
-----------------------------------------------------------------------------
(* The context's parts have the types the code gives them. *)
TypeOK == ctx \in Context

(* No two commands that touch the same memory, one of them writing it, are *)
(* ever on the device with nothing ordering them: inside a batch, and      *)
(* between a batch and the one still executing when it was recorded        *)
(* (batch.rs:303-339, lib.rs:2549-2561).                                   *)
HazardFree == ~ctx.raced /\ ~Raced(ctx)

(* The rule gives up no overlap it need not: in a batch of dispatches      *)
(* alone, one that took a barrier conflicts with an earlier one that no    *)
(* barrier separates from it yet, or declared nothing (batch.rs:316-324).  *)
BarriersEarned ==
  ctx.plan.rule = "declared" =>
    \A j \in 1 .. Len(ctx.batch) :
      LET b == ctx.batch IN
      (b[j].barrier /\ \A i \in 1 .. j : b[i].item) =>
        \/ Undeclared(b[j])
        \/ \E i \in 1 .. j-1 : Conflict(b[i], b[j]) /\ ~Separated(b, i, j-1)

(* The barriers the plan counts are among the barriers recorded before the *)
(* batch's dispatches but the first, and under the unconditional rule they *)
(* are all of them (batch.rs:335-339).                                     *)
BarrierCount ==
  LET dispatched == {i \in 1 .. Len(ctx.batch) : ctx.batch[i].item}
      barred == {i \in dispatched : ctx.batch[i].barrier}
  IN  ctx.open =>
        /\ ctx.plan.items = Cardinality(dispatched)
        /\ ctx.plan.barriers <= Cardinality(barred)
        /\ ctx.plan.items > 0 => ctx.plan.barriers < ctx.plan.items
        /\ ctx.plan.rule = "always" /\ ctx.plan.items > 0
             => ctx.plan.barriers = ctx.plan.items - 1

(* Both: every barrier is there for a reason and in the count, with the    *)
(* transfers of a batch recorded between its dispatches.                   *)
BarriersAccounted == BarriersEarned /\ BarrierCount

(* lib.rs:2404: "this is recorded_items() - 1, or 0 for an empty batch". *)
BarriersAreItemsLessOne ==
  ctx.open => ctx.plan.barriers = IF ctx.plan.items = 0 THEN 0
                                  ELSE ctx.plan.items - 1
=============================================================================
