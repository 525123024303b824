------------------------- MODULE RecordedBatchProofs -------------------------
(***************************************************************************)
(* Theorems about RecordedBatch, for every set of buffers and areas, every *)
(* depth and either barrier rule: the context keeps its types, and the     *)
(* barrier rule orders every pair of conflicting commands.                 *)
(*                                                                         *)
(* The calls are compositions of Flushed, Opened, ItemRecorded,            *)
(* TransferRecorded and AfterDue, so each of these gets one lemma: it      *)
(* preserves the invariant.                                                *)
(***************************************************************************)
EXTENDS RecordedBatch, FiniteSetTheorems, TLAPS

-----------------------------------------------------------------------------
(* Types.                                                                  *)

LEMMA NewPlanType ==
  ASSUME NEW rule \in BarrierRule, NEW m \in Nat
  PROVE  NewPlan(rule, m) \in Plan
  BY DEF NewPlan, Plan

LEMMA FlushedType ==
  ASSUME NEW c \in Context, NEW reason
  PROVE  Flushed(c, reason) \in Context
  <1> DEFINE done   == Completes(c, reason)
             leaves == c.open /\ ~done
             ft     == IF leaves THEN c.batch ELSE << >>
             depth  == IF done THEN RampFirst ELSE RampUp(c.rampDepth)
             ra     == c.raced \/ Raced(c)
  <1>1. CASE ~c.open /\ ~done
    BY <1>1 DEF Flushed
  <1>2. CASE ~(~c.open /\ ~done)
    <2>1. Flushed(c, reason) =
            [open |-> FALSE, plan |-> NewPlan(c.plan.rule, 1), pending |-> FALSE,
             batch |-> << >>, opening |-> "none", flying |-> leaves,
             flight |-> ft, ts |-> c.ts, rampDepth |-> depth, raced |-> ra]
      BY <1>2 DEF Flushed, Context
    <2>2. ft \in Seq(Command)
      BY DEF Context
    <2>3. depth \in Nat
      BY DepthAssumption DEF Context, RampUp
    <2>4. NewPlan(c.plan.rule, 1) \in Plan
      BY NewPlanType DEF Context, Plan
    <2>5. << >> \in Seq(Command)
      OBVIOUS
    <2>6. leaves \in BOOLEAN /\ ra \in BOOLEAN
      OBVIOUS
    <2>7. c.ts \in BOOLEAN
      BY DEF Context
    <2>8. "none" \in Opening
      BY DEF Opening
    <2> HIDE DEF leaves, ft, depth, ra
    <2>9. [open |-> FALSE, plan |-> NewPlan(c.plan.rule, 1), pending |-> FALSE,
             batch |-> << >>, opening |-> "none", flying |-> leaves,
             flight |-> ft, ts |-> c.ts, rampDepth |-> depth, raced |-> ra]
          \in Context
      BY <2>2, <2>3, <2>4, <2>5, <2>6, <2>7, <2>8 DEF Context
    <2> QED
      BY <2>1, <2>9
  <1> QED
    BY <1>1, <1>2

LEMMA OpenedType ==
  ASSUME NEW c \in Context
  PROVE  Opened(c) \in Context /\ Opened(c).open
  <1>1. CASE c.open
    BY <1>1 DEF Opened
  <1>2. CASE ~c.open
    <2> DEFINE op == IF c.ts THEN "execution"
                     ELSE IF AsyncFlush THEN "memory" ELSE "none"
               p == NewPlan(c.plan.rule, BatchDepth(c))
    <2>1. Opened(c) = [c EXCEPT !.open = TRUE, !.plan = p, !.opening = op]
      BY <1>2 DEF Opened
    <2>2. BatchDepth(c) \in Nat
      BY DepthAssumption DEF BatchDepth, Context
    <2>3. p \in Plan /\ op \in Opening
      BY <2>2, NewPlanType DEF Opening, Context, Plan
    <2> HIDE DEF p, op
    <2> QED
      BY <2>1, <2>3 DEF Context
  <1> QED
    BY <1>1, <1>2

LEMMA TrackType ==
  ASSUME NEW p \in Plan, NEW d \in Declaration, NEW b \in BOOLEAN
  PROVE  /\ Track(p, d, b) \in Plan
         /\ Track(p, d, b).items = p.items
         /\ Track(p, d, b).written = IF b THEN d.writes ELSE p.written \cup d.writes
         /\ Track(p, d, b).read = IF b THEN d.reads ELSE p.read \cup d.reads
  BY DEF Track, Plan, Declaration

LEMMA DeclaresType ==
  ASSUME NEW a
  PROVE  Declares(a) \in Declaration
  <1>1. \A S : Named(S) \in SUBSET (Buffers \cup {AreaId})
    BY DEF Named
  <1> QED
    BY <1>1, Zenon DEF Declares, Declaration

LEMMA RecordWithType ==
  ASSUME NEW p \in Plan, NEW d \in Declaration
  PROVE  /\ RecordWith(p, d) \in Plan
         /\ RecordWith(p, d).items = p.items + 1
         /\ RecordWith(p, d).written = Track(p, d, ItemBarrier(p, d)).written
         /\ RecordWith(p, d).read = Track(p, d, ItemBarrier(p, d)).read
  <1> DEFINE t == Track(p, d, ItemBarrier(p, d))
  <1>1. t \in Plan /\ t.items = p.items
    BY TrackType, ItemBarrier(p, d) \in BOOLEAN DEF ItemBarrier
  <1> DEFINE n == IF ItemBarrier(p, d) THEN t.barriers + 1 ELSE t.barriers
  <1>2. RecordWith(p, d) = [t EXCEPT !.items = @ + 1, !.barriers = n]
    BY DEF RecordWith
  <1>3. n \in Nat /\ t.items + 1 \in Nat
    BY <1>1 DEF Plan
  <1> HIDE DEF t, n
  <1>4. RecordWith(p, d) = [rule |-> t.rule, items |-> t.items + 1, barriers |-> n,
            written |-> t.written, read |-> t.read, maxItems |-> t.maxItems]
    BY <1>1, <1>2 DEF Plan
  <1>5. RecordWith(p, d) \in Plan
    BY <1>1, <1>3, <1>4 DEF Plan
  <1> QED
    BY <1>1, <1>4, <1>5 DEF t

(* A dispatch and a transfer append one command, whose barrier is the      *)
(* plan's or the one after a recorded transfer.                            *)
LEMMA ItemRecordedFields ==
  ASSUME NEW c \in Context, NEW a \in [reads: SUBSET Memory, writes: SUBSET Memory]
  PROVE  /\ ItemCommand(c, a) \in Command
         /\ Declares(a) \in Declaration
         /\ ItemRecorded(c, a) \in Context
         /\ ItemRecorded(c, a) = [c EXCEPT !.plan = RecordWith(c.plan, Declares(a)),
                                           !.batch = Append(c.batch, ItemCommand(c, a)),
                                           !.pending = FALSE]
  <1>1. ItemCommand(c, a) \in Command
    BY DEF ItemCommand, Command
  <1>2. Declares(a) \in Declaration
    BY DeclaresType
  <1>3. c.plan \in Plan /\ c.batch \in Seq(Command)
    BY DEF Context
  <1>4. RecordWith(c.plan, Declares(a)) \in Plan
    BY <1>2, <1>3, RecordWithType
  <1>5. Append(c.batch, ItemCommand(c, a)) \in Seq(Command)
    BY <1>1, <1>3
  <1>6. ItemRecorded(c, a) = [c EXCEPT !.plan = RecordWith(c.plan, Declares(a)),
                                      !.batch = Append(c.batch, ItemCommand(c, a)),
                                      !.pending = FALSE]
    BY DEF ItemRecorded
  <1>7. ItemRecorded(c, a) \in Context
    BY <1>4, <1>5, <1>6 DEF Context
  <1> QED
    BY <1>1, <1>2, <1>6, <1>7

LEMMA TransferRecordedFields ==
  ASSUME NEW c \in Context, NEW a \in [reads: SUBSET Memory, writes: SUBSET Memory],
         NEW d \in Declaration
  PROVE  /\ TransferCommand(c, a, d) \in Command
         /\ TransferRecorded(c, a, d) \in Context
         /\ TransferRecorded(c, a, d) = [c EXCEPT !.plan = RecordTransfer(c.plan, d),
                                                 !.batch = Append(c.batch, TransferCommand(c, a, d)),
                                                 !.pending = TRUE]
  <1>1. TransferCommand(c, a, d) \in Command
    BY DEF TransferCommand, Command
  <1>2. c.plan \in Plan /\ c.batch \in Seq(Command)
    BY DEF Context
  <1>3. RecordTransfer(c.plan, d) \in Plan
    BY <1>2, TrackType, TransferBarrier(c.plan, d) \in BOOLEAN
       DEF RecordTransfer, TransferBarrier
  <1>4. Append(c.batch, TransferCommand(c, a, d)) \in Seq(Command)
    BY <1>1, <1>2
  <1>5. TransferRecorded(c, a, d) = [c EXCEPT !.plan = RecordTransfer(c.plan, d),
                                            !.batch = Append(c.batch, TransferCommand(c, a, d)),
                                            !.pending = TRUE]
    BY DEF TransferRecorded
  <1>6. TransferRecorded(c, a, d) \in Context
    BY <1>3, <1>4, <1>5 DEF Context
  <1> QED
    BY <1>1, <1>5, <1>6

LEMMA AfterDueType ==
  ASSUME NEW c \in Context
  PROVE  AfterDue(c) \in Context
  BY FlushedType DEF AfterDue

(* The batch-recording calls, given a declaration of the right type. *)
LEMMA RecordingTypes ==
  ASSUME TypeOK, NEW a \in [reads: SUBSET Memory, writes: SUBSET Memory],
         NEW d \in Declaration, NEW x \in BOOLEAN
  PROVE  /\ AfterDue(ItemRecorded(Opened(IF x THEN Flushed(ctx, "DescriptorsExhausted")
                                              ELSE ctx), a)) \in Context
         /\ TransferRecorded(Opened(ctx), a, d) \in Context
         /\ AfterDue(TransferRecorded(Opened(ctx), a, d)) \in Context
  <1> DEFINE c == IF x THEN Flushed(ctx, "DescriptorsExhausted") ELSE ctx
  <1>1. ctx \in Context /\ c \in Context
    BY FlushedType DEF TypeOK
  <1>2. Opened(ctx) \in Context /\ Opened(c) \in Context
    BY <1>1, OpenedType
  <1>3. ItemRecorded(Opened(c), a) \in Context
    BY <1>2, ItemRecordedFields
  <1>4. TransferRecorded(Opened(ctx), a, d) \in Context
    BY <1>2, TransferRecordedFields
  <1> QED
    BY <1>3, <1>4, AfterDueType

(* Every reachable context has the types the code gives it. *)
THEOREM TypeCorrect == Spec => []TypeOK
  <1>1. Init => TypeOK
    <2> SUFFICES ASSUME Init PROVE TypeOK
      OBVIOUS
    <2>1. \A rule \in Rules : NewPlan(rule, 1) \in Plan
      BY NewPlanType, RulesAssumption
    <2> QED
      BY <2>1, DepthAssumption DEF Init, TypeOK, Context, Opening
  <1>2. TypeOK /\ [Next]_ctx => TypeOK'
    <2> SUFFICES ASSUME TypeOK, [Next]_ctx PROVE TypeOK'
      OBVIOUS
    <2>1. ASSUME NEW a \in Shapes, NEW x \in BOOLEAN, Dispatch(a, x) PROVE TypeOK'
      BY <2>1, RecordingTypes, DeviceAssumption, DeclaresType DEF Dispatch, TypeOK
    <2>2. ASSUME NEW b \in Buffers, UploadRecorded(b) PROVE TypeOK'
      <3> DEFINE a == [reads |-> {}, writes |-> {b}]
      <3>1. a \in [reads: SUBSET Memory, writes: SUBSET Memory] /\ a \in Declaration
        BY DEF Memory, Declaration
      <3> QED
        BY <2>2, <3>1, RecordingTypes DEF UploadRecorded, TypeOK
    <2>3. ASSUME NEW from \in SUBSET Buffers, NEW to \in SUBSET Buffers,
                 RecordBufferCopies(from, to)
          PROVE  TypeOK'
      <3> DEFINE a == [reads |-> from, writes |-> to]
      <3>1. a \in [reads: SUBSET Memory, writes: SUBSET Memory] /\ a \in Declaration
        BY DEF Memory, Declaration
      <3> QED
        BY <2>3, <3>1, RecordingTypes DEF RecordBufferCopies, TypeOK
    <2>4. ASSUME NEW area \in Areas, NEW to \in SUBSET Buffers,
                 RecordCopiesFromStaging(area, to)
          PROVE  TypeOK'
      <3> DEFINE a == [reads |-> {area}, writes |-> to]
                 d == [reads |-> {}, writes |-> to]
      <3>1. a \in [reads: SUBSET Memory, writes: SUBSET Memory] /\ d \in Declaration
        BY DEF Memory, Declaration
      <3> QED
        BY <2>4, <3>1, RecordingTypes DEF RecordCopiesFromStaging, TypeOK
    <2>5. ASSUME NEW b \in Buffers, NEW area \in Areas, RecordReadback(b, area)
          PROVE  TypeOK'
      <3> DEFINE a == [reads |-> {b}, writes |-> {area}]
                 d == [reads |-> {b}, writes |-> {}]
      <3>1. a \in [reads: SUBSET Memory, writes: SUBSET Memory] /\ d \in Declaration
        BY DEF Memory, Declaration
      <3> QED
        BY <2>5, <3>1, RecordingTypes DEF RecordReadback, TypeOK
    <2>6. CASE CompletingFlush
      BY <2>6, FlushedType DEF CompletingFlush, TypeOK
    <2>7. ASSUME NEW on \in BOOLEAN, SetDispatchTimestamps(on) PROVE TypeOK'
      BY <2>7 DEF SetDispatchTimestamps, TypeOK, Context
    <2>8. CASE UNCHANGED ctx
      BY <2>8 DEF TypeOK
    <2> QED
      BY <2>1, <2>2, <2>3, <2>4, <2>5, <2>6, <2>7, <2>8 DEF Next
  <1> QED
    BY <1>1, <1>2, PTL DEF Spec

-----------------------------------------------------------------------------
(* Ordering.  What the rule cannot see is excluded by assumption: kernels  *)
(* that touch a staging area themselves (all areas share one id, and no    *)
(* transfer tells the plan of its area), and a switch of the timestamp     *)
(* instrument over a batch in flight.                                      *)

ItemsNameBuffers ==
  \A a \in Shapes : a.reads \cup a.writes \subseteq Buffers

(* What orders the next command after command i: a barrier already there,  *)
(* or what the context remembers of i.                                     *)
Remembered(c) ==
  \A i \in 1 .. Len(c.batch) :
    \/ Separated(c.batch, i, Len(c.batch))
    \/ /\ c.batch[i].item
       /\ c.plan.items > 0
       /\ c.batch[i].reads \subseteq c.plan.read \cap Buffers
       /\ c.batch[i].writes \subseteq c.plan.written \cap Buffers
    \/ ~c.batch[i].item /\ c.pending

Orderly(c) ==
  /\ c \in Context
  /\ ~c.raced
  /\ OrderedWithin(c.batch)
  /\ Remembered(c)
  /\ ~c.open => c.batch = << >>
  /\ c.flying => AsyncFlush /\ ~c.ts
  /\ c.flying /\ c.open => c.opening = "memory"

LEMMA AppendSeparated ==
  ASSUME NEW b \in Seq(Command), NEW e \in Command
  PROVE  LET n == Len(b)
             s == Append(b, e)
         IN  /\ n \in Nat /\ Len(s) = n + 1
             /\ \A i \in 1 .. n : s[i] = b[i]
             /\ s[n+1] = e
             /\ \A i, j \in 1 .. n : Separated(s, i, j) <=> Separated(b, i, j)
             /\ \A i \in 1 .. n : Separated(s, i, n+1) <=> Separated(b, i, n) \/ e.barrier
  BY DEF Separated

LEMMA AppendOrdered ==
  ASSUME NEW b \in Seq(Command), NEW e \in Command, OrderedWithin(b),
         \A i \in 1 .. Len(b) :
           Conflict(b[i], e) => Separated(b, i, Len(b)) \/ e.barrier
  PROVE  OrderedWithin(Append(b, e))
  <1> DEFINE n == Len(b)
             s == Append(b, e)
  <1>1. /\ n \in Nat /\ Len(s) = n + 1
        /\ \A i \in 1 .. n : s[i] = b[i]
        /\ s[n+1] = e
        /\ \A i, j \in 1 .. n : Separated(s, i, j) <=> Separated(b, i, j)
        /\ \A i \in 1 .. n : Separated(s, i, n+1) <=> Separated(b, i, n) \/ e.barrier
    BY AppendSeparated
  <1> SUFFICES ASSUME NEW i \in 1 .. n+1, NEW j \in 1 .. n+1,
                      i < j, Conflict(s[i], s[j])
               PROVE  Separated(s, i, j)
    BY <1>1 DEF OrderedWithin
  <1> HIDE DEF n, s
  <1>2. CASE j = n + 1
    <2>1. i \in 1 .. n /\ s[i] = b[i] /\ s[j] = e
      BY <1>1, <1>2
    <2> QED
      BY <1>1, <1>2, <2>1 DEF n
  <1>3. CASE j # n + 1
    <2>1. i \in 1 .. n /\ j \in 1 .. n
      BY <1>1, <1>3
    <2> QED
      BY <1>1, <2>1 DEF OrderedWithin, n
  <1> QED
    BY <1>2, <1>3

(* One command more, whatever it is: enough that the new plan remembers    *)
(* what the old one did unless a barrier was recorded, that the new        *)
(* command is remembered, and that it took a barrier if it conflicts with  *)
(* a command the context remembers.                                        *)
LEMMA OneMore ==
  ASSUME NEW c, Orderly(c), c.open, NEW e \in Command, NEW p \in Plan,
         NEW pending \in BOOLEAN,
         \A i \in 1 .. Len(c.batch) :
           ~Separated(c.batch, i, Len(c.batch)) /\ Conflict(c.batch[i], e) => e.barrier,
         ~e.barrier => /\ ~c.pending
                       /\ c.plan.read \subseteq p.read
                       /\ c.plan.written \subseteq p.written,
         p.items >= c.plan.items,
         \/ /\ e.item /\ p.items > 0
            /\ e.reads \subseteq p.read \cap Buffers
            /\ e.writes \subseteq p.written \cap Buffers
         \/ ~e.item /\ pending
  PROVE  Orderly([c EXCEPT !.plan = p, !.batch = Append(c.batch, e),
                           !.pending = pending])
  <1> DEFINE b == c.batch
             n == Len(b)
             s == Append(b, e)
             f == [c EXCEPT !.plan = p, !.batch = s, !.pending = pending]
  <1>1. c \in Context /\ b \in Seq(Command) /\ c.plan \in Plan
    BY DEF Orderly, Context
  <1>2. /\ n \in Nat /\ Len(s) = n + 1
        /\ \A i \in 1 .. n : s[i] = b[i]
        /\ s[n+1] = e
        /\ \A i \in 1 .. n : Separated(s, i, n+1) <=> Separated(b, i, n) \/ e.barrier
    BY <1>1, AppendSeparated
  <1>3. /\ f \in Context /\ f.plan = p /\ f.batch = s /\ f.pending = pending
        /\ f.open = c.open /\ f.opening = c.opening /\ f.flying = c.flying
        /\ f.ts = c.ts /\ f.raced = c.raced
    <2>1. s \in Seq(Command)
      BY <1>1
    <2> HIDE DEF s
    <2> QED
      BY <1>1, <2>1 DEF Context
  <1>4. OrderedWithin(s)
    <2>1. OrderedWithin(b)
      BY DEF Orderly
    <2>2. \A i \in 1 .. Len(b) : Conflict(b[i], e) => Separated(b, i, Len(b)) \/ e.barrier
      OBVIOUS
    <2> QED
      BY <1>1, <2>1, <2>2, AppendOrdered
  <1> HIDE DEF f, s, n
  <1>5. Remembered(f)
    <2> SUFFICES ASSUME NEW i \in 1 .. n+1, ~Separated(s, i, n+1)
                 PROVE  \/ /\ s[i].item
                           /\ p.items > 0
                           /\ s[i].reads \subseteq p.read \cap Buffers
                           /\ s[i].writes \subseteq p.written \cap Buffers
                        \/ ~s[i].item /\ pending
      BY <1>2, <1>3 DEF Remembered
    <2>1. CASE i = n + 1
      BY <1>2, <2>1
    <2>2. CASE i # n + 1
      <3>1. i \in 1 .. n /\ s[i] = b[i] /\ ~Separated(b, i, n) /\ ~e.barrier
        BY <1>2, <2>2
      <3>2. /\ b[i].item
            /\ c.plan.items > 0
            /\ b[i].reads \subseteq c.plan.read \cap Buffers
            /\ b[i].writes \subseteq c.plan.written \cap Buffers
        BY <3>1 DEF Orderly, Remembered, n
      <3>3. p.items > 0
        BY <1>1, <3>2 DEF Plan
      <3> QED
        BY <3>1, <3>2, <3>3
    <2> QED
      BY <2>1, <2>2
  <1> QED
    BY <1>3, <1>4, <1>5 DEF Orderly, f, s

(* A command that conflicts with a remembered one, and whose buffers the   *)
(* plan is told of, takes a barrier.                                       *)
LEMMA RememberedConflict ==
  ASSUME NEW c, Orderly(c), NEW d \in Declaration, NEW e \in Command,
         e.reads \cap Buffers \subseteq d.reads,
         e.writes \cap Buffers \subseteq d.writes,
         NEW i \in 1 .. Len(c.batch),
         ~Separated(c.batch, i, Len(c.batch)), Conflict(c.batch[i], e)
  PROVE  \/ c.pending
         \/ c.plan.items > 0 /\ ConflictsWith(c.plan, d)
  <1> DEFINE b == c.batch
  <1>1. CASE ~b[i].item /\ c.pending
    BY <1>1
  <1>2. CASE /\ c.plan.items > 0
             /\ b[i].reads \subseteq c.plan.read \cap Buffers
             /\ b[i].writes \subseteq c.plan.written \cap Buffers
    <2>1. CASE b[i].writes \cap (e.reads \cup e.writes) # {}
      <3>1. PICK m : m \in b[i].writes /\ (m \in e.reads \/ m \in e.writes)
        BY <2>1
      <3>2. m \in c.plan.written /\ (m \in d.reads \/ m \in d.writes)
        BY <1>2, <3>1
      <3> QED
        BY <1>2, <3>2 DEF ConflictsWith
    <2>2. CASE e.writes \cap b[i].reads # {}
      <3>1. PICK m : m \in b[i].reads /\ m \in e.writes
        BY <2>2
      <3>2. m \in c.plan.read /\ m \in d.writes
        BY <1>2, <3>1
      <3> QED
        BY <1>2, <3>2 DEF ConflictsWith
    <2> QED
      BY <2>1, <2>2 DEF Conflict
  <1> QED
    BY <1>1, <1>2 DEF Orderly, Remembered

LEMMA ItemOrderly ==
  ASSUME NEW c, Orderly(c), c.open, NEW a \in Shapes, ItemsNameBuffers
  PROVE  Orderly(ItemRecorded(c, a))
  <1> DEFINE d == Declares(a)
             p == RecordWith(c.plan, d)
             e == ItemCommand(c, a)
  <1>1. c \in Context /\ c.plan \in Plan /\ c.plan.items \in Nat
    BY DEF Orderly, Context, Plan
  <1>2. a \in [reads: SUBSET Memory, writes: SUBSET Memory]
    BY DeviceAssumption
  <1>3. /\ e \in Command /\ d \in Declaration
        /\ ItemRecorded(c, a) = [c EXCEPT !.plan = p, !.batch = Append(c.batch, e),
                                          !.pending = FALSE]
    BY <1>1, <1>2, ItemRecordedFields
  <1>4. a.reads \subseteq Buffers /\ a.writes \subseteq Buffers
    BY DEF ItemsNameBuffers
  <1>5. d.reads = a.reads /\ d.writes = a.writes
    <2>1. \A S \in SUBSET Buffers : Named(S) = S
      BY DeviceAssumption DEF Named
    <2> QED
      BY <1>4, <2>1, Zenon DEF Declares
  <1>6. /\ p \in Plan /\ p.items = c.plan.items + 1
        /\ p.written = IF ItemBarrier(c.plan, d) THEN d.writes ELSE c.plan.written \cup d.writes
        /\ p.read = IF ItemBarrier(c.plan, d) THEN d.reads ELSE c.plan.read \cup d.reads
    <2> DEFINE t == Track(c.plan, d, ItemBarrier(c.plan, d))
    <2>1. ItemBarrier(c.plan, d) \in BOOLEAN
      BY DEF ItemBarrier
    <2>2. /\ t.written = IF ItemBarrier(c.plan, d) THEN d.writes ELSE c.plan.written \cup d.writes
          /\ t.read = IF ItemBarrier(c.plan, d) THEN d.reads ELSE c.plan.read \cup d.reads
      BY <1>1, <1>3, <2>1, TrackType
    <2>3. /\ p \in Plan /\ p.items = c.plan.items + 1
          /\ p.written = t.written /\ p.read = t.read
      BY <1>1, <1>3, RecordWithType
    <2> HIDE DEF t, p
    <2> QED
      BY <2>2, <2>3
  <1>7. /\ e.reads = a.reads /\ e.writes = a.writes /\ e.item
        /\ e.barrier <=> (ItemBarrier(c.plan, d) \/ c.pending)
    BY DEF ItemCommand
  <1> HIDE DEF d, p, e
  <1>8. \A i \in 1 .. Len(c.batch) :
          ~Separated(c.batch, i, Len(c.batch)) /\ Conflict(c.batch[i], e) => e.barrier
    <2> SUFFICES ASSUME NEW i \in 1 .. Len(c.batch),
                        ~Separated(c.batch, i, Len(c.batch)), Conflict(c.batch[i], e)
                 PROVE  e.barrier
      OBVIOUS
    <2>1. \/ c.pending
          \/ c.plan.items > 0 /\ ConflictsWith(c.plan, d)
      BY <1>3, <1>5, <1>7, RememberedConflict
    <2> QED
      BY <1>7, <2>1 DEF ItemBarrier
  <1>9. ~e.barrier => /\ ~c.pending
                      /\ c.plan.read \subseteq p.read
                      /\ c.plan.written \subseteq p.written
    BY <1>6, <1>7
  <1>10. /\ e.item /\ p.items > 0
         /\ e.reads \subseteq p.read \cap Buffers
         /\ e.writes \subseteq p.written \cap Buffers
    BY <1>1, <1>4, <1>5, <1>6, <1>7
  <1>11. p.items >= c.plan.items
    BY <1>1, <1>6
  <1>12. Orderly([c EXCEPT !.plan = p, !.batch = Append(c.batch, e), !.pending = FALSE])
    <2>1. FALSE \in BOOLEAN
      OBVIOUS
    <2> QED
      BY <1>3, <1>6, <1>8, <1>9, <1>10, <1>11, <2>1, OneMore, Zenon
  <1> QED
    BY <1>3, <1>12

LEMMA TransferOrderly ==
  ASSUME NEW c, Orderly(c), c.open,
         NEW a \in [reads: SUBSET Memory, writes: SUBSET Memory],
         NEW d \in Declaration,
         a.reads \cap Buffers \subseteq d.reads, a.writes \cap Buffers \subseteq d.writes
  PROVE  Orderly(TransferRecorded(c, a, d))
  <1> DEFINE p == RecordTransfer(c.plan, d)
             e == TransferCommand(c, a, d)
  <1>1. c \in Context /\ c.plan \in Plan /\ c.plan.items \in Nat
    BY DEF Orderly, Context, Plan
  <1>2. /\ e \in Command
        /\ TransferRecorded(c, a, d) = [c EXCEPT !.plan = p, !.batch = Append(c.batch, e),
                                                !.pending = TRUE]
    BY <1>1, TransferRecordedFields
  <1>3. /\ p \in Plan /\ p.items = c.plan.items
        /\ p.written = IF TransferBarrier(c.plan, d) THEN d.writes ELSE c.plan.written \cup d.writes
        /\ p.read = IF TransferBarrier(c.plan, d) THEN d.reads ELSE c.plan.read \cup d.reads
    <2>1. TransferBarrier(c.plan, d) \in BOOLEAN
      BY DEF TransferBarrier
    <2> QED
      BY <1>1, <2>1, TrackType DEF RecordTransfer
  <1>4. /\ e.reads = a.reads /\ e.writes = a.writes /\ ~e.item
        /\ e.barrier <=> (TransferBarrier(c.plan, d) \/ c.pending)
    BY DEF TransferCommand
  <1> HIDE DEF p, e
  <1>5. \A i \in 1 .. Len(c.batch) :
          ~Separated(c.batch, i, Len(c.batch)) /\ Conflict(c.batch[i], e) => e.barrier
    <2> SUFFICES ASSUME NEW i \in 1 .. Len(c.batch),
                        ~Separated(c.batch, i, Len(c.batch)), Conflict(c.batch[i], e)
                 PROVE  e.barrier
      OBVIOUS
    <2>1. \/ c.pending
          \/ c.plan.items > 0 /\ ConflictsWith(c.plan, d)
      BY <1>2, <1>4, RememberedConflict
    <2> QED
      BY <1>4, <2>1 DEF TransferBarrier
  <1>6. ~e.barrier => /\ ~c.pending
                      /\ c.plan.read \subseteq p.read
                      /\ c.plan.written \subseteq p.written
    BY <1>3, <1>4
  <1>7. p.items >= c.plan.items
    BY <1>1, <1>3
  <1>8. Orderly([c EXCEPT !.plan = p, !.batch = Append(c.batch, e), !.pending = TRUE])
    <2>1. TRUE \in BOOLEAN
      OBVIOUS
    <2> QED
      BY <1>2, <1>3, <1>4, <1>5, <1>6, <1>7, <2>1, OneMore, Zenon
  <1> QED
    BY <1>2, <1>8

LEMMA OpenedOrderly ==
  ASSUME NEW c, Orderly(c)
  PROVE  Orderly(Opened(c)) /\ Opened(c).open
  <1>1. CASE c.open
    BY <1>1 DEF Opened
  <1>2. CASE ~c.open
    <2> DEFINE o == Opened(c)
    <2>1. c \in Context /\ o \in Context /\ o.open
      BY OpenedType DEF Orderly
    <2>2. /\ o.batch = << >> /\ o.raced = c.raced /\ o.ts = c.ts
          /\ o.flying = c.flying
          /\ o.opening = IF c.ts THEN "execution"
                         ELSE IF AsyncFlush THEN "memory" ELSE "none"
      BY <1>2, <2>1 DEF Opened, Orderly, Context
    <2> HIDE DEF o
    <2>3. OrderedWithin(o.batch) /\ Remembered(o)
      BY <2>2 DEF OrderedWithin, Remembered
    <2> QED
      BY <2>1, <2>2, <2>3 DEF Orderly, o
  <1> QED
    BY <1>1, <1>2

(* Nothing unordered is ever submitted. *)
LEMMA OrderlyNotRaced ==
  ASSUME NEW c, Orderly(c)
  PROVE  ~c.raced /\ ~Raced(c)
  <1>1. c.flying => OrderedAfter(c.flight, c.opening, c.batch)
    <2> SUFFICES ASSUME c.flying PROVE OrderedAfter(c.flight, c.opening, c.batch)
      OBVIOUS
    <2>1. CASE c.open
      BY <2>1 DEF Orderly, OrderedAfter, LeftOpen
    <2>2. CASE ~c.open
      BY <2>2 DEF Orderly, OrderedAfter
    <2> QED
      BY <2>1, <2>2
  <1> QED
    BY <1>1 DEF Orderly, Raced

LEMMA FlushedOrderly ==
  ASSUME NEW c, Orderly(c), NEW reason
  PROVE  Orderly(Flushed(c, reason))
  <1> DEFINE f == Flushed(c, reason)
  <1>1. c \in Context /\ f \in Context
    BY FlushedType DEF Orderly
  <1>2. CASE ~c.open /\ ~Completes(c, reason)
    BY <1>2 DEF Flushed
  <1>3. CASE ~(~c.open /\ ~Completes(c, reason))
    <2>1. /\ ~f.open /\ f.batch = << >> /\ f.ts = c.ts
          /\ f.flying = (c.open /\ ~Completes(c, reason))
          /\ f.raced = (c.raced \/ Raced(c))
      BY <1>1, <1>3 DEF Flushed, Context
    <2>2. ~f.raced
      BY <2>1, OrderlyNotRaced
    <2>3. f.flying => AsyncFlush /\ ~f.ts
      BY <2>1 DEF Completes
    <2> HIDE DEF f
    <2>4. OrderedWithin(f.batch) /\ Remembered(f)
      BY <2>1 DEF OrderedWithin, Remembered
    <2> QED
      BY <1>1, <2>1, <2>2, <2>3, <2>4 DEF Orderly, f
  <1> QED
    BY <1>2, <1>3

LEMMA AfterDueOrderly ==
  ASSUME NEW c, Orderly(c)
  PROVE  Orderly(AfterDue(c))
  BY FlushedOrderly DEF AfterDue

LEMMA OrderlyStep ==
  ASSUME Orderly(ctx), [Next]_ctx, ItemsNameBuffers, QuietToggle
  PROVE  Orderly(ctx')
  <1>1. Orderly(Opened(ctx)) /\ Opened(ctx).open
    BY OpenedOrderly
  <1>2. ASSUME NEW a \in Shapes, NEW x \in BOOLEAN, Dispatch(a, x) PROVE Orderly(ctx')
    <2> DEFINE c == IF x THEN Flushed(ctx, "DescriptorsExhausted") ELSE ctx
    <2>1. Orderly(c)
      BY FlushedOrderly
    <2>2. Orderly(Opened(c)) /\ Opened(c).open
      BY <2>1, OpenedOrderly
    <2>3. Orderly(ItemRecorded(Opened(c), a))
      BY <2>2, ItemOrderly
    <2> QED
      BY <1>2, <2>3, AfterDueOrderly DEF Dispatch
  <1>3. ASSUME NEW b \in Buffers, UploadRecorded(b) PROVE Orderly(ctx')
    <2> DEFINE a == [reads |-> {}, writes |-> {b}]
    <2>1. a \in [reads: SUBSET Memory, writes: SUBSET Memory] /\ a \in Declaration
      BY DEF Memory, Declaration
    <2>2. Orderly(TransferRecorded(Opened(ctx), a, a))
      BY <1>1, <2>1, TransferOrderly
    <2> QED
      BY <1>3, <2>2, AfterDueOrderly DEF UploadRecorded
  <1>4. ASSUME NEW from \in SUBSET Buffers, NEW to \in SUBSET Buffers,
               RecordBufferCopies(from, to)
        PROVE  Orderly(ctx')
    <2> DEFINE a == [reads |-> from, writes |-> to]
    <2>1. a \in [reads: SUBSET Memory, writes: SUBSET Memory] /\ a \in Declaration
      BY DEF Memory, Declaration
    <2>2. Orderly(TransferRecorded(Opened(ctx), a, a))
      BY <1>1, <2>1, TransferOrderly
    <2> QED
      BY <1>4, <2>2 DEF RecordBufferCopies
  <1>5. ASSUME NEW area \in Areas, NEW to \in SUBSET Buffers,
               RecordCopiesFromStaging(area, to)
        PROVE  Orderly(ctx')
    <2> DEFINE a == [reads |-> {area}, writes |-> to]
               d == [reads |-> {}, writes |-> to]
    <2>1. a \in [reads: SUBSET Memory, writes: SUBSET Memory] /\ d \in Declaration
      BY DEF Memory, Declaration
    <2>2. a.reads \cap Buffers \subseteq d.reads /\ a.writes \cap Buffers \subseteq d.writes
      BY DeviceAssumption
    <2>3. Orderly(TransferRecorded(Opened(ctx), a, d))
      BY <1>1, <2>1, <2>2, TransferOrderly
    <2> QED
      BY <1>5, <2>3 DEF RecordCopiesFromStaging
  <1>6. ASSUME NEW b \in Buffers, NEW area \in Areas, RecordReadback(b, area)
        PROVE  Orderly(ctx')
    <2> DEFINE a == [reads |-> {b}, writes |-> {area}]
               d == [reads |-> {b}, writes |-> {}]
    <2>1. a \in [reads: SUBSET Memory, writes: SUBSET Memory] /\ d \in Declaration
      BY DEF Memory, Declaration
    <2>2. a.reads \cap Buffers \subseteq d.reads /\ a.writes \cap Buffers \subseteq d.writes
      BY DeviceAssumption
    <2>3. Orderly(TransferRecorded(Opened(ctx), a, d))
      BY <1>1, <2>1, <2>2, TransferOrderly
    <2> QED
      BY <1>6, <2>3 DEF RecordReadback
  <1>7. CASE CompletingFlush
    BY <1>7, FlushedOrderly DEF CompletingFlush
  <1>8. ASSUME NEW on \in BOOLEAN, SetDispatchTimestamps(on) PROVE Orderly(ctx')
    <2>1. /\ ctx \in Context /\ ctx' \in Context
          /\ ~ctx.open /\ ~ctx.flying
          /\ ctx'.open = ctx.open /\ ctx'.flying = ctx.flying
          /\ ctx'.batch = ctx.batch /\ ctx'.plan = ctx.plan
          /\ ctx'.raced = ctx.raced /\ ctx'.pending = ctx.pending
      BY <1>8 DEF SetDispatchTimestamps, Orderly, Context
    <2> QED
      BY <2>1 DEF Orderly, Remembered
  <1>9. CASE UNCHANGED ctx
    BY <1>9
  <1> QED
    BY <1>2, <1>3, <1>4, <1>5, <1>6, <1>7, <1>8, <1>9 DEF Next

(* Under either barrier rule, whatever the buffers and the depth, commands *)
(* that conflict never run unordered, provided kernels touch buffers only  *)
(* and the timestamp instrument is switched with nothing in flight.        *)
THEOREM HazardFreedom ==
  ASSUME ItemsNameBuffers, QuietToggle
  PROVE  Spec => []HazardFree
  <1>1. Init => Orderly(ctx)
    <2> SUFFICES ASSUME Init PROVE Orderly(ctx)
      OBVIOUS
    <2>1. ctx \in Context
      BY NewPlanType, RulesAssumption, DepthAssumption DEF Init, Context, Opening
    <2> QED
      BY <2>1 DEF Init, Orderly, OrderedWithin, Remembered
  <1>2. Orderly(ctx) /\ [Next]_ctx => Orderly(ctx)'
    BY OrderlyStep
  <1>3. Orderly(ctx) => HazardFree
    BY OrderlyNotRaced DEF HazardFree
  <1> QED
    BY <1>1, <1>2, <1>3, PTL DEF Spec


-----------------------------------------------------------------------------
(* Accounting.  The plan's sets hold nothing that no command of the batch  *)
(* since the last barrier touches, as long as the batch is dispatches      *)
(* alone: so a barrier the rule asks for is one the memory asks for.  And  *)
(* the plan's two counts follow the commands one by one.                   *)

Dispatched(b) == {i \in 1 .. Len(b) : b[i].item}

Barred(b) == {i \in Dispatched(b) : b[i].barrier}

AllItems(b) == \A i \in 1 .. Len(b) : b[i].item

(* Whatever the plan remembers was touched since the last barrier. *)
Touched(c) ==
  LET b == c.batch IN
  /\ \A m \in c.plan.written :
       \E i \in 1 .. Len(b) : m \in b[i].writes /\ ~Separated(b, i, Len(b))
  /\ \A m \in c.plan.read :
       \E i \in 1 .. Len(b) : m \in b[i].reads /\ ~Separated(b, i, Len(b))

Earned(b) ==
  \A j \in 1 .. Len(b) :
    (b[j].barrier /\ \A i \in 1 .. j : b[i].item) =>
      \/ Undeclared(b[j])
      \/ \E i \in 1 .. j-1 : Conflict(b[i], b[j]) /\ ~Separated(b, i, j-1)

Counts(c) ==
  /\ c.plan.items = Cardinality(Dispatched(c.batch))
  /\ c.plan.barriers <= Cardinality(Barred(c.batch))
  /\ c.plan.items > 0 => c.plan.barriers < c.plan.items
  /\ c.plan.items = 0 => c.plan.barriers = 0
  /\ c.plan.rule = "always" /\ c.plan.items > 0
       => c.plan.barriers = c.plan.items - 1

Audited(c) ==
  /\ c \in Context
  /\ ~c.open => c.batch = << >> /\ ~c.pending
  /\ AllItems(c.batch) => ~c.pending /\ Touched(c)
  /\ c.plan.rule = "declared" => Earned(c.batch)
  /\ Counts(c)

LEMMA DispatchedFinite ==
  ASSUME NEW b \in Seq(Command)
  PROVE  /\ IsFiniteSet(Dispatched(b)) /\ IsFiniteSet(Barred(b))
         /\ Cardinality(Dispatched(b)) \in Nat /\ Cardinality(Barred(b)) \in Nat
         /\ Len(b) + 1 \notin Dispatched(b)
  <1>1. Len(b) \in Nat
    OBVIOUS
  <1>2. IsFiniteSet(1 .. Len(b))
    BY <1>1, FS_Interval
  <1>3. /\ Dispatched(b) \in SUBSET (1 .. Len(b)) /\ Barred(b) \in SUBSET (1 .. Len(b))
    BY DEF Dispatched, Barred
  <1>4. IsFiniteSet(Dispatched(b)) /\ IsFiniteSet(Barred(b))
    BY <1>2, <1>3, FS_Subset
  <1> QED
    BY <1>1, <1>3, <1>4, FS_CardinalityType

(* One command more in the two counts. *)
LEMMA AppendCounts ==
  ASSUME NEW b \in Seq(Command), NEW e \in Command
  PROVE  LET s == Append(b, e)
         IN  /\ Cardinality(Dispatched(s)) =
                  Cardinality(Dispatched(b)) + IF e.item THEN 1 ELSE 0
             /\ Cardinality(Barred(s)) =
                  Cardinality(Barred(b)) + IF e.item /\ e.barrier THEN 1 ELSE 0
  <1> DEFINE n == Len(b)
             s == Append(b, e)
  <1>1. /\ n \in Nat /\ Len(s) = n + 1
        /\ \A i \in 1 .. n : s[i] = b[i]
        /\ s[n+1] = e
    BY AppendSeparated
  <1>2. /\ IsFiniteSet(Dispatched(b)) /\ IsFiniteSet(Barred(b))
        /\ Cardinality(Dispatched(b)) \in Nat /\ Cardinality(Barred(b)) \in Nat
        /\ n + 1 \notin Dispatched(b)
    BY DispatchedFinite
  <1> HIDE DEF s, n
  <1>3. \A i : i \in 1 .. n+1 <=> i \in 1 .. n \/ i = n + 1
    BY <1>1
  <1>4. Dispatched(b) = {i \in 1 .. n : b[i].item}
    BY DEF Dispatched, n
  <1>5. Dispatched(s) = IF e.item THEN Dispatched(b) \cup {n+1} ELSE Dispatched(b)
    BY <1>1, <1>3, <1>4 DEF Dispatched
  <1>6. Barred(s) = IF e.item /\ e.barrier THEN Barred(b) \cup {n+1} ELSE Barred(b)
    BY <1>1, <1>4, <1>5, <1>2 DEF Barred
  <1>7. n + 1 \notin Barred(b)
    BY <1>2 DEF Barred
  <1>8. /\ Cardinality(Dispatched(b) \cup {n+1}) = Cardinality(Dispatched(b)) + 1
        /\ Cardinality(Barred(b) \cup {n+1}) = Cardinality(Barred(b)) + 1
    BY <1>2, <1>7, FS_AddElement
  <1>9. Cardinality(Dispatched(s)) =
          Cardinality(Dispatched(b)) + IF e.item THEN 1 ELSE 0
    BY <1>2, <1>5, <1>8
  <1>10. Cardinality(Barred(s)) =
          Cardinality(Barred(b)) + IF e.item /\ e.barrier THEN 1 ELSE 0
    BY <1>2, <1>6, <1>8
  <1> QED
    BY <1>9, <1>10 DEF s

(* Whether a barrier is earned is decided when it is recorded. *)
LEMMA AppendEarned ==
  ASSUME NEW b \in Seq(Command), NEW e \in Command, Earned(b),
         e.barrier /\ e.item /\ AllItems(b) =>
           \/ Undeclared(e)
           \/ \E i \in 1 .. Len(b) : Conflict(b[i], e) /\ ~Separated(b, i, Len(b))
  PROVE  Earned(Append(b, e))
  <1> DEFINE n == Len(b)
             s == Append(b, e)
  <1>1. /\ n \in Nat /\ Len(s) = n + 1
        /\ \A i \in 1 .. n : s[i] = b[i]
        /\ s[n+1] = e
        /\ \A i, j \in 1 .. n : Separated(s, i, j) <=> Separated(b, i, j)
    BY AppendSeparated
  <1>2. e.barrier /\ e.item /\ (\A i \in 1 .. n : b[i].item) =>
           \/ Undeclared(e)
           \/ \E i \in 1 .. n : Conflict(b[i], e) /\ ~Separated(b, i, n)
    BY DEF AllItems
  <1>3. \A j \in 1 .. n :
          (b[j].barrier /\ \A i \in 1 .. j : b[i].item) =>
            \/ Undeclared(b[j])
            \/ \E i \in 1 .. j-1 : Conflict(b[i], b[j]) /\ ~Separated(b, i, j-1)
    BY DEF Earned
  <1> HIDE DEF n, s
  <1> SUFFICES ASSUME NEW j \in 1 .. n+1, s[j].barrier, \A i \in 1 .. j : s[i].item
               PROVE  \/ Undeclared(s[j])
                      \/ \E i \in 1 .. j-1 : Conflict(s[i], s[j]) /\ ~Separated(s, i, j-1)
    BY <1>1 DEF Earned, s
  <1>4. CASE j = n + 1
    <2>1. \A i \in 1 .. n : b[i].item
      BY <1>1, <1>4
    <2>2. \/ Undeclared(e)
          \/ \E i \in 1 .. n : Conflict(b[i], e) /\ ~Separated(b, i, n)
      BY <1>1, <1>2, <1>4, <2>1
    <2>3. j - 1 = n /\ s[j] = e
      BY <1>1, <1>4
    <2>4. ASSUME NEW i \in 1 .. n, Conflict(b[i], e), ~Separated(b, i, n)
          PROVE  Conflict(s[i], s[j]) /\ ~Separated(s, i, j-1)
      <3>1. n \in 1 .. n /\ s[i] = b[i]
        BY <1>1
      <3> QED
        BY <1>1, <2>3, <2>4, <3>1
    <2> QED
      BY <2>2, <2>3, <2>4
  <1>5. CASE j # n + 1
    <2>1. j \in 1 .. n /\ s[j] = b[j] /\ \A i \in 1 .. j : i \in 1 .. n
      BY <1>1, <1>5
    <2>2. b[j].barrier /\ \A i \in 1 .. j : b[i].item
      BY <1>1, <2>1
    <2>3. ASSUME NEW i \in 1 .. j-1, Conflict(b[i], b[j]), ~Separated(b, i, j-1)
          PROVE  Conflict(s[i], s[j]) /\ ~Separated(s, i, j-1)
      <3>1. i \in 1 .. n /\ j-1 \in 1 .. n /\ s[i] = b[i]
        BY <1>1, <2>1
      <3> QED
        BY <1>1, <2>1, <2>3, <3>1
    <2> QED
      BY <1>3, <2>1, <2>2, <2>3
  <1> QED
    BY <1>4, <1>5


(* One command more: enough that the plan's counts follow it, that its     *)
(* barrier is earned if all before it are dispatches, and that the plan    *)
(* still remembers nothing but what was touched since the last barrier.    *)
LEMMA OneMoreAudited ==
  ASSUME NEW c, Audited(c), c.open, NEW e \in Command, NEW p \in Plan,
         NEW pending \in BOOLEAN, p.rule = c.plan.rule,
         p.rule = "declared" /\ e.barrier /\ e.item /\ AllItems(c.batch) =>
           \/ Undeclared(e)
           \/ \E i \in 1 .. Len(c.batch) :
                Conflict(c.batch[i], e) /\ ~Separated(c.batch, i, Len(c.batch)),
         e.item => ~pending,
         e.item /\ AllItems(c.batch) =>
           /\ p.written = e.writes \cup IF e.barrier THEN {} ELSE c.plan.written
           /\ p.read = e.reads \cup IF e.barrier THEN {} ELSE c.plan.read,
         \/ e.item /\ p.items = c.plan.items + 1
         \/ ~e.item /\ p.items = c.plan.items /\ p.barriers = c.plan.barriers,
         e.item =>
           \/ /\ p.barriers = c.plan.barriers + 1
              /\ e.barrier /\ c.plan.items > 0
           \/ /\ p.barriers = c.plan.barriers
              /\ p.rule = "always" => c.plan.items = 0
  PROVE  Audited([c EXCEPT !.plan = p, !.batch = Append(c.batch, e), !.pending = pending])
  <1> DEFINE b == c.batch
             n == Len(b)
             s == Append(b, e)
             f == [c EXCEPT !.plan = p, !.batch = s, !.pending = pending]
  <1>1. c \in Context /\ b \in Seq(Command) /\ c.plan \in Plan
    BY DEF Audited, Context
  <1>2. /\ n \in Nat /\ Len(s) = n + 1
        /\ \A i \in 1 .. n : s[i] = b[i]
        /\ s[n+1] = e
        /\ \A i \in 1 .. n : Separated(s, i, n+1) <=> Separated(b, i, n) \/ e.barrier
    BY <1>1, AppendSeparated
  <1>3. /\ f \in Context /\ f.plan = p /\ f.batch = s /\ f.pending = pending
        /\ f.open = c.open
    <2>1. s \in Seq(Command)
      BY <1>1
    <2> HIDE DEF s
    <2> QED
      BY <1>1, <2>1 DEF Context
  <1>4. p.rule = "declared" => Earned(s)
    <2>1. p.rule = "declared" => Earned(b)
      BY DEF Audited
    <2> QED
      BY <1>1, <2>1, AppendEarned
  <1>5. /\ p.items \in Nat /\ p.barriers \in Nat
        /\ c.plan.items \in Nat /\ c.plan.barriers \in Nat
    BY <1>1 DEF Plan
  <1>6. /\ Cardinality(Dispatched(b)) \in Nat /\ Cardinality(Barred(b)) \in Nat
        /\ Cardinality(Dispatched(s)) =
             Cardinality(Dispatched(b)) + IF e.item THEN 1 ELSE 0
        /\ Cardinality(Barred(s)) =
             Cardinality(Barred(b)) + IF e.item /\ e.barrier THEN 1 ELSE 0
    BY <1>1, AppendCounts, DispatchedFinite
  <1>7. AllItems(s) => e.item /\ AllItems(b)
    BY <1>2 DEF AllItems
  <1>8. Counts(c)
    BY DEF Audited
  <1> HIDE DEF f, s, n, b
  <1>9. Counts(f)
    <2> DEFINE di == Cardinality(Dispatched(b))
               ba == Cardinality(Barred(b))
    <2>1. /\ c.plan.items = di /\ c.plan.barriers <= ba
          /\ c.plan.items > 0 => c.plan.barriers < c.plan.items
          /\ c.plan.items = 0 => c.plan.barriers = 0
          /\ c.plan.rule = "always" /\ c.plan.items > 0
               => c.plan.barriers = c.plan.items - 1
      BY <1>8 DEF Counts, b
    <2>2. /\ Cardinality(Dispatched(s)) = di + IF e.item THEN 1 ELSE 0
          /\ Cardinality(Barred(s)) = ba + IF e.item /\ e.barrier THEN 1 ELSE 0
          /\ di \in Nat /\ ba \in Nat
      BY <1>6
    <2> HIDE DEF di, ba
    <2>3. CASE e.item
      <3>1. p.items = Cardinality(Dispatched(s)) /\ p.items = c.plan.items + 1
        BY <2>1, <2>2, <2>3
      <3>2. p.barriers <= Cardinality(Barred(s))
        BY <1>5, <2>1, <2>2, <2>3
      <3>3. p.barriers < p.items /\ p.items > 0
        BY <1>5, <2>1, <2>3, <3>1
      <3>4. p.rule = "always" => p.barriers = p.items - 1
        BY <1>5, <2>1, <2>3, <3>1
      <3> QED
        BY <1>3, <3>1, <3>2, <3>3, <3>4 DEF Counts
    <2>4. CASE ~e.item
      <3>1. p.items = Cardinality(Dispatched(s)) /\ p.barriers <= Cardinality(Barred(s))
        BY <1>5, <2>1, <2>2, <2>4
      <3> QED
        BY <1>3, <2>1, <2>4, <3>1 DEF Counts
    <2> QED
      BY <2>3, <2>4
  <1>10. ASSUME AllItems(s) PROVE ~pending /\ Touched(f)
    <2>1. Touched(c)
      BY <1>7, <1>10 DEF Audited, b
    <2>2. \A m \in c.plan.written :
            \E i \in 1 .. n : m \in b[i].writes /\ ~Separated(b, i, n)
      BY <2>1 DEF Touched, b, n
    <2>3. \A m \in c.plan.read :
            \E i \in 1 .. n : m \in b[i].reads /\ ~Separated(b, i, n)
      BY <2>1 DEF Touched, b, n
    <2>4. /\ p.written = e.writes \cup IF e.barrier THEN {} ELSE c.plan.written
          /\ p.read = e.reads \cup IF e.barrier THEN {} ELSE c.plan.read
          /\ ~pending
      BY <1>7, <1>10 DEF b
    <2>5. n + 1 \in 1 .. n+1 /\ ~Separated(s, n+1, n+1)
      BY <1>2 DEF Separated
    <2>6. \A i \in 1 .. n : i \in 1 .. n+1 /\ s[i] = b[i]
      BY <1>2
    <2>7. \A m \in p.written :
            \E i \in 1 .. n+1 : m \in s[i].writes /\ ~Separated(s, i, n+1)
      <3> SUFFICES ASSUME NEW m \in p.written
                   PROVE  \E i \in 1 .. n+1 : m \in s[i].writes /\ ~Separated(s, i, n+1)
        OBVIOUS
      <3>1. CASE m \in e.writes
        BY <1>2, <2>5, <3>1
      <3>2. CASE m \notin e.writes
        <4>1. ~e.barrier /\ m \in c.plan.written
          BY <2>4, <3>2
        <4>2. PICK i \in 1 .. n : m \in b[i].writes /\ ~Separated(b, i, n)
          BY <2>2, <4>1
        <4>3. i \in 1 .. n+1 /\ m \in s[i].writes /\ ~Separated(s, i, n+1)
          BY <1>2, <2>6, <4>1, <4>2
        <4> QED
          BY <4>3
      <3> QED
        BY <3>1, <3>2
    <2>8. \A m \in p.read :
            \E i \in 1 .. n+1 : m \in s[i].reads /\ ~Separated(s, i, n+1)
      <3> SUFFICES ASSUME NEW m \in p.read
                   PROVE  \E i \in 1 .. n+1 : m \in s[i].reads /\ ~Separated(s, i, n+1)
        OBVIOUS
      <3>1. CASE m \in e.reads
        BY <1>2, <2>5, <3>1
      <3>2. CASE m \notin e.reads
        <4>1. ~e.barrier /\ m \in c.plan.read
          BY <2>4, <3>2
        <4>2. PICK i \in 1 .. n : m \in b[i].reads /\ ~Separated(b, i, n)
          BY <2>3, <4>1
        <4>3. i \in 1 .. n+1 /\ m \in s[i].reads /\ ~Separated(s, i, n+1)
          BY <1>2, <2>6, <4>1, <4>2
        <4> QED
          BY <4>3
      <3> QED
        BY <3>1, <3>2
    <2> QED
      BY <1>2, <1>3, <2>4, <2>7, <2>8 DEF Touched
  <1>11. Audited(f)
    BY <1>3, <1>4, <1>9, <1>10 DEF Audited
  <1> QED
    BY <1>11 DEF f, s, b

LEMMA RuleKept ==
  ASSUME NEW p \in Plan, NEW d \in Declaration
  PROVE  /\ RecordWith(p, d).rule = p.rule
         /\ RecordWith(p, d).barriers =
              p.barriers + IF ItemBarrier(p, d) THEN 1 ELSE 0
         /\ RecordTransfer(p, d).rule = p.rule
         /\ RecordTransfer(p, d).barriers = p.barriers
  <1>1. \A t \in BOOLEAN : /\ Track(p, d, t).rule = p.rule
                           /\ Track(p, d, t).barriers = p.barriers
                           /\ Track(p, d, t) \in Plan
    BY DEF Track, Plan, Declaration
  <1>2. ItemBarrier(p, d) \in BOOLEAN /\ TransferBarrier(p, d) \in BOOLEAN
    BY DEF ItemBarrier, TransferBarrier
  <1> DEFINE t == Track(p, d, ItemBarrier(p, d))
             n == IF ItemBarrier(p, d) THEN t.barriers + 1 ELSE t.barriers
             i == t.items + 1
  <1>3. RecordWith(p, d) = [t EXCEPT !.items = i, !.barriers = n]
    BY DEF RecordWith
  <1>4. t \in Plan /\ t.rule = p.rule /\ t.barriers = p.barriers
    BY <1>1, <1>2
  <1>5. n = p.barriers + IF ItemBarrier(p, d) THEN 1 ELSE 0
    BY <1>4 DEF Plan
  <1> HIDE DEF t, i, n
  <1>6. RecordWith(p, d).rule = p.rule /\ RecordWith(p, d).barriers = n
    BY <1>3, <1>4 DEF Plan
  <1> QED
    BY <1>1, <1>2, <1>5, <1>6 DEF RecordTransfer

LEMMA ItemAudited ==
  ASSUME NEW c, Audited(c), c.open, NEW a \in Shapes, ItemsNameBuffers
  PROVE  Audited(ItemRecorded(c, a))
  <1> DEFINE d == Declares(a)
             p == RecordWith(c.plan, d)
             e == ItemCommand(c, a)
             no == FALSE
  <1>1. c \in Context /\ c.plan \in Plan /\ c.plan.items \in Nat /\ c.plan.barriers \in Nat
    BY DEF Audited, Context, Plan
  <1>2. a \in [reads: SUBSET Memory, writes: SUBSET Memory]
    BY DeviceAssumption
  <1>3. /\ e \in Command /\ d \in Declaration
        /\ ItemRecorded(c, a) = [c EXCEPT !.plan = p, !.batch = Append(c.batch, e),
                                          !.pending = no]
    BY <1>1, <1>2, ItemRecordedFields
  <1>4. d.reads = a.reads /\ d.writes = a.writes
    <2>1. a.reads \subseteq Buffers /\ a.writes \subseteq Buffers
      BY DEF ItemsNameBuffers
    <2>2. \A S \in SUBSET Buffers : Named(S) = S
      BY DeviceAssumption DEF Named
    <2> QED
      BY <2>1, <2>2, Zenon DEF Declares
  <1>5. /\ p \in Plan /\ p.items = c.plan.items + 1
        /\ p.written = IF ItemBarrier(c.plan, d) THEN d.writes ELSE c.plan.written \cup d.writes
        /\ p.read = IF ItemBarrier(c.plan, d) THEN d.reads ELSE c.plan.read \cup d.reads
    <2> DEFINE t == Track(c.plan, d, ItemBarrier(c.plan, d))
    <2>1. ItemBarrier(c.plan, d) \in BOOLEAN
      BY DEF ItemBarrier
    <2>2. /\ t.written = IF ItemBarrier(c.plan, d) THEN d.writes ELSE c.plan.written \cup d.writes
          /\ t.read = IF ItemBarrier(c.plan, d) THEN d.reads ELSE c.plan.read \cup d.reads
      BY <1>1, <1>3, <2>1, TrackType
    <2>3. /\ p \in Plan /\ p.items = c.plan.items + 1
          /\ p.written = t.written /\ p.read = t.read
      BY <1>1, <1>3, RecordWithType
    <2> HIDE DEF t, p
    <2> QED
      BY <2>2, <2>3
  <1>6. /\ p.rule = c.plan.rule
        /\ p.barriers = c.plan.barriers + IF ItemBarrier(c.plan, d) THEN 1 ELSE 0
    BY <1>1, <1>3, RuleKept
  <1>7. /\ e.reads = a.reads /\ e.writes = a.writes /\ e.item
        /\ e.barrier <=> (ItemBarrier(c.plan, d) \/ c.pending)
    BY DEF ItemCommand
  <1>8. AllItems(c.batch) => ~c.pending /\ Touched(c)
    BY DEF Audited
  <1>9. no \in BOOLEAN /\ ~no
    OBVIOUS
  <1> HIDE DEF d, p, e, no
  <1>10. p.rule = "declared" /\ e.barrier /\ e.item /\ AllItems(c.batch) =>
           \/ Undeclared(e)
           \/ \E i \in 1 .. Len(c.batch) :
                Conflict(c.batch[i], e) /\ ~Separated(c.batch, i, Len(c.batch))
    <2> SUFFICES ASSUME p.rule = "declared", e.barrier, AllItems(c.batch), ~Undeclared(e)
                 PROVE  \E i \in 1 .. Len(c.batch) :
                          Conflict(c.batch[i], e) /\ ~Separated(c.batch, i, Len(c.batch))
      OBVIOUS
    <2>1. ItemBarrier(c.plan, d) /\ c.plan.rule = "declared"
      BY <1>6, <1>7, <1>8
    <2>2. ConflictsWith(c.plan, d)
      BY <1>4, <1>7, <2>1 DEF ItemBarrier, Undeclared
    <2>3. CASE \E m \in c.plan.written : m \in d.reads \cup d.writes
      <3>1. PICK m \in c.plan.written : m \in d.reads \cup d.writes
        BY <2>3
      <3>2. PICK i \in 1 .. Len(c.batch) :
              m \in c.batch[i].writes /\ ~Separated(c.batch, i, Len(c.batch))
        BY <1>8, <3>1 DEF Touched
      <3> QED
        BY <1>4, <1>7, <3>1, <3>2 DEF Conflict
    <2>4. CASE \E m \in c.plan.read : m \in d.writes
      <3>1. PICK m \in c.plan.read : m \in d.writes
        BY <2>4
      <3>2. PICK i \in 1 .. Len(c.batch) :
              m \in c.batch[i].reads /\ ~Separated(c.batch, i, Len(c.batch))
        BY <1>8, <3>1 DEF Touched
      <3> QED
        BY <1>4, <1>7, <3>1, <3>2 DEF Conflict
    <2> QED
      BY <2>2, <2>3, <2>4 DEF ConflictsWith
  <1>11. AllItems(c.batch) =>
           /\ p.written = e.writes \cup IF e.barrier THEN {} ELSE c.plan.written
           /\ p.read = e.reads \cup IF e.barrier THEN {} ELSE c.plan.read
    BY <1>4, <1>5, <1>7, <1>8
  <1>12. \/ /\ p.barriers = c.plan.barriers + 1
            /\ e.barrier /\ c.plan.items > 0
         \/ /\ p.barriers = c.plan.barriers
            /\ p.rule = "always" => c.plan.items = 0
    <2>1. CASE ItemBarrier(c.plan, d)
      BY <1>6, <1>7, <2>1 DEF ItemBarrier
    <2>2. CASE ~ItemBarrier(c.plan, d)
      BY <1>1, <1>6, <2>2 DEF ItemBarrier
    <2> QED
      BY <2>1, <2>2
  <1>13. Audited([c EXCEPT !.plan = p, !.batch = Append(c.batch, e), !.pending = no])
    BY <1>3, <1>5, <1>6, <1>7, <1>9, <1>10, <1>11, <1>12, OneMoreAudited, Zenon
  <1> QED
    BY <1>3, <1>13

LEMMA TransferAudited ==
  ASSUME NEW c, Audited(c), c.open,
         NEW a \in [reads: SUBSET Memory, writes: SUBSET Memory],
         NEW d \in Declaration
  PROVE  Audited(TransferRecorded(c, a, d))
  <1> DEFINE p == RecordTransfer(c.plan, d)
             e == TransferCommand(c, a, d)
             yes == TRUE
  <1>1. c \in Context /\ c.plan \in Plan
    BY DEF Audited, Context
  <1>2. /\ e \in Command
        /\ TransferRecorded(c, a, d) = [c EXCEPT !.plan = p, !.batch = Append(c.batch, e),
                                                !.pending = yes]
    BY <1>1, TransferRecordedFields
  <1>3. p \in Plan /\ p.items = c.plan.items
    <2>1. TransferBarrier(c.plan, d) \in BOOLEAN
      BY DEF TransferBarrier
    <2> QED
      BY <1>1, <2>1, TrackType DEF RecordTransfer
  <1>4. p.rule = c.plan.rule /\ p.barriers = c.plan.barriers
    BY <1>1, RuleKept
  <1>5. ~e.item
    BY DEF TransferCommand
  <1>6. yes \in BOOLEAN
    OBVIOUS
  <1> HIDE DEF p, e, yes
  <1>7. Audited([c EXCEPT !.plan = p, !.batch = Append(c.batch, e), !.pending = yes])
    BY <1>2, <1>3, <1>4, <1>5, <1>6, OneMoreAudited, Zenon
  <1> QED
    BY <1>2, <1>7


(* An empty batch with a new plan has nothing to account for. *)
LEMMA EmptyAudited ==
  ASSUME NEW c \in Context, c.batch = << >>, ~c.pending,
         NEW rule, NEW m, c.plan = NewPlan(rule, m)
  PROVE  Audited(c)
  <1>1. /\ c.plan.items = 0 /\ c.plan.barriers = 0
        /\ c.plan.written = {} /\ c.plan.read = {}
    BY DEF NewPlan
  <1>2. Dispatched(c.batch) = {} /\ Barred(c.batch) = {}
    BY DEF Dispatched, Barred
  <1>3. Counts(c)
    <2>1. Cardinality(Dispatched(c.batch)) = 0 /\ Cardinality(Barred(c.batch)) = 0
      BY <1>2, FS_EmptySet
    <2> QED
      BY <1>1, <2>1 DEF Counts
  <1>4. Earned(c.batch)
    BY DEF Earned
  <1>5. Touched(c)
    BY <1>1 DEF Touched
  <1> QED
    BY <1>3, <1>4, <1>5 DEF Audited

LEMMA OpenedAudited ==
  ASSUME NEW c, Audited(c)
  PROVE  Audited(Opened(c)) /\ Opened(c).open
  <1>1. CASE c.open
    BY <1>1 DEF Opened
  <1>2. CASE ~c.open
    <2> DEFINE o == Opened(c)
    <2>1. c \in Context /\ o \in Context /\ o.open
      BY OpenedType DEF Audited
    <2>2. /\ o.batch = << >> /\ ~o.pending
          /\ o.plan = NewPlan(c.plan.rule, BatchDepth(c))
      BY <1>2, <2>1 DEF Opened, Audited, Context
    <2> HIDE DEF o
    <2>3. Audited(o)
      BY <2>1, <2>2, EmptyAudited
    <2> QED
      BY <2>1, <2>3 DEF o
  <1> QED
    BY <1>1, <1>2

LEMMA FlushedAudited ==
  ASSUME NEW c, Audited(c), NEW reason
  PROVE  Audited(Flushed(c, reason))
  <1> DEFINE f == Flushed(c, reason)
  <1>1. c \in Context /\ f \in Context
    BY FlushedType DEF Audited
  <1>2. CASE ~c.open /\ ~Completes(c, reason)
    BY <1>2 DEF Flushed
  <1>3. CASE ~(~c.open /\ ~Completes(c, reason))
    <2>1. f.batch = << >> /\ ~f.pending /\ f.plan = NewPlan(c.plan.rule, 1)
      BY <1>1, <1>3 DEF Flushed, Context
    <2> HIDE DEF f
    <2>2. Audited(f)
      BY <1>1, <2>1, EmptyAudited
    <2> QED
      BY <2>2 DEF f
  <1> QED
    BY <1>2, <1>3

LEMMA AfterDueAudited ==
  ASSUME NEW c, Audited(c)
  PROVE  Audited(AfterDue(c))
  BY FlushedAudited DEF AfterDue

LEMMA AuditedStep ==
  ASSUME Audited(ctx), [Next]_ctx, ItemsNameBuffers
  PROVE  Audited(ctx')
  <1>1. Audited(Opened(ctx)) /\ Opened(ctx).open
    BY OpenedAudited
  <1>2. ASSUME NEW a \in Shapes, NEW x \in BOOLEAN, Dispatch(a, x) PROVE Audited(ctx')
    <2> DEFINE c == IF x THEN Flushed(ctx, "DescriptorsExhausted") ELSE ctx
    <2>1. Audited(c)
      BY FlushedAudited
    <2>2. Audited(Opened(c)) /\ Opened(c).open
      BY <2>1, OpenedAudited
    <2>3. Audited(ItemRecorded(Opened(c), a))
      BY <2>2, ItemAudited
    <2> QED
      BY <1>2, <2>3, AfterDueAudited DEF Dispatch
  <1>3. ASSUME NEW b \in Buffers, UploadRecorded(b) PROVE Audited(ctx')
    <2> DEFINE a == [reads |-> {}, writes |-> {b}]
    <2>1. a \in [reads: SUBSET Memory, writes: SUBSET Memory] /\ a \in Declaration
      BY DEF Memory, Declaration
    <2>2. Audited(TransferRecorded(Opened(ctx), a, a))
      BY <1>1, <2>1, TransferAudited
    <2> QED
      BY <1>3, <2>2, AfterDueAudited DEF UploadRecorded
  <1>4. ASSUME NEW from \in SUBSET Buffers, NEW to \in SUBSET Buffers,
               RecordBufferCopies(from, to)
        PROVE  Audited(ctx')
    <2> DEFINE a == [reads |-> from, writes |-> to]
    <2>1. a \in [reads: SUBSET Memory, writes: SUBSET Memory] /\ a \in Declaration
      BY DEF Memory, Declaration
    <2>2. Audited(TransferRecorded(Opened(ctx), a, a))
      BY <1>1, <2>1, TransferAudited
    <2> QED
      BY <1>4, <2>2 DEF RecordBufferCopies
  <1>5. ASSUME NEW area \in Areas, NEW to \in SUBSET Buffers,
               RecordCopiesFromStaging(area, to)
        PROVE  Audited(ctx')
    <2> DEFINE a == [reads |-> {area}, writes |-> to]
               d == [reads |-> {}, writes |-> to]
    <2>1. a \in [reads: SUBSET Memory, writes: SUBSET Memory] /\ d \in Declaration
      BY DEF Memory, Declaration
    <2>2. Audited(TransferRecorded(Opened(ctx), a, d))
      BY <1>1, <2>1, TransferAudited
    <2> QED
      BY <1>5, <2>2 DEF RecordCopiesFromStaging
  <1>6. ASSUME NEW b \in Buffers, NEW area \in Areas, RecordReadback(b, area)
        PROVE  Audited(ctx')
    <2> DEFINE a == [reads |-> {b}, writes |-> {area}]
               d == [reads |-> {b}, writes |-> {}]
    <2>1. a \in [reads: SUBSET Memory, writes: SUBSET Memory] /\ d \in Declaration
      BY DEF Memory, Declaration
    <2>2. Audited(TransferRecorded(Opened(ctx), a, d))
      BY <1>1, <2>1, TransferAudited
    <2> QED
      BY <1>6, <2>2 DEF RecordReadback
  <1>7. CASE CompletingFlush
    BY <1>7, FlushedAudited DEF CompletingFlush
  <1>8. ASSUME NEW on \in BOOLEAN, SetDispatchTimestamps(on) PROVE Audited(ctx')
    <2>1. /\ ctx \in Context /\ ctx' \in Context
          /\ ctx'.open = ctx.open /\ ctx'.batch = ctx.batch
          /\ ctx'.plan = ctx.plan /\ ctx'.pending = ctx.pending
      BY <1>8 DEF SetDispatchTimestamps, Audited, Context
    <2> QED
      BY <2>1 DEF Audited, Touched, Counts
  <1>9. CASE UNCHANGED ctx
    BY <1>9
  <1> QED
    BY <1>2, <1>3, <1>4, <1>5, <1>6, <1>7, <1>8, <1>9 DEF Next

(* Whatever is recorded, a barrier of the declared rule stands for a       *)
(* conflict no barrier before it orders (or for a dispatch that declares   *)
(* nothing), and the plan's count of barriers is below its count of items  *)
(* and never above the barriers recorded; kernels touch buffers only.      *)
(* Switching the timestamp instrument at any time changes none of it.      *)
THEOREM BarriersAreEarned ==
  ASSUME ItemsNameBuffers
  PROVE  Spec => []BarriersAccounted
  <1>1. Init => Audited(ctx)
    <2> SUFFICES ASSUME Init PROVE Audited(ctx)
      OBVIOUS
    <2>1. PICK rule \in Rules : ctx.plan = NewPlan(rule, 1)
      BY DEF Init
    <2>2. ctx \in Context /\ ctx.batch = << >> /\ ~ctx.pending
      BY NewPlanType, RulesAssumption, DepthAssumption DEF Init, Context, Opening
    <2> QED
      BY <2>1, <2>2, EmptyAudited
  <1>2. Audited(ctx) /\ [Next]_ctx => Audited(ctx)'
    BY AuditedStep
  <1>3. Audited(ctx) => BarriersAccounted
    <2> SUFFICES ASSUME Audited(ctx) PROVE BarriersAccounted
      OBVIOUS
    <2>1. BarriersEarned
      BY DEF Audited, Earned, BarriersEarned
    <2>2. BarrierCount
      <3>1. Counts(ctx)
        BY DEF Audited
      <3> QED
        BY <3>1 DEF Counts, Dispatched, Barred, BarrierCount
    <2> QED
      BY <2>1, <2>2 DEF BarriersAccounted
  <1> QED
    BY <1>1, <1>2, <1>3, PTL DEF Spec
=============================================================================
