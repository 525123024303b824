----------------------- MODULE TransferTimelineProofs -----------------------
(***************************************************************************)
(* Theorems about TransferTimeline, for any buffers, areas and contents,   *)
(* any number of copies and any fault of a submission: no command buffer   *)
(* of a copy is freed while the transfer queue executes it, a ticket not   *)
(* reached yet always has a copy to come, so that no wait is for a value   *)
(* nobody signals, and, with no armed wait lost, the calls of a program    *)
(* that awaits what it copied happen in the order it made them.            *)
(*                                                                         *)
(* Copies execute in any order; what all of them rest on is that the       *)
(* counter stays below the value of every copy still to execute.           *)
(***************************************************************************)
EXTENDS TransferTimeline, Integers, SequenceTheorems, WellFoundedInduction, TLAPS

(* The fields of the context, whatever they hold. *)
Shaped(c) ==
  c = [timeline |-> c.timeline, rec |-> c.rec, queue |-> c.queue, copies |-> c.copies,
       counter |-> c.counter, value |-> c.value, armed |-> c.armed, cbs |-> c.cbs,
       mem |-> c.mem, areas |-> c.areas, blocked |-> c.blocked, issued |-> c.issued,
       latest |-> c.latest, owing |-> c.owing, strayed |-> c.strayed]

(* The counter, the tickets handed out and the copies still to execute.    *)
Counting ==
  /\ ctx.value \in Tickets
  /\ ctx.counter \in 0 .. ctx.value
  /\ ctx.issued \subseteq 0 .. ctx.value
  /\ \A c \in ctx.copies :
       /\ c.value \in Nat /\ ctx.counter < c.value
       /\ c.value \in ctx.cbs

(* A ticket is reached, or a copy that holds the counter below it is still *)
(* with the transfer queue (copy_from_staging_async hands a ticket out     *)
(* only for a copy the queue accepted).                                    *)
TicketsHaveCopies ==
  \A t \in ctx.issued : t <= ctx.counter \/ \E c \in ctx.copies : c.value <= t

Timely == Shaped(ctx) /\ Counting /\ TicketsHaveCopies
-----------------------------------------------------------------------------
(* A nonempty set of naturals below a bound has a largest element. *)
LEMMA LargestExists ==
  ASSUME NEW bound \in Nat, NEW S, S \subseteq 0 .. bound, S # {}
  PROVE  \E t \in S : \A u \in S : u <= t
  <1> DEFINE T == {n \in Nat : bound - n \in S}
             R == OpToRel(<, Nat)
  <1>1. T \subseteq Nat /\ T # {}
    <2>1. PICK t \in S : TRUE
      OBVIOUS
    <2>2. t \in Nat /\ t <= bound
      BY <2>1
    <2>3. bound - t \in Nat /\ bound - (bound - t) = t
      BY <2>2
    <2>4. bound - t \in T
      BY <2>1, <2>3
    <2> QED
      BY <2>4
  <1>2. PICK n \in T : \A m \in T : ~(<<m, n>> \in R)
    <2> HIDE DEF T, R
    <2> QED
      BY <1>1, NatLessThanWellFounded, WFMin DEF R
  <1>3. \A m \in T : ~(m < n)
    <2>1. \A m \in T : m < n => <<m, n>> \in R
      BY DEF OpToRel
    <2> QED
      BY <1>2, <2>1
  <1>4. ASSUME NEW u \in S PROVE u <= bound - n
    <2>1. u \in Nat /\ u <= bound
      BY <1>4
    <2>2. bound - u \in Nat /\ bound - (bound - u) = u
      BY <2>1
    <2>3. bound - u \in T
      BY <1>4, <2>2
    <2>4. ~(bound - u < n) /\ n \in Nat
      BY <1>3, <2>3
    <2> QED
      BY <2>1, <2>4
  <1> QED
    BY <1>4
-----------------------------------------------------------------------------
(* What the theorems are about; recording, flushing and submitting leave   *)
(* it alone.                                                               *)
Counters(c) == <<c.copies, c.counter, c.value, c.cbs, c.issued>>

LEMMA SubmittedKeeps ==
  ASSUME NEW c, Shaped(c), NEW cmds
  PROVE  Shaped(Submitted(c, cmds)) /\ Counters(Submitted(c, cmds)) = Counters(c)
  <1> DEFINE longer == Append(c.queue, [waits |-> c.armed, cmds |-> cmds])
             s == Submitted(c, cmds)
  <1>1. s = [[c EXCEPT !.queue = longer] EXCEPT !.armed = 0]
    BY DEF Submitted, Shaped
  <1> HIDE DEF longer, s
  <1>2. Shaped(s) /\ Counters(s) = Counters(c)
    BY <1>1 DEF Shaped, Counters
  <1> QED
    BY <1>2 DEF s

LEMMA FlushedKeeps ==
  ASSUME NEW c, Shaped(c), NEW left
  PROVE  Shaped(Flushed(c, left)) /\ Counters(Flushed(c, left)) = Counters(c)
  <1> DEFINE e == [c EXCEPT !.rec = << >>]
             s == IF c.rec = << >> THEN c ELSE Submitted(e, c.rec)
  <1>1. Shaped(e) /\ Counters(e) = Counters(c)
    BY DEF Shaped, Counters
  <1>2. Shaped(s) /\ Counters(s) = Counters(c)
    <2> HIDE DEF e
    <2> QED
      BY <1>1, SubmittedKeeps
  <1>3. Flushed(c, left) = [s EXCEPT !.blocked = IF Len(s.queue) <= left THEN Free
                                                 ELSE [on |-> "compute", upto |-> left]]
    BY DEF Flushed
  <1> HIDE DEF s
  <1> QED
    BY <1>2, <1>3 DEF Shaped, Counters

LEMMA OneShotKeeps ==
  ASSUME NEW c, Shaped(c), NEW cmd, NEW accepted
  PROVE  Shaped(OneShot(c, cmd, accepted)) /\ Counters(OneShot(c, cmd, accepted)) = Counters(c)
  <1> DEFINE f == Flushed(c, 0)
             s == Submitted(f, <<cmd>>)
  <1>1. Shaped(f) /\ Counters(f) = Counters(c)
    BY FlushedKeeps
  <1>2. Shaped(s) /\ Counters(s) = Counters(c)
    <2> HIDE DEF f
    <2> QED
      BY <1>1, SubmittedKeeps
  <1>3. OneShot(c, cmd, accepted) =
          IF accepted THEN [s EXCEPT !.blocked = [on |-> "compute", upto |-> 0]]
          ELSE [f EXCEPT !.armed = 0]
    BY DEF OneShot
  <1> HIDE DEF f, s
  <1> QED
    BY <1>1, <1>2, <1>3 DEF Shaped, Counters

LEMMA SameCounters ==
  ASSUME Timely, Shaped(ctx'), Counters(ctx') = Counters(ctx)
  PROVE  Timely'
  <1>1. /\ ctx'.copies = ctx.copies /\ ctx'.counter = ctx.counter /\ ctx'.value = ctx.value
        /\ ctx'.cbs = ctx.cbs /\ ctx'.issued = ctx.issued
    BY DEF Counters
  <1>2. Counting' /\ TicketsHaveCopies'
    BY <1>1 DEF Timely, Counting, TicketsHaveCopies
  <1> QED
    BY <1>2 DEF Timely

LEMMA RecordedKeeps ==
  ASSUME Shaped(ctx), NEW cmd, Recorded(cmd)
  PROVE  Shaped(ctx') /\ Counters(ctx') = Counters(ctx)
  <1> DEFINE r == [ctx EXCEPT !.rec = Append(@, cmd), !.latest[cmd.buf] = cmd.value]
  <1>1. Shaped(r) /\ Counters(r) = Counters(ctx)
    <2> DEFINE longer == Append(ctx.rec, cmd)
               later == [ctx.latest EXCEPT ![cmd.buf] = cmd.value]
    <2>1. r = [[ctx EXCEPT !.rec = longer] EXCEPT !.latest = later]
      BY DEF Shaped
    <2> HIDE DEF longer, later, r
    <2> QED
      BY <2>1 DEF Shaped, Counters
  <1>2. ctx' = IF Len(r.rec) >= MaxItems THEN Flushed(r, 1) ELSE r
    BY DEF Recorded
  <1> HIDE DEF r
  <1> QED
    BY <1>1, <1>2, FlushedKeeps
-----------------------------------------------------------------------------
(* Freeing the command buffers of what is below the counter. *)
LEMMA ReapedKeeps ==
  ASSUME Timely, NEW r, r = Reaped(ctx)
  PROVE  /\ Shaped(r)
         /\ r.copies = ctx.copies /\ r.counter = ctx.counter /\ r.value = ctx.value
         /\ r.issued = ctx.issued
         /\ \A c \in ctx.copies : c.value \in r.cbs
  <1>1. r = [ctx EXCEPT !.cbs = {v \in @ : v > ctx.counter}]
    BY DEF Reaped
  <1>2. /\ Shaped(r)
        /\ r.copies = ctx.copies /\ r.counter = ctx.counter /\ r.value = ctx.value
        /\ r.issued = ctx.issued /\ r.cbs = {v \in ctx.cbs : v > ctx.counter}
    BY <1>1 DEF Timely, Shaped
  <1>3. \A c \in ctx.copies : c.value \in {v \in ctx.cbs : v > ctx.counter}
    BY DEF Timely, Counting, Tickets
  <1> QED
    BY <1>2, <1>3

(* A copy the transfer queue accepts has a value above every other one.    *)
LEMMA CopyQueuedKeeps ==
  ASSUME Timely, NEW a \in Areas, NEW b \in Buffers, NEW v \in Values,
         NEW accepted \in BOOLEAN, CopyQueued(a, b, v, accepted)
  PROVE  Timely'
  <1> DEFINE t == ctx.value + 1
             q == Reaped(ctx)
             r == [q EXCEPT !.value = t]
             copy == [value |-> t, from |-> a, to |-> b, bytes |-> v]
  <1>1. MaxCopies \in Nat /\ ctx.value \in Nat /\ ctx.counter \in Nat
        /\ ctx.value < MaxCopies /\ ctx.counter <= ctx.value
    BY TimelineAssumption DEF Timely, Counting, Tickets, CopyQueued
  <1>2. /\ Shaped(q) /\ q.copies = ctx.copies /\ q.counter = ctx.counter
        /\ q.issued = ctx.issued /\ \A c \in ctx.copies : c.value \in q.cbs
    BY ReapedKeeps
  <1>3. ctx' = IF accepted
               THEN [r EXCEPT !.copies = @ \cup {copy}, !.cbs = @ \cup {t},
                              !.issued = @ \cup {t}, !.latest[b] = v, !.owing[b] = t]
               ELSE r
    BY DEF CopyQueued
  <1> HIDE DEF q
  <1>4. /\ Shaped(r) /\ r.copies = ctx.copies /\ r.counter = ctx.counter /\ r.value = t
        /\ r.issued = ctx.issued /\ \A c \in ctx.copies : c.value \in r.cbs
    BY <1>2 DEF Shaped
  <1> HIDE DEF r
  <1>5. CASE accepted
    <2>1. /\ Shaped(ctx') /\ ctx'.copies = ctx.copies \cup {copy} /\ ctx'.counter = ctx.counter
          /\ ctx'.value = t /\ ctx'.issued = ctx.issued \cup {t} /\ ctx'.cbs = r.cbs \cup {t}
      BY <1>3, <1>4, <1>5 DEF Shaped
    <2>2. Counting'
      BY <1>1, <1>4, <2>1 DEF Timely, Counting, Tickets
    <2>3. TicketsHaveCopies'
      <3>1. copy \in ctx'.copies /\ copy.value <= t
        BY <1>1, <2>1
      <3> QED
        BY <2>1, <3>1 DEF Timely, TicketsHaveCopies
    <2> QED
      BY <2>1, <2>2, <2>3 DEF Timely
  <1>6. CASE ~accepted
    <2>1. /\ Shaped(ctx') /\ ctx'.copies = ctx.copies /\ ctx'.counter = ctx.counter
          /\ ctx'.value = t /\ ctx'.issued = ctx.issued /\ ctx'.cbs = r.cbs
      BY <1>3, <1>4, <1>6
    <2>2. Counting'
      BY <1>1, <1>4, <2>1 DEF Timely, Counting, Tickets
    <2>3. TicketsHaveCopies'
      BY <2>1 DEF Timely, TicketsHaveCopies
    <2> QED
      BY <2>1, <2>2, <2>3 DEF Timely
  <1> QED
    BY <1>5, <1>6

(* Without a timeline a copy hands out the ticket 0, which is satisfied.   *)
LEMMA CopyHereKeeps ==
  ASSUME Timely, NEW b \in Buffers, NEW v \in Values, NEW accepted \in BOOLEAN,
         CopyHere(b, v, accepted)
  PROVE  Timely'
  <1> DEFINE f == OneShot(ctx, Writing(b, v), accepted)
  <1>1. Shaped(f) /\ Counters(f) = Counters(ctx)
    BY OneShotKeeps DEF Timely
  <1>2. ctx' = [f EXCEPT !.latest[b] = IF accepted THEN v ELSE @,
                         !.issued = IF accepted THEN @ \cup {0} ELSE @]
    BY DEF CopyHere
  <1> HIDE DEF f
  <1>3. /\ Shaped(ctx') /\ ctx'.copies = ctx.copies /\ ctx'.counter = ctx.counter
        /\ ctx'.value = ctx.value /\ ctx'.cbs = ctx.cbs
        /\ ctx'.issued \in {ctx.issued, ctx.issued \cup {0}}
    BY <1>1, <1>2 DEF Shaped, Counters
  <1>4. ctx.value \in Nat /\ ctx.counter \in Nat
    BY TimelineAssumption DEF Timely, Counting, Tickets
  <1>5. Counting'
    BY <1>3, <1>4 DEF Timely, Counting
  <1>6. TicketsHaveCopies'
    BY <1>3, <1>4 DEF Timely, TicketsHaveCopies
  <1> QED
    BY <1>3, <1>5, <1>6 DEF Timely

(* The counter goes to the largest ticket below the copies left, so it     *)
(* stays below each of them and reaches every ticket with none below it.   *)
LEMMA CopyExecutesKeeps ==
  ASSUME Timely, NEW c \in ctx.copies, CopyExecutes(c)
  PROVE  Timely'
  <1> DEFINE left == ctx.copies \ {c}
             done == {t \in ctx.issued : \A o \in left : o.value > t}
             S == done \cup {ctx.counter}
             max == CHOOSE t \in S : \A u \in S : u <= t
  <1>1. /\ ctx.value \in Nat /\ ctx.counter \in 0 .. ctx.value /\ ctx.issued \subseteq 0 .. ctx.value
        /\ ctx.value \in Tickets
    BY TimelineAssumption DEF Timely, Counting, Tickets
  <1>2. S \subseteq 0 .. ctx.value /\ S # {} /\ ctx.counter \in S
    BY <1>1
  <1>3. ctx' = [ctx EXCEPT !.copies = left, !.mem[c.to] = c.bytes, !.counter = max]
    BY DEF CopyExecutes
  <1>4. max \in S /\ \A u \in S : u <= max
    <2>1. \E t \in S : \A u \in S : u <= t
      <3> HIDE DEF S
      <3> QED
        BY <1>1, <1>2, LargestExists
    <2> HIDE DEF S
    <2> QED
      BY <2>1
  <1>5. \A o \in left : o.value \in Nat /\ o.value > max /\ o.value \in ctx.cbs
    <2>1. \A o \in left : o.value \in Nat /\ o.value > ctx.counter /\ o.value \in ctx.cbs
      BY <1>1 DEF Timely, Counting
    <2> HIDE DEF max
    <2> QED
      BY <1>4, <2>1
  <1>6. \A t \in ctx.issued : t <= max \/ \E o \in left : o.value <= t
    <2>1. ASSUME NEW t \in ctx.issued, ~(t <= max) PROVE \E o \in left : o.value <= t
      <3>1. t \notin done
        BY <1>4, <2>1
      <3>2. PICK o \in left : ~(o.value > t)
        BY <3>1
      <3>3. o.value \in Nat /\ t \in Nat
        BY <1>1, <1>5
      <3> QED
        BY <3>2, <3>3
    <2> QED
      BY <2>1
  <1> HIDE DEF max, S, left
  <1>7. /\ Shaped(ctx') /\ ctx'.copies = left /\ ctx'.counter = max /\ ctx'.value = ctx.value
        /\ ctx'.cbs = ctx.cbs /\ ctx'.issued = ctx.issued
    BY <1>3 DEF Timely, Shaped
  <1>8. Counting'
    BY <1>1, <1>2, <1>4, <1>5, <1>7 DEF Counting
  <1>9. TicketsHaveCopies'
    BY <1>6, <1>7 DEF TicketsHaveCopies
  <1> QED
    BY <1>7, <1>8, <1>9 DEF Timely

LEMMA HostReturnsKeeps ==
  ASSUME Timely, HostReturns
  PROVE  Timely'
  <1>1. CASE ctx' = [ctx EXCEPT !.blocked = Free]
    BY <1>1, SameCounters DEF Timely, Shaped, Counters
  <1>2. CASE ctx' = [Reaped(ctx) EXCEPT !.blocked = Free]
    <2> DEFINE r == Reaped(ctx)
    <2>1. /\ Shaped(r) /\ r.copies = ctx.copies /\ r.counter = ctx.counter /\ r.value = ctx.value
          /\ r.issued = ctx.issued /\ \A c \in ctx.copies : c.value \in r.cbs
      BY ReapedKeeps
    <2> HIDE DEF r
    <2>2. /\ Shaped(ctx') /\ ctx'.copies = ctx.copies /\ ctx'.counter = ctx.counter
          /\ ctx'.value = ctx.value /\ ctx'.issued = ctx.issued
          /\ \A c \in ctx.copies : c.value \in ctx'.cbs
      BY <1>2, <2>1 DEF Shaped, r
    <2>3. Counting' /\ TicketsHaveCopies'
      BY <2>2 DEF Timely, Counting, TicketsHaveCopies
    <2> QED
      BY <2>2, <2>3 DEF Timely
  <1> QED
    BY <1>1, <1>2 DEF HostReturns
-----------------------------------------------------------------------------
LEMMA TimelyInitially == Init => Timely
  <1>1. SUFFICES ASSUME Init PROVE Timely
    OBVIOUS
  <1>2. MaxCopies \in Nat
    BY TimelineAssumption
  <1> QED
    BY <1>1, <1>2 DEF Init, Timely, Shaped, Counting, TicketsHaveCopies, Tickets

LEMMA TimelyKept == Timely /\ [Next]_ctx => Timely'
  <1>1. SUFFICES ASSUME Timely, [Next]_ctx PROVE Timely'
    OBVIOUS
  <1>2. Shaped(ctx)
    BY <1>1 DEF Timely
  <1>3. ASSUME NEW cmd, Recorded(cmd) PROVE Timely'
    BY <1>1, <1>2, <1>3, RecordedKeeps, SameCounters
  <1>4. ASSUME NEW b \in Buffers, DispatchReading(b) PROVE Timely'
    BY <1>3, <1>4 DEF DispatchReading
  <1>5. ASSUME NEW b \in Buffers, NEW v \in Values, DispatchWriting(b, v) PROVE Timely'
    BY <1>3, <1>5 DEF DispatchWriting
  <1>6. CASE Sync
    BY <1>1, <1>2, <1>6, FlushedKeeps, SameCounters DEF Sync
  <1>7. ASSUME NEW b \in Buffers, NEW accepted \in BOOLEAN, Download(b, accepted) PROVE Timely'
    BY <1>1, <1>2, <1>7, OneShotKeeps, SameCounters DEF Download
  <1>8. ASSUME NEW b \in Buffers, NEW v \in Values, NEW accepted \in BOOLEAN, Upload(b, v, accepted)
        PROVE  Timely'
    <2> DEFINE f == OneShot(ctx, Writing(b, v), accepted)
    <2>1. Shaped(f) /\ Counters(f) = Counters(ctx)
      BY <1>2, OneShotKeeps
    <2>2. ctx' = [f EXCEPT !.latest[b] = IF accepted THEN v ELSE @]
      BY <1>8 DEF Upload
    <2> HIDE DEF f
    <2>3. Shaped(ctx') /\ Counters(ctx') = Counters(ctx)
      BY <2>1, <2>2 DEF Shaped, Counters
    <2> QED
      BY <1>1, <2>3, SameCounters
  <1>9. ASSUME NEW a \in Areas, NEW b \in Buffers, NEW v \in Values, NEW accepted \in BOOLEAN,
               CopyFromStagingAsync(a, b, v, accepted)
        PROVE  Timely'
    BY <1>1, <1>9, CopyQueuedKeeps, CopyHereKeeps DEF CopyFromStagingAsync
  <1>10. ASSUME NEW t \in Tickets, AwaitTransfer(t) PROVE Timely'
    <2>1. Shaped(ctx') /\ Counters(ctx') = Counters(ctx)
      BY <1>2, <1>10 DEF AwaitTransfer, Shaped, Counters
    <2> QED
      BY <1>1, <2>1, SameCounters
  <1>11. ASSUME NEW t \in Tickets, WaitTransfer(t) PROVE Timely'
    <2>1. Shaped(ctx') /\ Counters(ctx') = Counters(ctx)
      BY <1>2, <1>11 DEF WaitTransfer, Shaped, Counters
    <2> QED
      BY <1>1, <2>1, SameCounters
  <1>12. ASSUME NEW a \in Areas, DestroyStaging(a) PROVE Timely'
    <2>1. Shaped(ctx') /\ Counters(ctx') = Counters(ctx)
      BY <1>2, <1>12 DEF DestroyStaging, Shaped, Counters
    <2> QED
      BY <1>1, <2>1, SameCounters
  <1>13. CASE HostReturns
    BY <1>1, <1>13, HostReturnsKeeps
  <1>14. CASE ComputeExecutes
    <2>1. Shaped(ctx') /\ Counters(ctx') = Counters(ctx)
      BY <1>2, <1>14 DEF ComputeExecutes, Shaped, Counters
    <2> QED
      BY <1>1, <2>1, SameCounters
  <1>15. ASSUME NEW c \in ctx.copies, CopyExecutes(c) PROVE Timely'
    BY <1>1, <1>15, CopyExecutesKeeps
  <1>16. CASE UNCHANGED ctx
    BY <1>1, <1>2, <1>16, SameCounters
  <1> QED
    BY <1>1, <1>4, <1>5, <1>6, <1>7, <1>8, <1>9, <1>10, <1>11, <1>12, <1>13, <1>14, <1>15, <1>16 DEF Next

(* No command buffer of a copy is freed while the transfer queue executes  *)
(* it (reap_transfer_command_buffers, lib.rs:4524-4530).                   *)
THEOREM RunningCopiesKeepBuffers == Spec => []CommandBuffersOutlive
  <1>1. Timely => CommandBuffersOutlive
    BY DEF Timely, Counting, CommandBuffersOutlive
  <1> QED
    BY <1>1, TimelyInitially, TimelyKept, PTL DEF Spec

(* A ticket handed out and not reached yet has a copy to come: whoever     *)
(* waits for it, on the host or in the compute queue, waits for something  *)
(* the transfer queue will do, refused copies and spent values or not.     *)
THEOREM WaitsHaveCopies == Spec => []TicketsHaveCopies
  <1>1. Timely => TicketsHaveCopies
    BY DEF Timely
  <1> QED
    BY <1>1, TimelyInitially, TimelyKept, PTL DEF Spec

-----------------------------------------------------------------------------
(* What every buffer holds.                                                *)
Memory == [Buffers -> Values]

(* A command executed on a memory: a write leaves its value, a read finds  *)
(* what it expects.                                                        *)
Effect(m, cmd, after) ==
  IF cmd.write THEN after = [m EXCEPT ![cmd.buf] = cmd.value]
  ELSE after = m /\ m[cmd.buf] = cmd.value

(* The commands take one memory to another, each read on the way finding   *)
(* what it expects.                                                        *)
Runs(cmds, m, after) ==
  \E V \in [0 .. Len(cmds) -> Memory] :
    /\ V[0] = m /\ V[Len(cmds)] = after
    /\ \A j \in 1 .. Len(cmds) : Effect(V[j - 1], cmds[j], V[j])

LEMMA RunsNothing ==
  ASSUME NEW m \in Memory
  PROVE  Runs(<< >>, m, m)
  <1> DEFINE V == [j \in 0 .. 0 |-> m]
  <1>1. Len(<< >>) = 0 /\ V \in [0 .. 0 -> Memory] /\ V[0] = m
    OBVIOUS
  <1> HIDE DEF V
  <1> QED
    BY <1>1 DEF Runs

LEMMA NothingRuns ==
  ASSUME NEW m, NEW after, Runs(<< >>, m, after)
  PROVE  after = m
  BY DEF Runs

LEMMA EffectIsMemory ==
  ASSUME NEW m \in Memory, NEW cmd \in Command, NEW after, Effect(m, cmd, after)
  PROVE  after \in Memory
  BY DEF Effect, Memory, Command

(* One command more at the end.                                            *)
LEMMA RunsAppend ==
  ASSUME NEW cmds \in Seq(Command), NEW cmd \in Command, NEW m, NEW mid \in Memory, NEW after,
         Runs(cmds, m, mid), Effect(mid, cmd, after)
  PROVE  Runs(Append(cmds, cmd), m, after)
  <1> DEFINE n == Len(cmds)
             longer == Append(cmds, cmd)
  <1>1. PICK V \in [0 .. n -> Memory] :
          /\ V[0] = m /\ V[n] = mid
          /\ \A j \in 1 .. n : Effect(V[j - 1], cmds[j], V[j])
    BY DEF Runs
  <1>2. /\ n \in Nat /\ Len(longer) = n + 1 /\ n + 1 \in Nat /\ longer[n + 1] = cmd
        /\ \A j \in 1 .. n : longer[j] = cmds[j]
    OBVIOUS
  <1>3. after \in Memory
    BY EffectIsMemory
  <1> HIDE DEF n, longer
  <1> DEFINE W == [j \in 0 .. n + 1 |-> IF j = n + 1 THEN after ELSE V[j]]
  <1>4. W \in [0 .. n + 1 -> Memory]
    BY <1>2, <1>3
  <1>5. W[0] = m /\ W[n + 1] = after
    BY <1>1, <1>2
  <1>6. ASSUME NEW j \in 1 .. n + 1 PROVE Effect(W[j - 1], longer[j], W[j])
    <2>1. CASE j = n + 1
      <3>1. W[j - 1] = mid /\ W[j] = after /\ longer[j] = cmd
        BY <1>1, <1>2, <2>1
      <3> QED
        BY <3>1
    <2>2. CASE j # n + 1
      <3>1. j \in 1 .. n /\ W[j - 1] = V[j - 1] /\ W[j] = V[j] /\ longer[j] = cmds[j]
        BY <1>2, <2>2
      <3> QED
        BY <1>1, <3>1
    <2> QED
      BY <2>1, <2>2
  <1> HIDE DEF W
  <1>7. Runs(longer, m, after)
    BY <1>2, <1>4, <1>5, <1>6 DEF Runs
  <1> QED
    BY <1>7 DEF longer

(* The first of the commands, and the others after it.                     *)
LEMMA RunsFirst ==
  ASSUME NEW cmds \in Seq(Command), cmds # << >>, NEW m, NEW after, Runs(cmds, m, after)
  PROVE  \E mid \in Memory : Effect(m, Head(cmds), mid) /\ Runs(Tail(cmds), mid, after)
  <1> DEFINE n == Len(cmds)
             rest == Tail(cmds)
  <1>1. PICK V \in [0 .. n -> Memory] :
          /\ V[0] = m /\ V[n] = after
          /\ \A j \in 1 .. n : Effect(V[j - 1], cmds[j], V[j])
    BY DEF Runs
  <1>2. /\ n \in Nat /\ n >= 1 /\ Len(rest) = n - 1 /\ n - 1 \in Nat /\ Head(cmds) = cmds[1]
        /\ \A j \in 1 .. n - 1 : rest[j] = cmds[j + 1]
    OBVIOUS
  <1> HIDE DEF n, rest
  <1> DEFINE W == [j \in 0 .. n - 1 |-> V[j + 1]]
  <1>3. W \in [0 .. n - 1 -> Memory]
    BY <1>2
  <1>4. W[0] = V[1] /\ W[n - 1] = after /\ V[1] \in Memory
    BY <1>1, <1>2
  <1>5. ASSUME NEW j \in 1 .. n - 1 PROVE Effect(W[j - 1], rest[j], W[j])
    <2>1. j + 1 \in 1 .. n /\ (j + 1) - 1 = j /\ (j - 1) + 1 = j /\ j - 1 \in 0 .. n - 1
      BY <1>2
    <2>2. W[j - 1] = V[(j + 1) - 1] /\ W[j] = V[j + 1] /\ rest[j] = cmds[j + 1]
      BY <1>2, <2>1
    <2> QED
      BY <1>1, <2>1, <2>2
  <1>6. Effect(m, Head(cmds), V[1])
    <2>1. 1 \in 1 .. n /\ 1 - 1 = 0
      BY <1>2
    <2> QED
      BY <1>1, <1>2, <2>1
  <1> HIDE DEF W
  <1>7. Runs(rest, V[1], after)
    BY <1>2, <1>3, <1>4, <1>5 DEF Runs
  <1> QED
    BY <1>4, <1>6, <1>7 DEF rest

(* Commands on other buffers do not see what a buffer holds.               *)
LEMMA RunsBeside ==
  ASSUME NEW cmds \in Seq(Command), NEW m, NEW after, Runs(cmds, m, after),
         NEW b \in Buffers, NEW v \in Values, \A j \in DOMAIN cmds : cmds[j].buf # b
  PROVE  Runs(cmds, [m EXCEPT ![b] = v], [after EXCEPT ![b] = v])
  <1> DEFINE n == Len(cmds)
  <1>1. PICK V \in [0 .. n -> Memory] :
          /\ V[0] = m /\ V[n] = after
          /\ \A j \in 1 .. n : Effect(V[j - 1], cmds[j], V[j])
    BY DEF Runs
  <1>2. n \in Nat /\ \A j \in 1 .. n : cmds[j] \in Command /\ cmds[j].buf # b
    OBVIOUS
  <1> HIDE DEF n
  <1> DEFINE W == [j \in 0 .. n |-> [V[j] EXCEPT ![b] = v]]
  <1>3. W \in [0 .. n -> Memory]
    BY DEF Memory
  <1>4. W[0] = [m EXCEPT ![b] = v] /\ W[n] = [after EXCEPT ![b] = v]
    BY <1>1, <1>2
  <1>5. ASSUME NEW j \in 1 .. n PROVE Effect(W[j - 1], cmds[j], W[j])
    <2> DEFINE x == V[j - 1]
               y == V[j]
    <2>1. x \in Memory /\ y \in Memory /\ Effect(x, cmds[j], y)
      <3>1. j - 1 \in 0 .. n /\ j \in 0 .. n
        BY <1>2
      <3> QED
        BY <1>1, <3>1
    <2>2. W[j - 1] = [x EXCEPT ![b] = v] /\ W[j] = [y EXCEPT ![b] = v]
      <3>1. j - 1 \in 0 .. n /\ j \in 0 .. n
        BY <1>2
      <3> QED
        BY <3>1
    <2> HIDE DEF x, y, W
    <2>3. cmds[j].buf # b /\ cmds[j].buf \in Buffers
      BY <1>2 DEF Command
    <2>4. CASE cmds[j].write
      <3>1. y = [x EXCEPT ![cmds[j].buf] = cmds[j].value]
        BY <2>1, <2>4 DEF Effect
      <3>2. [y EXCEPT ![b] = v] = [[x EXCEPT ![b] = v] EXCEPT ![cmds[j].buf] = cmds[j].value]
        BY <2>1, <2>3, <3>1 DEF Memory
      <3> QED
        BY <2>2, <2>4, <3>2 DEF Effect
    <2>5. CASE ~cmds[j].write
      BY <2>1, <2>2, <2>3, <2>5 DEF Effect, Memory
    <2> QED
      BY <2>4, <2>5
  <1> HIDE DEF W
  <1> QED
    BY <1>3, <1>4, <1>5 DEF Runs, n

-----------------------------------------------------------------------------
(* The types, and no submission without a command.                         *)
Typed(c) == c \in Context /\ \A i \in DOMAIN c.queue : c.queue[i].cmds # << >>

(* What the buffers hold once every copy of the transfer queue has         *)
(* executed.                                                               *)
Due(c, m) ==
  /\ m \in Memory
  /\ \A b \in Buffers : (\A cp \in c.copies : cp.to # b) => m[b] = c.mem[b]
  /\ \A cp \in c.copies : m[cp.to] = cp.bytes

(* What is submitted and what is recorded take the buffers, the copies     *)
(* executed first, to what the accepted calls left in them.                *)
Flows(c) ==
  \E W \in [1 .. Len(c.queue) + 1 -> Memory] :
    /\ Due(c, W[1])
    /\ \A i \in 1 .. Len(c.queue) : Runs(c.queue[i].cmds, W[i], W[i + 1])
    /\ Runs(c.rec, W[Len(c.queue) + 1], c.latest)

(* No command names the buffer.                                            *)
Without(cmds, b) == \A j \in DOMAIN cmds : cmds[j].buf # b

Untouched(c, b) ==
  /\ Without(c.rec, b)
  /\ \A i \in DOMAIN c.queue : Without(c.queue[i].cmds, b)

(* Some submission up to row i waits for a value.                          *)
WaitsBy(c, i, v) == \E h \in DOMAIN c.queue : h <= i /\ c.queue[h].waits >= v

(* A copy still to execute: nobody has awaited it and no command names its *)
(* buffer, or every submission that names it comes with or behind a wait   *)
(* for the copy, and so will the next one.                                 *)
Held(c, cp) ==
  IF c.owing[cp.to] # 0 THEN c.owing[cp.to] = cp.value /\ Untouched(c, cp.to)
  ELSE /\ \A i \in DOMAIN c.queue :
            Without(c.queue[i].cmds, cp.to) \/ WaitsBy(c, i, cp.value)
       /\ \/ c.armed >= cp.value
          \/ \E h \in DOMAIN c.queue : c.queue[h].waits >= cp.value
          \/ c.blocked.on = "timeline" /\ c.blocked.upto >= cp.value

Ordered(c) == Flows(c) /\ (\A cp \in c.copies : Held(c, cp)) /\ ~c.strayed


LEMMA ContextFields ==
  ASSUME NEW c \in Context
  PROVE  /\ Shaped(c)
         /\ c.timeline \in BOOLEAN /\ c.rec \in Seq(Command) /\ c.queue \in Seq(Submission)
         /\ c.copies \subseteq Copy /\ c.counter \in Tickets /\ c.value \in Tickets
         /\ c.armed \in Tickets /\ c.cbs \subseteq Tickets /\ c.mem \in Memory
         /\ c.areas \subseteq Areas /\ c.blocked \in Blocked /\ c.issued \subseteq Tickets
         /\ c.latest \in Memory /\ c.owing \in [Buffers -> Tickets] /\ c.strayed \in BOOLEAN
  BY DEF Context, Shaped, Memory

LEMMA FieldsContext ==
  ASSUME NEW c, Shaped(c),
         c.timeline \in BOOLEAN, c.rec \in Seq(Command), c.queue \in Seq(Submission),
         c.copies \subseteq Copy, c.counter \in Tickets, c.value \in Tickets,
         c.armed \in Tickets, c.cbs \subseteq Tickets, c.mem \in Memory,
         c.areas \subseteq Areas, c.blocked \in Blocked, c.issued \subseteq Tickets,
         c.latest \in Memory, c.owing \in [Buffers -> Tickets], c.strayed \in BOOLEAN
  PROVE  c \in Context
  BY DEF Context, Shaped, Memory

LEMMA TicketsAreNat ==
  /\ Tickets \subseteq Nat /\ 0 \in Tickets
  BY TimelineAssumption DEF Tickets

(* What submitting leaves alone.                                           *)
Beside(c) ==
  <<c.timeline, c.copies, c.counter, c.value, c.cbs, c.mem, c.areas, c.issued, c.latest,
    c.owing, c.strayed>>

LEMMA SubmittedFields ==
  ASSUME NEW c, Shaped(c), NEW cmds
  PROVE  LET d == Submitted(c, cmds)
         IN  /\ Shaped(d) /\ Beside(d) = Beside(c)
             /\ d.queue = Append(c.queue, [waits |-> c.armed, cmds |-> cmds]) /\ d.armed = 0
             /\ d.rec = c.rec /\ d.blocked = c.blocked
  <1> DEFINE longer == Append(c.queue, [waits |-> c.armed, cmds |-> cmds])
             d == Submitted(c, cmds)
  <1>1. d = [c EXCEPT !.queue = longer, !.armed = 0]
    BY DEF Submitted, Shaped
  <1> HIDE DEF longer, d
  <1>2. /\ Shaped(d) /\ Beside(d) = Beside(c) /\ d.queue = longer /\ d.armed = 0
        /\ d.rec = c.rec /\ d.blocked = c.blocked
    BY <1>1 DEF Shaped, Beside
  <1> QED
    BY <1>2 DEF longer, d

LEMMA FlushedFields ==
  ASSUME NEW c, Shaped(c), NEW left
  PROVE  LET d == Flushed(c, left)
         IN  /\ Shaped(d) /\ Beside(d) = Beside(c) /\ d.rec = << >>
             /\ d.blocked \in {Free, [on |-> "compute", upto |-> left]}
             /\ c.rec = << >> => d.queue = c.queue /\ d.armed = c.armed
             /\ c.rec # << >> =>
                  /\ d.queue = Append(c.queue, [waits |-> c.armed, cmds |-> c.rec])
                  /\ d.armed = 0
  <1> DEFINE d == Flushed(c, left)
             e == [c EXCEPT !.rec = << >>]
             s == IF c.rec = << >> THEN c ELSE Submitted(e, c.rec)
             after == IF Len(s.queue) <= left THEN Free ELSE [on |-> "compute", upto |-> left]
  <1>1. /\ Shaped(e) /\ Beside(e) = Beside(c) /\ e.rec = << >> /\ e.queue = c.queue
        /\ e.armed = c.armed
    BY DEF Shaped, Beside
  <1>2. /\ Shaped(s) /\ Beside(s) = Beside(c) /\ s.rec = << >>
        /\ c.rec = << >> => s.queue = c.queue /\ s.armed = c.armed
        /\ c.rec # << >> =>
             /\ s.queue = Append(c.queue, [waits |-> c.armed, cmds |-> c.rec])
             /\ s.armed = 0
    <2> HIDE DEF e
    <2>1. CASE c.rec = << >>
      BY <2>1
    <2>2. CASE c.rec # << >>
      <3> DEFINE t == Submitted(e, c.rec)
      <3>1. /\ Shaped(t) /\ Beside(t) = Beside(e)
            /\ t.queue = Append(e.queue, [waits |-> e.armed, cmds |-> c.rec]) /\ t.armed = 0
            /\ t.rec = e.rec
        BY <1>1, SubmittedFields
      <3>2. s = t
        BY <2>2
      <3> HIDE DEF s, t
      <3> QED
        BY <1>1, <2>2, <3>1, <3>2
    <2> QED
      BY <2>1, <2>2
  <1>3. d = [s EXCEPT !.blocked = after]
    BY DEF Flushed
  <1>4. after \in {Free, [on |-> "compute", upto |-> left]}
    OBVIOUS
  <1> HIDE DEF s, after, d
  <1>5. Shaped(d) /\ Beside(d) = Beside(s) /\ d.rec = s.rec /\ d.queue = s.queue
        /\ d.armed = s.armed /\ d.blocked = after
    BY <1>2, <1>3 DEF Shaped, Beside
  <1> QED
    BY <1>2, <1>4, <1>5 DEF d

LEMMA FlushedBeside ==
  ASSUME NEW c, Shaped(c), NEW left
  PROVE  LET d == Flushed(c, left)
         IN  Shaped(d) /\ Beside(d) = Beside(c) /\ d.rec = << >>
  <1> DEFINE d == Flushed(c, left)
  <1>1. /\ Shaped(d) /\ Beside(d) = Beside(c) /\ d.rec = << >>
        /\ d.blocked \in {Free, [on |-> "compute", upto |-> left]}
        /\ c.rec = << >> => d.queue = c.queue /\ d.armed = c.armed
        /\ c.rec # << >> =>
             /\ d.queue = Append(c.queue, [waits |-> c.armed, cmds |-> c.rec])
             /\ d.armed = 0
    BY FlushedFields
  <1> HIDE DEF d
  <1> QED
    BY <1>1 DEF d

LEMMA OneShotAccepted ==
  ASSUME NEW c, Shaped(c), NEW cmd
  PROVE  LET f == Flushed(c, 0)
             d == OneShot(c, cmd, TRUE)
         IN  /\ Shaped(d) /\ Beside(d) = Beside(c) /\ d.rec = << >>
             /\ d.queue = Append(f.queue, [waits |-> f.armed, cmds |-> <<cmd>>])
             /\ d.armed = 0 /\ d.blocked = [on |-> "compute", upto |-> 0]
  <1> DEFINE f == Flushed(c, 0)
             s == Submitted(f, <<cmd>>)
             d == OneShot(c, cmd, TRUE)
             full == [on |-> "compute", upto |-> 0]
  <1>1. Shaped(f) /\ Beside(f) = Beside(c) /\ f.rec = << >>
    BY FlushedBeside
  <1>2. d = [s EXCEPT !.blocked = full]
    BY DEF OneShot
  <1> HIDE DEF f, d, full
  <1>3. /\ Shaped(s) /\ Beside(s) = Beside(f)
        /\ s.queue = Append(f.queue, [waits |-> f.armed, cmds |-> <<cmd>>]) /\ s.armed = 0
        /\ s.rec = f.rec
    BY <1>1, SubmittedFields
  <1> HIDE DEF s
  <1>4. /\ Shaped(d) /\ Beside(d) = Beside(s) /\ d.rec = s.rec /\ d.queue = s.queue
        /\ d.armed = s.armed /\ d.blocked = full
    BY <1>2, <1>3 DEF Shaped, Beside
  <1> QED
    BY <1>1, <1>3, <1>4 DEF f, d, full

LEMMA OneShotRefused ==
  ASSUME NEW c, Shaped(c), NEW cmd
  PROVE  LET f == Flushed(c, 0)
             d == OneShot(c, cmd, FALSE)
         IN  /\ Shaped(d) /\ Beside(d) = Beside(c) /\ d.rec = << >> /\ d.queue = f.queue
             /\ d.armed = 0 /\ d.blocked = f.blocked
  <1> DEFINE f == Flushed(c, 0)
             d == OneShot(c, cmd, FALSE)
  <1>1. Shaped(f) /\ Beside(f) = Beside(c) /\ f.rec = << >>
    BY FlushedBeside
  <1>2. d = [f EXCEPT !.armed = 0]
    BY DEF OneShot
  <1> HIDE DEF f, d
  <1>3. /\ Shaped(d) /\ Beside(d) = Beside(f) /\ d.rec = f.rec /\ d.queue = f.queue
        /\ d.armed = 0 /\ d.blocked = f.blocked
    BY <1>1, <1>2 DEF Shaped, Beside
  <1> QED
    BY <1>1, <1>3 DEF f, d

-----------------------------------------------------------------------------
(* One submission more keeps the types.                                    *)
LEMMA TypedSubmission ==
  ASSUME NEW c, Typed(c), NEW d, Shaped(d), Beside(d) = Beside(c),
         NEW cmds \in Seq(Command), cmds # << >>, NEW waits \in Tickets,
         d.queue = Append(c.queue, [waits |-> waits, cmds |-> cmds]), d.armed = 0,
         d.rec = << >>, d.blocked \in Blocked
  PROVE  Typed(d)
  <1> DEFINE n == Len(c.queue)
             row == [waits |-> waits, cmds |-> cmds]
  <1>1. c.queue \in Seq(Submission) /\ row \in Submission /\ row.cmds = cmds
    BY ContextFields DEF Typed, Submission
  <1>2. /\ d.queue \in Seq(Submission) /\ DOMAIN d.queue = 1 .. n + 1 /\ DOMAIN c.queue = 1 .. n
        /\ n \in Nat /\ d.queue[n + 1] = row /\ \A i \in 1 .. n : d.queue[i] = c.queue[i]
    <2> HIDE DEF row
    <2> QED
      BY <1>1 DEF row
  <1>3. \A i \in DOMAIN d.queue : d.queue[i].cmds # << >>
    <2> SUFFICES ASSUME NEW i \in DOMAIN d.queue PROVE d.queue[i].cmds # << >>
      OBVIOUS
    <2> HIDE DEF n, row
    <2>1. i = n + 1 \/ i \in 1 .. n
      BY <1>2
    <2> QED
      BY <1>1, <1>2, <2>1 DEF Typed
  <1>4. /\ d.timeline = c.timeline /\ d.copies = c.copies /\ d.counter = c.counter
        /\ d.value = c.value /\ d.cbs = c.cbs /\ d.mem = c.mem /\ d.areas = c.areas
        /\ d.issued = c.issued /\ d.latest = c.latest /\ d.owing = c.owing
        /\ d.strayed = c.strayed
    BY DEF Beside
  <1>5. d \in Context
    <2>1. c \in Context /\ << >> \in Seq(Command) /\ 0 \in Tickets
      BY TicketsAreNat DEF Typed
    <2> QED
      BY <1>2, <1>4, <2>1, ContextFields, FieldsContext
  <1> QED
    BY <1>3, <1>5 DEF Typed

(* Any other change of fields that keeps their types.                      *)
LEMMA TypedChange ==
  ASSUME NEW c, Typed(c), NEW d, Shaped(d), d.queue = c.queue, d.timeline = c.timeline,
         d.rec \in Seq(Command), d.copies \subseteq Copy, d.counter \in Tickets,
         d.value \in Tickets, d.armed \in Tickets, d.cbs \subseteq Tickets, d.mem = c.mem,
         d.areas \subseteq Areas, d.blocked \in Blocked, d.issued \subseteq Tickets,
         d.latest \in Memory, d.owing \in [Buffers -> Tickets], d.strayed = c.strayed
  PROVE  Typed(d)
  <1>1. c \in Context
    BY DEF Typed
  <1>2. d \in Context
    BY <1>1, ContextFields, FieldsContext
  <1> QED
    BY <1>2 DEF Typed

LEMMA TypedFlushed ==
  ASSUME NEW c, Typed(c), NEW left \in Nat
  PROVE  Typed(Flushed(c, left))
  <1> DEFINE d == Flushed(c, left)
  <1>1. c \in Context
    BY DEF Typed
  <1>2. /\ Shaped(d) /\ Beside(d) = Beside(c) /\ d.rec = << >>
        /\ d.blocked \in {Free, [on |-> "compute", upto |-> left]}
        /\ c.rec = << >> => d.queue = c.queue /\ d.armed = c.armed
        /\ c.rec # << >> =>
             /\ d.queue = Append(c.queue, [waits |-> c.armed, cmds |-> c.rec])
             /\ d.armed = 0
    BY <1>1, ContextFields, FlushedFields
  <1> HIDE DEF d
  <1>3. d.blocked \in Blocked
    BY <1>2 DEF Blocked, Free
  <1>4. c.rec \in Seq(Command) /\ c.armed \in Tickets
    BY <1>1, ContextFields
  <1>5. CASE c.rec # << >>
    BY <1>2, <1>3, <1>4, <1>5, TypedSubmission DEF d
  <1>6. CASE c.rec = << >>
    <2>1. /\ d.timeline = c.timeline /\ d.copies = c.copies /\ d.counter = c.counter
          /\ d.value = c.value /\ d.cbs = c.cbs /\ d.mem = c.mem /\ d.areas = c.areas
          /\ d.issued = c.issued /\ d.latest = c.latest /\ d.owing = c.owing
          /\ d.strayed = c.strayed
      BY <1>2 DEF Beside
    <2>2. d.queue = c.queue /\ d.armed = c.armed /\ d.rec = << >> /\ << >> \in Seq(Command)
      BY <1>2, <1>6
    <2>3. /\ c.copies \subseteq Copy /\ c.counter \in Tickets /\ c.value \in Tickets
          /\ c.cbs \subseteq Tickets /\ c.areas \subseteq Areas /\ c.issued \subseteq Tickets
          /\ c.latest \in Memory /\ c.owing \in [Buffers -> Tickets]
      BY <1>1, ContextFields
    <2> QED
      BY <1>2, <1>3, <1>4, <2>1, <2>2, <2>3, TypedChange DEF d
  <1> QED
    BY <1>5, <1>6

LEMMA TypedOneShot ==
  ASSUME NEW c, Typed(c), NEW cmd \in Command, NEW accepted \in BOOLEAN
  PROVE  Typed(OneShot(c, cmd, accepted))
  <1> DEFINE f == Flushed(c, 0)
             d == OneShot(c, cmd, accepted)
  <1>1. c \in Context /\ Typed(f) /\ Shaped(c)
    BY TypedFlushed, ContextFields DEF Typed
  <1>2. Shaped(f) /\ Beside(f) = Beside(c) /\ f.rec = << >>
    BY <1>1, FlushedBeside
  <1>3. /\ f.armed \in Tickets /\ f.blocked \in Blocked
        /\ f.copies \subseteq Copy /\ f.counter \in Tickets /\ f.value \in Tickets
        /\ f.cbs \subseteq Tickets /\ f.areas \subseteq Areas /\ f.issued \subseteq Tickets
        /\ f.latest \in Memory /\ f.owing \in [Buffers -> Tickets]
    <2> HIDE DEF f
    <2> QED
      BY <1>1, ContextFields DEF Typed
  <1>4. CASE accepted
    <2>1. /\ Shaped(d) /\ Beside(d) = Beside(c) /\ d.rec = << >>
          /\ d.queue = Append(f.queue, [waits |-> f.armed, cmds |-> <<cmd>>])
          /\ d.armed = 0 /\ d.blocked = [on |-> "compute", upto |-> 0]
      BY <1>1, <1>4, OneShotAccepted
    <2> HIDE DEF d, f
    <2>2. <<cmd>> \in Seq(Command) /\ <<cmd>> # << >> /\ d.blocked \in Blocked
          /\ Beside(d) = Beside(f)
      BY <1>2, <2>1 DEF Blocked
    <2> QED
      BY <1>1, <1>3, <2>1, <2>2, TypedSubmission DEF d
  <1>5. CASE ~accepted
    <2>1. /\ Shaped(d) /\ Beside(d) = Beside(c) /\ d.rec = << >> /\ d.queue = f.queue
          /\ d.armed = 0 /\ d.blocked = f.blocked
      BY <1>1, <1>5, OneShotRefused
    <2> HIDE DEF d, f
    <2>2. /\ d.timeline = f.timeline /\ d.copies = f.copies /\ d.counter = f.counter
          /\ d.value = f.value /\ d.cbs = f.cbs /\ d.mem = f.mem /\ d.areas = f.areas
          /\ d.issued = f.issued /\ d.latest = f.latest /\ d.owing = f.owing
          /\ d.strayed = f.strayed
      BY <1>2, <2>1 DEF Beside
    <2>3. 0 \in Tickets /\ << >> \in Seq(Command)
      BY TicketsAreNat
    <2> QED
      BY <1>1, <1>3, <2>1, <2>2, <2>3, TypedChange DEF d
  <1> QED
    BY <1>4, <1>5


LEMMA TypedInitially == Init => Typed(ctx)
  <1>1. SUFFICES ASSUME Init PROVE Typed(ctx)
    OBVIOUS
  <1>2. 0 \in Tickets /\ Junk \in Values
    BY TicketsAreNat, TimelineAssumption DEF Junk
  <1>3. PICK timeline \in Timelines :
          ctx = [timeline |-> timeline, rec |-> << >>, queue |-> << >>, copies |-> {},
                 counter |-> 0, value |-> 0, armed |-> 0, cbs |-> {},
                 mem |-> [b \in Buffers |-> Junk], areas |-> Areas, blocked |-> Free,
                 issued |-> {}, latest |-> [b \in Buffers |-> Junk],
                 owing |-> [b \in Buffers |-> 0], strayed |-> FALSE]
    BY <1>1 DEF Init
  <1>4. timeline \in BOOLEAN /\ Free \in Blocked
    BY TimelineAssumption DEF Free, Blocked
  <1>5. ctx \in Context
    BY <1>2, <1>3, <1>4 DEF Context
  <1>6. ctx.queue = << >> /\ DOMAIN << >> = {}
    BY <1>3
  <1> QED
    BY <1>5, <1>6 DEF Typed

(* The batch with one command more.                                        *)
Longer(cmd) == [ctx EXCEPT !.rec = Append(@, cmd), !.latest[cmd.buf] = cmd.value]

LEMMA LongerFields ==
  ASSUME Typed(ctx), NEW cmd \in Command
  PROVE  LET r == Longer(cmd)
         IN  /\ Typed(r)
             /\ r.rec = Append(ctx.rec, cmd)
             /\ r.latest = [ctx.latest EXCEPT ![cmd.buf] = cmd.value]
             /\ r.queue = ctx.queue /\ r.copies = ctx.copies /\ r.armed = ctx.armed
             /\ r.mem = ctx.mem /\ r.owing = ctx.owing /\ r.blocked = ctx.blocked
             /\ r.strayed = ctx.strayed
  <1> DEFINE r == Longer(cmd)
             more == Append(ctx.rec, cmd)
             later == [ctx.latest EXCEPT ![cmd.buf] = cmd.value]
  <1>1. ctx \in Context
    BY DEF Typed
  <1>2. more \in Seq(Command) /\ later \in Memory /\ Shaped(ctx)
    <2>1. Shaped(ctx) /\ ctx.rec \in Seq(Command) /\ ctx.latest \in Memory
      BY <1>1, ContextFields
    <2>2. more \in Seq(Command)
      BY <2>1
    <2>3. later \in Memory
      BY <2>1 DEF Memory, Command
    <2> QED
      BY <2>1, <2>2, <2>3
  <1>3. r = [[ctx EXCEPT !.rec = more] EXCEPT !.latest = later]
    BY <1>2 DEF Longer, Shaped
  <1> HIDE DEF r, more, later
  <1>4. /\ Shaped(r) /\ r.rec = more /\ r.latest = later
        /\ r.queue = ctx.queue /\ r.copies = ctx.copies /\ r.armed = ctx.armed
        /\ r.mem = ctx.mem /\ r.owing = ctx.owing /\ r.blocked = ctx.blocked
        /\ r.strayed = ctx.strayed
    BY <1>2, <1>3 DEF Shaped
  <1>5. /\ r.timeline = ctx.timeline /\ r.counter = ctx.counter /\ r.value = ctx.value
        /\ r.cbs = ctx.cbs /\ r.areas = ctx.areas /\ r.issued = ctx.issued
    BY <1>2, <1>3 DEF Shaped
  <1>6. /\ ctx.copies \subseteq Copy /\ ctx.counter \in Tickets /\ ctx.value \in Tickets
        /\ ctx.armed \in Tickets /\ ctx.cbs \subseteq Tickets /\ ctx.areas \subseteq Areas
        /\ ctx.blocked \in Blocked /\ ctx.issued \subseteq Tickets
        /\ ctx.owing \in [Buffers -> Tickets]
    BY <1>1, ContextFields
  <1>7. Typed(r)
    BY <1>2, <1>4, <1>5, <1>6, TypedChange
  <1> QED
    BY <1>4, <1>7 DEF r, more, later

LEMMA CommandsTyped ==
  ASSUME Typed(ctx), NEW b \in Buffers, NEW v \in Values
  PROVE  Reading(b) \in Command /\ Writing(b, v) \in Command
  <1>1. ctx.latest[b] \in Values
    BY ContextFields DEF Typed, Memory
  <1> QED
    BY <1>1 DEF Reading, Writing, Command

LEMMA TypedRecorded ==
  ASSUME Typed(ctx), NEW cmd \in Command, Recorded(cmd)
  PROVE  Typed(ctx')
  <1> DEFINE r == Longer(cmd)
  <1>1. Typed(r)
    BY LongerFields
  <1>2. ctx' = IF Len(r.rec) >= MaxItems THEN Flushed(r, 1) ELSE r
    BY DEF Recorded, Longer
  <1> HIDE DEF r
  <1>3. Typed(Flushed(r, 1))
    BY <1>1, TypedFlushed
  <1> QED
    BY <1>1, <1>2, <1>3

(* upload, and a copy without a timeline: one_shot and what the caller is  *)
(* told.                                                                   *)
Told(o, later, issued) == [o EXCEPT !.latest = later, !.issued = issued]

Later(b, v, accepted) == IF accepted THEN [ctx.latest EXCEPT ![b] = v] ELSE ctx.latest

LEMMA ShotFields ==
  ASSUME Typed(ctx), NEW cmd \in Command, NEW accepted \in BOOLEAN,
         NEW later \in Memory, NEW issued \in SUBSET Tickets
  PROVE  LET o == OneShot(ctx, cmd, accepted)
             d == Told(o, later, issued)
         IN  /\ Typed(d) /\ d.latest = later
             /\ d.rec = o.rec /\ d.queue = o.queue /\ d.copies = o.copies
             /\ d.armed = o.armed /\ d.mem = o.mem /\ d.owing = o.owing
             /\ d.blocked = o.blocked /\ d.strayed = o.strayed
  <1> DEFINE o == OneShot(ctx, cmd, accepted)
             d == Told(o, later, issued)
  <1>1. Typed(o)
    BY TypedOneShot
  <1> HIDE DEF o
  <1>2. o \in Context /\ Shaped(o)
    BY <1>1, ContextFields DEF Typed
  <1>3. d = [o EXCEPT !.latest = later, !.issued = issued]
    BY DEF Told
  <1> HIDE DEF d
  <1>4. /\ Shaped(d) /\ d.latest = later /\ d.issued = issued
        /\ d.rec = o.rec /\ d.queue = o.queue /\ d.copies = o.copies
        /\ d.armed = o.armed /\ d.mem = o.mem /\ d.owing = o.owing
        /\ d.blocked = o.blocked /\ d.strayed = o.strayed
        /\ d.timeline = o.timeline /\ d.counter = o.counter /\ d.value = o.value
        /\ d.cbs = o.cbs /\ d.areas = o.areas
    BY <1>2, <1>3 DEF Shaped
  <1>5. /\ o.rec \in Seq(Command) /\ o.copies \subseteq Copy /\ o.counter \in Tickets
        /\ o.value \in Tickets /\ o.armed \in Tickets /\ o.cbs \subseteq Tickets
        /\ o.areas \subseteq Areas /\ o.blocked \in Blocked
        /\ o.owing \in [Buffers -> Tickets]
    BY <1>2, ContextFields
  <1>6. Typed(d)
    BY <1>1, <1>4, <1>5, TypedChange
  <1> QED
    BY <1>4, <1>6 DEF o, d

LEMMA UploadIsShot ==
  ASSUME Typed(ctx), NEW b \in Buffers, NEW v \in Values, NEW accepted \in BOOLEAN,
         Upload(b, v, accepted) \/ CopyHere(b, v, accepted)
  PROVE  \E issued \in SUBSET Tickets :
           ctx' = Told(OneShot(ctx, Writing(b, v), accepted), Later(b, v, accepted), issued)
  <1> DEFINE o == OneShot(ctx, Writing(b, v), accepted)
             later == IF accepted THEN [o.latest EXCEPT ![b] = v] ELSE o.latest
             more == IF accepted THEN o.issued \cup {0} ELSE o.issued
  <1>1. Typed(o)
    BY TypedOneShot, CommandsTyped
  <1>2. o.latest = ctx.latest
    <2>1. Shaped(ctx)
      BY ContextFields DEF Typed
    <2>2. Beside(o) = Beside(ctx)
      BY <2>1, OneShotAccepted, OneShotRefused
    <2> QED
      BY <2>2 DEF Beside
  <1>3. \/ ctx' = [o EXCEPT !.latest[b] = IF accepted THEN v ELSE @]
        \/ ctx' = [o EXCEPT !.latest[b] = IF accepted THEN v ELSE @,
                            !.issued = IF accepted THEN @ \cup {0} ELSE @]
    BY DEF Upload, CopyHere
  <1> HIDE DEF o
  <1>4. o \in Context /\ Shaped(o) /\ o.latest \in Memory /\ o.issued \subseteq Tickets
        /\ 0 \in Tickets
    BY <1>1, ContextFields, TicketsAreNat DEF Typed
  <1>5. [o.latest EXCEPT ![b] = IF accepted THEN v ELSE @] = later
    BY <1>4 DEF Memory
  <1>6. more \in SUBSET Tickets
    BY <1>4
  <1>7. \/ ctx' = [o EXCEPT !.latest = later]
        \/ ctx' = [o EXCEPT !.latest = later, !.issued = more]
    BY <1>3, <1>5
  <1> HIDE DEF later, more
  <1>8. \/ ctx' = [o EXCEPT !.latest = later, !.issued = o.issued]
        \/ ctx' = [o EXCEPT !.latest = later, !.issued = more]
    <2>1. [o EXCEPT !.latest = later] = [o EXCEPT !.latest = later, !.issued = o.issued]
      BY <1>4 DEF Shaped
    <2> QED
      BY <1>7, <2>1
  <1>9. \E issued \in SUBSET Tickets : ctx' = [o EXCEPT !.latest = later, !.issued = issued]
    BY <1>4, <1>6, <1>8
  <1> QED
    BY <1>2, <1>9 DEF later, o, Told, Later


(* What most operations leave alone.                                       *)
Work(c) == <<c.rec, c.queue, c.mem, c.strayed>>

LEMMA CopyQueuedFields ==
  ASSUME Typed(ctx), NEW a \in Areas, NEW b \in Buffers, NEW v \in Values,
         NEW accepted \in BOOLEAN, CopyQueued(a, b, v, accepted)
  PROVE  LET t == ctx.value + 1
             copy == [value |-> t, from |-> a, to |-> b, bytes |-> v]
         IN  /\ Typed(ctx') /\ Work(ctx') = Work(ctx)
             /\ ctx'.armed = ctx.armed /\ ctx'.blocked = ctx.blocked /\ t \in Tickets /\ t # 0
             /\ accepted =>
                  /\ ctx'.copies = ctx.copies \cup {copy}
                  /\ ctx'.latest = [ctx.latest EXCEPT ![b] = v]
                  /\ ctx'.owing = [ctx.owing EXCEPT ![b] = t]
             /\ ~accepted =>
                  /\ ctx'.copies = ctx.copies /\ ctx'.latest = ctx.latest
                  /\ ctx'.owing = ctx.owing
  <1> DEFINE t == ctx.value + 1
             copy == [value |-> t, from |-> a, to |-> b, bytes |-> v]
             reaped == {u \in ctx.cbs : u > ctx.counter}
             r == [ctx EXCEPT !.cbs = reaped, !.value = t]
             later == [ctx.latest EXCEPT ![b] = v]
             owes == [ctx.owing EXCEPT ![b] = t]
  <1>1. /\ ctx \in Context /\ Shaped(ctx) /\ ctx.rec \in Seq(Command)
        /\ ctx.copies \subseteq Copy /\ ctx.counter \in Tickets /\ ctx.value \in Tickets
        /\ ctx.armed \in Tickets /\ ctx.cbs \subseteq Tickets
        /\ ctx.areas \subseteq Areas /\ ctx.blocked \in Blocked /\ ctx.issued \subseteq Tickets
        /\ ctx.latest \in Memory /\ ctx.owing \in [Buffers -> Tickets]
    BY ContextFields DEF Typed
  <1>2. t \in Tickets /\ t # 0
    BY <1>1, TimelineAssumption DEF Tickets, CopyQueued
  <1>3. copy \in Copy /\ later \in Memory /\ owes \in [Buffers -> Tickets]
        /\ reaped \subseteq Tickets
    BY <1>1, <1>2 DEF Copy, Memory
  <1>4. Reaped(ctx) = [ctx EXCEPT !.cbs = reaped]
    BY DEF Reaped
  <1>5. /\ Shaped(r) /\ r.value = t /\ r.cbs = reaped
        /\ r.timeline = ctx.timeline /\ r.rec = ctx.rec /\ r.queue = ctx.queue
        /\ r.copies = ctx.copies /\ r.counter = ctx.counter /\ r.armed = ctx.armed
        /\ r.mem = ctx.mem /\ r.areas = ctx.areas /\ r.blocked = ctx.blocked
        /\ r.issued = ctx.issued /\ r.latest = ctx.latest /\ r.owing = ctx.owing
        /\ r.strayed = ctx.strayed
    <2>1. Shaped(ctx)
      BY <1>1
    <2> HIDE DEF t, reaped
    <2> DEFINE q == [ctx EXCEPT !.cbs = reaped]
    <2>2. /\ Shaped(q) /\ q.cbs = reaped
          /\ q.timeline = ctx.timeline /\ q.rec = ctx.rec /\ q.queue = ctx.queue
          /\ q.copies = ctx.copies /\ q.counter = ctx.counter /\ q.armed = ctx.armed
          /\ q.mem = ctx.mem /\ q.areas = ctx.areas /\ q.blocked = ctx.blocked
          /\ q.issued = ctx.issued /\ q.latest = ctx.latest /\ q.owing = ctx.owing
          /\ q.strayed = ctx.strayed
      BY <2>1 DEF Shaped
    <2>3. r = [q EXCEPT !.value = t]
      BY <2>1 DEF Shaped
    <2> HIDE DEF q, r
    <2> QED
      BY <2>2, <2>3 DEF Shaped
  <1>6. [Reaped(ctx) EXCEPT !.value = t] = r
    <2> HIDE DEF t, reaped
    <2> QED
      BY <1>1, <1>4 DEF Shaped
  <1>7. ctx' = IF accepted
               THEN [r EXCEPT !.copies = @ \cup {copy}, !.cbs = @ \cup {t},
                              !.issued = @ \cup {t}, !.latest[b] = v, !.owing[b] = t]
               ELSE r
    <2>1. ctx' = IF accepted
                 THEN [[Reaped(ctx) EXCEPT !.value = t] EXCEPT
                         !.copies = @ \cup {copy}, !.cbs = @ \cup {t},
                         !.issued = @ \cup {t}, !.latest[b] = v, !.owing[b] = t]
                 ELSE [Reaped(ctx) EXCEPT !.value = t]
      BY DEF CopyQueued
    <2> HIDE DEF r, copy, t
    <2> QED
      BY <1>6, <2>1
  <1> HIDE DEF t, copy, reaped, r, later, owes
  <1>8. CASE accepted
    <2>1. ctx' = [r EXCEPT !.copies = r.copies \cup {copy}, !.cbs = r.cbs \cup {t},
                           !.issued = r.issued \cup {t}, !.latest = later, !.owing = owes]
      BY <1>5, <1>7, <1>8 DEF Shaped, later, owes
    <2>2. /\ Shaped(ctx') /\ ctx'.copies = ctx.copies \cup {copy} /\ ctx'.cbs = reaped \cup {t}
          /\ ctx'.issued = ctx.issued \cup {t} /\ ctx'.latest = later /\ ctx'.owing = owes
          /\ ctx'.value = t /\ ctx'.timeline = ctx.timeline /\ ctx'.rec = ctx.rec
          /\ ctx'.queue = ctx.queue /\ ctx'.counter = ctx.counter /\ ctx'.armed = ctx.armed
          /\ ctx'.mem = ctx.mem /\ ctx'.areas = ctx.areas /\ ctx'.blocked = ctx.blocked
          /\ ctx'.strayed = ctx.strayed
      BY <1>5, <2>1 DEF Shaped
    <2>3. Typed(ctx')
      BY <1>1, <1>2, <1>3, <2>2, TypedChange
    <2> QED
      BY <1>2, <1>8, <2>2, <2>3 DEF Work, t, copy, later, owes
  <1>9. CASE ~accepted
    <2>1. Typed(ctx')
      BY <1>1, <1>2, <1>3, <1>5, <1>7, <1>9, TypedChange
    <2> QED
      BY <1>2, <1>5, <1>7, <1>9, <2>1 DEF Work, t, copy
  <1> QED
    BY <1>8, <1>9

(* await_transfer and wait_transfer.                                       *)
LEMMA NoLongerTyped ==
  ASSUME Typed(ctx), NEW t \in Tickets
  PROVE  NoLonger(t) \in [Buffers -> Tickets] /\ Armed(t) \in Tickets
         /\ Armed(t) >= t /\ Armed(t) >= ctx.armed
  <1>1. ctx.owing \in [Buffers -> Tickets] /\ ctx.armed \in Tickets
    BY ContextFields DEF Typed
  <1>2. NoLonger(t) \in [Buffers -> Tickets]
    BY <1>1, TicketsAreNat DEF NoLonger
  <1>3. t \in Nat /\ ctx.armed \in Nat
    BY <1>1, TicketsAreNat
  <1>4. Armed(t) \in Tickets /\ Armed(t) >= t /\ Armed(t) >= ctx.armed
    BY <1>1, <1>3 DEF Armed
  <1> QED
    BY <1>2, <1>4

LEMMA AwaitFields ==
  ASSUME Typed(ctx), NEW t \in Tickets, AwaitTransfer(t) \/ WaitTransfer(t)
  PROVE  /\ Typed(ctx') /\ Work(ctx') = Work(ctx)
         /\ ctx'.copies = ctx.copies /\ ctx'.latest = ctx.latest /\ ctx'.owing = NoLonger(t)
         /\ AwaitTransfer(t) => ctx'.armed = Armed(t) /\ ctx'.blocked = ctx.blocked
         /\ WaitTransfer(t) =>
              ctx'.armed = ctx.armed /\ ctx'.blocked = [on |-> "timeline", upto |-> t]
  <1>1. /\ ctx \in Context /\ Shaped(ctx) /\ ctx.rec \in Seq(Command)
        /\ ctx.copies \subseteq Copy /\ ctx.counter \in Tickets /\ ctx.value \in Tickets
        /\ ctx.armed \in Tickets /\ ctx.cbs \subseteq Tickets
        /\ ctx.areas \subseteq Areas /\ ctx.blocked \in Blocked /\ ctx.issued \subseteq Tickets
        /\ ctx.latest \in Memory
    BY ContextFields DEF Typed
  <1>2. /\ NoLonger(t) \in [Buffers -> Tickets] /\ Armed(t) \in Tickets
        /\ [on |-> "timeline", upto |-> t] \in Blocked
    BY NoLongerTyped, TicketsAreNat DEF Blocked
  <1> DEFINE full == [on |-> "timeline", upto |-> t]
             owes == NoLonger(t)
             arm == Armed(t)
  <1> HIDE DEF full, owes, arm
  <1>3. ASSUME AwaitTransfer(t)
        PROVE  /\ Typed(ctx') /\ Work(ctx') = Work(ctx)
               /\ ctx'.copies = ctx.copies /\ ctx'.latest = ctx.latest /\ ctx'.owing = owes
               /\ ctx'.armed = arm /\ ctx'.blocked = ctx.blocked
    <2>1. ctx' = [ctx EXCEPT !.armed = arm, !.owing = owes]
      BY <1>3 DEF AwaitTransfer, arm, owes
    <2>2. /\ Shaped(ctx') /\ ctx'.copies = ctx.copies /\ ctx'.cbs = ctx.cbs
          /\ ctx'.issued = ctx.issued /\ ctx'.latest = ctx.latest /\ ctx'.owing = owes
          /\ ctx'.value = ctx.value /\ ctx'.timeline = ctx.timeline /\ ctx'.rec = ctx.rec
          /\ ctx'.queue = ctx.queue /\ ctx'.counter = ctx.counter /\ ctx'.armed = arm
          /\ ctx'.mem = ctx.mem /\ ctx'.areas = ctx.areas /\ ctx'.blocked = ctx.blocked
          /\ ctx'.strayed = ctx.strayed
      BY <1>1, <2>1 DEF Shaped
    <2>3. Typed(ctx')
      BY <1>1, <1>2, <2>2, TypedChange DEF arm, owes
    <2> QED
      BY <2>2, <2>3 DEF Work
  <1>4. ASSUME WaitTransfer(t)
        PROVE  /\ Typed(ctx') /\ Work(ctx') = Work(ctx)
               /\ ctx'.copies = ctx.copies /\ ctx'.latest = ctx.latest /\ ctx'.owing = owes
               /\ ctx'.armed = ctx.armed /\ ctx'.blocked = full
    <2>1. ctx' = [ctx EXCEPT !.blocked = full, !.owing = owes]
      BY <1>4 DEF WaitTransfer, full, owes
    <2>2. /\ Shaped(ctx') /\ ctx'.copies = ctx.copies /\ ctx'.cbs = ctx.cbs
          /\ ctx'.issued = ctx.issued /\ ctx'.latest = ctx.latest /\ ctx'.owing = owes
          /\ ctx'.value = ctx.value /\ ctx'.timeline = ctx.timeline /\ ctx'.rec = ctx.rec
          /\ ctx'.queue = ctx.queue /\ ctx'.counter = ctx.counter /\ ctx'.armed = ctx.armed
          /\ ctx'.mem = ctx.mem /\ ctx'.areas = ctx.areas /\ ctx'.blocked = full
          /\ ctx'.strayed = ctx.strayed
      BY <1>1, <2>1 DEF Shaped
    <2>3. Typed(ctx')
      BY <1>1, <1>2, <2>2, TypedChange DEF full, owes
    <2> QED
      BY <2>2, <2>3 DEF Work
  <1>5. /\ Typed(ctx') /\ Work(ctx') = Work(ctx)
        /\ ctx'.copies = ctx.copies /\ ctx'.latest = ctx.latest /\ ctx'.owing = owes
    BY <1>3, <1>4
  <1>6. AwaitTransfer(t) => ctx'.armed = arm /\ ctx'.blocked = ctx.blocked
    BY <1>3
  <1>7. WaitTransfer(t) => ctx'.armed = ctx.armed /\ ctx'.blocked = full
    BY <1>4
  <1> QED
    BY <1>5, <1>6, <1>7 DEF full, owes, arm

(* destroy_staging, and a blocked call that returns.                       *)
LEMMA QuietFields ==
  ASSUME Typed(ctx), HostReturns \/ \E a \in Areas : DestroyStaging(a)
  PROVE  /\ Typed(ctx') /\ Work(ctx') = Work(ctx)
         /\ ctx'.copies = ctx.copies /\ ctx'.latest = ctx.latest /\ ctx'.owing = ctx.owing
         /\ ctx'.armed = ctx.armed /\ ctx'.blocked \in {ctx.blocked, Free}
  <1>1. /\ ctx \in Context /\ Shaped(ctx) /\ ctx.rec \in Seq(Command)
        /\ ctx.copies \subseteq Copy /\ ctx.counter \in Tickets /\ ctx.value \in Tickets
        /\ ctx.armed \in Tickets /\ ctx.cbs \subseteq Tickets
        /\ ctx.areas \subseteq Areas /\ ctx.blocked \in Blocked /\ ctx.issued \subseteq Tickets
        /\ ctx.latest \in Memory /\ ctx.owing \in [Buffers -> Tickets]
    BY ContextFields DEF Typed
  <1>2. Free \in Blocked
    BY DEF Free, Blocked
  <1>3. PICK cbs \in SUBSET Tickets, areas \in SUBSET Areas, blocked \in {ctx.blocked, Free} :
          ctx' = [ctx EXCEPT !.cbs = cbs, !.areas = areas, !.blocked = blocked]
    <2>1. CASE ctx' = [ctx EXCEPT !.blocked = Free]
      <3>1. ctx' = [ctx EXCEPT !.cbs = ctx.cbs, !.areas = ctx.areas, !.blocked = Free]
        BY <1>1, <2>1 DEF Shaped
      <3> QED
        BY <1>1, <3>1
    <2>2. CASE ctx' = [Reaped(ctx) EXCEPT !.blocked = Free]
      <3> DEFINE reaped == {u \in ctx.cbs : u > ctx.counter}
      <3>1. reaped \subseteq Tickets /\ Reaped(ctx) = [ctx EXCEPT !.cbs = reaped]
        BY <1>1 DEF Reaped
      <3> HIDE DEF reaped
      <3>2. ctx' = [ctx EXCEPT !.cbs = reaped, !.areas = ctx.areas, !.blocked = Free]
        BY <1>1, <2>2, <3>1 DEF Shaped
      <3> QED
        BY <1>1, <3>1, <3>2
    <2>3. ASSUME NEW a \in Areas, ctx' = [ctx EXCEPT !.areas = @ \ {a}]
          PROVE  \E cbs \in SUBSET Tickets, areas \in SUBSET Areas, blocked \in {ctx.blocked, Free} :
                   ctx' = [ctx EXCEPT !.cbs = cbs, !.areas = areas, !.blocked = blocked]
      <3> DEFINE left == ctx.areas \ {a}
      <3>1. left \subseteq Areas /\ ctx' = [ctx EXCEPT !.areas = left]
        BY <1>1, <2>3
      <3> HIDE DEF left
      <3>2. ctx' = [ctx EXCEPT !.cbs = ctx.cbs, !.areas = left, !.blocked = ctx.blocked]
        BY <1>1, <3>1 DEF Shaped
      <3> QED
        BY <1>1, <3>1, <3>2
    <2> QED
      BY <2>1, <2>2, <2>3 DEF HostReturns, DestroyStaging
  <1>4. /\ Shaped(ctx') /\ ctx'.copies = ctx.copies /\ ctx'.cbs = cbs
        /\ ctx'.issued = ctx.issued /\ ctx'.latest = ctx.latest /\ ctx'.owing = ctx.owing
        /\ ctx'.value = ctx.value /\ ctx'.timeline = ctx.timeline /\ ctx'.rec = ctx.rec
        /\ ctx'.queue = ctx.queue /\ ctx'.counter = ctx.counter /\ ctx'.armed = ctx.armed
        /\ ctx'.mem = ctx.mem /\ ctx'.areas = areas /\ ctx'.blocked = blocked
        /\ ctx'.strayed = ctx.strayed
    BY <1>1, <1>3 DEF Shaped
  <1>5. Typed(ctx')
    BY <1>1, <1>2, <1>4, TypedChange
  <1> QED
    BY <1>4, <1>5 DEF Work


(* The compute queue takes the first command of the first submission.      *)
LEMMA ComputeFields ==
  ASSUME Typed(ctx), ComputeExecutes
  PROVE  LET n == Len(ctx.queue)
             first == ctx.queue[1].cmds
             cmd == Head(first)
             rest == Tail(first)
         IN  /\ Typed(ctx') /\ n \in Nat /\ n >= 1
             /\ first \in Seq(Command) /\ first # << >> /\ cmd \in Command
             /\ ctx.queue[1].waits <= ctx.counter
             /\ ctx'.rec = ctx.rec /\ ctx'.copies = ctx.copies /\ ctx'.armed = ctx.armed
             /\ ctx'.latest = ctx.latest /\ ctx'.owing = ctx.owing
             /\ ctx'.blocked = ctx.blocked
             /\ ctx'.mem = [ctx.mem EXCEPT ![cmd.buf] = IF cmd.write THEN cmd.value ELSE @]
             /\ ctx'.strayed = (ctx.strayed \/ (~cmd.write /\ ctx.mem[cmd.buf] # cmd.value))
             /\ rest = << >> => /\ DOMAIN ctx'.queue = 1 .. n - 1
                                /\ \A i \in 1 .. n - 1 : ctx'.queue[i] = ctx.queue[i + 1]
             /\ rest # << >> => /\ DOMAIN ctx'.queue = 1 .. n
                                /\ ctx'.queue[1].waits = ctx.queue[1].waits
                                /\ ctx'.queue[1].cmds = rest
                                /\ \A i \in 2 .. n : ctx'.queue[i] = ctx.queue[i]
  <1> DEFINE n == Len(ctx.queue)
             h == Head(ctx.queue)
             first == ctx.queue[1].cmds
             cmd == Head(first)
             rest == Tail(first)
             left == [h EXCEPT !.cmds = rest]
             after == IF rest = << >> THEN Tail(ctx.queue) ELSE <<left>> \o Tail(ctx.queue)
             found == [ctx.mem EXCEPT ![cmd.buf] = IF cmd.write THEN cmd.value ELSE @]
             lost == ctx.strayed \/ (~cmd.write /\ ctx.mem[cmd.buf] # cmd.value)
  <1>1. /\ ctx \in Context /\ Shaped(ctx) /\ ctx.rec \in Seq(Command)
        /\ ctx.copies \subseteq Copy /\ ctx.counter \in Tickets /\ ctx.value \in Tickets
        /\ ctx.armed \in Tickets /\ ctx.cbs \subseteq Tickets /\ ctx.timeline \in BOOLEAN
        /\ ctx.areas \subseteq Areas /\ ctx.blocked \in Blocked /\ ctx.issued \subseteq Tickets
        /\ ctx.latest \in Memory /\ ctx.owing \in [Buffers -> Tickets]
        /\ ctx.queue \in Seq(Submission) /\ ctx.mem \in Memory /\ ctx.strayed \in BOOLEAN
    BY ContextFields DEF Typed
  <1>2. /\ n \in Nat /\ n >= 1 /\ h = ctx.queue[1] /\ h \in Submission
        /\ Tail(ctx.queue) \in Seq(Submission) /\ Len(Tail(ctx.queue)) = n - 1
        /\ \A i \in 1 .. n - 1 : Tail(ctx.queue)[i] = ctx.queue[i + 1]
        /\ DOMAIN ctx.queue = 1 .. n
    <2>1. ctx.queue \in Seq(Submission) /\ ctx.queue # << >>
      BY <1>1 DEF ComputeExecutes
    <2> QED
      BY ONLY <2>1
  <1>3. first \in Seq(Command) /\ first # << >> /\ h.cmds = first /\ h.waits \in Tickets
        /\ h.waits <= ctx.counter
    <2>1. 1 \in DOMAIN ctx.queue /\ h = ctx.queue[1] /\ h \in Submission
      BY <1>2
    <2>2. first # << >>
      BY <2>1 DEF Typed
    <2>3. h.waits <= ctx.counter
      BY DEF ComputeExecutes
    <2> HIDE DEF h
    <2> QED
      BY <2>1, <2>2, <2>3 DEF Submission
  <1>4. cmd \in Command /\ rest \in Seq(Command)
    BY <1>3
  <1>5. /\ left \in Submission /\ left.cmds = rest /\ left.waits = h.waits
    <2> HIDE DEF h, rest
    <2> QED
      BY <1>2, <1>4 DEF Submission
  <1>6. ctx' = [ctx EXCEPT !.queue = after, !.mem = found, !.strayed = lost]
    <2>1. ctx' = [ctx EXCEPT
                    !.queue = IF left.cmds = << >> THEN Tail(@) ELSE <<left>> \o Tail(@),
                    !.mem[cmd.buf] = IF cmd.write THEN cmd.value ELSE @,
                    !.strayed = @ \/ (~cmd.write /\ ctx.mem[cmd.buf] # cmd.value)]
      BY <1>3 DEF ComputeExecutes
    <2> HIDE DEF left, rest, cmd
    <2> QED
      BY <1>1, <1>5, <2>1 DEF Shaped
  <1>7. /\ rest = << >> => /\ DOMAIN after = 1 .. n - 1
                           /\ \A i \in 1 .. n - 1 : after[i] = ctx.queue[i + 1]
        /\ rest # << >> => /\ DOMAIN after = 1 .. n /\ after[1] = left
                           /\ \A i \in 2 .. n : after[i] = ctx.queue[i]
        /\ after \in Seq(Submission)
    <2> DEFINE tail == Tail(ctx.queue)
    <2>1. CASE rest = << >>
      BY <1>2, <2>1
    <2>2. CASE rest # << >>
      <3>1. after = <<left>> \o tail
        BY <2>2
      <3> HIDE DEF left, tail, after
      <3>2. /\ <<left>> \in Seq(Submission) /\ Len(<<left>>) = 1 /\ <<left>>[1] = left
            /\ tail \in Seq(Submission) /\ Len(tail) = n - 1
        BY <1>2, <1>5 DEF tail
      <3>3. after \in Seq(Submission) /\ Len(after) = n /\ after[1] = left
        BY <1>2, <3>1, <3>2
      <3>4. ASSUME NEW i \in 2 .. n PROVE after[i] = ctx.queue[i]
        <4>1. i - 1 \in 1 .. n - 1 /\ (i - 1) + 1 = i /\ i \in 1 .. 1 + Len(tail) /\ i > 1
          BY <1>2, <3>2
        <4>2. after[i] = tail[i - 1]
          BY <3>1, <3>2, <4>1, ConcatProperties
        <4> QED
          BY <1>2, <4>1, <4>2 DEF tail
      <3> QED
        BY <2>2, <3>3, <3>4
    <2> QED
      BY <2>1, <2>2
  <1>8. \A i \in DOMAIN after : after[i].cmds # << >>
    <2> SUFFICES ASSUME NEW i \in DOMAIN after PROVE after[i].cmds # << >>
      OBVIOUS
    <2>1. CASE rest = << >>
      <3> HIDE DEF after, rest
      <3>1. i \in 1 .. n - 1 /\ i + 1 \in 1 .. n /\ after[i] = ctx.queue[i + 1]
        BY <1>2, <1>7, <2>1
      <3> QED
        BY <1>2, <3>1 DEF Typed
    <2>2. CASE rest # << >>
      <3>1. i = 1 \/ i \in 2 .. n
        BY <1>2, <1>7, <2>2
      <3>2. after[1].cmds # << >>
        BY <1>5, <1>7, <2>2
      <3> HIDE DEF after, rest, n
      <3>3. \A k \in 2 .. n : after[k] = ctx.queue[k] /\ k \in DOMAIN ctx.queue
        BY <1>2, <1>7, <2>2
      <3> QED
        BY <3>1, <3>2, <3>3 DEF Typed
    <2> QED
      BY <2>1, <2>2
  <1>9. found \in Memory /\ lost \in BOOLEAN
    BY <1>1, <1>4 DEF Memory, Command
  <1> HIDE DEF after, found, lost
  <1>10. /\ Shaped(ctx') /\ ctx'.copies = ctx.copies /\ ctx'.cbs = ctx.cbs
         /\ ctx'.issued = ctx.issued /\ ctx'.latest = ctx.latest /\ ctx'.owing = ctx.owing
         /\ ctx'.value = ctx.value /\ ctx'.timeline = ctx.timeline /\ ctx'.rec = ctx.rec
         /\ ctx'.queue = after /\ ctx'.counter = ctx.counter /\ ctx'.armed = ctx.armed
         /\ ctx'.mem = found /\ ctx'.areas = ctx.areas /\ ctx'.blocked = ctx.blocked
         /\ ctx'.strayed = lost
    BY <1>1, <1>6 DEF Shaped
  <1>11. Typed(ctx')
    <2>1. ctx' \in Context
      BY <1>1, <1>7, <1>9, <1>10, FieldsContext
    <2> QED
      BY <1>8, <1>10, <2>1 DEF Typed
  <1>12. /\ rest = << >> => /\ DOMAIN ctx'.queue = 1 .. n - 1
                            /\ \A i \in 1 .. n - 1 : ctx'.queue[i] = ctx.queue[i + 1]
         /\ rest # << >> => /\ DOMAIN ctx'.queue = 1 .. n
                            /\ ctx'.queue[1].waits = ctx.queue[1].waits
                            /\ ctx'.queue[1].cmds = rest
                            /\ \A i \in 2 .. n : ctx'.queue[i] = ctx.queue[i]
    <2> HIDE DEF rest, left, h, n
    <2> QED
      BY <1>2, <1>5, <1>7, <1>10
  <1> HIDE DEF rest, left, h, first, cmd, n
  <1> QED
    BY <1>2, <1>3, <1>4, <1>10, <1>11, <1>12 DEF found, lost, n, first, cmd, rest

(* The transfer queue executes one copy.                                   *)
LEMMA CopyExecutesFields ==
  ASSUME Typed(ctx), NEW c \in ctx.copies, CopyExecutes(c)
  PROVE  /\ Typed(ctx') /\ ctx'.rec = ctx.rec /\ ctx'.queue = ctx.queue
         /\ ctx'.copies = ctx.copies \ {c} /\ ctx'.armed = ctx.armed
         /\ ctx'.mem = [ctx.mem EXCEPT ![c.to] = c.bytes]
         /\ ctx'.latest = ctx.latest /\ ctx'.owing = ctx.owing
         /\ ctx'.blocked = ctx.blocked /\ ctx'.strayed = ctx.strayed
  <1> DEFINE left == ctx.copies \ {c}
             done == {t \in ctx.issued : \A o \in left : o.value > t}
             S == done \cup {ctx.counter}
             max == CHOOSE t \in S : \A u \in S : u <= t
             found == [ctx.mem EXCEPT ![c.to] = c.bytes]
  <1>1. /\ ctx \in Context /\ Shaped(ctx) /\ ctx.rec \in Seq(Command)
        /\ ctx.copies \subseteq Copy /\ ctx.counter \in Tickets /\ ctx.value \in Tickets
        /\ ctx.armed \in Tickets /\ ctx.cbs \subseteq Tickets /\ ctx.timeline \in BOOLEAN
        /\ ctx.areas \subseteq Areas /\ ctx.blocked \in Blocked /\ ctx.issued \subseteq Tickets
        /\ ctx.latest \in Memory /\ ctx.owing \in [Buffers -> Tickets]
        /\ ctx.queue \in Seq(Submission) /\ ctx.mem \in Memory /\ ctx.strayed \in BOOLEAN
    BY ContextFields DEF Typed
  <1>2. max \in Tickets
    <2>1. S \subseteq 0 .. MaxCopies /\ S # {} /\ MaxCopies \in Nat
      BY <1>1, TimelineAssumption DEF Tickets
    <2> HIDE DEF S
    <2>2. \E t \in S : \A u \in S : u <= t
      BY <2>1, LargestExists
    <2>3. max \in S
      BY <2>2
    <2> QED
      BY <2>1, <2>3 DEF Tickets
  <1>3. found \in Memory
    BY <1>1 DEF Memory, Copy
  <1>4. ctx' = [ctx EXCEPT !.copies = left, !.mem = found, !.counter = max]
    <2>1. ctx' = [ctx EXCEPT !.copies = left, !.mem[c.to] = c.bytes, !.counter = max]
      BY DEF CopyExecutes
    <2> HIDE DEF left, max
    <2> QED
      BY <1>1, <2>1 DEF Shaped
  <1>5. left \subseteq Copy
    BY <1>1
  <1> HIDE DEF left, max, found
  <1>6. /\ Shaped(ctx') /\ ctx'.copies = left /\ ctx'.cbs = ctx.cbs
        /\ ctx'.issued = ctx.issued /\ ctx'.latest = ctx.latest /\ ctx'.owing = ctx.owing
        /\ ctx'.value = ctx.value /\ ctx'.timeline = ctx.timeline /\ ctx'.rec = ctx.rec
        /\ ctx'.queue = ctx.queue /\ ctx'.counter = max /\ ctx'.armed = ctx.armed
        /\ ctx'.mem = found /\ ctx'.areas = ctx.areas /\ ctx'.blocked = ctx.blocked
        /\ ctx'.strayed = ctx.strayed
    BY <1>1, <1>4 DEF Shaped
  <1>7. ctx' \in Context
    BY <1>1, <1>2, <1>3, <1>5, <1>6, FieldsContext
  <1>8. Typed(ctx')
    BY <1>6, <1>7 DEF Typed
  <1> QED
    BY <1>6, <1>8 DEF left, found

LEMMA TypedKept == Typed(ctx) /\ [Next]_ctx => Typed(ctx')
  <1>1. SUFFICES ASSUME Typed(ctx), [Next]_ctx PROVE Typed(ctx')
    OBVIOUS
  <1>2. ASSUME NEW b \in Buffers, DispatchReading(b) PROVE Typed(ctx')
    BY <1>1, <1>2, CommandsTyped, TypedRecorded, TimelineAssumption DEF DispatchReading
  <1>3. ASSUME NEW b \in Buffers, NEW v \in Values, DispatchWriting(b, v) PROVE Typed(ctx')
    BY <1>1, <1>3, CommandsTyped, TypedRecorded DEF DispatchWriting
  <1>4. CASE Sync
    BY <1>1, <1>4, TypedFlushed DEF Sync
  <1>5. ASSUME NEW b \in Buffers, NEW accepted \in BOOLEAN, Download(b, accepted)
        PROVE  Typed(ctx')
    BY <1>1, <1>5, CommandsTyped, TypedOneShot, TimelineAssumption DEF Download
  <1>6. ASSUME NEW b \in Buffers, NEW v \in Values, NEW accepted \in BOOLEAN,
               Upload(b, v, accepted) \/ CopyHere(b, v, accepted)
        PROVE  Typed(ctx')
    <2>1. PICK issued \in SUBSET Tickets :
            ctx' = Told(OneShot(ctx, Writing(b, v), accepted), Later(b, v, accepted), issued)
      BY <1>1, <1>6, UploadIsShot
    <2>2. Later(b, v, accepted) \in Memory /\ Writing(b, v) \in Command
      <3>1. ctx.latest \in Memory
        BY <1>1, ContextFields DEF Typed
      <3> QED
        BY <1>1, <3>1, CommandsTyped DEF Memory, Later
    <2> QED
      BY <1>1, <2>1, <2>2, ShotFields
  <1>7. ASSUME NEW a \in Areas, NEW b \in Buffers, NEW v \in Values, NEW accepted \in BOOLEAN,
               CopyFromStagingAsync(a, b, v, accepted)
        PROVE  Typed(ctx')
    BY <1>1, <1>6, <1>7, CopyQueuedFields DEF CopyFromStagingAsync
  <1>8. ASSUME NEW t \in Tickets, AwaitTransfer(t) \/ WaitTransfer(t) PROVE Typed(ctx')
    BY <1>1, <1>8, AwaitFields
  <1>9. CASE HostReturns \/ \E a \in Areas : DestroyStaging(a)
    BY <1>1, <1>9, QuietFields
  <1>10. CASE ComputeExecutes
    BY <1>1, <1>10, ComputeFields
  <1>11. ASSUME NEW c \in ctx.copies, CopyExecutes(c) PROVE Typed(ctx')
    BY <1>1, <1>11, CopyExecutesFields
  <1>12. CASE UNCHANGED ctx
    BY <1>1, <1>12 DEF Typed
  <1> QED
    BY <1>1, <1>2, <1>3, <1>4, <1>5, <1>6, <1>7, <1>8, <1>9, <1>10, <1>11, <1>12 DEF Next

-----------------------------------------------------------------------------
(* A context that holds its copies back still does with a larger wait      *)
(* armed, and once the host is not waiting for one of them.                *)
LEMMA OrderedQuietly ==
  ASSUME NEW c, Typed(c), Ordered(c), NEW d, Typed(d), Work(d) = Work(c),
         d.copies = c.copies, d.latest = c.latest, d.owing = c.owing, d.armed >= c.armed,
         \A cp \in c.copies : ~(c.blocked.on = "timeline" /\ c.blocked.upto >= cp.value)
  PROVE  Ordered(d)
  <1>1. d.rec = c.rec /\ d.queue = c.queue /\ d.mem = c.mem /\ d.strayed = c.strayed
    BY DEF Work
  <1>2. Flows(d)
    BY <1>1 DEF Ordered, Flows, Due
  <1>3. ASSUME NEW cp \in c.copies PROVE Held(d, cp)
    <2>1. Held(c, cp)
      BY DEF Ordered
    <2>2. CASE c.owing[cp.to] # 0
      <3>1. c.owing[cp.to] = cp.value /\ Untouched(c, cp.to)
        BY <2>1, <2>2 DEF Held
      <3>2. Untouched(d, cp.to)
        BY <1>1, <3>1 DEF Untouched
      <3> QED
        BY <2>2, <3>1, <3>2 DEF Held
    <2>3. CASE c.owing[cp.to] = 0
      <3>1. /\ \A i \in DOMAIN c.queue :
                 Without(c.queue[i].cmds, cp.to) \/ WaitsBy(c, i, cp.value)
            /\ c.armed >= cp.value \/ \E h \in DOMAIN c.queue : c.queue[h].waits >= cp.value
        BY <2>1, <2>3 DEF Held
      <3>2. c.armed \in Nat /\ d.armed \in Nat /\ cp.value \in Nat
        BY ContextFields, TicketsAreNat DEF Typed, Copy
      <3>3. d.armed >= cp.value \/ \E h \in DOMAIN d.queue : d.queue[h].waits >= cp.value
        BY <1>1, <3>1, <3>2
      <3>4. \A i \in DOMAIN d.queue : Without(d.queue[i].cmds, cp.to) \/ WaitsBy(d, i, cp.value)
        BY <1>1, <3>1 DEF WaitsBy
      <3> QED
        BY <2>3, <3>3, <3>4 DEF Held
    <2> QED
      BY <2>2, <2>3
  <1> QED
    BY <1>1, <1>2, <1>3 DEF Ordered

(* A submission of what is recorded, or of a command behind it, takes the  *)
(* armed wait with it: the copies not waited for yet touch nothing it      *)
(* names.                                                                  *)
LEMMA OrderedSubmission ==
  ASSUME NEW c, Typed(c), Ordered(c), NEW cmds \in Seq(Command), NEW d,
         d.queue = Append(c.queue, [waits |-> c.armed, cmds |-> cmds]), d.rec = << >>,
         d.copies = c.copies, d.mem = c.mem, d.owing = c.owing, d.strayed = c.strayed,
         d.latest \in Memory, c.blocked.on # "timeline",
         \A m \in Memory : Runs(c.rec, m, c.latest) => Runs(cmds, m, d.latest),
         \A cp \in c.copies : c.owing[cp.to] # 0 => Without(cmds, cp.to)
  PROVE  Ordered(d)
  <1> DEFINE n == Len(c.queue)
             row == [waits |-> c.armed, cmds |-> cmds]
  <1>1. c.queue \in Seq(Submission) /\ c.armed \in Tickets /\ c.copies \subseteq Copy
        /\ c.owing \in [Buffers -> Tickets]
    BY ContextFields DEF Typed
  <1>2. /\ n \in Nat /\ n + 1 \in Nat /\ Len(d.queue) = n + 1 /\ DOMAIN d.queue = 1 .. n + 1
        /\ DOMAIN c.queue = 1 .. n /\ d.queue[n + 1] = row
        /\ \A i \in 1 .. n : d.queue[i] = c.queue[i]
    <2> HIDE DEF row
    <2> QED
      BY <1>1 DEF row, Submission
  <1>3. row.waits = c.armed /\ row.cmds = cmds
    OBVIOUS
  <1> HIDE DEF n, row
  <1>4. Flows(d)
    <2>1. PICK W \in [1 .. n + 1 -> Memory] :
            /\ Due(c, W[1])
            /\ \A i \in 1 .. n : Runs(c.queue[i].cmds, W[i], W[i + 1])
            /\ Runs(c.rec, W[n + 1], c.latest)
      BY DEF Ordered, Flows, n
    <2> DEFINE V == [i \in 1 .. (n + 1) + 1 |-> IF i = (n + 1) + 1 THEN d.latest ELSE W[i]]
    <2>2. V \in [1 .. Len(d.queue) + 1 -> Memory]
      BY <1>2
    <2>3. V[1] = W[1] /\ V[Len(d.queue) + 1] = d.latest /\ V[n + 1] = W[n + 1]
      BY <1>2
    <2>4. Due(d, V[1])
      BY <2>1, <2>3 DEF Due
    <2>5. ASSUME NEW i \in 1 .. Len(d.queue) PROVE Runs(d.queue[i].cmds, V[i], V[i + 1])
      <3>1. CASE i = n + 1
        <4>1. Runs(cmds, W[n + 1], d.latest)
          BY <1>2, <2>1
        <4>2. d.queue[i].cmds = cmds /\ V[i] = W[n + 1] /\ V[i + 1] = d.latest
          BY <1>2, <1>3, <2>3, <3>1
        <4> QED
          BY <4>1, <4>2
      <3>2. CASE i # n + 1
        <4>1. i \in 1 .. n /\ d.queue[i] = c.queue[i] /\ V[i] = W[i] /\ V[i + 1] = W[i + 1]
          BY <1>2, <3>2
        <4> QED
          BY <2>1, <4>1
      <3> QED
        BY <3>1, <3>2
    <2>6. Runs(d.rec, V[Len(d.queue) + 1], d.latest)
      BY <2>3, RunsNothing
    <2> HIDE DEF V
    <2> QED
      BY <2>2, <2>4, <2>5, <2>6 DEF Flows
  <1>5. ASSUME NEW cp \in c.copies PROVE Held(d, cp)
    <2>1. Held(c, cp) /\ cp.to \in Buffers /\ cp.value \in Nat
      BY <1>1, TicketsAreNat DEF Ordered, Copy
    <2>2. CASE c.owing[cp.to] # 0
      <3>1. c.owing[cp.to] = cp.value /\ Untouched(c, cp.to) /\ Without(cmds, cp.to)
        BY <2>1, <2>2 DEF Held
      <3>2. \A i \in DOMAIN d.queue : i = n + 1 \/ i \in 1 .. n
        BY <1>2
      <3>3. \A i \in DOMAIN d.queue : Without(d.queue[i].cmds, cp.to)
        BY <1>2, <1>3, <3>1, <3>2 DEF Untouched
      <3>4. Without(d.rec, cp.to)
        BY DEF Without
      <3> QED
        BY <2>2, <3>1, <3>3, <3>4 DEF Held, Untouched
    <2>3. CASE c.owing[cp.to] = 0
      <3>1. /\ \A i \in DOMAIN c.queue :
                 Without(c.queue[i].cmds, cp.to) \/ WaitsBy(c, i, cp.value)
            /\ c.armed >= cp.value \/ \E h \in DOMAIN c.queue : c.queue[h].waits >= cp.value
        BY <2>1, <2>3 DEF Held
      <3>2. PICK h \in DOMAIN d.queue : d.queue[h].waits >= cp.value
        <4>1. CASE c.armed >= cp.value
          <5>1. n + 1 \in DOMAIN d.queue
            BY <1>2
          <5> QED
            BY <1>2, <1>3, <4>1, <5>1
        <4>2. CASE \E h \in DOMAIN c.queue : c.queue[h].waits >= cp.value
          BY <1>2, <4>2
        <4> QED
          BY <3>1, <4>1, <4>2
      <3>3. ASSUME NEW i \in DOMAIN d.queue
            PROVE  Without(d.queue[i].cmds, cp.to) \/ WaitsBy(d, i, cp.value)
        <4>1. CASE i = n + 1
          <5>1. h <= i
            BY <1>2, <4>1
          <5> QED
            BY <3>2, <5>1 DEF WaitsBy
        <4>2. CASE i # n + 1
          <5>1. i \in 1 .. n /\ d.queue[i] = c.queue[i]
            BY <1>2, <4>2
          <5>2. WaitsBy(c, i, cp.value) => WaitsBy(d, i, cp.value)
            BY <1>2 DEF WaitsBy
          <5> QED
            BY <1>2, <3>1, <5>1, <5>2
        <4> QED
          BY <4>1, <4>2
      <3> QED
        BY <2>3, <3>2, <3>3 DEF Held
    <2> QED
      BY <2>2, <2>3
  <1> QED
    BY <1>4, <1>5 DEF Ordered

(* flush by the program, which is not waiting for anything.                *)
LEMMA OrderedFlushed ==
  ASSUME NEW c, Typed(c), Ordered(c), c.blocked.on # "timeline", NEW left \in Nat
  PROVE  LET d == Flushed(c, left)
         IN  /\ Typed(d) /\ Ordered(d) /\ d.blocked.on # "timeline" /\ d.rec = << >>
             /\ d.latest = c.latest /\ d.owing = c.owing
  <1> DEFINE d == Flushed(c, left)
  <1>1. Typed(d) /\ Shaped(c) /\ c.rec \in Seq(Command) /\ c.armed \in Nat /\ c.latest \in Memory
    BY TypedFlushed, ContextFields, TicketsAreNat DEF Typed
  <1>2. /\ Shaped(d) /\ Beside(d) = Beside(c) /\ d.rec = << >>
        /\ d.blocked \in {Free, [on |-> "compute", upto |-> left]}
        /\ c.rec = << >> => d.queue = c.queue /\ d.armed = c.armed
        /\ c.rec # << >> =>
             /\ d.queue = Append(c.queue, [waits |-> c.armed, cmds |-> c.rec])
             /\ d.armed = 0
    BY <1>1, FlushedFields
  <1> HIDE DEF d
  <1>3. d.blocked.on # "timeline"
    BY <1>2 DEF Free
  <1>4. /\ d.copies = c.copies /\ d.mem = c.mem /\ d.latest = c.latest /\ d.owing = c.owing
        /\ d.strayed = c.strayed
    BY <1>2 DEF Beside
  <1>5. CASE c.rec # << >>
    <2>1. \A cp \in c.copies : c.owing[cp.to] # 0 => Without(c.rec, cp.to)
      BY DEF Ordered, Held, Untouched
    <2>2. Ordered(d)
      BY <1>1, <1>2, <1>4, <1>5, <2>1, OrderedSubmission
    <2> QED
      BY <1>1, <1>2, <1>3, <1>4, <2>2 DEF d
  <1>6. CASE c.rec = << >>
    <2>1. Work(d) = Work(c) /\ d.armed >= c.armed
      BY <1>1, <1>2, <1>4, <1>6 DEF Work
    <2>2. Ordered(d)
      BY <1>1, <1>4, <2>1, OrderedQuietly
    <2> QED
      BY <1>1, <1>2, <1>3, <1>4, <2>2 DEF d
  <1> QED
    BY <1>5, <1>6


(* A command is recorded on a buffer whose copy, if any, was awaited.      *)
LEMMA OrderedLonger ==
  ASSUME Typed(ctx), Ordered(ctx), Running, NEW cmd \in Command, ctx.owing[cmd.buf] = 0,
         Effect(ctx.latest, cmd, [ctx.latest EXCEPT ![cmd.buf] = cmd.value])
  PROVE  Ordered(Longer(cmd))
  <1> DEFINE r == Longer(cmd)
             n == Len(ctx.queue)
             later == [ctx.latest EXCEPT ![cmd.buf] = cmd.value]
  <1>1. /\ Typed(r) /\ r.rec = Append(ctx.rec, cmd) /\ r.latest = later
        /\ r.queue = ctx.queue /\ r.copies = ctx.copies /\ r.armed = ctx.armed
        /\ r.mem = ctx.mem /\ r.owing = ctx.owing /\ r.blocked = ctx.blocked
        /\ r.strayed = ctx.strayed
    BY LongerFields
  <1> HIDE DEF r, later
  <1>2. ctx.rec \in Seq(Command) /\ n \in Nat
    BY ContextFields DEF Typed
  <1>3. Flows(r)
    <2>1. PICK W \in [1 .. n + 1 -> Memory] :
            /\ Due(ctx, W[1])
            /\ \A i \in 1 .. n : Runs(ctx.queue[i].cmds, W[i], W[i + 1])
            /\ Runs(ctx.rec, W[n + 1], ctx.latest)
      BY DEF Ordered, Flows
    <2>2. ctx.latest \in Memory
      BY ContextFields DEF Typed
    <2>3. Runs(r.rec, W[n + 1], r.latest)
      BY <1>1, <1>2, <2>1, <2>2, RunsAppend DEF later
    <2>4. Due(r, W[1])
      BY <1>1, <2>1 DEF Due
    <2> QED
      BY <1>1, <2>1, <2>3, <2>4 DEF Flows
  <1>4. ASSUME NEW cp \in r.copies PROVE Held(r, cp)
    <2>1. Held(ctx, cp)
      BY <1>1 DEF Ordered
    <2>2. CASE ctx.owing[cp.to] # 0
      <3>1. ctx.owing[cp.to] = cp.value /\ Untouched(ctx, cp.to) /\ cmd.buf # cp.to
        BY <2>1, <2>2 DEF Held
      <3>2. Without(r.rec, cp.to)
        BY <1>1, <1>2, <3>1 DEF Without, Untouched
      <3> QED
        BY <1>1, <2>2, <3>1, <3>2 DEF Held, Untouched
    <2>3. CASE ctx.owing[cp.to] = 0
      <3>1. \A i, v : WaitsBy(ctx, i, v) => WaitsBy(r, i, v)
        BY <1>1 DEF WaitsBy
      <3> QED
        BY <1>1, <2>1, <2>3, <3>1 DEF Held
    <2> QED
      BY <2>2, <2>3
  <1> QED
    BY <1>1, <1>3, <1>4 DEF Ordered, r

LEMMA OrderedRecorded ==
  ASSUME Typed(ctx), Ordered(ctx), Running, NEW cmd \in Command, ctx.owing[cmd.buf] = 0,
         Effect(ctx.latest, cmd, [ctx.latest EXCEPT ![cmd.buf] = cmd.value]), Recorded(cmd)
  PROVE  Ordered(ctx')
  <1> DEFINE r == Longer(cmd)
  <1>1. Typed(r) /\ Ordered(r) /\ r.blocked = ctx.blocked
    BY OrderedLonger, LongerFields
  <1>2. ctx' = IF Len(r.rec) >= MaxItems THEN Flushed(r, 1) ELSE r
    BY DEF Recorded, Longer
  <1>3. ctx.blocked.on # "timeline"
    BY DEF Running, Free
  <1> HIDE DEF r
  <1>4. Ordered(Flushed(r, 1))
    BY <1>1, <1>3, OrderedFlushed
  <1> QED
    BY <1>1, <1>2, <1>4

(* A read leaves what the accepted calls left, a write its value.          *)
LEMMA CommandEffects ==
  ASSUME Typed(ctx), NEW b \in Buffers, NEW v \in Values
  PROVE  /\ LET cmd == Reading(b)
            IN  /\ cmd \in Command /\ cmd.buf = b /\ Effect(ctx.latest, cmd, ctx.latest)
                /\ Effect(ctx.latest, cmd, [ctx.latest EXCEPT ![cmd.buf] = cmd.value])
         /\ LET cmd == Writing(b, v)
            IN  /\ cmd \in Command /\ cmd.buf = b
                /\ Effect(ctx.latest, cmd, [ctx.latest EXCEPT ![b] = v])
                /\ Effect(ctx.latest, cmd, [ctx.latest EXCEPT ![cmd.buf] = cmd.value])
  <1>1. ctx.latest \in Memory
    BY ContextFields DEF Typed
  <1>2. [ctx.latest EXCEPT ![b] = ctx.latest[b]] = ctx.latest
    BY <1>1 DEF Memory
  <1> QED
    BY <1>2, CommandsTyped DEF Effect, Reading, Writing

(* A submission of its own, accepted or refused.                           *)
LEMMA OrderedOneShot ==
  ASSUME Typed(ctx), Ordered(ctx), Running, NEW cmd \in Command, ctx.owing[cmd.buf] = 0,
         NEW accepted \in BOOLEAN, ~accepted => Flushed(ctx, 0).armed = 0,
         NEW later \in Memory,
         accepted => Effect(ctx.latest, cmd, later), ~accepted => later = ctx.latest,
         NEW d, d.latest = later,
         LET o == OneShot(ctx, cmd, accepted)
         IN  /\ d.rec = o.rec /\ d.queue = o.queue /\ d.copies = o.copies
             /\ d.armed = o.armed /\ d.mem = o.mem /\ d.owing = o.owing
             /\ d.blocked = o.blocked /\ d.strayed = o.strayed,
         Typed(d)
  PROVE  Ordered(d)
  <1> DEFINE o == OneShot(ctx, cmd, accepted)
             f == Flushed(ctx, 0)
  <1>1. ctx.blocked.on # "timeline" /\ Shaped(ctx)
    BY ContextFields DEF Running, Free, Typed
  <1>2. /\ Typed(f) /\ Ordered(f) /\ f.blocked.on # "timeline" /\ f.rec = << >>
        /\ f.latest = ctx.latest /\ f.owing = ctx.owing
    BY <1>1, OrderedFlushed
  <1>3. Beside(f) = Beside(ctx)
    BY <1>1, FlushedFields
  <1>4. /\ d.rec = o.rec /\ d.queue = o.queue /\ d.copies = o.copies
        /\ d.armed = o.armed /\ d.mem = o.mem /\ d.owing = o.owing
        /\ d.blocked = o.blocked /\ d.strayed = o.strayed
    OBVIOUS
  <1>5. CASE accepted
    <2>1. /\ Beside(o) = Beside(ctx) /\ o.rec = << >>
          /\ o.queue = Append(f.queue, [waits |-> f.armed, cmds |-> <<cmd>>])
      BY <1>1, <1>5, OneShotAccepted
    <2> HIDE DEF o, f
    <2>2. /\ d.rec = << >> /\ d.queue = Append(f.queue, [waits |-> f.armed, cmds |-> <<cmd>>])
          /\ d.copies = f.copies /\ d.mem = f.mem /\ d.owing = f.owing /\ d.strayed = f.strayed
      BY <1>3, <1>4, <2>1 DEF Beside
    <2>3. ASSUME NEW m \in Memory, Runs(f.rec, m, f.latest) PROVE Runs(<<cmd>>, m, d.latest)
      <3>1. m = ctx.latest
        BY <1>2, <2>3, NothingRuns
      <3>2. Runs(<< >>, m, m) /\ << >> \in Seq(Command) /\ Append(<< >>, cmd) = <<cmd>>
        BY RunsNothing
      <3> QED
        BY <1>5, <3>1, <3>2, RunsAppend
    <2>4. \A cp \in f.copies : f.owing[cp.to] # 0 => Without(<<cmd>>, cp.to)
      BY <1>2 DEF Without
    <2>5. <<cmd>> \in Seq(Command)
      OBVIOUS
    <2> QED
      BY <1>2, <2>2, <2>3, <2>4, <2>5, OrderedSubmission
  <1>6. CASE ~accepted
    <2>1. /\ Shaped(o) /\ Beside(o) = Beside(ctx) /\ o.rec = << >> /\ o.queue = f.queue
          /\ o.armed = 0 /\ o.blocked = f.blocked
      <3>1. accepted = FALSE
        BY <1>6
      <3> QED
        BY <1>1, <3>1, OneShotRefused, ZenonT(60)
    <2>2. f.armed = 0
      BY <1>6
    <2> HIDE DEF o, f
    <2>3. /\ Work(d) = Work(f) /\ d.copies = f.copies /\ d.latest = f.latest
          /\ d.owing = f.owing /\ d.armed >= f.armed
      BY <1>2, <1>3, <1>4, <1>6, <2>1, <2>2 DEF Beside, Work
    <2> QED
      BY <1>2, <2>3, OrderedQuietly
  <1> QED
    BY <1>5, <1>6

-----------------------------------------------------------------------------
(* An await puts the wait for a copy in front of the next submission, or   *)
(* the host in front of everything else.                                   *)
LEMMA OrderedAwait ==
  ASSUME Typed(ctx), Ordered(ctx), NEW t \in Tickets, AwaitTransfer(t) \/ WaitTransfer(t)
  PROVE  Ordered(ctx')
  <1>1. /\ Typed(ctx') /\ Work(ctx') = Work(ctx)
        /\ ctx'.copies = ctx.copies /\ ctx'.latest = ctx.latest /\ ctx'.owing = NoLonger(t)
        /\ AwaitTransfer(t) => ctx'.armed = Armed(t) /\ ctx'.blocked = ctx.blocked
        /\ WaitTransfer(t) =>
             ctx'.armed = ctx.armed /\ ctx'.blocked = [on |-> "timeline", upto |-> t]
    BY AwaitFields
  <1>2. /\ ctx'.rec = ctx.rec /\ ctx'.queue = ctx.queue /\ ctx'.mem = ctx.mem
        /\ ctx'.strayed = ctx.strayed
    BY <1>1 DEF Work
  <1>3. /\ ctx.armed \in Nat /\ t \in Nat /\ ctx.copies \subseteq Copy
        /\ ctx.owing \in [Buffers -> Nat] /\ ctx.queue \in Seq(Submission)
    BY ContextFields, TicketsAreNat DEF Typed
  <1>4. ctx'.armed \in Nat /\ ctx'.armed >= ctx.armed /\ ctx.blocked.on # "timeline"
    <2>1. Armed(t) \in Nat /\ Armed(t) >= ctx.armed
      BY NoLongerTyped, TicketsAreNat
    <2>2. ctx.blocked = Free
      BY DEF AwaitTransfer, WaitTransfer, Running
    <2> QED
      BY <1>1, <1>3, <2>1, <2>2 DEF Free
  <1>5. ctx'.armed >= t \/ (ctx'.blocked.on = "timeline" /\ ctx'.blocked.upto >= t)
    BY <1>1, <1>3, NoLongerTyped
  <1>6. Flows(ctx')
    BY <1>1, <1>2 DEF Ordered, Flows, Due
  <1>7. ASSUME NEW cp \in ctx.copies PROVE Held(ctx', cp)
    <2>1. Held(ctx, cp) /\ cp.to \in Buffers /\ cp.value \in Nat
      BY <1>3, TicketsAreNat DEF Ordered, Copy
    <2>2. ctx'.owing[cp.to] = IF ctx.owing[cp.to] <= t THEN 0 ELSE ctx.owing[cp.to]
      BY <1>1, <2>1 DEF NoLonger
    <2>3. \A i, v : WaitsBy(ctx, i, v) => WaitsBy(ctx', i, v)
      BY <1>2 DEF WaitsBy
    <2>4. CASE ctx.owing[cp.to] # 0
      <3>1. ctx.owing[cp.to] = cp.value /\ Untouched(ctx, cp.to)
        BY <2>1, <2>4 DEF Held
      <3>2. Untouched(ctx', cp.to)
        BY <1>2, <3>1 DEF Untouched
      <3>3. CASE cp.value <= t
        <4>1. ctx'.owing[cp.to] = 0
          BY <2>2, <3>1, <3>3
        <4>2. \/ ctx'.armed >= cp.value
              \/ ctx'.blocked.on = "timeline" /\ ctx'.blocked.upto >= cp.value
          <5>1. CASE ctx'.armed >= t
            BY <1>3, <1>4, <2>1, <3>3, <5>1
          <5>2. CASE ctx'.blocked.on = "timeline" /\ ctx'.blocked.upto >= t
            <6>1. ctx'.blocked.upto \in Nat
              BY <1>1, ContextFields DEF Typed, Blocked
            <6> QED
              BY <1>3, <2>1, <3>3, <5>2, <6>1
          <5> QED
            BY <1>5, <5>1, <5>2
        <4> QED
          BY <3>2, <4>1, <4>2 DEF Held, Untouched
      <3>4. CASE ~(cp.value <= t)
        <4>1. ctx'.owing[cp.to] = cp.value
          BY <2>2, <3>1, <3>4
        <4> QED
          BY <2>4, <3>1, <3>2, <4>1 DEF Held
      <3> QED
        BY <3>3, <3>4
    <2>5. CASE ctx.owing[cp.to] = 0
      <3>1. /\ \A i \in DOMAIN ctx.queue :
                 Without(ctx.queue[i].cmds, cp.to) \/ WaitsBy(ctx, i, cp.value)
            /\ \/ ctx.armed >= cp.value
               \/ \E h \in DOMAIN ctx.queue : ctx.queue[h].waits >= cp.value
        BY <1>4, <2>1, <2>5 DEF Held
      <3>2. ctx'.owing[cp.to] = 0
        BY <1>3, <2>2, <2>5
      <3>3. ctx'.armed >= cp.value \/ \E h \in DOMAIN ctx'.queue : ctx'.queue[h].waits >= cp.value
        BY <1>2, <1>3, <1>4, <2>1, <3>1
      <3>4. \A i \in DOMAIN ctx'.queue :
              Without(ctx'.queue[i].cmds, cp.to) \/ WaitsBy(ctx', i, cp.value)
        BY <1>2, <2>3, <3>1
      <3> QED
        BY <3>2, <3>3, <3>4 DEF Held
    <2> QED
      BY <2>4, <2>5
  <1> QED
    BY <1>1, <1>2, <1>6, <1>7 DEF Ordered

LEMMA RunsWithout ==
  ASSUME NEW cmds \in Seq(Command), NEW m, NEW after, Runs(cmds, m, after),
         NEW b \in Buffers, NEW v \in Values, Without(cmds, b)
  PROVE  Runs(cmds, [m EXCEPT ![b] = v], [after EXCEPT ![b] = v])
  BY RunsBeside DEF Without

(* A copy goes to a buffer at rest, which holds what it brings once the    *)
(* copies have executed.                                                   *)
LEMMA OrderedCopyQueued ==
  ASSUME Typed(ctx), Ordered(ctx), NEW a \in Areas, NEW b \in Buffers, NEW v \in Values,
         NEW accepted \in BOOLEAN, AtRest(b), CopyQueued(a, b, v, accepted)
  PROVE  Ordered(ctx')
  <1> DEFINE t == ctx.value + 1
             copy == [value |-> t, from |-> a, to |-> b, bytes |-> v]
             n == Len(ctx.queue)
  <1>1. /\ Typed(ctx') /\ Work(ctx') = Work(ctx)
        /\ ctx'.armed = ctx.armed /\ ctx'.blocked = ctx.blocked /\ t \in Tickets /\ t # 0
        /\ accepted =>
             /\ ctx'.copies = ctx.copies \cup {copy}
             /\ ctx'.latest = [ctx.latest EXCEPT ![b] = v]
             /\ ctx'.owing = [ctx.owing EXCEPT ![b] = t]
        /\ ~accepted =>
             /\ ctx'.copies = ctx.copies /\ ctx'.latest = ctx.latest
             /\ ctx'.owing = ctx.owing
    BY CopyQueuedFields
  <1>2. copy.value = t /\ copy.to = b /\ copy.bytes = v
    OBVIOUS
  <1> HIDE DEF t, copy
  <1>3. /\ ctx'.rec = ctx.rec /\ ctx'.queue = ctx.queue /\ ctx'.mem = ctx.mem
        /\ ctx'.strayed = ctx.strayed
    BY <1>1 DEF Work
  <1>4. /\ ctx.copies \subseteq Copy /\ ctx.owing \in [Buffers -> Tickets]
        /\ ctx.queue \in Seq(Submission) /\ ctx.rec \in Seq(Command)
        /\ ctx.mem \in Memory /\ ctx.latest \in Memory /\ n \in Nat
    BY ContextFields DEF Typed
  <1>5. \A i, u : WaitsBy(ctx, i, u) => WaitsBy(ctx', i, u)
    BY <1>3 DEF WaitsBy
  <1>6. \A c : Untouched(ctx, c) => Untouched(ctx', c)
    BY <1>3 DEF Untouched
  <1>7. CASE ~accepted
    <2>1. Flows(ctx')
      BY <1>1, <1>3, <1>7 DEF Ordered, Flows, Due
    <2>2. ASSUME NEW cp \in ctx.copies PROVE Held(ctx', cp)
      <3>1. Held(ctx, cp)
        BY DEF Ordered
      <3> QED
        BY <1>1, <1>3, <1>5, <1>6, <1>7, <3>1 DEF Held
    <2> QED
      BY <1>1, <1>3, <1>7, <2>1, <2>2 DEF Ordered
  <1>8. CASE accepted
    <2>1. Untouched(ctx, b) /\ \A cp \in ctx.copies : cp.to # b
      BY DEF AtRest, Untouched, Without
    <2>2. Flows(ctx')
      <3>1. PICK W \in [1 .. n + 1 -> Memory] :
              /\ Due(ctx, W[1])
              /\ \A i \in 1 .. n : Runs(ctx.queue[i].cmds, W[i], W[i + 1])
              /\ Runs(ctx.rec, W[n + 1], ctx.latest)
        BY DEF Ordered, Flows
      <3> DEFINE V == [i \in 1 .. n + 1 |-> [W[i] EXCEPT ![b] = v]]
      <3>2. V \in [1 .. n + 1 -> Memory]
        BY DEF Memory
      <3>3. \A i \in 1 .. n + 1 : V[i] = [W[i] EXCEPT ![b] = v]
        OBVIOUS
      <3> HIDE DEF V
      <3>4. Due(ctx', V[1])
        <4>1. 1 \in 1 .. n + 1 /\ W[1] \in Memory /\ V[1] \in Memory
          BY <1>4, <3>2
        <4>2. V[1][b] = v /\ \A c \in Buffers : c # b => V[1][c] = W[1][c]
          BY <3>3, <4>1 DEF Memory
        <4>3. ASSUME NEW c \in Buffers, \A cp \in ctx'.copies : cp.to # c
              PROVE  V[1][c] = ctx'.mem[c]
          <5>1. c # b /\ \A cp \in ctx.copies : cp.to # c
            BY <1>1, <1>2, <1>8, <4>3
          <5> QED
            BY <1>3, <3>1, <4>2, <5>1 DEF Due
        <4>4. ASSUME NEW cp \in ctx'.copies PROVE V[1][cp.to] = cp.bytes
          <5>1. CASE cp = copy
            BY <1>2, <4>2, <5>1
          <5>2. CASE cp \in ctx.copies
            <6>1. cp.to # b /\ cp.to \in Buffers
              BY <1>4, <2>1, <5>2 DEF Copy
            <6> QED
              BY <3>1, <4>2, <5>2, <6>1 DEF Due
          <5> QED
            BY <1>1, <1>8, <5>1, <5>2
        <4> QED
          BY <4>1, <4>3, <4>4 DEF Due
      <3>5. ASSUME NEW i \in 1 .. n PROVE Runs(ctx.queue[i].cmds, V[i], V[i + 1])
        <4>1. i \in DOMAIN ctx.queue /\ i \in 1 .. n + 1 /\ i + 1 \in 1 .. n + 1
          BY <1>4
        <4>2. ctx.queue[i].cmds \in Seq(Command) /\ Without(ctx.queue[i].cmds, b)
          <5>1. ctx.queue[i] \in Submission
            BY <1>4, <4>1
          <5>2. Without(ctx.queue[i].cmds, b)
            BY <2>1, <4>1 DEF Untouched
          <5> QED
            BY <5>1, <5>2 DEF Submission
        <4>3. Runs(ctx.queue[i].cmds, W[i], W[i + 1])
          BY <3>1
        <4> QED
          <5>1. Runs(ctx.queue[i].cmds, [W[i] EXCEPT ![b] = v], [W[i + 1] EXCEPT ![b] = v])
            BY <4>2, <4>3, RunsWithout
          <5> QED
            BY <3>3, <4>1, <5>1
      <3>6. Runs(ctx.rec, V[n + 1], [ctx.latest EXCEPT ![b] = v])
        <4>1. n + 1 \in 1 .. n + 1 /\ Without(ctx.rec, b)
          BY <1>4, <2>1 DEF Untouched
        <4>2. Runs(ctx.rec, [W[n + 1] EXCEPT ![b] = v], [ctx.latest EXCEPT ![b] = v])
          BY <1>4, <3>1, <4>1, RunsWithout
        <4> QED
          BY <3>3, <4>1, <4>2
      <3> QED
        BY <1>1, <1>3, <1>8, <3>2, <3>4, <3>5, <3>6 DEF Flows
    <2>3. ASSUME NEW cp \in ctx'.copies PROVE Held(ctx', cp)
      <3>1. CASE cp = copy
        <4>1. ctx'.owing[cp.to] = cp.value /\ cp.value # 0 /\ cp.to = b
          BY <1>1, <1>2, <1>4, <1>8, <3>1
        <4> QED
          BY <1>6, <2>1, <4>1 DEF Held
      <3>2. CASE cp \in ctx.copies
        <4>1. Held(ctx, cp) /\ cp.to # b
          BY <2>1, <3>2 DEF Ordered
        <4>2. ctx'.owing[cp.to] = ctx.owing[cp.to]
          BY <1>1, <1>4, <1>8, <3>2, <4>1 DEF Copy
        <4> QED
          BY <1>1, <1>3, <1>5, <1>6, <4>1, <4>2 DEF Held
      <3> QED
        BY <1>1, <1>8, <3>1, <3>2
    <2> QED
      BY <1>3, <2>2, <2>3 DEF Ordered
  <1> QED
    BY <1>7, <1>8

(* destroy_staging; and the host, once what it waited for is reached, has  *)
(* no copy left that its wait held back.                                   *)
LEMMA OrderedQuiet ==
  ASSUME Timely, Typed(ctx), Ordered(ctx), HostReturns \/ \E a \in Areas : DestroyStaging(a)
  PROVE  Ordered(ctx')
  <1>1. /\ Typed(ctx') /\ Work(ctx') = Work(ctx)
        /\ ctx'.copies = ctx.copies /\ ctx'.latest = ctx.latest /\ ctx'.owing = ctx.owing
        /\ ctx'.armed = ctx.armed
    BY QuietFields
  <1>2. ctx.armed \in Nat /\ ctx.blocked.upto \in Nat /\ ctx.counter \in Nat
    BY ContextFields, TicketsAreNat DEF Typed, Blocked
  <1>3. ASSUME NEW cp \in ctx.copies
        PROVE  ~(ctx.blocked.on = "timeline" /\ ctx.blocked.upto >= cp.value)
    <2>1. cp.value \in Nat /\ ctx.counter < cp.value
      BY DEF Timely, Counting
    <2>2. ctx.blocked.on = "timeline" => ctx.counter >= ctx.blocked.upto
      BY DEF HostReturns, DestroyStaging, Running, Free
    <2> QED
      BY <1>2, <2>1, <2>2
  <1> QED
    BY <1>1, <1>2, <1>3, OrderedQuietly

(* A copy that executes leaves what was due.                               *)
LEMMA OrderedCopyExecutes ==
  ASSUME Typed(ctx), Ordered(ctx), NEW c \in ctx.copies, CopyExecutes(c)
  PROVE  Ordered(ctx')
  <1>1. /\ ctx'.rec = ctx.rec /\ ctx'.queue = ctx.queue
        /\ ctx'.copies = ctx.copies \ {c} /\ ctx'.armed = ctx.armed
        /\ ctx'.mem = [ctx.mem EXCEPT ![c.to] = c.bytes]
        /\ ctx'.latest = ctx.latest /\ ctx'.owing = ctx.owing
        /\ ctx'.blocked = ctx.blocked /\ ctx'.strayed = ctx.strayed
    BY CopyExecutesFields
  <1>2. ctx.mem \in Memory
    BY ContextFields DEF Typed
  <1>3. ASSUME NEW m, Due(ctx, m) PROVE Due(ctx', m)
    <2>1. ASSUME NEW b \in Buffers, \A cp \in ctx'.copies : cp.to # b PROVE m[b] = ctx'.mem[b]
      <3>1. CASE b = c.to
        BY <1>1, <1>2, <1>3, <3>1 DEF Due, Memory
      <3>2. CASE b # c.to
        <4>1. \A cp \in ctx.copies : cp.to # b
          BY <1>1, <2>1, <3>2
        <4> QED
          BY <1>1, <1>2, <1>3, <3>2, <4>1 DEF Due, Memory
      <3> QED
        BY <3>1, <3>2
    <2> QED
      BY <1>1, <1>3, <2>1 DEF Due
  <1>4. Flows(ctx')
    BY <1>1, <1>3 DEF Ordered, Flows
  <1>5. ASSUME NEW cp \in ctx.copies PROVE Held(ctx', cp)
    <2>1. Held(ctx, cp)
      BY DEF Ordered
    <2> QED
      BY <1>1, <2>1 DEF Held, Untouched, WaitsBy
  <1> QED
    BY <1>1, <1>4, <1>5 DEF Ordered


(* A command that no copy can disturb finds what is due, and leaves what   *)
(* the commands behind it find.                                            *)
LEMMA Executed ==
  ASSUME NEW m \in Memory, Due(ctx, m), ctx.mem \in Memory, NEW cmd \in Command,
         NEW mid \in Memory, Effect(m, cmd, mid), ~ctx.strayed,
         \A cp \in ctx.copies : cmd.buf # cp.to,
         ctx'.copies = ctx.copies,
         ctx'.mem = [ctx.mem EXCEPT ![cmd.buf] = IF cmd.write THEN cmd.value ELSE @],
         ctx'.strayed = (ctx.strayed \/ (~cmd.write /\ ctx.mem[cmd.buf] # cmd.value)),
         ctx.copies \subseteq Copy
  PROVE  Due(ctx', mid) /\ ~ctx'.strayed
  <1>1. cmd.buf \in Buffers /\ m[cmd.buf] = ctx.mem[cmd.buf]
    BY DEF Due, Command
  <1>2. CASE cmd.write
    <2>1. mid = [m EXCEPT ![cmd.buf] = cmd.value] /\ ctx'.mem = [ctx.mem EXCEPT ![cmd.buf] = cmd.value]
      BY <1>2 DEF Effect
    <2>2. \A cp \in ctx.copies : mid[cp.to] = cp.bytes
      BY <2>1 DEF Due, Memory, Copy
    <2>3. \A b \in Buffers : (\A cp \in ctx.copies : cp.to # b) => mid[b] = ctx'.mem[b]
      BY <2>1 DEF Due, Memory
    <2> QED
      BY <1>2, <2>2, <2>3 DEF Due
  <1>3. CASE ~cmd.write
    <2>1. mid = m /\ m[cmd.buf] = cmd.value /\ ctx'.mem = ctx.mem
      BY <1>3 DEF Effect, Memory
    <2> QED
      BY <1>1, <1>3, <2>1 DEF Due
  <1> QED
    BY <1>2, <1>3

(* What the compute queue executes names no buffer of a copy still to      *)
(* execute: it waited for less.                                            *)
LEMMA FirstIsClear ==
  ASSUME Timely, Typed(ctx), Ordered(ctx), ComputeExecutes, NEW cp \in ctx.copies
  PROVE  ~(ctx.queue[1].waits >= cp.value) /\ Without(ctx.queue[1].cmds, cp.to)
  <1>1. /\ Len(ctx.queue) >= 1 /\ Len(ctx.queue) \in Nat
        /\ ctx.queue[1].waits <= ctx.counter
    BY ComputeFields
  <1>2. 1 \in DOMAIN ctx.queue /\ ctx.queue \in Seq(Submission) /\ ctx.counter \in Nat
    <2>1. ctx.queue \in Seq(Submission) /\ ctx.counter \in Nat
      BY ContextFields, TicketsAreNat DEF Typed
    <2> QED
      BY <1>1, <2>1
  <1>3. ctx.queue[1].waits \in Nat /\ cp.value \in Nat /\ ctx.counter < cp.value
    <2>1. ctx.queue[1] \in Submission
      BY <1>2
    <2> QED
      BY <2>1, TicketsAreNat DEF Submission, Timely, Counting
  <1>4. ~(ctx.queue[1].waits >= cp.value)
    BY <1>1, <1>2, <1>3
  <1>5. Held(ctx, cp)
    BY DEF Ordered
  <1>6. CASE ctx.owing[cp.to] # 0
    BY <1>2, <1>4, <1>5, <1>6 DEF Held, Untouched
  <1>7. CASE ctx.owing[cp.to] = 0
    <2>1. Without(ctx.queue[1].cmds, cp.to) \/ WaitsBy(ctx, 1, cp.value)
      BY <1>2, <1>5, <1>7 DEF Held
    <2>2. ASSUME WaitsBy(ctx, 1, cp.value) PROVE FALSE
      <3>1. PICK h \in DOMAIN ctx.queue : h <= 1 /\ ctx.queue[h].waits >= cp.value
        BY <2>2 DEF WaitsBy
      <3>2. h = 1
        BY <1>2, <3>1
      <3> QED
        BY <1>4, <3>1, <3>2
    <2> QED
      BY <1>4, <2>1, <2>2
  <1> QED
    BY <1>6, <1>7

LEMMA OrderedCompute ==
  ASSUME Timely, Typed(ctx), Ordered(ctx), ComputeExecutes
  PROVE  Ordered(ctx')
  <1> DEFINE n == Len(ctx.queue)
             first == ctx.queue[1].cmds
             cmd == Head(first)
             rest == Tail(first)
  <1>1. /\ Typed(ctx') /\ n \in Nat /\ n >= 1
        /\ first \in Seq(Command) /\ first # << >> /\ cmd \in Command
        /\ ctx.queue[1].waits <= ctx.counter
        /\ ctx'.rec = ctx.rec /\ ctx'.copies = ctx.copies /\ ctx'.armed = ctx.armed
        /\ ctx'.latest = ctx.latest /\ ctx'.owing = ctx.owing
        /\ ctx'.blocked = ctx.blocked
        /\ ctx'.mem = [ctx.mem EXCEPT ![cmd.buf] = IF cmd.write THEN cmd.value ELSE @]
        /\ ctx'.strayed = (ctx.strayed \/ (~cmd.write /\ ctx.mem[cmd.buf] # cmd.value))
        /\ rest = << >> => /\ DOMAIN ctx'.queue = 1 .. n - 1
                           /\ \A i \in 1 .. n - 1 : ctx'.queue[i] = ctx.queue[i + 1]
        /\ rest # << >> => /\ DOMAIN ctx'.queue = 1 .. n
                           /\ ctx'.queue[1].waits = ctx.queue[1].waits
                           /\ ctx'.queue[1].cmds = rest
                           /\ \A i \in 2 .. n : ctx'.queue[i] = ctx.queue[i]
    BY ComputeFields
  <1>2. /\ DOMAIN ctx.queue = 1 .. n /\ 1 \in DOMAIN ctx.queue /\ ctx.mem \in Memory
        /\ ctx'.queue \in Seq(Submission) /\ ctx.copies \subseteq Copy
        /\ ctx.queue \in Seq(Submission)
    <2>1. Typed(ctx') /\ n \in Nat /\ n >= 1
      BY <1>1
    <2>2. /\ ctx.mem \in Memory /\ ctx.copies \subseteq Copy
          /\ ctx.queue \in Seq(Submission)
      BY ContextFields DEF Typed
    <2>3. ctx'.queue \in Seq(Submission)
      BY <2>1, ContextFields DEF Typed
    <2> QED
      BY <2>1, <2>2, <2>3
  <1>3. \A cp \in ctx.copies : ~(ctx.queue[1].waits >= cp.value) /\ Without(first, cp.to)
    BY FirstIsClear
  <1>4. /\ \A cp \in ctx.copies : cmd.buf # cp.to
        /\ \A b : Without(first, b) => Without(rest, b)
    <2>0. first \in Seq(Command) /\ first # << >>
      BY <1>1
    <2> HIDE DEF first
    <2>1. cmd = first[1] /\ 1 \in DOMAIN first
      BY <2>0
    <2>2. \A j \in DOMAIN rest : rest[j] = first[j + 1] /\ j + 1 \in DOMAIN first
      BY <2>0
    <2> HIDE DEF rest, cmd, first
    <2> QED
      BY <1>3, <2>1, <2>2 DEF Without
  <1>5. CASE rest = << >>
    <2> HIDE DEF n, first, cmd, rest
    <2>1. Len(ctx'.queue) = n - 1
      <3>1. DOMAIN ctx'.queue = 1 .. n - 1 /\ n \in Nat /\ n >= 1
        BY <1>1, <1>5
      <3>2. Len(ctx'.queue) \in Nat /\ DOMAIN ctx'.queue = 1 .. Len(ctx'.queue)
        BY <1>2
      <3> QED
        BY <3>1, <3>2
    <2>2. /\ ctx'.rec = ctx.rec
          /\ \A i \in 1 .. n - 1 : ctx'.queue[i] = ctx.queue[i + 1]
          /\ DOMAIN ctx'.queue = 1 .. n - 1
      BY <1>1, <1>5
    <2>3. Flows(ctx') /\ ~ctx'.strayed
      <3>1. PICK W \in [1 .. n + 1 -> Memory] :
              /\ Due(ctx, W[1])
              /\ \A i \in 1 .. n : Runs(ctx.queue[i].cmds, W[i], W[i + 1])
              /\ Runs(ctx.rec, W[n + 1], ctx.latest)
        BY DEF Ordered, Flows, n
      <3>2. 1 \in 1 .. n /\ W[1] \in Memory /\ 1 + 1 \in 1 .. n + 1
        BY <1>1
      <3>3. PICK mid \in Memory : Effect(W[1], cmd, mid) /\ Runs(rest, mid, W[1 + 1])
        <4>1. Runs(first, W[1], W[1 + 1])
          BY <3>1, <3>2 DEF first
        <4> QED
          BY <1>1, <4>1, RunsFirst DEF cmd, rest
      <3>4. W[1 + 1] = mid
        BY <1>5, <3>3, NothingRuns
      <3>5. Due(ctx', mid) /\ ~ctx'.strayed
        BY <1>1, <1>2, <1>4, <3>1, <3>2, <3>3, Executed DEF Ordered
      <3> DEFINE V == [i \in 1 .. n |-> W[i + 1]]
      <3>6. V \in [1 .. (n - 1) + 1 -> Memory]
        BY <1>1
      <3>7. V[1] = W[1 + 1] /\ V[(n - 1) + 1] = W[n + 1]
        BY <1>1
      <3>8. ASSUME NEW i \in 1 .. n - 1 PROVE Runs(ctx'.queue[i].cmds, V[i], V[i + 1])
        <4>1. i + 1 \in 1 .. n /\ V[i] = W[i + 1] /\ V[i + 1] = W[(i + 1) + 1]
          BY <1>1
        <4> QED
          BY <2>2, <3>1, <4>1
      <3> HIDE DEF V
      <3> QED
        BY <1>1, <2>1, <2>2, <3>1, <3>4, <3>5, <3>6, <3>7, <3>8 DEF Flows
    <2>4. ASSUME NEW cp \in ctx.copies PROVE Held(ctx', cp)
      <3>1. Held(ctx, cp) /\ ~(ctx.queue[1].waits >= cp.value)
        BY <1>3 DEF Ordered
      <3>2. \A i \in 1 .. n - 1 : i + 1 \in DOMAIN ctx.queue
        BY <1>1, <1>2
      <3>3. CASE ctx.owing[cp.to] # 0
        BY <1>1, <2>2, <3>1, <3>2, <3>3 DEF Held, Untouched
      <3>4. CASE ctx.owing[cp.to] = 0
        <4>1. ASSUME NEW i \in DOMAIN ctx.queue, WaitsBy(ctx, i, cp.value)
              PROVE  i - 1 \in 1 .. n - 1 /\ WaitsBy(ctx', i - 1, cp.value)
          <5>1. PICK h \in DOMAIN ctx.queue : h <= i /\ ctx.queue[h].waits >= cp.value
            BY <4>1 DEF WaitsBy
          <5>2. h # 1
            BY <3>1, <5>1
          <5>3. h - 1 \in 1 .. n - 1 /\ (h - 1) + 1 = h /\ h - 1 <= i - 1 /\ i - 1 \in 1 .. n - 1
            BY <1>1, <1>2, <5>1, <5>2
          <5>4. ctx'.queue[h - 1] = ctx.queue[h]
            BY <2>2, <5>3
          <5> QED
            BY <2>2, <5>1, <5>3, <5>4 DEF WaitsBy
        <4>2. ASSUME NEW i \in 1 .. n - 1
              PROVE  Without(ctx'.queue[i].cmds, cp.to) \/ WaitsBy(ctx', i, cp.value)
          <5>1. i + 1 \in DOMAIN ctx.queue /\ ctx'.queue[i] = ctx.queue[i + 1] /\ (i + 1) - 1 = i
            BY <2>2, <3>2
          <5>2. Without(ctx.queue[i + 1].cmds, cp.to) \/ WaitsBy(ctx, i + 1, cp.value)
            BY <3>1, <3>4, <5>1 DEF Held
          <5>3. WaitsBy(ctx, i + 1, cp.value) => WaitsBy(ctx', i, cp.value)
            BY <4>1, <5>1
          <5> QED
            BY <5>1, <5>2, <5>3
        <4>3. ASSUME NEW h \in DOMAIN ctx.queue, ctx.queue[h].waits >= cp.value
              PROVE  \E k \in DOMAIN ctx'.queue : ctx'.queue[k].waits >= cp.value
          <5>1. WaitsBy(ctx, h, cp.value)
            BY <1>2, <4>3 DEF WaitsBy
          <5> QED
            BY <4>1, <5>1 DEF WaitsBy
        <4> QED
          BY <1>1, <2>2, <3>1, <3>4, <4>2, <4>3 DEF Held
      <3> QED
        BY <3>3, <3>4
    <2> QED
      BY <1>1, <2>3, <2>4 DEF Ordered
  <1>6. CASE rest # << >>
    <2> HIDE DEF n, first, cmd, rest
    <2>1. Len(ctx'.queue) = n
      <3>1. DOMAIN ctx'.queue = 1 .. n /\ n \in Nat /\ n >= 1
        BY <1>1, <1>6
      <3>2. Len(ctx'.queue) \in Nat /\ DOMAIN ctx'.queue = 1 .. Len(ctx'.queue)
        BY <1>2
      <3> QED
        BY <3>1, <3>2
    <2>2. /\ ctx'.rec = ctx.rec /\ DOMAIN ctx'.queue = 1 .. n
          /\ ctx'.queue[1].waits = ctx.queue[1].waits /\ ctx'.queue[1].cmds = rest
          /\ \A i \in 2 .. n : ctx'.queue[i] = ctx.queue[i]
      BY <1>1, <1>6
    <2>3. Flows(ctx') /\ ~ctx'.strayed
      <3>1. PICK W \in [1 .. n + 1 -> Memory] :
              /\ Due(ctx, W[1])
              /\ \A i \in 1 .. n : Runs(ctx.queue[i].cmds, W[i], W[i + 1])
              /\ Runs(ctx.rec, W[n + 1], ctx.latest)
        BY DEF Ordered, Flows, n
      <3>2. 1 \in 1 .. n /\ W[1] \in Memory /\ 1 + 1 \in 1 .. n + 1
        BY <1>1
      <3>3. PICK mid \in Memory : Effect(W[1], cmd, mid) /\ Runs(rest, mid, W[1 + 1])
        <4>1. Runs(first, W[1], W[1 + 1])
          BY <3>1, <3>2 DEF first
        <4> QED
          BY <1>1, <4>1, RunsFirst DEF cmd, rest
      <3>4. Due(ctx', mid) /\ ~ctx'.strayed
        BY <1>1, <1>2, <1>4, <3>1, <3>2, <3>3, Executed DEF Ordered
      <3> DEFINE V == [i \in 1 .. n + 1 |-> IF i = 1 THEN mid ELSE W[i]]
      <3>5. V \in [1 .. n + 1 -> Memory]
        OBVIOUS
      <3>6. V[1] = mid /\ V[n + 1] = W[n + 1] /\ V[1 + 1] = W[1 + 1]
        BY <1>1
      <3>7. ASSUME NEW i \in 1 .. n PROVE Runs(ctx'.queue[i].cmds, V[i], V[i + 1])
        <4>1. CASE i = 1
          BY <2>2, <3>3, <3>6, <4>1
        <4>2. CASE i # 1
          <5>1. i \in 2 .. n /\ V[i] = W[i] /\ V[i + 1] = W[i + 1]
            BY <1>1, <4>2
          <5> QED
            BY <2>2, <3>1, <5>1
        <4> QED
          BY <4>1, <4>2
      <3> HIDE DEF V
      <3> QED
        BY <1>1, <2>1, <2>2, <3>1, <3>4, <3>5, <3>6, <3>7 DEF Flows
    <2>4. ASSUME NEW cp \in ctx.copies PROVE Held(ctx', cp)
      <3>1. Held(ctx, cp) /\ Without(first, cp.to) /\ Without(rest, cp.to)
        BY <1>3, <1>4 DEF Ordered
      <3>2. \A i \in DOMAIN ctx'.queue :
              /\ i \in DOMAIN ctx.queue /\ ctx'.queue[i].waits = ctx.queue[i].waits
              /\ Without(ctx.queue[i].cmds, cp.to) => Without(ctx'.queue[i].cmds, cp.to)
        <4> SUFFICES ASSUME NEW i \in DOMAIN ctx'.queue
                     PROVE  /\ i \in DOMAIN ctx.queue /\ ctx'.queue[i].waits = ctx.queue[i].waits
                            /\ Without(ctx.queue[i].cmds, cp.to) => Without(ctx'.queue[i].cmds, cp.to)
          OBVIOUS
        <4>1. i = 1 \/ i \in 2 .. n
          BY <1>1, <2>2
        <4> QED
          BY <1>2, <2>2, <3>1, <4>1
      <3>3. \A i, v : WaitsBy(ctx, i, v) => WaitsBy(ctx', i, v)
        BY <1>2, <2>2, <3>2 DEF WaitsBy
      <3>4. DOMAIN ctx'.queue = DOMAIN ctx.queue
        BY <1>2, <2>2
      <3>5. CASE ctx.owing[cp.to] # 0
        BY <1>1, <2>2, <3>1, <3>2, <3>5 DEF Held, Untouched
      <3>6. CASE ctx.owing[cp.to] = 0
        BY <1>1, <3>1, <3>2, <3>3, <3>4, <3>6 DEF Held
      <3> QED
        BY <3>5, <3>6
    <2> QED
      BY <1>1, <2>3, <2>4 DEF Ordered
  <1> QED
    BY <1>5, <1>6

-----------------------------------------------------------------------------
LEMMA OrderedInitially == Init => Ordered(ctx)
  <1>1. SUFFICES ASSUME Init PROVE Ordered(ctx)
    OBVIOUS
  <1>2. /\ ctx.queue = << >> /\ ctx.rec = << >> /\ ctx.copies = {} /\ ctx.mem = ctx.latest
        /\ ctx.strayed = FALSE
    BY <1>1 DEF Init
  <1>3. ctx.mem \in Memory
    BY <1>1, TypedInitially, ContextFields DEF Typed
  <1> DEFINE W == [i \in 1 .. 1 |-> ctx.mem]
  <1>4. Len(ctx.queue) = 0 /\ W \in [1 .. 0 + 1 -> Memory] /\ W[1] = ctx.mem /\ W[0 + 1] = ctx.mem
    BY <1>2, <1>3
  <1>5. Due(ctx, ctx.mem) /\ Runs(ctx.rec, ctx.mem, ctx.latest)
    BY <1>2, <1>3, RunsNothing DEF Due
  <1> HIDE DEF W
  <1>6. Flows(ctx)
    BY <1>2, <1>4, <1>5 DEF Flows
  <1> QED
    BY <1>2, <1>6 DEF Ordered

LEMMA OrderedKept ==
  ASSUME Settles, ~ArmedFails, Timely, Typed(ctx), Ordered(ctx), [Next]_ctx
  PROVE  Ordered(ctx')
  <1>1. ASSUME NEW b \in Buffers, DispatchReading(b) PROVE Ordered(ctx')
    <2>1. PICK v \in Values : TRUE
      BY TimelineAssumption
    <2> DEFINE cmd == Reading(b)
    <2>2. /\ cmd \in Command /\ cmd.buf = b
          /\ Effect(ctx.latest, cmd, [ctx.latest EXCEPT ![cmd.buf] = cmd.value])
      BY CommandEffects
    <2> HIDE DEF cmd
    <2>3. Running /\ ctx.owing[cmd.buf] = 0 /\ Recorded(cmd)
      BY <1>1, <2>2 DEF DispatchReading, Awaited, cmd
    <2> QED
      BY <2>2, <2>3, OrderedRecorded
  <1>2. ASSUME NEW b \in Buffers, NEW v \in Values, DispatchWriting(b, v) PROVE Ordered(ctx')
    <2> DEFINE cmd == Writing(b, v)
    <2>2. /\ cmd \in Command /\ cmd.buf = b
          /\ Effect(ctx.latest, cmd, [ctx.latest EXCEPT ![cmd.buf] = cmd.value])
      BY CommandEffects
    <2> HIDE DEF cmd
    <2>3. Running /\ ctx.owing[cmd.buf] = 0 /\ Recorded(cmd)
      BY <1>2, <2>2 DEF DispatchWriting, Awaited, cmd
    <2> QED
      BY <2>2, <2>3, OrderedRecorded
  <1>3. CASE Sync
    BY <1>3, OrderedFlushed DEF Sync, Running, Free
  <1>4. ASSUME NEW b \in Buffers, NEW accepted \in BOOLEAN, Download(b, accepted)
        PROVE  Ordered(ctx')
    <2>1. PICK v \in Values : TRUE
      BY TimelineAssumption
    <2> DEFINE cmd == Reading(b)
               o == OneShot(ctx, cmd, accepted)
    <2>2. cmd \in Command /\ cmd.buf = b /\ Effect(ctx.latest, cmd, ctx.latest)
      BY CommandEffects
    <2>3. /\ Running /\ ctx.owing[b] = 0 /\ ctx' = o
          /\ ~accepted => Flushed(ctx, 0).armed = 0
      BY <1>4 DEF Download, Awaited, MayRefuse
    <2>4. Typed(o) /\ Shaped(ctx) /\ ctx.latest \in Memory
      BY <2>2, TypedOneShot, ContextFields DEF Typed
    <2>5. o.latest = ctx.latest
      <3>1. Beside(o) = Beside(ctx)
        BY <2>4, OneShotAccepted, OneShotRefused
      <3> QED
        BY <3>1 DEF Beside
    <2> HIDE DEF cmd
    <2>6. Ordered(o)
      BY <2>2, <2>3, <2>4, <2>5, OrderedOneShot
    <2> HIDE DEF o
    <2> QED
      BY <2>3, <2>6
  <1>5. ASSUME NEW b \in Buffers, NEW v \in Values, NEW accepted \in BOOLEAN, Running,
               Awaited(b), ~accepted => MayRefuse,
               Upload(b, v, accepted) \/ CopyHere(b, v, accepted)
        PROVE  Ordered(ctx')
    <2> DEFINE cmd == Writing(b, v)
               later == Later(b, v, accepted)
               o == OneShot(ctx, cmd, accepted)
    <2>1. PICK issued \in SUBSET Tickets : ctx' = Told(o, later, issued)
      BY <1>5, UploadIsShot
    <2>2. cmd \in Command /\ cmd.buf = b /\ Effect(ctx.latest, cmd, [ctx.latest EXCEPT ![b] = v])
      BY CommandEffects
    <2>3. later \in Memory
      <3>1. ctx.latest \in Memory
        BY ContextFields DEF Typed
      <3> QED
        BY <3>1 DEF Memory, Later
    <2>4. ctx.owing[b] = 0 /\ (~accepted => Flushed(ctx, 0).armed = 0)
      BY <1>5 DEF Awaited, MayRefuse
    <2>5. /\ accepted => Effect(ctx.latest, cmd, later)
          /\ ~accepted => later = ctx.latest
      <3> HIDE DEF cmd
      <3> QED
        BY <2>2 DEF Later
    <2> DEFINE d == Told(o, later, issued)
    <2>6. /\ Typed(d) /\ d.latest = later
          /\ d.rec = o.rec /\ d.queue = o.queue /\ d.copies = o.copies
          /\ d.armed = o.armed /\ d.mem = o.mem /\ d.owing = o.owing
          /\ d.blocked = o.blocked /\ d.strayed = o.strayed
      <3> HIDE DEF cmd, later
      <3> QED
        BY <2>2, <2>3, ShotFields
    <2> HIDE DEF cmd, later, d
    <2>7. Ordered(d)
      BY <1>5, <2>2, <2>3, <2>4, <2>5, <2>6, OrderedOneShot
    <2> QED
      BY <2>1, <2>7 DEF d
  <1>6. ASSUME NEW b \in Buffers, NEW v \in Values, NEW accepted \in BOOLEAN,
               Upload(b, v, accepted)
        PROVE  Ordered(ctx')
    BY <1>5, <1>6 DEF Upload
  <1>7. ASSUME NEW a \in Areas, NEW b \in Buffers, NEW v \in Values, NEW accepted \in BOOLEAN,
               CopyFromStagingAsync(a, b, v, accepted)
        PROVE  Ordered(ctx')
    <2>1. CASE ctx.timeline
      BY <1>7, <2>1, OrderedCopyQueued DEF CopyFromStagingAsync
    <2>2. CASE ~ctx.timeline
      BY <1>5, <1>7, <2>2 DEF CopyFromStagingAsync
    <2> QED
      BY <2>1, <2>2
  <1>8. ASSUME NEW t \in Tickets, AwaitTransfer(t) \/ WaitTransfer(t) PROVE Ordered(ctx')
    BY <1>8, OrderedAwait
  <1>9. CASE HostReturns \/ \E a \in Areas : DestroyStaging(a)
    BY <1>9, OrderedQuiet
  <1>10. CASE ComputeExecutes
    BY <1>10, OrderedCompute
  <1>11. ASSUME NEW c \in ctx.copies, CopyExecutes(c) PROVE Ordered(ctx')
    BY <1>11, OrderedCopyExecutes
  <1>12. CASE UNCHANGED ctx
    BY <1>12
  <1> QED
    BY <1>1, <1>2, <1>3, <1>4, <1>6, <1>7, <1>8, <1>9, <1>10, <1>11, <1>12 DEF Next

LEMMA OrderedIsContract == Typed(ctx) /\ Ordered(ctx) => SameContract
  <1>1. SUFFICES ASSUME Typed(ctx), Ordered(ctx) PROVE SameContract
    OBVIOUS
  <1>2. ~ctx.strayed
    BY <1>1 DEF Ordered
  <1>3. ASSUME \A b \in Buffers : AtRest(b) PROVE ctx.mem = ctx.latest
    <2>1. /\ ctx.rec \in Seq(Command) /\ ctx.queue \in Seq(Submission)
          /\ ctx.copies \subseteq Copy /\ ctx.mem \in Memory /\ ctx.latest \in Memory
      BY <1>1, ContextFields DEF Typed
    <2>2. ctx.copies = {}
      BY <1>3, <2>1 DEF AtRest, Copy
    <2>3. ASSUME NEW cmds \in Seq(Command), \A b \in Buffers : Without(cmds, b)
          PROVE  cmds = << >>
      <3>1. \A j \in DOMAIN cmds : cmds[j].buf \in Buffers
        <4>1. \A j \in DOMAIN cmds : cmds[j] \in Command
          OBVIOUS
        <4> QED
          BY <4>1 DEF Command
      <3>2. DOMAIN cmds = {}
        BY <2>3, <3>1 DEF Without
      <3> QED
        BY <3>2
    <2>4. ctx.rec = << >>
      BY <1>3, <2>1, <2>3 DEF AtRest, Without
    <2>5. \A i \in DOMAIN ctx.queue : FALSE
      <3> SUFFICES ASSUME NEW i \in DOMAIN ctx.queue PROVE FALSE
        OBVIOUS
      <3>1. ctx.queue[i] \in Submission
        BY <2>1
      <3>2. ctx.queue[i].cmds \in Seq(Command) /\ ctx.queue[i].cmds # << >>
        BY <1>1, <3>1 DEF Typed, Submission
      <3>3. \A b \in Buffers : Without(ctx.queue[i].cmds, b)
        BY <1>3 DEF AtRest, Without
      <3> QED
        BY <2>3, <3>2, <3>3
    <2>6. Len(ctx.queue) = 0
      <3>1. Len(ctx.queue) \in Nat /\ DOMAIN ctx.queue = 1 .. Len(ctx.queue)
        BY <2>1
      <3>2. 1 \notin DOMAIN ctx.queue
        BY <2>5
      <3> QED
        BY <3>1, <3>2
    <2>7. PICK W \in [1 .. 0 + 1 -> Memory] :
            Due(ctx, W[1]) /\ Runs(ctx.rec, W[0 + 1], ctx.latest)
      BY <1>1, <2>6 DEF Ordered, Flows
    <2>8. ctx.latest = W[1] /\ W[1] \in Memory
      BY <2>4, <2>7, NothingRuns
    <2>9. \A b \in Buffers : W[1][b] = ctx.mem[b]
      BY <2>2, <2>7 DEF Due
    <2> QED
      BY <2>1, <2>8, <2>9 DEF Memory
  <1> QED
    BY <1>2, <1>3 DEF SameContract

(* The parts of the context have the types the code gives them, with any   *)
(* number of copies and commands: no ticket, armed wait or value of the    *)
(* semaphore goes past what was handed out (lib.rs:4517-4694).             *)
THEOREM TypeCorrect == Spec => []TypeOK
  <1>1. Typed(ctx) => TypeOK
    BY DEF Typed, TypeOK
  <1> DEFINE Inv == Typed(ctx)
  <1>2. Init => Inv
    BY TypedInitially
  <1>3. Inv /\ [Next]_ctx => Inv'
    BY TypedKept
  <1>4. Inv => TypeOK
    BY <1>1
  <1> HIDE DEF Inv
  <1> QED
    BY <1>2, <1>3, <1>4, PTL DEF Spec

(* A program that awaits what it copied sees its calls happen in the order *)
(* it made them, with a transfer queue or without (lib.rs:4553-4561): it   *)
(* lets a destination come to rest before it copies into it, and no        *)
(* submission that took an armed wait is refused.                          *)
THEOREM CallsInOrder ==
  ASSUME Settles, ~ArmedFails
  PROVE  Spec => []SameContract
  <1>1. Settles /\ ~ArmedFails
    OBVIOUS
  <1>2. Timely /\ Typed(ctx) /\ Ordered(ctx) /\ [Next]_ctx
          => Timely' /\ Typed(ctx') /\ Ordered(ctx')
    BY <1>1, TimelyKept, TypedKept, OrderedKept
  <1> DEFINE Inv == Timely /\ Typed(ctx) /\ Ordered(ctx)
  <1>3. Init => Inv
    BY TimelyInitially, TypedInitially, OrderedInitially
  <1>4. Inv /\ [Next]_ctx => Inv'
    BY <1>2
  <1>5. Inv => SameContract
    BY OrderedIsContract
  <1> HIDE DEF Inv
  <1> QED
    BY <1>3, <1>4, <1>5, PTL DEF Spec
=============================================================================
