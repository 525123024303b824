--------------------------- MODULE TransferTimeline ---------------------------
(***************************************************************************)
(* Copies on the dedicated transfer queue and the timeline semaphore that  *)
(* orders the compute queue after them (lib.rs: copy_from_staging_async,   *)
(* await_transfer, wait_transfer, destroy_staging).                        *)
(*                                                                         *)
(* The host records commands, submits them and waits; both queues of the   *)
(* device execute beside it.  The compute queue executes in order, each    *)
(* submission after the timeline value it waits for.  Copies execute in    *)
(* any order; the timeline reaches a value once every copy up to it has.   *)
(*                                                                         *)
(* A recorded command reads or writes one buffer; a read expects what the  *)
(* calls accepted before it, taken in order, left there.  The retirement   *)
(* of objects and the failures of a flush, which poison the context, are   *)
(* in module DeferredContext.                                              *)
(***************************************************************************)
EXTENDS Naturals, Sequences

CONSTANTS
  Buffers, Areas,
  Values,        (* contents of a buffer                                      *)
  Timelines,     (* whether there is a transfer queue and a timeline          *)
                 (* semaphore: a subset of BOOLEAN                            *)
  MaxItems,      (* max_recorded_items                                        *)
  MaxCopies,     (* bound: timeline values                                    *)
  ArmedFails,    (* a submission that took an armed wait may be refused, too  *)
  Settles        (* the program lets a buffer or an area come to rest before  *)
                 (* it copies into it or destroys it                          *)

ASSUME TimelineAssumption ==
  /\ Timelines \cup {ArmedFails, Settles} \subseteq BOOLEAN /\ Values # {}
  /\ MaxItems \in Nat \ {0} /\ MaxCopies \in Nat

VARIABLE ctx

Tickets == 0 .. MaxCopies        \* TransferTicket; 0 is always satisfied

Command == [write: BOOLEAN, buf: Buffers, value: Values]

(* What a submission waits for on the timeline, and its commands. *)
Submission == [waits: Tickets, cmds: Seq(Command)]

Copy == [value: Tickets, from: Areas, to: Buffers, bytes: Values]

(* What the host is blocked on: a number of compute submissions still      *)
(* executing, or a timeline value.                                         *)
Blocked == [on: {"nothing", "compute", "timeline"}, upto: Nat]

Context ==
  [timeline: BOOLEAN,               \* transfer.is_some()
   rec: Seq(Command),               \* the open batch
   queue: Seq(Submission),          \* submitted to the compute queue
   copies: SUBSET Copy,             \* submitted to the transfer queue
   counter: Tickets,                \* the semaphore's value
   value: Tickets,                  \* timeline_value
   armed: Tickets,                  \* pending_transfer_wait, 0 for none
   cbs: SUBSET Tickets,             \* pending_transfer_cbs
   mem: [Buffers -> Values],
   areas: SUBSET Areas,             \* not destroyed
   blocked: Blocked,
   issued: SUBSET Tickets,          \* history: tickets handed out
   latest: [Buffers -> Values],     \* history: by the accepted calls
   owing: [Buffers -> Tickets],     \* history: the last copy not awaited yet
   strayed: BOOLEAN]                \* history: a read got something else

-----------------------------------------------------------------------------
Free == [on |-> "nothing", upto |-> 0]

Running == ctx.blocked = Free

(* take_submission_sync: a submission takes the armed wait with it. *)
Submitted(c, cmds) ==
  [c EXCEPT !.queue = Append(@, [waits |-> c.armed, cmds |-> cmds]), !.armed = 0]

(* flush, leaving so many submissions executing. *)
Flushed(c, left) ==
  LET s == IF c.rec = << >> THEN c ELSE Submitted([c EXCEPT !.rec = << >>], c.rec)
  IN  [s EXCEPT !.blocked = IF Len(s.queue) <= left THEN Free
                            ELSE [on |-> "compute", upto |-> left]]

(* one_shot behind a completing flush.  A refused submission has taken the *)
(* armed wait all the same.                                                *)
OneShot(c, cmd, accepted) ==
  LET f == Flushed(c, 0)
  IN  IF accepted
      THEN [Submitted(f, <<cmd>>) EXCEPT !.blocked = [on |-> "compute", upto |-> 0]]
      ELSE [f EXCEPT !.armed = 0]

(* Mutant: the next copy's command buffer is freed with the completed ones. *)
ReapedEarly(c) == [c EXCEPT !.cbs = {v \in @ : v > c.counter + 1}]

(* reap_transfer_command_buffers. *)
Reaped(c) == [c EXCEPT !.cbs = {v \in @ : v > c.counter}]

Reading(b) == [write |-> FALSE, buf |-> b, value |-> ctx.latest[b]]
Writing(b, v) == [write |-> TRUE, buf |-> b, value |-> v]

(* The program has made the compute queue, or itself, wait for what it     *)
(* copied into b: "(eventually) await_transfer or wait_transfer".          *)
Awaited(b) == ctx.owing[b] = 0

AtRest(b) ==
  /\ \A i \in DOMAIN ctx.rec : ctx.rec[i].buf # b
  /\ \A i \in DOMAIN ctx.queue :
       \A j \in DOMAIN ctx.queue[i].cmds : ctx.queue[i].cmds[j].buf # b
  /\ \A c \in ctx.copies : c.to # b

(* What a buffer holds at first: no value is more telling than another. *)
Junk == CHOOSE v \in Values : TRUE

Init ==
  \E timeline \in Timelines :
    ctx = [timeline |-> timeline, rec |-> << >>, queue |-> << >>, copies |-> {},
           counter |-> 0, value |-> 0, armed |-> 0, cbs |-> {},
           mem |-> [b \in Buffers |-> Junk], areas |-> Areas, blocked |-> Free,
           issued |-> {}, latest |-> [b \in Buffers |-> Junk],
           owing |-> [b \in Buffers |-> 0], strayed |-> FALSE]

Recorded(cmd) ==
  LET r == [ctx EXCEPT !.rec = Append(@, cmd), !.latest[cmd.buf] = cmd.value]
  IN  ctx' = IF Len(r.rec) >= MaxItems THEN Flushed(r, 1) ELSE r

(* A dispatch that reads b, and one (or a recorded upload) that writes it. *)
DispatchReading(b) == Running /\ Awaited(b) /\ Recorded(Reading(b))
DispatchWriting(b, v) == Running /\ Awaited(b) /\ Recorded(Writing(b, v))

Sync == Running /\ ctx' = Flushed(ctx, 0)

(* A submission behind a completing flush may be refused.  The flush may   *)
(* have taken the armed wait before it.                                    *)
MayRefuse == ArmedFails \/ Flushed(ctx, 0).armed = 0

(* download_into and upload: a submission of their own. *)
Download(b, accepted) ==
  /\ Running /\ Awaited(b)
  /\ ~accepted => MayRefuse
  /\ ctx' = OneShot(ctx, Reading(b), accepted)

Upload(b, v, accepted) ==
  /\ Running /\ Awaited(b)
  /\ ~accepted => MayRefuse
  /\ ctx' = [OneShot(ctx, Writing(b, v), accepted) EXCEPT
               !.latest[b] = IF accepted THEN v ELSE @]

(* Without a timeline the copy is a submission of its own, and done when   *)
(* the call returns.                                                       *)
CopyHere(b, v, accepted) ==
  ctx' = [OneShot(ctx, Writing(b, v), accepted) EXCEPT
            !.latest[b] = IF accepted THEN v ELSE @,
            !.issued = IF accepted THEN @ \cup {0} ELSE @]

(* Mutant: a refused copy hands out its ticket. *)
CopyQueuedAnyway(a, b, v, accepted) ==
  /\ ctx.value < MaxCopies
  /\ LET t == ctx.value + 1
         r == [Reaped(ctx) EXCEPT !.value = t, !.issued = @ \cup {t}]
     IN  ctx' = IF accepted
                THEN [r EXCEPT
                        !.copies = @ \cup {[value |-> t, from |-> a, to |-> b,
                                            bytes |-> v]},
                        !.cbs = @ \cup {t}, !.latest[b] = v, !.owing[b] = t]
                ELSE r

(* With one it goes to the transfer queue.  A refused submission has spent *)
(* its timeline value, and nobody has a ticket for it.                     *)
CopyQueued(a, b, v, accepted) ==
  /\ ctx.value < MaxCopies
  /\ LET t == ctx.value + 1
         r == [Reaped(ctx) EXCEPT !.value = t]
     IN  ctx' = IF accepted
                THEN [r EXCEPT
                        !.copies = @ \cup {[value |-> t, from |-> a, to |-> b,
                                            bytes |-> v]},
                        !.cbs = @ \cup {t}, !.issued = @ \cup {t},
                        !.latest[b] = v, !.owing[b] = t]
                ELSE r

CopyFromStagingAsync(a, b, v, accepted) ==
  /\ Running /\ a \in ctx.areas /\ Awaited(b)
  /\ Settles /\ ctx.timeline => AtRest(b)
  /\ ~accepted /\ ~ctx.timeline => MayRefuse
  /\ IF ctx.timeline THEN CopyQueued(a, b, v, accepted) ELSE CopyHere(b, v, accepted)

NoLonger(t) == [b \in Buffers |-> IF ctx.owing[b] <= t THEN 0 ELSE ctx.owing[b]]

(* Mutant: the last await wins. *)
ArmedLast(t) == t

(* The larger of the armed value and the ticket's: waiting for it waits    *)
(* for both.                                                               *)
Armed(t) == IF ctx.armed > t THEN ctx.armed ELSE t

AwaitTransfer(t) ==
  /\ Running /\ t \in ctx.issued
  /\ ctx' = [ctx EXCEPT !.armed = Armed(t), !.owing = NoLonger(t)]

WaitTransfer(t) ==
  /\ Running /\ t \in ctx.issued
  /\ ctx' = [ctx EXCEPT !.blocked = [on |-> "timeline", upto |-> t],
                        !.owing = NoLonger(t)]

(* destroy_staging: at once. *)
DestroyStaging(a) ==
  /\ Running /\ a \in ctx.areas
  /\ Settles => \A c \in ctx.copies : c.from # a
  /\ ctx' = [ctx EXCEPT !.areas = @ \ {a}]

(* A blocked call returns; wait_transfer reaps then. *)
HostReturns ==
  \/ /\ ctx.blocked.on = "compute" /\ Len(ctx.queue) <= ctx.blocked.upto
     /\ ctx' = [ctx EXCEPT !.blocked = Free]
  \/ /\ ctx.blocked.on = "timeline" /\ ctx.counter >= ctx.blocked.upto
     /\ ctx' = [Reaped(ctx) EXCEPT !.blocked = Free]

(* The compute queue executes one command. *)
ComputeExecutes ==
  /\ ctx.queue # << >> /\ Head(ctx.queue).waits <= ctx.counter
  /\ LET h == Head(ctx.queue)
         cmd == Head(h.cmds)
         rest == [h EXCEPT !.cmds = Tail(@)]
     IN  ctx' = [ctx EXCEPT
                   !.queue = IF rest.cmds = << >> THEN Tail(@)
                             ELSE <<rest>> \o Tail(@),
                   !.mem[cmd.buf] = IF cmd.write THEN cmd.value ELSE @,
                   !.strayed = @ \/ (~cmd.write /\ ctx.mem[cmd.buf] # cmd.value)]

(* The transfer queue executes one copy, and the timeline follows. *)
CopyExecutes(c) ==
  LET left == ctx.copies \ {c}
      done == {t \in ctx.issued : \A o \in left : o.value > t}
  IN  /\ c \in ctx.copies
      /\ ctx' = [ctx EXCEPT
                   !.copies = left, !.mem[c.to] = c.bytes,
                   !.counter = CHOOSE t \in done \cup {@} :
                                 \A u \in done \cup {@} : u <= t]

Next ==
  \/ \E b \in Buffers : DispatchReading(b)
  \/ \E b \in Buffers, v \in Values : DispatchWriting(b, v)
  \/ Sync
  \/ \E b \in Buffers, accepted \in BOOLEAN : Download(b, accepted)
  \/ \E b \in Buffers, v \in Values, accepted \in BOOLEAN : Upload(b, v, accepted)
  \/ \E a \in Areas, b \in Buffers, v \in Values, accepted \in BOOLEAN :
       CopyFromStagingAsync(a, b, v, accepted)
  \/ \E t \in Tickets : AwaitTransfer(t) \/ WaitTransfer(t)
  \/ \E a \in Areas : DestroyStaging(a)
  \/ HostReturns
  \/ ComputeExecutes
  \/ \E c \in ctx.copies : CopyExecutes(c)

Spec == Init /\ [][Next]_ctx

(* Each queue of the device goes on executing what it was given, and a     *)
(* thread whose wait is over is scheduled again.                           *)
FairSpec ==
  /\ Spec
  /\ WF_ctx(ComputeExecutes)
  /\ WF_ctx(\E c \in ctx.copies : CopyExecutes(c))
  /\ WF_ctx(HostReturns)
-----------------------------------------------------------------------------
(* The parts of the context have the types the code gives them. *)
TypeOK == ctx \in Context

(* With a transfer queue or without, a program that awaits what it copied  *)
(* sees its calls happen in the order it made them: "the fallback is not a *)
(* different contract, it is the same one" (lib.rs:4553-4561).             *)
SameContract ==
  /\ ~ctx.strayed
  /\ (\A b \in Buffers : AtRest(b)) => ctx.mem = ctx.latest

(* No command buffer of a copy is freed while the transfer queue executes  *)
(* it (lib.rs:4524-4530).                                                  *)
CommandBuffersOutlive == {c.value : c \in ctx.copies} \subseteq ctx.cbs

(* lib.rs:4698-4701: a recorded copy names its area until its batch has    *)
(* completed; "nothing else records a Staging".                            *)
AreasOutliveCopies == \A c \in ctx.copies : c.from \in ctx.areas

(* Every ticket handed out is reached, and no call blocks for ever: a wait *)
(* is only ever for a value some copy signals (lib.rs:4673-4679).          *)
TicketsReached ==
  /\ \A t \in Tickets : t \in ctx.issued ~> ctx.counter >= t
  /\ ~Running ~> Running
=============================================================================
