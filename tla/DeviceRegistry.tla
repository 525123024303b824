---------------------------- MODULE DeviceRegistry ----------------------------
(***************************************************************************)
(* The C ABI's devices and handles under many threads (ffi.rs): the        *)
(* process-wide registry, the lock and the closed flag of each device, and *)
(* the reference counts that decide when a device's Vulkan objects go.     *)
(*                                                                         *)
(* An entry looks its device up under the registry lock, takes the         *)
(* device's lock, acts, and drops its reference on the way out.  What it   *)
(* does to the Context under the lock is module DeferredContext; here it   *)
(* resolves handles, changes the table of live buffers, and records work   *)
(* whose flushes may fail.  Staging areas are kept in a table of their own *)
(* by entries of the same form.                                            *)
(*                                                                         *)
(* Handles keep their width: a device id and a sequence number are halves  *)
(* of a word, packed into one of twice the width.                          *)
(***************************************************************************)
EXTENDS Naturals

CONSTANTS
  Threads,
  Nothing,      (* no owner, no lock holder                                  *)
  Half,         (* the values of half a word: 2^32                           *)
  MaxCalls,     (* bound: calls the program makes                            *)
  LooseUploads, (* recorded uploads may be all a batch holds at a close      *)
  LateFailures, (* the batch in flight may fail when nobody waits but a drop *)
  Stuck         (* devices whose Vulkan calls may never return               *)

ASSUME WidthAssumption == Half \in Nat /\ Half >= 2 /\ MaxCalls \in Nat
ASSUME ProgramAssumption ==
  {LooseUploads, LateFailures} \subseteq BOOLEAN /\ Nothing \notin Threads \cup (1 .. Half)

Word == 0 .. Half * Half - 1
DeviceIds == 1 .. Half               \* next_device, the first refused one too
Sequences == 1 .. Half - 1

VARIABLES
  registry,     (* [ids, next]: the devices open and next_device             *)
  devices,      (* what the AckDevice of each id holds                       *)
  threads,      (* each thread's call                                        *)
  issued        (* history: the device that handed out each buffer handle    *)

vars == <<registry, devices, threads, issued>>

(* buffer_handle: the device id shifted by half a word, and the sequence.  *)
BufferHandle(id, seq) == ((id * Half) % (Half * Half)) + seq

(* split_buffer_handle. *)
Owner(h) == h \div Half
Sequence(h) == h % Half

Requests ==
  [op: {"open"}] \cup [op: {"close", "alloc"}, dev: DeviceIds]
    \cup [op: {"free", "use"}, dev: DeviceIds, buf: Word]

(* Inner and its lock.  `work' is what the deferred batch holds: recorded  *)
(* items, and uploads, which are not items; `flying' a batch submitted and *)
(* not waited for yet.                                                     *)
Device == [closed: BOOLEAN, buffers: SUBSET Sequences, next: 1 .. Half - 1,
           lock: Threads \cup {Nothing}, work: SUBSET {"items", "uploads"},
           flying: BOOLEAN, poisoned: BOOLEAN, dropped: BOOLEAN,
           lost: BOOLEAN]     \* history: accepted work failed or never ran

NewDevice == [closed |-> FALSE, buffers |-> {}, next |-> 1, lock |-> Nothing,
              work |-> {}, flying |-> FALSE, poisoned |-> FALSE,
              dropped |-> FALSE, lost |-> FALSE]

(* Where a call stands, and the device it holds a reference to, 0 if none. *)
Idle == [pc |-> "idle", arc |-> 0]

Calling(r) == [pc |-> "called", arc |-> 0, req |-> r]

-----------------------------------------------------------------------------
Init ==
  /\ registry = [ids |-> {}, next |-> 1, calls |-> 0]
  /\ devices = [d \in DeviceIds |-> NewDevice]
  /\ threads = [t \in Threads |-> Idle]
  /\ issued = [h \in Word |-> Nothing]

(* The program calls an entry, with handles it was given: of any device,   *)
(* freed or not, after a close or not.                                     *)
Call(t, r) ==
  /\ threads[t] = Idle /\ registry.calls < MaxCalls
  /\ r.op # "open" => r.dev < registry.next
  /\ r.op \in {"free", "use"} => issued[r.buf] # Nothing
  /\ threads' = [threads EXCEPT ![t] = Calling(r)]
  /\ registry' = [registry EXCEPT !.calls = @ + 1]
  /\ UNCHANGED <<devices, issued>>

Moves(t, pc) == threads' = [threads EXCEPT ![t].pc = pc]

(* The call has its answer: a code, the handle a success hands out, and    *)
(* whether it left a message in ack_last_error.                            *)
Answered(t, pc, arc, code, id, error) ==
  threads' = [threads EXCEPT ![t] = [pc |-> pc, arc |-> arc, code |-> code,
                                     id |-> id, error |-> error]]

Answers(t, pc, arc, code) == Answered(t, pc, arc, code, 0, code # "ok")

(* Mutant: the id after the last is handed out. *)
OpenOneMore(t) ==
  /\ threads[t].pc = "called" /\ threads[t].req.op = "open"
  /\ \/ /\ registry.next <= Half
        /\ registry' = [registry EXCEPT !.ids = @ \cup {registry.next}, !.next = @ + 1]
        /\ Answered(t, "leaving", 0, "ok", registry.next, FALSE)
     \/ Answers(t, "leaving", 0, "failed") /\ UNCHANGED registry
  /\ UNCHANGED <<devices, issued>>

(* ack_open, from the registry lock on: the context is built before it, or *)
(* could not be.                                                           *)
Open(t) ==
  /\ threads[t].pc = "called" /\ threads[t].req.op = "open"
  /\ \/ /\ registry.next <= Half - 1
        /\ registry' = [registry EXCEPT !.ids = @ \cup {registry.next}, !.next = @ + 1]
        /\ Answered(t, "leaving", 0, "ok", registry.next, FALSE)
     \/ Answers(t, "leaving", 0, "failed") /\ UNCHANGED registry
  /\ UNCHANGED <<devices, issued>>

(* Mutant: the registry lock is held until the device's lock is had. *)
LookupInsideRegistry(t) ==
  /\ threads[t].pc = "called" /\ threads[t].req.op # "open"
  /\ \A d \in DeviceIds : devices[d].lock = Nothing
  /\ IF threads[t].req.dev \in registry.ids
     THEN threads' = [threads EXCEPT ![t].pc = "fetched", ![t].arc = threads[t].req.dev]
     ELSE Answers(t, "leaving", 0, "closed")
  /\ UNCHANGED <<registry, devices, issued>>

(* device(): found and referenced, or refused. *)
Lookup(t) ==
  /\ threads[t].pc = "called" /\ threads[t].req.op # "open"
  /\ IF threads[t].req.dev \in registry.ids
     THEN threads' = [threads EXCEPT ![t].pc = "fetched",
                                     ![t].arc = threads[t].req.dev]
     ELSE Answers(t, "leaving", 0, "closed")
  /\ UNCHANGED <<registry, devices, issued>>

(* Mutant: the flag is not read again under the lock. *)
EnterUnchecked(t) ==
  LET d == threads[t].arc
  IN  /\ threads[t].pc = "fetched" /\ devices[d].lock = Nothing
      /\ devices' = [devices EXCEPT ![d].lock = t]
      /\ Moves(t, "inside")
      /\ UNCHANGED <<registry, issued>>

(* inner(): the device's lock, or a refusal if it has been closed since. *)
Enter(t) ==
  LET d == threads[t].arc
  IN  /\ threads[t].pc = "fetched" /\ devices[d].lock = Nothing
      /\ IF devices[d].closed
         THEN Answers(t, "leaving", d, "closed") /\ UNCHANGED devices
         ELSE /\ devices' = [devices EXCEPT ![d].lock = t]
              /\ Moves(t, "inside")
      /\ UNCHANGED <<registry, issued>>

Inside(t, op) ==
  /\ threads[t].pc = "inside" /\ threads[t].req.op = op
  /\ UNCHANGED registry

Arc(t) == threads[t].arc
Unlocked(d) == [devices[d] EXCEPT !.lock = Nothing]

Leaves(t, code) == Answers(t, "leaving", Arc(t), code)

(* ack_buffer_alloc: the last sequence number is never handed out, and a   *)
(* poisoned context makes no buffer.                                       *)
Alloc(t) ==
  LET d == Arc(t)
      seq == devices[d].next
      h == BufferHandle(d, seq)
  IN  /\ Inside(t, "alloc")
      /\ \/ /\ seq # Half - 1 /\ ~devices[d].poisoned
            /\ devices' = [devices EXCEPT ![d] =
                 [Unlocked(d) EXCEPT !.next = @ + 1, !.buffers = @ \cup {seq}]]
            /\ issued' = [issued EXCEPT ![h] = d]
            /\ Answered(t, "leaving", d, "ok", h, FALSE)
         \/ /\ devices' = [devices EXCEPT ![d] = Unlocked(d)]
            /\ Leaves(t, "failed") /\ UNCHANGED issued

(* buffer_of, when it refuses. *)
Resolved(t) ==
  /\ Owner(threads[t].req.buf) = Arc(t)
  /\ Sequence(threads[t].req.buf) \in devices[Arc(t)].buffers

Refused(t) ==
  Leaves(t, IF Owner(threads[t].req.buf) # Arc(t) THEN "foreign" ELSE "freed")

(* What a flush leaves of D.  One that completes has waited for all there  *)
(* was, or found the device idle after a wait that failed; another leaves  *)
(* its batch in flight.                                                    *)
SeenThrough(D) == [D EXCEPT !.work = {}, !.flying = FALSE]

Submitted(D) ==
  {SeenThrough(D), [D EXCEPT !.work = {}, !.flying = D.work # {} \/ D.flying]}

(* lose_batch, or a wait after which nothing is known: the context refuses *)
(* every later call, and nobody will wait for what was accepted.           *)
Poisoned(D) ==
  [SeenThrough(D) EXCEPT !.poisoned = TRUE, !.lost = @ \/ D.work # {} \/ D.flying]

(* The call leaves the lock and its device as one of Ds. *)
Becomes(t, Ds) == \E D \in Ds : devices' = [devices EXCEPT ![Arc(t)] = D]

(* ack_buffer_free: the handle is consumed, whatever becomes of the        *)
(* buffer; past the retirement budget the batch is flushed, and a failure  *)
(* is this call's answer.                                                  *)
Free(t) ==
  /\ Inside(t, "free") /\ UNCHANGED issued
  /\ LET D == Unlocked(Arc(t))
         freed == [D EXCEPT !.buffers = @ \ {Sequence(threads[t].req.buf)}]
     IN  CASE ~Resolved(t)  -> Refused(t) /\ Becomes(t, {D})
           [] Resolved(t) /\ D.poisoned ->
                Becomes(t, {freed}) /\ (Leaves(t, "ok") \/ Leaves(t, "failed"))
           [] OTHER ->
                \/ Leaves(t, "ok") /\ Becomes(t, {freed})
                \/ D.work # {} /\ Leaves(t, "ok") /\ Becomes(t, {SeenThrough(freed)})
                \/ /\ D.work # {} /\ Leaves(t, "failed")
                   /\ Becomes(t, {SeenThrough(freed), Poisoned(freed)})

(* Recorded into the batch, which a flush may have emptied first. *)
Recorded(D, kind) ==
  {[E EXCEPT !.work = @ \cup {kind}] : E \in {D} \cup Submitted(D)}

(* What an operation may record, an upload on its own if the program does. *)
Kinds == {"items"} \cup IF LooseUploads THEN {"uploads"} ELSE {}

(* Any other entry: it resolves its buffer and records work, before or     *)
(* after which there may be a flush; or the operation or its flush fails.  *)
Use(t) ==
  /\ Inside(t, "use") /\ UNCHANGED issued
  /\ LET D == Unlocked(Arc(t))
         recorded == UNION {Recorded(D, kind) : kind \in Kinds}
     IN  CASE ~Resolved(t) -> Refused(t) /\ Becomes(t, {D})
           [] Resolved(t) /\ D.poisoned -> Leaves(t, "failed") /\ Becomes(t, {D})
           [] OTHER ->
                \/ /\ Leaves(t, "ok")
                   /\ Becomes(t, recorded \cup UNION {Submitted(E) : E \in recorded})
                \/ /\ Leaves(t, "failed")
                   /\ Becomes(t, {D, Poisoned(D)} \cup Submitted(D))

(* Mutant: recorded items are not flushed. *)
CloseUnflushed(D) == {<<D, FALSE>>}

(* The flush of a close, and whether it fails: then the code is ACK_OK all *)
(* the same, and ack_last_error has the failure.                           *)
CloseFlush(D) ==
  IF "items" \in D.work
  THEN {<<SeenThrough(D), FALSE>>, <<SeenThrough(D), TRUE>>, <<Poisoned(D), TRUE>>}
  ELSE {<<D, FALSE>>}

(* ack_close, under the device's lock: refused over live buffers; else     *)
(* recorded items are flushed and the device is marked closed.             *)
Close(t) ==
  /\ Inside(t, "close") /\ UNCHANGED issued
  /\ LET D == Unlocked(Arc(t))
     IN  IF D.buffers # {}
         THEN Leaves(t, "live buffers") /\ Becomes(t, {D})
         ELSE \E flush \in CloseFlush(D) :
                /\ Becomes(t, {[flush[1] EXCEPT !.closed = TRUE]})
                /\ Answered(t, "removing", Arc(t), "ok", 0, flush[2])

(* The last reference to d goes with t's: Inner::drop destroys what the    *)
(* device holds, and discards what was recorded and not submitted.         *)
LastReference(d, t) ==
  /\ d # 0 /\ d \notin registry.ids
  /\ \A u \in Threads \ {t} : threads[u].arc # d

(* A batch in flight is waited for, and what that returns is dropped too.  *)
Undone(d) ==
  \/ devices[d].work # {}
  \/ LateFailures /\ devices[d].flying

InnerDropped(d) ==
  {[devices[d] EXCEPT !.dropped = TRUE, !.lost = @ \/ lost, !.work = {},
                      !.flying = FALSE, !.buffers = {}] :
     lost \in {devices[d].work # {}, Undone(d)}}

(* Mutant: the objects go with the registry's entry. *)
RemoveAndDrop(t) ==
  /\ threads[t].pc = "removing"
  /\ registry' = [registry EXCEPT !.ids = @ \ {Arc(t)}]
  /\ Becomes(t, InnerDropped(Arc(t)))
  /\ Moves(t, "leaving")
  /\ UNCHANGED issued

(* ack_close again: out of the registry, which held a reference. *)
Remove(t) ==
  /\ threads[t].pc = "removing"
  /\ registry' = [registry EXCEPT !.ids = @ \ {Arc(t)}]
  /\ Moves(t, "leaving")
  /\ UNCHANGED <<devices, issued>>

(* Mutant: a reference is never given back. *)
LeaveReferenced(t) ==
  /\ threads[t].pc = "leaving"
  /\ threads' = [threads EXCEPT ![t] = Idle]
  /\ UNCHANGED <<registry, devices, issued>>

(* The call returns and its reference goes. *)
Leave(t) ==
  LET d == Arc(t)
  IN  /\ threads[t].pc = "leaving"
      /\ threads' = [threads EXCEPT ![t] = Idle]
      /\ IF LastReference(d, t) THEN Becomes(t, InnerDropped(d)) ELSE UNCHANGED devices
      /\ UNCHANGED <<registry, issued>>

Acts(t) == Alloc(t) \/ Free(t) \/ Use(t) \/ Close(t)
Proceeds(t) == Open(t) \/ Lookup(t) \/ Enter(t) \/ Remove(t) \/ Leave(t)

Next ==
  \E t \in Threads :
    \/ \E r \in Requests : Call(t, r)
    \/ Open(t) \/ Lookup(t) \/ Enter(t)
    \/ Alloc(t) \/ Free(t) \/ Use(t) \/ Close(t)
    \/ Remove(t) \/ Leave(t)

Spec == Init /\ [][Next]_vars

(* A thread goes on with its call; a call into Vulkan returns, unless the  *)
(* device is one of the stuck.  A program makes finitely many calls, so a  *)
(* lock its holders give back is had in the end by whoever waits for it,   *)
(* in whatever order it is granted.                                        *)
FairSpec ==
  /\ Spec
  /\ \A t \in Threads :
       /\ WF_vars(Proceeds(t))
       /\ WF_vars(Arc(t) \notin Stuck /\ Acts(t))
-----------------------------------------------------------------------------
(* The tables have the types the code gives them. *)
TypeOK ==
  /\ registry \in [ids: SUBSET DeviceIds, next: DeviceIds, calls: 0 .. MaxCalls]
  /\ devices \in [DeviceIds -> Device]
  /\ \A t \in Threads : threads[t].arc \in DeviceIds \cup {0}
  /\ issued \in [Word -> DeviceIds \cup {Nothing}]

(* Vulkan objects go exactly when nothing can reach them any more: while a *)
(* call holds its device, in the registry or out of it, they are there,    *)
(* and so is every buffer of an open device (ffi.rs:28-31).                *)
ObjectsOutliveCalls ==
  /\ \A t \in Threads : Arc(t) # 0 => ~devices[Arc(t)].dropped
  /\ \A d \in registry.ids : ~devices[d].dropped

(* "Work a caller was told was accepted is not silently discarded"         *)
(* (ffi.rs:1701-1706, 2382-2386): the step in which accepted work is lost  *)
(* is one in which a call on its device gets an answer with a message, the *)
(* ACK_OK of a close included; and from then on no call on the device is   *)
(* told that it succeeded but a free or a close (ffi.rs:58-62).            *)
LosesWork(d) == ~devices[d].lost /\ devices'[d].lost

LossIsTold ==
  \A d \in DeviceIds :
    /\ LosesWork(d) => \E t \in Threads :
         /\ Arc(t) = d /\ threads[t].pc = "inside"
         /\ threads'[t].pc # "inside" /\ threads'[t].error
    /\ devices[d].lost => \A t \in Threads :
         /\ Arc(t) = d /\ threads[t].pc = "inside" /\ threads'[t].pc # "inside"
         /\ threads[t].req.op \notin {"free", "close"}
         => threads'[t].code # "ok"

LossesAreTold == [][LossIsTold]_vars

(* The device a call is about, 0 if none or if it has been refused. *)
BoundFor(t) ==
  IF threads[t].pc = "called" /\ threads[t].req.op # "open"
  THEN threads[t].req.dev ELSE Arc(t)

(* A closed device's objects do go, whichever thread holds it last, and a  *)
(* close of one device stalls no other: every call on a device that is not *)
(* stuck returns (ffi.rs:2345-2347).                                       *)
ClosedDevicesGo ==
  \A d \in DeviceIds \ Stuck : devices[d].closed ~> devices[d].dropped

EveryCallReturns ==
  \A t \in Threads :
    (threads[t].pc # "idle" /\ BoundFor(t) \notin Stuck) ~> threads[t].pc = "idle"

(* The table the detailed state stands for: a device is open until the     *)
(* flag says otherwise, a buffer is live while the open device that handed *)
(* its handle out keeps its sequence number, and a call has its answer     *)
(* once it leaves the lock.                                                *)
OpenDevices == {d \in DeviceIds : d < registry.next /\ ~devices[d].closed}

OpenedDevices == {d \in DeviceIds : d < registry.next}

LiveBuffers ==
  {h \in Word : /\ issued[h] # Nothing /\ ~devices[issued[h]].closed
                /\ \E s \in devices[issued[h]].buffers : h = BufferHandle(issued[h], s)}

Progress(call) ==
  CASE call.pc = "idle" -> [at |-> "silent"]
    [] call.pc \in {"removing", "leaving"} ->
         [at |-> "answered", code |-> call.code, id |-> call.id]
    [] OTHER -> [at |-> "asked", request |-> call.req]

CallProgress == [t \in Threads |-> Progress(threads[t])]

(* "Close is atomic", and so is every other call: the detailed steps are   *)
(* the table's, each call taking effect at one instant.                    *)
Table == INSTANCE DeviceTable WITH
  BufferHandles <- Word,
  open <- OpenDevices,
  opened <- OpenedDevices,
  live <- LiveBuffers,
  owner <- issued,
  calls <- CallProgress

CallsAreAtomic == Table!Spec
=============================================================================
