------------------------ MODULE DeviceRegistryProofs ------------------------
(***************************************************************************)
(* Theorems about DeviceRegistry, for any number of threads and any width  *)
(* of the halves of a handle: no call ever holds a device whose objects    *)
(* are gone, accepted work is lost only under a call that has a message to *)
(* tell, and the whole implements DeviceTable, in which a call takes       *)
(* effect at one instant.                                                  *)
(*                                                                         *)
(* A call that acts holds the lock of its device, so of two calls in one   *)
(* device only one is past the flag; the four of them are one step here    *)
(* (Acted): the device's entry is replaced, and the call has its answer.   *)
(* For the table they come apart again (Coherent, and a lemma ...Maps for  *)
(* each step): what a call finds under the lock is what the table holds,   *)
(* because a handle's halves tell its device and its number.               *)
(***************************************************************************)
EXTENDS DeviceRegistry, TLAPS

Codes == {"ok", "failed", "closed", "foreign", "freed", "live buffers"}

Answer(pcs, arcs) == [pc: pcs, arc: arcs, code: Codes, id: Nat, error: BOOLEAN]

ThreadState ==
  {Idle} \cup [pc: {"called"}, arc: {0}, req: Requests]
    \cup [pc: {"fetched", "inside"}, arc: DeviceIds, req: Requests]
    \cup Answer({"removing"}, DeviceIds) \cup Answer({"leaving"}, DeviceIds \cup {0})

Typed ==
  /\ registry \in [ids: SUBSET DeviceIds, next: DeviceIds, calls: 0 .. MaxCalls]
  /\ devices \in [DeviceIds -> Device]
  /\ threads \in [Threads -> ThreadState]
  /\ issued \in [Word -> DeviceIds \cup {Nothing}]

(* Whatever is registered, referenced or gone was opened before.           *)
Opened ==
  /\ \A d \in registry.ids : d < registry.next
  /\ \A t \in Threads : Arc(t) # 0 => Arc(t) < registry.next
  /\ \A d \in DeviceIds : devices[d].dropped => d < registry.next

(* A call that acts holds the lock, and found the device open.             *)
Locked ==
  \A t \in Threads : threads[t].pc = "inside" =>
    devices[Arc(t)].lock = t /\ ~devices[Arc(t)].closed

(* The devices that can still go are closed, and closed ones hold no work. *)
Flushed ==
  /\ \A t \in Threads : threads[t].pc = "removing" => devices[Arc(t)].closed
  /\ \A d \in DeviceIds : /\ d < registry.next /\ d \notin registry.ids
                             => devices[d].closed
                          /\ devices[d].closed => devices[d].work = {}
                          /\ devices[d].work \subseteq {"items"}

(* Work is lost only with its context.                                     *)
LostWithContext == \A d \in DeviceIds : devices[d].lost => devices[d].poisoned

Referenced == Typed /\ Opened /\ ObjectsOutliveCalls

Quiet == Typed /\ Locked /\ Flushed /\ LostWithContext
-----------------------------------------------------------------------------
LEMMA HandleIsNat ==
  ASSUME NEW d \in DeviceIds, NEW seq \in Sequences
  PROVE  BufferHandle(d, seq) \in Nat
  <1>1. Half \in Nat /\ Half > 0 /\ d \in Nat /\ seq \in Nat
    BY WidthAssumption DEF DeviceIds, Sequences
  <1>2. Half * Half \in Nat /\ Half * Half > 0 /\ d * Half \in Nat
    BY <1>1
  <1>3. \A p \in Nat, m \in Nat : m > 0 => p % m \in Nat
    OBVIOUS
  <1> QED
    BY <1>1, <1>2, <1>3 DEF BufferHandle

(* What a call does under its device's lock.                               *)
Acted(t, D, r) ==
  /\ threads[t].pc = "inside"
  /\ registry' = registry
  /\ devices' = [devices EXCEPT ![Arc(t)] = D]
  /\ threads' = [threads EXCEPT ![t] = r]

(* How the entry and the answer it leaves relate to the entry it found:    *)
(* work is lost only with the context, and with a message.                 *)
Keeps(old, D, r) ==
  /\ r.pc \in {"leaving", "removing"}
  /\ D.dropped = old.dropped
  /\ IF r.pc = "removing" THEN D.closed ELSE D.closed = old.closed
  /\ ~LooseUploads /\ old.work \subseteq {"items"} =>
       /\ D.work \subseteq {"items"}
       /\ r.pc = "removing" => D.work = {}
  /\ old.poisoned => D.poisoned
  /\ D.lost => old.lost \/ (D.poisoned /\ r.error)

Touched(t) ==
  \E D \in Device, r \in ThreadState :
    Acted(t, D, r) /\ r.arc = Arc(t) /\ Keeps(devices[Arc(t)], D, r)

Reply(t, pc, code, id, error) ==
  [pc |-> pc, arc |-> Arc(t), code |-> code, id |-> id, error |-> error]

IsReply(r, t, pc, code, id) == \E error \in BOOLEAN : r = Reply(t, pc, code, id, error)

ReplyGiven(t, pc, code, id) ==
  \E error \in BOOLEAN :
    threads' = [threads EXCEPT ![t] = Reply(t, pc, code, id, error)]

(* Thread t has its answer and is out of its device's lock.                *)
Replied(t, pc, code, id) ==
  /\ threads[t].pc = "inside"
  /\ registry' = registry
  /\ ReplyGiven(t, pc, code, id)
  /\ \A d \in DeviceIds \ {Arc(t)} : devices'[d] = devices[d]

SameHandles(old, new) ==
  new.closed = old.closed /\ new.buffers = old.buffers /\ new.next = old.next

(* Work that ran, is in flight or is recorded, or that went with its       *)
(* context.                                                                *)
Spared(D, E) ==
  /\ E \in Device /\ SameHandles(D, E)
  /\ E.dropped = D.dropped /\ E.poisoned = D.poisoned /\ E.lost = D.lost
  /\ ~LooseUploads /\ D.work \subseteq {"items"} => E.work \subseteq {"items"}

Ruined(D, E) ==
  /\ E \in Device /\ SameHandles(D, E)
  /\ E.dropped = D.dropped /\ E.poisoned /\ E.work = {}

LEMMA FlushesSpare ==
  ASSUME NEW D \in Device
  PROVE  /\ Spared(D, D) /\ Spared(D, SeenThrough(D)) /\ SeenThrough(D).work = {}
         /\ \A E \in Submitted(D) : Spared(D, E)
         /\ Ruined(D, Poisoned(D))
  <1>1. Spared(D, D)
    BY DEF Spared, SameHandles
  <1>2. \A f \in BOOLEAN : Spared(D, [D EXCEPT !.work = {}, !.flying = f])
    BY DEF Spared, SameHandles, Device
  <1>3. Spared(D, SeenThrough(D))
    BY <1>2 DEF SeenThrough
  <1>4. SeenThrough(D).work = {}
    BY DEF SeenThrough, Device
  <1>5. \A E \in Submitted(D) : Spared(D, E)
    <2>1. (D.work # {} \/ D.flying) \in BOOLEAN
      OBVIOUS
    <2> QED
      BY <1>2, <1>3, <2>1, Zenon DEF Submitted
  <1>6. \A b \in BOOLEAN : Ruined(D, [SeenThrough(D) EXCEPT !.poisoned = TRUE, !.lost = b])
    <2> DEFINE S == SeenThrough(D)
    <2> HIDE DEF S
    <2>1. S \in Device /\ SameHandles(D, S) /\ S.dropped = D.dropped /\ S.work = {}
      BY <1>3, <1>4 DEF S, Spared
    <2>2. \A b \in BOOLEAN : Ruined(D, [S EXCEPT !.poisoned = TRUE, !.lost = b])
      BY <2>1 DEF Ruined, SameHandles, Device
    <2> QED
      BY <2>2 DEF S
  <1>7. Ruined(D, Poisoned(D))
    <2>1. \E b \in BOOLEAN : Poisoned(D) = [SeenThrough(D) EXCEPT !.poisoned = TRUE, !.lost = b]
      <3> DEFINE b == SeenThrough(D).lost \/ D.work # {} \/ D.flying
      <3>1. Poisoned(D) = [SeenThrough(D) EXCEPT !.poisoned = TRUE, !.lost = b] /\ b \in BOOLEAN
        BY DEF Poisoned
      <3> QED
        BY <3>1
    <2> QED
      BY <1>6, <2>1
  <1> QED
    BY <1>1, <1>3, <1>4, <1>5, <1>7

LEMMA SparedTwice ==
  ASSUME NEW D, NEW E, NEW F, Spared(D, E), Spared(E, F)
  PROVE  Spared(D, F)
  BY DEF Spared, SameHandles

LEMMA RecordingSpares ==
  ASSUME NEW D \in Device, NEW kind \in Kinds, NEW E \in Recorded(D, kind)
  PROVE  Spared(D, E)
  <1>1. kind \in {"items", "uploads"} /\ (~LooseUploads => kind = "items")
    BY DEF Kinds
  <1>2. PICK F \in {D} \cup Submitted(D) : E = [F EXCEPT !.work = @ \cup {kind}]
    BY DEF Recorded
  <1>3. Spared(D, F)
    BY FlushesSpare
  <1>4. Spared(F, E)
    BY <1>1, <1>2, <1>3 DEF Spared, SameHandles, Device
  <1> QED
    BY <1>3, <1>4, SparedTwice

(* A device on its way out of a call's lock.                               *)
LEMMA UnlockedSpared ==
  ASSUME Typed, NEW d \in DeviceIds
  PROVE  /\ Unlocked(d) \in Device /\ Spared(devices[d], Unlocked(d))
         /\ Unlocked(d).work = devices[d].work
  <1>1. devices[d] \in Device
    BY DEF Typed
  <1>2. devices[d].lock \in Threads \cup {Nothing}
    BY <1>1 DEF Device
  <1> QED
    BY <1>1 DEF Unlocked, Spared, SameHandles, Device

LEMMA InsideShape ==
  ASSUME Typed, NEW t \in Threads, threads[t].pc = "inside"
  PROVE  /\ Arc(t) \in DeviceIds /\ devices[Arc(t)] \in Device
         /\ threads[t].req \in Requests
         /\ threads[t] \in [pc: {"fetched", "inside"}, arc: DeviceIds, req: Requests]
  BY DEF Typed, ThreadState, Answer, Idle, Arc

LEMMA ReplyStep ==
  ASSUME Typed, NEW t \in Threads, NEW E \in Device, NEW r,
         NEW pc \in {"removing", "leaving"}, NEW code \in Codes, NEW id \in Nat,
         IsReply(r, t, pc, code, id), Acted(t, E, r), Keeps(devices[Arc(t)], E, r)
  PROVE  Touched(t) /\ Replied(t, pc, code, id) /\ devices'[Arc(t)] = E
  <1>0. threads[t].pc = "inside"
    BY DEF Acted
  <1>1. Arc(t) \in DeviceIds
    BY <1>0, InsideShape
  <1>2. r \in ThreadState /\ r.arc = Arc(t)
    BY <1>1 DEF IsReply, Reply, ThreadState, Answer
  <1>4. Touched(t)
    BY <1>2 DEF Touched
  <1>5. ReplyGiven(t, pc, code, id)
    BY DEF IsReply, ReplyGiven, Acted
  <1>6. Replied(t, pc, code, id)
    BY <1>1, <1>5 DEF Replied, Typed, Acted
  <1> QED
    BY <1>1, <1>4, <1>6 DEF Typed, Acted

(* An answer whose device was spared, or ruined with a message.            *)
LEMMA LeavesStep ==
  ASSUME Typed, NEW t \in Threads, NEW code \in Codes,
         NEW D, NEW Ds,
         threads[t].pc = "inside", registry' = registry,
         D.closed = devices[Arc(t)].closed, D.dropped = devices[Arc(t)].dropped,
         D.work = devices[Arc(t)].work, D.poisoned = devices[Arc(t)].poisoned,
         D.lost = devices[Arc(t)].lost,
         Leaves(t, code), Becomes(t, Ds),
         \A E \in Ds : Spared(D, E) \/ (Ruined(D, E) /\ code # "ok")
  PROVE  /\ Touched(t) /\ Replied(t, "leaving", code, 0)
         /\ SameHandles(D, devices'[Arc(t)])
  <1>1. devices[Arc(t)] \in Device
    BY InsideShape
  <1>2. PICK E \in Ds : devices' = [devices EXCEPT ![Arc(t)] = E]
    BY DEF Becomes
  <1>3. E \in Device /\ SameHandles(D, E)
    BY <1>2 DEF Spared, Ruined
  <1> DEFINE r == Reply(t, "leaving", code, 0, code # "ok")
  <1>4. Acted(t, E, r)
    BY <1>2 DEF Leaves, Answers, Answered, Reply, Acted
  <1>5. IsReply(r, t, "leaving", code, 0)
    <2>1. (code # "ok") \in BOOLEAN
      OBVIOUS
    <2> QED
      BY <2>1, Zenon DEF IsReply
  <1>6. Spared(D, E) \/ (Ruined(D, E) /\ code # "ok")
    BY <1>2
  <1>7. Keeps(devices[Arc(t)], E, r)
    BY <1>1, <1>6 DEF Keeps, Reply, Spared, Ruined, SameHandles, Device
  <1> HIDE DEF r
  <1>8. Touched(t) /\ Replied(t, "leaving", code, 0) /\ devices'[Arc(t)] = E
    BY <1>3, <1>4, <1>5, <1>7, ReplyStep
  <1> QED
    BY <1>3, <1>8

(* buffer_of refuses a handle of another device, and then one freed.       *)
Refusal(t) == IF Owner(threads[t].req.buf) # Arc(t) THEN "foreign" ELSE "freed"

(* An answer that leaves the device unlocked and otherwise as it was.      *)
LEMMA UnlockedStep ==
  ASSUME Typed, NEW t \in Threads, NEW code \in Codes,
         threads[t].pc = "inside", registry' = registry,
         Leaves(t, code), Becomes(t, {Unlocked(Arc(t))})
  PROVE  /\ Touched(t) /\ Replied(t, "leaving", code, 0)
         /\ SameHandles(devices[Arc(t)], devices'[Arc(t)])
  <1> DEFINE D == Unlocked(Arc(t))
  <1>1. D \in Device /\ Spared(devices[Arc(t)], D) /\ D.work = devices[Arc(t)].work
    BY InsideShape, UnlockedSpared
  <1>2. Becomes(t, {D})
    OBVIOUS
  <1> HIDE DEF D
  <1>3. \A E \in {D} : Spared(D, E) \/ (Ruined(D, E) /\ code # "ok")
    BY <1>1, FlushesSpare
  <1>4. /\ D.closed = devices[Arc(t)].closed /\ D.dropped = devices[Arc(t)].dropped
        /\ D.poisoned = devices[Arc(t)].poisoned /\ D.lost = devices[Arc(t)].lost
        /\ SameHandles(devices[Arc(t)], D)
    BY <1>1 DEF Spared, SameHandles
  <1>5. /\ Touched(t) /\ Replied(t, "leaving", code, 0)
        /\ SameHandles(D, devices'[Arc(t)])
    BY <1>1, <1>2, <1>3, <1>4, LeavesStep
  <1> QED
    BY <1>4, <1>5 DEF SameHandles

LEMMA RefusedEffect ==
  ASSUME Typed, NEW t \in Threads, threads[t].pc = "inside", registry' = registry,
         Refused(t), Becomes(t, {Unlocked(Arc(t))})
  PROVE  /\ Touched(t) /\ SameHandles(devices[Arc(t)], devices'[Arc(t)])
         /\ Replied(t, "leaving", Refusal(t), 0)
  <1>1. Refusal(t) \in Codes /\ Leaves(t, Refusal(t))
    BY DEF Refused, Refusal, Codes
  <1> QED
    BY <1>1, UnlockedStep

(* ack_buffer_alloc hands out the device's next handle, or fails.          *)
LEMMA AllocEffect ==
  ASSUME Typed, NEW t \in Threads, Alloc(t)
  PROVE  LET d == Arc(t)
             old == devices[d]
             new == devices'[d]
             h == BufferHandle(d, old.next)
         IN  /\ threads[t].pc = "inside" /\ threads[t].req.op = "alloc"
             /\ Touched(t)
             /\ new.closed = old.closed
             /\ \/ /\ old.next # Half - 1
                   /\ new.next = old.next + 1
                   /\ new.buffers = old.buffers \cup {old.next}
                   /\ issued' = [issued EXCEPT ![h] = d]
                   /\ Replied(t, "leaving", "ok", h)
                \/ /\ SameHandles(old, new) /\ issued' = issued
                   /\ Replied(t, "leaving", "failed", 0)
  <1> DEFINE d == Arc(t)
             old == devices[d]
             h == BufferHandle(d, old.next)
             D == [Unlocked(d) EXCEPT !.next = @ + 1, !.buffers = @ \cup {old.next}]
  <1>1. threads[t].pc = "inside" /\ threads[t].req.op = "alloc" /\ registry' = registry
    BY DEF Alloc, Inside
  <1>2. d \in DeviceIds /\ old \in Device
    BY <1>1, InsideShape
  <1>3. CASE /\ old.next # Half - 1
             /\ devices' = [devices EXCEPT ![d] = D]
             /\ issued' = [issued EXCEPT ![h] = d]
             /\ Answered(t, "leaving", d, "ok", h, FALSE)
    <2>1. old.next \in Sequences /\ old.next + 1 \in 1 .. Half - 1
      BY <1>2, <1>3, WidthAssumption DEF Device, Sequences
    <2>2. Unlocked(d) \in Device /\ Spared(old, Unlocked(d)) /\ Unlocked(d).work = old.work
      BY <1>2, UnlockedSpared
    <2>3. /\ D \in Device /\ D.closed = old.closed /\ D.next = old.next + 1
          /\ D.buffers = old.buffers \cup {old.next} /\ D.dropped = old.dropped
          /\ D.work = old.work /\ D.poisoned = old.poisoned /\ D.lost = old.lost
      <3> DEFINE U == Unlocked(d)
      <3>1. U \in Device /\ Spared(old, U) /\ U.work = old.work
        BY <2>2
      <3> HIDE DEF U
      <3>2. U.next = old.next /\ U.buffers = old.buffers
        BY <3>1 DEF Spared, SameHandles
      <3>3. LET W == [U EXCEPT !.next = @ + 1, !.buffers = @ \cup {old.next}]
            IN  /\ W \in Device /\ W.closed = U.closed /\ W.next = old.next + 1
                /\ W.buffers = old.buffers \cup {old.next} /\ W.dropped = U.dropped
                /\ W.work = U.work /\ W.poisoned = U.poisoned /\ W.lost = U.lost
        BY <2>1, <3>1, <3>2 DEF Device
      <3> QED
        BY <3>1, <3>3 DEF U, Spared, SameHandles
    <2>4. h \in Nat
      BY <1>2, <2>1, HandleIsNat
    <2> HIDE DEF D, h
    <2> DEFINE r == Reply(t, "leaving", "ok", h, FALSE)
    <2>5. Keeps(old, D, r) /\ Acted(t, D, r) /\ IsReply(r, t, "leaving", "ok", h)
      BY <1>1, <1>2, <1>3, <2>3 DEF Keeps, Acted, Reply, IsReply, Answered
    <2> HIDE DEF r
    <2>6. Touched(t) /\ Replied(t, "leaving", "ok", h) /\ devices'[d] = D
      BY <2>3, <2>4, <2>5, ReplyStep DEF Codes
    <2>7. h = BufferHandle(d, old.next)
      BY DEF h
    <2> QED
      BY <1>1, <1>3, <2>3, <2>6, <2>7
  <1>4. CASE /\ Becomes(t, {Unlocked(d)})
             /\ Leaves(t, "failed") /\ UNCHANGED issued
    <2>1. /\ Touched(t) /\ Replied(t, "leaving", "failed", 0)
          /\ SameHandles(old, devices'[d])
      BY <1>1, <1>4, UnlockedStep DEF Codes
    <2> QED
      BY <1>1, <1>4, <2>1 DEF SameHandles
  <1> QED
    BY <1>3, <1>4 DEF Alloc, Becomes

(* ack_buffer_free consumes the handle it resolves, whatever it answers.   *)
LEMMA FreeEffect ==
  ASSUME Typed, NEW t \in Threads, Free(t)
  PROVE  LET d == Arc(t)
             old == devices[d]
             new == devices'[d]
         IN  /\ threads[t].pc = "inside" /\ threads[t].req.op = "free"
             /\ Touched(t) /\ issued' = issued
             /\ \/ /\ Resolved(t)
                   /\ new.closed = old.closed /\ new.next = old.next
                   /\ new.buffers = old.buffers \ {Sequence(threads[t].req.buf)}
                   /\ \/ Replied(t, "leaving", "ok", 0)
                      \/ Replied(t, "leaving", "failed", 0)
                \/ /\ ~Resolved(t) /\ SameHandles(old, new)
                   /\ Replied(t, "leaving", Refusal(t), 0)
  <1> DEFINE d == Arc(t)
             old == devices[d]
             bs == old.buffers \ {Sequence(threads[t].req.buf)}
             U == Unlocked(d)
             freed == [U EXCEPT !.buffers = @ \ {Sequence(threads[t].req.buf)}]
  <1>1. /\ threads[t].pc = "inside" /\ threads[t].req.op = "free"
        /\ registry' = registry /\ issued' = issued
    BY DEF Free, Inside
  <1>2. d \in DeviceIds
    BY <1>1, InsideShape
  <1>3. CASE Resolved(t)
    <2>1. U \in Device /\ Spared(old, U) /\ U.work = old.work
      BY <1>2, UnlockedSpared
    <2>2. /\ freed \in Device /\ freed.buffers = bs /\ freed.closed = old.closed
          /\ freed.next = old.next /\ freed.dropped = old.dropped
          /\ freed.work = old.work /\ freed.poisoned = old.poisoned /\ freed.lost = old.lost
      <3> HIDE DEF U
      <3>1. U.buffers = old.buffers
        BY <2>1 DEF Spared, SameHandles
      <3>2. /\ freed \in Device /\ freed.buffers = bs /\ freed.closed = U.closed
            /\ freed.next = U.next /\ freed.dropped = U.dropped
            /\ freed.work = U.work /\ freed.poisoned = U.poisoned /\ freed.lost = U.lost
        BY <2>1, <3>1 DEF Device
      <3> QED
        BY <2>1, <3>2 DEF Spared, SameHandles
    <2>3. \E code, Ds :
            /\ code \in {"ok", "failed"}
            /\ Leaves(t, code) /\ Becomes(t, Ds)
            /\ \A E \in Ds : E \in {freed, SeenThrough(freed)}
                               \/ (E = Poisoned(freed) /\ code = "failed")
      <3>1. \/ Leaves(t, "ok") /\ Becomes(t, {freed})
            \/ Leaves(t, "failed") /\ Becomes(t, {freed})
            \/ Leaves(t, "ok") /\ Becomes(t, {SeenThrough(freed)})
            \/ Leaves(t, "failed") /\ Becomes(t, {SeenThrough(freed), Poisoned(freed)})
        <4>1. CASE U.poisoned
          BY <1>3, <4>1, Zenon DEF Free
        <4>2. CASE ~U.poisoned
          BY <1>3, <4>2, Zenon DEF Free
        <4> QED
          BY <4>1, <4>2
      <3> HIDE DEF freed
      <3> QED
        BY <3>1
    <2> HIDE DEF freed
    <2>4. PICK code, Ds :
            /\ code \in {"ok", "failed"}
            /\ Leaves(t, code) /\ Becomes(t, Ds)
            /\ \A E \in Ds : E \in {freed, SeenThrough(freed)}
                               \/ (E = Poisoned(freed) /\ code = "failed")
      BY <2>3
    <2>5. \A E \in Ds : Spared(freed, E) \/ (Ruined(freed, E) /\ code # "ok")
      BY <2>2, <2>4, FlushesSpare
    <2>6. /\ Touched(t) /\ Replied(t, "leaving", code, 0)
          /\ SameHandles(freed, devices'[d])
      <3>1. code \in Codes
        BY <2>4 DEF Codes
      <3> QED
        BY <1>1, <2>2, <2>4, <2>5, <3>1, LeavesStep
    <2>7. Replied(t, "leaving", "ok", 0) \/ Replied(t, "leaving", "failed", 0)
      BY <2>4, <2>6
    <2> QED
      BY <1>1, <1>3, <2>2, <2>6, <2>7 DEF SameHandles
  <1>4. CASE ~Resolved(t)
    <2>1. Refused(t) /\ Becomes(t, {Unlocked(d)})
      BY <1>4 DEF Free
    <2> QED
      BY <1>1, <1>4, <2>1, RefusedEffect
  <1> QED
    BY <1>3, <1>4

(* Any other entry leaves the table of handles as it was, and fails on a   *)
(* poisoned context.                                                       *)
LEMMA UseEffect ==
  ASSUME Typed, NEW t \in Threads, Use(t)
  PROVE  /\ threads[t].pc = "inside" /\ threads[t].req.op = "use"
         /\ Touched(t) /\ issued' = issued
         /\ SameHandles(devices[Arc(t)], devices'[Arc(t)])
         /\ \/ /\ Resolved(t)
               /\ \/ Replied(t, "leaving", "ok", 0) /\ ~devices[Arc(t)].poisoned
                  \/ Replied(t, "leaving", "failed", 0)
            \/ ~Resolved(t) /\ Replied(t, "leaving", Refusal(t), 0)
  <1> DEFINE d == Arc(t)
             D == Unlocked(d)
             recorded == UNION {Recorded(D, kind) : kind \in Kinds}
  <1>1. /\ threads[t].pc = "inside" /\ threads[t].req.op = "use"
        /\ registry' = registry /\ issued' = issued
    BY DEF Use, Inside
  <1>2. d \in DeviceIds
    BY <1>1, InsideShape
  <1>3. CASE ~Resolved(t)
    <2>1. Refused(t) /\ Becomes(t, {Unlocked(d)})
      BY <1>3 DEF Use
    <2> QED
      BY <1>1, <1>3, <2>1, RefusedEffect
  <1>4. CASE Resolved(t)
    <2>1. D \in Device /\ Spared(devices[d], D) /\ D.work = devices[d].work
      BY <1>2, UnlockedSpared
    <2>2. /\ D.closed = devices[d].closed /\ D.dropped = devices[d].dropped
          /\ D.poisoned = devices[d].poisoned /\ D.lost = devices[d].lost
          /\ SameHandles(devices[d], D)
      BY <2>1 DEF Spared, SameHandles
    <2>3. \/ Leaves(t, "failed") /\ Becomes(t, {D})
          \/ /\ Leaves(t, "ok") /\ ~D.poisoned
             /\ Becomes(t, recorded \cup UNION {Submitted(E) : E \in recorded})
          \/ /\ Leaves(t, "failed")
             /\ Becomes(t, {D, Poisoned(D)} \cup Submitted(D))
      <3>1. CASE D.poisoned
        BY <1>4, <3>1, Zenon DEF Use
      <3>2. CASE ~D.poisoned
        BY <1>4, <3>2, Zenon DEF Use
      <3> QED
        BY <3>1, <3>2
    <2> HIDE DEF D
    <2>4. \A E \in recorded : Spared(D, E)
      BY <2>1, RecordingSpares
    <2>5. \A E \in recorded \cup UNION {Submitted(F) : F \in recorded} : Spared(D, E)
      <3>1. SUFFICES ASSUME NEW F \in recorded, NEW E \in Submitted(F)
                     PROVE  Spared(D, E)
        BY <2>4
      <3>2. Spared(D, F) /\ F \in Device
        BY <2>4 DEF Spared
      <3> QED
        BY <3>1, <3>2, FlushesSpare, SparedTwice
    <2>6. \A E \in {D, Poisoned(D)} \cup Submitted(D) : Spared(D, E) \/ Ruined(D, E)
      BY <2>1, FlushesSpare
    <2>7. \E code, Ds :
            /\ code \in {"ok", "failed"}
            /\ Leaves(t, code) /\ Becomes(t, Ds)
            /\ \A E \in Ds : Spared(D, E) \/ (Ruined(D, E) /\ code # "ok")
            /\ code = "ok" => ~D.poisoned
      <3>1. CASE Leaves(t, "failed") /\ Becomes(t, {D})
        BY <2>6, <3>1
      <3>2. CASE /\ Leaves(t, "ok") /\ ~D.poisoned
                 /\ Becomes(t, recorded \cup UNION {Submitted(E) : E \in recorded})
        <4> DEFINE Ds == recorded \cup UNION {Submitted(F) : F \in recorded}
        <4>1. Leaves(t, "ok") /\ Becomes(t, Ds) /\ ~D.poisoned
          BY <3>2
        <4>2. \A E \in Ds : Spared(D, E)
          BY <2>5
        <4> HIDE DEF Ds
        <4> QED
          BY <4>1, <4>2
      <3>3. CASE /\ Leaves(t, "failed")
                 /\ Becomes(t, {D, Poisoned(D)} \cup Submitted(D))
        <4> DEFINE Ds == {D, Poisoned(D)} \cup Submitted(D)
        <4>1. Leaves(t, "failed") /\ Becomes(t, Ds)
          BY <3>3
        <4>2. \A E \in Ds : Spared(D, E) \/ Ruined(D, E)
          BY <2>6
        <4> HIDE DEF Ds
        <4> QED
          BY <4>1, <4>2
      <3> QED
        BY <2>3, <3>1, <3>2, <3>3
    <2>8. PICK code, Ds :
            /\ code \in {"ok", "failed"}
            /\ Leaves(t, code) /\ Becomes(t, Ds)
            /\ \A E \in Ds : Spared(D, E) \/ (Ruined(D, E) /\ code # "ok")
            /\ code = "ok" => ~D.poisoned
      BY <2>7
    <2>9. /\ Touched(t) /\ Replied(t, "leaving", code, 0)
          /\ SameHandles(D, devices'[d])
      <3>1. code \in Codes
        BY <2>8 DEF Codes
      <3> QED
        BY <1>1, <2>1, <2>2, <2>8, <3>1, LeavesStep
    <2>10. \/ Replied(t, "leaving", "ok", 0) /\ ~devices[d].poisoned
           \/ Replied(t, "leaving", "failed", 0)
      BY <2>2, <2>8, <2>9
    <2> QED
      BY <1>1, <1>4, <2>2, <2>9, <2>10 DEF SameHandles
  <1> QED
    BY <1>3, <1>4

(* The flush of a close: whatever it leaves, nothing is recorded.          *)
LEMMA CloseFlushShape ==
  ASSUME NEW D \in Device, NEW flush \in CloseFlush(D)
  PROVE  /\ flush[2] \in BOOLEAN
         /\ Spared(D, flush[1]) \/ (Ruined(D, flush[1]) /\ flush[2])
         /\ D.work \subseteq {"items"} => flush[1].work = {}
  <1>1. CASE "items" \in D.work
    <2>1. \/ flush = <<SeenThrough(D), FALSE>> \/ flush = <<SeenThrough(D), TRUE>>
          \/ flush = <<Poisoned(D), TRUE>>
      BY <1>1, Zenon DEF CloseFlush
    <2>2. CASE \E b \in BOOLEAN : flush = <<SeenThrough(D), b>>
      <3>1. flush[1] = SeenThrough(D) /\ flush[2] \in BOOLEAN
        BY <2>2
      <3> QED
        BY <3>1, FlushesSpare
    <2>3. CASE flush = <<Poisoned(D), TRUE>>
      <3>1. flush[1] = Poisoned(D) /\ flush[2] = TRUE
        BY <2>3
      <3>2. Ruined(D, flush[1])
        BY <3>1, FlushesSpare
      <3> QED
        BY <3>1, <3>2 DEF Ruined
    <2> QED
      BY <2>1, <2>2, <2>3
  <1>2. CASE "items" \notin D.work
    <2>1. flush = <<D, FALSE>>
      BY <1>2, Zenon DEF CloseFlush
    <2>2. flush[1] = D /\ flush[2] = FALSE
      BY <2>1
    <2> QED
      BY <1>2, <2>2, FlushesSpare
  <1> QED
    BY <1>1, <1>2

(* ack_close refuses over live buffers, or sets the flag.                  *)
LEMMA CloseEffect ==
  ASSUME Typed, NEW t \in Threads, Close(t)
  PROVE  LET d == Arc(t)
             old == devices[d]
             new == devices'[d]
         IN  /\ threads[t].pc = "inside" /\ threads[t].req.op = "close"
             /\ Touched(t) /\ issued' = issued
             /\ \/ /\ old.buffers # {} /\ SameHandles(old, new)
                   /\ Replied(t, "leaving", "live buffers", 0)
                \/ /\ old.buffers = {} /\ new.closed
                   /\ new.buffers = {} /\ new.next = old.next
                   /\ Replied(t, "removing", "ok", 0)
  <1> DEFINE d == Arc(t)
             old == devices[d]
             D == Unlocked(d)
  <1>1. /\ threads[t].pc = "inside" /\ threads[t].req.op = "close"
        /\ registry' = registry /\ issued' = issued
    BY DEF Close, Inside
  <1>2. d \in DeviceIds
    BY <1>1, InsideShape
  <1>3. D \in Device /\ Spared(old, D) /\ D.work = old.work
    BY <1>2, UnlockedSpared
  <1>4. D.buffers = old.buffers
    BY <1>3 DEF Spared, SameHandles
  <1>5. CASE old.buffers # {}
    <2>1. Leaves(t, "live buffers") /\ Becomes(t, {Unlocked(d)})
      BY <1>4, <1>5 DEF Close
    <2>2. /\ Touched(t) /\ Replied(t, "leaving", "live buffers", 0)
          /\ SameHandles(old, devices'[d])
      BY <1>1, <2>1, UnlockedStep DEF Codes
    <2> QED
      BY <1>1, <1>5, <2>2
  <1>6. CASE old.buffers = {}
    <2>1. PICK flush \in CloseFlush(D) :
            /\ Becomes(t, {[flush[1] EXCEPT !.closed = TRUE]})
            /\ Answered(t, "removing", d, "ok", 0, flush[2])
      BY <1>4, <1>6 DEF Close
    <2> HIDE DEF D
    <2> DEFINE F == flush[1]
               error == flush[2]
               E == [F EXCEPT !.closed = TRUE]
    <2>2. /\ error \in BOOLEAN
          /\ Spared(D, F) \/ (Ruined(D, F) /\ error)
          /\ D.work \subseteq {"items"} => F.work = {}
      BY <1>3, CloseFlushShape
    <2>3. devices' = [devices EXCEPT ![d] = E] /\ Answered(t, "removing", d, "ok", 0, error)
      BY <2>1 DEF Becomes
    <2> HIDE DEF F, error
    <2>4. F \in Device /\ SameHandles(D, F) /\ F.dropped = D.dropped
            /\ (D.poisoned => F.poisoned) /\ (F.lost => D.lost \/ (F.poisoned /\ error))
            /\ (~LooseUploads /\ D.work \subseteq {"items"} => F.work \subseteq {"items"})
      BY <2>2 DEF Spared, Ruined
    <2>5. /\ E \in Device /\ E.closed = TRUE /\ E.buffers = F.buffers /\ E.next = F.next
          /\ E.dropped = F.dropped /\ E.poisoned = F.poisoned /\ E.lost = F.lost
          /\ E.work = F.work
      BY <2>4 DEF Device
    <2> HIDE DEF E
    <2> DEFINE r == Reply(t, "removing", "ok", 0, error)
    <2>6. Keeps(old, E, r) /\ Acted(t, E, r) /\ IsReply(r, t, "removing", "ok", 0)
      <3>1. D.dropped = old.dropped /\ D.poisoned = old.poisoned /\ D.lost = old.lost
        BY <1>3 DEF Spared
      <3>2. Keeps(old, E, r)
        BY <1>3, <2>2, <2>4, <2>5, <3>1 DEF Keeps, Reply
      <3>3. Acted(t, E, r)
        BY <1>1, <2>3 DEF Reply, Acted, Answered
      <3>4. IsReply(r, t, "removing", "ok", 0)
        BY <2>2 DEF IsReply
      <3> QED
        BY <3>2, <3>3, <3>4
    <2> HIDE DEF r
    <2>7. Touched(t) /\ Replied(t, "removing", "ok", 0) /\ devices'[d] = E
      BY <2>5, <2>6, ReplyStep DEF Codes
    <2>8. E.buffers = {} /\ E.next = old.next
      BY <1>3, <1>6, <2>4, <2>5 DEF Spared, SameHandles
    <2> QED
      BY <1>1, <1>6, <2>5, <2>7, <2>8
  <1> QED
    BY <1>5, <1>6

LEMMA ActsShape ==
  ASSUME Typed, NEW t \in Threads, Acts(t)
  PROVE  /\ Arc(t) \in DeviceIds
         /\ \E D \in Device, r \in ThreadState :
              /\ Acted(t, D, r) /\ r.arc = Arc(t)
              /\ Keeps(devices[Arc(t)], D, r)
         /\ issued' \in [Word -> DeviceIds \cup {Nothing}]
  <1>1. threads[t].pc = "inside" /\ Touched(t)
          /\ (issued' = issued
                \/ \E h : issued' = [issued EXCEPT ![h] = Arc(t)])
    BY AllocEffect, FreeEffect, UseEffect, CloseEffect DEF Acts
  <1>2. Arc(t) \in DeviceIds
    BY <1>1, InsideShape
  <1>3. issued' \in [Word -> DeviceIds \cup {Nothing}]
    BY <1>1, <1>2 DEF Typed
  <1> QED
    BY <1>1, <1>2, <1>3 DEF Touched

-----------------------------------------------------------------------------
(* References.                                                             *)

LEMMA InitReferenced ==
  ASSUME Init
  PROVE  Referenced /\ Quiet
  <1>1. Typed
    BY WidthAssumption
       DEF Init, Typed, DeviceIds, Device, NewDevice, ThreadState, Answer, Idle
  <1>2. \A t \in Threads : threads[t].pc = "idle" /\ Arc(t) = 0
    BY DEF Init, Idle, Arc
  <1>3. \A d \in DeviceIds : /\ ~devices[d].dropped /\ ~devices[d].closed
                            /\ ~devices[d].lost /\ devices[d].work = {}
    BY DEF Init, NewDevice
  <1>4. registry.ids = {} /\ registry.next = 1
    BY DEF Init
  <1>5. \A d \in DeviceIds : ~(d < 1)
    BY WidthAssumption DEF DeviceIds
  <1> QED
    BY <1>1, <1>2, <1>3, <1>4, <1>5
       DEF Referenced, Quiet, Opened, ObjectsOutliveCalls, Locked, Flushed, LostWithContext

(* What the threads' shapes say of a call at each of its steps.            *)
LEMMA ThreadShape ==
  ASSUME Typed, NEW t \in Threads
  PROVE  /\ Arc(t) \in DeviceIds \cup {0}
         /\ threads[t].pc \in {"fetched", "inside", "removing"} => Arc(t) \in DeviceIds
         /\ threads[t].pc \in {"idle", "called"} => Arc(t) = 0
  BY DEF Typed, ThreadState, Answer, Idle, Arc

(* A step of one thread t outside its device, and of the registry.         *)
Moved(t, r) ==
  /\ devices' = devices /\ issued' = issued
  /\ threads' = [threads EXCEPT ![t] = r]

LEMMA StepShape ==
  ASSUME Typed, NEW t \in Threads, NEW q \in Requests,
         Call(t, q) \/ Open(t) \/ Lookup(t) \/ Remove(t)
  PROVE  \E r \in ThreadState :
           /\ Moved(t, r)
           /\ r.pc # "inside"
           /\ r.arc \in {0, Arc(t)} \/ r.arc \in registry.ids
           /\ \/ registry' = registry
                 /\ r.pc # "removing"
              \/ /\ registry' = [registry EXCEPT !.calls = @ + 1]
                 /\ registry.calls < MaxCalls
                 /\ r.arc = 0 /\ r.pc # "removing"
              \/ /\ registry' = [registry EXCEPT !.ids = @ \cup {registry.next},
                                                !.next = @ + 1]
                 /\ registry.next <= Half - 1
                 /\ r.arc = 0 /\ r.pc # "removing"
              \/ /\ registry' = [registry EXCEPT !.ids = @ \ {Arc(t)}]
                 /\ threads[t].pc = "removing"
                 /\ r.arc = Arc(t) /\ r.pc = "leaving"
  <1>1. CASE Call(t, q)
    <2>1. Calling(q) \in ThreadState
      BY DEF Calling, ThreadState, Answer
    <2> QED
      BY <1>1, <2>1 DEF Call, Calling, Moved
  <1>2. CASE Open(t)
    <2> DEFINE r(code, id) == [pc |-> "leaving", arc |-> 0, code |-> code, id |-> id,
                               error |-> code # "ok"]
    <2>1. \A code \in Codes, id \in Nat : r(code, id) \in ThreadState
      BY DEF ThreadState, Answer
    <2>2. registry.next \in Nat
      BY DEF Typed, DeviceIds
    <2>3. r("ok", registry.next) \in ThreadState /\ r("failed", 0) \in ThreadState
      BY <2>1, <2>2 DEF Codes
    <2> QED
      BY <1>2, <2>3 DEF Open, Answers, Answered, Moved
  <1>3. CASE Lookup(t)
    <2>1. CASE threads[t].req.dev \in registry.ids
      <3> DEFINE r == [threads[t] EXCEPT !.pc = "fetched", !.arc = threads[t].req.dev]
      <3>1. threads[t] \in [pc: {"called"}, arc: {0}, req: Requests]
        BY <1>3 DEF Lookup, Typed, ThreadState, Answer, Idle
      <3>2. threads[t].req.dev \in DeviceIds
        BY <2>1 DEF Typed
      <3>3. r \in [pc: {"fetched", "inside"}, arc: DeviceIds, req: Requests]
              /\ r.pc = "fetched" /\ r.arc = threads[t].req.dev
        BY <3>1, <3>2
      <3>4. Moved(t, r) /\ registry' = registry
        BY <1>3, <2>1, <3>1 DEF Lookup, Moved, Typed
      <3> QED
        BY <2>1, <3>3, <3>4 DEF ThreadState, Answer
    <2>2. CASE threads[t].req.dev \notin registry.ids
      <3> DEFINE r == [pc |-> "leaving", arc |-> 0, code |-> "closed", id |-> 0, error |-> TRUE]
      <3>1. r \in ThreadState
        BY DEF ThreadState, Answer, Codes
      <3> QED
        BY <1>3, <2>2, <3>1 DEF Lookup, Answers, Answered, Moved
    <2> QED
      BY <2>1, <2>2
  <1>4. CASE Remove(t)
    <2> DEFINE r == [threads[t] EXCEPT !.pc = "leaving"]
    <2>1. threads[t] \in Answer({"removing"}, DeviceIds)
      BY <1>4 DEF Remove, Typed, ThreadState, Answer, Idle
    <2>2. r \in Answer({"leaving"}, DeviceIds \cup {0})
            /\ r.pc = "leaving" /\ r.arc = Arc(t)
      BY <2>1 DEF Answer, Arc
    <2>3. Moved(t, r)
      BY <1>4 DEF Remove, Moves, Moved
    <2> QED
      BY <1>4, <2>2, <2>3 DEF Remove, ThreadState, Answer
  <1> QED
    BY <1>1, <1>2, <1>3, <1>4

LEMMA StepReferenced ==
  ASSUME Referenced, NEW t \in Threads, NEW q \in Requests,
         Call(t, q) \/ Open(t) \/ Lookup(t) \/ Remove(t)
  PROVE  Referenced'
  <1>1. PICK r \in ThreadState :
           /\ Moved(t, r)
           /\ r.arc \in {0, Arc(t)} \/ r.arc \in registry.ids
           /\ \/ registry' = registry
              \/ /\ registry' = [registry EXCEPT !.calls = @ + 1]
                 /\ registry.calls < MaxCalls
              \/ /\ registry' = [registry EXCEPT !.ids = @ \cup {registry.next},
                                                !.next = @ + 1]
                 /\ registry.next <= Half - 1
              \/ registry' = [registry EXCEPT !.ids = @ \ {Arc(t)}]
    BY StepShape DEF Referenced
  <1>2. /\ registry' \in [ids: SUBSET DeviceIds, next: DeviceIds, calls: 0 .. MaxCalls]
        /\ \/ /\ registry'.ids \subseteq registry.ids
              /\ registry'.next = registry.next
           \/ /\ registry'.ids = registry.ids \cup {registry.next}
              /\ registry'.next = registry.next + 1
    <2> DEFINE R == [ids: SUBSET DeviceIds, next: DeviceIds, calls: 0 .. MaxCalls]
    <2>1. registry \in R
      BY DEF Referenced, Typed
    <2>2. CASE registry' = registry
      BY <2>1, <2>2
    <2>3. CASE /\ registry' = [registry EXCEPT !.calls = @ + 1]
               /\ registry.calls < MaxCalls
      BY <2>1, <2>3, WidthAssumption
    <2>4. CASE /\ registry' = [registry EXCEPT !.ids = @ \cup {registry.next},
                                              !.next = @ + 1]
               /\ registry.next <= Half - 1
      <3>1. registry.next \in DeviceIds /\ registry.next + 1 \in DeviceIds
        BY <2>1, <2>4, WidthAssumption DEF DeviceIds
      <3>2. registry.ids \cup {registry.next} \in SUBSET DeviceIds
        BY <2>1, <3>1
      <3> QED
        BY <2>1, <2>4, <3>1, <3>2
    <2>5. CASE registry' = [registry EXCEPT !.ids = @ \ {Arc(t)}]
      BY <2>1, <2>5
    <2> QED
      BY <1>1, <2>2, <2>3, <2>4, <2>5
  <1>3. /\ threads' \in [Threads -> ThreadState]
        /\ Arc(t)' = r.arc
        /\ \A u \in Threads \ {t} : Arc(u)' = Arc(u)
    BY <1>1 DEF Moved, Referenced, Typed, Arc
  <1>4. Typed'
    BY <1>1, <1>2, <1>3 DEF Moved, Referenced, Typed
  <1>5. registry.next \in Nat /\ \A d \in DeviceIds : d \in Nat
    BY DEF Referenced, Typed, DeviceIds
  <1>6. r.arc # 0 => r.arc \in registry.ids \/ r.arc = Arc(t)
    BY <1>1, Zenon
  <1>7. registry.next \notin registry.ids
    BY <1>5 DEF Referenced, Opened
  <1>8. Opened'
    <2>1. \A d \in registry'.ids : d < registry'.next
      BY <1>2, <1>5, <1>7 DEF Referenced, Opened, Typed
    <2>2. \A u \in Threads : Arc(u)' # 0 => Arc(u)' < registry'.next
      BY <1>2, <1>3, <1>5, <1>6, ThreadShape DEF Referenced, Opened, Typed
    <2>3. \A d \in DeviceIds : devices'[d].dropped => d < registry'.next
      BY <1>1, <1>2, <1>5 DEF Moved, Referenced, Opened
    <2> QED
      BY <2>1, <2>2, <2>3 DEF Opened
  <1>9. ObjectsOutliveCalls'
    <2>1. ~devices[registry.next].dropped
      BY <1>5 DEF Referenced, Opened, Typed
    <2>2. devices' = devices
      BY <1>1 DEF Moved
    <2> QED
      BY <1>2, <1>3, <1>6, <2>1, <2>2 DEF Referenced, ObjectsOutliveCalls
  <1> QED
    BY <1>4, <1>8, <1>9 DEF Referenced

LEMMA EnterShape ==
  ASSUME Typed, NEW t \in Threads, Enter(t)
  PROVE  /\ Arc(t) \in DeviceIds /\ threads[t].pc = "fetched"
         /\ devices[Arc(t)].lock = Nothing
         /\ registry' = registry /\ issued' = issued
         /\ \E r \in ThreadState :
              /\ threads' = [threads EXCEPT ![t] = r]
              /\ r.arc = Arc(t)
              /\ \/ devices' = devices /\ r.pc = "leaving"
                 \/ /\ ~devices[Arc(t)].closed
                    /\ devices' = [devices EXCEPT ![Arc(t)].lock = t]
                    /\ r.pc = "inside"
  <1>1. threads[t].pc = "fetched" /\ registry' = registry /\ issued' = issued
          /\ devices[Arc(t)].lock = Nothing
    BY DEF Enter, Arc
  <1>2. threads[t] \in [pc: {"fetched", "inside"}, arc: DeviceIds, req: Requests]
    BY <1>1 DEF Typed, ThreadState, Answer, Idle
  <1>3. CASE devices[Arc(t)].closed
    <2> DEFINE r == [pc |-> "leaving", arc |-> Arc(t), code |-> "closed", id |-> 0, error |-> TRUE]
    <2>1. r \in ThreadState
      BY <1>2 DEF ThreadState, Answer, Codes, Arc
    <2>2. devices' = devices /\ threads' = [threads EXCEPT ![t] = r]
      BY <1>3 DEF Enter, Answers, Answered, Arc
    <2> QED
      BY <1>1, <1>2, <2>1, <2>2 DEF Arc
  <1>4. CASE ~devices[Arc(t)].closed
    <2> DEFINE r == [threads[t] EXCEPT !.pc = "inside"]
    <2>1. r \in [pc: {"fetched", "inside"}, arc: DeviceIds, req: Requests]
            /\ r.pc = "inside" /\ r.arc = Arc(t)
      BY <1>2 DEF Arc
    <2>2. devices' = [devices EXCEPT ![Arc(t)].lock = t]
            /\ threads' = [threads EXCEPT ![t] = r]
      BY <1>4 DEF Enter, Moves, Arc
    <2> QED
      BY <1>1, <1>2, <1>4, <2>1, <2>2 DEF ThreadState, Answer, Arc
  <1> QED
    BY <1>3, <1>4

(* What goes with the last reference.                                      *)
LEMMA InnerDroppedType ==
  ASSUME NEW d \in DeviceIds, devices[d] \in Device, NEW D \in InnerDropped(d)
  PROVE  /\ D \in Device
         /\ D.closed = devices[d].closed /\ D.lock = devices[d].lock
         /\ D.next = devices[d].next /\ D.work = {} /\ D.buffers = {}
         /\ D.poisoned = devices[d].poisoned
         /\ devices[d].work = {} /\ ~LateFailures => D.lost = devices[d].lost
  <1> DEFINE E(b) == [devices[d] EXCEPT !.dropped = TRUE, !.lost = b, !.work = {},
                                        !.flying = FALSE, !.buffers = {}]
  <1>1. \A b \in BOOLEAN :
          /\ E(b) \in Device /\ E(b).closed = devices[d].closed
          /\ E(b).lock = devices[d].lock /\ E(b).next = devices[d].next
          /\ E(b).work = {} /\ E(b).buffers = {}
          /\ E(b).poisoned = devices[d].poisoned /\ E(b).lost = b
    BY DEF Device
  <1>2. PICK lost \in {devices[d].work # {}, Undone(d)} : D = E(devices[d].lost \/ lost)
    BY DEF InnerDropped
  <1> DEFINE b == devices[d].lost \/ lost
  <1>3. b \in BOOLEAN /\ D = E(b)
    BY <1>2
  <1>4. devices[d].work = {} /\ ~LateFailures => ~lost
    BY <1>2 DEF Undone
  <1>5. devices[d].lost \in BOOLEAN
    BY DEF Device
  <1>6. devices[d].work = {} /\ ~LateFailures => b = devices[d].lost
    BY <1>4, <1>5
  <1> HIDE DEF E, b
  <1> QED
    BY <1>1, <1>3, <1>6

(* A step that changes one device's entry, without dropping it, and leaves *)
(* its call the same reference.                                            *)
LEMMA ReferencedKept ==
  ASSUME Referenced, NEW t \in Threads, NEW D \in Device, NEW r \in ThreadState,
         Arc(t) \in DeviceIds, D.dropped = devices[Arc(t)].dropped, r.arc = Arc(t),
         registry' = registry,
         devices' = [devices EXCEPT ![Arc(t)] = D],
         threads' = [threads EXCEPT ![t] = r],
         issued' \in [Word -> DeviceIds \cup {Nothing}]
  PROVE  Referenced'
  <1>1. Typed'
    BY DEF Referenced, Typed
  <1>2. \A u \in Threads : Arc(u)' = Arc(u)
    BY DEF Referenced, Typed, Arc
  <1>3. \A d \in DeviceIds : devices'[d].dropped = devices[d].dropped
    BY DEF Referenced, Typed
  <1>4. \A u \in Threads : Arc(u) \in DeviceIds \cup {0}
    BY ThreadShape DEF Referenced
  <1>5. registry.ids \subseteq DeviceIds
    BY DEF Referenced, Typed
  <1> QED
    BY <1>1, <1>2, <1>3, <1>4, <1>5 DEF Referenced, Opened, ObjectsOutliveCalls

LEMMA EnterReferenced ==
  ASSUME Referenced, NEW t \in Threads, Enter(t)
  PROVE  Referenced'
  <1>1. /\ Arc(t) \in DeviceIds /\ registry' = registry
        /\ issued' \in [Word -> DeviceIds \cup {Nothing}]
    BY EnterShape DEF Referenced, Typed
  <1>2. PICK r \in ThreadState :
          /\ threads' = [threads EXCEPT ![t] = r]
          /\ r.arc = Arc(t)
          /\ \/ devices' = devices
             \/ devices' = [devices EXCEPT ![Arc(t)].lock = t]
    BY EnterShape DEF Referenced
  <1>3. devices \in [DeviceIds -> Device]
    BY DEF Referenced, Typed
  <1>4. CASE devices' = devices
    <2>1. devices' = [devices EXCEPT ![Arc(t)] = devices[Arc(t)]]
      BY <1>1, <1>3, <1>4
    <2>2. devices[Arc(t)] \in Device
      BY <1>1, <1>3
    <2> QED
      BY <1>1, <1>2, <2>1, <2>2, ReferencedKept
  <1>5. CASE devices' = [devices EXCEPT ![Arc(t)].lock = t]
    <2> DEFINE D == [devices[Arc(t)] EXCEPT !.lock = t]
    <2>1. D \in Device /\ D.dropped = devices[Arc(t)].dropped
      BY <1>1, <1>3 DEF Device
    <2>2. devices' = [devices EXCEPT ![Arc(t)] = D]
      BY <1>5
    <2> HIDE DEF D
    <2> QED
      BY <1>1, <1>2, <2>1, <2>2, ReferencedKept
  <1> QED
    BY <1>2, <1>4, <1>5

LEMMA ActsReferenced ==
  ASSUME Referenced, NEW t \in Threads, Acts(t)
  PROVE  Referenced'
  <1>1. /\ Arc(t) \in DeviceIds
        /\ issued' \in [Word -> DeviceIds \cup {Nothing}]
    BY ActsShape DEF Referenced
  <1>2. PICK D \in Device, r \in ThreadState :
          Acted(t, D, r) /\ r.arc = Arc(t) /\ Keeps(devices[Arc(t)], D, r)
    BY ActsShape DEF Referenced
  <1> QED
    BY <1>1, <1>2, ReferencedKept DEF Acted, Keeps

(* Leave drops nothing that another call, or the registry, still holds.    *)
LEMMA LeavingReferenced ==
  ASSUME Referenced, NEW t \in Threads, Leave(t)
  PROVE  Referenced'
  <1>1. /\ registry' = registry /\ issued' = issued
        /\ threads' = [threads EXCEPT ![t] = Idle]
        /\ IF LastReference(Arc(t), t) THEN Becomes(t, InnerDropped(Arc(t)))
           ELSE devices' = devices
    BY DEF Leave
  <1>2. threads' \in [Threads -> ThreadState] /\ Arc(t)' = 0
          /\ \A u \in Threads \ {t} : Arc(u)' = Arc(u)
    BY <1>1 DEF Referenced, Typed, ThreadState, Answer, Idle, Arc
  <1>3. CASE ~LastReference(Arc(t), t)
    BY <1>1, <1>2, <1>3 DEF Referenced, Typed, Opened, ObjectsOutliveCalls
  <1>4. CASE LastReference(Arc(t), t)
    <2>1. Arc(t) \in DeviceIds /\ Arc(t) \notin registry.ids
            /\ \A u \in Threads \ {t} : Arc(u) # Arc(t)
      BY <1>4, ThreadShape DEF LastReference, Arc, Referenced
    <2>2. PICK D \in InnerDropped(Arc(t)) : devices' = [devices EXCEPT ![Arc(t)] = D]
      BY <1>1, <1>4 DEF Becomes
    <2> D \in Device
      BY <2>1, InnerDroppedType DEF Referenced, Typed
    <2>3. devices' \in [DeviceIds -> Device]
            /\ \A d \in DeviceIds \ {Arc(t)} : devices'[d] = devices[d]
      BY <2>1, <2>2 DEF Referenced, Typed
    <2>4. Typed'
      BY <1>1, <1>2, <2>3 DEF Referenced, Typed
    <2>5. \A u \in Threads : Arc(u) \in DeviceIds \cup {0}
      BY ThreadShape DEF Referenced
    <2>6. Opened'
      <3>1. Arc(t) # 0
        BY <2>1 DEF DeviceIds
      <3> QED
        BY <1>1, <1>2, <2>1, <2>3, <3>1 DEF Referenced, Opened
    <2>7. ObjectsOutliveCalls'
      <3>1. registry.ids \subseteq DeviceIds
        BY DEF Referenced, Typed
      <3> QED
        BY <1>1, <1>2, <2>1, <2>3, <2>5, <3>1 DEF Referenced, ObjectsOutliveCalls
    <2> QED
      BY <2>4, <2>6, <2>7 DEF Referenced
  <1> QED
    BY <1>3, <1>4

LEMMA NextReferenced ==
  ASSUME Referenced, [Next]_vars
  PROVE  Referenced'
  <1>1. CASE UNCHANGED vars
    BY <1>1 DEF vars, Referenced, Typed, Opened, ObjectsOutliveCalls, Arc
  <1>2. ASSUME NEW t \in Threads, NEW q \in Requests, Call(t, q)
        PROVE  Referenced'
    BY <1>2, StepReferenced
  <1>3. ASSUME NEW t \in Threads, Open(t) \/ Lookup(t) \/ Remove(t)
        PROVE  Referenced'
    <2>1. [op |-> "open"] \in Requests
      BY DEF Requests
    <2> QED
      BY <1>3, <2>1, StepReferenced
  <1>4. ASSUME NEW t \in Threads, Enter(t) PROVE Referenced'
    BY <1>4, EnterReferenced
  <1>5. ASSUME NEW t \in Threads, Acts(t) PROVE Referenced'
    BY <1>5, ActsReferenced
  <1>6. ASSUME NEW t \in Threads, Leave(t) PROVE Referenced'
    BY <1>6, LeavingReferenced
  <1> QED
    BY <1>1, <1>2, <1>3, <1>4, <1>5, <1>6 DEF Next, Acts

(* While a call holds a device, and while the registry lists it, its       *)
(* objects exist: ack_close may remove a device others are entering, and   *)
(* Inner::drop runs with the last of them (ffi.rs:28-31).                  *)
THEOREM ObjectsAreReferenced == Spec => []ObjectsOutliveCalls
  <1>1. Init => Referenced
    BY InitReferenced
  <1>2. Referenced /\ [Next]_vars => Referenced'
    BY NextReferenced
  <1>3. Referenced => ObjectsOutliveCalls
    BY DEF Referenced
  <1> QED
    BY <1>1, <1>2, <1>3, PTL DEF Spec

(* Ids, sequence numbers, locks and references have their types.           *)
THEOREM RegistryTypes == Spec => []TypeOK
  <1>1. Init => Referenced
    BY InitReferenced
  <1>2. Referenced /\ [Next]_vars => Referenced'
    BY NextReferenced
  <1>3. Referenced => TypeOK
    BY ThreadShape DEF Referenced, Typed, TypeOK, Arc
  <1> QED
    BY <1>1, <1>2, <1>3, PTL DEF Spec

-----------------------------------------------------------------------------
(* Recorded work.                                                          *)

LEMMA StepQuiet ==
  ASSUME Quiet, Typed', NEW t \in Threads, NEW q \in Requests,
         Call(t, q) \/ Open(t) \/ Lookup(t) \/ Remove(t)
  PROVE  Quiet'
  <1>1. PICK r \in ThreadState :
           /\ Moved(t, r)
           /\ r.pc \notin {"inside", "removing"}
           /\ \/ registry' = registry
              \/ registry' = [registry EXCEPT !.calls = @ + 1]
              \/ registry' = [registry EXCEPT !.ids = @ \cup {registry.next},
                                             !.next = @ + 1]
              \/ /\ registry' = [registry EXCEPT !.ids = @ \ {Arc(t)}]
                 /\ threads[t].pc = "removing"
    BY StepShape DEF Quiet
  <1>2. \A d \in DeviceIds :
          d < registry'.next /\ d \notin registry'.ids =>
            \/ d < registry.next /\ d \notin registry.ids
            \/ d = Arc(t) /\ threads[t].pc = "removing"
    <2>1. registry \in [ids: SUBSET DeviceIds, next: DeviceIds, calls: 0 .. MaxCalls]
      BY DEF Quiet, Typed
    <2>2. registry.next \in Nat /\ \A d \in DeviceIds : d \in Nat
      BY <2>1 DEF DeviceIds
    <2>3. CASE registry' = registry \/ registry' = [registry EXCEPT !.calls = @ + 1]
      BY <2>1, <2>3
    <2>4. CASE registry' = [registry EXCEPT !.ids = @ \cup {registry.next},
                                           !.next = @ + 1]
      <3>1. registry'.ids = registry.ids \cup {registry.next}
              /\ registry'.next = registry.next + 1
        BY <2>1, <2>4
      <3> QED
        BY <2>2, <3>1
    <2>5. CASE /\ registry' = [registry EXCEPT !.ids = @ \ {Arc(t)}]
               /\ threads[t].pc = "removing"
      <3>1. registry'.ids = registry.ids \ {Arc(t)} /\ registry'.next = registry.next
        BY <2>1, <2>5
      <3> QED
        BY <2>5, <3>1
    <2> QED
      BY <1>1, <2>3, <2>4, <2>5
  <1>3. /\ devices' = devices
        /\ \A u \in Threads \ {t} : threads'[u] = threads[u]
        /\ threads'[t].pc \notin {"inside", "removing"}
    BY <1>1 DEF Moved, Quiet, Typed
  <1>4. Locked' /\ LostWithContext'
    BY <1>3 DEF Quiet, Locked, LostWithContext, Arc
  <1>5. Flushed'
    BY <1>2, <1>3 DEF Quiet, Flushed, Arc
  <1> QED
    BY <1>4, <1>5 DEF Quiet

LEMMA EnterQuiet ==
  ASSUME Quiet, Typed', NEW t \in Threads, Enter(t)
  PROVE  Quiet'
  <1>1. /\ Arc(t) \in DeviceIds /\ registry' = registry
        /\ devices[Arc(t)].lock = Nothing
    BY EnterShape DEF Quiet
  <1>2. PICK r \in ThreadState :
          /\ threads' = [threads EXCEPT ![t] = r]
          /\ r.arc = Arc(t)
          /\ \/ devices' = devices /\ r.pc = "leaving"
             \/ /\ ~devices[Arc(t)].closed
                /\ devices' = [devices EXCEPT ![Arc(t)].lock = t]
                /\ r.pc = "inside"
    BY EnterShape DEF Quiet
  <1>3. /\ threads'[t] = r /\ \A u \in Threads \ {t} : threads'[u] = threads[u]
        /\ devices \in [DeviceIds -> Device]
    BY <1>2 DEF Quiet, Typed
  <1>4. \A u \in Threads : threads[u].pc = "inside" => Arc(u) # Arc(t)
    BY <1>1, ProgramAssumption DEF Quiet, Locked
  <1>5. \A d \in DeviceIds :
          /\ devices'[d].closed = devices[d].closed
          /\ devices'[d].work = devices[d].work
          /\ devices'[d].lost = devices[d].lost
          /\ devices'[d].poisoned = devices[d].poisoned
          /\ d # Arc(t) => devices'[d].lock = devices[d].lock
    BY <1>1, <1>2, <1>3 DEF Device
  <1>6. r.pc = "inside" => devices'[Arc(t)].lock = t /\ ~devices'[Arc(t)].closed
    BY <1>1, <1>2, <1>3 DEF Device
  <1>7. \A u \in Threads : threads[u].pc \in {"inside", "removing"} => Arc(u) \in DeviceIds
    BY ThreadShape DEF Quiet
  <1>8. Locked'
    BY <1>2, <1>3, <1>4, <1>5, <1>6, <1>7 DEF Quiet, Locked, Arc
  <1>9. Flushed' /\ LostWithContext'
    BY <1>1, <1>2, <1>3, <1>5, <1>7 DEF Quiet, Flushed, LostWithContext, Arc
  <1> QED
    BY <1>8, <1>9 DEF Quiet

LEMMA ActsQuiet ==
  ASSUME Quiet, Typed', NEW t \in Threads, Acts(t), ~LooseUploads
  PROVE  Quiet'
  <1>1. Arc(t) \in DeviceIds
    BY ActsShape DEF Quiet
  <1>2. PICK D \in Device, r \in ThreadState :
          Acted(t, D, r) /\ r.arc = Arc(t) /\ Keeps(devices[Arc(t)], D, r)
    BY ActsShape DEF Quiet
  <1>3. /\ threads'[t] = r /\ \A u \in Threads \ {t} : threads'[u] = threads[u]
        /\ devices'[Arc(t)] = D /\ \A d \in DeviceIds \ {Arc(t)} : devices'[d] = devices[d]
        /\ registry' = registry
    BY <1>1, <1>2 DEF Acted, Quiet, Typed
  <1>4. devices[Arc(t)].lock = t /\ ~devices[Arc(t)].closed
    BY <1>2 DEF Acted, Quiet, Locked
  <1>5. \A u \in Threads \ {t} : threads[u].pc = "inside" => Arc(u) # Arc(t)
    BY <1>4 DEF Quiet, Locked
  <1>6. \A u \in Threads : threads[u].pc \in {"inside", "removing"} => Arc(u) \in DeviceIds
    BY ThreadShape DEF Quiet
  <1>7. Locked'
    BY <1>2, <1>3, <1>5, <1>6 DEF Keeps, Quiet, Locked, Arc
  <1>8. D.closed => r.pc = "removing"
    BY <1>2, <1>4 DEF Keeps
  <1>9. D.work \subseteq {"items"} /\ (D.closed => D.work = {})
    BY <1>1, <1>2, <1>8 DEF Keeps, Quiet, Flushed
  <1>10. Flushed'
    <2>1. \A u \in Threads : threads'[u].pc = "removing" => devices'[Arc(u)'].closed
      BY <1>2, <1>3, <1>4, <1>6 DEF Keeps, Quiet, Flushed, Arc
    <2>2. \A d \in DeviceIds : d < registry'.next /\ d \notin registry'.ids
                                => devices'[d].closed
      BY <1>3, <1>4 DEF Quiet, Flushed
    <2>3. \A d \in DeviceIds : /\ devices'[d].closed => devices'[d].work = {}
                              /\ devices'[d].work \subseteq {"items"}
      BY <1>3, <1>9 DEF Quiet, Flushed
    <2> QED
      BY <2>1, <2>2, <2>3 DEF Flushed, Arc
  <1>11. LostWithContext'
    BY <1>1, <1>2, <1>3 DEF Keeps, Quiet, LostWithContext
  <1> QED
    BY <1>7, <1>10, <1>11 DEF Quiet

(* What goes was closed, and so held no work.                              *)
LEMMA LeavingKeeps ==
  ASSUME Quiet, Referenced, NEW t \in Threads, Leave(t), ~LateFailures, NEW d \in DeviceIds
  PROVE  /\ devices'[d].closed = devices[d].closed
         /\ devices'[d].lock = devices[d].lock
         /\ devices'[d].work \in {devices[d].work, {}}
         /\ devices'[d].poisoned = devices[d].poisoned
         /\ devices'[d].lost = devices[d].lost
  <1>1. CASE ~LastReference(Arc(t), t)
    BY <1>1 DEF Leave
  <1>2. CASE LastReference(Arc(t), t)
    <2>1. Arc(t) \in DeviceIds /\ Arc(t) # 0 /\ Arc(t) \notin registry.ids
      BY <1>2, ThreadShape DEF LastReference, Quiet
    <2>2. devices[Arc(t)].work = {}
      BY <2>1 DEF Referenced, Opened, Quiet, Flushed
    <2>3. PICK D \in InnerDropped(Arc(t)) : devices' = [devices EXCEPT ![Arc(t)] = D]
      BY <1>2 DEF Leave, Becomes
    <2>4. /\ D.closed = devices[Arc(t)].closed /\ D.lock = devices[Arc(t)].lock
          /\ D.work = {} /\ D.poisoned = devices[Arc(t)].poisoned
          /\ D.lost = devices[Arc(t)].lost
      BY <2>1, <2>2, InnerDroppedType DEF Quiet, Typed
    <2>5. /\ devices'[Arc(t)] = D
          /\ \A e \in DeviceIds \ {Arc(t)} : devices'[e] = devices[e]
      BY <2>1, <2>3 DEF Quiet, Typed
    <2> QED
      BY <2>4, <2>5
  <1> QED
    BY <1>1, <1>2

LEMMA LeavingQuiet ==
  ASSUME Quiet, Referenced, Typed', NEW t \in Threads, Leave(t), ~LateFailures
  PROVE  Quiet'
  <1>1. /\ registry' = registry
        /\ threads' = [threads EXCEPT ![t] = Idle]
    BY DEF Leave
  <1>2. /\ threads'[t].pc = "idle" /\ \A u \in Threads \ {t} : threads'[u] = threads[u]
        /\ \A u \in Threads : threads[u].pc \in {"inside", "removing"} => Arc(u) \in DeviceIds
    BY <1>1, ThreadShape DEF Quiet, Typed, Idle
  <1>3. \A d \in DeviceIds :
          /\ devices'[d].closed = devices[d].closed
          /\ devices'[d].lock = devices[d].lock
          /\ devices'[d].work \in {devices[d].work, {}}
          /\ devices'[d].poisoned = devices[d].poisoned
          /\ devices'[d].lost = devices[d].lost
    BY LeavingKeeps
  <1>4. Locked'
    BY <1>2, <1>3 DEF Quiet, Locked, Arc
  <1>5. Flushed' /\ LostWithContext'
    BY <1>1, <1>2, <1>3 DEF Quiet, Flushed, LostWithContext, Arc
  <1> QED
    BY <1>4, <1>5 DEF Quiet

LEMMA NextQuiet ==
  ASSUME Quiet, Referenced, [Next]_vars, ~LooseUploads, ~LateFailures
  PROVE  Quiet'
  <1>0. Typed'
    BY NextReferenced DEF Referenced
  <1>1. CASE UNCHANGED vars
    BY <1>1 DEF vars, Quiet, Typed, Locked, Flushed, LostWithContext, Arc
  <1>2. ASSUME NEW t \in Threads, NEW q \in Requests, Call(t, q)
        PROVE  Quiet'
    BY <1>0, <1>2, StepQuiet
  <1>3. ASSUME NEW t \in Threads, Open(t) \/ Lookup(t) \/ Remove(t)
        PROVE  Quiet'
    <2>1. [op |-> "open"] \in Requests
      BY DEF Requests
    <2> QED
      BY <1>0, <1>3, <2>1, StepQuiet
  <1>4. ASSUME NEW t \in Threads, Enter(t) PROVE Quiet'
    BY <1>0, <1>4, EnterQuiet
  <1>5. ASSUME NEW t \in Threads, Acts(t) PROVE Quiet'
    BY <1>0, <1>5, ActsQuiet
  <1>6. ASSUME NEW t \in Threads, Leave(t) PROVE Quiet'
    BY <1>0, <1>6, LeavingQuiet
  <1> QED
    BY <1>1, <1>2, <1>3, <1>4, <1>5, <1>6 DEF Next, Acts

(* A call that acts says so when work is lost under it.                    *)
LEMMA ActsTell ==
  ASSUME Quiet, NEW t \in Threads, Acts(t)
  PROVE  LossIsTold
  <1>1. Arc(t) \in DeviceIds
    BY ActsShape DEF Quiet
  <1>2. PICK D \in Device, r \in ThreadState :
          Acted(t, D, r) /\ r.arc = Arc(t) /\ Keeps(devices[Arc(t)], D, r)
    BY ActsShape DEF Quiet
  <1>3. /\ threads'[t] = r /\ \A u \in Threads \ {t} : threads'[u] = threads[u]
        /\ devices'[Arc(t)] = D /\ \A d \in DeviceIds \ {Arc(t)} : devices'[d] = devices[d]
        /\ threads[t].pc = "inside"
    BY <1>1, <1>2 DEF Acted, Quiet, Typed
  <1>4. r.pc # "inside" /\ (D.lost => devices[Arc(t)].lost \/ r.error)
    BY <1>2 DEF Keeps
  <1>5. ASSUME NEW d \in DeviceIds, LosesWork(d)
        PROVE  \E u \in Threads :
                 /\ Arc(u) = d /\ threads[u].pc = "inside"
                 /\ threads'[u].pc # "inside" /\ threads'[u].error
    BY <1>3, <1>4, <1>5 DEF LosesWork
  <1>6. ASSUME devices[Arc(t)].lost, threads[t].req.op \notin {"free", "close"}
        PROVE  threads'[t].code # "ok"
    <2>1. devices[Arc(t)].poisoned
      BY <1>1, <1>6 DEF Quiet, LostWithContext
    <2>2. \E code \in {"failed", "foreign", "freed"} : Replied(t, "leaving", code, 0)
      <3>1. CASE Alloc(t)
        <4>1. Becomes(t, {Unlocked(Arc(t))}) /\ Leaves(t, "failed") /\ registry' = registry
          BY <2>1, <3>1 DEF Alloc, Becomes, Inside
        <4> QED
          BY <1>3, <4>1, UnlockedStep DEF Quiet, Codes
      <3>2. CASE Use(t)
        BY <2>1, <3>2, UseEffect DEF Quiet, Refusal
      <3> QED
        BY <1>6, <3>1, <3>2 DEF Acts, Free, Close, Inside
    <2>3. PICK code \in {"failed", "foreign", "freed"}, error \in BOOLEAN :
            threads' = [threads EXCEPT ![t] = Reply(t, "leaving", code, 0, error)]
      BY <2>2 DEF Replied, ReplyGiven
    <2> QED
      BY <2>3 DEF Quiet, Typed, Reply
  <1>7. \A d \in DeviceIds : devices[d].lost => \A u \in Threads :
          /\ Arc(u) = d /\ threads[u].pc = "inside" /\ threads'[u].pc # "inside"
          /\ threads[u].req.op \notin {"free", "close"}
          => threads'[u].code # "ok"
    BY <1>3, <1>6
  <1> QED
    BY <1>5, <1>7 DEF LossIsTold

(* Any other step loses nothing, and answers no call that was inside.      *)
LEMMA OthersTell ==
  ASSUME Quiet,
         \A d \in DeviceIds : devices'[d].lost = devices[d].lost,
         \A u \in Threads : threads[u].pc = "inside" => threads'[u].pc = "inside"
  PROVE  LossIsTold
  BY DEF LossIsTold, LosesWork

LEMMA NextTells ==
  ASSUME Quiet, Referenced, Next, ~LateFailures
  PROVE  LossIsTold
  <1>1. ASSUME NEW t \in Threads, NEW q \in Requests, Call(t, q)
        PROVE  LossIsTold
    <2>1. /\ devices' = devices /\ threads[t].pc # "inside"
          /\ \A u \in Threads \ {t} : threads'[u] = threads[u]
      BY <1>1 DEF Call, Idle, Quiet, Typed
    <2>2. \A u \in Threads : threads[u].pc = "inside" => threads'[u].pc = "inside"
      BY <2>1
    <2> QED
      BY <2>1, <2>2, OthersTell
  <1>2. ASSUME NEW t \in Threads, Open(t) \/ Lookup(t) \/ Remove(t)
        PROVE  LossIsTold
    <2>1. devices' = devices /\ threads[t].pc # "inside"
      BY <1>2 DEF Open, Lookup, Remove
    <2>2. \A u \in Threads \ {t} : threads'[u] = threads[u]
      BY <1>2 DEF Open, Lookup, Remove, Moves, Answers, Answered, Quiet, Typed
    <2> QED
      BY <2>1, <2>2, OthersTell
  <1>3. ASSUME NEW t \in Threads, Enter(t) PROVE LossIsTold
    <2>1. threads[t].pc = "fetched" /\ Arc(t) \in DeviceIds
      BY <1>3, EnterShape DEF Quiet
    <2>2. PICK r : threads' = [threads EXCEPT ![t] = r]
      BY <1>3, EnterShape DEF Quiet
    <2>3. devices' = devices \/ devices' = [devices EXCEPT ![Arc(t)].lock = t]
      BY <1>3, EnterShape DEF Quiet
    <2>4. \A d \in DeviceIds : devices'[d].lost = devices[d].lost
      BY <2>1, <2>3 DEF Quiet, Typed, Device
    <2>5. \A u \in Threads \ {t} : threads'[u] = threads[u]
      BY <2>2 DEF Quiet, Typed
    <2> QED
      BY <2>1, <2>4, <2>5, OthersTell
  <1>4. ASSUME NEW t \in Threads, Acts(t) PROVE LossIsTold
    BY <1>4, ActsTell
  <1>5. ASSUME NEW t \in Threads, Leave(t) PROVE LossIsTold
    <2>1. threads[t].pc = "leaving" /\ \A u \in Threads \ {t} : threads'[u] = threads[u]
      BY <1>5 DEF Leave, Quiet, Typed
    <2>2. \A d \in DeviceIds : devices'[d].lost = devices[d].lost
      BY <1>5, LeavingKeeps
    <2> QED
      BY <2>1, <2>2, OthersTell
  <1> QED
    BY <1>1, <1>2, <1>3, <1>4, <1>5 DEF Next, Acts

(* Accepted work is submitted and waited for before a device goes, or the  *)
(* call that lost it has a message to read, a close answered ACK_OK        *)
(* included; and a context that lost some accepts no more, however the     *)
(* close and the calls inside it meet (ffi.rs:2349-2393, 1701-1706): as    *)
(* long as no batch is uploads alone, and none in flight fails unwatched.  *)
THEOREM LossesReachACaller ==
  ASSUME ~LooseUploads, ~LateFailures
  PROVE  Spec => LossesAreTold
  <1>1. Init => Referenced /\ Quiet
    BY InitReferenced
  <1>2. Referenced /\ Quiet /\ [Next]_vars => Referenced' /\ Quiet'
    BY NextReferenced, NextQuiet
  <1>3. Referenced /\ Quiet /\ [Next]_vars => [LossIsTold]_vars
    BY NextTells
  <1> QED
    BY <1>1, <1>2, <1>3, PTL DEF Spec, LossesAreTold

-----------------------------------------------------------------------------
(* The handles, and what a call does to the table of them.                 *)

(* Past the flag a device is closed for good, and was opened.              *)
Marked ==
  /\ \A t \in Threads : threads[t].pc = "removing" => devices[Arc(t)].closed
  /\ \A d \in DeviceIds :
       /\ d < registry.next /\ d \notin registry.ids => devices[d].closed
       /\ devices[d].closed => d < registry.next

(* A call in a device is the call on that device, and the buffer it names  *)
(* was handed out once.                                                    *)
Asking ==
  \A t \in Threads :
    /\ threads[t].pc \in {"fetched", "inside"} =>
         threads[t].req.op # "open" /\ threads[t].req.dev = Arc(t)
    /\ /\ threads[t].pc \in {"called", "fetched", "inside"}
       /\ threads[t].req.op \in {"free", "use"}
       => issued[threads[t].req.buf] # Nothing

(* The handles handed out are those of sequence numbers below next, and a  *)
(* device's live buffers are among its own.                                *)
Handed ==
  /\ \A d \in DeviceIds : \A s \in devices[d].buffers :
       /\ d < registry.next /\ s < devices[d].next
       /\ issued[BufferHandle(d, s)] = d
  /\ \A h \in Word : issued[h] # Nothing =>
       /\ issued[h] < registry.next
       /\ \E s \in Sequences :
            s < devices[issued[h]].next /\ h = BufferHandle(issued[h], s)

Coherent == Typed /\ Opened /\ Locked /\ Marked /\ Asking /\ Handed
-----------------------------------------------------------------------------
LEMMA HalvesApart ==
  ASSUME NEW b \in Nat, NEW p \in Nat, NEW q \in Nat, NEW r \in Nat, NEW u \in Nat,
         r < b, u < b, p * b + r = q * b + u
  PROVE  p = q /\ r = u
  <1>1. \A i \in Nat, j \in Nat : i < j => i * b + b <= j * b
    <2>1. SUFFICES ASSUME NEW i \in Nat, NEW j \in Nat, i < j
                   PROVE  i * b + b <= j * b
      OBVIOUS
    <2>2. PICK k \in Nat : j = i + 1 + k
      <3>1. j - i - 1 \in Nat /\ j = i + 1 + (j - i - 1)
        BY <2>1
      <3> QED
        BY <3>1
    <2>3. j * b = i * b + b + k * b
      BY <2>2
    <2>4. k * b \in Nat /\ i * b \in Nat
      OBVIOUS
    <2> QED
      BY <2>3, <2>4
  <1>2. p * b \in Nat /\ q * b \in Nat
    OBVIOUS
  <1>3. ~(p < q) /\ ~(q < p)
    BY <1>1, <1>2
  <1> QED
    BY <1>2, <1>3

LEMMA Halves ==
  ASSUME NEW b \in Nat \ {0}, NEW p \in Nat, NEW r \in Nat, r < b
  PROVE  (p * b + r) \div b = p /\ (p * b + r) % b = r
  <1> DEFINE w == p * b + r
  <1>1. w \in Nat
    OBVIOUS
  <1> HIDE DEF w
  <1>2. w \div b \in Nat /\ w % b \in Nat /\ w % b < b
    BY <1>1
  <1>3. w = b * (w \div b) + (w % b)
    BY <1>1
  <1>4. w = (w \div b) * b + (w % b)
    BY <1>2, <1>3
  <1>5. (w \div b) * b + (w % b) = p * b + r
    BY <1>4 DEF w
  <1>6. w \div b = p /\ w % b = r
    <2> DEFINE x == w \div b
               y == w % b
    <2>1. x \in Nat /\ y \in Nat /\ y < b /\ x * b + y = p * b + r
      BY <1>2, <1>5
    <2> HIDE DEF x, y
    <2>2. x = p /\ y = r
      BY <2>1, HalvesApart
    <2> QED
      BY <2>2 DEF x, y
  <1> QED
    BY <1>6 DEF w

(* A handle names its device and its sequence number, and no other pair.   *)
LEMMA HandleParts ==
  ASSUME NEW d \in DeviceIds, d <= Half - 1, NEW s \in Sequences
  PROVE  /\ BufferHandle(d, s) \in Word
         /\ Owner(BufferHandle(d, s)) = d
         /\ Sequence(BufferHandle(d, s)) = s
  <1>1. /\ Half \in Nat \ {0} /\ d \in Nat /\ s \in Nat
        /\ d <= Half - 1 /\ s <= Half - 1
    BY WidthAssumption DEF DeviceIds, Sequences
  <1>2. d * Half \in Nat /\ d * Half + Half <= Half * Half
    <2>1. (Half - 1 - d) * Half \in Nat
      BY <1>1
    <2>2. (Half - 1 - d) * Half = Half * Half - Half - d * Half
      BY <1>1
    <2>3. d * Half \in Nat /\ Half * Half \in Nat
      BY <1>1
    <2> QED
      BY <1>1, <2>1, <2>2, <2>3
  <1>3. (d * Half) % (Half * Half) = d * Half
    <2> DEFINE x == d * Half
               y == Half * Half
    <2>1. x \in Nat /\ y \in Nat /\ x < y
      BY <1>1, <1>2
    <2> HIDE DEF x, y
    <2>2. x % y = x
      BY <2>1
    <2> QED
      BY <2>2 DEF x, y
  <1>4. BufferHandle(d, s) = d * Half + s
    BY <1>3 DEF BufferHandle
  <1>5. d * Half + s \in Word
    <2> DEFINE x == d * Half
               y == Half * Half
    <2>1. x \in Nat /\ y \in Nat /\ x + Half <= y
      BY <1>1, <1>2
    <2> HIDE DEF x, y
    <2>2. x + s \in 0 .. y - 1
      BY <1>1, <2>1
    <2> QED
      BY <2>2 DEF x, y, Word
  <1>6. (d * Half + s) \div Half = d /\ (d * Half + s) % Half = s
    <2>1. s < Half
      BY <1>1
    <2> QED
      BY <1>1, <2>1, Halves
  <1> QED
    BY <1>4, <1>5, <1>6, Zenon DEF Owner, Sequence

-----------------------------------------------------------------------------
(* Every step keeps the handles coherent.                                  *)

(* A handle handed out tells its device and its number, and a live one is  *)
(* among its device's buffers.                                             *)
LEMMA Owned ==
  ASSUME Coherent, NEW h \in Word, issued[h] # Nothing
  PROVE  /\ issued[h] \in DeviceIds /\ issued[h] <= Half - 1
         /\ Owner(h) = issued[h]
         /\ Sequence(h) \in Sequences
         /\ Sequence(h) < devices[issued[h]].next
         /\ h = BufferHandle(issued[h], Sequence(h))
  <1>1. issued[h] \in DeviceIds /\ issued[h] < registry.next
    BY DEF Coherent, Typed, Handed
  <1>2. registry.next \in Nat /\ registry.next <= Half /\ Half \in Nat
    BY WidthAssumption DEF Coherent, Typed, DeviceIds
  <1>3. issued[h] <= Half - 1
    BY <1>1, <1>2 DEF DeviceIds
  <1>4. PICK s \in Sequences :
          s < devices[issued[h]].next /\ h = BufferHandle(issued[h], s)
    BY DEF Coherent, Handed
  <1>5. Owner(h) = issued[h] /\ Sequence(h) = s
    BY <1>1, <1>3, <1>4, HandleParts
  <1> QED
    BY <1>1, <1>3, <1>4, <1>5

(* The devices a call can be in were opened with an id that can be packed. *)
LEMMA Packable ==
  ASSUME Coherent, NEW t \in Threads, Arc(t) \in DeviceIds
  PROVE  Arc(t) < registry.next /\ Arc(t) <= Half - 1
  <1>1. Arc(t) # 0 /\ Arc(t) \in Nat /\ registry.next \in Nat /\ registry.next <= Half
          /\ Half \in Nat
    BY WidthAssumption DEF Coherent, Typed, DeviceIds
  <1>2. Arc(t) < registry.next
    BY <1>1 DEF Coherent, Opened
  <1> QED
    BY <1>1, <1>2

LEMMA HandedKept ==
  ASSUME Coherent, registry'.next \in Nat, registry.next <= registry'.next,
         issued' = issued,
         \A d \in DeviceIds : /\ devices'[d].next = devices[d].next
                              /\ devices'[d].buffers \subseteq devices[d].buffers
  PROVE  Handed'
  <1>1. /\ registry.next \in Nat /\ \A d \in DeviceIds : d \in Nat
        /\ \A h \in Word : issued[h] # Nothing => issued[h] \in DeviceIds
    BY DEF Coherent, Typed, DeviceIds
  <1>2. \A d \in DeviceIds : \A s \in devices'[d].buffers :
           /\ d < registry'.next /\ s < devices'[d].next
           /\ issued'[BufferHandle(d, s)] = d
    BY <1>1 DEF Coherent, Handed
  <1>3. \A h \in Word : issued'[h] # Nothing =>
           /\ issued'[h] < registry'.next
           /\ \E s \in Sequences :
                s < devices'[issued'[h]].next /\ h = BufferHandle(issued'[h], s)
    BY <1>1 DEF Coherent, Handed
  <1> QED
    BY <1>2, <1>3 DEF Handed

LEMMA AskingKept ==
  ASSUME Coherent, NEW t \in Threads,
         \A u \in Threads \ {t} : threads'[u] = threads[u],
         threads'[t].pc \notin {"called", "fetched", "inside"},
         \A h \in Word : issued[h] # Nothing => issued'[h] # Nothing
  PROVE  Asking'
  <1>1. SUFFICES ASSUME NEW u \in Threads \ {t}
                 PROVE  /\ threads'[u].pc \in {"fetched", "inside"} =>
                             threads'[u].req.op # "open" /\ threads'[u].req.dev = threads'[u].arc
                        /\ /\ threads'[u].pc \in {"called", "fetched", "inside"}
                           /\ threads'[u].req.op \in {"free", "use"}
                           => issued'[threads'[u].req.buf] # Nothing
    BY DEF Asking, Arc
  <1>2. threads'[u] = threads[u]
    OBVIOUS
  <1>3. threads[u].pc \in {"called", "fetched", "inside"} => threads[u].req \in Requests
    BY DEF Coherent, Typed, ThreadState, Answer, Idle
  <1>4. threads[u].req \in Requests /\ threads[u].req.op \in {"free", "use"}
          => threads[u].req.buf \in Word
    BY DEF Requests
  <1> QED
    BY <1>2, <1>3, <1>4 DEF Coherent, Asking, Arc

LEMMA LockedKept ==
  ASSUME Coherent, NEW t \in Threads,
         \A u \in Threads \ {t} : threads'[u] = threads[u],
         threads'[t].pc # "inside",
         \A d \in DeviceIds : d # Arc(t) \/ threads[t].pc # "inside" =>
           devices'[d].lock = devices[d].lock /\ devices'[d].closed = devices[d].closed
  PROVE  Locked'
  <1>1. SUFFICES ASSUME NEW u \in Threads \ {t}, threads[u].pc = "inside"
                 PROVE  devices'[Arc(u)].lock = u /\ ~devices'[Arc(u)].closed
    BY DEF Locked, Arc
  <1>2. Arc(u) \in DeviceIds
    BY <1>1, InsideShape DEF Coherent
  <1>3. devices[Arc(u)].lock = u /\ ~devices[Arc(u)].closed
    BY <1>1 DEF Coherent, Locked
  <1>4. threads[t].pc = "inside" => devices[Arc(t)].lock = t
    BY DEF Coherent, Locked
  <1> QED
    BY <1>2, <1>3, <1>4

LEMMA MarkedKept ==
  ASSUME Coherent, NEW t \in Threads,
         \A u \in Threads \ {t} : threads'[u] = threads[u],
         threads'[t].pc = "removing" => devices'[threads'[t].arc].closed,
         registry'.next \in Nat, registry.next <= registry'.next,
         \A d \in DeviceIds :
           /\ d < registry'.next /\ d \notin registry'.ids =>
                \/ d < registry.next /\ d \notin registry.ids
                \/ d = Arc(t) /\ threads[t].pc = "removing"
           /\ devices[d].closed => devices'[d].closed
           /\ devices'[d].closed => devices[d].closed \/ d < registry.next
  PROVE  Marked'
  <1>1. registry.next \in Nat /\ \A d \in DeviceIds : d \in Nat
    BY DEF Coherent, Typed, DeviceIds
  <1>2. \A u \in Threads : threads'[u].pc = "removing" => devices'[threads'[u].arc].closed
    <2>1. SUFFICES ASSUME NEW u \in Threads \ {t}, threads[u].pc = "removing"
                   PROVE  devices'[Arc(u)].closed
      BY DEF Arc
    <2>2. Arc(u) \in DeviceIds
      BY <2>1, ThreadShape DEF Coherent
    <2> QED
      BY <2>1, <2>2 DEF Coherent, Marked
  <1>3. \A d \in DeviceIds :
           /\ d < registry'.next /\ d \notin registry'.ids => devices'[d].closed
           /\ devices'[d].closed => d < registry'.next
    BY <1>1 DEF Coherent, Marked
  <1> QED
    BY <1>2, <1>3 DEF Marked, Arc

LEMMA CallCoherent ==
  ASSUME Coherent, Typed', Opened', NEW t \in Threads, NEW q \in Requests, Call(t, q)
  PROVE  Coherent'
  <1>1. /\ threads' = [threads EXCEPT ![t] = Calling(q)]
        /\ registry' = [registry EXCEPT !.calls = @ + 1]
        /\ devices' = devices /\ issued' = issued
        /\ q.op \in {"free", "use"} => issued[q.buf] # Nothing
    BY DEF Call
  <1>2. /\ threads'[t] = Calling(q)
        /\ \A u \in Threads \ {t} : threads'[u] = threads[u]
        /\ registry'.ids = registry.ids /\ registry'.next = registry.next
        /\ registry.next \in Nat
    BY <1>1 DEF Coherent, Typed, DeviceIds
  <1>3. threads'[t].pc = "called" /\ threads'[t].req = q
    BY <1>2 DEF Calling
  <1>4. Handed'
    BY <1>1, <1>2, HandedKept
  <1>5. Locked'
    BY <1>1, <1>2, <1>3, LockedKept
  <1>6. Marked'
    BY <1>1, <1>2, <1>3, MarkedKept
  <1>7. Asking'
    BY <1>1, <1>2, <1>3 DEF Coherent, Asking, Arc
  <1> QED
    BY <1>4, <1>5, <1>6, <1>7 DEF Coherent

LEMMA OpenCoherent ==
  ASSUME Coherent, Typed', Opened', NEW t \in Threads, Open(t)
  PROVE  Coherent'
  <1>1. /\ \E code, id, error : Answered(t, "leaving", 0, code, id, error)
        /\ devices' = devices /\ issued' = issued
        /\ \/ registry' = registry
           \/ registry' = [registry EXCEPT !.ids = @ \cup {registry.next}, !.next = @ + 1]
    BY Zenon DEF Open, Answers
  <1>2. /\ threads'[t].pc = "leaving"
        /\ \A u \in Threads \ {t} : threads'[u] = threads[u]
    BY <1>1 DEF Answered, Coherent, Typed
  <1>3. /\ registry.next \in Nat /\ registry'.next \in Nat
        /\ registry.next <= registry'.next
        /\ \A d \in DeviceIds : d < registry'.next /\ d \notin registry'.ids =>
              d < registry.next /\ d \notin registry.ids
    <2>1. registry \in [ids: SUBSET DeviceIds, next: DeviceIds, calls: 0 .. MaxCalls]
            /\ registry.next \in Nat /\ \A d \in DeviceIds : d \in Nat
      BY DEF Coherent, Typed, DeviceIds
    <2>2. CASE registry' = registry
      BY <2>1, <2>2
    <2>3. CASE registry' = [registry EXCEPT !.ids = @ \cup {registry.next}, !.next = @ + 1]
      <3>1. registry'.ids = registry.ids \cup {registry.next}
              /\ registry'.next = registry.next + 1
        BY <2>1, <2>3
      <3> QED
        BY <2>1, <3>1
    <2> QED
      BY <1>1, <2>2, <2>3
  <1>4. Handed'
    BY <1>1, <1>3, HandedKept
  <1>5. Locked'
    BY <1>1, <1>2, LockedKept
  <1>6. Marked'
    BY <1>1, <1>2, <1>3, MarkedKept
  <1>7. Asking'
    BY <1>1, <1>2, AskingKept
  <1> QED
    BY <1>4, <1>5, <1>6, <1>7 DEF Coherent

(* The thread's own fields after a lookup and after an entry.              *)
LEMMA LookupEffect ==
  ASSUME Typed, NEW t \in Threads, Lookup(t)
  PROVE  /\ threads[t].pc = "called" /\ threads[t].req \in Requests
         /\ threads[t].req.op # "open"
         /\ registry' = registry /\ devices' = devices /\ issued' = issued
         /\ \/ /\ threads[t].req.dev \in registry.ids
               /\ LET r == [threads[t] EXCEPT !.pc = "fetched", !.arc = threads[t].req.dev]
                  IN  /\ threads' = [threads EXCEPT ![t] = r]
                      /\ r.pc = "fetched" /\ r.req = threads[t].req
                      /\ r.arc = threads[t].req.dev
            \/ /\ threads[t].req.dev \notin registry.ids
               /\ threads' = [threads EXCEPT ![t] =
                    [pc |-> "leaving", arc |-> 0, code |-> "closed", id |-> 0, error |-> TRUE]]
  <1>1. /\ threads[t].pc = "called" /\ threads[t].req.op # "open"
        /\ registry' = registry /\ devices' = devices /\ issued' = issued
    BY DEF Lookup
  <1>2. threads[t] \in [pc: {"called"}, arc: {0}, req: Requests]
    BY <1>1 DEF Typed, ThreadState, Answer, Idle
  <1>3. CASE threads[t].req.dev \in registry.ids
    <2> DEFINE r == [threads[t] EXCEPT !.pc = "fetched", !.arc = threads[t].req.dev]
    <2>1. threads' = [threads EXCEPT ![t] = r]
      BY <1>2, <1>3 DEF Lookup, Typed
    <2>2. r.pc = "fetched" /\ r.req = threads[t].req /\ r.arc = threads[t].req.dev
      BY <1>2
    <2> QED
      BY <1>1, <1>2, <1>3, <2>1, <2>2
  <1>4. CASE threads[t].req.dev \notin registry.ids
    BY <1>1, <1>2, <1>4 DEF Lookup, Answers, Answered
  <1> QED
    BY <1>3, <1>4

LEMMA LookupCoherent ==
  ASSUME Coherent, Typed', Opened', NEW t \in Threads, Lookup(t)
  PROVE  Coherent'
  <1>1. /\ threads[t].pc = "called" /\ threads[t].req \in Requests
        /\ threads[t].req.op # "open"
        /\ registry' = registry /\ devices' = devices /\ issued' = issued
    BY LookupEffect DEF Coherent
  <1>2. /\ \A u \in Threads \ {t} : threads'[u] = threads[u]
        /\ \/ /\ threads'[t].pc = "fetched" /\ threads'[t].req = threads[t].req
              /\ threads'[t].arc = threads[t].req.dev
           \/ threads'[t].pc = "leaving"
    <2> DEFINE r == [threads[t] EXCEPT !.pc = "fetched", !.arc = threads[t].req.dev]
               z == [pc |-> "leaving", arc |-> 0, code |-> "closed", id |-> 0, error |-> TRUE]
    <2>1. \/ /\ threads' = [threads EXCEPT ![t] = r]
             /\ r.pc = "fetched" /\ r.req = threads[t].req
             /\ r.arc = threads[t].req.dev
          \/ threads' = [threads EXCEPT ![t] = z]
      BY LookupEffect DEF Coherent
    <2>2. z.pc = "leaving"
      OBVIOUS
    <2>3. threads \in [Threads -> ThreadState]
      BY DEF Coherent, Typed
    <2> HIDE DEF r, z
    <2> QED
      BY <2>1, <2>2, <2>3
  <1>3. registry.next \in Nat
    BY DEF Coherent, Typed, DeviceIds
  <1>4. Handed'
    BY <1>1, <1>3, HandedKept
  <1>5. Locked'
    BY <1>1, <1>2, LockedKept
  <1>6. Marked'
    BY <1>1, <1>2, <1>3, MarkedKept
  <1>7. Asking'
    <2>1. CASE threads'[t].pc = "leaving"
      BY <1>1, <1>2, <2>1, AskingKept
    <2>2. CASE /\ threads'[t].pc = "fetched" /\ threads'[t].req = threads[t].req
               /\ threads'[t].arc = threads[t].req.dev
      <3>1. threads[t].req.op \in {"free", "use"} => issued[threads[t].req.buf] # Nothing
        BY <1>1 DEF Coherent, Asking
      <3> QED
        BY <1>1, <1>2, <2>2, <3>1 DEF Coherent, Asking, Arc
    <2> QED
      BY <1>2, <2>1, <2>2
  <1> QED
    BY <1>4, <1>5, <1>6, <1>7 DEF Coherent

LEMMA EnterEffect ==
  ASSUME Typed, NEW t \in Threads, Enter(t)
  PROVE  /\ threads[t].pc = "fetched" /\ Arc(t) \in DeviceIds
         /\ devices[Arc(t)].lock = Nothing
         /\ registry' = registry /\ issued' = issued
         /\ \A d \in DeviceIds : SameHandles(devices[d], devices'[d])
         /\ \/ /\ devices[Arc(t)].closed /\ devices' = devices
               /\ threads' = [threads EXCEPT ![t] = Reply(t, "leaving", "closed", 0, TRUE)]
            \/ /\ ~devices[Arc(t)].closed
               /\ devices'[Arc(t)].lock = t
               /\ \A d \in DeviceIds \ {Arc(t)} : devices'[d] = devices[d]
               /\ LET r == [threads[t] EXCEPT !.pc = "inside"]
                  IN  /\ threads' = [threads EXCEPT ![t] = r]
                      /\ r.pc = "inside" /\ r.req = threads[t].req /\ r.arc = Arc(t)
  <1>1. /\ threads[t].pc = "fetched" /\ Arc(t) \in DeviceIds
        /\ devices[Arc(t)].lock = Nothing
        /\ registry' = registry /\ issued' = issued
    BY EnterShape
  <1>2. devices \in [DeviceIds -> Device]
    BY DEF Typed
  <1>3. CASE devices[Arc(t)].closed
    BY <1>1, <1>3 DEF Enter, Answers, Answered, Reply, SameHandles, Arc
  <1>4. CASE ~devices[Arc(t)].closed
    <2> DEFINE r == [threads[t] EXCEPT !.pc = "inside"]
               D == [devices[Arc(t)] EXCEPT !.lock = t]
    <2>1. devices' = [devices EXCEPT ![Arc(t)] = D] /\ threads' = [threads EXCEPT ![t] = r]
      BY <1>4 DEF Enter, Moves, Arc
    <2>2. D.lock = t /\ SameHandles(devices[Arc(t)], D)
      BY <1>1, <1>2 DEF Device, SameHandles
    <2>3. threads[t] \in [pc: {"fetched", "inside"}, arc: DeviceIds, req: Requests]
      BY <1>1 DEF Typed, ThreadState, Answer, Idle
    <2>4. r.pc = "inside" /\ r.req = threads[t].req /\ r.arc = Arc(t)
      BY <2>3 DEF Arc
    <2> HIDE DEF D, r
    <2>5. /\ devices'[Arc(t)] = D
          /\ \A d \in DeviceIds \ {Arc(t)} : devices'[d] = devices[d]
      BY <1>1, <1>2, <2>1
    <2>6. \A d \in DeviceIds : SameHandles(devices[d], devices'[d])
      BY <2>2, <2>5 DEF SameHandles
    <2> QED
      BY <1>1, <1>4, <2>1, <2>2, <2>4, <2>5, <2>6 DEF r
  <1> QED
    BY <1>3, <1>4

LEMMA EnterCoherent ==
  ASSUME Coherent, Typed', Opened', NEW t \in Threads, Enter(t)
  PROVE  Coherent'
  <1>1. /\ threads[t].pc = "fetched" /\ Arc(t) \in DeviceIds
        /\ devices[Arc(t)].lock = Nothing
        /\ registry' = registry /\ issued' = issued
        /\ \A d \in DeviceIds : SameHandles(devices[d], devices'[d])
    BY EnterEffect DEF Coherent
  <1>2. /\ \A u \in Threads \ {t} : threads'[u] = threads[u]
        /\ \A d \in DeviceIds \ {Arc(t)} : devices'[d] = devices[d]
        /\ \/ /\ devices' = devices
              /\ threads'[t].pc = "leaving"
           \/ /\ ~devices[Arc(t)].closed /\ devices'[Arc(t)].lock = t
              /\ threads'[t].pc = "inside" /\ threads'[t].req = threads[t].req
              /\ threads'[t].arc = Arc(t)
    <2> DEFINE r == [threads[t] EXCEPT !.pc = "inside"]
               z == Reply(t, "leaving", "closed", 0, TRUE)
    <2>1. \/ /\ devices[Arc(t)].closed /\ devices' = devices
             /\ threads' = [threads EXCEPT ![t] = z]
          \/ /\ ~devices[Arc(t)].closed
             /\ devices'[Arc(t)].lock = t
             /\ \A d \in DeviceIds \ {Arc(t)} : devices'[d] = devices[d]
             /\ threads' = [threads EXCEPT ![t] = r]
             /\ r.pc = "inside" /\ r.req = threads[t].req /\ r.arc = Arc(t)
      BY EnterEffect DEF Coherent
    <2>2. z.pc = "leaving"
      BY DEF Reply
    <2>3. threads \in [Threads -> ThreadState]
      BY DEF Coherent, Typed
    <2> HIDE DEF r, z
    <2> QED
      BY <2>1, <2>2, <2>3
  <1>3. registry.next \in Nat
    BY DEF Coherent, Typed, DeviceIds
  <1>4. Handed'
    BY <1>1, <1>3, HandedKept DEF SameHandles
  <1>5. Marked'
    BY <1>1, <1>2, <1>3, MarkedKept DEF SameHandles
  <1>6. Locked'
    <2>1. CASE devices' = devices /\ threads'[t].pc = "leaving"
      BY <1>2, <2>1, LockedKept
    <2>2. CASE /\ ~devices[Arc(t)].closed /\ devices'[Arc(t)].lock = t
               /\ threads'[t].pc = "inside" /\ threads'[t].arc = Arc(t)
      <3>1. \A u \in Threads \ {t} : threads[u].pc = "inside" =>
              Arc(u) # Arc(t) /\ Arc(u) \in DeviceIds
        <4>1. SUFFICES ASSUME NEW u \in Threads \ {t}, threads[u].pc = "inside"
                       PROVE  Arc(u) # Arc(t) /\ Arc(u) \in DeviceIds
          OBVIOUS
        <4>2. devices[Arc(u)].lock = u
          BY <4>1 DEF Coherent, Locked
        <4> QED
          BY <1>1, <4>1, <4>2, InsideShape, ProgramAssumption DEF Coherent
      <3>2. ~devices'[Arc(t)].closed
        BY <1>1, <2>2 DEF SameHandles
      <3> QED
        BY <1>2, <2>2, <3>1, <3>2 DEF Coherent, Locked, Arc
    <2> QED
      BY <1>2, <2>1, <2>2
  <1>7. Asking'
    <2>1. CASE threads'[t].pc = "leaving"
      BY <1>1, <1>2, <2>1, AskingKept
    <2>2. CASE /\ threads'[t].pc = "inside" /\ threads'[t].req = threads[t].req
               /\ threads'[t].arc = Arc(t)
      BY <1>1, <1>2, <2>2 DEF Coherent, Asking, Arc
    <2> QED
      BY <1>2, <2>1, <2>2
  <1> QED
    BY <1>4, <1>5, <1>6, <1>7 DEF Coherent

LEMMA RemoveEffect ==
  ASSUME Typed, NEW t \in Threads, Remove(t)
  PROVE  /\ threads[t].pc = "removing" /\ Arc(t) \in DeviceIds
         /\ devices' = devices /\ issued' = issued
         /\ registry'.ids = registry.ids \ {Arc(t)} /\ registry'.next = registry.next
         /\ threads' = [threads EXCEPT ![t] =
              Reply(t, "leaving", threads[t].code, threads[t].id, threads[t].error)]
  <1>1. /\ threads[t].pc = "removing" /\ devices' = devices /\ issued' = issued
        /\ registry' = [registry EXCEPT !.ids = @ \ {Arc(t)}]
        /\ threads' = [threads EXCEPT ![t].pc = "leaving"]
    BY DEF Remove, Moves
  <1>2. threads[t] \in Answer({"removing"}, DeviceIds)
    BY <1>1 DEF Typed, ThreadState, Answer, Idle
  <1>3. [threads[t] EXCEPT !.pc = "leaving"] =
          Reply(t, "leaving", threads[t].code, threads[t].id, threads[t].error)
    BY <1>2 DEF Answer, Reply, Arc
  <1>4. registry'.ids = registry.ids \ {Arc(t)} /\ registry'.next = registry.next
    BY <1>1 DEF Typed
  <1>5. threads' = [threads EXCEPT ![t] =
          Reply(t, "leaving", threads[t].code, threads[t].id, threads[t].error)]
    <2>1. threads' = [threads EXCEPT ![t] = [threads[t] EXCEPT !.pc = "leaving"]]
      BY <1>1
    <2> QED
      BY <1>3, <2>1, Zenon
  <1> QED
    BY <1>1, <1>2, <1>4, <1>5 DEF Answer, Arc

LEMMA RemoveCoherent ==
  ASSUME Coherent, Typed', Opened', NEW t \in Threads, Remove(t)
  PROVE  Coherent'
  <1>1. /\ threads[t].pc = "removing" /\ Arc(t) \in DeviceIds
        /\ devices' = devices /\ issued' = issued
        /\ registry'.ids = registry.ids \ {Arc(t)} /\ registry'.next = registry.next
        /\ threads' = [threads EXCEPT ![t] =
             Reply(t, "leaving", threads[t].code, threads[t].id, threads[t].error)]
    BY RemoveEffect DEF Coherent
  <1>2. /\ \A u \in Threads \ {t} : threads'[u] = threads[u]
        /\ threads'[t].pc = "leaving"
    BY <1>1 DEF Coherent, Typed, Reply
  <1>3. registry.next \in Nat
    BY DEF Coherent, Typed, DeviceIds
  <1>4. Handed'
    BY <1>1, <1>3, HandedKept
  <1>5. Locked'
    BY <1>1, <1>2, LockedKept
  <1>6. Marked'
    BY <1>1, <1>2, <1>3, MarkedKept
  <1>7. Asking'
    BY <1>1, <1>2, AskingKept
  <1> QED
    BY <1>4, <1>5, <1>6, <1>7 DEF Coherent

(* What Replied says of the threads, for any of the answers.               *)
LEMMA RepliedThreads ==
  ASSUME Typed, NEW t \in Threads, NEW pc, NEW code, NEW id, Replied(t, pc, code, id)
  PROVE  /\ \A u \in Threads \ {t} : threads'[u] = threads[u]
         /\ threads'[t].pc = pc /\ threads'[t].arc = Arc(t)
         /\ registry' = registry
         /\ \A d \in DeviceIds \ {Arc(t)} : devices'[d] = devices[d]
         /\ threads[t].pc = "inside" /\ Arc(t) \in DeviceIds
         /\ ReplyGiven(t, pc, code, id)
  <1>1. PICK error \in BOOLEAN :
          threads' = [threads EXCEPT ![t] = Reply(t, pc, code, id, error)]
    BY DEF Replied, ReplyGiven
  <1>2. Reply(t, pc, code, id, error).pc = pc /\ Reply(t, pc, code, id, error).arc = Arc(t)
    BY DEF Reply
  <1>3. /\ \A u \in Threads \ {t} : threads'[u] = threads[u]
        /\ threads'[t] = Reply(t, pc, code, id, error)
    BY <1>1 DEF Typed
  <1> QED
    BY <1>2, <1>3, InsideShape DEF Replied

(* A step that leaves the lock, keeps the numbers handed out, and sets the *)
(* flag only on its way to the registry.                                   *)
LEMMA RepliedCoherent ==
  ASSUME Coherent, Typed', Opened', NEW t \in Threads,
         NEW pc \in {"leaving", "removing"}, NEW code, NEW id, Replied(t, pc, code, id),
         issued' = issued,
         devices'[Arc(t)].next = devices[Arc(t)].next,
         devices'[Arc(t)].buffers \subseteq devices[Arc(t)].buffers,
         pc = "removing" => devices'[Arc(t)].closed,
         pc = "leaving" => devices'[Arc(t)].closed = devices[Arc(t)].closed
  PROVE  Coherent'
  <1>1. /\ \A u \in Threads \ {t} : threads'[u] = threads[u]
        /\ threads'[t].pc = pc /\ threads'[t].arc = Arc(t)
        /\ registry' = registry
        /\ \A d \in DeviceIds \ {Arc(t)} : devices'[d] = devices[d]
        /\ threads[t].pc = "inside" /\ Arc(t) \in DeviceIds
    BY RepliedThreads DEF Coherent
  <1>2. registry.next \in Nat
    BY DEF Coherent, Typed, DeviceIds
  <1>3. Handed'
    BY <1>1, <1>2, HandedKept
  <1>4. Locked'
    BY <1>1, LockedKept
  <1>5. ~devices[Arc(t)].closed /\ Arc(t) < registry.next
    BY <1>1, Packable DEF Coherent, Locked
  <1>6. Marked'
    BY <1>1, <1>2, <1>5, MarkedKept
  <1>7. Asking'
    BY <1>1, AskingKept
  <1> QED
    BY <1>3, <1>4, <1>6, <1>7 DEF Coherent

(* The handle an allocation packs was never handed out.                    *)
LEMMA FreshHandle ==
  ASSUME Coherent, NEW t \in Threads, Arc(t) \in DeviceIds,
         devices[Arc(t)].next # Half - 1
  PROVE  LET d == Arc(t)
             s == devices[d].next
             h == BufferHandle(d, s)
         IN  /\ s \in Sequences /\ s \in Nat /\ d # Nothing
             /\ h \in Word /\ Owner(h) = d /\ Sequence(h) = s
             /\ issued[h] = Nothing
  <1> DEFINE d == Arc(t)
             s == devices[d].next
             h == BufferHandle(d, s)
  <1>1. s \in Sequences /\ s \in Nat
    BY WidthAssumption DEF Coherent, Typed, Device, Sequences
  <1>2. d <= Half - 1
    BY Packable
  <1>3. h \in Word /\ Owner(h) = d /\ Sequence(h) = s
    BY <1>1, <1>2, HandleParts
  <1>4. d # Nothing
    BY ProgramAssumption DEF DeviceIds
  <1>5. issued[h] = Nothing
    <2> SUFFICES ASSUME issued[h] # Nothing PROVE FALSE
      OBVIOUS
    <2>1. Owner(h) = issued[h] /\ Sequence(h) < devices[issued[h]].next
      BY <1>3, Owned
    <2>2. issued[h] = d
      BY <1>3, <2>1
    <2>3. s < s
      BY <1>3, <2>1, <2>2
    <2> QED
      BY <1>1, <2>3
  <1> QED
    BY <1>1, <1>3, <1>4, <1>5

LEMMA AllocCoherent ==
  ASSUME Coherent, Typed', Opened', NEW t \in Threads, Alloc(t)
  PROVE  Coherent'
  <1> DEFINE d == Arc(t)
             old == devices[d]
             new == devices'[d]
             h == BufferHandle(d, old.next)
  <1>1. /\ threads[t].pc = "inside"
        /\ new.closed = old.closed
        /\ \/ /\ old.next # Half - 1
              /\ new.next = old.next + 1
              /\ new.buffers = old.buffers \cup {old.next}
              /\ issued' = [issued EXCEPT ![h] = d]
              /\ Replied(t, "leaving", "ok", h)
           \/ /\ SameHandles(old, new) /\ issued' = issued
              /\ Replied(t, "leaving", "failed", 0)
    BY AllocEffect DEF Coherent
  <1>2. CASE SameHandles(old, new) /\ issued' = issued /\ Replied(t, "leaving", "failed", 0)
    BY <1>2, RepliedCoherent DEF SameHandles
  <1>3. CASE /\ old.next # Half - 1
             /\ new.next = old.next + 1
             /\ new.buffers = old.buffers \cup {old.next}
             /\ issued' = [issued EXCEPT ![h] = d]
             /\ Replied(t, "leaving", "ok", h)
    <2>1. /\ \A u \in Threads \ {t} : threads'[u] = threads[u]
          /\ threads'[t].pc = "leaving"
          /\ registry' = registry
          /\ \A e \in DeviceIds \ {d} : devices'[e] = devices[e]
          /\ d \in DeviceIds
      BY <1>3, RepliedThreads DEF Coherent
    <2>2. /\ old.next \in Sequences /\ old.next \in Nat /\ d # Nothing
          /\ h \in Word /\ Owner(h) = d /\ Sequence(h) = old.next
          /\ issued[h] = Nothing
      BY <1>3, <2>1, FreshHandle
    <2>3. d < registry.next
      BY <2>1, Packable
    <2>4. registry.next \in Nat
      BY DEF Coherent, Typed, DeviceIds
    <2>5. Locked'
      BY <1>1, <2>1, LockedKept
    <2>6. Marked'
      BY <1>1, <2>1, <2>4, MarkedKept
    <2>7. issued \in [Word -> DeviceIds \cup {Nothing}]
      BY DEF Coherent, Typed
    <2>8. issued'[h] = d /\ \A g \in Word \ {h} : issued'[g] = issued[g]
      BY <1>3, <2>2, <2>7
    <2>9. Asking'
      BY <2>1, <2>2, <2>8, AskingKept
    <2>10. \A e \in DeviceIds : \A s \in devices'[e].buffers :
             /\ e < registry'.next /\ s < devices'[e].next
             /\ issued'[BufferHandle(e, s)] = e
      <3>1. SUFFICES ASSUME NEW e \in DeviceIds, NEW s \in devices'[e].buffers
                     PROVE  /\ e < registry.next /\ s < devices'[e].next
                            /\ issued'[BufferHandle(e, s)] = e
        BY <2>1
      <3>2. CASE e = d /\ s = old.next
        BY <1>3, <2>2, <2>3, <2>8, <3>2
      <3>3. CASE ~(e = d /\ s = old.next)
        <4>1. s \in devices[e].buffers
          BY <1>3, <2>1, <3>3
        <4>2. e < registry.next /\ s < devices[e].next /\ issued[BufferHandle(e, s)] = e
          BY <4>1 DEF Coherent, Handed
        <4>3. s \in Sequences /\ s \in Nat
          BY <4>1 DEF Coherent, Typed, Device, Sequences
        <4>4. e <= Half - 1
          BY <2>4, <4>2, WidthAssumption DEF Coherent, Typed, DeviceIds
        <4>5. BufferHandle(e, s) \in Word /\ Owner(BufferHandle(e, s)) = e
                /\ Sequence(BufferHandle(e, s)) = s
          BY <4>3, <4>4, HandleParts
        <4>6. BufferHandle(e, s) # h
          BY <2>2, <3>3, <4>5
        <4>7. s < devices'[e].next
          BY <1>3, <2>1, <2>2, <4>2, <4>3
        <4> QED
          BY <2>8, <4>2, <4>5, <4>6, <4>7
      <3> QED
        BY <3>2, <3>3
    <2>11. \A g \in Word : issued'[g] # Nothing =>
             /\ issued'[g] < registry'.next
             /\ \E s \in Sequences :
                  s < devices'[issued'[g]].next /\ g = BufferHandle(issued'[g], s)
      <3>1. SUFFICES ASSUME NEW g \in Word, issued'[g] # Nothing
                     PROVE  /\ issued'[g] < registry.next
                            /\ \E s \in Sequences :
                                 s < devices'[issued'[g]].next /\ g = BufferHandle(issued'[g], s)
        BY <2>1
      <3>2. CASE g = h
        <4>1. old.next < devices'[d].next
          BY <1>3, <2>2
        <4> QED
          BY <2>2, <2>3, <2>8, <3>2, <4>1
      <3>3. CASE g # h
        <4>1. issued'[g] = issued[g] /\ issued[g] \in DeviceIds
          BY <2>7, <2>8, <3>1, <3>3
        <4>2. PICK s \in Sequences :
                s < devices[issued[g]].next /\ g = BufferHandle(issued[g], s)
          BY <3>1, <4>1 DEF Coherent, Handed
        <4>3. s \in Nat /\ s < devices'[issued[g]].next
          <5>1. s \in Nat
            BY DEF Sequences
          <5>2. CASE issued[g] = d
            BY <1>3, <2>2, <4>2, <5>1, <5>2
          <5>3. CASE issued[g] # d
            BY <2>1, <4>1, <4>2, <5>1, <5>3
          <5> QED
            BY <5>1, <5>2, <5>3
        <4>4. issued[g] < registry.next
          BY <3>1, <4>1 DEF Coherent, Handed
        <4> QED
          BY <4>1, <4>2, <4>3, <4>4
      <3> QED
        BY <3>2, <3>3
    <2>12. Handed'
      BY <2>10, <2>11 DEF Handed
    <2> QED
      BY <2>5, <2>6, <2>9, <2>12 DEF Coherent
  <1> QED
    BY <1>1, <1>2, <1>3

LEMMA ActsCoherent ==
  ASSUME Coherent, Typed', Opened', NEW t \in Threads, Acts(t)
  PROVE  Coherent'
  <1>1. CASE Alloc(t)
    BY <1>1, AllocCoherent
  <1>2. CASE Free(t)
    <2>1. /\ issued' = issued
          /\ devices'[Arc(t)].next = devices[Arc(t)].next
          /\ devices'[Arc(t)].buffers \subseteq devices[Arc(t)].buffers
          /\ devices'[Arc(t)].closed = devices[Arc(t)].closed
          /\ \E code : Replied(t, "leaving", code, 0)
      BY <1>2, FreeEffect DEF Coherent, SameHandles
    <2> QED
      BY <2>1, RepliedCoherent
  <1>3. CASE Use(t)
    <2>1. /\ issued' = issued
          /\ devices'[Arc(t)].next = devices[Arc(t)].next
          /\ devices'[Arc(t)].buffers \subseteq devices[Arc(t)].buffers
          /\ devices'[Arc(t)].closed = devices[Arc(t)].closed
          /\ \E code : Replied(t, "leaving", code, 0)
      BY <1>3, UseEffect DEF Coherent, SameHandles
    <2> QED
      BY <2>1, RepliedCoherent
  <1>4. CASE Close(t)
    <2>1. /\ issued' = issued
          /\ devices'[Arc(t)].next = devices[Arc(t)].next
          /\ devices'[Arc(t)].buffers \subseteq devices[Arc(t)].buffers
          /\ \/ /\ devices'[Arc(t)].closed = devices[Arc(t)].closed
                /\ \E code : Replied(t, "leaving", code, 0)
             \/ /\ devices'[Arc(t)].closed
                /\ \E code : Replied(t, "removing", code, 0)
      BY <1>4, CloseEffect DEF Coherent, SameHandles
    <2> QED
      BY <2>1, RepliedCoherent
  <1> QED
    BY <1>1, <1>2, <1>3, <1>4 DEF Acts

(* A device's objects go with its buffers, and it was closed before.       *)
LEMMA LeaveEffect ==
  ASSUME Coherent, NEW t \in Threads, Leave(t)
  PROVE  /\ threads[t].pc = "leaving"
         /\ registry' = registry /\ issued' = issued
         /\ threads' = [threads EXCEPT ![t] = Idle]
         /\ \A d \in DeviceIds :
              /\ devices'[d].closed = devices[d].closed
              /\ devices'[d].lock = devices[d].lock
              /\ devices'[d].next = devices[d].next
              /\ devices'[d].buffers \subseteq devices[d].buffers
              /\ ~devices[d].closed => devices'[d] = devices[d]
  <1>1. /\ threads[t].pc = "leaving"
        /\ registry' = registry /\ issued' = issued
        /\ threads' = [threads EXCEPT ![t] = Idle]
        /\ IF LastReference(Arc(t), t) THEN Becomes(t, InnerDropped(Arc(t)))
           ELSE devices' = devices
    BY DEF Leave
  <1>2. CASE ~LastReference(Arc(t), t)
    BY <1>1, <1>2
  <1>3. CASE LastReference(Arc(t), t)
    <2>1. Arc(t) \in DeviceIds /\ Arc(t) \notin registry.ids
      BY <1>3, ThreadShape DEF LastReference, Coherent
    <2>2. devices[Arc(t)].closed
      BY <2>1, Packable DEF Coherent, Marked
    <2>3. devices \in [DeviceIds -> Device]
      BY DEF Coherent, Typed
    <2>4. PICK D \in InnerDropped(Arc(t)) : devices' = [devices EXCEPT ![Arc(t)] = D]
      BY <1>1, <1>3 DEF Becomes
    <2>5. /\ D.closed = devices[Arc(t)].closed /\ D.lock = devices[Arc(t)].lock
          /\ D.next = devices[Arc(t)].next /\ D.buffers = {}
      BY <2>1, <2>3, InnerDroppedType
    <2>6. /\ devices'[Arc(t)] = D
          /\ \A d \in DeviceIds \ {Arc(t)} : devices'[d] = devices[d]
      BY <2>1, <2>3, <2>4
    <2>7. /\ devices'[Arc(t)].closed = devices[Arc(t)].closed
          /\ devices'[Arc(t)].lock = devices[Arc(t)].lock
          /\ devices'[Arc(t)].next = devices[Arc(t)].next
          /\ devices'[Arc(t)].buffers = {}
      BY <2>5, <2>6
    <2> QED
      BY <1>1, <2>1, <2>2, <2>6, <2>7
  <1> QED
    BY <1>2, <1>3

LEMMA LeaveCoherent ==
  ASSUME Coherent, Typed', Opened', NEW t \in Threads, Leave(t)
  PROVE  Coherent'
  <1>1. /\ threads[t].pc = "leaving"
        /\ registry' = registry /\ issued' = issued
        /\ threads' = [threads EXCEPT ![t] = Idle]
        /\ \A d \in DeviceIds :
             /\ devices'[d].closed = devices[d].closed
             /\ devices'[d].lock = devices[d].lock
             /\ devices'[d].next = devices[d].next
             /\ devices'[d].buffers \subseteq devices[d].buffers
    BY LeaveEffect
  <1>2. /\ threads'[t].pc = "idle"
        /\ \A u \in Threads \ {t} : threads'[u] = threads[u]
    BY <1>1 DEF Coherent, Typed, Idle
  <1>3. registry.next \in Nat
    BY DEF Coherent, Typed, DeviceIds
  <1>4. Handed'
    BY <1>1, <1>3, HandedKept
  <1>5. Locked'
    BY <1>1, <1>2, LockedKept
  <1>6. Marked'
    BY <1>1, <1>2, <1>3, MarkedKept
  <1>7. Asking'
    BY <1>1, <1>2, AskingKept
  <1> QED
    BY <1>4, <1>5, <1>6, <1>7 DEF Coherent

LEMMA InitCoherent ==
  ASSUME Init
  PROVE  Coherent
  <1>1. Typed /\ Opened /\ Locked
    BY InitReferenced DEF Referenced, Quiet
  <1>2. \A t \in Threads : threads[t].pc = "idle"
    BY DEF Init, Idle
  <1>3. \A d \in DeviceIds : ~devices[d].closed /\ devices[d].buffers = {} /\ ~(d < 1)
    BY DEF Init, NewDevice, DeviceIds
  <1>4. registry.next = 1 /\ \A h \in Word : issued[h] = Nothing
    BY DEF Init
  <1> QED
    BY <1>1, <1>2, <1>3, <1>4 DEF Coherent, Marked, Asking, Handed

LEMMA NextCoherent ==
  ASSUME Coherent, Referenced, [Next]_vars
  PROVE  Coherent'
  <1>0. Typed' /\ Opened'
    BY NextReferenced DEF Referenced
  <1>1. CASE UNCHANGED vars
    BY <1>0, <1>1 DEF vars, Coherent, Locked, Marked, Asking, Handed, Arc
  <1>2. ASSUME NEW t \in Threads, NEW q \in Requests, Call(t, q)
        PROVE  Coherent'
    BY <1>0, <1>2, CallCoherent
  <1>3. ASSUME NEW t \in Threads, Open(t) PROVE Coherent'
    BY <1>0, <1>3, OpenCoherent
  <1>4. ASSUME NEW t \in Threads, Lookup(t) PROVE Coherent'
    BY <1>0, <1>4, LookupCoherent
  <1>5. ASSUME NEW t \in Threads, Enter(t) PROVE Coherent'
    BY <1>0, <1>5, EnterCoherent
  <1>6. ASSUME NEW t \in Threads, Acts(t) PROVE Coherent'
    BY <1>0, <1>6, ActsCoherent
  <1>7. ASSUME NEW t \in Threads, Remove(t) PROVE Coherent'
    BY <1>0, <1>7, RemoveCoherent
  <1>8. ASSUME NEW t \in Threads, Leave(t) PROVE Coherent'
    BY <1>0, <1>8, LeaveCoherent
  <1> QED
    BY <1>1, <1>2, <1>3, <1>4, <1>5, <1>6, <1>7, <1>8 DEF Next, Acts

-----------------------------------------------------------------------------
(* The table a state stands for, and the table's step a step stands for.   *)

(* Live buffers by the halves of their handles.                            *)
LiveAre(devs, iss) ==
  {h \in Word : /\ iss[h] # Nothing /\ ~devs[iss[h]].closed
                /\ Sequence(h) \in devs[iss[h]].buffers}

LEMMA LiveByHalves ==
  ASSUME NEW devs \in [DeviceIds -> Device], NEW iss \in [Word -> DeviceIds \cup {Nothing}],
         \A h \in Word : iss[h] # Nothing =>
           /\ iss[h] <= Half - 1
           /\ \E s \in Sequences : h = BufferHandle(iss[h], s)
  PROVE  {h \in Word : /\ iss[h] # Nothing /\ ~devs[iss[h]].closed
                       /\ \E s \in devs[iss[h]].buffers : h = BufferHandle(iss[h], s)}
           = LiveAre(devs, iss)
  <1>1. SUFFICES ASSUME NEW h \in Word, iss[h] # Nothing
                 PROVE  (\E s \in devs[iss[h]].buffers : h = BufferHandle(iss[h], s))
                          <=> Sequence(h) \in devs[iss[h]].buffers
    BY DEF LiveAre
  <1>2. iss[h] \in DeviceIds /\ iss[h] <= Half - 1
    BY <1>1
  <1>3. devs[iss[h]].buffers \subseteq Sequences
    BY <1>2 DEF Device
  <1>4. PICK s \in Sequences : h = BufferHandle(iss[h], s)
    BY <1>1
  <1>5. \A u \in Sequences : Sequence(BufferHandle(iss[h], u)) = u
    BY <1>2, HandleParts
  <1> QED
    BY <1>3, <1>4, <1>5

LEMMA LiveNow ==
  ASSUME Coherent
  PROVE  LiveBuffers = LiveAre(devices, issued)
  <1>1. devices \in [DeviceIds -> Device] /\ issued \in [Word -> DeviceIds \cup {Nothing}]
    BY DEF Coherent, Typed
  <1>2. \A h \in Word : issued[h] # Nothing =>
           /\ issued[h] <= Half - 1
           /\ \E s \in Sequences : h = BufferHandle(issued[h], s)
    BY Owned
  <1> QED
    BY <1>1, <1>2, LiveByHalves DEF LiveBuffers

LEMMA LiveNext ==
  ASSUME Coherent'
  PROVE  LiveBuffers' = LiveAre(devices', issued')
  <1>1. devices' \in [DeviceIds -> Device] /\ issued' \in [Word -> DeviceIds \cup {Nothing}]
    BY DEF Coherent, Typed
  <1>2. registry'.next \in Nat /\ registry'.next <= Half /\ Half \in Nat
          /\ \A d \in DeviceIds : d \in Nat
    BY WidthAssumption DEF Coherent, Typed, DeviceIds
  <1>3. \A h \in Word : issued'[h] # Nothing =>
           /\ issued'[h] < registry'.next
           /\ \E s \in Sequences : h = BufferHandle(issued'[h], s)
    BY DEF Coherent, Handed
  <1>4. \A h \in Word : issued'[h] # Nothing => issued'[h] <= Half - 1
    BY <1>1, <1>2, <1>3
  <1> QED
    BY <1>1, <1>3, <1>4, LiveByHalves DEF LiveBuffers

LEMMA ProgressStep ==
  ASSUME Typed, NEW t \in Threads, NEW r, threads' = [threads EXCEPT ![t] = r]
  PROVE  CallProgress' = [CallProgress EXCEPT ![t] = Progress(r)]
  BY DEF CallProgress, Typed

LEMMA ProgressOf ==
  /\ Progress(Idle) = Table!Silent
  /\ \A r : Progress(Calling(r)) = [at |-> "asked", request |-> r]
  /\ \A c : c.pc \in {"called", "fetched", "inside"} =>
       Progress(c) = [at |-> "asked", request |-> c.req]
  /\ \A c : c.pc \in {"removing", "leaving"} => Progress(c) = Table!Answer(c.code, c.id)
  BY DEF Progress, Idle, Calling, Table!Silent, Table!Answer

LEMMA ReplyProgress ==
  ASSUME NEW t \in Threads, NEW pc \in {"removing", "leaving"}, NEW code, NEW id,
         NEW error
  PROVE  Progress(Reply(t, pc, code, id, error)) = Table!Answer(code, id)
  BY DEF Progress, Reply, Table!Answer

LEMMA AnswerStep ==
  ASSUME Typed, NEW t \in Threads, NEW pc \in {"removing", "leaving"},
         NEW code, NEW id, ReplyGiven(t, pc, code, id)
  PROVE  CallProgress' = [CallProgress EXCEPT ![t] = Table!Answer(code, id)]
  <1>1. PICK error \in BOOLEAN :
          threads' = [threads EXCEPT ![t] = Reply(t, pc, code, id, error)]
    BY DEF ReplyGiven
  <1>2. CallProgress' = [CallProgress EXCEPT ![t] = Progress(Reply(t, pc, code, id, error))]
    BY <1>1, ProgressStep
  <1>3. Progress(Reply(t, pc, code, id, error)) = Table!Answer(code, id)
    BY ReplyProgress
  <1> QED
    BY <1>2, <1>3, Zenon

(* A step that leaves every entry's handles alone, and every id.           *)
LEMMA SameTable ==
  ASSUME Coherent, Coherent', issued' = issued, registry'.next = registry.next,
         \A d \in DeviceIds :
           /\ devices'[d].closed = devices[d].closed
           /\ ~devices[d].closed => devices'[d].buffers = devices[d].buffers
  PROVE  /\ OpenDevices' = OpenDevices /\ OpenedDevices' = OpenedDevices
         /\ LiveBuffers' = LiveBuffers
  <1>1. OpenDevices' = OpenDevices /\ OpenedDevices' = OpenedDevices
    BY DEF OpenDevices, OpenedDevices
  <1>2. \A h \in Word : issued[h] # Nothing => issued[h] \in DeviceIds
    BY DEF Coherent, Typed
  <1>3. LiveAre(devices', issued') = LiveAre(devices, issued)
    BY <1>2 DEF LiveAre
  <1> QED
    BY <1>1, <1>3, LiveNow, LiveNext

(* What the table sees of a call inside a device.                          *)
LEMMA InsideTable ==
  ASSUME Coherent, NEW t \in Threads, threads[t].pc \in {"called", "fetched", "inside"}
  PROVE  /\ threads[t].req \in Requests /\ threads[t].req \in Table!Requests
         /\ CallProgress[t] = [at |-> "asked", request |-> threads[t].req]
         /\ threads[t].pc = "inside" =>
              /\ Arc(t) \in OpenDevices /\ threads[t].req.dev = Arc(t)
              /\ Arc(t) \in DeviceIds
  <1>1. threads[t].req \in Requests
    BY DEF Coherent, Typed, ThreadState, Answer, Idle
  <1>2. Table!Requests = Requests
    BY DEF Requests, Table!Requests
  <1>3. CallProgress[t] = [at |-> "asked", request |-> threads[t].req]
    BY ProgressOf DEF CallProgress
  <1>4. threads[t].pc = "inside" =>
              /\ Arc(t) \in OpenDevices /\ threads[t].req.dev = Arc(t)
              /\ Arc(t) \in DeviceIds
    BY InsideShape, Packable DEF Coherent, Locked, Asking, OpenDevices
  <1> QED
    BY <1>1, <1>2, <1>3, <1>4

TableStep == Table!Next \/ UNCHANGED Table!table

LEMMA RequestShape ==
  ASSUME NEW r \in Requests
  PROVE  /\ r.op \in {"open", "close", "alloc", "free", "use"}
         /\ r.op = "open" => r = [op |-> "open"]
         /\ r.op \in {"close", "alloc"} =>
              r = [op |-> r.op, dev |-> r.dev] /\ r.dev \in DeviceIds
         /\ r.op \in {"free", "use"} =>
              /\ r = [op |-> r.op, dev |-> r.dev, buf |-> r.buf]
              /\ r.dev \in DeviceIds /\ r.buf \in Word
  <1>1. CASE r \in [op: {"open"}]
    <2>1. r = [op |-> "open"]
      BY <1>1
    <2>2. r.op = "open"
      BY <2>1
    <2> QED
      BY <2>1, <2>2
  <1>2. CASE r \in [op: {"close", "alloc"}, dev: DeviceIds]
    <2>1. r = [op |-> r.op, dev |-> r.dev] /\ r.op \in {"close", "alloc"}
            /\ r.dev \in DeviceIds
      BY <1>2
    <2> QED
      BY <2>1
  <1>3. CASE r \in [op: {"free", "use"}, dev: DeviceIds, buf: Word]
    <2>1. r = [op |-> r.op, dev |-> r.dev, buf |-> r.buf] /\ r.op \in {"free", "use"}
            /\ r.dev \in DeviceIds /\ r.buf \in Word
      BY <1>3
    <2> QED
      BY <2>1
  <1> QED
    BY <1>1, <1>2, <1>3 DEF Requests

LEMMA CallMaps ==
  ASSUME Coherent, Coherent', NEW t \in Threads, NEW q \in Requests, Call(t, q)
  PROVE  TableStep
  <1>1. /\ threads[t] = Idle
        /\ q.op # "open" => q.dev < registry.next
        /\ q.op \in {"free", "use"} => issued[q.buf] # Nothing
        /\ threads' = [threads EXCEPT ![t] = Calling(q)]
        /\ registry' = [registry EXCEPT !.calls = @ + 1]
        /\ devices' = devices /\ issued' = issued
    BY DEF Call
  <1>2. CallProgress[t] = Table!Silent
    BY <1>1, ProgressOf DEF CallProgress
  <1>3. CallProgress' = [CallProgress EXCEPT ![t] = [at |-> "asked", request |-> q]]
    <2>1. CallProgress' = [CallProgress EXCEPT ![t] = Progress(Calling(q))]
      BY <1>1, ProgressStep DEF Coherent
    <2>2. Progress(Calling(q)) = [at |-> "asked", request |-> q]
      BY ProgressOf
    <2> QED
      BY <2>1, <2>2, Zenon
  <1>4. registry'.next = registry.next
    BY <1>1 DEF Coherent, Typed
  <1>5. UNCHANGED <<OpenDevices, OpenedDevices, LiveBuffers, issued>>
    BY <1>1, <1>4, SameTable
  <1>6. q.op # "open" => q.dev \in OpenedDevices
    BY <1>1, RequestShape DEF OpenedDevices
  <1>7. q \in Table!Requests
    BY DEF Requests, Table!Requests
  <1>8. Table!Call(t, q)
    BY <1>1, <1>2, <1>3, <1>5, <1>6 DEF Table!Call, Table!Known
  <1> QED
    BY <1>7, <1>8 DEF TableStep, Table!Next

LEMMA OpenMaps ==
  ASSUME Coherent, Coherent', NEW t \in Threads, Open(t)
  PROVE  TableStep
  <1>1. /\ threads[t].pc = "called" /\ threads[t].req.op = "open"
        /\ devices' = devices /\ issued' = issued
    BY DEF Open
  <1>2. /\ threads[t].req \in Requests /\ threads[t].req \in Table!Requests
        /\ CallProgress[t] = [at |-> "asked", request |-> threads[t].req]
    BY <1>1, InsideTable
  <1>3. threads[t].req = [op |-> "open"]
    BY <1>1, <1>2, RequestShape
  <1>4. Arc(t) = 0
    BY <1>1, ThreadShape DEF Coherent
  <1>5. CASE /\ registry.next <= Half - 1
             /\ registry' = [registry EXCEPT !.ids = @ \cup {registry.next}, !.next = @ + 1]
             /\ Answered(t, "leaving", 0, "ok", registry.next, FALSE)
    <2> DEFINE d == registry.next
    <2>1. registry'.next = d + 1 /\ d \in DeviceIds /\ d \in Nat
            /\ \A e \in DeviceIds : e \in Nat
      BY <1>5 DEF Coherent, Typed, DeviceIds
    <2>2. OpenedDevices' = OpenedDevices \cup {d} /\ d \notin OpenedDevices
      BY <2>1 DEF OpenedDevices
    <2>3. ~devices[d].closed
      BY <2>1 DEF Coherent, Marked
    <2>4. OpenDevices' = OpenDevices \cup {d}
      BY <1>1, <2>1, <2>3 DEF OpenDevices
    <2>5. LiveBuffers' = LiveBuffers
      BY <1>1, LiveNow, LiveNext
    <2>6. CallProgress' = [CallProgress EXCEPT ![t] = Table!Answer("ok", d)]
      <3>1. ReplyGiven(t, "leaving", "ok", d)
        BY <1>4, <1>5 DEF Answered, Reply, ReplyGiven
      <3>2. Typed
        BY DEF Coherent
      <3> QED
        BY <3>1, <3>2, AnswerStep
    <2>7. Table!Opens(t, d)
      BY <1>1, <1>2, <1>3, <2>2, <2>4, <2>5, <2>6
         DEF Table!Opens, Table!Asked, Table!Hands
    <2> QED
      BY <2>1, <2>7 DEF TableStep, Table!Next
  <1>6. CASE Answers(t, "leaving", 0, "failed") /\ registry' = registry
    <2>1. UNCHANGED <<OpenDevices, OpenedDevices, LiveBuffers, issued>>
      BY <1>1, <1>6, SameTable
    <2>2. CallProgress' = [CallProgress EXCEPT ![t] = Table!Answer("failed", 0)]
      <3>1. ReplyGiven(t, "leaving", "failed", 0)
        BY <1>4, <1>6 DEF Answers, Answered, Reply, ReplyGiven
      <3>2. Typed
        BY DEF Coherent
      <3> QED
        BY <3>1, <3>2, AnswerStep
    <2>3. Table!Refuses(t, threads[t].req)
      BY <1>1, <1>2, <2>1, <2>2 DEF Table!Refuses, Table!Asked, Table!Answers
    <2> QED
      BY <1>2, <2>3 DEF TableStep, Table!Next
  <1> QED
    BY <1>5, <1>6 DEF Open

(* A call refused as on a closed device, before the lock or under it.      *)
LEMMA ClosedRefused ==
  ASSUME Coherent, Coherent', NEW t \in Threads,
         threads[t].pc \in {"called", "fetched"}, threads[t].req.op # "open",
         threads[t].req.dev \notin OpenDevices,
         UNCHANGED <<registry, devices, issued>>,
         threads' = [threads EXCEPT ![t] = Reply(t, "leaving", "closed", 0, TRUE)]
  PROVE  TableStep
  <1>1. UNCHANGED <<OpenDevices, OpenedDevices, LiveBuffers, issued>>
    BY SameTable
  <1>2. CallProgress' = [CallProgress EXCEPT ![t] = Table!Answer("closed", 0)]
    <2>1. Typed
      BY DEF Coherent
    <2>2. ReplyGiven(t, "leaving", "closed", 0)
      BY DEF ReplyGiven
    <2> QED
      BY <2>1, <2>2, AnswerStep
  <1>3. /\ threads[t].req \in Table!Requests
        /\ CallProgress[t] = [at |-> "asked", request |-> threads[t].req]
    BY InsideTable
  <1>4. Table!Refuses(t, threads[t].req)
    BY <1>1, <1>2, <1>3 DEF Table!Refuses, Table!Asked, Table!Answers
  <1> QED
    BY <1>3, <1>4 DEF TableStep, Table!Next

(* A step that shows nothing: the thread is still asking, or has answered. *)
LEMMA StepHides ==
  ASSUME Coherent, Coherent', NEW t \in Threads, NEW r,
         threads' = [threads EXCEPT ![t] = r], Progress(r) = Progress(threads[t]),
         issued' = issued, registry'.next = registry.next,
         \A d \in DeviceIds : SameHandles(devices[d], devices'[d])
  PROVE  TableStep
  <1>1. UNCHANGED <<OpenDevices, OpenedDevices, LiveBuffers, issued>>
    BY SameTable DEF SameHandles
  <1>2. CallProgress' = [CallProgress EXCEPT ![t] = Progress(r)]
    BY ProgressStep DEF Coherent
  <1>3. CallProgress' = CallProgress
    BY <1>2 DEF CallProgress
  <1> QED
    BY <1>1, <1>3 DEF TableStep, Table!table

LEMMA LookupMaps ==
  ASSUME Coherent, Coherent', NEW t \in Threads, Lookup(t)
  PROVE  TableStep
  <1> DEFINE r == [threads[t] EXCEPT !.pc = "fetched", !.arc = threads[t].req.dev]
  <1>1. /\ threads[t].pc = "called" /\ threads[t].req \in Requests
        /\ threads[t].req.op # "open"
        /\ registry' = registry /\ devices' = devices /\ issued' = issued
        /\ \/ /\ threads[t].req.dev \in registry.ids
              /\ threads' = [threads EXCEPT ![t] = r]
              /\ r.pc = "fetched" /\ r.req = threads[t].req
           \/ /\ threads[t].req.dev \notin registry.ids
              /\ threads' = [threads EXCEPT ![t] =
                   [pc |-> "leaving", arc |-> 0, code |-> "closed", id |-> 0, error |-> TRUE]]
    BY LookupEffect DEF Coherent
  <1>2. CASE /\ threads' = [threads EXCEPT ![t] = r]
             /\ r.pc = "fetched" /\ r.req = threads[t].req
    <2> HIDE DEF r
    <2>1. Progress(r) = Progress(threads[t])
      BY <1>1, <1>2, ProgressOf
    <2>2. \A d \in DeviceIds : SameHandles(devices[d], devices'[d])
      BY <1>1 DEF SameHandles
    <2> QED
      BY <1>1, <1>2, <2>1, <2>2, StepHides
  <1>3. CASE /\ threads[t].req.dev \notin registry.ids
             /\ threads' = [threads EXCEPT ![t] =
                  [pc |-> "leaving", arc |-> 0, code |-> "closed", id |-> 0, error |-> TRUE]]
    <2>1. Arc(t) = 0
      BY <1>1, ThreadShape DEF Coherent
    <2>2. threads' = [threads EXCEPT ![t] = Reply(t, "leaving", "closed", 0, TRUE)]
      BY <1>3, <2>1 DEF Reply
    <2>3. threads[t].req.dev \notin OpenDevices
      BY <1>3 DEF Coherent, Marked, OpenDevices
    <2> QED
      BY <1>1, <2>2, <2>3, ClosedRefused
  <1> QED
    BY <1>1, <1>2, <1>3

LEMMA EnterMaps ==
  ASSUME Coherent, Coherent', NEW t \in Threads, Enter(t)
  PROVE  TableStep
  <1> DEFINE r == [threads[t] EXCEPT !.pc = "inside"]
  <1>1. /\ threads[t].pc = "fetched" /\ Arc(t) \in DeviceIds
        /\ registry' = registry /\ issued' = issued
        /\ \A d \in DeviceIds : SameHandles(devices[d], devices'[d])
        /\ \/ /\ devices[Arc(t)].closed /\ devices' = devices
              /\ threads' = [threads EXCEPT ![t] = Reply(t, "leaving", "closed", 0, TRUE)]
           \/ /\ threads' = [threads EXCEPT ![t] = r]
              /\ r.pc = "inside" /\ r.req = threads[t].req
    BY EnterEffect DEF Coherent
  <1>2. CASE /\ threads' = [threads EXCEPT ![t] = r]
             /\ r.pc = "inside" /\ r.req = threads[t].req
    <2> HIDE DEF r
    <2>1. Progress(r) = Progress(threads[t])
      BY <1>1, <1>2, ProgressOf
    <2> QED
      BY <1>1, <1>2, <2>1, StepHides
  <1>3. CASE /\ devices[Arc(t)].closed /\ devices' = devices
             /\ threads' = [threads EXCEPT ![t] = Reply(t, "leaving", "closed", 0, TRUE)]
    <2>1. threads[t].req.op # "open" /\ threads[t].req.dev = Arc(t)
      BY <1>1 DEF Coherent, Asking
    <2>2. threads[t].req.dev \notin OpenDevices
      BY <1>3, <2>1 DEF OpenDevices
    <2> QED
      BY <1>1, <1>3, <2>1, <2>2, ClosedRefused
  <1> QED
    BY <1>1, <1>2, <1>3

LEMMA RemoveMaps ==
  ASSUME Coherent, Coherent', NEW t \in Threads, Remove(t)
  PROVE  TableStep
  <1> DEFINE r == Reply(t, "leaving", threads[t].code, threads[t].id, threads[t].error)
  <1>1. /\ threads[t].pc = "removing" /\ devices' = devices /\ issued' = issued
        /\ registry'.next = registry.next
        /\ threads' = [threads EXCEPT ![t] = r]
    BY RemoveEffect DEF Coherent
  <1>2. Progress(r) = Progress(threads[t])
    BY <1>1, ProgressOf, ReplyProgress
  <1>3. \A d \in DeviceIds : SameHandles(devices[d], devices'[d])
    BY <1>1 DEF SameHandles
  <1> QED
    BY <1>1, <1>2, <1>3, StepHides

LEMMA LeaveMaps ==
  ASSUME Coherent, Coherent', NEW t \in Threads, Leave(t)
  PROVE  TableStep
  <1>1. /\ threads[t].pc = "leaving"
        /\ registry' = registry /\ issued' = issued
        /\ threads' = [threads EXCEPT ![t] = Idle]
        /\ \A d \in DeviceIds :
             /\ devices'[d].closed = devices[d].closed
             /\ ~devices[d].closed => devices'[d].buffers = devices[d].buffers
    BY LeaveEffect
  <1>2. UNCHANGED <<OpenDevices, OpenedDevices, LiveBuffers, issued>>
    BY <1>1, SameTable
  <1>3. CallProgress' = [CallProgress EXCEPT ![t] = Table!Silent]
    BY <1>1, ProgressStep, ProgressOf DEF Coherent
  <1>4. CallProgress[t] = Table!Answer(threads[t].code, threads[t].id)
    BY <1>1, ProgressOf DEF CallProgress
  <1>5. CallProgress[t].at = "answered"
    BY <1>4 DEF Table!Answer
  <1>6. Table!Returns(t)
    BY <1>2, <1>3, <1>5 DEF Table!Returns
  <1> QED
    BY <1>6 DEF TableStep, Table!Next

(* What the table sees of an answer given under the lock.                  *)
LEMMA RepliedTable ==
  ASSUME Coherent, NEW t \in Threads, NEW pc \in {"removing", "leaving"},
         NEW code, NEW id, Replied(t, pc, code, id)
  PROVE  /\ CallProgress' = [CallProgress EXCEPT ![t] = Table!Answer(code, id)]
         /\ Arc(t) \in DeviceIds /\ Arc(t) \in OpenDevices
         /\ ~devices[Arc(t)].closed /\ Arc(t) < registry.next
         /\ registry' = registry
         /\ \A d \in DeviceIds \ {Arc(t)} : devices'[d] = devices[d]
         /\ threads[t].req \in Requests /\ threads[t].req \in Table!Requests
         /\ threads[t].req.dev = Arc(t)
         /\ CallProgress[t] = [at |-> "asked", request |-> threads[t].req]
  <1>1. /\ registry' = registry
        /\ \A d \in DeviceIds \ {Arc(t)} : devices'[d] = devices[d]
        /\ threads[t].pc = "inside" /\ Arc(t) \in DeviceIds
        /\ ReplyGiven(t, pc, code, id)
    BY RepliedThreads DEF Coherent
  <1>2. CallProgress' = [CallProgress EXCEPT ![t] = Table!Answer(code, id)]
    BY <1>1, AnswerStep DEF Coherent
  <1>3. ~devices[Arc(t)].closed /\ Arc(t) < registry.next
    BY <1>1, Packable DEF Coherent, Locked
  <1> QED
    BY <1>1, <1>2, <1>3, InsideTable

(* An answer that leaves the table of handles as it was.                   *)
LEMMA RepliedSame ==
  ASSUME Coherent, Coherent', NEW t \in Threads, NEW code,
         Replied(t, "leaving", code, 0), issued' = issued,
         SameHandles(devices[Arc(t)], devices'[Arc(t)])
  PROVE  UNCHANGED <<OpenDevices, OpenedDevices, LiveBuffers, issued>>
  <1>1. /\ registry' = registry
        /\ \A d \in DeviceIds \ {Arc(t)} : devices'[d] = devices[d]
    BY RepliedTable
  <1> QED
    BY <1>1, SameTable DEF SameHandles

(* A buffer's handle is live just if the device resolves it.               *)
LEMMA ResolvedLive ==
  ASSUME Coherent, NEW t \in Threads, threads[t].pc = "inside",
         threads[t].req.op \in {"free", "use"}
  PROVE  LET h == threads[t].req.buf
         IN  /\ h \in Word /\ issued[h] # Nothing /\ Owner(h) = issued[h]
             /\ Resolved(t) <=> issued[h] = Arc(t) /\ h \in LiveBuffers
             /\ issued[h] # Arc(t) <=> Owner(h) # Arc(t)
  <1> DEFINE h == threads[t].req.buf
  <1>1. h \in Word /\ issued[h] # Nothing
    BY InsideTable, RequestShape DEF Coherent, Asking
  <1>2. Owner(h) = issued[h]
    BY <1>1, Owned
  <1>3. ~devices[Arc(t)].closed
    BY DEF Coherent, Locked
  <1> QED
    BY <1>1, <1>2, <1>3, LiveNow DEF Resolved, LiveAre

(* A refusal by name, and a failure of the operation.                      *)
LEMMA RefusalMaps ==
  ASSUME Coherent, Coherent', NEW t \in Threads,
         threads[t].req.op \in {"free", "use"}, ~Resolved(t),
         Replied(t, "leaving", Refusal(t), 0), issued' = issued,
         SameHandles(devices[Arc(t)], devices'[Arc(t)])
  PROVE  TableStep
  <1> DEFINE q == threads[t].req
  <1>1. threads[t].pc = "inside"
    BY DEF Replied
  <1>2. UNCHANGED <<OpenDevices, OpenedDevices, LiveBuffers, issued>>
    BY RepliedSame
  <1>3. /\ CallProgress' = [CallProgress EXCEPT ![t] = Table!Answer(Refusal(t), 0)]
        /\ Arc(t) \in OpenDevices /\ q.dev = Arc(t) /\ q \in Table!Requests
        /\ CallProgress[t] = [at |-> "asked", request |-> q]
    BY RepliedTable
  <1>4. \/ issued[q.buf] # q.dev /\ Refusal(t) = "foreign"
        \/ issued[q.buf] = q.dev /\ q.buf \notin LiveBuffers /\ Refusal(t) = "freed"
    BY <1>1, <1>3, ResolvedLive DEF Refusal
  <1>5. Table!Refuses(t, q)
    <2>1. Table!Asked(t, q)
      BY <1>3 DEF Table!Asked
    <2>2. \/ issued[q.buf] # q.dev /\ Table!Answers(t, "foreign")
          \/ issued[q.buf] = q.dev /\ q.buf \notin LiveBuffers /\ Table!Answers(t, "freed")
      BY <1>3, <1>4 DEF Table!Answers
    <2> HIDE DEF q
    <2> QED
      BY <1>2, <1>3, <2>1, <2>2 DEF Table!Refuses, q
  <1> QED
    BY <1>3, <1>5 DEF TableStep, Table!Next

LEMMA AllocMaps ==
  ASSUME Coherent, Coherent', NEW t \in Threads, Alloc(t)
  PROVE  TableStep
  <1> DEFINE d == Arc(t)
             old == devices[d]
             new == devices'[d]
             h == BufferHandle(d, old.next)
             q == threads[t].req
  <1>1. /\ threads[t].pc = "inside" /\ q.op = "alloc"
        /\ new.closed = old.closed
        /\ \/ /\ old.next # Half - 1
              /\ new.next = old.next + 1
              /\ new.buffers = old.buffers \cup {old.next}
              /\ issued' = [issued EXCEPT ![h] = d]
              /\ Replied(t, "leaving", "ok", h)
           \/ /\ SameHandles(old, new) /\ issued' = issued
              /\ Replied(t, "leaving", "failed", 0)
    BY AllocEffect DEF Coherent
  <1>2. CASE /\ SameHandles(old, new) /\ issued' = issued
             /\ Replied(t, "leaving", "failed", 0)
    <2>1. UNCHANGED <<OpenDevices, OpenedDevices, LiveBuffers, issued>>
      BY <1>2, RepliedSame
    <2>2. /\ CallProgress' = [CallProgress EXCEPT ![t] = Table!Answer("failed", 0)]
          /\ d \in OpenDevices /\ q.dev = d /\ q \in Table!Requests
          /\ CallProgress[t] = [at |-> "asked", request |-> q]
      BY <1>2, RepliedTable
    <2>3. Table!Refuses(t, q)
      BY <1>1, <2>1, <2>2 DEF Table!Refuses, Table!Asked, Table!Answers
    <2> QED
      BY <2>2, <2>3 DEF TableStep, Table!Next
  <1>3. CASE /\ old.next # Half - 1
             /\ new.next = old.next + 1
             /\ new.buffers = old.buffers \cup {old.next}
             /\ issued' = [issued EXCEPT ![h] = d]
             /\ Replied(t, "leaving", "ok", h)
    <2>1. /\ CallProgress' = [CallProgress EXCEPT ![t] = Table!Answer("ok", h)]
          /\ d \in DeviceIds /\ d \in OpenDevices /\ ~devices[d].closed
          /\ registry' = registry
          /\ \A e \in DeviceIds \ {d} : devices'[e] = devices[e]
          /\ q \in Requests /\ q.dev = d
          /\ CallProgress[t] = [at |-> "asked", request |-> q]
      BY <1>3, RepliedTable
    <2>2. q = [op |-> "alloc", dev |-> d]
      BY <1>1, <2>1, RequestShape
    <2>3. /\ old.next \in Sequences /\ d # Nothing
          /\ h \in Word /\ Owner(h) = d /\ Sequence(h) = old.next
          /\ issued[h] = Nothing
      BY <1>3, <2>1, FreshHandle
    <2>4. issued \in [Word -> DeviceIds \cup {Nothing}]
      BY DEF Coherent, Typed
    <2>5. issued'[h] = d /\ \A g \in Word \ {h} : issued'[g] = issued[g]
      BY <1>3, <2>3, <2>4
    <2>6. OpenDevices' = OpenDevices /\ OpenedDevices' = OpenedDevices
      BY <1>1, <2>1 DEF OpenDevices, OpenedDevices
    <2>7. LiveAre(devices', issued') = LiveAre(devices, issued) \cup {h}
      <3>1. SUFFICES ASSUME NEW g \in Word
                     PROVE  g \in LiveAre(devices', issued')
                              <=> g \in LiveAre(devices, issued) \cup {h}
        BY <2>3 DEF LiveAre
      <3>2. CASE g = h
        BY <1>1, <1>3, <2>1, <2>3, <2>5, <3>2 DEF LiveAre
      <3>3. CASE g # h /\ issued[g] = d
        <4>1. g = BufferHandle(d, Sequence(g))
          BY <2>3, <3>3, Owned
        <4>2. Sequence(g) # old.next
          BY <3>3, <4>1
        <4> QED
          BY <1>1, <1>3, <2>5, <3>3, <4>2 DEF LiveAre
      <3>4. CASE g # h /\ issued[g] # d
        BY <2>1, <2>4, <2>5, <3>4 DEF LiveAre
      <3> QED
        BY <3>2, <3>3, <3>4
    <2>8. LiveBuffers' = LiveBuffers \cup {h}
      BY <2>7, LiveNow, LiveNext
    <2>9. Table!Allocates(t, d, h)
      BY <1>3, <2>1, <2>2, <2>3, <2>6, <2>8
         DEF Table!Allocates, Table!Asked, Table!Hands
    <2> QED
      BY <2>1, <2>3, <2>9 DEF TableStep, Table!Next
  <1> QED
    BY <1>1, <1>2, <1>3

LEMMA FreeMaps ==
  ASSUME Coherent, Coherent', NEW t \in Threads, Free(t)
  PROVE  TableStep
  <1> DEFINE d == Arc(t)
             old == devices[d]
             new == devices'[d]
             q == threads[t].req
             h == q.buf
  <1>1. /\ threads[t].pc = "inside" /\ q.op = "free" /\ issued' = issued
        /\ \/ /\ Resolved(t)
              /\ new.closed = old.closed /\ new.next = old.next
              /\ new.buffers = old.buffers \ {Sequence(h)}
              /\ \/ Replied(t, "leaving", "ok", 0)
                 \/ Replied(t, "leaving", "failed", 0)
           \/ /\ ~Resolved(t) /\ SameHandles(old, new)
              /\ Replied(t, "leaving", Refusal(t), 0)
    BY FreeEffect DEF Coherent
  <1>2. CASE /\ ~Resolved(t) /\ SameHandles(old, new)
             /\ Replied(t, "leaving", Refusal(t), 0)
    BY <1>1, <1>2, RefusalMaps
  <1>3. CASE /\ Resolved(t)
             /\ new.closed = old.closed /\ new.next = old.next
             /\ new.buffers = old.buffers \ {Sequence(h)}
             /\ \/ Replied(t, "leaving", "ok", 0)
                \/ Replied(t, "leaving", "failed", 0)
    <2>1. /\ \/ CallProgress' = [CallProgress EXCEPT ![t] = Table!Answer("ok", 0)]
             \/ CallProgress' = [CallProgress EXCEPT ![t] = Table!Answer("failed", 0)]
          /\ d \in DeviceIds /\ d \in OpenDevices /\ ~devices[d].closed
          /\ registry' = registry
          /\ \A e \in DeviceIds \ {d} : devices'[e] = devices[e]
          /\ q \in Requests /\ q.dev = d
          /\ CallProgress[t] = [at |-> "asked", request |-> q]
      BY <1>3, RepliedTable
    <2>2. q = [op |-> "free", dev |-> d, buf |-> h]
      BY <1>1, <2>1, RequestShape
    <2>3. /\ h \in Word /\ issued[h] = d /\ h \in LiveBuffers
      BY <1>1, <1>3, ResolvedLive
    <2>4. issued \in [Word -> DeviceIds \cup {Nothing}]
      BY DEF Coherent, Typed
    <2>5. OpenDevices' = OpenDevices /\ OpenedDevices' = OpenedDevices
      BY <1>3, <2>1 DEF OpenDevices, OpenedDevices
    <2>6. LiveAre(devices', issued') = LiveAre(devices, issued) \ {h}
      <3>1. SUFFICES ASSUME NEW g \in Word, issued[g] # Nothing
                     PROVE  g \in LiveAre(devices', issued')
                              <=> g \in LiveAre(devices, issued) \ {h}
        BY <1>1 DEF LiveAre
      <3>2. CASE issued[g] = d
        <4>1. g = BufferHandle(d, Sequence(g)) /\ h = BufferHandle(d, Sequence(h))
          BY <2>3, <3>1, <3>2, Owned, ProgramAssumption
        <4>2. Sequence(g) = Sequence(h) <=> g = h
          BY <4>1
        <4> QED
          BY <1>1, <1>3, <3>1, <3>2, <4>2 DEF LiveAre
      <3>3. CASE issued[g] # d
        BY <1>1, <2>1, <2>3, <2>4, <3>1, <3>3 DEF LiveAre
      <3> QED
        BY <3>2, <3>3
    <2>7. LiveBuffers' = LiveBuffers \ {h}
      BY <2>6, LiveNow, LiveNext
    <2>8. Table!Frees(t, d, h)
      <3>1. Table!Answers(t, "ok") \/ Table!Answers(t, "failed")
        BY <2>1 DEF Table!Answers
      <3> QED
        BY <1>1, <2>1, <2>2, <2>3, <2>5, <2>7, <3>1 DEF Table!Frees, Table!Asked
    <2> QED
      BY <2>1, <2>3, <2>8 DEF TableStep, Table!Next
  <1> QED
    BY <1>1, <1>2, <1>3

LEMMA UseMaps ==
  ASSUME Coherent, Coherent', NEW t \in Threads, Use(t)
  PROVE  TableStep
  <1> DEFINE d == Arc(t)
             q == threads[t].req
             h == q.buf
  <1>1. /\ threads[t].pc = "inside" /\ q.op = "use" /\ issued' = issued
        /\ SameHandles(devices[d], devices'[d])
        /\ \/ /\ Resolved(t)
              /\ \/ Replied(t, "leaving", "ok", 0)
                 \/ Replied(t, "leaving", "failed", 0)
           \/ ~Resolved(t) /\ Replied(t, "leaving", Refusal(t), 0)
    BY UseEffect DEF Coherent
  <1>2. CASE ~Resolved(t) /\ Replied(t, "leaving", Refusal(t), 0)
    BY <1>1, <1>2, RefusalMaps
  <1>3. CASE Resolved(t)
    <2>1. h \in Word /\ issued[h] = d /\ h \in LiveBuffers
      BY <1>1, <1>3, ResolvedLive
    <2>2. PICK code \in {"ok", "failed"} : Replied(t, "leaving", code, 0)
      BY <1>1, <1>3
    <2>3. UNCHANGED <<OpenDevices, OpenedDevices, LiveBuffers, issued>>
      BY <1>1, <2>2, RepliedSame
    <2>4. /\ CallProgress' = [CallProgress EXCEPT ![t] = Table!Answer(code, 0)]
          /\ d \in DeviceIds /\ d \in OpenDevices
          /\ q \in Requests /\ q \in Table!Requests /\ q.dev = d
          /\ CallProgress[t] = [at |-> "asked", request |-> q]
      BY <2>2, RepliedTable
    <2>5. CASE code = "ok"
      <3>1. q = [op |-> "use", dev |-> d, buf |-> h]
        BY <1>1, <2>4, RequestShape
      <3>2. Table!Uses(t, d, h)
        BY <2>1, <2>3, <2>4, <2>5, <3>1 DEF Table!Uses, Table!Asked, Table!Answers
      <3> QED
        BY <2>1, <2>4, <3>2 DEF TableStep, Table!Next
    <2>6. CASE code = "failed"
      <3>1. Table!Refuses(t, q)
        BY <1>1, <2>1, <2>3, <2>4, <2>6 DEF Table!Refuses, Table!Asked, Table!Answers
      <3> QED
        BY <2>4, <3>1 DEF TableStep, Table!Next
    <2> QED
      BY <2>2, <2>5, <2>6
  <1> QED
    BY <1>1, <1>2, <1>3

LEMMA CloseMaps ==
  ASSUME Coherent, Coherent', NEW t \in Threads, Close(t)
  PROVE  TableStep
  <1> DEFINE d == Arc(t)
             old == devices[d]
             new == devices'[d]
             q == threads[t].req
  <1>1. /\ threads[t].pc = "inside" /\ q.op = "close" /\ issued' = issued
        /\ \/ /\ old.buffers # {} /\ SameHandles(old, new)
              /\ Replied(t, "leaving", "live buffers", 0)
           \/ /\ old.buffers = {} /\ new.closed
              /\ new.buffers = {} /\ new.next = old.next
              /\ Replied(t, "removing", "ok", 0)
    BY CloseEffect DEF Coherent
  <1>2. CASE /\ old.buffers # {} /\ SameHandles(old, new)
             /\ Replied(t, "leaving", "live buffers", 0)
    <2>1. UNCHANGED <<OpenDevices, OpenedDevices, LiveBuffers, issued>>
      BY <1>1, <1>2, RepliedSame
    <2>2. /\ CallProgress' = [CallProgress EXCEPT ![t] = Table!Answer("live buffers", 0)]
          /\ d \in DeviceIds /\ d \in OpenDevices /\ ~devices[d].closed
          /\ d < registry.next
          /\ q \in Table!Requests /\ q.dev = d
          /\ CallProgress[t] = [at |-> "asked", request |-> q]
      <3>1. Replied(t, "leaving", "live buffers", 0)
        BY <1>2
      <3> QED
        BY <3>1, RepliedTable
    <2>3. \E h \in LiveBuffers : issued[h] = d
      <3>1. PICK s \in old.buffers : TRUE
        BY <1>2
      <3>2. issued[BufferHandle(d, s)] = d /\ s \in Sequences
        BY <2>2, <3>1 DEF Coherent, Handed, Typed, Device
      <3>3. d <= Half - 1
        BY <2>2, Packable
      <3>4. BufferHandle(d, s) \in Word /\ Sequence(BufferHandle(d, s)) = s
        BY <2>2, <3>2, <3>3, HandleParts
      <3>5. d # Nothing
        BY <2>2, ProgramAssumption DEF DeviceIds
      <3>6. BufferHandle(d, s) \in LiveBuffers
        BY <2>2, <3>1, <3>2, <3>4, <3>5, LiveNow DEF LiveAre
      <3> QED
        BY <3>2, <3>6
    <2>4. Table!Refuses(t, q)
      BY <1>1, <2>1, <2>2, <2>3 DEF Table!Refuses, Table!Asked, Table!Answers
    <2> QED
      BY <2>2, <2>4 DEF TableStep, Table!Next
  <1>3. CASE /\ old.buffers = {} /\ new.closed
             /\ new.buffers = {} /\ new.next = old.next
             /\ Replied(t, "removing", "ok", 0)
    <2>1. /\ CallProgress' = [CallProgress EXCEPT ![t] = Table!Answer("ok", 0)]
          /\ d \in DeviceIds /\ d \in OpenDevices
          /\ registry' = registry
          /\ \A e \in DeviceIds \ {d} : devices'[e] = devices[e]
          /\ q \in Requests /\ q.dev = d
          /\ CallProgress[t] = [at |-> "asked", request |-> q]
      BY <1>3, RepliedTable
    <2>2. q = [op |-> "close", dev |-> d]
      BY <1>1, <2>1, RequestShape
    <2>3. OpenDevices' = OpenDevices \ {d} /\ OpenedDevices' = OpenedDevices
      BY <1>3, <2>1 DEF OpenDevices, OpenedDevices
    <2>4. \A g \in Word : issued[g] = d =>
            g \notin LiveAre(devices, issued) /\ g \notin LiveAre(devices', issued')
      BY <1>1, <1>3 DEF LiveAre
    <2>5. issued \in [Word -> DeviceIds \cup {Nothing}]
      BY DEF Coherent, Typed
    <2>6. LiveAre(devices', issued') = LiveAre(devices, issued)
      <3>1. SUFFICES ASSUME NEW g \in Word, issued[g] # Nothing, issued[g] # d
                     PROVE  g \in LiveAre(devices', issued')
                              <=> g \in LiveAre(devices, issued)
        BY <1>1, <2>4 DEF LiveAre
      <3> QED
        BY <1>1, <2>1, <2>5, <3>1 DEF LiveAre
    <2>7. LiveBuffers' = LiveBuffers /\ \A g \in LiveBuffers : issued[g] # d
      <3>1. LiveBuffers \subseteq Word
        BY DEF LiveBuffers
      <3> QED
        BY <2>4, <2>6, <3>1, LiveNow, LiveNext
    <2>8. Table!Closes(t, d)
      BY <1>1, <2>1, <2>2, <2>3, <2>7 DEF Table!Closes, Table!Asked, Table!Answers
    <2> QED
      BY <2>1, <2>8 DEF TableStep, Table!Next
  <1> QED
    BY <1>1, <1>2, <1>3

LEMMA NextMaps ==
  ASSUME Coherent, Coherent', [Next]_vars
  PROVE  TableStep
  <1>1. CASE UNCHANGED vars
    BY <1>1 DEF vars, TableStep, Table!table, OpenDevices, OpenedDevices, LiveBuffers,
                CallProgress
  <1>2. ASSUME NEW t \in Threads, NEW q \in Requests, Call(t, q) PROVE TableStep
    BY <1>2, CallMaps
  <1>3. ASSUME NEW t \in Threads, Open(t) PROVE TableStep
    BY <1>3, OpenMaps
  <1>4. ASSUME NEW t \in Threads, Lookup(t) PROVE TableStep
    BY <1>4, LookupMaps
  <1>5. ASSUME NEW t \in Threads, Enter(t) PROVE TableStep
    BY <1>5, EnterMaps
  <1>6. ASSUME NEW t \in Threads, Alloc(t) PROVE TableStep
    BY <1>6, AllocMaps
  <1>7. ASSUME NEW t \in Threads, Free(t) PROVE TableStep
    BY <1>7, FreeMaps
  <1>8. ASSUME NEW t \in Threads, Use(t) PROVE TableStep
    BY <1>8, UseMaps
  <1>9. ASSUME NEW t \in Threads, Close(t) PROVE TableStep
    BY <1>9, CloseMaps
  <1>10. ASSUME NEW t \in Threads, Remove(t) PROVE TableStep
    BY <1>10, RemoveMaps
  <1>11. ASSUME NEW t \in Threads, Leave(t) PROVE TableStep
    BY <1>11, LeaveMaps
  <1> QED
    BY <1>1, <1>2, <1>3, <1>4, <1>5, <1>6, <1>7, <1>8, <1>9, <1>10, <1>11 DEF Next

LEMMA InitMaps ==
  ASSUME Init
  PROVE  Table!Init
  <1>1. registry.next = 1 /\ \A d \in DeviceIds : ~(d < 1)
    BY DEF Init, DeviceIds
  <1>2. OpenDevices = {} /\ OpenedDevices = {}
    BY <1>1 DEF OpenDevices, OpenedDevices
  <1>3. issued = [h \in Word |-> Nothing]
    BY DEF Init
  <1>4. LiveBuffers = {}
    BY <1>3 DEF LiveBuffers
  <1>5. CallProgress = [t \in Threads |-> Table!Silent]
    BY ProgressOf DEF Init, CallProgress
  <1> QED
    BY <1>2, <1>3, <1>4, <1>5 DEF Table!Init

(* Every call takes effect at one instant between its beginning and its    *)
(* return, and a handle is handed out once and never means anything else:  *)
(* the registry, its locks and flags and references implement DeviceTable, *)
(* whatever the threads race ("Close is atomic", ffi.rs:27-32).        *)
THEOREM RegistryImplementsTable == Spec => CallsAreAtomic
  <1>1. Init => Table!Init /\ Referenced /\ Coherent
    BY InitMaps, InitReferenced, InitCoherent
  <1>2. Referenced /\ Coherent /\ [Next]_vars => Referenced' /\ Coherent'
    BY NextReferenced, NextCoherent
  <1>3. Coherent /\ Coherent' /\ [Next]_vars => [Table!Next]_(Table!table)
    BY NextMaps DEF TableStep
  <1> QED
    BY <1>1, <1>2, <1>3, PTL DEF Spec, CallsAreAtomic, Table!Spec
=============================================================================
