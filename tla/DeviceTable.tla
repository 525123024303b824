----------------------------- MODULE DeviceTable -----------------------------
(***************************************************************************)
(* What the C ABI promises of its handles (ffi.rs, the header's "Handles   *)
(* are ids" and "Close is atomic"): every call takes effect at one instant *)
(* between its beginning and its return, whatever the threads race, on a   *)
(* table of open devices and live buffers.  A handle is handed out once    *)
(* and never means anything else: it is live, or freed, or its device is   *)
(* closed, and each is refused by name.                                    *)
(***************************************************************************)
CONSTANTS
  Threads,
  DeviceIds, BufferHandles,    (* what the ABI hands out, none of them 0 *)
  Nothing                      (* no owner                               *)

VARIABLES
  open,      (* devices open                                      *)
  opened,    (* device ids ever handed out                        *)
  live,      (* buffers allocated and not freed                   *)
  owner,     (* the device every handle ever handed out was of    *)
  calls      (* each thread's call: its request, then its answer  *)

table == <<open, opened, live, owner, calls>>

(* The calls: open; close and alloc on a device; free and use of a buffer  *)
(* on a device.  `use' is any entry that resolves a buffer handle.         *)
Requests ==
  [op: {"open"}] \cup [op: {"close", "alloc"}, dev: DeviceIds]
    \cup [op: {"free", "use"}, dev: DeviceIds, buf: BufferHandles]

(* An answer is a return code, with the handle a successful call hands out. *)
Silent == [at |-> "silent"]
Answer(code, id) == [at |-> "answered", code |-> code, id |-> id]

Init ==
  /\ open = {} /\ opened = {} /\ live = {}
  /\ owner = [h \in BufferHandles |-> Nothing]
  /\ calls = [t \in Threads |-> Silent]

(* A program passes handles it was given, of any device, freed or not. *)
Known(r) ==
  /\ r.op # "open" => r.dev \in opened
  /\ r.op \in {"free", "use"} => owner[r.buf] # Nothing

Call(t, r) ==
  /\ calls[t] = Silent /\ Known(r)
  /\ calls' = [calls EXCEPT ![t] = [at |-> "asked", request |-> r]]
  /\ UNCHANGED <<open, opened, live, owner>>

Asked(t, r) == calls[t] = [at |-> "asked", request |-> r]
Answers(t, code) == calls' = [calls EXCEPT ![t] = Answer(code, 0)]
Hands(t, id) == calls' = [calls EXCEPT ![t] = Answer("ok", id)]

(* Refusals, in the order the entries make them, and failures of the       *)
(* operation itself.                                                       *)
Refuses(t, r) ==
  /\ Asked(t, r)
  /\ \/ r.op = "open" /\ Answers(t, "failed")
     \/ r.op # "open" /\ r.dev \notin open /\ Answers(t, "closed")
     \/ r.op = "alloc" /\ r.dev \in open /\ Answers(t, "failed")
     \/ /\ r.op = "close" /\ r.dev \in open
        /\ \E h \in live : owner[h] = r.dev
        /\ Answers(t, "live buffers")
     \/ /\ r.op \in {"free", "use"} /\ r.dev \in open
        /\ \/ owner[r.buf] # r.dev /\ Answers(t, "foreign")
           \/ owner[r.buf] = r.dev /\ r.buf \notin live /\ Answers(t, "freed")
           \/ /\ r.op = "use" /\ owner[r.buf] = r.dev /\ r.buf \in live
              /\ Answers(t, "failed")
  /\ UNCHANGED <<open, opened, live, owner>>

Opens(t, d) ==
  /\ Asked(t, [op |-> "open"])
  /\ d \notin opened
  /\ open' = open \cup {d} /\ opened' = opened \cup {d}
  /\ Hands(t, d) /\ UNCHANGED <<live, owner>>

Closes(t, d) ==
  /\ Asked(t, [op |-> "close", dev |-> d])
  /\ d \in open /\ \A h \in live : owner[h] # d
  /\ open' = open \ {d}
  /\ Answers(t, "ok") /\ UNCHANGED <<opened, live, owner>>

Allocates(t, d, h) ==
  /\ Asked(t, [op |-> "alloc", dev |-> d])
  /\ d \in open /\ owner[h] = Nothing
  /\ live' = live \cup {h} /\ owner' = [owner EXCEPT ![h] = d]
  /\ Hands(t, h) /\ UNCHANGED <<open, opened>>

(* The handle is consumed, whatever became of the buffer. *)
Frees(t, d, h) ==
  /\ Asked(t, [op |-> "free", dev |-> d, buf |-> h])
  /\ d \in open /\ owner[h] = d /\ h \in live
  /\ live' = live \ {h}
  /\ Answers(t, "ok") \/ Answers(t, "failed")
  /\ UNCHANGED <<open, opened, owner>>

Uses(t, d, h) ==
  /\ Asked(t, [op |-> "use", dev |-> d, buf |-> h])
  /\ d \in open /\ owner[h] = d /\ h \in live
  /\ Answers(t, "ok") /\ UNCHANGED <<open, opened, live, owner>>

Returns(t) ==
  /\ calls[t].at = "answered"
  /\ calls' = [calls EXCEPT ![t] = Silent]
  /\ UNCHANGED <<open, opened, live, owner>>

Next ==
  \E t \in Threads :
    \/ \E r \in Requests : Call(t, r) \/ Refuses(t, r)
    \/ \E d \in DeviceIds : Opens(t, d) \/ Closes(t, d)
    \/ \E d \in DeviceIds, h \in BufferHandles :
         Allocates(t, d, h) \/ Frees(t, d, h) \/ Uses(t, d, h)
    \/ Returns(t)

Spec == Init /\ [][Next]_table
=============================================================================
