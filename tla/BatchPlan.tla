------------------------------ MODULE BatchPlan ------------------------------
(***************************************************************************)
(* The state of one open batch, with no Vulkan handle in it (batch.rs).    *)
(*                                                                         *)
(* A plan is a value: the operators below take a plan and give the next    *)
(* one.  It decides when a memory barrier precedes a command and when the  *)
(* batch is full; the bytes retired into it are in module DeferredContext. *)
(*                                                                         *)
(* A declaration [reads, writes] stands for the list of Access values of a *)
(* dispatch, or for the ids a transfer is given: order and repetition of   *)
(* the list decide nothing.  Sequence numbers only feed error messages and *)
(* are left out.                                                           *)
(***************************************************************************)
EXTENDS Integers

CONSTANT
  Ids          (* what a declaration can name: Buffer::id, and 0 for an area *)

BarrierRule == {"always", "declared"}     \* ACK_BARRIERS

Declaration == [reads: SUBSET Ids, writes: SUBSET Ids]

Plan == [rule: BarrierRule, items: Nat, barriers: Nat,
         written: SUBSET Ids,   \* written_since_barrier
         read: SUBSET Ids,      \* read_since_barrier
         maxItems: Nat]

(* Mutant: an empty batch starts from the doc's formula, items less one. *)
NewPlanBelowZero(rule, maxItems) ==
  [rule |-> rule, items |-> 0, barriers |-> 0 - 1, written |-> {}, read |-> {},
   maxItems |-> maxItems]

(* BatchPlan::new.  A budget of 0 items could never record anything. *)
NewPlan(rule, maxItems) ==
  [rule |-> rule, items |-> 0, barriers |-> 0, written |-> {}, read |-> {},
   maxItems |-> IF maxItems = 0 THEN 1 ELSE maxItems]

(* Mutant: a write after a read is no hazard. *)
ConflictsWithoutWAR(p, d) == (d.reads \cup d.writes) \cap p.written # {}

(* A hazard against the commands since the last barrier: the declaration   *)
(* touches a buffer they wrote, or writes one they read.                   *)
ConflictsWith(p, d) ==
  \/ (d.reads \cup d.writes) \cap p.written # {}
  \/ d.writes \cap p.read # {}

Undeclared(d) == d.reads \cup d.writes = {}

(* The barrier of a dispatch: never before the first item; an empty        *)
(* declaration takes one.                                                  *)
ItemBarrier(p, d) ==
  /\ p.items > 0
  /\ p.rule = "always" \/ Undeclared(d) \/ ConflictsWith(p, d)

(* The barrier of a recorded transfer, or of a group of transfers decided  *)
(* as one.                                                                 *)
TransferBarrier(p, d) ==
  /\ p.items > 0
  /\ p.rule = "always" \/ ConflictsWith(p, d)

(* Mutant: a barrier does not forget what it ordered. *)
TrackForever(p, d, barrier) ==
  [p EXCEPT !.written = @ \cup d.writes, !.read = @ \cup d.reads]

(* Track a declaration, behind a barrier or not: a barrier forgets         *)
(* everything before it, never what comes behind it.                       *)
Track(p, d, barrier) ==
  [p EXCEPT !.written = IF barrier THEN d.writes ELSE @ \cup d.writes,
            !.read    = IF barrier THEN d.reads  ELSE @ \cup d.reads]

(* record_with: one item more, and one barrier more if it took one. *)
RecordWith(p, d) ==
  [Track(p, d, ItemBarrier(p, d)) EXCEPT
     !.items = @ + 1,
     !.barriers = IF ItemBarrier(p, d) THEN @ + 1 ELSE @]

(* record_transfer_write, _writes, _group and _read: a transfer is not an  *)
(* item and its barrier is not counted.                                    *)
RecordTransfer(p, d) == Track(p, d, TransferBarrier(p, d))

(* due: the batch is full. *)
Due(p) == p.items >= p.maxItems

==============================================================================
