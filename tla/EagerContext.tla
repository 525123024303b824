---------------------------- MODULE EagerContext ----------------------------
(***************************************************************************)
(* What a Context promises its caller: every call it accepts has happened. *)
(* A buffer is a cell that a dispatch or an upload sets and a readback     *)
(* reads, as if nothing were deferred, pooled or in flight, until the      *)
(* context refuses every later call (poisoned).                            *)
(***************************************************************************)
EXTENDS Naturals

CONSTANTS
  Handles,     (* Buffer ids, in the order they are handed out *)
  Values,      (* contents of a buffer, neither of the next two *)
  Unheld,      (* the content of an id that names no buffer    *)
  NoAnswer,    (* no readback was the last call                *)
  Everything   (* wrote, of a call that gave up recorded work  *)

VARIABLES
  cells,       (* what each live buffer holds            *)
  refusing,    (* the context refuses every call         *)
  answer,      (* what the last call, a readback, gave   *)
  wrote        (* what the last call wrote: a buffer, 0 for nothing, or all *)

eager == <<cells, refusing, answer, wrote>>

Init ==
  /\ cells = [h \in Handles |-> Unheld]
  /\ refusing = FALSE
  /\ answer = NoAnswer /\ wrote = 0

Silent == answer' = NoAnswer /\ wrote' = 0

(* A new buffer holds anything. *)
Create(h) ==
  /\ ~refusing /\ cells[h] = Unheld
  /\ \E v \in Values : cells' = [cells EXCEPT ![h] = v]
  /\ Silent /\ UNCHANGED refusing

Set(h, v) ==
  /\ ~refusing /\ cells[h] # Unheld
  /\ cells' = [cells EXCEPT ![h] = v] /\ wrote' = h
  /\ answer' = NoAnswer /\ UNCHANGED refusing

Read(h) ==
  /\ ~refusing /\ cells[h] # Unheld
  /\ answer' = cells[h] /\ wrote' = 0 /\ UNCHANGED <<cells, refusing>>

Free(h) ==
  /\ ~refusing /\ cells[h] # Unheld
  /\ cells' = [cells EXCEPT ![h] = Unheld]
  /\ Silent /\ UNCHANGED refusing

(* The program gives up what it recorded: a live buffer may hold anything. *)
Discard ==
  /\ ~refusing
  /\ cells' \in [Handles -> Values \cup {Unheld}]
  /\ \A h \in Handles : cells'[h] = Unheld <=> cells[h] = Unheld
  /\ wrote' = Everything
  /\ answer' = NoAnswer /\ UNCHANGED refusing

(* A call that has no effect on any buffer, successful or not. *)
Other == Silent /\ UNCHANGED <<cells, refusing>>

(* A failure nothing can be promised after.  No cell can be read again. *)
Refuse ==
  /\ refusing' = TRUE
  /\ cells' = [h \in Handles |-> Unheld]
  /\ Silent

Next ==
  \/ Other
  \/ Refuse
  \/ Discard
  \/ \E h \in Handles : Create(h) \/ Read(h) \/ Free(h)
  \/ \E h \in Handles, v \in Values : Set(h, v)

Spec == Init /\ [][Next]_eager
=============================================================================
