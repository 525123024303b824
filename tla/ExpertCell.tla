------------------------------ MODULE ExpertCell ------------------------------
(***************************************************************************)
(* What an expert bank promises about one expert (expert_bank.py): a       *)
(* commit replaces the expert's state at one instant, a refused write      *)
(* changes nothing, and a read answers with a state that was committed     *)
(* while it ran.  An expert becomes visible "only when its complete        *)
(* generation pointer is atomically replaced".                             *)
(***************************************************************************)
EXTENDS Naturals

CONSTANTS Readers, Generations, MaxStep, Counts

VARIABLES
  cell,       (* the committed state                                    *)
  used,       (* generations ever committed                             *)
  reads       (* what each reader's last read answered, or is to answer *)

expert == <<cell, used, reads>>

Never == [gen |-> 0, revision |-> 0, step |-> 0, updates |-> 0, commits |-> 0]
Asked == [at |-> "asked"]
Refused == [at |-> "refused"]      \* or none yet
Answer(p) == [at |-> "answered", state |-> p]

Init ==
  /\ cell = Never /\ used = {}
  /\ reads = [r \in Readers |-> Refused]

(* A write: a generation of its own, one revision on, a step that does not *)
(* regress, and so many parameters said to be updated.                     *)
Commit(g, step, count) ==
  /\ g \notin used /\ step >= cell.step
  /\ cell' = [gen |-> g, revision |-> cell.revision + 1, step |-> step,
              updates |-> cell.updates + count,
              commits |-> IF count > 0 THEN cell.commits + 1 ELSE cell.commits]
  /\ used' = used \cup {g} /\ UNCHANGED reads

Ask(r) ==
  /\ reads[r] # Asked
  /\ reads' = [reads EXCEPT ![r] = Asked] /\ UNCHANGED <<cell, used>>

(* The read is of this instant; it may still be refused. *)
Take(r) ==
  /\ reads[r] = Asked /\ cell # Never
  /\ reads' = [reads EXCEPT ![r] = Answer(cell)] /\ UNCHANGED <<cell, used>>

Refuse(r) ==
  /\ reads[r] # Refused
  /\ reads' = [reads EXCEPT ![r] = Refused] /\ UNCHANGED <<cell, used>>

Next ==
  \/ \E g \in Generations, step \in 0 .. MaxStep, count \in Counts :
       Commit(g, step, count)
  \/ \E r \in Readers : Ask(r) \/ Take(r) \/ Refuse(r)

Spec == Init /\ [][Next]_expert
=============================================================================
