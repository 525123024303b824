------------------------------ MODULE ExpertBank ------------------------------
(***************************************************************************)
(* One expert of a bank on disk (expert_bank.py: write_expert,             *)
(* read_expert_state): its generations of shards, the pointer that makes   *)
(* one of them the committed one, a writer that may fail, be interrupted   *)
(* or crash, and readers beside it.  Experts share no file, and the bank's *)
(* configuration never changes once it is open.                            *)
(*                                                                         *)
(* A crash is the end of the process: what was written stays ("power-loss  *)
(* durability of the directory entry is platform dependent").  A file is   *)
(* read whole by one call; an interrupt is any exception raised inside the *)
(* writer's try block, KeyboardInterrupt included.                         *)
(***************************************************************************)
EXTENDS Naturals, Sequences, FiniteSets

CONSTANTS
  Writers, Readers,
  Generations,    (* uuid4 of each write: taken once; bound on writes        *)
  Matrices,       (* matrix_shapes: shards of a generation                   *)
  MaxStep,        (* bound on optimizer_step                                 *)
  Parameters,     (* parameters_per_expert                                   *)
  Counts,         (* updated_count of a write                                *)
  Attempts,       (* _REPLACE_ATTEMPTS                                       *)
  Sharing,        (* Windows: an open file is not replaced                   *)
  Apart,          (* no two writers stand between the check and the          *)
                  (* replacement at once (the bank is for a single writer)   *)
  MaxFaults,      (* bound: faults that happen                               *)
  Faults          (* what happens: "refused" (a write of a file fails and    *)
                  (* leaves nothing), "partial" (it leaves a file the writer *)
                  (* has not noted, cut short or whole), "interrupt" (between *)
                  (* two steps, before the replacement has returned),        *)
                  (* "late interrupt" (after), "crash", "rot" (the bytes of  *)
                  (* a shard change)                                         *)

ASSUME BankAssumption ==
  /\ 0 \notin Generations /\ Counts \subseteq 0 .. Parameters
  /\ {Matrices, Attempts} \subseteq Nat \ {0} /\ {MaxStep, Parameters, MaxFaults} \subseteq Nat
  /\ {Sharing, Apart} \subseteq BOOLEAN
  /\ Faults \subseteq {"refused", "partial", "interrupt", "late interrupt", "crash", "rot"}

VARIABLES
  files,      (* shards and pending pointers on disk                         *)
  pointer,    (* expert-L-E.json                                             *)
  writers, readers,
  history     (* [taken, committed, crashed: generations, faults: a count]   *)

vars == <<files, pointer, writers, readers, history>>

(* A shard, or the pending pointer of a generation. *)
Shard(g, i) == <<g, i>>
Pending(g) == <<g, 0>>
Paths == Generations \X (0 .. Matrices)
Shards(g) == {Shard(g, i) : i \in 1 .. Matrices}

(* The pointer's content: 0 and no revision when there is no such file. *)
Pointers == [gen: Generations \cup {0}, revision: Nat, step: 0 .. MaxStep,
             updates: Nat, commits: Nat]

NoPointer == [gen |-> 0, revision |-> 0, step |-> 0, updates |-> 0, commits |-> 0]

(* _pointer: what it accepts of the counters of a pointer. *)
Accepted(p) ==
  /\ p.revision >= 1 /\ p.commits <= p.revision
  /\ (p.updates = 0) <=> (p.commits = 0)
  /\ p.commits <= p.updates /\ p.updates <= p.commits * Parameters

(* _read_generation: every shard is there and has the declared digest. *)
Intact(g) == \A s \in Shards(g) : files[s] = "whole"

FileStates == {"none", "partial", "whole", "rotten"}

WriterStates ==
  [pc: {"idle", "writing", "checking", "replacing", "committed", "cleaning"},
   gen: Generations \cup {0},
   next: 0 .. Matrices + 1,         \* the shard to write, then the pending file
   previous: Pointers, new: Pointers,
   written: SUBSET Paths, attempts: 0 .. Attempts - 1]

Resting == [pc |-> "idle", gen |-> 0, next |-> 0, previous |-> NoPointer,
            new |-> NoPointer, written |-> {}, attempts |-> 0]

ReaderStates ==
  [pc: {"idle", "looking", "holding", "loading", "done"}, seen: Pointers,
   next: 0 .. Matrices,
   loaded: SUBSET Generations,      \* the generations whose bytes it has
   lost: BOOLEAN]                   \* a shard was missing or cut short

NotReading == [pc |-> "idle", seen |-> NoPointer, next |-> 0, loaded |-> {},
               lost |-> FALSE]

Init ==
  /\ files = [p \in Paths |-> "none"]
  /\ pointer = NoPointer
  /\ writers = [w \in Writers |-> Resting]
  /\ readers = [r \in Readers |-> NotReading]
  /\ history = [taken |-> {}, committed |-> {}, crashed |-> {},
               faults |-> 0]

(* A fault of this kind happens. *)
Happens(fault) ==
  /\ fault \in Faults /\ history.faults < MaxFaults
  /\ history' = [history EXCEPT !.faults = @ + 1]

-----------------------------------------------------------------------------
(* write_expert.                                                           *)

(* The pointer of the next generation. *)
Succeeding(p, g, step, count) ==
  [gen |-> g, revision |-> p.revision + 1, step |-> step,
   updates |-> p.updates + count,
   commits |-> IF count > 0 THEN p.commits + 1 ELSE p.commits]

(* Up to the try block: refusals leave no trace.  Reading the previous     *)
(* generation meets no other writer's steps but a commit, which the check  *)
(* before the replacement finds.                                           *)
Write(w, g, step, count) ==
  /\ writers[w].pc = "idle" /\ g \notin history.taken
  /\ step >= pointer.step
  /\ pointer # NoPointer => Accepted(pointer) /\ Intact(pointer.gen)
  /\ writers' = [writers EXCEPT ![w] =
       [pc |-> "writing", gen |-> g, next |-> 1, previous |-> pointer,
        new |-> Succeeding(pointer, g, step, count), written |-> {}, attempts |-> 0]]
  /\ history' = [history EXCEPT !.taken = @ \cup {g}]
  /\ UNCHANGED <<files, pointer, readers>>

Raises(w) == writers' = [writers EXCEPT ![w].pc = "cleaning"]

Target(w) ==
  IF writers[w].next > Matrices THEN Pending(writers[w].gen)
  ELSE Shard(writers[w].gen, writers[w].next)

(* _write of the next shard or of the pending pointer, created anew and    *)
(* fsynced; the path is noted once it has returned.                        *)
WriteFile(w) ==
  /\ writers[w].pc = "writing"
  /\ LET at == Target(w) IN
     \/ /\ files' = [files EXCEPT ![at] = "whole"]
        /\ writers' = [writers EXCEPT
             ![w].written = @ \cup {at},
             ![w].next = IF @ > Matrices THEN @ ELSE @ + 1,
             ![w].pc = IF writers[w].next > Matrices THEN "checking" ELSE @]
        /\ UNCHANGED history
     \/ Happens("refused") /\ Raises(w) /\ UNCHANGED files
     \/ /\ Happens("partial") /\ Raises(w)
        /\ \E left \in {"partial", "whole"} : files' = [files EXCEPT ![at] = left]
  /\ UNCHANGED <<pointer, readers>>

(* The pointer is read once more: another writer must not have changed it. *)
Check(w) ==
  /\ writers[w].pc = "checking"
  /\ Apart => \A o \in Writers : writers[o].pc # "replacing"
  /\ IF pointer = writers[w].previous
     THEN writers' = [writers EXCEPT ![w].pc = "replacing"] ELSE Raises(w)
  /\ UNCHANGED <<files, pointer, readers, history>>

(* A reader has the pointer's file open. *)
HeldOpen == Sharing /\ \E r \in Readers : readers[r].pc = "holding"

(* Mutant: the replacement is retried until it succeeds. *)
ReplaceForever(w) ==
  /\ writers[w].pc = "replacing" /\ ~HeldOpen
  /\ pointer' = writers[w].new
  /\ files' = [files EXCEPT ![Pending(writers[w].gen)] = "none"]
  /\ history' = [history EXCEPT !.committed = @ \cup {writers[w].gen}]
  /\ writers' = [writers EXCEPT ![w].pc = "committed"]
  /\ UNCHANGED readers

(* One os.replace of _replace_pointer: refused while a reader holds the    *)
(* file, and given up after the last attempt.                              *)
Replace(w) ==
  /\ writers[w].pc = "replacing"
  /\ IF HeldOpen
     THEN /\ IF writers[w].attempts + 1 = Attempts THEN Raises(w)
             ELSE writers' = [writers EXCEPT ![w].attempts = @ + 1]
          /\ UNCHANGED <<files, pointer, history>>
     ELSE /\ pointer' = writers[w].new
          /\ files' = [files EXCEPT ![Pending(writers[w].gen)] = "none"]
          /\ history' = [history EXCEPT !.committed = @ \cup {writers[w].gen}]
          /\ writers' = [writers EXCEPT ![w].pc = "committed"]
  /\ UNCHANGED readers

(* Mutant: the generation replaced is removed. *)
ReturnPruning(w) ==
  /\ writers[w].pc = "committed"
  /\ writers' = [writers EXCEPT ![w] = Resting]
  /\ files' = [p \in Paths |-> IF p[1] = writers[w].previous.gen THEN "none"
                              ELSE files[p]]
  /\ UNCHANGED <<pointer, readers, history>>

(* The write returns its receipt. *)
Return(w) ==
  /\ writers[w].pc = "committed"
  /\ writers' = [writers EXCEPT ![w] = Resting]
  /\ UNCHANGED <<files, pointer, readers, history>>

(* An exception before the block's next step, the last of which is to      *)
(* leave it.                                                               *)
Interrupt(w) ==
  /\ \/ writers[w].pc \in {"writing", "checking", "replacing"} /\ Happens("interrupt")
     \/ writers[w].pc = "committed" /\ Happens("late interrupt")
  /\ Raises(w)
  /\ UNCHANGED <<files, pointer, readers>>

(* Mutant: the pending pointer is left behind. *)
CleanUpShards(w) ==
  LET left == {p \in writers[w].written : files[p] # "none" /\ p[2] # 0}
  IN  /\ writers[w].pc = "cleaning"
      /\ IF left = {}
         THEN writers' = [writers EXCEPT ![w] = Resting] /\ UNCHANGED files
         ELSE \E p \in left :
                files' = [files EXCEPT ![p] = "none"] /\ UNCHANGED writers
      /\ UNCHANGED <<pointer, readers, history>>

(* The except block: the noted paths go one by one, and the write is       *)
(* refused.                                                                *)
CleanUp(w) ==
  LET left == {p \in writers[w].written : files[p] # "none"}
  IN  /\ writers[w].pc = "cleaning"
      /\ IF left = {}
         THEN writers' = [writers EXCEPT ![w] = Resting] /\ UNCHANGED files
         ELSE \E p \in left :
                files' = [files EXCEPT ![p] = "none"] /\ UNCHANGED writers
      /\ UNCHANGED <<pointer, readers, history>>

(* The writer's process ends, in the middle of a file or between two; the  *)
(* next one opens the bank.                                                *)
Crash(w) ==
  /\ "crash" \in Faults /\ history.faults < MaxFaults /\ writers[w].pc # "idle"
  /\ \/ UNCHANGED files
     \/ writers[w].pc = "writing" /\ files' = [files EXCEPT ![Target(w)] = "partial"]
  /\ writers' = [writers EXCEPT ![w] = Resting]
  /\ history' = [history EXCEPT !.crashed = @ \cup {writers[w].gen}, !.faults = @ + 1]
  /\ UNCHANGED <<pointer, readers>>

-----------------------------------------------------------------------------
(* read_expert_state.                                                      *)

Refused(r) == readers' = [readers EXCEPT ![r] = NotReading]

(* _pointer measures the file first; no such file is a refusal. *)
Read(r) ==
  /\ readers[r].pc \in {"idle", "done"}
  /\ IF pointer = NoPointer THEN Refused(r)
     ELSE readers' = [readers EXCEPT ![r] =
            [NotReading EXCEPT !.pc = "looking", !.seen = pointer]]
  /\ UNCHANGED <<files, pointer, writers, history>>

(* Then it opens and reads it.  One replaced in between may differ in size *)
(* from the one measured, and is refused.                                  *)
OpenPointer(r) ==
  /\ readers[r].pc = "looking"
  /\ \/ readers' = [readers EXCEPT ![r].pc = "holding", ![r].seen = pointer]
     \/ readers[r].seen # pointer /\ Refused(r)
  /\ UNCHANGED <<files, pointer, writers, history>>

ClosePointer(r) ==
  /\ readers[r].pc = "holding"
  /\ IF Accepted(readers[r].seen)
     THEN readers' = [readers EXCEPT ![r].pc = "loading", ![r].next = 1] ELSE Refused(r)
  /\ UNCHANGED <<files, pointer, writers, history>>

(* Mutant: a shard is read from the generation committed now. *)
LoadShardNow(r) ==
  LET p == readers[r]
      gen == pointer.gen
      file == files[Shard(gen, p.next)]
      more == [p EXCEPT !.loaded = @ \cup {gen}]
  IN  /\ p.pc = "loading"
      /\ readers' = [readers EXCEPT ![r] =
           IF file # "whole" THEN [NotReading EXCEPT !.lost = file # "rotten"]
           ELSE IF p.next = Matrices THEN [more EXCEPT !.pc = "done"]
           ELSE [more EXCEPT !.next = @ + 1]]
      /\ UNCHANGED <<files, pointer, writers, history>>

(* _read_generation, a shard at a time. *)
LoadShard(r) ==
  LET p == readers[r]
      gen == p.seen.gen
      file == files[Shard(gen, p.next)]
      more == [p EXCEPT !.loaded = @ \cup {gen}]
  IN  /\ p.pc = "loading"
      /\ readers' = [readers EXCEPT ![r] =
           IF file # "whole" THEN [NotReading EXCEPT !.lost = file # "rotten"]
           ELSE IF p.next = Matrices THEN [more EXCEPT !.pc = "done"]
           ELSE [more EXCEPT !.next = @ + 1]]
      /\ UNCHANGED <<files, pointer, writers, history>>

(* Bytes of a shard change under the bank. *)
Rot(path) ==
  /\ path[2] # 0 /\ files[path] = "whole" /\ Happens("rot")
  /\ files' = [files EXCEPT ![path] = "rotten"]
  /\ UNCHANGED <<pointer, writers, readers>>

Proceeds(w) == WriteFile(w) \/ Check(w) \/ Replace(w) \/ Return(w) \/ CleanUp(w)

Next ==
  \/ \E w \in Writers, g \in Generations, step \in 0 .. MaxStep, count \in Counts :
       Write(w, g, step, count)
  \/ \E w \in Writers : \/ WriteFile(w) \/ Check(w) \/ Replace(w) \/ Return(w)
                        \/ Interrupt(w) \/ CleanUp(w) \/ Crash(w)
  \/ \E r \in Readers : Read(r) \/ OpenPointer(r) \/ ClosePointer(r) \/ LoadShard(r)
  \/ \E path \in Paths : Rot(path)

Spec == Init /\ [][Next]_vars

(* The writer's thread goes on; nobody promises that a reader does. *)
FairSpec == Spec /\ \A w \in Writers : WF_vars(Proceeds(w))
-----------------------------------------------------------------------------
(* The files and the calls have the types the code gives them. *)
TypeOK ==
  /\ files \in [Paths -> FileStates]
  /\ pointer \in Pointers
  /\ writers \in [Writers -> WriterStates]
  /\ readers \in [Readers -> ReaderStates]
  /\ history \in [taken: SUBSET Generations, committed: SUBSET Generations,
                  crashed: SUBSET Generations, faults: 0 .. MaxFaults]

OnDisk(s) == files[s] \in {"whole", "rotten"}

(* Every shard of the committed generation is on disk, written whole, and  *)
(* so is every shard a reader has still to load from the generation it     *)
(* saw, though others have been committed since (expert_bank.py:4-6).      *)
CommittedWhole ==
  /\ pointer # NoPointer =>
       Accepted(pointer) /\ \A s \in Shards(pointer.gen) : OnDisk(s)
  /\ \A r \in Readers :
       /\ readers[r].pc \in {"holding", "loading"} =>
            \A s \in Shards(readers[r].seen.gen) : OnDisk(s)
       /\ ~readers[r].lost

(* "A refused commit removes what it wrote: its uncommitted shards and     *)
(* pending pointer" (expert_bank.py:329-330): a file is of a committed     *)
(* generation, of a write in progress, or of one that crashed.             *)
RefusedLeavesNothing ==
  \A p \in Paths : files[p] # "none" =>
    \/ p[1] \in history.crashed
    \/ p[1] \in history.committed /\ p[2] # 0
    \/ \E w \in Writers : writers[w].gen = p[1]

(* A write ends, committed or refused, though readers may hold the pointer *)
(* open for ever: the replacement is retried so many times                 *)
(* (expert_bank.py:30-36).                                                 *)
EveryWriteEnds ==
  \A w \in Writers : writers[w].pc # "idle" ~> writers[w].pc = "idle"

(* Commits and reads happen at one instant each (module ExpertCell), and a *)
(* read's tensors are all of the generation its pointer names.             *)
Whole(p) == [p.seen EXCEPT !.gen = IF p.loaded \subseteq {@} THEN @ ELSE 0]

Answered(p) ==
  CASE p.pc = "idle" -> [at |-> "refused"]
    [] p.pc = "looking" -> [at |-> "asked"]
    [] p.pc \in {"holding", "loading", "done"} -> [at |-> "answered", state |-> Whole(p)]

Answers == [r \in Readers |-> Answered(readers[r])]

Cell == INSTANCE ExpertCell WITH
  cell <- pointer, used <- history.committed, reads <- Answers

CommitsAreAtomic == Cell!Spec
=============================================================================
