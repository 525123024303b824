-------------------------- MODULE ExpertBankProofs --------------------------
(***************************************************************************)
(* Theorems about ExpertBank, for any number of writers, readers,          *)
(* generations, shards and attempts: whatever fails, is interrupted,       *)
(* crashes or rots, a committed generation keeps every shard, a refused    *)
(* write leaves no file, and the bank implements ExpertCell.               *)
(*                                                                         *)
(* Two faults are excluded, each by a finding about the code: a write of a *)
(* file that leaves one the writer has not noted, and an interrupt after   *)
(* the replacement has returned.                                           *)
(***************************************************************************)
EXTENDS ExpertBank, TLAPS

Guarded == Faults \cap {"partial", "late interrupt"} = {}

Active(w) == writers[w].pc # "idle"
Uncommitted(w) == writers[w].pc \in {"writing", "checking", "replacing", "cleaning"}
Prepared(w) == writers[w].pc \in {"writing", "checking", "replacing"}

(* Each write has a generation of its own, and it is committed by nobody   *)
(* else.                                                                   *)
Owned ==
  /\ \A w \in Writers :
       /\ Active(w) <=> writers[w].gen # 0
       /\ Active(w) => writers[w].gen \in history.taken
       /\ Uncommitted(w) => writers[w].gen \notin history.committed
       /\ writers[w].pc = "committed" => writers[w].gen \in history.committed
       /\ \A p \in writers[w].written : p[1] = writers[w].gen
       /\ \A o \in Writers : w # o /\ Active(w) => writers[w].gen # writers[o].gen
  /\ history.committed \cup history.crashed \subseteq history.taken

(* The shards a writer has written and those of every committed generation *)
(* are on disk.                                                            *)
Stored ==
  /\ \A g \in history.committed : \A i \in 1 .. Matrices : OnDisk(Shard(g, i))
  /\ \A w \in Writers : Prepared(w) =>
       /\ writers[w].next \in 1 .. Matrices + 1
       /\ writers[w].pc # "writing" => writers[w].next = Matrices + 1
       /\ \A i \in 1 .. Matrices : i < writers[w].next => OnDisk(Shard(writers[w].gen, i))

(* The pointer, and what a reader has seen of it, name committed           *)
(* generations.                                                            *)
Named ==
  /\ pointer # NoPointer => pointer.gen \in history.committed
  /\ \A r \in Readers :
       /\ readers[r].pc \in {"looking", "holding", "loading"} => pointer # NoPointer
       /\ readers[r].pc \in {"holding", "loading"} => readers[r].seen.gen \in history.committed
       /\ readers[r].pc = "loading" => readers[r].next \in 1 .. Matrices
       /\ ~readers[r].lost

(* The bank's own reader takes the pointer, and every one to come.         *)
Readable ==
  /\ pointer # NoPointer => Accepted(pointer)
  /\ \A w \in Writers : Prepared(w) =>
       Accepted(writers[w].new) /\ writers[w].new.gen = writers[w].gen

(* A writer knows of every file of a generation it may have to remove, and *)
(* the pending pointer of a committed one is gone.                         *)
Noted ==
  \A w \in Writers :
    /\ Uncommitted(w) => \A p \in Paths :
         p[1] = writers[w].gen /\ files[p] # "none" => p \in writers[w].written
    /\ writers[w].pc = "committed" => files[Pending(writers[w].gen)] = "none"

Committing == TypeOK /\ Owned /\ Stored /\ Named /\ Readable
-----------------------------------------------------------------------------
(* The counters of the next pointer: a commit that updates parameters      *)
(* counts once, one that updates none counts not at all.                   *)
LEMMA SucceedingAccepted ==
  ASSUME NEW p \in Pointers, p = NoPointer \/ Accepted(p),
         NEW g \in Generations, NEW step \in 0 .. MaxStep, NEW count \in Counts
  PROVE  /\ Succeeding(p, g, step, count) \in Pointers
         /\ Accepted(Succeeding(p, g, step, count))
         /\ Succeeding(p, g, step, count).gen = g
         /\ Succeeding(p, g, step, count) # NoPointer
  <1> DEFINE n == Succeeding(p, g, step, count)
  <1>1. /\ Parameters \in Nat /\ MaxStep \in Nat /\ count \in Nat /\ count <= Parameters
        /\ g # 0
    <2>1. count \in 0 .. Parameters /\ Parameters \in Nat /\ MaxStep \in Nat
      BY BankAssumption
    <2>2. 0 \notin Generations
      BY BankAssumption
    <2> QED
      BY <2>1, <2>2
  <1>2. /\ p.revision \in Nat /\ p.updates \in Nat /\ p.commits \in Nat /\ p.step \in 0 .. MaxStep
    BY DEF Pointers
  <1>3. /\ p.commits <= p.revision
        /\ (p.updates = 0) <=> (p.commits = 0)
        /\ p.commits <= p.updates /\ p.updates <= p.commits * Parameters
    <2>1. CASE Accepted(p)
      BY <2>1 DEF Accepted
    <2>2. CASE p = NoPointer
      <3>1. p.revision = 0 /\ p.updates = 0 /\ p.commits = 0
        BY <2>2 DEF NoPointer
      <3> QED
        BY <1>1, <3>1
    <2> QED
      BY <2>1, <2>2
  <1>4. /\ n.gen = g /\ n.revision = p.revision + 1 /\ n.step = step
        /\ n.updates = p.updates + count
        /\ n.commits = IF count > 0 THEN p.commits + 1 ELSE p.commits
        /\ n = [gen |-> n.gen, revision |-> n.revision, step |-> n.step,
                updates |-> n.updates, commits |-> n.commits]
    BY DEF Succeeding
  <1> HIDE DEF n
  <1>5. n \in Pointers
    BY <1>1, <1>2, <1>4 DEF Pointers
  <1>6. (p.commits + 1) * Parameters = p.commits * Parameters + Parameters /\ p.commits * Parameters \in Nat
    BY <1>1, <1>2
  <1>7. Accepted(n)
    <2>1. CASE count > 0
      <3>1. n.commits = p.commits + 1 /\ n.updates = p.updates + count
        BY <1>4, <2>1
      <3>2. n.updates <= n.commits * Parameters
        BY <1>1, <1>2, <1>3, <1>6, <3>1
      <3> QED
        BY <1>1, <1>2, <1>3, <1>4, <2>1, <3>1, <3>2 DEF Accepted
    <2>2. CASE count = 0
      <3>1. n.commits = p.commits /\ n.updates = p.updates
        BY <1>2, <1>4, <2>2
      <3> QED
        BY <1>2, <1>3, <1>4, <3>1 DEF Accepted
    <2> QED
      BY <1>1, <2>1, <2>2
  <1>8. n # NoPointer
    BY <1>1, <1>4 DEF NoPointer
  <1> QED
    BY <1>4, <1>5, <1>7, <1>8 DEF n

LEMMA Initially == Init => Committing /\ Noted /\ RefusedLeavesNothing
  <1>1. SUFFICES ASSUME Init PROVE Committing /\ Noted /\ RefusedLeavesNothing
    OBVIOUS
  <1> USE DEF Init
  <1>2. /\ MaxStep \in Nat /\ Matrices \in Nat \ {0} /\ Attempts \in Nat \ {0} /\ MaxFaults \in Nat
    BY BankAssumption
  <1>3. TypeOK
    <2>1. NoPointer \in Pointers
      BY <1>2 DEF NoPointer, Pointers
    <2>2. Resting \in WriterStates
      BY <1>2, <2>1 DEF Resting, WriterStates
    <2>3. NotReading \in ReaderStates
      BY <1>2, <2>1 DEF NotReading, ReaderStates
    <2> QED
      BY <1>1, <1>2, <2>1, <2>2, <2>3 DEF TypeOK, FileStates
  <1>4. Owned
    BY <1>1 DEF Owned, Active, Uncommitted, Resting
  <1>5. Stored /\ Readable
    BY <1>1 DEF Stored, Readable, Prepared, Resting
  <1>6. Named
    BY <1>1 DEF Named, NotReading
  <1>7. Noted /\ RefusedLeavesNothing
    BY <1>1 DEF Noted, RefusedLeavesNothing, Uncommitted, Resting
  <1> QED
    BY <1>3, <1>4, <1>5, <1>6, <1>7 DEF Committing
-----------------------------------------------------------------------------
LEMMA Numbers ==
  /\ Matrices \in Nat /\ Matrices > 0 /\ Attempts \in Nat /\ Attempts > 0
  /\ MaxStep \in Nat /\ MaxFaults \in Nat /\ 0 \notin Generations
  <1>1. Matrices \in Nat \ {0} /\ Attempts \in Nat \ {0}
    BY BankAssumption
  <1>2. MaxStep \in Nat /\ MaxFaults \in Nat /\ 0 \notin Generations
    BY BankAssumption
  <1> QED
    BY <1>1, <1>2

LEMMA WriterTypes ==
  ASSUME TypeOK, NEW w \in Writers
  PROVE  /\ writers[w] \in WriterStates
         /\ writers[w].pc \in {"idle", "writing", "checking", "replacing", "committed", "cleaning"}
         /\ writers[w].gen \in Generations \cup {0} /\ writers[w].next \in 0 .. Matrices + 1
         /\ writers[w].previous \in Pointers /\ writers[w].new \in Pointers
         /\ writers[w].written \in SUBSET Paths /\ writers[w].attempts \in 0 .. Attempts - 1
  <1>1. writers[w] \in WriterStates
    BY DEF TypeOK
  <1> QED
    BY <1>1 DEF WriterStates

LEMMA OneMore ==
  ASSUME MaxFaults \in Nat, history.faults \in 0 .. MaxFaults, history.faults < MaxFaults
  PROVE  history.faults + 1 \in 0 .. MaxFaults
  OBVIOUS

(* The history of a step that is at most a fault. *)
SameHistory ==
  /\ history'.taken = history.taken /\ history'.committed = history.committed
  /\ history'.crashed = history.crashed
  /\ history' \in [taken: SUBSET Generations, committed: SUBSET Generations,
                   crashed: SUBSET Generations, faults: 0 .. MaxFaults]

LEMMA FaultHistory ==
  ASSUME TypeOK, (\E fault \in {"refused", "partial", "interrupt", "late interrupt", "rot"} : Happens(fault))
                   \/ history' = history
  PROVE  SameHistory
  <1>1. MaxFaults \in Nat
    BY Numbers
  <1>2. CASE history' = history
    BY <1>2 DEF SameHistory, TypeOK
  <1>3. ASSUME history' = [history EXCEPT !.faults = @ + 1], history.faults < MaxFaults
        PROVE  SameHistory
    <2>1. history \in [taken: SUBSET Generations, committed: SUBSET Generations,
                      crashed: SUBSET Generations, faults: 0 .. MaxFaults]
      BY DEF TypeOK
    <2>2. history.faults \in 0 .. MaxFaults
      BY <2>1
    <2>3. history.faults + 1 \in 0 .. MaxFaults
      <3>1. history.faults < MaxFaults
        BY <1>3
      <3> QED
        BY <1>1, <2>2, <3>1, OneMore
    <2> DEFINE more == history.faults + 1
    <2>4. history' = [history EXCEPT !.faults = more]
      BY <1>3
    <2>5. more \in 0 .. MaxFaults
      BY <2>3
    <2> HIDE DEF more
    <2> QED
      BY <2>1, <2>4, <2>5 DEF SameHistory
  <1> QED
    BY <1>2, <1>3 DEF Happens

LEMMA WriteKeeps ==
  ASSUME Committing, NEW w \in Writers, NEW g \in Generations,
         NEW step \in 0 .. MaxStep, NEW count \in Counts, Write(w, g, step, count)
  PROVE  Committing'
  <1> DEFINE new == Succeeding(pointer, g, step, count)
             n == [pc |-> "writing", gen |-> g, next |-> 1, previous |-> pointer, new |-> new,
                   written |-> {}, attempts |-> 0]
  <1>1. /\ TypeOK /\ Owned /\ Stored /\ Named /\ Readable
    BY DEF Committing
  <1>2. /\ writers[w].pc = "idle" /\ g \notin history.taken
        /\ pointer # NoPointer => Accepted(pointer)
        /\ writers' = [writers EXCEPT ![w] = n]
        /\ history' = [history EXCEPT !.taken = @ \cup {g}]
        /\ files' = files /\ pointer' = pointer /\ readers' = readers
    BY DEF Write
  <1>3. /\ new \in Pointers /\ Accepted(new) /\ new.gen = g /\ new # NoPointer
    BY <1>1, <1>2, SucceedingAccepted DEF TypeOK
  <1> HIDE DEF new
  <1>4. /\ n.pc = "writing" /\ n.gen = g /\ n.next = 1 /\ n.new = new /\ n.written = {}
    OBVIOUS
  <1>5. n \in WriterStates
    BY <1>1, <1>3, Numbers DEF WriterStates, TypeOK
  <1> HIDE DEF n
  <1>6. /\ history'.taken = history.taken \cup {g} /\ history'.committed = history.committed
        /\ history'.crashed = history.crashed /\ history'.faults = history.faults
        /\ history' \in [taken: SUBSET Generations, committed: SUBSET Generations,
                         crashed: SUBSET Generations, faults: 0 .. MaxFaults]
    BY <1>1, <1>2 DEF TypeOK
  <1>7. TypeOK'
    BY <1>1, <1>2, <1>5, <1>6 DEF TypeOK
  <1>8. writers'[w] = n /\ \A o \in Writers : o # w => writers'[o] = writers[o]
    BY <1>1, <1>2 DEF TypeOK
  <1>9. Owned'
    BY <1>1, <1>2, <1>4, <1>6, <1>8, Numbers DEF Owned, Active, Uncommitted
  <1>10. Stored'
    BY <1>1, <1>2, <1>4, <1>6, <1>8, Numbers DEF Stored, Prepared, OnDisk
  <1>11. Named'
    BY <1>1, <1>2, <1>6 DEF Named
  <1>12. Readable'
    BY <1>1, <1>2, <1>3, <1>4, <1>8 DEF Readable, Prepared, Accepted
  <1> QED
    BY <1>7, <1>9, <1>10, <1>11, <1>12 DEF Committing

(* An exception in the block: the writer goes on with the clean-up. *)
LEMMA RaisesKeeps ==
  ASSUME Committing, NEW w \in Writers, Prepared(w), Raises(w), SameHistory,
         UNCHANGED <<files, pointer, readers>>
  PROVE  Committing'
  <1>1. /\ TypeOK /\ Owned /\ Stored /\ Named /\ Readable
    BY DEF Committing
  <1> DEFINE n == [writers[w] EXCEPT !.pc = "cleaning"]
  <1>2. /\ writers' = [writers EXCEPT ![w] = n]
        /\ files' = files /\ pointer' = pointer /\ readers' = readers
    BY DEF Raises
  <1>3. /\ n \in WriterStates /\ n.pc = "cleaning" /\ n.gen = writers[w].gen
        /\ n.written = writers[w].written
    BY <1>1, WriterTypes DEF WriterStates
  <1> HIDE DEF n
  <1>4. TypeOK'
    BY <1>1, <1>2, <1>3 DEF TypeOK, SameHistory
  <1>5. writers'[w] = n /\ \A o \in Writers : o # w => writers'[o] = writers[o]
    BY <1>1, <1>2 DEF TypeOK
  <1>6. Owned'
    BY <1>1, <1>3, <1>5 DEF Owned, Active, Uncommitted, Prepared, SameHistory
  <1>7. Stored'
    BY <1>1, <1>2, <1>3, <1>5 DEF Stored, Prepared, OnDisk, SameHistory
  <1>8. Named'
    BY <1>1, <1>2 DEF Named, SameHistory
  <1>9. Readable'
    BY <1>1, <1>2, <1>3, <1>5 DEF Readable, Prepared, Accepted
  <1> QED
    BY <1>4, <1>6, <1>7, <1>8, <1>9 DEF Committing

LEMMA WriteFileKeeps ==
  ASSUME Committing, Guarded, NEW w \in Writers, WriteFile(w)
  PROVE  Committing'
  <1>1. /\ TypeOK /\ Owned /\ Stored /\ Named /\ Readable
    BY DEF Committing
  <1> DEFINE at == Target(w)
             last == writers[w].next > Matrices
             n == [writers[w] EXCEPT !.written = @ \cup {at}, !.next = IF last THEN @ ELSE @ + 1,
                                     !.pc = IF last THEN "checking" ELSE @]
  <1>2. writers[w].pc = "writing" /\ pointer' = pointer /\ readers' = readers
    BY DEF WriteFile
  <1>3. CASE Happens("refused") /\ Raises(w) /\ UNCHANGED files
    <2>1. SameHistory
      BY <1>1, <1>3, FaultHistory
    <2> QED
      BY <1>2, <1>3, <2>1, RaisesKeeps DEF Prepared
  <1>4. ~Happens("partial")
    BY DEF Guarded, Happens
  <1>5. CASE /\ files' = [files EXCEPT ![at] = "whole"]
             /\ writers' = [writers EXCEPT ![w] = n]
             /\ history' = history
    <2>1. SameHistory
      BY <1>1, <1>5, FaultHistory
    <2>2. /\ writers[w].gen \in Generations /\ writers[w].next \in 1 .. Matrices + 1
      BY <1>1, <1>2, WriterTypes, Numbers DEF Owned, Active, Stored, Prepared
    <2>3. at \in Paths /\ at = <<writers[w].gen, IF last THEN 0 ELSE writers[w].next>>
      BY <2>2, Numbers DEF Target, Pending, Shard, Paths
    <2>4. /\ writers[w].next \in Nat
          /\ last <=> writers[w].next = Matrices + 1
      BY <2>2, Numbers
    <2>5. /\ n.gen = writers[w].gen /\ n.new = writers[w].new
          /\ n.pc = (IF last THEN "checking" ELSE "writing")
          /\ n.next = (IF last THEN Matrices + 1 ELSE writers[w].next + 1)
          /\ n.written = writers[w].written \cup {at}
          /\ n \in WriterStates
      <3> DEFINE files2 == writers[w].written \cup {at}
                 next == IF last THEN writers[w].next ELSE writers[w].next + 1
                 pc == IF last THEN "checking" ELSE writers[w].pc
      <3>1. files2 \in SUBSET Paths /\ next \in 0 .. Matrices + 1
            /\ pc \in {"writing", "checking"} /\ pc = (IF last THEN "checking" ELSE "writing")
            /\ next = (IF last THEN Matrices + 1 ELSE writers[w].next + 1)
        BY <1>1, <1>2, <2>2, <2>3, <2>4, WriterTypes, Numbers
      <3>2. writers[w] \in WriterStates
        BY <1>1, WriterTypes
      <3>3. n = [writers[w] EXCEPT !.written = files2, !.next = next, !.pc = pc]
        BY <3>2 DEF WriterStates
      <3>4. files2 = writers[w].written \cup {at}
        OBVIOUS
      <3> HIDE DEF files2, next, pc, n, at, last
      <3> QED
        BY <3>1, <3>2, <3>3, <3>4 DEF WriterStates
    <2>6. writers'[w] = n /\ \A o \in Writers : o # w => writers'[o] = writers[o]
      BY <1>1, <1>5 DEF TypeOK
    <2>7. files'[at] = "whole" /\ \A p \in Paths : p # at => files'[p] = files[p]
      BY <1>1, <1>5, <2>3 DEF TypeOK
    <2>8. TypeOK'
      <3> HIDE DEF n, at
      <3> QED
        BY <1>1, <1>2, <1>5, <2>1, <2>3, <2>5 DEF TypeOK, SameHistory, FileStates
    <2> HIDE DEF n
    <2>9. Owned'
      BY <1>1, <1>2, <2>1, <2>3, <2>5, <2>6 DEF Owned, Active, Uncommitted, SameHistory
    <2> DEFINE Stands(g, i) == files'[Shard(g, i)] \in {"whole", "rotten"}
    <2>10. \A g \in Generations, i \in 1 .. Matrices : OnDisk(Shard(g, i)) => Stands(g, i)
      BY <2>3, <2>7 DEF OnDisk, Shard, Paths
    <2>11. ~last => Stands(writers[w].gen, writers[w].next)
      BY <2>3, <2>7 DEF Shard
    <2>12. Stored'
      <3>1. \A g \in history'.committed : \A i \in 1 .. Matrices : Stands(g, i)
        <4>1. history'.committed \subseteq Generations
          BY <2>1 DEF SameHistory
        <4> QED
          BY <1>1, <2>1, <2>10, <4>1 DEF Stored, SameHistory
      <3>2. ASSUME NEW o \in Writers, Prepared(o)', o # w
            PROVE  /\ writers'[o].next \in 1 .. Matrices + 1
                   /\ writers'[o].pc # "writing" => writers'[o].next = Matrices + 1
                   /\ \A i \in 1 .. Matrices : i < writers'[o].next => Stands(writers'[o].gen, i)
        <4>1. writers'[o] = writers[o] /\ Prepared(o)
          BY <2>6, <3>2 DEF Prepared
        <4>2. writers[o].gen \in Generations
          BY <1>1, <4>1, WriterTypes DEF Owned, Active, Prepared
        <4>3. /\ writers[o].next \in 1 .. Matrices + 1
              /\ writers[o].pc # "writing" => writers[o].next = Matrices + 1
              /\ \A i \in 1 .. Matrices : i < writers[o].next => OnDisk(Shard(writers[o].gen, i))
          BY <1>1, <4>1 DEF Stored
        <4> HIDE DEF Stands
        <4> QED
          BY <2>10, <4>1, <4>2, <4>3
      <3>3. /\ n.next \in 1 .. Matrices + 1
            /\ n.pc # "writing" => n.next = Matrices + 1
        BY <2>2, <2>4, <2>5, Numbers
      <3>4. ASSUME NEW i \in 1 .. Matrices, i < n.next
            PROVE  Stands(n.gen, i)
        <4>1. i < writers[w].next \/ (~last /\ i = writers[w].next)
          BY <2>2, <2>4, <2>5, <3>4, Numbers
        <4>2. CASE i < writers[w].next
          <5>1. OnDisk(Shard(writers[w].gen, i))
            BY <1>1, <1>2, <4>2 DEF Stored, Prepared
          <5> HIDE DEF Stands
          <5> QED
            BY <2>2, <2>5, <2>10, <5>1
        <4> HIDE DEF Stands
        <4> QED
          BY <2>5, <2>11, <4>1, <4>2
      <3> QED
        BY <2>6, <3>1, <3>2, <3>3, <3>4 DEF Stored, OnDisk
    <2>13. Named'
      BY <1>1, <1>2, <2>1 DEF Named, SameHistory
    <2>14. Readable'
      BY <1>1, <1>2, <2>5, <2>6 DEF Readable, Prepared, Accepted
    <2> QED
      BY <2>8, <2>9, <2>12, <2>13, <2>14 DEF Committing
  <1>6. \/ /\ files' = [files EXCEPT ![at] = "whole"]
           /\ writers' = [writers EXCEPT ![w] = n]
           /\ history' = history
        \/ Happens("refused") /\ Raises(w) /\ UNCHANGED files
        \/ Happens("partial")
    BY DEF WriteFile
  <1> QED
    BY <1>3, <1>4, <1>5, <1>6

LEMMA CheckKeeps ==
  ASSUME Committing, NEW w \in Writers, Check(w)
  PROVE  Committing'
  <1>1. /\ TypeOK /\ Owned /\ Stored /\ Named /\ Readable
    BY DEF Committing
  <1>2. /\ writers[w].pc = "checking"
        /\ files' = files /\ pointer' = pointer /\ readers' = readers /\ history' = history
    BY DEF Check
  <1>3. SameHistory
    BY <1>1, <1>2, FaultHistory
  <1>4. CASE Raises(w)
    BY <1>2, <1>3, <1>4, RaisesKeeps DEF Prepared
  <1>5. CASE writers' = [writers EXCEPT ![w].pc = "replacing"]
    <2> DEFINE n == [writers[w] EXCEPT !.pc = "replacing"]
    <2>1. writers' = [writers EXCEPT ![w] = n]
      BY <1>5
    <2>2. /\ n \in WriterStates /\ n.pc = "replacing" /\ n.gen = writers[w].gen
          /\ n.written = writers[w].written /\ n.next = writers[w].next /\ n.new = writers[w].new
      BY <1>1, WriterTypes DEF WriterStates
    <2> HIDE DEF n
    <2>3. TypeOK'
      BY <1>1, <1>2, <1>3, <2>1, <2>2 DEF TypeOK, SameHistory
    <2>4. writers'[w] = n /\ \A o \in Writers : o # w => writers'[o] = writers[o]
      BY <1>1, <2>1 DEF TypeOK
    <2>5. Owned'
      BY <1>1, <1>2, <2>2, <2>4 DEF Owned, Active, Uncommitted
    <2>6. Stored'
      BY <1>1, <1>2, <2>2, <2>4 DEF Stored, Prepared, OnDisk
    <2>7. Named' /\ Readable'
      BY <1>1, <1>2, <2>2, <2>4 DEF Named, Readable, Prepared, Accepted
    <2> QED
      BY <2>3, <2>5, <2>6, <2>7 DEF Committing
  <1> QED
    BY <1>4, <1>5 DEF Check

(* The replacement: the generation is committed. *)
LEMMA ReplaceKeeps ==
  ASSUME Committing, NEW w \in Writers, Replace(w)
  PROVE  Committing'
  <1>1. /\ TypeOK /\ Owned /\ Stored /\ Named /\ Readable
    BY DEF Committing
  <1>2. writers[w].pc = "replacing" /\ readers' = readers
    BY DEF Replace
  <1>3. CASE Raises(w) /\ UNCHANGED <<files, pointer, history>>
    <2>1. SameHistory
      BY <1>1, <1>3, FaultHistory
    <2> QED
      BY <1>2, <1>3, <2>1, RaisesKeeps DEF Prepared
  <1>4. CASE /\ writers[w].attempts + 1 # Attempts
             /\ writers' = [writers EXCEPT ![w].attempts = @ + 1]
             /\ UNCHANGED <<files, pointer, history>>
    <2> DEFINE more == writers[w].attempts + 1
               n == [writers[w] EXCEPT !.attempts = more]
    <2>1. writers' = [writers EXCEPT ![w] = n]
      BY <1>4
    <2>2. more \in 0 .. Attempts - 1
      <3>1. writers[w].attempts \in 0 .. Attempts - 1
        BY <1>1, WriterTypes
      <3> QED
        BY <1>4, <3>1, Numbers
    <2> HIDE DEF more
    <2>3. /\ n \in WriterStates /\ n.pc = "replacing" /\ n.gen = writers[w].gen
          /\ n.written = writers[w].written /\ n.next = writers[w].next /\ n.new = writers[w].new
      BY <1>1, <1>2, <2>2, WriterTypes DEF WriterStates
    <2> HIDE DEF n
    <2>4. SameHistory
      BY <1>1, <1>4, FaultHistory
    <2>5. TypeOK'
      BY <1>1, <1>2, <1>4, <2>1, <2>3, <2>4 DEF TypeOK, SameHistory
    <2>6. writers'[w] = n /\ \A o \in Writers : o # w => writers'[o] = writers[o]
      BY <1>1, <2>1 DEF TypeOK
    <2>7. Owned'
      BY <1>1, <1>2, <1>4, <2>3, <2>6 DEF Owned, Active, Uncommitted
    <2>8. Stored'
      BY <1>1, <1>2, <1>4, <2>3, <2>6 DEF Stored, Prepared, OnDisk
    <2>9. Named' /\ Readable'
      BY <1>1, <1>2, <1>4, <2>3, <2>6 DEF Named, Readable, Prepared, Accepted
    <2> QED
      BY <2>5, <2>7, <2>8, <2>9 DEF Committing
  <1>5. CASE /\ pointer' = writers[w].new
             /\ files' = [files EXCEPT ![Pending(writers[w].gen)] = "none"]
             /\ history' = [history EXCEPT !.committed = @ \cup {writers[w].gen}]
             /\ writers' = [writers EXCEPT ![w].pc = "committed"]
    <2> DEFINE n == [writers[w] EXCEPT !.pc = "committed"]
               at == Pending(writers[w].gen)
               all == history.committed \cup {writers[w].gen}
    <2>1. writers' = [writers EXCEPT ![w] = n]
      BY <1>5
    <2>2. /\ n \in WriterStates /\ n.pc = "committed" /\ n.gen = writers[w].gen
          /\ n.written = writers[w].written
      BY <1>1, WriterTypes DEF WriterStates
    <2> HIDE DEF n
    <2>3. /\ writers[w].gen \in Generations /\ writers[w].new \in Pointers
          /\ writers[w].gen \in history.taken
          /\ writers[w].new.gen = writers[w].gen /\ Accepted(writers[w].new)
          /\ writers[w].next = Matrices + 1
      BY <1>1, <1>2, WriterTypes, Numbers DEF Owned, Active, Readable, Stored, Prepared
    <2>4. at \in Paths /\ at = <<writers[w].gen, 0>>
      BY <2>3, Numbers DEF Pending, Paths
    <2>5. /\ history'.taken = history.taken /\ history'.committed = all
          /\ history'.crashed = history.crashed
          /\ history' \in [taken: SUBSET Generations, committed: SUBSET Generations,
                           crashed: SUBSET Generations, faults: 0 .. MaxFaults]
      BY <1>1, <1>5, <2>3 DEF TypeOK
    <2>6. writers'[w] = n /\ \A o \in Writers : o # w => writers'[o] = writers[o]
      BY <1>1, <2>1 DEF TypeOK
    <2>7. \A p \in Paths : p # at => files'[p] = files[p]
      BY <1>1, <1>5 DEF TypeOK
    <2>8. TypeOK'
      <3> HIDE DEF at, all
      <3> QED
        BY <1>1, <1>2, <1>5, <2>1, <2>2, <2>3, <2>4, <2>5 DEF TypeOK, FileStates
    <2>9. Owned'
      BY <1>1, <1>2, <2>2, <2>3, <2>5, <2>6, Numbers DEF Owned, Active, Uncommitted
    <2> DEFINE Stands(g, i) == files'[Shard(g, i)] \in {"whole", "rotten"}
    <2>10. \A g \in Generations, i \in 1 .. Matrices : OnDisk(Shard(g, i)) => Stands(g, i)
      BY <2>4, <2>7 DEF OnDisk, Shard, Paths
    <2>11. Stored'
      <3>1. ASSUME NEW g \in history'.committed, NEW i \in 1 .. Matrices
            PROVE  Stands(g, i)
        <4>1. g \in Generations
          BY <2>5
        <4>2. OnDisk(Shard(g, i))
          <5>1. CASE g \in history.committed
            BY <1>1, <5>1 DEF Stored
          <5>2. CASE g = writers[w].gen
            <6>1. i < writers[w].next
              BY <2>3, Numbers
            <6> QED
              BY <1>1, <1>2, <5>2, <6>1 DEF Stored, Prepared
          <5> QED
            BY <2>5, <5>1, <5>2
        <4> HIDE DEF Stands
        <4> QED
          BY <2>10, <4>1, <4>2
      <3>2. ASSUME NEW o \in Writers, Prepared(o)'
            PROVE  /\ writers'[o].next \in 1 .. Matrices + 1
                   /\ writers'[o].pc # "writing" => writers'[o].next = Matrices + 1
                   /\ \A i \in 1 .. Matrices : i < writers'[o].next => Stands(writers'[o].gen, i)
        <4>1. writers'[o] = writers[o] /\ Prepared(o)
          BY <2>2, <2>6, <3>2 DEF Prepared
        <4>2. writers[o].gen \in Generations
          BY <1>1, <4>1, WriterTypes DEF Owned, Active, Prepared
        <4>3. /\ writers[o].next \in 1 .. Matrices + 1
              /\ writers[o].pc # "writing" => writers[o].next = Matrices + 1
              /\ \A i \in 1 .. Matrices : i < writers[o].next => OnDisk(Shard(writers[o].gen, i))
          BY <1>1, <4>1 DEF Stored
        <4> HIDE DEF Stands
        <4> QED
          BY <2>10, <4>1, <4>2, <4>3
      <3> QED
        BY <3>1, <3>2 DEF Stored, OnDisk
    <2>12. Named'
      <3>1. pointer' # NoPointer /\ pointer'.gen \in history'.committed
        <4>1. writers[w].new # NoPointer
          BY <2>3, Numbers DEF NoPointer, Accepted
        <4> QED
          BY <1>5, <2>3, <2>5, <4>1
      <3> QED
        BY <1>1, <1>2, <2>5, <3>1 DEF Named
    <2>13. Readable'
      <3>1. Accepted(pointer')
        BY <1>5, <2>3
      <3> QED
        BY <1>1, <2>2, <2>6, <3>1 DEF Readable, Prepared, Accepted
    <2> QED
      BY <2>8, <2>9, <2>11, <2>12, <2>13 DEF Committing
  <1> QED
    BY <1>2, <1>3, <1>4, <1>5 DEF Replace

(* Files of one writer's uncommitted generation may go, or be left in the  *)
(* middle: no other generation's shard is touched.                         *)
LEMMA OwnFilesKeep ==
  ASSUME Committing, NEW w \in Writers, files' \in [Paths -> FileStates],
         \A p \in Paths : files'[p] # files[p] => Uncommitted(w) /\ p[1] = writers[w].gen,
         NEW g \in Generations, NEW i \in 1 .. Matrices, OnDisk(Shard(g, i)),
         g \in history.committed \/ \E o \in Writers : o # w /\ Active(o) /\ writers[o].gen = g
  PROVE  files'[Shard(g, i)] = files[Shard(g, i)]
  <1>1. Owned
    BY DEF Committing
  <1>2. Shard(g, i) \in Paths /\ Shard(g, i)[1] = g
    BY Numbers DEF Shard, Paths
  <1>3. Uncommitted(w) => writers[w].gen # g
    BY <1>1 DEF Owned, Uncommitted, Active
  <1> QED
    BY <1>2, <1>3

(* A call ends, with its process or without it. *)
LEMMA RestsKeeps ==
  ASSUME Committing, NEW w \in Writers, Active(w),
         files' \in [Paths -> FileStates],
         \A p \in Paths : files'[p] # files[p] => Uncommitted(w) /\ p[1] = writers[w].gen,
         writers' = [writers EXCEPT ![w] = Resting],
         history' \in [taken: SUBSET Generations, committed: SUBSET Generations,
                      crashed: SUBSET Generations, faults: 0 .. MaxFaults],
         history'.taken = history.taken, history'.committed = history.committed,
         history'.crashed \subseteq history.taken,
         UNCHANGED <<pointer, readers>>
  PROVE  Committing'
  <1>1. /\ TypeOK /\ Owned /\ Stored /\ Named /\ Readable
    BY DEF Committing
  <1>2. pointer' = pointer /\ readers' = readers
    OBVIOUS
  <1>3. Resting \in WriterStates /\ Resting.pc = "idle" /\ Resting.gen = 0 /\ Resting.written = {}
    BY Numbers DEF Resting, WriterStates, NoPointer, Pointers
  <1>4. writers'[w] = Resting /\ \A o \in Writers : o # w => writers'[o] = writers[o]
    BY <1>1 DEF TypeOK
  <1>5. TypeOK'
    BY <1>1, <1>2, <1>3 DEF TypeOK
  <1>6. Owned'
    BY <1>1, <1>3, <1>4, Numbers DEF Owned, Active, Uncommitted
  <1> DEFINE Stands(g, i) == files'[Shard(g, i)] \in {"whole", "rotten"}
  <1>7. ASSUME NEW g \in history.committed, NEW i \in 1 .. Matrices
        PROVE  Stands(g, i)
    <2>1. g \in Generations /\ OnDisk(Shard(g, i))
      BY <1>1 DEF TypeOK, Stored
    <2> QED
      BY <2>1, OwnFilesKeep DEF OnDisk
  <1>8. ASSUME NEW o \in Writers, Prepared(o)'
        PROVE  /\ writers'[o].next \in 1 .. Matrices + 1
               /\ writers'[o].pc # "writing" => writers'[o].next = Matrices + 1
               /\ \A i \in 1 .. Matrices : i < writers'[o].next => Stands(writers'[o].gen, i)
    <2>1. o # w /\ writers'[o] = writers[o] /\ Prepared(o)
      BY <1>3, <1>4, <1>8 DEF Prepared
    <2>2. writers[o].gen \in Generations /\ Active(o)
      BY <1>1, <2>1, WriterTypes DEF Owned, Active, Prepared
    <2>3. /\ writers[o].next \in 1 .. Matrices + 1
          /\ writers[o].pc # "writing" => writers[o].next = Matrices + 1
          /\ \A i \in 1 .. Matrices : i < writers[o].next => OnDisk(Shard(writers[o].gen, i))
      BY <1>1, <2>1 DEF Stored
    <2>4. \A i \in 1 .. Matrices : OnDisk(Shard(writers[o].gen, i)) => Stands(writers[o].gen, i)
      BY <2>1, <2>2, OwnFilesKeep DEF OnDisk
    <2> HIDE DEF Stands
    <2> QED
      BY <2>1, <2>3, <2>4
  <1>9. Stored'
    BY <1>7, <1>8 DEF Stored, OnDisk
  <1>10. Named' /\ Readable'
    BY <1>1, <1>2, <1>3, <1>4 DEF Named, Readable, Prepared, Accepted
  <1> QED
    BY <1>5, <1>6, <1>9, <1>10 DEF Committing

LEMMA ReturnKeeps ==
  ASSUME Committing, NEW w \in Writers, Return(w)
  PROVE  Committing'
  <1>1. Active(w)
    BY DEF Return, Active
  <1>2. TypeOK /\ Owned
    BY DEF Committing
  <1>3. /\ files' = files /\ history' = history /\ UNCHANGED <<pointer, readers>>
        /\ writers' = [writers EXCEPT ![w] = Resting]
    BY DEF Return
  <1> QED
    BY <1>1, <1>2, <1>3, RestsKeeps DEF TypeOK, Owned

LEMMA CrashKeeps ==
  ASSUME Committing, NEW w \in Writers, Crash(w)
  PROVE  Committing'
  <1>1. TypeOK /\ Owned /\ Stored
    BY DEF Committing
  <1>2. /\ Active(w) /\ history.faults < MaxFaults
        /\ writers' = [writers EXCEPT ![w] = Resting]
        /\ history' = [history EXCEPT !.crashed = @ \cup {writers[w].gen}, !.faults = @ + 1]
        /\ UNCHANGED <<pointer, readers>>
    BY DEF Crash, Active
  <1>3. writers[w].gen \in Generations /\ writers[w].gen \in history.taken
    BY <1>1, <1>2, WriterTypes DEF Owned
  <1>4. history.faults + 1 \in 0 .. MaxFaults
    BY <1>1, <1>2, Numbers, OneMore DEF TypeOK
  <1>5. /\ history'.taken = history.taken /\ history'.committed = history.committed
        /\ history'.crashed = history.crashed \cup {writers[w].gen}
        /\ history' \in [taken: SUBSET Generations, committed: SUBSET Generations,
                         crashed: SUBSET Generations, faults: 0 .. MaxFaults]
    <2> DEFINE more == history.faults + 1
    <2>1. more \in 0 .. MaxFaults
      BY <1>4
    <2>2. history' = [history EXCEPT !.crashed = @ \cup {writers[w].gen}, !.faults = more]
      BY <1>2
    <2> HIDE DEF more
    <2> QED
      BY <1>1, <1>3, <2>1, <2>2 DEF TypeOK
  <1>6. history'.crashed \subseteq history.taken
    BY <1>1, <1>3, <1>5 DEF Owned
  <1>7. /\ files' \in [Paths -> FileStates]
        /\ \A p \in Paths : files'[p] # files[p] => Uncommitted(w) /\ p[1] = writers[w].gen
    <2>1. CASE files' = files
      BY <1>1, <2>1 DEF TypeOK
    <2>2. CASE writers[w].pc = "writing" /\ files' = [files EXCEPT ![Target(w)] = "partial"]
      <3>1. writers[w].next \in 1 .. Matrices + 1
        BY <1>1, <2>2 DEF Stored, Prepared
      <3>2. Target(w) \in Paths /\ Target(w)[1] = writers[w].gen
        BY <1>3, <3>1, Numbers DEF Target, Pending, Shard, Paths
      <3> QED
        BY <1>1, <2>2, <3>2 DEF TypeOK, FileStates, Uncommitted
    <2> QED
      BY <2>1, <2>2 DEF Crash
  <1> QED
    BY <1>2, <1>5, <1>6, <1>7, RestsKeeps

LEMMA CleanUpKeeps ==
  ASSUME Committing, NEW w \in Writers, CleanUp(w)
  PROVE  Committing'
  <1>1. /\ TypeOK /\ Owned /\ Stored /\ Named /\ Readable
    BY DEF Committing
  <1>2. /\ writers[w].pc = "cleaning" /\ Active(w) /\ Uncommitted(w)
        /\ pointer' = pointer /\ readers' = readers /\ history' = history
    BY DEF CleanUp, Active, Uncommitted
  <1>3. CASE writers' = [writers EXCEPT ![w] = Resting] /\ files' = files
    BY <1>1, <1>2, <1>3, RestsKeeps DEF TypeOK, Owned
  <1>4. ASSUME NEW p \in writers[w].written, files' = [files EXCEPT ![p] = "none"],
               writers' = writers
        PROVE  Committing'
    <2>1. p \in Paths /\ p[1] = writers[w].gen
      BY <1>1, WriterTypes DEF Owned
    <2>2. /\ files' \in [Paths -> FileStates]
          /\ \A q \in Paths : files'[q] # files[q] => Uncommitted(w) /\ q[1] = writers[w].gen
      BY <1>1, <1>2, <1>4, <2>1 DEF TypeOK, FileStates
    <2> DEFINE Stands(g, i) == files'[Shard(g, i)] \in {"whole", "rotten"}
    <2>3. ASSUME NEW g \in history.committed, NEW i \in 1 .. Matrices
          PROVE  Stands(g, i)
      <3>1. g \in Generations /\ OnDisk(Shard(g, i))
        BY <1>1 DEF TypeOK, Stored
      <3> QED
        BY <2>2, <3>1, OwnFilesKeep DEF OnDisk
    <2>4. ASSUME NEW o \in Writers, Prepared(o)
          PROVE  /\ writers[o].next \in 1 .. Matrices + 1
                 /\ writers[o].pc # "writing" => writers[o].next = Matrices + 1
                 /\ \A i \in 1 .. Matrices : i < writers[o].next => Stands(writers[o].gen, i)
      <3>1. o # w /\ Active(o)
        BY <1>2, <2>4 DEF Prepared, Active
      <3>2. writers[o].gen \in Generations
        BY <1>1, <3>1, WriterTypes DEF Owned
      <3>3. /\ writers[o].next \in 1 .. Matrices + 1
            /\ writers[o].pc # "writing" => writers[o].next = Matrices + 1
            /\ \A i \in 1 .. Matrices : i < writers[o].next => OnDisk(Shard(writers[o].gen, i))
        BY <1>1, <2>4 DEF Stored
      <3>4. \A i \in 1 .. Matrices : OnDisk(Shard(writers[o].gen, i)) => Stands(writers[o].gen, i)
        BY <2>2, <3>1, <3>2, OwnFilesKeep DEF OnDisk
      <3> HIDE DEF Stands
      <3> QED
        BY <3>3, <3>4
    <2>5. Stored'
      BY <1>2, <1>4, <2>3, <2>4 DEF Stored, Prepared, OnDisk
    <2>6. TypeOK' /\ Owned'
      BY <1>1, <1>2, <1>4, <2>2 DEF TypeOK, Owned, Active, Uncommitted
    <2>7. Named' /\ Readable'
      BY <1>1, <1>2, <1>4 DEF Named, Readable, Prepared, Accepted
    <2> QED
      BY <2>5, <2>6, <2>7 DEF Committing
  <1> QED
    BY <1>3, <1>4 DEF CleanUp

LEMMA InterruptKeeps ==
  ASSUME Committing, Guarded, NEW w \in Writers, Interrupt(w)
  PROVE  Committing'
  <1>1. ~Happens("late interrupt")
    BY DEF Guarded, Happens
  <1>2. Prepared(w) /\ Happens("interrupt") /\ Raises(w) /\ UNCHANGED <<files, pointer, readers>>
    BY <1>1 DEF Interrupt, Prepared
  <1>3. SameHistory
    BY <1>2, FaultHistory DEF Committing
  <1> QED
    BY <1>2, <1>3, RaisesKeeps
-----------------------------------------------------------------------------
(* A reader's step touches nothing of the bank. *)
LEMMA ReadsKeep ==
  ASSUME Committing, NEW r \in Readers, NEW n \in ReaderStates,
         readers' = [readers EXCEPT ![r] = n],
         UNCHANGED <<files, pointer, writers, history>>,
         n.pc \in {"looking", "holding", "loading"} => pointer # NoPointer,
         n.pc \in {"holding", "loading"} => n.seen.gen \in history.committed,
         n.pc = "loading" => n.next \in 1 .. Matrices,
         ~n.lost
  PROVE  Committing'
  <1>1. /\ TypeOK /\ Owned /\ Stored /\ Named /\ Readable
    BY DEF Committing
  <1>2. files' = files /\ pointer' = pointer /\ writers' = writers /\ history' = history
    OBVIOUS
  <1>3. TypeOK'
    BY <1>1, <1>2 DEF TypeOK
  <1>4. readers'[r] = n /\ \A o \in Readers : o # r => readers'[o] = readers[o]
    BY <1>1 DEF TypeOK
  <1>5. Named'
    BY <1>1, <1>2, <1>4 DEF Named
  <1>6. Owned' /\ Stored' /\ Readable'
    BY <1>1, <1>2 DEF Owned, Active, Uncommitted, Stored, Prepared, OnDisk, Readable, Accepted
  <1> QED
    BY <1>3, <1>5, <1>6 DEF Committing

LEMMA NotReadingType ==
  NotReading \in ReaderStates /\ NotReading.pc = "idle" /\ ~NotReading.lost
  BY Numbers DEF NotReading, ReaderStates, NoPointer, Pointers

LEMMA RefusedKeeps ==
  ASSUME Committing, NEW r \in Readers, Refused(r), UNCHANGED <<files, pointer, writers, history>>
  PROVE  Committing'
  BY NotReadingType, ReadsKeep DEF Refused

LEMMA ReadKeeps ==
  ASSUME Committing, NEW r \in Readers, Read(r)
  PROVE  Committing'
  <1>1. UNCHANGED <<files, pointer, writers, history>> /\ TypeOK
    BY DEF Read, Committing
  <1>2. CASE pointer = NoPointer
    BY <1>1, <1>2, RefusedKeeps DEF Read
  <1>3. CASE pointer # NoPointer
    <2> DEFINE n == [NotReading EXCEPT !.pc = "looking", !.seen = pointer]
    <2>1. n \in ReaderStates /\ n.pc = "looking" /\ ~n.lost
      BY <1>1, NotReadingType DEF ReaderStates, TypeOK
    <2>2. readers' = [readers EXCEPT ![r] = n]
      BY <1>3 DEF Read
    <2> HIDE DEF n
    <2> QED
      BY <1>1, <1>3, <2>1, <2>2, ReadsKeep
  <1> QED
    BY <1>2, <1>3

LEMMA OpenPointerKeeps ==
  ASSUME Committing, NEW r \in Readers, OpenPointer(r)
  PROVE  Committing'
  <1>1. /\ UNCHANGED <<files, pointer, writers, history>> /\ TypeOK /\ Named
        /\ readers[r].pc = "looking"
    BY DEF OpenPointer, Committing
  <1>2. CASE Refused(r)
    BY <1>1, <1>2, RefusedKeeps
  <1>3. CASE readers' = [readers EXCEPT ![r].pc = "holding", ![r].seen = pointer]
    <2> DEFINE n == [readers[r] EXCEPT !.pc = "holding", !.seen = pointer]
    <2>1. readers[r] \in ReaderStates /\ pointer \in Pointers /\ ~readers[r].lost
          /\ pointer # NoPointer /\ pointer.gen \in history.committed
      BY <1>1 DEF TypeOK, Named
    <2>2. n \in ReaderStates /\ n.pc = "holding" /\ n.seen = pointer /\ ~n.lost
      BY <2>1 DEF ReaderStates
    <2>3. readers' = [readers EXCEPT ![r] = n]
      BY <1>1, <1>3 DEF TypeOK
    <2> HIDE DEF n
    <2> QED
      BY <1>1, <2>1, <2>2, <2>3, ReadsKeep
  <1> QED
    BY <1>2, <1>3 DEF OpenPointer

LEMMA ClosePointerKeeps ==
  ASSUME Committing, NEW r \in Readers, ClosePointer(r)
  PROVE  Committing'
  <1>1. /\ UNCHANGED <<files, pointer, writers, history>> /\ TypeOK /\ Named
        /\ readers[r].pc = "holding"
    BY DEF ClosePointer, Committing
  <1>2. CASE Refused(r)
    BY <1>1, <1>2, RefusedKeeps
  <1>3. CASE readers' = [readers EXCEPT ![r].pc = "loading", ![r].next = 1]
    <2> DEFINE n == [readers[r] EXCEPT !.pc = "loading", !.next = 1]
    <2>1. readers[r] \in ReaderStates /\ ~readers[r].lost
          /\ pointer # NoPointer /\ readers[r].seen.gen \in history.committed
      BY <1>1 DEF TypeOK, Named
    <2>2. n.pc = "loading" /\ n.seen = readers[r].seen /\ ~n.lost /\ n.next = 1
      BY <2>1 DEF ReaderStates
    <2>3. 1 \in 1 .. Matrices /\ 1 \in 0 .. Matrices
      BY Numbers
    <2>4. n \in ReaderStates
      BY <2>1, <2>3 DEF ReaderStates
    <2>5. readers' = [readers EXCEPT ![r] = n]
      BY <1>1, <1>3 DEF TypeOK
    <2> HIDE DEF n
    <2> QED
      BY <1>1, <2>1, <2>2, <2>3, <2>4, <2>5, ReadsKeep
  <1> QED
    BY <1>2, <1>3 DEF ClosePointer

LEMMA LoadShardKeeps ==
  ASSUME Committing, NEW r \in Readers, LoadShard(r)
  PROVE  Committing'
  <1> DEFINE p == readers[r]
             gen == p.seen.gen
             file == files[Shard(gen, p.next)]
             more == [p EXCEPT !.loaded = @ \cup {gen}]
  <1>1. /\ UNCHANGED <<files, pointer, writers, history>> /\ TypeOK /\ Named /\ Stored
        /\ p.pc = "loading" /\ p \in ReaderStates /\ ~p.lost
    BY DEF LoadShard, Committing, TypeOK, Named
  <1>2. /\ pointer # NoPointer /\ gen \in history.committed /\ p.next \in 1 .. Matrices
    BY <1>1 DEF Named
  <1>3. file \in {"whole", "rotten"}
    BY <1>1, <1>2 DEF Stored, OnDisk
  <1>4. more \in ReaderStates /\ more.pc = "loading" /\ more.seen = p.seen /\ ~more.lost
        /\ more.next = p.next
    <2>1. gen \in Generations
      BY <1>1, <1>2 DEF TypeOK
    <2> DEFINE all == p.loaded \cup {gen}
    <2>2. all \in SUBSET Generations
      BY <1>1, <2>1 DEF ReaderStates
    <2>3. more = [p EXCEPT !.loaded = all]
      BY <1>1 DEF ReaderStates
    <2> HIDE DEF all, gen
    <2> QED
      BY <1>1, <2>2, <2>3 DEF ReaderStates
  <1>5. CASE file # "whole"
    <2> DEFINE short == file # "rotten"
               n == [NotReading EXCEPT !.lost = short]
    <2>1. readers' = [readers EXCEPT ![r] = n]
      BY <1>5 DEF LoadShard
    <2>2. short = FALSE
      BY <1>3, <1>5
    <2> HIDE DEF short
    <2>3. n.pc = "idle" /\ n.lost = FALSE
      BY <2>2, NotReadingType DEF ReaderStates
    <2>4. n \in ReaderStates
      BY <2>2, NotReadingType DEF ReaderStates
    <2> HIDE DEF n
    <2> QED
      BY <1>1, <2>1, <2>3, <2>4, ReadsKeep
  <1>6. CASE file = "whole" /\ p.next = Matrices
    <2> DEFINE n == [more EXCEPT !.pc = "done"]
    <2>1. readers' = [readers EXCEPT ![r] = n]
      BY <1>6 DEF LoadShard
    <2> HIDE DEF more
    <2>2. n \in ReaderStates /\ n.pc = "done" /\ ~n.lost
      BY <1>4 DEF ReaderStates
    <2> HIDE DEF n
    <2> QED
      BY <1>1, <2>1, <2>2, ReadsKeep
  <1>7. CASE file = "whole" /\ p.next # Matrices
    <2> DEFINE following == p.next + 1
               n == [more EXCEPT !.next = following]
    <2>1. readers' = [readers EXCEPT ![r] = n]
      <3>1. more.next = p.next
        BY <1>4
      <3> QED
        BY <1>7, <3>1 DEF LoadShard
    <2>2. following \in 1 .. Matrices
      BY <1>2, <1>7, Numbers
    <2> HIDE DEF more, following
    <2>3. n \in ReaderStates /\ n.pc = "loading" /\ n.seen = p.seen /\ n.next = following /\ ~n.lost
      BY <1>4, <2>2 DEF ReaderStates
    <2> HIDE DEF n
    <2> QED
      BY <1>1, <1>2, <2>1, <2>2, <2>3, ReadsKeep
  <1> QED
    BY <1>5, <1>6, <1>7

(* Shards that rot stay on disk. *)
LEMMA RotKeeps ==
  ASSUME Committing, NEW path \in Paths, Rot(path)
  PROVE  Committing'
  <1>1. /\ TypeOK /\ Owned /\ Stored /\ Named /\ Readable
    BY DEF Committing
  <1>2. /\ files' = [files EXCEPT ![path] = "rotten"] /\ Happens("rot")
        /\ pointer' = pointer /\ writers' = writers /\ readers' = readers
    BY DEF Rot
  <1>3. SameHistory
    BY <1>1, <1>2, FaultHistory
  <1>4. files' \in [Paths -> FileStates]
    BY <1>1, <1>2 DEF TypeOK, FileStates
  <1> DEFINE Stands(g, i) == files'[Shard(g, i)] \in {"whole", "rotten"}
  <1>5. \A g \in Generations, i \in 1 .. Matrices : OnDisk(Shard(g, i)) => Stands(g, i)
    BY <1>1, <1>2, Numbers DEF TypeOK, OnDisk, Shard, Paths
  <1>6. Stored'
    <2>1. \A g \in history.committed : \A i \in 1 .. Matrices : Stands(g, i)
      BY <1>1, <1>5 DEF Stored, TypeOK
    <2>2. ASSUME NEW o \in Writers, Prepared(o)
          PROVE  /\ writers[o].next \in 1 .. Matrices + 1
                 /\ writers[o].pc # "writing" => writers[o].next = Matrices + 1
                 /\ \A i \in 1 .. Matrices : i < writers[o].next => Stands(writers[o].gen, i)
      <3>1. writers[o].gen \in Generations
        BY <1>1, <2>2, WriterTypes DEF Owned, Active, Prepared
      <3> HIDE DEF Stands
      <3> QED
        BY <1>1, <1>5, <2>2, <3>1 DEF Stored
    <2> QED
      BY <1>2, <1>3, <2>1, <2>2 DEF Stored, Prepared, OnDisk, SameHistory
  <1>7. TypeOK' /\ Owned'
    BY <1>1, <1>2, <1>3, <1>4 DEF TypeOK, Owned, Active, Uncommitted, SameHistory
  <1>8. Named' /\ Readable'
    BY <1>1, <1>2, <1>3 DEF Named, Readable, Prepared, Accepted, SameHistory
  <1> QED
    BY <1>1, <1>6, <1>7, <1>8 DEF Committing

LEMMA StepKeeps ==
  ASSUME Committing, Guarded, [Next]_vars
  PROVE  Committing'
  <1>1. CASE UNCHANGED vars
    BY <1>1 DEF vars, Committing, TypeOK, Owned, Active, Uncommitted, Stored, Prepared, OnDisk,
                Named, Readable, Accepted
  <1>2. CASE Next
    BY <1>2, WriteKeeps, WriteFileKeeps, CheckKeeps, ReplaceKeeps, ReturnKeeps, InterruptKeeps,
       CleanUpKeeps, CrashKeeps, ReadKeeps, OpenPointerKeeps, ClosePointerKeeps, LoadShardKeeps,
       RotKeeps DEF Next
  <1> QED
    BY <1>1, <1>2

(* Every shard of the committed generation, and of the one a reader saw,   *)
(* stays on disk, and the pointer has counters the reader takes, for any   *)
(* number of writers that are not kept apart, any failure, interrupt or    *)
(* crash of one and any number of readers (expert_bank.py:4-6).  The       *)
(* argument: a shard is removed only by the writer of its generation,      *)
(* while nobody has committed it, and a pointer is written only after      *)
(* every shard.                                                            *)
THEOREM CommittedStays ==
  ASSUME Guarded
  PROVE  Spec => []CommittedWhole
  <1>1. Init => Committing
    BY Initially
  <1>2. Committing /\ [Next]_vars => Committing'
    BY StepKeeps
  <1>3. Committing => CommittedWhole
    <2>1. SUFFICES ASSUME Committing PROVE CommittedWhole
      OBVIOUS
    <2> QED
      BY <2>1 DEF Committing, Stored, Named, Readable, CommittedWhole, Shards
  <1> QED
    BY <1>1, <1>2, <1>3, PTL DEF Spec
-----------------------------------------------------------------------------
Tidy == Noted /\ RefusedLeavesNothing

(* A step that adds no file and removes none, whose writers keep their     *)
(* generations and what they noted.                                        *)
LEMMA SameFilesTidy ==
  ASSUME Tidy,
         \A p \in Paths : files'[p] = "none" <=> files[p] = "none",
         \A w \in Writers :
           /\ writers'[w].gen = writers[w].gen /\ writers'[w].written = writers[w].written
           /\ Uncommitted(w)' => Uncommitted(w)
           /\ writers'[w].pc = "committed" =>
                writers[w].pc = "committed" /\ writers[w].gen \in Generations,
         history'.committed = history.committed, history'.crashed = history.crashed
  PROVE  Tidy'
  <1>1. Noted /\ RefusedLeavesNothing
    BY DEF Tidy
  <1>2. \A g \in Generations : Pending(g) \in Paths
    BY Numbers DEF Pending, Paths
  <1>3. Noted'
    <2>1. SUFFICES ASSUME NEW w \in Writers
          PROVE /\ Uncommitted(w)' => \A p \in Paths :
                     p[1] = writers'[w].gen /\ files'[p] # "none" => p \in writers'[w].written
                /\ writers'[w].pc = "committed" => files'[Pending(writers'[w].gen)] = "none"
      BY DEF Noted
    <2>2. ASSUME Uncommitted(w)', NEW p \in Paths, p[1] = writers'[w].gen, files'[p] # "none"
          PROVE  p \in writers'[w].written
      BY <1>1, <2>2 DEF Noted
    <2>3. ASSUME writers'[w].pc = "committed"
          PROVE  files'[Pending(writers'[w].gen)] = "none"
      BY <1>1, <1>2, <2>3 DEF Noted
    <2> QED
      BY <2>2, <2>3
  <1>4. RefusedLeavesNothing'
    BY <1>1 DEF RefusedLeavesNothing
  <1> QED
    BY <1>3, <1>4 DEF Tidy

LEMMA RaisesTidy ==
  ASSUME Committing, Tidy, NEW w \in Writers, Prepared(w), Raises(w), SameHistory,
         UNCHANGED files
  PROVE  Tidy'
  <1>1. /\ writers'[w].pc = "cleaning" /\ writers'[w].gen = writers[w].gen
        /\ writers'[w].written = writers[w].written
        /\ \A o \in Writers : o # w => writers'[o] = writers[o]
    <2>1. writers[w] \in WriterStates /\ writers \in [Writers -> WriterStates]
      BY DEF Committing, TypeOK
    <2> QED
      BY <2>1 DEF Raises, WriterStates
  <1>2. \A o \in Writers : writers[o].pc = "committed" => writers[o].gen \in Generations
    BY WriterTypes DEF Committing, Owned, Active
  <1> QED
    BY <1>1, <1>2, SameFilesTidy DEF Prepared, Uncommitted, SameHistory

(* A call ends: what is left of its generation is committed or crashed. *)
LEMMA RestsTidy ==
  ASSUME Committing, Tidy, NEW w \in Writers, Active(w),
         writers' = [writers EXCEPT ![w] = Resting],
         history'.committed = history.committed, history.crashed \subseteq history'.crashed,
         \A p \in Paths : files'[p] # files[p] => p[1] = writers[w].gen,
         writers[w].gen \in history'.crashed \/ \A p \in Paths :
           p[1] = writers[w].gen /\ files'[p] # "none" =>
             p[1] \in history.committed /\ p[2] # 0
  PROVE  Tidy'
  <1>1. TypeOK /\ Owned /\ Noted /\ RefusedLeavesNothing
    BY DEF Committing, Tidy
  <1>2. /\ writers'[w] = Resting /\ Resting.pc = "idle" /\ Resting.gen = 0
        /\ \A o \in Writers : o # w => writers'[o] = writers[o]
    BY <1>1 DEF TypeOK, Resting
  <1>3. ASSUME NEW o \in Writers, o # w, Active(o)
        PROVE  /\ writers[o].gen \in Generations /\ writers[o].gen # writers[w].gen
               /\ \A p \in Paths : p[1] = writers[o].gen => files'[p] = files[p]
    BY <1>1, <1>3, WriterTypes DEF Owned
  <1>4. Noted'
    <2>1. SUFFICES ASSUME NEW o \in Writers
          PROVE /\ Uncommitted(o)' => \A p \in Paths :
                     p[1] = writers'[o].gen /\ files'[p] # "none" => p \in writers'[o].written
                /\ writers'[o].pc = "committed" => files'[Pending(writers'[o].gen)] = "none"
      BY DEF Noted
    <2>2. CASE o = w
      BY <1>2, <2>2 DEF Uncommitted
    <2>3. ASSUME o # w, Uncommitted(o)', NEW p \in Paths, p[1] = writers'[o].gen,
                 files'[p] # "none"
          PROVE  p \in writers'[o].written
      BY <1>1, <1>2, <1>3, <2>3 DEF Noted, Uncommitted, Active
    <2>4. ASSUME o # w, writers'[o].pc = "committed"
          PROVE  files'[Pending(writers'[o].gen)] = "none"
      <3>1. writers'[o] = writers[o] /\ Active(o)
        BY <1>2, <2>4 DEF Active
      <3>2. /\ Pending(writers[o].gen) \in Paths
            /\ Pending(writers[o].gen)[1] = writers[o].gen
        BY <1>3, <2>4, <3>1, Numbers DEF Pending, Paths
      <3> QED
        BY <1>1, <1>3, <2>4, <3>1, <3>2 DEF Noted
    <2> QED
      BY <2>2, <2>3, <2>4
  <1>5. RefusedLeavesNothing'
    <2>1. SUFFICES ASSUME NEW p \in Paths, files'[p] # "none"
          PROVE \/ p[1] \in history'.crashed
                \/ p[1] \in history'.committed /\ p[2] # 0
                \/ \E o \in Writers : writers'[o].gen = p[1]
      BY DEF RefusedLeavesNothing
    <2>2. CASE p[1] = writers[w].gen
      BY <2>1, <2>2
    <2>3. CASE p[1] # writers[w].gen
      <3>1. files[p] # "none"
        BY <2>1, <2>3
      <3> QED
        BY <1>1, <1>2, <2>3, <3>1 DEF RefusedLeavesNothing
    <2> QED
      BY <2>2, <2>3
  <1> QED
    BY <1>4, <1>5 DEF Tidy

LEMMA WriteTidy ==
  ASSUME Committing, Tidy, NEW w \in Writers, NEW g \in Generations,
         NEW step \in 0 .. MaxStep, NEW count \in Counts, Write(w, g, step, count)
  PROVE  Tidy'
  <1>1. TypeOK /\ Owned /\ Noted /\ RefusedLeavesNothing
    BY DEF Committing, Tidy
  <1>2. /\ writers[w].pc = "idle" /\ writers[w].gen = 0 /\ g \notin history.taken /\ files' = files
        /\ history' = [history EXCEPT !.taken = @ \cup {g}]
    BY <1>1 DEF Write, Owned, Active
  <1>3. /\ writers'[w].pc = "writing" /\ writers'[w].gen = g
        /\ \A o \in Writers : o # w => writers'[o] = writers[o]
    BY <1>1 DEF Write, TypeOK
  <1>4. history'.committed = history.committed /\ history'.crashed = history.crashed
    BY <1>1, <1>2 DEF TypeOK
  <1>5. ASSUME NEW p \in Paths, p[1] = g
        PROVE  files[p] = "none"
    <2>1. g # 0 /\ \A o \in Writers : writers[o].gen # g
      BY <1>1, <1>2, Numbers DEF Owned
    <2>2. g \notin history.crashed /\ g \notin history.committed
      BY <1>1, <1>2 DEF Owned
    <2> QED
      BY <1>1, <1>5, <2>1, <2>2 DEF RefusedLeavesNothing
  <1>6. Noted'
    BY <1>1, <1>2, <1>3, <1>5 DEF Noted, Uncommitted
  <1>7. RefusedLeavesNothing'
    <2>1. ASSUME NEW p \in Paths, NEW o \in Writers, writers[o].gen = p[1]
          PROVE  o # w
      <3>1. p[1] # 0
        BY <2>1, Numbers DEF Paths
      <3> QED
        BY <1>2, <2>1, <3>1
    <2> QED
      BY <1>1, <1>2, <1>3, <1>4, <2>1 DEF RefusedLeavesNothing
  <1> QED
    BY <1>6, <1>7 DEF Tidy

LEMMA WriteFileTidy ==
  ASSUME Committing, Tidy, Guarded, NEW w \in Writers, WriteFile(w)
  PROVE  Tidy'
  <1>1. TypeOK /\ Owned /\ Stored /\ Noted /\ RefusedLeavesNothing
    BY DEF Committing, Tidy
  <1>2. writers[w].pc = "writing"
    BY DEF WriteFile
  <1>3. CASE Happens("refused") /\ Raises(w) /\ UNCHANGED files
    <2>1. SameHistory
      BY <1>1, <1>3, FaultHistory
    <2> QED
      BY <1>2, <1>3, <2>1, RaisesTidy DEF Prepared
  <1>4. ~Happens("partial")
    BY DEF Guarded, Happens
  <1> DEFINE at == Target(w)
             n == [writers[w] EXCEPT !.written = @ \cup {at},
                                     !.next = IF @ > Matrices THEN @ ELSE @ + 1,
                                     !.pc = IF writers[w].next > Matrices THEN "checking" ELSE @]
  <1>5. CASE /\ files' = [files EXCEPT ![at] = "whole"]
             /\ writers' = [writers EXCEPT ![w] = n]
             /\ history' = history
    <2>1. writers[w].gen \in Generations /\ writers[w].next \in 1 .. Matrices + 1
      BY <1>1, <1>2, WriterTypes DEF Owned, Active, Stored, Prepared
    <2>2. at \in Paths /\ at[1] = writers[w].gen
      BY <2>1, Numbers DEF Target, Pending, Shard, Paths
    <2>3. /\ n.gen = writers[w].gen /\ n.written = writers[w].written \cup {at}
          /\ n.pc # "committed"
      <3>1. writers[w] \in WriterStates
        BY <1>1, WriterTypes
      <3> HIDE DEF at
      <3> QED
        BY <1>2, <3>1 DEF WriterStates
    <2> HIDE DEF n
    <2>4. writers'[w] = n /\ \A o \in Writers : o # w => writers'[o] = writers[o]
      BY <1>1, <1>5 DEF TypeOK
    <2>5. files'[at] = "whole" /\ \A p \in Paths : p # at => files'[p] = files[p]
      BY <1>1, <1>5, <2>2 DEF TypeOK
    <2> HIDE DEF at
    <2>6. Noted'
      <3>1. SUFFICES ASSUME NEW o \in Writers
            PROVE /\ Uncommitted(o)' => \A p \in Paths :
                       p[1] = writers'[o].gen /\ files'[p] # "none" => p \in writers'[o].written
                  /\ writers'[o].pc = "committed" => files'[Pending(writers'[o].gen)] = "none"
        BY DEF Noted
      <3>2. CASE o = w
        BY <1>1, <1>2, <2>3, <2>4, <2>5, <3>2 DEF Noted, Uncommitted
      <3>3. ASSUME o # w, Active(o)
            PROVE  /\ writers[o].gen \in Generations
                   /\ \A p \in Paths : p[1] = writers[o].gen => files'[p] = files[p]
        BY <1>1, <1>2, <2>2, <2>5, <3>3, WriterTypes DEF Owned, Active
      <3>4. ASSUME o # w, Uncommitted(o)', NEW p \in Paths, p[1] = writers'[o].gen,
                   files'[p] # "none"
            PROVE  p \in writers'[o].written
        BY <1>1, <2>4, <3>3, <3>4 DEF Noted, Uncommitted, Active
      <3>5. ASSUME o # w, writers'[o].pc = "committed"
            PROVE  files'[Pending(writers'[o].gen)] = "none"
        <4>1. writers'[o] = writers[o] /\ Active(o)
          BY <2>4, <3>5 DEF Active
        <4>2. /\ Pending(writers[o].gen) \in Paths
              /\ Pending(writers[o].gen)[1] = writers[o].gen
          BY <3>3, <3>5, <4>1, Numbers DEF Pending, Paths
        <4> QED
          BY <1>1, <3>3, <3>5, <4>1, <4>2 DEF Noted
      <3> QED
        BY <3>2, <3>4, <3>5
    <2>7. RefusedLeavesNothing'
      <3>1. \A o \in Writers : writers'[o].gen = writers[o].gen
        BY <2>3, <2>4
      <3> QED
        BY <1>1, <1>5, <2>2, <2>5, <3>1 DEF RefusedLeavesNothing
    <2> QED
      BY <2>6, <2>7 DEF Tidy
  <1> QED
    BY <1>3, <1>4, <1>5 DEF WriteFile

LEMMA CheckTidy ==
  ASSUME Committing, Tidy, NEW w \in Writers, Check(w)
  PROVE  Tidy'
  <1>1. TypeOK
    BY DEF Committing
  <1>2. writers[w].pc = "checking" /\ files' = files /\ history' = history
    BY DEF Check
  <1>3. CASE Raises(w)
    <2>1. SameHistory
      BY <1>1, <1>2, FaultHistory
    <2> QED
      BY <1>2, <1>3, <2>1, RaisesTidy DEF Prepared
  <1>4. CASE writers' = [writers EXCEPT ![w].pc = "replacing"]
    <2>1. /\ writers'[w].pc = "replacing" /\ writers'[w].gen = writers[w].gen
          /\ writers'[w].written = writers[w].written
          /\ \A o \in Writers : o # w => writers'[o] = writers[o]
      BY <1>1, <1>4 DEF TypeOK, WriterStates
    <2>2. \A o \in Writers : writers[o].pc = "committed" => writers[o].gen \in Generations
      BY WriterTypes DEF Committing, Owned, Active
    <2> QED
      BY <1>2, <2>1, <2>2, SameFilesTidy DEF Uncommitted
  <1> QED
    BY <1>3, <1>4 DEF Check

LEMMA ReplaceTidy ==
  ASSUME Committing, Tidy, NEW w \in Writers, Replace(w)
  PROVE  Tidy'
  <1>1. TypeOK /\ Owned /\ Noted /\ RefusedLeavesNothing
    BY DEF Committing, Tidy
  <1>2. writers[w].pc = "replacing"
    BY DEF Replace
  <1>3. CASE Raises(w) /\ UNCHANGED <<files, pointer, history>>
    <2>1. SameHistory
      BY <1>1, <1>3, FaultHistory
    <2> QED
      BY <1>2, <1>3, <2>1, RaisesTidy DEF Prepared
  <1>4. CASE /\ writers' = [writers EXCEPT ![w].attempts = @ + 1]
             /\ UNCHANGED <<files, pointer, history>>
    <2>1. /\ writers'[w].pc = writers[w].pc /\ writers'[w].gen = writers[w].gen
          /\ writers'[w].written = writers[w].written
          /\ \A o \in Writers : o # w => writers'[o] = writers[o]
      BY <1>1, <1>4 DEF TypeOK, WriterStates
    <2>2. \A o \in Writers : writers[o].pc = "committed" => writers[o].gen \in Generations
      BY WriterTypes DEF Committing, Owned, Active
    <2> QED
      BY <1>4, <2>1, <2>2, SameFilesTidy DEF Uncommitted
  <1>5. CASE /\ files' = [files EXCEPT ![Pending(writers[w].gen)] = "none"]
             /\ history' = [history EXCEPT !.committed = @ \cup {writers[w].gen}]
             /\ writers' = [writers EXCEPT ![w].pc = "committed"]
    <2> DEFINE at == Pending(writers[w].gen)
    <2>1. writers[w].gen \in Generations
      BY <1>1, <1>2, WriterTypes DEF Owned, Active
    <2>2. at \in Paths
      BY <2>1, Numbers DEF Pending, Paths
    <2>3. /\ writers'[w].pc = "committed" /\ writers'[w].gen = writers[w].gen
          /\ \A o \in Writers : o # w => writers'[o] = writers[o]
      BY <1>1, <1>5 DEF TypeOK, WriterStates
    <2>4. files'[at] = "none" /\ \A p \in Paths : p # at => files'[p] = files[p]
      BY <1>1, <1>5, <2>2 DEF TypeOK
    <2>5. \A o \in Writers : writers[o].pc = "committed" =>
            Pending(writers[o].gen) \in Paths
      BY <1>1, WriterTypes, Numbers DEF Owned, Active, Pending, Paths
    <2>6. history.committed \subseteq history'.committed /\ history'.crashed = history.crashed
      BY <1>1, <1>5 DEF TypeOK
    <2>7. Noted'
      <3>1. SUFFICES ASSUME NEW o \in Writers
            PROVE /\ Uncommitted(o)' => \A p \in Paths :
                       p[1] = writers'[o].gen /\ files'[p] # "none" => p \in writers'[o].written
                  /\ writers'[o].pc = "committed" => files'[Pending(writers'[o].gen)] = "none"
        BY DEF Noted
      <3>2. CASE o = w
        BY <2>3, <2>4, <3>2 DEF Uncommitted
      <3>3. CASE o # w
        <4>1. writers'[o] = writers[o]
          BY <2>3, <3>3
        <4>2. \A p \in Paths : files'[p] # "none" => files[p] # "none"
          BY <2>4
        <4> HIDE DEF at
        <4> QED
          BY <1>1, <2>5, <4>1, <4>2 DEF Noted, Uncommitted
      <3> QED
        BY <3>2, <3>3
    <2>8. RefusedLeavesNothing'
      <3>1. \A o \in Writers : writers'[o].gen = writers[o].gen
        BY <2>3
      <3>2. \A p \in Paths : files'[p] # "none" => files[p] # "none"
        BY <2>4
      <3> QED
        BY <1>1, <2>6, <3>1, <3>2 DEF RefusedLeavesNothing
    <2> QED
      BY <2>7, <2>8 DEF Tidy
  <1> QED
    BY <1>3, <1>4, <1>5 DEF Replace

LEMMA ReturnTidy ==
  ASSUME Committing, Tidy, NEW w \in Writers, Return(w)
  PROVE  Tidy'
  <1>1. TypeOK /\ Owned /\ Noted /\ RefusedLeavesNothing
    BY DEF Committing, Tidy
  <1>2. /\ writers[w].pc = "committed" /\ Active(w) /\ files' = files /\ history' = history
        /\ writers' = [writers EXCEPT ![w] = Resting]
    BY DEF Return, Active
  <1>3. writers[w].gen \in history.committed /\ files[Pending(writers[w].gen)] = "none"
    BY <1>1, <1>2 DEF Owned, Noted
  <1>4. \A p \in Paths : p[1] = writers[w].gen /\ files[p] # "none" => p[2] # 0
    BY <1>3 DEF Pending, Paths
  <1> QED
    BY <1>2, <1>3, <1>4, RestsTidy

LEMMA CrashTidy ==
  ASSUME Committing, Tidy, NEW w \in Writers, Crash(w)
  PROVE  Tidy'
  <1>1. TypeOK /\ Owned /\ Stored
    BY DEF Committing
  <1>2. /\ Active(w) /\ writers' = [writers EXCEPT ![w] = Resting]
        /\ history' = [history EXCEPT !.crashed = @ \cup {writers[w].gen}, !.faults = @ + 1]
    BY DEF Crash, Active
  <1>3. /\ history'.committed = history.committed
        /\ history'.crashed = history.crashed \cup {writers[w].gen}
    BY <1>1, <1>2 DEF TypeOK
  <1>4. \A p \in Paths : files'[p] # files[p] => p[1] = writers[w].gen
    <2>1. CASE files' = files
      BY <2>1
    <2>2. CASE files' = [files EXCEPT ![Target(w)] = "partial"]
      BY <1>1, <2>2 DEF TypeOK, Target, Pending, Shard
    <2> QED
      BY <2>1, <2>2 DEF Crash
  <1> QED
    BY <1>2, <1>3, <1>4, RestsTidy

LEMMA CleanUpTidy ==
  ASSUME Committing, Tidy, NEW w \in Writers, CleanUp(w)
  PROVE  Tidy'
  <1>1. TypeOK /\ Owned /\ Noted /\ RefusedLeavesNothing
    BY DEF Committing, Tidy
  <1>2. writers[w].pc = "cleaning" /\ Active(w) /\ Uncommitted(w) /\ history' = history
    BY DEF CleanUp, Active, Uncommitted
  <1>3. CASE /\ {p \in writers[w].written : files[p] # "none"} = {}
             /\ writers' = [writers EXCEPT ![w] = Resting] /\ files' = files
    <2>1. \A p \in Paths : p[1] = writers[w].gen => files[p] = "none"
      BY <1>1, <1>2, <1>3 DEF Noted
    <2> QED
      BY <1>2, <1>3, <2>1, RestsTidy
  <1>4. ASSUME NEW p \in writers[w].written, files' = [files EXCEPT ![p] = "none"],
               writers' = writers
        PROVE  Tidy'
    <2>1. \A q \in Paths : files'[q] # "none" => files[q] # "none"
      BY <1>1, <1>4 DEF TypeOK
    <2>2. \A o \in Writers : writers[o].pc = "committed" => Pending(writers[o].gen) \in Paths
      BY <1>1, WriterTypes, Numbers DEF Owned, Active, Pending, Paths
    <2>3. Noted'
      BY <1>1, <1>4, <2>1, <2>2 DEF Noted, Uncommitted
    <2>4. RefusedLeavesNothing'
      BY <1>1, <1>2, <1>4, <2>1 DEF RefusedLeavesNothing
    <2> QED
      BY <2>3, <2>4 DEF Tidy
  <1> QED
    BY <1>3, <1>4 DEF CleanUp

LEMMA InterruptTidy ==
  ASSUME Committing, Tidy, Guarded, NEW w \in Writers, Interrupt(w)
  PROVE  Tidy'
  <1>1. ~Happens("late interrupt")
    BY DEF Guarded, Happens
  <1>2. Prepared(w) /\ Happens("interrupt") /\ Raises(w) /\ UNCHANGED <<files, pointer, readers>>
    BY <1>1 DEF Interrupt, Prepared
  <1>3. SameHistory
    BY <1>2, FaultHistory DEF Committing
  <1> QED
    BY <1>2, <1>3, RaisesTidy

(* Readers, rot and steps of nobody: no writer moves. *)
LEMMA OthersTidy ==
  ASSUME Committing, Tidy, writers' = writers, SameHistory,
         \A p \in Paths : files'[p] = "none" <=> files[p] = "none"
  PROVE  Tidy'
  <1>1. \A o \in Writers : writers[o].pc = "committed" => writers[o].gen \in Generations
    BY WriterTypes DEF Committing, Owned, Active
  <1> QED
    BY <1>1, SameFilesTidy DEF Uncommitted, SameHistory

LEMMA StepTidy ==
  ASSUME Committing, Tidy, Guarded, [Next]_vars
  PROVE  Tidy'
  <1>1. CASE UNCHANGED <<files, writers, history>>
    <2>1. SameHistory
      BY <1>1, FaultHistory DEF Committing
    <2> QED
      BY <1>1, <2>1, OthersTidy
  <1>2. ASSUME NEW path \in Paths, Rot(path)
        PROVE  Tidy'
    <2>1. SameHistory
      BY <1>2, FaultHistory DEF Rot, Committing
    <2>2. \A p \in Paths : files'[p] = "none" <=> files[p] = "none"
      BY <1>2 DEF Rot, Committing, TypeOK
    <2> QED
      BY <1>2, <2>1, <2>2, OthersTidy DEF Rot
  <1>3. ASSUME NEW r \in Readers, Read(r) \/ OpenPointer(r) \/ ClosePointer(r) \/ LoadShard(r)
        PROVE  Tidy'
    BY <1>1, <1>3 DEF Read, OpenPointer, ClosePointer, LoadShard
  <1>4. CASE Next
    BY <1>2, <1>3, <1>4, WriteTidy, WriteFileTidy, CheckTidy, ReplaceTidy, ReturnTidy,
       InterruptTidy, CleanUpTidy, CrashTidy DEF Next
  <1> QED
    BY <1>1, <1>4 DEF vars

(* A write that was refused leaves no file: every file is of a committed   *)
(* generation and no pending pointer, or of a write in progress, or of one *)
(* whose process ended (expert_bank.py:329-330).  The argument: the writer *)
(* has noted every file of its generation, and a generation is taken once. *)
THEOREM NothingIsLeft ==
  ASSUME Guarded
  PROVE  Spec => []RefusedLeavesNothing
  <1>1. Init => Committing /\ Tidy
    BY Initially DEF Tidy
  <1>2. Committing /\ Tidy /\ [Next]_vars => (Committing /\ Tidy)'
    BY StepKeeps, StepTidy
  <1>3. Tidy => RefusedLeavesNothing
    BY DEF Tidy
  <1> QED
    BY <1>1, <1>2, <1>3, PTL DEF Spec
-----------------------------------------------------------------------------
(* The new pointer follows the one read before the write. *)
Follows(n) ==
  \E step \in 0 .. MaxStep, count \in Counts :
    step >= n.previous.step /\ n.new = Succeeding(n.previous, n.gen, step, count)

Single ==
  \A w \in Writers : writers[w].pc = "replacing" =>
    /\ pointer = writers[w].previous
    /\ \A o \in Writers : o # w => writers[o].pc # "replacing"

(* One writer at a time stands before the replacement, and the pointer is  *)
(* still the one it read; the bytes a reader has are of the generation it  *)
(* saw.                                                                    *)
Steady ==
  /\ Single
  /\ \A w \in Writers : Prepared(w) => Follows(writers[w])
  /\ \A r \in Readers :
       /\ readers[r].pc \in {"looking", "holding"} => readers[r].loaded = {}
       /\ readers[r].loaded \subseteq {readers[r].seen.gen}

LEMMA InitiallySteady == Init => Steady
  <1>1. SUFFICES ASSUME Init PROVE Steady
    OBVIOUS
  <1>2. \A w \in Writers : writers[w].pc = "idle"
    BY <1>1 DEF Init, Resting
  <1>3. \A r \in Readers : readers[r].loaded = {}
    BY <1>1 DEF Init, NotReading
  <1> QED
    BY <1>2, <1>3 DEF Steady, Single, Prepared

(* A writer's step that leaves the pointer alone. *)
LEMMA WriterSteady ==
  ASSUME TypeOK, Steady, NEW w \in Writers, NEW n,
         writers' = [writers EXCEPT ![w] = n], pointer' = pointer, readers' = readers,
         n.pc = "replacing" =>
           pointer = n.previous /\ \A o \in Writers : o # w => writers[o].pc # "replacing",
         n.pc \in {"writing", "checking", "replacing"} => Follows(n)
  PROVE  Steady'
  <1>1. writers'[w] = n /\ \A o \in Writers : o # w => writers'[o] = writers[o]
    BY DEF TypeOK
  <1>2. Single'
    <2>1. SUFFICES ASSUME NEW v \in Writers, writers'[v].pc = "replacing"
          PROVE /\ pointer' = writers'[v].previous
                /\ \A o \in Writers : o # v => writers'[o].pc # "replacing"
      BY DEF Single
    <2>2. CASE v = w
      BY <1>1, <2>1, <2>2
    <2>3. CASE v # w
      <3>1. writers[v].pc = "replacing" /\ n.pc # "replacing"
        BY <1>1, <2>1, <2>3
      <3> QED
        BY <1>1, <2>3, <3>1 DEF Steady, Single
    <2> QED
      BY <2>2, <2>3
  <1>3. ASSUME NEW v \in Writers, Prepared(v)' PROVE Follows(writers'[v])
    <2>1. CASE v = w
      BY <1>1, <1>3, <2>1 DEF Prepared
    <2>2. CASE v # w
      <3>1. writers'[v] = writers[v] /\ Prepared(v)
        BY <1>1, <1>3, <2>2 DEF Prepared
      <3> QED
        BY <3>1 DEF Steady
    <2> QED
      BY <2>1, <2>2
  <1> QED
    BY <1>2, <1>3 DEF Steady, Follows

LEMMA FollowsStill ==
  ASSUME NEW m, NEW n, Follows(m), n.gen = m.gen, n.previous = m.previous, n.new = m.new
  PROVE  Follows(n)
  BY DEF Follows

LEMMA RaisesSteady ==
  ASSUME TypeOK, Steady, NEW w \in Writers, Raises(w), pointer' = pointer, readers' = readers
  PROVE  Steady'
  <1> DEFINE n == [writers[w] EXCEPT !.pc = "cleaning"]
  <1>1. n.pc = "cleaning"
    BY DEF TypeOK, WriterStates
  <1>2. writers' = [writers EXCEPT ![w] = n]
    BY DEF Raises
  <1> HIDE DEF n
  <1> QED
    BY <1>1, <1>2, WriterSteady

LEMMA RestsSteady ==
  ASSUME TypeOK, Steady, NEW w \in Writers, writers' = [writers EXCEPT ![w] = Resting],
         pointer' = pointer, readers' = readers
  PROVE  Steady'
  <1>1. Resting.pc = "idle"
    BY DEF Resting
  <1> QED
    BY <1>1, WriterSteady

LEMMA WritesSteady ==
  ASSUME Committing, Steady, Apart, NEW w \in Writers,
         \/ \E g \in Generations, step \in 0 .. MaxStep, count \in Counts : Write(w, g, step, count)
         \/ WriteFile(w) \/ Check(w) \/ Return(w) \/ Interrupt(w) \/ CleanUp(w) \/ Crash(w)
  PROVE  Steady'
  <1>1. TypeOK /\ writers[w] \in WriterStates
    BY DEF Committing, TypeOK
  <1>2. ASSUME NEW g \in Generations, NEW step \in 0 .. MaxStep, NEW count \in Counts,
               Write(w, g, step, count)
        PROVE  Steady'
    <2> DEFINE new == Succeeding(pointer, g, step, count)
               n == [pc |-> "writing", gen |-> g, next |-> 1, previous |-> pointer, new |-> new,
                     written |-> {}, attempts |-> 0]
    <2>1. /\ step >= pointer.step /\ writers' = [writers EXCEPT ![w] = n]
          /\ pointer' = pointer /\ readers' = readers
      BY <1>2 DEF Write
    <2>2. n.pc = "writing" /\ n.gen = g /\ n.previous = pointer /\ n.new = new
      OBVIOUS
    <2> HIDE DEF n
    <2>3. Follows(n)
      BY <2>1, <2>2 DEF Follows
    <2> QED
      BY <1>1, <2>1, <2>2, <2>3, WriterSteady
  <1>3. CASE WriteFile(w)
    <2>1. pointer' = pointer /\ readers' = readers /\ Follows(writers[w]) /\ writers[w].pc = "writing"
      BY <1>3 DEF WriteFile, Steady, Prepared
    <2>2. CASE Raises(w)
      BY <1>1, <2>1, <2>2, RaisesSteady
    <2> DEFINE n == [writers[w] EXCEPT !.written = @ \cup {Target(w)},
                                       !.next = IF @ > Matrices THEN @ ELSE @ + 1,
                                       !.pc = IF writers[w].next > Matrices THEN "checking" ELSE @]
    <2>3. CASE writers' = [writers EXCEPT ![w] = n]
      <3>1. /\ n.gen = writers[w].gen /\ n.previous = writers[w].previous /\ n.new = writers[w].new
            /\ n.pc # "replacing"
        BY <1>1, <2>1 DEF WriterStates
      <3> HIDE DEF n
      <3>2. Follows(n)
        BY <2>1, <3>1, FollowsStill
      <3> QED
        BY <1>1, <2>1, <2>3, <3>1, <3>2, WriterSteady
    <2> QED
      BY <1>3, <2>2, <2>3 DEF WriteFile
  <1>4. CASE Check(w)
    <2>1. /\ pointer' = pointer /\ readers' = readers /\ Follows(writers[w]) /\ writers[w].pc = "checking"
          /\ \A o \in Writers : writers[o].pc # "replacing"
      BY <1>4 DEF Check, Steady, Prepared
    <2>2. CASE Raises(w)
      BY <1>1, <2>1, <2>2, RaisesSteady
    <2>3. CASE pointer = writers[w].previous /\ writers' = [writers EXCEPT ![w].pc = "replacing"]
      <3> DEFINE n == [writers[w] EXCEPT !.pc = "replacing"]
      <3>1. writers' = [writers EXCEPT ![w] = n]
        BY <2>3
      <3>2. /\ n.gen = writers[w].gen /\ n.previous = writers[w].previous /\ n.new = writers[w].new
        BY <1>1 DEF WriterStates
      <3> HIDE DEF n
      <3>3. Follows(n)
        BY <2>1, <3>2, FollowsStill
      <3> QED
        BY <1>1, <2>1, <2>3, <3>1, <3>2, <3>3, WriterSteady
    <2> QED
      BY <1>4, <2>2, <2>3 DEF Check
  <1>5. CASE Return(w) \/ Crash(w)
    BY <1>1, <1>5, RestsSteady DEF Return, Crash
  <1>6. CASE Interrupt(w)
    BY <1>1, <1>6, RaisesSteady DEF Interrupt
  <1>7. CASE CleanUp(w)
    <2>1. pointer' = pointer /\ readers' = readers
      BY <1>7 DEF CleanUp
    <2>2. CASE writers' = [writers EXCEPT ![w] = Resting]
      BY <1>1, <2>1, <2>2, RestsSteady
    <2>3. CASE writers' = writers
      BY <2>1, <2>3 DEF Steady, Single, Prepared, Follows
    <2> QED
      BY <1>7, <2>2, <2>3 DEF CleanUp
  <1> QED
    BY <1>2, <1>3, <1>4, <1>5, <1>6, <1>7

LEMMA AnswersMove ==
  ASSUME TypeOK, NEW r \in Readers, NEW n, readers' = [readers EXCEPT ![r] = n]
  PROVE  Answers' = [Answers EXCEPT ![r] = Answered(n)]
  <1>1. /\ readers'[r] = n /\ \A o \in Readers : o # r => readers'[o] = readers[o]
    BY DEF TypeOK
  <1>2. Answers' = [o \in Readers |-> Answered(readers'[o])]
    BY DEF Answers, Answered, Whole
  <1>3. Answers = [o \in Readers |-> Answered(readers[o])]
    BY DEF Answers
  <1> QED
    BY <1>1, <1>2, <1>3

LEMMA AnsweredIs ==
  ASSUME NEW p
  PROVE  /\ p.pc = "idle" => Answered(p) = Cell!Refused
         /\ p.pc = "looking" => Answered(p) = Cell!Asked
         /\ p.pc \in {"holding", "loading", "done"} => Answered(p) = Cell!Answer(Whole(p))
         /\ Cell!Asked # Cell!Refused /\ Cell!Asked # Cell!Answer(Whole(p))
         /\ Cell!Refused # Cell!Answer(Whole(p))
  <1>1. /\ Cell!Asked.at = "asked" /\ Cell!Refused.at = "refused"
        /\ Cell!Answer(Whole(p)).at = "answered"
    BY DEF Cell!Asked, Cell!Refused, Cell!Answer
  <1>2. /\ Cell!Asked # Cell!Refused /\ Cell!Asked # Cell!Answer(Whole(p))
        /\ Cell!Refused # Cell!Answer(Whole(p))
    BY <1>1
  <1>3. CASE p.pc = "idle"
    BY <1>2, <1>3 DEF Answered, Cell!Refused
  <1>4. CASE p.pc = "looking"
    BY <1>2, <1>4 DEF Answered, Cell!Asked
  <1>5. CASE p.pc \in {"holding", "loading", "done"}
    BY <1>2, <1>5 DEF Answered, Cell!Answer
  <1> QED
    BY <1>2, <1>3, <1>4, <1>5

(* What was seen, when the bytes are of its generation. *)
LEMMA WholeIsSeen ==
  ASSUME NEW p, p.seen \in Pointers, p.loaded \subseteq {p.seen.gen}
  PROVE  Whole(p) = p.seen
  BY DEF Whole, Pointers

LEMMA ReplaceImplements ==
  ASSUME Committing, Steady, NEW w \in Writers, Replace(w)
  PROVE  Steady' /\ [Cell!Next]_(Cell!expert)
  <1>1. /\ TypeOK /\ Owned /\ Single /\ writers[w] \in WriterStates /\ Follows(writers[w])
        /\ writers[w].pc = "replacing" /\ readers' = readers
    BY DEF Replace, Committing, TypeOK, Steady, Prepared
  <1>2. Answers' = Answers
    BY <1>1 DEF Answers
  <1>3. CASE Raises(w) /\ UNCHANGED <<files, pointer, history>>
    BY <1>1, <1>2, <1>3, RaisesSteady DEF Cell!expert
  <1>4. CASE /\ writers' = [writers EXCEPT ![w].attempts = @ + 1]
             /\ UNCHANGED <<files, pointer, history>>
    <2> DEFINE n == [writers[w] EXCEPT !.attempts = @ + 1]
    <2>1. writers' = [writers EXCEPT ![w] = n]
      BY <1>4
    <2>2. n.gen = writers[w].gen /\ n.previous = writers[w].previous /\ n.new = writers[w].new
      BY <1>1 DEF WriterStates
    <2> HIDE DEF n
    <2>3. Follows(n)
      BY <1>1, <2>2, FollowsStill
    <2>4. pointer = n.previous /\ \A o \in Writers : o # w => writers[o].pc # "replacing"
      BY <1>1, <2>2 DEF Single
    <2>5. Steady'
      BY <1>1, <1>4, <2>1, <2>3, <2>4, WriterSteady
    <2> QED
      BY <1>2, <1>4, <2>5 DEF Cell!expert
  <1>5. CASE /\ pointer' = writers[w].new
             /\ history' = [history EXCEPT !.committed = @ \cup {writers[w].gen}]
             /\ writers' = [writers EXCEPT ![w].pc = "committed"]
    <2>1. writers'[w].pc = "committed" /\ \A o \in Writers : o # w => writers'[o] = writers[o]
      BY <1>1, <1>5 DEF TypeOK
    <2>2. \A o \in Writers : writers'[o].pc # "replacing"
      BY <1>1, <2>1 DEF Single
    <2>3. \A o \in Writers : Prepared(o)' => Follows(writers'[o])
      BY <2>1 DEF Steady, Prepared
    <2>4. Steady'
      BY <1>1, <2>2, <2>3 DEF Steady, Single, Follows
    <2>5. /\ writers[w].gen \in Generations /\ writers[w].gen \notin history.committed
          /\ pointer = writers[w].previous
      BY <1>1, WriterTypes DEF Owned, Active, Uncommitted, Single
    <2>6. PICK step \in 0 .. MaxStep, count \in Counts :
            step >= pointer.step /\ writers[w].new = Succeeding(pointer, writers[w].gen, step, count)
      BY <1>1, <2>5 DEF Follows
    <2>7. history'.committed = history.committed \cup {writers[w].gen}
      BY <1>1, <1>5 DEF TypeOK
    <2>8. Cell!Commit(writers[w].gen, step, count)
      BY <1>2, <1>5, <2>5, <2>6, <2>7 DEF Cell!Commit, Succeeding
    <2> QED
      BY <2>4, <2>5, <2>8 DEF Cell!Next
  <1> QED
    BY <1>3, <1>4, <1>5 DEF Replace

(* A reader's step asks, takes the answer at that instant, or changes none. *)
LEMMA ReadsImplement ==
  ASSUME Committing, Steady, NEW r \in Readers,
         Read(r) \/ OpenPointer(r) \/ ClosePointer(r) \/ LoadShard(r)
  PROVE  Steady' /\ [Cell!Next]_(Cell!expert)
  <1>1. /\ TypeOK /\ Named /\ readers[r] \in ReaderStates
        /\ pointer' = pointer /\ writers' = writers /\ history' = history
        /\ readers[r].seen \in Pointers /\ readers[r].loaded \subseteq {readers[r].seen.gen}
        /\ readers[r].pc \in {"looking", "holding"} => readers[r].loaded = {}
    BY DEF Read, OpenPointer, ClosePointer, LoadShard, Committing, TypeOK, Steady, ReaderStates
  <1>2. ASSUME NEW n, readers' = [readers EXCEPT ![r] = n],
               n.pc \in {"looking", "holding"} => n.loaded = {}, n.loaded \subseteq {n.seen.gen}
        PROVE  Steady'
    <2>1. readers'[r] = n /\ \A o \in Readers : o # r => readers'[o] = readers[o]
      BY <1>1, <1>2 DEF TypeOK
    <2> QED
      BY <1>1, <1>2, <2>1 DEF Steady, Single, Prepared, Follows
  <1>3. Answers[r] = Answered(readers[r]) /\ Answers \in [Readers -> {Answers[o] : o \in Readers}]
    BY DEF Answers
  <1>4. ASSUME NEW n, readers' = [readers EXCEPT ![r] = n], n.pc = "idle"
        PROVE  [Cell!Next]_(Cell!expert)
    <2>1. Answers' = [Answers EXCEPT ![r] = Cell!Refused]
      BY <1>1, <1>4, AnswersMove, AnsweredIs
    <2>2. CASE Answers[r] = Cell!Refused
      BY <1>1, <1>3, <2>1, <2>2 DEF Cell!expert
    <2>3. CASE Answers[r] # Cell!Refused
      BY <1>1, <2>1, <2>3 DEF Cell!Refuse, Cell!Next
    <2> QED
      BY <2>2, <2>3
  <1>5. ASSUME NEW n, readers' = [readers EXCEPT ![r] = n],
               readers[r].pc \in {"holding", "loading"}, n.pc \in {"holding", "loading", "done"},
               n.seen = readers[r].seen, n.loaded \subseteq {n.seen.gen}
        PROVE  [Cell!Next]_(Cell!expert)
    <2>1. Answered(n) = Answered(readers[r])
      BY <1>1, <1>5, AnsweredIs, WholeIsSeen
    <2>2. Answers' = [Answers EXCEPT ![r] = Answers[r]]
      BY <1>1, <1>3, <1>5, <2>1, AnswersMove
    <2>3. Answers' = Answers
      BY <1>3, <2>2
    <2> QED
      BY <1>1, <2>3 DEF Cell!expert
  <1>6. CASE Refused(r)
    <2>1. NotReading.pc = "idle" /\ NotReading.loaded = {}
      BY DEF NotReading
    <2> QED
      BY <1>2, <1>4, <1>6, <2>1 DEF Refused
  <1>7. CASE Read(r) /\ ~Refused(r)
    <2> DEFINE n == [NotReading EXCEPT !.pc = "looking", !.seen = pointer]
    <2>1. readers' = [readers EXCEPT ![r] = n] /\ readers[r].pc \in {"idle", "done"}
      BY <1>7 DEF Read
    <2>2. n.pc = "looking" /\ n.loaded = {}
      BY DEF NotReading
    <2> HIDE DEF n
    <2>3. Answers' = [Answers EXCEPT ![r] = Cell!Asked]
      <3>1. Answered(n) = Cell!Asked
        BY <2>2, AnsweredIs
      <3> QED
        BY <1>1, <2>1, <3>1, AnswersMove
    <2>4. Answers[r] # Cell!Asked
      BY <1>3, <2>1, AnsweredIs
    <2>5. Cell!Ask(r)
      BY <1>1, <2>3, <2>4 DEF Cell!Ask
    <2> QED
      BY <1>2, <2>1, <2>2, <2>5 DEF Cell!Next
  <1>8. CASE OpenPointer(r) /\ ~Refused(r)
    <2> DEFINE n == [readers[r] EXCEPT !.pc = "holding", !.seen = pointer]
    <2>1. readers' = [readers EXCEPT ![r] = n] /\ readers[r].pc = "looking"
      BY <1>1, <1>8 DEF OpenPointer, TypeOK
    <2>2. n.pc = "holding" /\ n.loaded = {} /\ n.seen = pointer
      BY <1>1, <2>1 DEF ReaderStates
    <2> HIDE DEF n
    <2>3. Answered(n) = Cell!Answer(pointer)
      <3>1. pointer \in Pointers /\ {} \subseteq {pointer.gen}
        BY <1>1 DEF TypeOK
      <3> QED
        BY <2>2, <3>1, AnsweredIs, WholeIsSeen
    <2>4. Answers' = [Answers EXCEPT ![r] = Cell!Answer(pointer)]
      BY <1>1, <2>1, <2>3, AnswersMove
    <2>5. Answers[r] = Cell!Asked
      BY <1>3, <2>1, AnsweredIs
    <2>6. pointer # Cell!Never
      BY <1>1, <2>1 DEF Named, Cell!Never, NoPointer
    <2>7. Cell!Take(r)
      BY <1>1, <2>4, <2>5, <2>6 DEF Cell!Take
    <2> QED
      BY <1>2, <2>1, <2>2, <2>7 DEF Cell!Next
  <1>9. CASE ClosePointer(r) /\ ~Refused(r)
    <2> DEFINE n == [readers[r] EXCEPT !.pc = "loading", !.next = 1]
    <2>1. readers' = [readers EXCEPT ![r] = n] /\ readers[r].pc = "holding"
      BY <1>1, <1>9 DEF ClosePointer, TypeOK
    <2>2. n.pc = "loading" /\ n.loaded = readers[r].loaded /\ n.seen = readers[r].seen
      BY <1>1 DEF ReaderStates
    <2> HIDE DEF n
    <2> QED
      BY <1>1, <1>2, <1>5, <2>1, <2>2
  <1>10. CASE LoadShard(r)
    <2> DEFINE p == readers[r]
               gen == p.seen.gen
               file == files[Shard(gen, p.next)]
               more == [p EXCEPT !.loaded = @ \cup {gen}]
    <2>1. p.pc = "loading"
      BY <1>10 DEF LoadShard
    <2>2. /\ more.pc = "loading" /\ more.seen = p.seen /\ more.loaded = p.loaded \cup {gen}
          /\ DOMAIN more = DOMAIN p
      BY <1>1, <2>1 DEF ReaderStates
    <2>3. CASE file # "whole"
      <3> DEFINE n == [NotReading EXCEPT !.lost = file # "rotten"]
      <3>1. readers' = [readers EXCEPT ![r] = n]
        BY <1>10, <2>3 DEF LoadShard
      <3>2. n.pc = "idle" /\ n.loaded = {}
        BY DEF NotReading
      <3> HIDE DEF n
      <3> QED
        BY <1>2, <1>4, <3>1, <3>2
    <2>4. ASSUME NEW n, readers' = [readers EXCEPT ![r] = n], n.pc \in {"loading", "done"},
                 n.seen = p.seen, n.loaded = p.loaded \cup {gen}
          PROVE  Steady' /\ [Cell!Next]_(Cell!expert)
      <3>1. n.loaded \subseteq {n.seen.gen}
        BY <1>1, <2>4
      <3> QED
        BY <1>2, <1>5, <2>1, <2>4, <3>1
    <2>5. CASE file = "whole" /\ p.next = Matrices
      <3> DEFINE n == [more EXCEPT !.pc = "done"]
      <3>1. readers' = [readers EXCEPT ![r] = n]
        BY <1>10, <2>5 DEF LoadShard
      <3>2. n.pc = "done" /\ n.seen = p.seen /\ n.loaded = p.loaded \cup {gen}
        BY <1>1 DEF ReaderStates
      <3> HIDE DEF n
      <3> QED
        BY <2>4, <3>1, <3>2
    <2>6. CASE file = "whole" /\ p.next # Matrices
      <3> DEFINE n == [more EXCEPT !.next = @ + 1]
      <3>1. readers' = [readers EXCEPT ![r] = n]
        BY <1>10, <2>6 DEF LoadShard
      <3>2. n.pc = "loading" /\ n.seen = p.seen /\ n.loaded = p.loaded \cup {gen}
        BY <1>1, <2>1 DEF ReaderStates
      <3> HIDE DEF n
      <3> QED
        BY <2>4, <3>1, <3>2
    <2> QED
      BY <2>3, <2>5, <2>6
  <1> QED
    BY <1>6, <1>7, <1>8, <1>9, <1>10

LEMMA WritersStutter ==
  ASSUME UNCHANGED <<pointer, readers>>, history'.committed = history.committed
  PROVE  [Cell!Next]_(Cell!expert)
  <1>1. Answers' = Answers
    BY DEF Answers
  <1> QED
    BY <1>1 DEF Cell!expert

LEMMA StepImplements ==
  ASSUME Committing, Steady, Apart, [Next]_vars
  PROVE  Steady' /\ [Cell!Next]_(Cell!expert)
  <1>1. CASE UNCHANGED vars
    BY <1>1, WritersStutter DEF vars, Steady, Single, Prepared, Follows
  <1>2. ASSUME NEW w \in Writers,
               \/ \E g \in Generations, step \in 0 .. MaxStep, count \in Counts :
                    Write(w, g, step, count)
               \/ WriteFile(w) \/ Check(w) \/ Return(w) \/ Interrupt(w) \/ CleanUp(w) \/ Crash(w)
        PROVE  Steady' /\ [Cell!Next]_(Cell!expert)
    <2>1. UNCHANGED <<pointer, readers>>
      BY <1>2 DEF Write, WriteFile, Check, Return, Interrupt, CleanUp, Crash
    <2>2. history'.committed = history.committed
      BY <1>2 DEF Write, WriteFile, Check, Return, Interrupt, CleanUp, Crash, Happens, Committing,
                  TypeOK
    <2>3. Steady'
      BY <1>2, WritesSteady
    <2> QED
      BY <2>1, <2>2, <2>3, WritersStutter
  <1>3. ASSUME NEW path \in Paths, Rot(path)
        PROVE  Steady' /\ [Cell!Next]_(Cell!expert)
    <2>1. pointer' = pointer /\ writers' = writers /\ readers' = readers
          /\ history'.committed = history.committed
      BY <1>3 DEF Rot, Happens, Committing, TypeOK
    <2> QED
      BY <2>1, WritersStutter DEF Steady, Single, Prepared, Follows
  <1>4. CASE Next
    BY <1>2, <1>3, <1>4, ReplaceImplements, ReadsImplement DEF Next
  <1> QED
    BY <1>1, <1>4

(* The bank implements one cell per expert (ExpertCell): commits and reads *)
(* happen at one instant each, and what a read returns is all of one       *)
(* committed generation, while no two writers stand between the check and  *)
(* the replacement (expert_bank.py:4-6, and the bank is for one writer).   *)
(* The argument: the replacement finds the pointer its writer read, and a  *)
(* reader opens the pointer once and loads no other generation.            *)
THEOREM BankIsACell ==
  ASSUME Guarded, Apart
  PROVE  Spec => CommitsAreAtomic
  <1>1. Init => Committing /\ Steady /\ Cell!Init
    <2>1. Init => Answers = [r \in Readers |-> Cell!Refused]
      <3>1. NotReading.pc = "idle"
        BY DEF NotReading
      <3> QED
        BY <3>1, AnsweredIs DEF Init, Answers
    <2>2. Init => pointer = Cell!Never /\ history.committed = {}
      BY DEF Init, NoPointer, Cell!Never
    <2> QED
      BY <2>1, <2>2, Initially, InitiallySteady DEF Cell!Init
  <1>2. Committing /\ Steady /\ [Next]_vars => (Committing /\ Steady)' /\ [Cell!Next]_(Cell!expert)
    BY StepKeeps, StepImplements
  <1> QED
    BY <1>1, <1>2, PTL DEF Spec, CommitsAreAtomic, Cell!Spec
=============================================================================
