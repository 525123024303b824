------------------------ MODULE DeferredContextProofs ------------------------
(***************************************************************************)
(* Theorems about DeferredContext, for every set of objects, every bound   *)
(* and every way a call of Vulkan may fail.                                *)
(*                                                                         *)
(* Three invariants, each resting on the one before:                       *)
(*   IInv      the types, who holds each object, and what the leak count   *)
(*             counts;                                                     *)
(*   Named     what recorded and submitted commands name is held;          *)
(*   Written   the descriptor sets they use are theirs.                    *)
(*                                                                         *)
(* A call is a composition of the steps of the module (a flush, a set      *)
(* acquired, a command recorded, a submission of its own, a release), so   *)
(* each of these has a lemma for each invariant, and a call only composes  *)
(* them.                                                                   *)
(*                                                                         *)
(* With them a context implements EagerContext: Settle is the memory when  *)
(* all that was accepted has run, each of the steps has a lemma about what *)
(* becomes of it, and each call is a call of EagerContext or invisible     *)
(* (Maps).                                                                 *)
(***************************************************************************)
EXTENDS DeferredContext, Integers, FiniteSetTheorems, WellFoundedInduction, TLAPS

-----------------------------------------------------------------------------
(* Induction over the natural numbers in the form of a set.                *)

LEMMA NatOrderWellFounded ==
  IsWellFoundedOn({ss \in Nat \X Nat : ss[1] < ss[2]}, Nat)
  BY NatLessThanWellFounded DEF OpToRel

LEMMA SetInduction ==
  ASSUME NEW T, T \subseteq Nat, 0 \in T, \A n \in T : n + 1 \in T
  PROVE  T = Nat
  <1> SUFFICES ASSUME Nat \ T # {} PROVE FALSE
    OBVIOUS
  <1> DEFINE R == {ss \in Nat \X Nat : ss[1] < ss[2]}
  <1>1. IsWellFoundedOn(R, Nat)
    BY NatOrderWellFounded
  <1> HIDE DEF R
  <1>2. PICK x \in Nat \ T : \A y \in Nat \ T : ~(<<y, x>> \in R)
    BY <1>1, WFMin
  <1>3. \A y \in Nat \ T : ~(y < x)
    BY <1>2 DEF R
  <1>4. x # 0 /\ x - 1 \in Nat /\ x - 1 < x /\ (x - 1) + 1 = x
    OBVIOUS
  <1>5. x - 1 \in T
    BY <1>3, <1>4
  <1> QED
    BY <1>4, <1>5

-----------------------------------------------------------------------------
(* Commands and what executing them leaves.                                *)

Cells == [Pairs \cup Stages -> Contents]
Sets == [DescriptorSets -> Pairs \cup {NoPair}]

LEMMA CommandKinds ==
  ASSUME NEW cmd \in Commands
  PROVE  \/ IsDispatch(cmd) /\ cmd \in [set: DescriptorSets, to: Pairs, value: Pushed]
         \/ ~IsDispatch(cmd) /\ cmd \in [from: Stages, to: Pairs]
  <1>1. CASE cmd \in [set: DescriptorSets, to: Pairs, value: Pushed]
    BY <1>1 DEF IsDispatch
  <1>2. CASE cmd \in [from: Stages, to: Pairs]
    BY <1>2 DEF IsDispatch
  <1> QED
    BY <1>1, <1>2 DEF Commands

LEMMA ExecutedType ==
  ASSUME NEW c, c.bindings \in Sets, NEW mem \in Cells, NEW cmd \in Commands
  PROVE  Executed(c, mem, cmd) \in Cells
  <1>1. CASE IsDispatch(cmd)
    <2>1. cmd.set \in DescriptorSets /\ cmd.value \in Contents
      BY <1>1, CommandKinds DEF Contents
    <2> QED
      BY <1>1, <2>1 DEF Executed, Cells, Sets
  <1>2. CASE ~IsDispatch(cmd)
    <2>1. cmd.from \in Stages /\ cmd.to \in Pairs
      BY <1>2, CommandKinds
    <2> QED
      BY <1>2, <2>1 DEF Executed, Cells
  <1> QED
    BY <1>1, <1>2

(* The memory after each of n commands. *)
Runs(g, c, mem, cmds, n) ==
  g = [i \in 0 .. n |-> IF i = 0 THEN mem ELSE Executed(c, g[i-1], cmds[i])]

LEMMA RunsExist ==
  ASSUME NEW c, NEW mem, NEW cmds
  PROVE  \A n \in Nat : \E g : Runs(g, c, mem, cmds, n)
  <1> DEFINE T == {n \in Nat : \E g : Runs(g, c, mem, cmds, n)}
  <1>1. 0 \in T
    <2>1. Runs([i \in 0 .. 0 |-> mem], c, mem, cmds, 0)
      BY DEF Runs
    <2> QED
      BY <2>1
  <1>2. ASSUME NEW n \in T PROVE n + 1 \in T
    <2>1. PICK g : Runs(g, c, mem, cmds, n)
      OBVIOUS
    <2> DEFINE h == [i \in 0 .. n + 1 |->
                       IF i = n + 1 THEN Executed(c, g[n], cmds[n + 1]) ELSE g[i]]
    <2>2. n \in Nat
      OBVIOUS
    <2>3. ASSUME NEW i \in 0 .. n + 1
          PROVE  h[i] = IF i = 0 THEN mem ELSE Executed(c, h[i-1], cmds[i])
      <3>1. CASE i = n + 1
        BY <3>1, <2>2
      <3>2. CASE i # n + 1
        <4>1. i \in 0 .. n /\ h[i] = g[i] /\ (i # 0 => i - 1 \in 0 .. n /\ h[i-1] = g[i-1])
          BY <3>2, <2>2
        <4>2. g[i] = IF i = 0 THEN mem ELSE Executed(c, g[i-1], cmds[i])
          BY <2>1, <4>1 DEF Runs
        <4> HIDE DEF h
        <4> QED
          BY <4>1, <4>2
      <3> QED
        BY <3>1, <3>2
    <2>4. h = [i \in 0 .. n + 1 |-> h[i]]
      OBVIOUS
    <2> HIDE DEF h
    <2>5. Runs(h, c, mem, cmds, n + 1)
      BY <2>3, <2>4 DEF Runs
    <2> QED
      BY <2>2, <2>5
  <1> HIDE DEF T
  <1>3. T = Nat
    <2>1. T \subseteq Nat
      BY DEF T
    <2> QED
      BY <1>1, <1>2, <2>1, SetInduction
  <1> QED
    BY <1>3 DEF T

LEMMA RunAllRuns ==
  ASSUME NEW c, NEW mem, NEW cmds, Len(cmds) \in Nat
  PROVE  \E g : Runs(g, c, mem, cmds, Len(cmds)) /\ RunAll(c, mem, cmds) = g[Len(cmds)]
  <1> DEFINE after == CHOOSE g : Runs(g, c, mem, cmds, Len(cmds))
  <1>1. Runs(after, c, mem, cmds, Len(cmds))
    BY RunsExist
  <1>2. RunAll(c, mem, cmds) = after[Len(cmds)]
    BY DEF RunAll, Runs
  <1> QED
    BY <1>1, <1>2

LEMMA RunAllType ==
  ASSUME NEW c, c.bindings \in Sets, NEW mem \in Cells, NEW cmds \in Seq(Commands)
  PROVE  RunAll(c, mem, cmds) \in Cells
  <1>1. Len(cmds) \in Nat /\ \A i \in 1 .. Len(cmds) : cmds[i] \in Commands
    OBVIOUS
  <1>2. PICK g : Runs(g, c, mem, cmds, Len(cmds)) /\ RunAll(c, mem, cmds) = g[Len(cmds)]
    BY <1>1, RunAllRuns
  <1> DEFINE T == {n \in Nat : n <= Len(cmds) => g[n] \in Cells}
  <1>3. 0 \in T
    BY <1>1, <1>2 DEF Runs
  <1>4. ASSUME NEW n \in T PROVE n + 1 \in T
    <2>1. CASE n + 1 <= Len(cmds)
      <3>1. n \in Nat /\ n <= Len(cmds) /\ n + 1 \in 0 .. Len(cmds) /\ n + 1 # 0
            /\ (n + 1) - 1 = n /\ n + 1 \in 1 .. Len(cmds) /\ n + 1 \in Nat
        BY <2>1, <1>1
      <3>2. g[n] \in Cells
        BY <3>1
      <3>3. g[n + 1] = Executed(c, g[n], cmds[n + 1])
        BY <3>1, <1>2 DEF Runs
      <3>4. g[n + 1] \in Cells
        BY <3>1, <3>2, <3>3, <1>1, ExecutedType
      <3> QED
        BY <3>1, <3>4
    <2>2. CASE ~(n + 1 <= Len(cmds))
      BY <2>2
    <2> QED
      BY <2>1, <2>2
  <1> HIDE DEF T
  <1>5. T = Nat
    <2>1. T \subseteq Nat
      BY DEF T
    <2> QED
      BY <1>3, <1>4, <2>1, SetInduction
  <1> QED
    BY <1>1, <1>2, <1>5 DEF T

-----------------------------------------------------------------------------
(* Weights.                                                                *)

LEMMA WeightFacts ==
  ASSUME NEW S \in SUBSET Objects
  PROVE  /\ Weight(S) \in Nat
         /\ Weight({}) = 0
         /\ Weight(S) = 0 => S = {}
  <1>1. IsFiniteSet(S \ Kernels) /\ IsFiniteSet(S \cap Kernels)
    BY ObjectAssumption, FS_Subset
  <1>2. Cardinality(S \ Kernels) \in Nat /\ Cardinality(S \cap Kernels) \in Nat
    BY <1>1, FS_CardinalityType
  <1>3. Cardinality(S \ Kernels) = 0 => S \ Kernels = {}
    BY <1>1, FS_EmptySet
  <1>4. Cardinality(S \cap Kernels) = 0 => S \cap Kernels = {}
    BY <1>1, FS_EmptySet
  <1>5. Cardinality({} \ Kernels) = 0 /\ Cardinality({} \cap Kernels) = 0
    <2>1. {} \ Kernels = {} /\ {} \cap Kernels = {}
      OBVIOUS
    <2> QED
      BY <2>1, FS_EmptySet
  <1>6. Weight({}) = 0
    BY <1>5 DEF Weight
  <1>7. Weight(S) \in Nat /\ (Weight(S) = 0 => Cardinality(S \ Kernels) = 0
                                               /\ Cardinality(S \cap Kernels) = 0)
    BY <1>2 DEF Weight
  <1> QED
    BY <1>3, <1>4, <1>6, <1>7

LEMMA CardinalityAdds ==
  ASSUME NEW X, NEW Y, IsFiniteSet(X), IsFiniteSet(Y), X \cap Y = {}
  PROVE  Cardinality(X \cup Y) = Cardinality(X) + Cardinality(Y)
  <1>1. Cardinality(X \cup Y) = Cardinality(X) + Cardinality(Y) - Cardinality(X \cap Y)
    BY FS_Union
  <1>2. Cardinality(X \cap Y) = 0
    BY FS_EmptySet
  <1>3. Cardinality(X) \in Nat /\ Cardinality(Y) \in Nat
    BY FS_CardinalityType
  <1> QED
    BY <1>1, <1>2, <1>3

LEMMA WeightAdds ==
  ASSUME NEW S \in SUBSET Objects, NEW U \in SUBSET Objects, S \cap U = {}
  PROVE  Weight(S \cup U) = Weight(S) + Weight(U)
  <1>1. /\ IsFiniteSet(S \ Kernels) /\ IsFiniteSet(S \cap Kernels)
        /\ IsFiniteSet(U \ Kernels) /\ IsFiniteSet(U \cap Kernels)
    BY ObjectAssumption, FS_Subset
  <1>2. /\ (S \cup U) \ Kernels = (S \ Kernels) \cup (U \ Kernels)
        /\ (S \cup U) \cap Kernels = (S \cap Kernels) \cup (U \cap Kernels)
        /\ (S \ Kernels) \cap (U \ Kernels) = {}
        /\ (S \cap Kernels) \cap (U \cap Kernels) = {}
    OBVIOUS
  <1>3. Cardinality((S \cup U) \ Kernels)
          = Cardinality(S \ Kernels) + Cardinality(U \ Kernels)
    BY <1>1, <1>2, CardinalityAdds
  <1>4. Cardinality((S \cup U) \cap Kernels)
          = Cardinality(S \cap Kernels) + Cardinality(U \cap Kernels)
    BY <1>1, <1>2, CardinalityAdds
  <1>5. /\ Cardinality(S \ Kernels) \in Nat /\ Cardinality(S \cap Kernels) \in Nat
        /\ Cardinality(U \ Kernels) \in Nat /\ Cardinality(U \cap Kernels) \in Nat
    BY <1>1, FS_CardinalityType
  <1> QED
    BY <1>3, <1>4, <1>5 DEF Weight

-----------------------------------------------------------------------------
(* The invariant of a context record c in the middle of a call: the        *)
(* objects of T have left their holder and are not released yet, and n     *)
(* submissions have left the open batch or the one in flight.              *)

Owned(c) == {c.own[h] : h \in Handles} \ {NoPair}
Built(c) == {k \in Kernels : c.kern[k].built}

Holding(c, T) ==
  Owned(c) \cup Built(c) \cup c.pool \cup c.rec.retired \cup c.flight.retired \cup T

Apart(c, T) ==
  /\ \A g, h \in Handles : c.own[g] = c.own[h] /\ g # h => c.own[g] = NoPair
  /\ Owned(c) \cap Built(c) = {}
  /\ (Owned(c) \cup Built(c)) \cap c.pool = {}
  /\ (Owned(c) \cup Built(c) \cup c.pool) \cap c.rec.retired = {}
  /\ (Owned(c) \cup Built(c) \cup c.pool \cup c.rec.retired) \cap c.flight.retired = {}
  /\ (Owned(c) \cup Built(c) \cup c.pool \cup c.rec.retired \cup c.flight.retired) \cap T = {}
  /\ Holding(c, T) \subseteq c.alive

One(b) == IF b THEN 1 ELSE 0

Stray(c, n) == c.submissions - n - One(c.open) - One(c.flying)

Counted(c, T, n) ==
  /\ Stray(c, n) >= 0
  /\ c.leaked = Weight(c.alive \ Holding(c, T)) + c.scratch + 2 * Stray(c, n)

Emptied(c) ==
  /\ ~c.open => c.rec = NoBatch
  /\ ~c.flying => c.flight = NoBatch

Sound(c, T, n) == c \in Context /\ Apart(c, T) /\ Counted(c, T, n) /\ Emptied(c)

(* Objects of S are pooled, destroyed or leaked, and the last are counted. *)
LEMMA Disposed ==
  ASSUME NEW c, NEW S, NEW T, NEW n \in Nat, Sound(c, S \cup T, n), S \cap T = {},
         NEW kept \in SUBSET (S \ Kernels), NEW left \in SUBSET (S \ kept),
         NEW d, d = [c EXCEPT !.pool = c.pool \cup kept,
                              !.alive = c.alive \ (S \ (kept \cup left)),
                              !.leaked = c.leaked + Weight(left)]
  PROVE  Sound(d, T, n)
  <1>1. c \in Context /\ Apart(c, S \cup T) /\ Counted(c, S \cup T, n) /\ Emptied(c)
    BY DEF Sound
  <1>2. c.alive \subseteq Objects /\ c.pool \subseteq Pairs \cup Stages /\ c.leaked \in Nat
    BY <1>1 DEF Context
  <1>3. S \cup T \subseteq c.alive
    BY <1>1 DEF Apart, Holding
  <1>4. /\ d.pool = c.pool \cup kept
        /\ d.alive = c.alive \ (S \ (kept \cup left))
        /\ d.leaked = c.leaked + Weight(left)
        /\ d.own = c.own /\ d.kern = c.kern /\ d.rec = c.rec /\ d.flight = c.flight
        /\ d.open = c.open /\ d.flying = c.flying /\ d.submissions = c.submissions
        /\ d.scratch = c.scratch
    BY <1>1 DEF Context
  <1>5. left \in SUBSET Objects /\ kept \subseteq Pairs \cup Stages
    BY <1>2, <1>3 DEF Objects
  <1>6. Weight(left) \in Nat
    BY <1>5, WeightFacts
  <1>7. d \in Context
    <2> DEFINE al == c.alive \ (S \ (kept \cup left))
               po == c.pool \cup kept
               le == c.leaked + Weight(left)
    <2>1. al \in SUBSET Objects /\ po \in SUBSET (Pairs \cup Stages) /\ le \in Nat
      BY <1>2, <1>5, <1>6
    <2>2. d = [c EXCEPT !.pool = po, !.alive = al, !.leaked = le]
      OBVIOUS
    <2> HIDE DEF al, po, le
    <2> QED
      BY <1>1, <2>1, <2>2, ZenonT(60) DEF Context
  <1>8. Owned(d) = Owned(c) /\ Built(d) = Built(c)
    BY <1>4 DEF Owned, Built
  <1>9. Apart(d, T)
    BY <1>1, <1>3, <1>4, <1>8 DEF Apart, Holding
  <1>10. Counted(d, T, n)
    <2>1. /\ d.alive \ Holding(d, T) = (c.alive \ Holding(c, S \cup T)) \cup left
          /\ (c.alive \ Holding(c, S \cup T)) \cap left = {}
      BY <1>1, <1>3, <1>4, <1>8 DEF Apart, Holding
    <2>2. c.alive \ Holding(c, S \cup T) \in SUBSET Objects
      BY <1>2
    <2>3. Weight(d.alive \ Holding(d, T))
            = Weight(c.alive \ Holding(c, S \cup T)) + Weight(left)
      BY <1>5, <2>1, <2>2, WeightAdds
    <2>4. Weight(c.alive \ Holding(c, S \cup T)) \in Nat
      BY <2>2, WeightFacts
    <2>5. c.scratch \in Nat /\ c.submissions \in Nat /\ Stray(d, n) = Stray(c, n)
      BY <1>1, <1>4 DEF Context, Stray
    <2>6. Stray(c, n) \in Int
      BY <2>5 DEF Stray, One
    <2> QED
      BY <1>1, <1>4, <1>6, <2>3, <2>4, <2>5, <2>6 DEF Counted
  <1>11. Emptied(d)
    BY <1>1, <1>4 DEF Emptied
  <1> QED
    BY <1>7, <1>9, <1>10, <1>11 DEF Sound

(* What seeing a batch through leaves as it was, and what disposing of     *)
(* objects does.                                                           *)
Passed(c, d) ==
  /\ d.open = c.open /\ d.rec = c.rec
  /\ d.own = c.own /\ d.next = c.next /\ d.kern = c.kern /\ d.bindings = c.bindings
  /\ d.closed = c.closed /\ d.faults = c.faults /\ d.wrote = c.wrote
  /\ c.poisoned => d.poisoned
  /\ c.lost => d.lost
  /\ ~d.poisoned => d.adrift = c.adrift

Carried(c, d) == Passed(c, d) /\ d.flying = c.flying /\ d.flight = c.flight

LEMMA RecycledSound ==
  ASSUME NEW c, NEW S, NEW T, NEW n \in Nat, Sound(c, S \cup T, n), S \cap T = {}
  PROVE  Sound(Recycled(c, S), T, n) /\ Carried(c, Recycled(c, S))
  <1> DEFINE kept == IF Pooling THEN S \ Kernels ELSE {}
             d == [c EXCEPT !.pool = c.pool \cup kept, !.alive = c.alive \ (S \ kept)]
  <1>1. c \in Context
    BY DEF Sound
  <1>2. Recycled(c, S) = d
    BY DEF Recycled
  <1>3. kept \in SUBSET (S \ Kernels) /\ {} \in SUBSET (S \ kept)
    OBVIOUS
  <1>4. c.leaked + Weight({}) = c.leaked
    BY <1>1, WeightFacts DEF Context
  <1>5. S \ (kept \cup {}) = S \ kept
    OBVIOUS
  <1>6. d = [c EXCEPT !.pool = c.pool \cup kept,
                      !.alive = c.alive \ (S \ (kept \cup {})),
                      !.leaked = c.leaked + Weight({})]
    BY <1>1, <1>4, <1>5 DEF Context
  <1>7. Carried(c, d)
    BY <1>1 DEF Carried, Passed, Context
  <1> HIDE DEF d, kept
  <1>8. Sound(d, T, n)
    BY <1>3, <1>6, Disposed
  <1> QED
    BY <1>2, <1>7, <1>8

LEMMA ScrappedSound ==
  ASSUME NEW c, NEW S, NEW T, NEW n \in Nat, Sound(c, S \cup T, n), S \cap T = {}
  PROVE  Sound(Scrapped(c, S), T, n) /\ Carried(c, Scrapped(c, S))
  <1> DEFINE kept == IF Pooling THEN (S \ Stages) \ Kernels ELSE {}
             d == [c EXCEPT !.pool = c.pool \cup kept, !.alive = c.alive \ (S \ kept)]
  <1>1. c \in Context
    BY DEF Sound
  <1>2. Scrapped(c, S) = d
    <2>1. (c.alive \ ((S \ Stages) \ kept)) \ (S \cap Stages) = c.alive \ (S \ kept)
      OBVIOUS
    <2>2. Recycled(c, S \ Stages)
            = [c EXCEPT !.pool = c.pool \cup kept, !.alive = c.alive \ ((S \ Stages) \ kept)]
      BY DEF Recycled
    <2> HIDE DEF kept
    <2> QED
      BY <1>1, <2>1, <2>2 DEF Scrapped, Context
  <1>3. kept \in SUBSET (S \ Kernels) /\ {} \in SUBSET (S \ kept)
    OBVIOUS
  <1>4. c.leaked + Weight({}) = c.leaked
    BY <1>1, WeightFacts DEF Context
  <1>5. S \ (kept \cup {}) = S \ kept
    OBVIOUS
  <1>6. d = [c EXCEPT !.pool = c.pool \cup kept,
                      !.alive = c.alive \ (S \ (kept \cup {})),
                      !.leaked = c.leaked + Weight({})]
    BY <1>1, <1>4, <1>5 DEF Context
  <1>7. Carried(c, d)
    BY <1>1 DEF Carried, Passed, Context
  <1> HIDE DEF d, kept
  <1>8. Sound(d, T, n)
    BY <1>3, <1>6, Disposed
  <1> QED
    BY <1>2, <1>7, <1>8

LEMMA LeakedSound ==
  ASSUME NEW c, NEW S, NEW T, NEW n \in Nat, Sound(c, S \cup T, n), S \cap T = {}
  PROVE  Sound(Leaked(c, S), T, n) /\ Carried(c, Leaked(c, S))
  <1> DEFINE d == [c EXCEPT !.leaked = c.leaked + Weight(S)]
  <1>1. c \in Context
    BY DEF Sound
  <1>2. Leaked(c, S) = d
    BY DEF Leaked
  <1>3. {} \in SUBSET (S \ Kernels) /\ S \in SUBSET (S \ {})
    OBVIOUS
  <1>4. c.alive \ (S \ ({} \cup S)) = c.alive /\ c.pool \cup {} = c.pool
    OBVIOUS
  <1>5. d = [c EXCEPT !.pool = c.pool \cup {},
                      !.alive = c.alive \ (S \ ({} \cup S)),
                      !.leaked = c.leaked + Weight(S)]
    BY <1>1, <1>4 DEF Context
  <1>6. Carried(c, d)
    BY <1>1 DEF Carried, Passed, Context
  <1> HIDE DEF d
  <1>7. Sound(d, T, n)
    BY <1>3, <1>5, Disposed
  <1> QED
    BY <1>2, <1>6, <1>7

LEMMA ReleasedOrLeakedSound ==
  ASSUME NEW c, NEW S, NEW T, NEW n \in Nat, Sound(c, S \cup T, n), S \cap T = {}
  PROVE  Sound(ReleasedOrLeaked(c, S), T, n) /\ Carried(c, ReleasedOrLeaked(c, S))
  BY ScrappedSound, LeakedSound DEF ReleasedOrLeaked

(* Changes that touch no object's holder. *)
LEMMA Untouched ==
  ASSUME NEW c, NEW T, NEW n, NEW m, Sound(c, T, n), NEW d \in Context,
         d.own = c.own, d.rec = c.rec, d.flight = c.flight, d.pool = c.pool,
         d.alive = c.alive, d.open = c.open, d.flying = c.flying,
         \A k \in Kernels : d.kern[k].built = c.kern[k].built,
         Stray(d, m) >= 0,
         d.leaked - d.scratch - 2 * Stray(d, m) = c.leaked - c.scratch - 2 * Stray(c, n),
         Stray(d, m) \in Int, Stray(c, n) \in Int
  PROVE  Sound(d, T, m)
  <1>1. Owned(d) = Owned(c) /\ Built(d) = Built(c)
    BY DEF Owned, Built
  <1>2. Holding(d, T) = Holding(c, T)
    BY <1>1 DEF Holding
  <1>3. Apart(d, T)
    BY <1>1, <1>2 DEF Apart, Sound
  <1>4. c.alive \in SUBSET Objects /\ c.leaked \in Nat /\ c.scratch \in Nat
        /\ d.leaked \in Nat /\ d.scratch \in Nat
    BY DEF Sound, Context
  <1>5. Weight(c.alive \ Holding(c, T)) \in Nat
    BY <1>4, WeightFacts
  <1>6. Counted(d, T, m)
    BY <1>2, <1>4, <1>5 DEF Counted, Sound
  <1>7. Emptied(d)
    BY DEF Emptied, Sound
  <1> QED
    BY <1>3, <1>6, <1>7 DEF Sound

LEMMA StrayType ==
  ASSUME NEW c \in Context, NEW n \in Nat
  PROVE  Stray(c, n) \in Int
  BY DEF Stray, One, Context

LEMMA SubmissionReleasedSound ==
  ASSUME NEW c, NEW T, NEW n \in Nat, Sound(c, T, n + 1)
  PROVE  Sound(SubmissionReleased(c), T, n) /\ Carried(c, SubmissionReleased(c))
  <1> DEFINE d == [c EXCEPT !.submissions = c.submissions - 1]
  <1>1. c \in Context /\ Stray(c, n + 1) >= 0
    BY DEF Sound, Counted
  <1>2. c.submissions \in Nat /\ One(c.open) \in Nat /\ One(c.flying) \in Nat
    BY <1>1 DEF Context, One
  <1>3. c.submissions - 1 \in Nat
    BY <1>1, <1>2 DEF Stray
  <1>4. d \in Context
    BY <1>1, <1>3 DEF Context
  <1>5. /\ d.own = c.own /\ d.rec = c.rec /\ d.flight = c.flight /\ d.pool = c.pool
        /\ d.alive = c.alive /\ d.open = c.open /\ d.flying = c.flying /\ d.kern = c.kern
        /\ d.leaked = c.leaked /\ d.scratch = c.scratch
        /\ d.submissions = c.submissions - 1
    BY <1>1 DEF Context
  <1>6. Carried(c, d)
    BY <1>1 DEF Carried, Passed, Context
  <1>7. Stray(d, n) = Stray(c, n + 1) /\ Stray(d, n) \in Int
    BY <1>2, <1>5 DEF Stray
  <1> HIDE DEF d
  <1>8. Sound(d, T, n)
    BY <1>1, <1>4, <1>5, <1>7, Untouched
  <1> QED
    BY <1>6, <1>8 DEF SubmissionReleased, d

LEMMA PoisonedSound ==
  ASSUME NEW c, NEW T, NEW n \in Nat, Sound(c, T, n), NEW lost \in BOOLEAN
  PROVE  /\ Sound(Poisoned(c, lost), T, n)
         /\ Carried(c, Poisoned(c, lost))
         /\ Poisoned(c, lost).poisoned
         /\ Poisoned(c, lost).lost = (c.lost \/ lost)
  <1> DEFINE l == c.lost \/ lost
             d == [c EXCEPT !.poisoned = TRUE, !.lost = l]
  <1>1. c \in Context /\ Stray(c, n) >= 0
    BY DEF Sound, Counted
  <1>2. d \in Context
    <2>1. l \in BOOLEAN
      OBVIOUS
    <2> HIDE DEF l
    <2> QED
      BY <1>1, <2>1 DEF Context
  <1>3. /\ d.own = c.own /\ d.rec = c.rec /\ d.flight = c.flight /\ d.pool = c.pool
        /\ d.alive = c.alive /\ d.open = c.open /\ d.flying = c.flying /\ d.kern = c.kern
        /\ d.leaked = c.leaked /\ d.scratch = c.scratch /\ d.submissions = c.submissions
        /\ d.poisoned = TRUE /\ d.lost = l
    BY <1>1 DEF Context
  <1>4. Carried(c, d)
    <2>1. /\ d.next = c.next /\ d.bindings = c.bindings /\ d.closed = c.closed
          /\ d.faults = c.faults /\ d.wrote = c.wrote
      BY <1>1 DEF Context
    <2> QED
      BY <1>3, <2>1 DEF Carried, Passed
  <1>5. Stray(d, n) = Stray(c, n) /\ Stray(d, n) \in Int
    BY <1>2, <1>3, StrayType DEF Stray
  <1>6. Poisoned(c, lost) = d
    BY DEF Poisoned
  <1>7. d.lost = (c.lost \/ lost)
    BY <1>3
  <1> HIDE DEF d, l
  <1>8. Sound(d, T, n)
    BY <1>1, <1>2, <1>3, <1>5, Untouched
  <1> QED
    BY <1>3, <1>4, <1>6, <1>7, <1>8

LEMMA UsesType ==
  ASSUME NEW cmds \in Seq(Commands)
  PROVE  Uses(cmds) \in SUBSET Objects
  <1> SUFFICES ASSUME NEW i \in DOMAIN cmds
               PROVE  (IF IsDispatch(cmds[i]) THEN {cmds[i].to, cmds[i].set[1]}
                       ELSE {cmds[i].from, cmds[i].to}) \subseteq Objects
    BY DEF Uses
  <1>1. cmds[i] \in Commands
    OBVIOUS
  <1>2. CASE IsDispatch(cmds[i])
    <2>1. cmds[i].to \in Pairs /\ cmds[i].set \in DescriptorSets
      BY <1>1, <1>2, CommandKinds
    <2>2. cmds[i].set[1] \in Kernels
      BY <2>1 DEF DescriptorSets
    <2> QED
      BY <1>2, <2>1, <2>2 DEF Objects
  <1>3. CASE ~IsDispatch(cmds[i])
    <2>1. cmds[i].to \in Pairs /\ cmds[i].from \in Stages
      BY <1>1, <1>3, CommandKinds
    <2> QED
      BY <1>3, <2>1 DEF Objects
  <1> QED
    BY <1>2, <1>3

(* A new memory, and a batch in flight that has executed or not. *)
LEMMA MemorySound ==
  ASSUME NEW c, NEW T, NEW n \in Nat, Sound(c, T, n), NEW m \in Cells, NEW r \in BOOLEAN
  PROVE  LET d == [c EXCEPT !.mem = m, !.ran = r]
         IN  Sound(d, T, n) /\ Carried(c, d) /\ d.poisoned = c.poisoned /\ d.lost = c.lost
  <1> DEFINE d == [c EXCEPT !.mem = m, !.ran = r]
  <1>1. c \in Context /\ Stray(c, n) >= 0
    BY DEF Sound, Counted
  <1>2. d \in Context
    BY <1>1 DEF Context, Cells
  <1>3. /\ d.own = c.own /\ d.rec = c.rec /\ d.flight = c.flight /\ d.pool = c.pool
        /\ d.alive = c.alive /\ d.open = c.open /\ d.flying = c.flying /\ d.kern = c.kern
        /\ d.leaked = c.leaked /\ d.scratch = c.scratch /\ d.submissions = c.submissions
    BY <1>1 DEF Context
  <1>4. Carried(c, d) /\ d.poisoned = c.poisoned /\ d.lost = c.lost
    BY <1>1 DEF Carried, Passed, Context
  <1>5. Stray(d, n) = Stray(c, n) /\ Stray(d, n) \in Int
    BY <1>2, <1>3, StrayType DEF Stray
  <1> HIDE DEF d
  <1>6. Sound(d, T, n)
    BY <1>1, <1>2, <1>3, <1>5, Untouched
  <1> QED
    BY <1>4, <1>6 DEF d

LEMMA ContextParts ==
  ASSUME NEW c \in Context
  PROVE  /\ c.rec \in Batches /\ c.flight \in Batches
         /\ c.mem \in Cells /\ c.bindings \in Sets
         /\ c.open \in BOOLEAN /\ c.flying \in BOOLEAN /\ c.ran \in BOOLEAN
         /\ c.poisoned \in BOOLEAN /\ c.lost \in BOOLEAN
         /\ c.alive \in SUBSET Objects /\ c.adrift \in SUBSET Objects
         /\ c.pool \in SUBSET (Pairs \cup Stages)
         /\ c.own \in [Handles -> Pairs \cup {NoPair}]
         /\ c.kern \in [Kernels -> KernelStates]
         /\ c.submissions \in Nat /\ c.leaked \in Nat /\ c.scratch \in Nat
         /\ c.faults \in 0 .. MaxFaults
  BY DEF Context, Cells, Sets

LEMMA BatchParts ==
  ASSUME NEW b \in Batches
  PROVE  /\ b.cmds \in Seq(Commands) /\ b.retired \in SUBSET Objects /\ b.bank \in {0, 1}
         /\ Uses(b.cmds) \in SUBSET Objects
  BY UsesType DEF Batches

LEMMA RanSound ==
  ASSUME NEW c, NEW T, NEW n \in Nat, Sound(c, T, n)
  PROVE  /\ Sound(Ran(c), T, n) /\ Carried(c, Ran(c))
         /\ Ran(c).poisoned = c.poisoned /\ Ran(c).lost = c.lost
  <1>1. c \in Context
    BY DEF Sound
  <1>2. CASE c.flying /\ ~c.ran
    <2> DEFINE m == RunAll(c, c.mem, c.flight.cmds)
               yes == TRUE
    <2>1. m \in Cells
      BY <1>1, ContextParts, BatchParts, RunAllType
    <2>2. Ran(c) = [c EXCEPT !.mem = m, !.ran = yes]
      BY <1>2 DEF Ran
    <2>3. yes \in BOOLEAN
      OBVIOUS
    <2> HIDE DEF m, yes
    <2> DEFINE d == [c EXCEPT !.mem = m, !.ran = yes]
    <2>4. Sound(d, T, n) /\ Carried(c, d) /\ d.poisoned = c.poisoned /\ d.lost = c.lost
      BY <2>1, <2>3, MemorySound
    <2> QED
      BY <2>2, <2>4
  <1>3. CASE ~(c.flying /\ ~c.ran)
    BY <1>3 DEF Ran, Carried, Passed
  <1> QED
    BY <1>2, <1>3

WaitResults == {"ok", "idle", "lost", "unknown"}

LEMMA FinishedSound ==
  ASSUME NEW c, NEW b \in Batches, NEW T, NEW n \in Nat,
         Sound(c, b.retired \cup T, n + 1), b.retired \cap T = {},
         NEW wait \in WaitResults
  PROVE  LET d == Finished(c, b, wait)
         IN  /\ Sound(d, T, n) /\ Carried(c, d)
             /\ wait = "lost" => d.lost /\ d.poisoned
             /\ wait = "unknown" => d.poisoned
  <1>0. n + 1 \in Nat
    OBVIOUS
  <1>1. CASE wait = "ok"
    <2>1. Sound(Recycled(c, b.retired), T, n + 1) /\ Carried(c, Recycled(c, b.retired))
      BY <1>0, RecycledSound
    <2>2. Finished(c, b, wait) = SubmissionReleased(Recycled(c, b.retired))
      BY <1>1 DEF Finished
    <2>3. /\ Sound(Finished(c, b, wait), T, n)
          /\ Carried(Recycled(c, b.retired), Finished(c, b, wait))
      BY <2>1, <2>2, SubmissionReleasedSound
    <2>4. Carried(c, Finished(c, b, wait))
      BY <2>1, <2>3 DEF Carried, Passed
    <2> QED
      BY <1>1, <2>3, <2>4
  <1>2. CASE wait = "idle"
    <2> DEFINE r == ReleasedOrLeaked(c, b.retired)
    <2>1. Sound(r, T, n + 1) /\ Carried(c, r)
      BY <1>0, ReleasedOrLeakedSound
    <2>2. Finished(c, b, wait) = SubmissionReleased(r)
      BY <1>2 DEF Finished
    <2> HIDE DEF r
    <2>3. Sound(Finished(c, b, wait), T, n) /\ Carried(r, Finished(c, b, wait))
      BY <2>1, <2>2, SubmissionReleasedSound
    <2>4. Carried(c, Finished(c, b, wait))
      BY <2>1, <2>3 DEF Carried, Passed
    <2> QED
      BY <1>2, <2>3, <2>4
  <1>3. CASE wait = "lost"
    <2> DEFINE p == Poisoned(c, TRUE)
               r == ReleasedOrLeaked(p, b.retired)
    <2>1. Sound(p, b.retired \cup T, n + 1) /\ Carried(c, p) /\ p.poisoned /\ p.lost
      BY <1>0, PoisonedSound
    <2> HIDE DEF p
    <2>2. Sound(r, T, n + 1) /\ Carried(p, r)
      BY <1>0, <2>1, ReleasedOrLeakedSound
    <2>3. Finished(c, b, wait) = SubmissionReleased(r)
      BY <1>3 DEF Finished, p
    <2> HIDE DEF r
    <2>4. Sound(Finished(c, b, wait), T, n) /\ Carried(r, Finished(c, b, wait))
      BY <2>2, <2>3, SubmissionReleasedSound
    <2>5. /\ Carried(c, Finished(c, b, wait))
          /\ Finished(c, b, wait).poisoned /\ Finished(c, b, wait).lost
      BY <2>1, <2>2, <2>4 DEF Carried, Passed
    <2> QED
      BY <1>3, <2>4, <2>5
  <1>4. CASE wait = "unknown"
    <2> DEFINE a == c.adrift \cup Uses(b.cmds)
               l == c.leaked + 2
               e == [c EXCEPT !.leaked = l, !.adrift = a]
               p == Poisoned(e, FALSE)
    <2>1. c \in Context /\ Stray(c, n + 1) >= 0
      BY DEF Sound, Counted
    <2>2. a \in SUBSET Objects /\ l \in Nat /\ l = c.leaked + 2
      BY <2>1, ContextParts, BatchParts
    <2> HIDE DEF a, l
    <2>3. e \in Context
      BY <2>1, <2>2 DEF Context
    <2>4. /\ e.own = c.own /\ e.rec = c.rec /\ e.flight = c.flight /\ e.pool = c.pool
          /\ e.alive = c.alive /\ e.open = c.open /\ e.flying = c.flying /\ e.kern = c.kern
          /\ e.leaked = c.leaked + 2 /\ e.scratch = c.scratch
          /\ e.submissions = c.submissions /\ e.poisoned = c.poisoned /\ e.lost = c.lost
          /\ e.next = c.next /\ e.bindings = c.bindings /\ e.closed = c.closed
          /\ e.faults = c.faults /\ e.wrote = c.wrote
      BY <2>1, <2>2 DEF Context
    <2> HIDE DEF e
    <2>5. /\ Stray(e, n) = Stray(c, n + 1) + 1
          /\ Stray(e, n) \in Int /\ Stray(c, n + 1) \in Int
      <3>1. Stray(e, n) \in Int /\ Stray(c, n + 1) \in Int
        BY <2>1, <2>3, StrayType
      <3>2. c.submissions \in Nat /\ One(c.open) \in Nat /\ One(c.flying) \in Nat
        BY <2>1 DEF Context, One
      <3> QED
        BY <3>1, <3>2, <2>4 DEF Stray
    <2>6. c.leaked \in Nat /\ c.scratch \in Nat
      BY <2>1, ContextParts
    <2>7. /\ Stray(e, n) >= 0
          /\ e.leaked - e.scratch - 2 * Stray(e, n)
               = c.leaked - c.scratch - 2 * Stray(c, n + 1)
      BY <2>1, <2>4, <2>5, <2>6
    <2>8. Sound(e, b.retired \cup T, n)
      BY <2>3, <2>4, <2>5, <2>7, Untouched
    <2>9. Sound(p, b.retired \cup T, n) /\ Carried(e, p) /\ p.poisoned
      BY <2>8, PoisonedSound
    <2>10. Finished(c, b, wait) = ReleasedOrLeaked(p, b.retired)
      BY <1>4 DEF Finished, p, e, a, l
    <2> HIDE DEF p
    <2>11. Sound(Finished(c, b, wait), T, n) /\ Carried(p, Finished(c, b, wait))
      BY <2>9, <2>10, ReleasedOrLeakedSound
    <2>12. Carried(c, Finished(c, b, wait)) /\ Finished(c, b, wait).poisoned
      BY <2>4, <2>9, <2>11 DEF Carried, Passed
    <2> QED
      BY <1>4, <2>11, <2>12
  <1> QED
    BY <1>1, <1>2, <1>3, <1>4 DEF WaitResults

(* The three moves of a batch: out of the recorder, into flight, and out.  *)
LEMMA BatchClosed ==
  ASSUME NEW c, NEW T, NEW n \in Nat, Sound(c, T, n), c.open
  PROVE  LET d == [c EXCEPT !.open = FALSE, !.rec = NoBatch]
         IN  Sound(d, c.rec.retired \cup T, n + 1) /\ c.rec.retired \cap T = {}
  <1> DEFINE no == FALSE
             d == [c EXCEPT !.open = no, !.rec = NoBatch]
  <1>1. c \in Context /\ Stray(c, n) >= 0 /\ no \in BOOLEAN /\ ~no
    BY DEF Sound, Counted
  <1>2. NoBatch \in Batches /\ NoBatch.retired = {}
    BY DEF NoBatch, Batches
  <1> HIDE DEF no
  <1>3. d \in Context
    BY <1>1, <1>2 DEF Context
  <1>4. /\ d.own = c.own /\ d.kern = c.kern /\ d.pool = c.pool /\ d.alive = c.alive
        /\ d.flight = c.flight /\ d.flying = c.flying /\ d.submissions = c.submissions
        /\ d.leaked = c.leaked /\ d.scratch = c.scratch /\ d.open = no /\ d.rec = NoBatch
    BY <1>1 DEF Context
  <1> HIDE DEF d
  <1>5. Owned(d) = Owned(c) /\ Built(d) = Built(c)
    BY <1>4 DEF Owned, Built
  <1>6. Holding(d, c.rec.retired \cup T) = Holding(c, T)
    BY <1>2, <1>4, <1>5 DEF Holding
  <1>7. Apart(c, T)
    BY DEF Sound
  <1>8. c.rec.retired \cap T = {}
    BY <1>7 DEF Apart
  <1>9. Apart(d, c.rec.retired \cup T)
    BY <1>2, <1>4, <1>5, <1>6, <1>7 DEF Apart
  <1>10. Stray(d, n + 1) = Stray(c, n)
    <2>1. c.submissions \in Nat /\ One(c.flying) \in Nat /\ One(c.open) = 1
      BY <1>1 DEF Context, One
    <2>2. One(d.open) = 0 /\ One(d.flying) = One(c.flying) /\ d.submissions = c.submissions
      BY <1>1, <1>4 DEF One
    <2>3. Stray(d, n + 1) = c.submissions - (n + 1) - 0 - One(c.flying)
      BY <2>2 DEF Stray
    <2>4. Stray(c, n) = c.submissions - n - 1 - One(c.flying)
      BY <2>1 DEF Stray
    <2> QED
      BY <2>1, <2>3, <2>4
  <1>11. Counted(d, c.rec.retired \cup T, n + 1)
    BY <1>4, <1>6, <1>10 DEF Counted, Sound
  <1>12. Emptied(d)
    BY <1>4 DEF Emptied, Sound
  <1>13. Sound(d, c.rec.retired \cup T, n + 1)
    BY <1>3, <1>9, <1>11, <1>12 DEF Sound
  <1> QED
    BY <1>8, <1>13 DEF d, no

LEMMA BatchLanded ==
  ASSUME NEW c, NEW T, NEW n \in Nat, Sound(c, T, n), c.flying
  PROVE  LET d == [c EXCEPT !.flying = FALSE, !.flight = NoBatch, !.ran = FALSE]
         IN  Sound(d, c.flight.retired \cup T, n + 1) /\ c.flight.retired \cap T = {}
  <1> DEFINE no == FALSE
             d == [c EXCEPT !.flying = no, !.flight = NoBatch, !.ran = no]
  <1>1. c \in Context /\ Stray(c, n) >= 0 /\ no \in BOOLEAN /\ ~no
    BY DEF Sound, Counted
  <1>2. NoBatch \in Batches /\ NoBatch.retired = {}
    BY DEF NoBatch, Batches
  <1> HIDE DEF no
  <1>3. d \in Context
    BY <1>1, <1>2 DEF Context
  <1>4. /\ d.own = c.own /\ d.kern = c.kern /\ d.pool = c.pool /\ d.alive = c.alive
        /\ d.rec = c.rec /\ d.open = c.open /\ d.submissions = c.submissions
        /\ d.leaked = c.leaked /\ d.scratch = c.scratch /\ d.flying = no
        /\ d.flight = NoBatch
    BY <1>1 DEF Context
  <1> HIDE DEF d
  <1>5. Owned(d) = Owned(c) /\ Built(d) = Built(c)
    BY <1>4 DEF Owned, Built
  <1>6. Holding(d, c.flight.retired \cup T) = Holding(c, T)
    BY <1>2, <1>4, <1>5 DEF Holding
  <1>7. Apart(c, T)
    BY DEF Sound
  <1>8. c.flight.retired \cap T = {}
    BY <1>7 DEF Apart
  <1>9. Apart(d, c.flight.retired \cup T)
    BY <1>2, <1>4, <1>5, <1>6, <1>7 DEF Apart
  <1>10. Stray(d, n + 1) = Stray(c, n)
    <2>1. c.submissions \in Nat /\ One(c.open) \in Nat /\ One(c.flying) = 1
      BY <1>1 DEF Context, One
    <2>2. One(d.flying) = 0 /\ One(d.open) = One(c.open) /\ d.submissions = c.submissions
      BY <1>1, <1>4 DEF One
    <2>3. Stray(d, n + 1) = c.submissions - (n + 1) - One(c.open) - 0
      BY <2>2 DEF Stray
    <2>4. Stray(c, n) = c.submissions - n - One(c.open) - 1
      BY <2>1 DEF Stray
    <2> QED
      BY <2>1, <2>3, <2>4
  <1>11. Counted(d, c.flight.retired \cup T, n + 1)
    BY <1>4, <1>6, <1>10 DEF Counted, Sound
  <1>12. Emptied(d)
    BY <1>4 DEF Emptied, Sound
  <1>13. Sound(d, c.flight.retired \cup T, n + 1)
    BY <1>3, <1>9, <1>11, <1>12 DEF Sound
  <1> QED
    BY <1>8, <1>13 DEF d, no

LEMMA BatchFlown ==
  ASSUME NEW c, NEW b \in Batches, NEW T, NEW n \in Nat,
         Sound(c, b.retired \cup T, n + 1), b.retired \cap T = {}, ~c.flying
  PROVE  LET d == [c EXCEPT !.flying = TRUE, !.flight = b]
         IN  Sound(d, T, n)
  <1> DEFINE yes == TRUE
             d == [c EXCEPT !.flying = yes, !.flight = b]
  <1>1. c \in Context /\ Stray(c, n + 1) >= 0 /\ yes \in BOOLEAN /\ yes
    BY DEF Sound, Counted
  <1>2. c.flight = NoBatch /\ NoBatch.retired = {}
    BY DEF NoBatch, Sound, Emptied
  <1> HIDE DEF yes
  <1>3. d \in Context
    BY <1>1, <1>2 DEF Context
  <1>4. /\ d.own = c.own /\ d.kern = c.kern /\ d.pool = c.pool /\ d.alive = c.alive
        /\ d.rec = c.rec /\ d.open = c.open /\ d.submissions = c.submissions
        /\ d.leaked = c.leaked /\ d.scratch = c.scratch /\ d.flying = yes
        /\ d.flight = b
    BY <1>1 DEF Context
  <1> HIDE DEF d
  <1>5. Owned(d) = Owned(c) /\ Built(d) = Built(c)
    BY <1>4 DEF Owned, Built
  <1>6. Holding(d, T) = Holding(c, b.retired \cup T)
    BY <1>2, <1>4, <1>5 DEF Holding
  <1>7. Apart(c, b.retired \cup T)
    BY DEF Sound
  <1>8. Apart(d, T)
    BY <1>2, <1>4, <1>5, <1>6, <1>7 DEF Apart
  <1>9. Stray(d, n) = Stray(c, n + 1)
    <2>1. c.submissions \in Nat /\ One(c.open) \in Nat /\ One(c.flying) = 0 /\ One(yes) = 1
      BY <1>1 DEF Context, One
    <2> QED
      BY <2>1, <1>4 DEF Stray
  <1>10. Counted(d, T, n)
    BY <1>4, <1>6, <1>9 DEF Counted, Sound
  <1>11. Emptied(d)
    BY <1>1, <1>4 DEF Emptied, Sound
  <1>12. Sound(d, T, n)
    BY <1>3, <1>8, <1>10, <1>11 DEF Sound
  <1> QED
    BY <1>12 DEF d, yes

LEMMA ReapedSound ==
  ASSUME NEW c, NEW T, NEW n \in Nat, Sound(c, T, n), NEW wait \in WaitResults
  PROVE  LET d == Reaped(c, wait)
         IN  /\ Sound(d, T, n) /\ Passed(c, d) /\ ~d.flying
             /\ c.flying /\ wait = "lost" => d.lost /\ d.poisoned
             /\ c.flying /\ wait = "unknown" => d.poisoned
  <1>1. CASE c.flying
    <2> DEFINE r == Ran(c)
               e == [r EXCEPT !.flying = FALSE, !.flight = NoBatch, !.ran = FALSE]
               d == Finished(e, c.flight, wait)
    <2>1. Sound(r, T, n) /\ Carried(c, r)
      BY RanSound
    <2>2. Reaped(c, wait) = d
      BY <1>1 DEF Reaped
    <2> HIDE DEF r
    <2>3. r.flying /\ r.flight = c.flight /\ c.flight \in Batches
      <3>1. r.flying /\ r.flight = c.flight
        BY <1>1, <2>1 DEF Carried
      <3>2. c \in Context
        BY DEF Sound
      <3> QED
        BY <3>1, <3>2, ContextParts
    <2>4. Sound(e, c.flight.retired \cup T, n + 1) /\ c.flight.retired \cap T = {}
      BY <2>1, <2>3, BatchLanded
    <2>5. Passed(r, e) /\ ~e.flying
      <3>1. r \in Context
        BY <2>1 DEF Sound
      <3> QED
        BY <3>1 DEF Context, Passed
    <2> HIDE DEF e
    <2>6. /\ Sound(d, T, n) /\ Carried(e, d)
          /\ wait = "lost" => d.lost /\ d.poisoned
          /\ wait = "unknown" => d.poisoned
      BY <2>3, <2>4, FinishedSound
    <2> HIDE DEF d
    <2>7. Passed(c, d) /\ ~d.flying
      BY <2>1, <2>5, <2>6 DEF Carried, Passed
    <2> QED
      BY <2>2, <2>6, <2>7
  <1>2. CASE ~c.flying
    BY <1>2 DEF Reaped, Passed
  <1> QED
    BY <1>1, <1>2

(* Every watermark and every cached set of the past. *)
Aged(kern) == [k \in Kernels |-> [kern[k] EXCEPT !.mark = 0, !.reuse = NoSet]]

LEMMA NextGenerationSound ==
  ASSUME NEW c, NEW T, NEW n \in Nat, Sound(c, T, n)
  PROVE  LET d == NextGeneration(c)
         IN  /\ Sound(d, T, n)
             /\ d.open = c.open /\ d.rec = c.rec /\ d.flying = c.flying
             /\ d.flight = c.flight /\ d.own = c.own /\ d.next = c.next
             /\ d.bindings = c.bindings /\ d.closed = c.closed /\ d.faults = c.faults
             /\ d.wrote = c.wrote /\ d.poisoned = c.poisoned /\ d.lost = c.lost
             /\ d.adrift = c.adrift
             /\ d.kern = Aged(c.kern)
  <1> DEFINE K == [k \in Kernels |-> [c.kern[k] EXCEPT !.mark = 0, !.reuse = NoSet]]
             d == [c EXCEPT !.kern = K]
  <1>1. c \in Context /\ Stray(c, n) >= 0
    BY DEF Sound, Counted
  <1>2. ASSUME NEW k \in Kernels
        PROVE  K[k] \in KernelStates /\ K[k].built = c.kern[k].built
    <2>1. c.kern[k] \in KernelStates
      BY <1>1, ContextParts
    <2>2. 0 \in 0 .. ArenaSize
      BY BoundAssumption
    <2> QED
      BY <2>1, <2>2 DEF KernelStates
  <1>3. NextGeneration(c) = d
    BY DEF NextGeneration
  <1>4. K \in [Kernels -> KernelStates]
    BY <1>2
  <1> HIDE DEF K
  <1>5. d \in Context
    BY <1>1, <1>4 DEF Context
  <1>6. /\ d.own = c.own /\ d.rec = c.rec /\ d.flight = c.flight /\ d.pool = c.pool
        /\ d.alive = c.alive /\ d.open = c.open /\ d.flying = c.flying /\ d.kern = K
        /\ d.leaked = c.leaked /\ d.scratch = c.scratch /\ d.submissions = c.submissions
        /\ d.next = c.next /\ d.bindings = c.bindings /\ d.closed = c.closed
        /\ d.faults = c.faults /\ d.wrote = c.wrote /\ d.poisoned = c.poisoned
        /\ d.lost = c.lost /\ d.adrift = c.adrift
    BY <1>1 DEF Context
  <1> HIDE DEF d
  <1>7. Stray(d, n) = Stray(c, n) /\ Stray(d, n) \in Int
    BY <1>5, <1>6, StrayType DEF Stray
  <1>8. Sound(d, T, n)
    BY <1>1, <1>2, <1>5, <1>6, <1>7, Untouched
  <1> QED
    BY <1>3, <1>6, <1>8 DEF K, Aged

(* The fence and the command buffer of a submission are left uncounted     *)
(* nowhere: what no batch holds any more is counted leaked.                *)
LEMMA StraySound ==
  ASSUME NEW c, NEW T, NEW n \in Nat, Sound(c, T, n + 1)
  PROVE  LET d == [c EXCEPT !.leaked = @ + 2]
         IN  Sound(d, T, n) /\ Carried(c, d) /\ d.poisoned = c.poisoned /\ d.lost = c.lost
             /\ d.adrift = c.adrift /\ d.mem = c.mem
  <1> DEFINE l == c.leaked + 2
             d == [c EXCEPT !.leaked = l]
  <1>1. c \in Context /\ Stray(c, n + 1) >= 0
    BY DEF Sound, Counted
  <1>2. l \in Nat
    BY <1>1, ContextParts
  <1>3. c.leaked \in Nat /\ c.scratch \in Nat /\ l = c.leaked + 2
    BY <1>1, ContextParts
  <1> HIDE DEF l
  <1>4. d \in Context
    BY <1>1, <1>2 DEF Context
  <1>5. /\ d.own = c.own /\ d.rec = c.rec /\ d.flight = c.flight /\ d.pool = c.pool
        /\ d.alive = c.alive /\ d.open = c.open /\ d.flying = c.flying /\ d.kern = c.kern
        /\ d.leaked = l /\ d.scratch = c.scratch /\ d.submissions = c.submissions
    BY <1>1 DEF Context
  <1>6. Carried(c, d) /\ d.poisoned = c.poisoned /\ d.lost = c.lost
        /\ d.adrift = c.adrift /\ d.mem = c.mem
    BY <1>1 DEF Carried, Passed, Context
  <1> HIDE DEF d
  <1>7. /\ Stray(d, n) = Stray(c, n + 1) + 1
        /\ Stray(d, n) \in Int /\ Stray(c, n + 1) \in Int
    <2>1. c.submissions \in Nat /\ One(c.open) \in Nat /\ One(c.flying) \in Nat
      BY <1>1 DEF Context, One
    <2>2. Stray(d, n) = c.submissions - n - One(c.open) - One(c.flying)
      BY <1>5 DEF Stray
    <2>3. Stray(c, n + 1) = c.submissions - (n + 1) - One(c.open) - One(c.flying)
      BY DEF Stray
    <2> QED
      BY <2>1, <2>2, <2>3
  <1>8. /\ Stray(d, n) >= 0
        /\ d.leaked - d.scratch - 2 * Stray(d, n)
             = c.leaked - c.scratch - 2 * Stray(c, n + 1)
    <2>1. d.leaked = c.leaked + 2 /\ d.scratch = c.scratch
      BY <1>3, <1>5
    <2>2. Stray(d, n) >= 0
      BY <1>1, <1>7
    <2> QED
      BY <1>3, <1>7, <2>1, <2>2
  <1>9. n + 1 \in Nat
    OBVIOUS
  <1>10. Sound(d, T, n)
    BY <1>4, <1>5, <1>7, <1>8, <1>9, Untouched
  <1> QED
    BY <1>6, <1>10 DEF d, l

LEMMA AdriftSound ==
  ASSUME NEW c, NEW T, NEW n \in Nat, Sound(c, T, n), NEW a \in SUBSET Objects
  PROVE  LET d == [c EXCEPT !.adrift = a]
         IN  /\ Sound(d, T, n)
             /\ c.poisoned => Carried(c, d)
             /\ d.poisoned = c.poisoned /\ d.lost = c.lost
  <1> DEFINE d == [c EXCEPT !.adrift = a]
  <1>1. c \in Context /\ Stray(c, n) >= 0
    BY DEF Sound, Counted
  <1>2. d \in Context
    BY <1>1 DEF Context
  <1>3. /\ d.own = c.own /\ d.rec = c.rec /\ d.flight = c.flight /\ d.pool = c.pool
        /\ d.alive = c.alive /\ d.open = c.open /\ d.flying = c.flying /\ d.kern = c.kern
        /\ d.leaked = c.leaked /\ d.scratch = c.scratch /\ d.submissions = c.submissions
        /\ d.poisoned = c.poisoned /\ d.lost = c.lost
    BY <1>1 DEF Context
  <1>4. c.poisoned => Carried(c, d)
    BY <1>1 DEF Carried, Passed, Context
  <1> HIDE DEF d
  <1>5. Stray(d, n) = Stray(c, n) /\ Stray(d, n) \in Int
    BY <1>2, <1>3, StrayType DEF Stray
  <1>6. Sound(d, T, n)
    BY <1>1, <1>2, <1>3, <1>5, Untouched
  <1> QED
    BY <1>3, <1>4, <1>6 DEF d

LEMMA LeakedBehindSound ==
  ASSUME NEW c, NEW b \in Batches, NEW T, NEW n \in Nat,
         Sound(c, b.retired \cup T, n + 1), b.retired \cap T = {},
         NEW reap \in {"idle", "lost", "unknown"}, reap = "unknown" => c.poisoned
  PROVE  LET d == LeakedBehind(c, b, reap)
         IN  Sound(d, T, n) /\ Carried(c, d)
  <1> DEFINE e == [c EXCEPT !.leaked = @ + 2]
             l == Leaked(e, b.retired)
  <1>1. Sound(e, b.retired \cup T, n) /\ Carried(c, e)
    BY StraySound
  <1> HIDE DEF e
  <1>2. Sound(l, T, n) /\ Carried(e, l)
    BY <1>1, LeakedSound
  <1> HIDE DEF l
  <1>3. l \in Context /\ Carried(c, l)
    BY <1>1, <1>2 DEF Sound, Carried, Passed
  <1>4. CASE reap = "idle"
    <2> DEFINE m == RunAll(c, l.mem, b.cmds)
               d == [l EXCEPT !.mem = m, !.ran = l.ran]
    <2>1. m \in Cells /\ l.ran \in BOOLEAN
      <3>1. c \in Context
        BY DEF Sound
      <3> QED
        BY <1>3, <3>1, ContextParts, BatchParts, RunAllType
    <2>2. LeakedBehind(c, b, reap) = [l EXCEPT !.mem = m]
      BY <1>4 DEF LeakedBehind, l, e
    <2> HIDE DEF m
    <2>3. [l EXCEPT !.mem = m] = d
      BY <1>3 DEF Context
    <2>4. Sound(d, T, n) /\ Carried(l, d)
      BY <1>2, <2>1, MemorySound
    <2> HIDE DEF d
    <2> QED
      BY <1>3, <2>2, <2>3, <2>4 DEF Carried, Passed
  <1>5. CASE reap = "lost"
    <2>1. LeakedBehind(c, b, reap) = l
      BY <1>5 DEF LeakedBehind, l, e
    <2> QED
      BY <1>2, <1>3, <2>1
  <1>6. CASE reap = "unknown"
    <2> DEFINE a == l.adrift \cup Uses(b.cmds)
               d == [l EXCEPT !.adrift = a]
    <2>1. LeakedBehind(c, b, reap) = d
      BY <1>6 DEF LeakedBehind, l, e
    <2>2. a \in SUBSET Objects
      BY <1>3, ContextParts, BatchParts
    <2> HIDE DEF a
    <2>3. Sound(d, T, n) /\ (l.poisoned => Carried(l, d))
      BY <1>2, <2>2, AdriftSound
    <2>4. l.poisoned
      BY <1>3, <1>6 DEF Carried, Passed
    <2> HIDE DEF d
    <2> QED
      BY <1>3, <2>1, <2>3, <2>4 DEF Carried, Passed
  <1> QED
    BY <1>4, <1>5, <1>6

LEMMA LostSound ==
  ASSUME NEW c, NEW b \in Batches, NEW T, NEW n \in Nat,
         Sound(c, b.retired \cup T, n + 1), b.retired \cap T = {}, NEW submit
  PROVE  LET d == Lost(c, b, submit)
         IN  Sound(d, T, n) /\ Carried(c, d) /\ d.poisoned
  <1> DEFINE r == ReleasedOrLeaked(c, b.retired)
             s == SubmissionReleased(r)
             l == submit = "lost"
  <1>1. n + 1 \in Nat
    OBVIOUS
  <1>2. Sound(r, T, n + 1) /\ Carried(c, r)
    BY <1>1, ReleasedOrLeakedSound
  <1> HIDE DEF r
  <1>3. Sound(s, T, n) /\ Carried(r, s)
    BY <1>2, SubmissionReleasedSound
  <1>4. l \in BOOLEAN
    OBVIOUS
  <1>5. Lost(c, b, submit) = Poisoned(s, l)
    BY DEF Lost, r
  <1> HIDE DEF s, l
  <1>6. Sound(Poisoned(s, l), T, n) /\ Carried(s, Poisoned(s, l)) /\ Poisoned(s, l).poisoned
    BY <1>3, <1>4, PoisonedSound
  <1> QED
    BY <1>2, <1>3, <1>5, <1>6 DEF Carried, Passed

LEMMA OutcomeParts ==
  ASSUME NEW f \in Outcomes
  PROVE  /\ f.reap \in WaitResults /\ f.wait \in WaitResults
         /\ f.reap # "ok" => f.reap \in {"idle", "lost", "unknown"}
         /\ f.submit # "ok" => f.submit \in SubmitFaults
         /\ f.submit # "ok" => f.reap = "ok" /\ f.wait = "ok"
  BY BoundAssumption DEF Outcomes, Idle, WaitResults

LEMMA PassedOn ==
  ASSUME NEW c, NEW d, NEW e, Passed(c, d), Passed(d, e)
  PROVE  Passed(c, e)
  BY DEF Passed

(* What a flush leaves of the rest of the context, and of the batches: it  *)
(* closes the open one, and only a flush that promises nothing, or one     *)
(* that poisons the context, leaves a batch in flight.                     *)
FlushLeaves(c, d, completing) ==
  /\ ~d.open /\ d.rec = NoBatch
  /\ d.own = c.own /\ d.next = c.next /\ d.bindings = c.bindings
  /\ d.closed = c.closed /\ d.faults = c.faults /\ d.wrote = c.wrote
  /\ d.kern = Aged(c.kern)
  /\ c.poisoned => d.poisoned
  /\ c.lost => d.lost
  /\ ~d.poisoned => d.adrift = c.adrift
  /\ completing /\ ~d.poisoned => ~d.flying
  /\ d.flying => \/ c.flying /\ d.flight = c.flight /\ (d.poisoned \/ ~c.open)
                 \/ c.open /\ d.flight = c.rec /\ ~completing

LEMMA FlushedSound ==
  ASSUME NEW c, Sound(c, {}, 0), NEW completing \in BOOLEAN, NEW f \in Outcomes
  PROVE  LET d == Flushed(c, completing, f)
         IN  Sound(d, {}, 0) /\ FlushLeaves(c, d, completing)
  <1> DEFINE b == c.rec
             g0 == [c EXCEPT !.open = FALSE, !.rec = NoBatch]
             g == NextGeneration(g0)
             r == Reaped(g, f.reap)
             d == Flushed(c, completing, f)
  <1>1. c \in Context /\ b \in Batches
    BY ContextParts DEF Sound
  <1>2. /\ g0.open = FALSE /\ g0.rec = NoBatch /\ g0.flying = c.flying
        /\ g0.flight = c.flight /\ g0.own = c.own /\ g0.next = c.next
        /\ g0.bindings = c.bindings /\ g0.closed = c.closed /\ g0.faults = c.faults
        /\ g0.wrote = c.wrote /\ g0.poisoned = c.poisoned /\ g0.lost = c.lost
        /\ g0.adrift = c.adrift /\ g0.kern = c.kern
    BY <1>1 DEF Context
  <1>3. 0 \in Nat /\ 1 \in Nat /\ 0 + 1 = 1
    OBVIOUS
  <1>4. f.reap \in WaitResults /\ f.wait \in WaitResults
        /\ (f.reap # "ok" => f.reap \in {"idle", "lost", "unknown"})
    BY OutcomeParts
  <1>5. CASE ~c.open
    <2>1. g0 = c
      <3>1. c.open = FALSE /\ c.rec = NoBatch
        BY <1>1, <1>5 DEF Sound, Emptied, Context
      <3> QED
        BY <1>1, <3>1 DEF Context
    <2>2. Sound(g0, {}, 0)
      BY <2>1
    <2> HIDE DEF g0
    <2>3. /\ Sound(g, {}, 0)
          /\ g.open = g0.open /\ g.rec = g0.rec /\ g.flying = g0.flying
          /\ g.flight = g0.flight /\ g.own = g0.own /\ g.next = g0.next
          /\ g.bindings = g0.bindings /\ g.closed = g0.closed /\ g.faults = g0.faults
          /\ g.wrote = g0.wrote /\ g.poisoned = g0.poisoned /\ g.lost = g0.lost
          /\ g.adrift = g0.adrift
          /\ g.kern = Aged(g0.kern)
      BY <1>3, <2>2, NextGenerationSound
    <2> HIDE DEF g
    <2>4. Sound(r, {}, 0) /\ Passed(g, r) /\ ~r.flying
      BY <1>3, <1>4, <2>3, ReapedSound
    <2>5. d = IF completing THEN r ELSE g
      BY <1>5 DEF Flushed, g, g0
    <2> HIDE DEF r, d
    <2>6. CASE completing
      BY <1>2, <2>3, <2>4, <2>5, <2>6 DEF Passed, FlushLeaves, d
    <2>7. CASE ~completing
      BY <1>2, <1>5, <2>3, <2>5, <2>7 DEF FlushLeaves, d
    <2> QED
      BY <2>6, <2>7
  <1>6. CASE c.open
    <2>1. Sound(g0, b.retired \cup {}, 1) /\ b.retired \cap {} = {}
      <3>1. Sound(g0, b.retired \cup {}, 0 + 1)
        BY <1>3, <1>6, BatchClosed
      <3> QED
        BY <1>3, <3>1
    <2> HIDE DEF g0
    <2>2. /\ Sound(g, b.retired \cup {}, 1)
          /\ g.open = g0.open /\ g.rec = g0.rec /\ g.flying = g0.flying
          /\ g.flight = g0.flight /\ g.own = g0.own /\ g.next = g0.next
          /\ g.bindings = g0.bindings /\ g.closed = g0.closed /\ g.faults = g0.faults
          /\ g.wrote = g0.wrote /\ g.poisoned = g0.poisoned /\ g.lost = g0.lost
          /\ g.adrift = g0.adrift
          /\ g.kern = Aged(g0.kern)
      BY <1>3, <2>1, NextGenerationSound
    <2> HIDE DEF g
    <2>3. /\ Sound(r, b.retired \cup {}, 1) /\ Passed(g, r) /\ ~r.flying
          /\ g.flying /\ f.reap = "unknown" => r.poisoned
      BY <1>3, <1>4, <2>2, ReapedSound
    <2>4. r \in Context
      BY <2>3 DEF Sound
    <2> HIDE DEF r
    <2>5. CASE f.submit # "ok"
      <3>1. d = Lost(g, b, f.submit)
        BY <1>6, <2>5 DEF Flushed, g, g0
      <3> HIDE DEF d
      <3>2. Sound(d, {}, 0) /\ Carried(g, d) /\ d.poisoned
        BY <1>1, <1>3, <2>1, <2>2, <3>1, LostSound
      <3>3. FlushLeaves(c, d, completing)
        BY <1>2, <2>2, <3>2 DEF Carried, Passed, FlushLeaves
      <3> QED
        BY <3>2, <3>3 DEF d
    <2>6. CASE f.submit = "ok" /\ c.flying /\ f.reap # "ok"
      <3>1. d = LeakedBehind(r, b, f.reap)
        BY <1>6, <2>6 DEF Flushed, r, g, g0
      <3> HIDE DEF d
      <3>2. f.reap = "unknown" => r.poisoned
        BY <1>2, <2>2, <2>3, <2>6
      <3>3. Sound(d, {}, 0) /\ Carried(r, d)
        BY <1>1, <1>3, <1>4, <2>1, <2>3, <2>6, <3>1, <3>2, LeakedBehindSound
      <3>4. FlushLeaves(c, d, completing)
        BY <1>2, <2>2, <2>3, <3>3 DEF Carried, Passed, FlushLeaves
      <3> QED
        BY <3>3, <3>4 DEF d
    <2>7. CASE f.submit = "ok" /\ ~(c.flying /\ f.reap # "ok") /\ completing
      <3> DEFINE m == RunAll(r, r.mem, b.cmds)
                 e == [r EXCEPT !.mem = m, !.ran = r.ran]
      <3>1. d = Finished([r EXCEPT !.mem = m], b, f.wait)
        BY <1>6, <2>7 DEF Flushed, r, g, g0
      <3>2. m \in Cells /\ r.ran \in BOOLEAN
        BY <1>1, <2>4, ContextParts, BatchParts, RunAllType
      <3> HIDE DEF m
      <3>3. [r EXCEPT !.mem = m] = e
        BY <2>4 DEF Context
      <3>4. Sound(e, b.retired \cup {}, 1) /\ Carried(r, e)
        BY <1>3, <2>3, <3>2, MemorySound
      <3> HIDE DEF e, d
      <3>5. d = Finished(e, b, f.wait)
        BY <3>1, <3>3
      <3>6. Sound(d, {}, 0) /\ Carried(e, d)
        BY <1>1, <1>3, <1>4, <2>1, <3>4, <3>5, FinishedSound
      <3>7. FlushLeaves(c, d, completing)
        BY <1>2, <2>2, <2>3, <3>4, <3>6 DEF Carried, Passed, FlushLeaves
      <3> QED
        BY <3>6, <3>7 DEF d
    <2>8. CASE f.submit = "ok" /\ ~(c.flying /\ f.reap # "ok") /\ ~completing
      <3>1. d = [r EXCEPT !.flying = TRUE, !.flight = b]
        BY <1>6, <2>8 DEF Flushed, r, g, g0
      <3>2. Sound(r, b.retired \cup {}, 0 + 1)
        BY <1>3, <2>3
      <3>3. Sound([r EXCEPT !.flying = TRUE, !.flight = b], {}, 0)
        BY <1>1, <1>3, <2>1, <2>3, <3>2, BatchFlown
      <3>4. Sound(d, {}, 0)
        BY <3>1, <3>3
      <3>5. /\ Passed(r, d) /\ d.flight = b
        BY <2>4, <3>1 DEF Context, Passed
      <3> HIDE DEF d
      <3>6. FlushLeaves(c, d, completing)
        BY <1>2, <1>6, <2>2, <2>3, <2>8, <3>5 DEF Passed, FlushLeaves
      <3> QED
        BY <3>4, <3>6 DEF d
    <2> QED
      BY <2>5, <2>6, <2>7, <2>8
  <1> QED
    BY <1>5, <1>6

-----------------------------------------------------------------------------
(* Recording.                                                              *)

LEMMA SameHolders ==
  ASSUME NEW c, NEW T, NEW n, NEW m, Sound(c, T, n), NEW d \in Context,
         d.own = c.own, d.rec.retired = c.rec.retired,
         d.flight.retired = c.flight.retired, d.pool = c.pool, d.alive = c.alive,
         \A k \in Kernels : d.kern[k].built = c.kern[k].built,
         Emptied(d), Stray(d, m) >= 0, Stray(d, m) \in Int, Stray(c, n) \in Int,
         d.leaked - d.scratch - 2 * Stray(d, m) = c.leaked - c.scratch - 2 * Stray(c, n)
  PROVE  Sound(d, T, m)
  <1>1. Owned(d) = Owned(c) /\ Built(d) = Built(c)
    BY DEF Owned, Built
  <1>2. Holding(d, T) = Holding(c, T)
    BY <1>1 DEF Holding
  <1>3. Apart(d, T)
    BY <1>1, <1>2 DEF Apart, Sound
  <1>4. c.alive \in SUBSET Objects /\ c.leaked \in Nat /\ c.scratch \in Nat
        /\ d.leaked \in Nat /\ d.scratch \in Nat
    BY DEF Sound, Context
  <1>5. Weight(c.alive \ Holding(c, T)) \in Nat
    BY <1>4, WeightFacts
  <1>6. Counted(d, T, m)
    BY <1>2, <1>4, <1>5 DEF Counted, Sound
  <1> QED
    BY <1>3, <1>6 DEF Sound

(* What recording leaves as it was. *)
Rest(c, d) ==
  /\ d.own = c.own /\ d.next = c.next /\ d.closed = c.closed /\ d.faults = c.faults
  /\ d.wrote = c.wrote /\ d.poisoned = c.poisoned /\ d.lost = c.lost
  /\ d.adrift = c.adrift /\ d.alive = c.alive /\ d.pool = c.pool
  /\ d.flying = c.flying /\ d.flight = c.flight

LEMMA BankType ==
  ASSUME NEW c \in Context
  PROVE  OpenBank(c) \in {0, 1}
  <1>1. c.rec.bank \in {0, 1} /\ c.flight.bank \in {0, 1}
    BY ContextParts, BatchParts
  <1> QED
    BY <1>1 DEF OpenBank

LEMMA EmptyBatch ==
  ASSUME NEW bank \in {0, 1}
  PROVE  LET b == [NoBatch EXCEPT !.bank = bank]
         IN  b \in Batches /\ b.cmds = << >> /\ b.retired = {} /\ b.bank = bank
  <1> DEFINE b == [NoBatch EXCEPT !.bank = bank]
  <1>1. DOMAIN NoBatch = {"cmds", "retired", "bank"}
    BY DEF NoBatch
  <1>2. b.cmds = NoBatch.cmds /\ b.retired = NoBatch.retired /\ b.bank = bank
    BY <1>1
  <1>3. NoBatch.cmds = << >> /\ NoBatch.retired = {}
    BY DEF NoBatch
  <1>4. b = [cmds |-> b.cmds, retired |-> b.retired, bank |-> b.bank]
    BY <1>1
  <1> HIDE DEF b
  <1>5. b.cmds \in Seq(Commands) /\ b.retired \in SUBSET Objects /\ b.bank \in {0, 1}
    <2>1. b.cmds = << >> /\ b.retired = {} /\ b.bank = bank
      BY <1>2, <1>3
    <2>2. << >> \in Seq(Commands)
      OBVIOUS
    <2> QED
      BY <2>1, <2>2
  <1>6. b \in Batches
    BY <1>4, <1>5 DEF Batches
  <1> QED
    BY <1>2, <1>3, <1>6 DEF b

LEMMA OpenedSound ==
  ASSUME NEW c, NEW T, NEW n \in Nat, Sound(c, T, n)
  PROVE  LET d == Opened(c)
         IN  /\ Sound(d, T, n) /\ Rest(c, d) /\ d.open
             /\ d.kern = c.kern /\ d.bindings = c.bindings
             /\ d.rec.cmds = c.rec.cmds /\ d.rec.retired = c.rec.retired
             /\ d.rec.bank = OpenBank(c)
  <1>1. c \in Context /\ Stray(c, n) >= 0 /\ Emptied(c)
    BY DEF Sound, Counted
  <1>2. CASE c.open
    BY <1>2 DEF Opened, Rest, OpenBank
  <1>3. CASE ~c.open
    <2> DEFINE yes == TRUE
               b == [NoBatch EXCEPT !.bank = OpenBank(c)]
               s == c.submissions + 1
               d == [c EXCEPT !.open = yes, !.rec = b, !.submissions = s]
    <2>1. Opened(c) = d
      BY <1>3 DEF Opened
    <2>2. b \in Batches /\ b.cmds = << >> /\ b.retired = {} /\ b.bank = OpenBank(c)
      BY <1>1, BankType, EmptyBatch
    <2>3. yes \in BOOLEAN /\ yes /\ s \in Nat /\ s = c.submissions + 1
      BY <1>1, ContextParts
    <2>4. c.rec.cmds = << >> /\ c.rec.retired = {}
      BY <1>1, <1>3 DEF Emptied, NoBatch
    <2> HIDE DEF b, s, yes
    <2>5. d \in Context
      BY <1>1, <2>2, <2>3 DEF Context
    <2>6. /\ d.own = c.own /\ d.flight = c.flight /\ d.pool = c.pool
          /\ d.alive = c.alive /\ d.open = yes /\ d.flying = c.flying /\ d.kern = c.kern
          /\ d.leaked = c.leaked /\ d.scratch = c.scratch /\ d.submissions = s
          /\ d.rec = b /\ d.bindings = c.bindings
      BY <1>1 DEF Context
    <2>7. Rest(c, d)
      BY <1>1 DEF Context, Rest
    <2> HIDE DEF d
    <2>8. Stray(d, n) = Stray(c, n) /\ Stray(d, n) \in Int
      <3>1. One(c.open) = 0 /\ One(d.open) = 1 /\ One(c.flying) \in Nat
            /\ c.submissions \in Nat /\ One(d.flying) = One(c.flying)
        BY <1>1, <1>3, <2>3, <2>6 DEF One, Context
      <3>2. Stray(d, n) = s - n - 1 - One(c.flying)
        BY <2>6, <3>1 DEF Stray
      <3>3. Stray(c, n) = c.submissions - n - 0 - One(c.flying)
        BY <3>1 DEF Stray
      <3> QED
        BY <2>3, <3>1, <3>2, <3>3
    <2>9. Emptied(d)
      BY <1>1, <2>3, <2>6 DEF Emptied
    <2>10. Sound(d, T, n)
      BY <1>1, <2>2, <2>4, <2>5, <2>6, <2>8, <2>9, SameHolders
    <2> QED
      BY <2>1, <2>2, <2>3, <2>4, <2>6, <2>7, <2>10
  <1> QED
    BY <1>2, <1>3

LEMMA RecordedSound ==
  ASSUME NEW c, NEW T, NEW n \in Nat, Sound(c, T, n), NEW cmd \in Commands
  PROVE  LET d == Recorded(c, cmd)
         IN  /\ Sound(d, T, n) /\ Rest(c, d) /\ d.open
             /\ d.kern = c.kern /\ d.bindings = c.bindings
             /\ d.rec.cmds = Append(c.rec.cmds, cmd) /\ d.rec.retired = c.rec.retired
             /\ d.rec.bank = OpenBank(c)
  <1> DEFINE o == Opened(c)
             q == Append(o.rec.cmds, cmd)
             b == [o.rec EXCEPT !.cmds = q]
             d == [o EXCEPT !.rec = b]
  <1>1. /\ Sound(o, T, n) /\ Rest(c, o) /\ o.open
        /\ o.kern = c.kern /\ o.bindings = c.bindings
        /\ o.rec.cmds = c.rec.cmds /\ o.rec.retired = c.rec.retired
        /\ o.rec.bank = OpenBank(c)
    BY OpenedSound
  <1>2. Recorded(c, cmd) = d
    BY DEF Recorded
  <1> HIDE DEF o
  <1>3. o \in Context /\ Stray(o, n) >= 0 /\ Emptied(o)
    BY <1>1 DEF Sound, Counted
  <1>4. q \in Seq(Commands) /\ q = Append(c.rec.cmds, cmd)
    BY <1>1, <1>3, ContextParts, BatchParts
  <1> HIDE DEF q
  <1>5. b \in Batches /\ b.cmds = q /\ b.retired = o.rec.retired /\ b.bank = o.rec.bank
    <2>1. o.rec \in Batches
      BY <1>3, ContextParts
    <2> QED
      BY <1>4, <2>1 DEF Batches
  <1> HIDE DEF b
  <1>6. d \in Context
    BY <1>3, <1>5 DEF Context
  <1>7. /\ d.own = o.own /\ d.flight = o.flight /\ d.pool = o.pool
        /\ d.alive = o.alive /\ d.open = o.open /\ d.flying = o.flying /\ d.kern = o.kern
        /\ d.leaked = o.leaked /\ d.scratch = o.scratch /\ d.submissions = o.submissions
        /\ d.rec = b /\ d.bindings = o.bindings
    BY <1>3 DEF Context
  <1>8. Rest(o, d)
    BY <1>3 DEF Context, Rest
  <1> HIDE DEF d
  <1>9. Stray(d, n) = Stray(o, n) /\ Stray(d, n) \in Int
    BY <1>6, <1>7, StrayType DEF Stray
  <1>10. Emptied(d)
    BY <1>1, <1>3, <1>7 DEF Emptied
  <1>11. Sound(d, T, n)
    BY <1>1, <1>3, <1>5, <1>6, <1>7, <1>9, <1>10, SameHolders
  <1>12. Rest(c, d)
    BY <1>1, <1>8 DEF Rest
  <1> QED
    BY <1>1, <1>2, <1>4, <1>5, <1>7, <1>11, <1>12

LEMMA SetWrittenSound ==
  ASSUME NEW c, NEW T, NEW n \in Nat, Sound(c, T, n), NEW k \in Kernels,
         c.kern[k].mark # ArenaSize
  PROVE  LET d == SetWritten(c, k)
         IN  /\ Sound(d, T, n) /\ Rest(c, d) /\ d.open = c.open /\ d.rec = c.rec
             /\ NextSet(c, k) \in DescriptorSets
             /\ d.bindings = [c.bindings EXCEPT ![NextSet(c, k)] = c.kern[k].pending]
             /\ d.kern = [c.kern EXCEPT ![k].mark = @ + 1]
  <1> DEFINE m == c.kern[k].mark + 1
             kk == [c.kern[k] EXCEPT !.mark = m]
             K == [c.kern EXCEPT ![k] = kk]
             B == [c.bindings EXCEPT ![NextSet(c, k)] = c.kern[k].pending]
             d == [c EXCEPT !.bindings = B, !.kern = K]
  <1>1. c \in Context /\ Stray(c, n) >= 0 /\ Emptied(c)
    BY DEF Sound, Counted
  <1>2. c.kern[k] \in KernelStates
    BY <1>1, ContextParts
  <1>3. m \in 1 .. ArenaSize
    <2>1. c.kern[k].mark \in 0 .. ArenaSize /\ ArenaSize \in Nat
      BY <1>2, BoundAssumption DEF KernelStates
    <2> QED
      BY <2>1
  <1>4. NextSet(c, k) \in DescriptorSets
    BY <1>1, <1>3, BankType DEF NextSet, DescriptorSets
  <1>5. SetWritten(c, k) = d
    BY <1>1, <1>2 DEF SetWritten, Context
  <1>6. m \in 0 .. ArenaSize
    BY <1>3, BoundAssumption
  <1> HIDE DEF m
  <1>7. kk \in KernelStates /\ kk.built = c.kern[k].built
    BY <1>2, <1>6 DEF KernelStates
  <1> HIDE DEF kk
  <1>8. K \in [Kernels -> KernelStates] /\ \A j \in Kernels : K[j].built = c.kern[j].built
    BY <1>1, <1>7, ContextParts
  <1>9. B \in Sets
    <2>1. c.kern[k].pending \in Pairs \cup {NoPair}
      BY <1>2 DEF KernelStates
    <2> QED
      BY <1>1, <2>1, ContextParts DEF Sets
  <1>10. [c.kern EXCEPT ![k].mark = @ + 1] = K
    BY DEF kk, m
  <1> HIDE DEF K, B
  <1>11. d \in Context
    BY <1>1, <1>8, <1>9 DEF Context, Sets
  <1>12. /\ d.own = c.own /\ d.flight = c.flight /\ d.pool = c.pool /\ d.rec = c.rec
        /\ d.alive = c.alive /\ d.open = c.open /\ d.flying = c.flying /\ d.kern = K
        /\ d.leaked = c.leaked /\ d.scratch = c.scratch /\ d.submissions = c.submissions
        /\ d.bindings = B
    BY <1>1 DEF Context
  <1>13. Rest(c, d)
    BY <1>1 DEF Context, Rest
  <1> HIDE DEF d
  <1>14. Stray(d, n) = Stray(c, n) /\ Stray(d, n) \in Int
    BY <1>11, <1>12, StrayType DEF Stray
  <1>15. Emptied(d)
    BY <1>1, <1>12 DEF Emptied
  <1>16. Sound(d, T, n)
    BY <1>1, <1>8, <1>11, <1>12, <1>14, <1>15, SameHolders
  <1> QED
    BY <1>4, <1>5, <1>10, <1>12, <1>13, <1>16 DEF B

LEMMA AcquiredSound ==
  ASSUME NEW c, NEW T, NEW n \in Nat, Sound(c, T, n), NEW k \in Kernels,
         c.kern[k].reuse = NoSet => c.kern[k].mark # ArenaSize
  PROVE  LET d == Acquired(c, k)
         IN  /\ Sound(d, T, n) /\ Rest(c, d) /\ d.open = c.open /\ d.rec = c.rec
             /\ d.kern[k].reuse \in DescriptorSets
             /\ c.kern[k].reuse # NoSet => d = c
             /\ c.kern[k].reuse = NoSet =>
                  /\ d.bindings = [c.bindings EXCEPT ![NextSet(c, k)] = c.kern[k].pending]
                  /\ d.kern = [c.kern EXCEPT ![k] =
                                 [c.kern[k] EXCEPT !.mark = @ + 1, !.reuse = NextSet(c, k)]]
  <1>1. c \in Context
    BY DEF Sound
  <1>2. c.kern[k] \in KernelStates
    BY <1>1, ContextParts
  <1>3. CASE c.kern[k].reuse # NoSet
    <2>1. Acquired(c, k) = c
      BY <1>3 DEF Acquired
    <2>2. c.kern[k].reuse \in DescriptorSets
      BY <1>2, <1>3 DEF KernelStates
    <2> QED
      BY <1>3, <2>1, <2>2 DEF Rest
  <1>4. CASE c.kern[k].reuse = NoSet
    <2> DEFINE s == SetWritten(c, k)
               kk == [s.kern[k] EXCEPT !.reuse = NextSet(c, k)]
               K == [s.kern EXCEPT ![k] = kk]
               d == [s EXCEPT !.kern = K]
    <2>1. /\ Sound(s, T, n) /\ Rest(c, s) /\ s.open = c.open /\ s.rec = c.rec
          /\ NextSet(c, k) \in DescriptorSets
          /\ s.bindings = [c.bindings EXCEPT ![NextSet(c, k)] = c.kern[k].pending]
          /\ s.kern = [c.kern EXCEPT ![k].mark = @ + 1]
      BY <1>4, SetWrittenSound
    <2>2. Acquired(c, k) = d
      BY <1>4 DEF Acquired
    <2> HIDE DEF s
    <2>3. s \in Context /\ Stray(s, n) >= 0 /\ Emptied(s)
      BY <2>1 DEF Sound, Counted
    <2>4. kk \in KernelStates /\ kk.built = s.kern[k].built /\ kk.reuse = NextSet(c, k)
      <3>1. s.kern[k] \in KernelStates
        BY <2>3, ContextParts
      <3> QED
        BY <2>1, <3>1 DEF KernelStates
    <2>5. K = [c.kern EXCEPT ![k] =
                 [c.kern[k] EXCEPT !.mark = @ + 1, !.reuse = NextSet(c, k)]]
      <3>1. c.kern \in [Kernels -> KernelStates] /\ c.kern[k] \in KernelStates
        BY <1>1, ContextParts
      <3>2. s.kern[k] = [c.kern[k] EXCEPT !.mark = @ + 1]
        BY <2>1, <3>1
      <3>3. kk = [c.kern[k] EXCEPT !.mark = @ + 1, !.reuse = NextSet(c, k)]
        BY <3>1, <3>2 DEF KernelStates
      <3> HIDE DEF kk
      <3>4. K = [c.kern EXCEPT ![k] = kk]
        BY <2>1, <3>1
      <3> QED
        BY <3>3, <3>4
    <2> HIDE DEF kk
    <2>6. K \in [Kernels -> KernelStates] /\ K[k] = kk
          /\ \A j \in Kernels : K[j].built = s.kern[j].built
      BY <2>3, <2>4, ContextParts
    <2> HIDE DEF K
    <2>7. d \in Context
      BY <2>3, <2>6 DEF Context
    <2>8. /\ d.own = s.own /\ d.flight = s.flight /\ d.pool = s.pool /\ d.rec = s.rec
          /\ d.alive = s.alive /\ d.open = s.open /\ d.flying = s.flying /\ d.kern = K
          /\ d.leaked = s.leaked /\ d.scratch = s.scratch /\ d.submissions = s.submissions
          /\ d.bindings = s.bindings
      BY <2>3 DEF Context
    <2>9. Rest(s, d)
      BY <2>3 DEF Context, Rest
    <2> HIDE DEF d
    <2>10. Stray(d, n) = Stray(s, n) /\ Stray(d, n) \in Int
      BY <2>7, <2>8, StrayType DEF Stray
    <2>11. Emptied(d)
      BY <2>3, <2>8 DEF Emptied
    <2>12. Sound(d, T, n)
      <3>1. Sound(s, T, n)
        BY <2>1
      <3>2. \A j \in Kernels : d.kern[j].built = s.kern[j].built
        BY <2>6, <2>8
      <3> QED
        BY <2>3, <2>7, <2>8, <2>10, <2>11, <3>1, <3>2, SameHolders
    <2>13. Rest(c, d)
      BY <2>1, <2>9 DEF Rest
    <2> QED
      BY <1>4, <2>1, <2>2, <2>4, <2>5, <2>6, <2>8, <2>12, <2>13
  <1> QED
    BY <1>3, <1>4

-----------------------------------------------------------------------------
(* Objects change hands.                                                   *)

LEMMA TakenSound ==
  ASSUME NEW c, NEW T, NEW n \in Nat, Sound(c, T, n), NEW x \in Objects,
         x \in c.pool \/ x \notin c.alive, NEW m \in Cells
  PROVE  LET d == [c EXCEPT !.pool = @ \ {x}, !.alive = @ \cup {x}, !.mem = m]
         IN  /\ Sound(d, T \cup {x}, n) /\ Carried(c, d) /\ x \notin T
             /\ d.poisoned = c.poisoned /\ d.lost = c.lost /\ d.adrift = c.adrift
  <1> DEFINE po == c.pool \ {x}
             al == c.alive \cup {x}
             d == [c EXCEPT !.pool = po, !.alive = al, !.mem = m]
  <1>1. c \in Context /\ Apart(c, T) /\ Counted(c, T, n) /\ Emptied(c)
    BY DEF Sound
  <1>2. po \in SUBSET (Pairs \cup Stages) /\ al \in SUBSET Objects
    BY <1>1, ContextParts
  <1>3. po = c.pool \ {x} /\ al = c.alive \cup {x}
    OBVIOUS
  <1> HIDE DEF po, al
  <1>4. d \in Context
    BY <1>1, <1>2 DEF Context, Cells
  <1>5. /\ d.own = c.own /\ d.flight = c.flight /\ d.pool = po /\ d.rec = c.rec
        /\ d.alive = al /\ d.open = c.open /\ d.flying = c.flying /\ d.kern = c.kern
        /\ d.leaked = c.leaked /\ d.scratch = c.scratch /\ d.submissions = c.submissions
    BY <1>1 DEF Context
  <1>6. Carried(c, d) /\ d.poisoned = c.poisoned /\ d.lost = c.lost /\ d.adrift = c.adrift
    BY <1>1 DEF Context, Carried, Passed
  <1> HIDE DEF d
  <1>7. Owned(d) = Owned(c) /\ Built(d) = Built(c)
    BY <1>5 DEF Owned, Built
  <1>8. /\ x \notin T /\ Apart(d, T \cup {x})
        /\ d.alive \ Holding(d, T \cup {x}) = c.alive \ Holding(c, T)
    BY <1>1, <1>3, <1>5, <1>7 DEF Apart, Holding
  <1>9. Counted(d, T \cup {x}, n)
    BY <1>1, <1>5, <1>8 DEF Counted, Stray
  <1>10. Emptied(d)
    BY <1>1, <1>5 DEF Emptied
  <1> QED
    BY <1>3, <1>4, <1>6, <1>8, <1>9, <1>10 DEF Sound, d

(* A step that changes only who holds what. *)
LEMMA Rearranged ==
  ASSUME NEW c, NEW S, NEW T, NEW n \in Nat, Sound(c, S, n), NEW d \in Context,
         d.alive = c.alive, d.leaked = c.leaked, d.scratch = c.scratch,
         d.submissions = c.submissions, d.open = c.open, d.flying = c.flying,
         Emptied(d), Apart(d, T), Holding(d, T) = Holding(c, S)
  PROVE  Sound(d, T, n)
  BY DEF Sound, Counted, Stray

LEMMA OwningSound ==
  ASSUME NEW c, NEW T, NEW n \in Nat, NEW p \in Pairs, Sound(c, T \cup {p}, n), p \notin T,
         NEW h \in Handles, c.own[h] = NoPair, NEW x \in 1 .. MaxHandles + 1
  PROVE  LET d == [c EXCEPT !.own[h] = p, !.next = x]
         IN  Sound(d, T, n)
  <1> DEFINE O == [c.own EXCEPT ![h] = p]
             d == [c EXCEPT !.own = O, !.next = x]
  <1>1. c \in Context /\ Apart(c, T \cup {p}) /\ Emptied(c)
    BY DEF Sound
  <1>2. c.own \in [Handles -> Pairs \cup {NoPair}]
    BY <1>1, ContextParts
  <1>3. O \in [Handles -> Pairs \cup {NoPair}] /\ O[h] = p
        /\ \A g \in Handles : g # h => O[g] = c.own[g]
    BY <1>2
  <1>4. [c EXCEPT !.own[h] = p, !.next = x] = d
    OBVIOUS
  <1> HIDE DEF O
  <1>5. d \in Context
    BY <1>1, <1>3, ZenonT(60) DEF Context
  <1>6. /\ d.own = O /\ d.flight = c.flight /\ d.pool = c.pool /\ d.rec = c.rec
        /\ d.alive = c.alive /\ d.open = c.open /\ d.flying = c.flying /\ d.kern = c.kern
        /\ d.leaked = c.leaked /\ d.scratch = c.scratch /\ d.submissions = c.submissions
    BY <1>1 DEF Context
  <1> HIDE DEF d
  <1>7. Owned(d) = Owned(c) \cup {p} /\ Built(d) = Built(c)
    <2>1. p # NoPair
      BY ObjectAssumption
    <2> QED
      BY <1>3, <1>6, <2>1 DEF Owned, Built
  <1>8. Holding(d, T) = Holding(c, T \cup {p})
    BY <1>6, <1>7 DEF Holding
  <1>9. \A g, e \in Handles : d.own[g] = d.own[e] /\ g # e => d.own[g] = NoPair
    <2>1. p \notin Owned(c)
      BY <1>1 DEF Apart
    <2>2. \A g \in Handles : c.own[g] # p
      BY <2>1, ObjectAssumption DEF Owned
    <2> QED
      BY <1>1, <1>3, <1>6, <2>2 DEF Apart
  <1>10. Apart(d, T)
    BY <1>1, <1>6, <1>7, <1>8, <1>9 DEF Apart
  <1>11. Emptied(d)
    BY <1>1, <1>6 DEF Emptied
  <1>12. Sound(d, T, n)
    BY <1>5, <1>6, <1>8, <1>10, <1>11, Rearranged
  <1> QED
    BY <1>4, <1>12

LEMMA DisownedSound ==
  ASSUME NEW c, NEW T, NEW n \in Nat, Sound(c, T, n), NEW h \in Handles, c.own[h] # NoPair
  PROVE  LET d == [c EXCEPT !.own[h] = NoPair]
         IN  Sound(d, T \cup {c.own[h]}, n) /\ c.own[h] \notin T /\ c.own[h] \in Pairs
  <1> DEFINE O == [c.own EXCEPT ![h] = NoPair]
             p == c.own[h]
             d == [c EXCEPT !.own = O]
  <1>1. c \in Context /\ Apart(c, T) /\ Emptied(c)
    BY DEF Sound
  <1>2. c.own \in [Handles -> Pairs \cup {NoPair}] /\ p \in Pairs /\ p # NoPair
    BY <1>1, ContextParts
  <1>3. O \in [Handles -> Pairs \cup {NoPair}] /\ O[h] = NoPair
        /\ \A g \in Handles : g # h => O[g] = c.own[g]
    BY <1>2
  <1>4. [c EXCEPT !.own[h] = NoPair] = d
    OBVIOUS
  <1> HIDE DEF O
  <1>5. d \in Context
    BY <1>1, <1>3 DEF Context
  <1>6. /\ d.own = O /\ d.flight = c.flight /\ d.pool = c.pool /\ d.rec = c.rec
        /\ d.alive = c.alive /\ d.open = c.open /\ d.flying = c.flying /\ d.kern = c.kern
        /\ d.leaked = c.leaked /\ d.scratch = c.scratch /\ d.submissions = c.submissions
    BY <1>1 DEF Context
  <1> HIDE DEF d
  <1>7. \A g \in Handles : g # h => c.own[g] # p
    BY <1>1, <1>2 DEF Apart
  <1>8. Owned(d) = Owned(c) \ {p} /\ p \in Owned(c) /\ Built(d) = Built(c)
    <2>1. p \in Owned(c) /\ Built(d) = Built(c)
      BY <1>2, <1>6 DEF Owned, Built
    <2>2. Owned(d) \subseteq Owned(c) \ {p}
      BY <1>2, <1>3, <1>6, <1>7 DEF Owned
    <2>3. Owned(c) \ {p} \subseteq Owned(d)
      BY <1>2, <1>3, <1>6, <1>7 DEF Owned
    <2> QED
      BY <2>1, <2>2, <2>3
  <1>9. Holding(d, T \cup {p}) = Holding(c, T)
    BY <1>6, <1>8 DEF Holding
  <1>10. \A g, e \in Handles : d.own[g] = d.own[e] /\ g # e => d.own[g] = NoPair
    BY <1>1, <1>3, <1>6, <1>7 DEF Apart
  <1>11. Apart(d, T \cup {p}) /\ p \notin T
    BY <1>1, <1>6, <1>8, <1>9, <1>10 DEF Apart
  <1>12. Emptied(d)
    BY <1>1, <1>6 DEF Emptied
  <1> HIDE DEF p
  <1>13. Sound(d, T \cup {p}, n)
    BY <1>5, <1>6, <1>9, <1>11, <1>12, Rearranged
  <1> QED
    BY <1>2, <1>4, <1>11, <1>13 DEF p

(* A kernel's entry changes, and with it whether it is built. *)
LEMMA UnbuildingSound ==
  ASSUME NEW c, NEW T, NEW n \in Nat, Sound(c, T, n), NEW k \in Kernels, c.kern[k].built
  PROVE  LET d == [c EXCEPT !.kern[k] = Unbuilt]
         IN  Sound(d, T \cup {k}, n) /\ k \notin T
  <1> DEFINE K == [c.kern EXCEPT ![k] = Unbuilt]
             d == [c EXCEPT !.kern = K]
  <1>1. c \in Context /\ Apart(c, T) /\ Emptied(c)
    BY DEF Sound
  <1>2. c.kern \in [Kernels -> KernelStates]
    BY <1>1, ContextParts
  <1>3. Unbuilt \in KernelStates /\ ~Unbuilt.built
    BY BoundAssumption DEF Unbuilt, KernelStates
  <1>4. K \in [Kernels -> KernelStates] /\ ~K[k].built
        /\ \A j \in Kernels : j # k => K[j] = c.kern[j]
    BY <1>2, <1>3
  <1>5. [c EXCEPT !.kern[k] = Unbuilt] = d
    OBVIOUS
  <1> HIDE DEF K
  <1>6. d \in Context
    BY <1>1, <1>4 DEF Context
  <1>7. /\ d.own = c.own /\ d.flight = c.flight /\ d.pool = c.pool /\ d.rec = c.rec
        /\ d.alive = c.alive /\ d.open = c.open /\ d.flying = c.flying /\ d.kern = K
        /\ d.leaked = c.leaked /\ d.scratch = c.scratch /\ d.submissions = c.submissions
    BY <1>1 DEF Context
  <1> HIDE DEF d
  <1>8. Owned(d) = Owned(c) /\ Built(d) = Built(c) \ {k} /\ k \in Built(c)
    BY <1>4, <1>7 DEF Owned, Built
  <1>9. Holding(d, T \cup {k}) = Holding(c, T)
    BY <1>7, <1>8 DEF Holding
  <1>10. Apart(d, T \cup {k}) /\ k \notin T
    BY <1>1, <1>7, <1>8, <1>9 DEF Apart
  <1>11. Emptied(d)
    BY <1>1, <1>7 DEF Emptied
  <1>12. Sound(d, T \cup {k}, n)
    BY <1>6, <1>7, <1>9, <1>10, <1>11, Rearranged
  <1> QED
    BY <1>5, <1>10, <1>12

LEMMA RetiredOpen ==
  ASSUME NEW c, NEW S, NEW T, NEW n \in Nat, Sound(c, S \cup T, n), S \cap T = {}, c.open
  PROVE  LET d == [c EXCEPT !.rec.retired = @ \cup S]
         IN  Sound(d, T, n)
  <1> DEFINE b == [c.rec EXCEPT !.retired = @ \cup S]
             d == [c EXCEPT !.rec = b]
  <1>1. c \in Context /\ Apart(c, S \cup T) /\ Emptied(c)
    BY DEF Sound
  <1>2. S \subseteq Objects
    BY <1>1, ContextParts DEF Apart, Holding
  <1>3. b \in Batches /\ b.retired = c.rec.retired \cup S
    <2>1. c.rec \in Batches
      BY <1>1, ContextParts
    <2> QED
      BY <1>2, <2>1 DEF Batches
  <1>4. [c EXCEPT !.rec.retired = @ \cup S] = d
    OBVIOUS
  <1> HIDE DEF b
  <1>5. d \in Context
    BY <1>1, <1>3 DEF Context
  <1>6. /\ d.own = c.own /\ d.flight = c.flight /\ d.pool = c.pool /\ d.rec = b
        /\ d.alive = c.alive /\ d.open = c.open /\ d.flying = c.flying /\ d.kern = c.kern
        /\ d.leaked = c.leaked /\ d.scratch = c.scratch /\ d.submissions = c.submissions
    BY <1>1 DEF Context
  <1> HIDE DEF d
  <1>7. Owned(d) = Owned(c) /\ Built(d) = Built(c)
    BY <1>6 DEF Owned, Built
  <1>8. Holding(d, T) = Holding(c, S \cup T)
    BY <1>3, <1>6, <1>7 DEF Holding
  <1>9. Apart(d, T)
    <2> DEFINE H == Owned(c) \cup Built(c) \cup c.pool
               R == c.rec.retired
               F == c.flight.retired
    <2>1. H \cap R = {} /\ (H \cup R) \cap F = {} /\ (H \cup R \cup F) \cap (S \cup T) = {}
      BY <1>1 DEF Apart
    <2> HIDE DEF H, R, F
    <2>2. /\ H \cap (R \cup S) = {} /\ (H \cup (R \cup S)) \cap F = {}
          /\ (H \cup (R \cup S) \cup F) \cap T = {}
      BY <1>1, <2>1
    <2> QED
      BY <1>1, <1>3, <1>6, <1>7, <1>8, <2>2 DEF Apart, H, R, F
  <1>10. Emptied(d)
    BY <1>1, <1>6 DEF Emptied
  <1>11. Sound(d, T, n)
    BY <1>5, <1>6, <1>8, <1>9, <1>10, Rearranged
  <1> QED
    BY <1>4, <1>11

LEMMA RetiredFlying ==
  ASSUME NEW c, NEW S, NEW T, NEW n \in Nat, Sound(c, S \cup T, n), S \cap T = {}, c.flying
  PROVE  LET d == [c EXCEPT !.flight.retired = @ \cup S]
         IN  Sound(d, T, n)
  <1> DEFINE b == [c.flight EXCEPT !.retired = @ \cup S]
             d == [c EXCEPT !.flight = b]
  <1>1. c \in Context /\ Apart(c, S \cup T) /\ Emptied(c)
    BY DEF Sound
  <1>2. S \subseteq Objects
    BY <1>1, ContextParts DEF Apart, Holding
  <1>3. b \in Batches /\ b.retired = c.flight.retired \cup S
    <2>1. c.flight \in Batches
      BY <1>1, ContextParts
    <2> QED
      BY <1>2, <2>1 DEF Batches
  <1>4. [c EXCEPT !.flight.retired = @ \cup S] = d
    OBVIOUS
  <1> HIDE DEF b
  <1>5. d \in Context
    BY <1>1, <1>3 DEF Context
  <1>6. /\ d.own = c.own /\ d.flight = b /\ d.pool = c.pool /\ d.rec = c.rec
        /\ d.alive = c.alive /\ d.open = c.open /\ d.flying = c.flying /\ d.kern = c.kern
        /\ d.leaked = c.leaked /\ d.scratch = c.scratch /\ d.submissions = c.submissions
    BY <1>1 DEF Context
  <1> HIDE DEF d
  <1>7. Owned(d) = Owned(c) /\ Built(d) = Built(c)
    BY <1>6 DEF Owned, Built
  <1>8. Holding(d, T) = Holding(c, S \cup T)
    BY <1>3, <1>6, <1>7 DEF Holding
  <1>9. Apart(d, T)
    BY <1>1, <1>3, <1>6, <1>7, <1>8 DEF Apart
  <1>10. Emptied(d)
    BY <1>1, <1>6 DEF Emptied
  <1>11. Sound(d, T, n)
    BY <1>5, <1>6, <1>8, <1>9, <1>10, Rearranged
  <1> QED
    BY <1>4, <1>11

LEMMA OneShotSound ==
  ASSUME NEW c, NEW T, NEW n \in Nat, Sound(c, T, n), NEW shot \in Shots, NEW m \in Cells,
         NEW uses \in SUBSET Objects, NEW extra \in Nat
  PROVE  LET d == OneShot(c, shot, m, uses, extra)
         IN  /\ Sound(d, T, n) /\ Carried(c, d)
             /\ d.alive = c.alive /\ d.pool = c.pool
             /\ shot \in {"ok", "idle", "fails"} => d.poisoned = c.poisoned
             /\ shot = "lost" => d.lost
  <1>1. c \in Context /\ Stray(c, n) >= 0
    BY DEF Sound, Counted
  <1>2. shot \in {"ok", "fails", "idle", "lost", "unknown"}
    BY BoundAssumption DEF Shots
  <1>3. CASE shot \in {"ok", "idle"}
    <2> DEFINE e == [c EXCEPT !.mem = m, !.ran = c.ran]
    <2>1. OneShot(c, shot, m, uses, extra) = [c EXCEPT !.mem = m]
      BY <1>3 DEF OneShot
    <2>2. [c EXCEPT !.mem = m] = e /\ e.alive = c.alive /\ e.pool = c.pool
      BY <1>1 DEF Context
    <2>3. c.ran \in BOOLEAN
      BY <1>1, ContextParts
    <2>4. Sound(e, T, n) /\ Carried(c, e) /\ e.poisoned = c.poisoned
      BY <2>3, MemorySound, ZenonT(60)
    <2> HIDE DEF e
    <2> QED
      BY <1>3, <2>1, <2>2, <2>4
  <1>4. CASE shot = "fails"
    <2>1. OneShot(c, shot, m, uses, extra) = c
      BY <1>4 DEF OneShot
    <2> QED
      BY <1>4, <2>1 DEF Carried, Passed
  <1>5. CASE shot = "lost"
    <2> DEFINE yes == TRUE
               p == Poisoned(c, yes)
    <2>1. OneShot(c, shot, m, uses, extra) = p
      BY <1>5 DEF OneShot
    <2>2. yes \in BOOLEAN /\ yes
      OBVIOUS
    <2>3. p.alive = c.alive /\ p.pool = c.pool
      BY <1>1 DEF Poisoned, Context
    <2> HIDE DEF yes
    <2>4. Sound(p, T, n) /\ Carried(c, p) /\ p.lost = (c.lost \/ yes)
      BY <2>2, PoisonedSound
    <2> HIDE DEF p
    <2> QED
      BY <1>5, <2>1, <2>2, <2>3, <2>4
  <1>6. CASE shot = "unknown"
    <2> DEFINE p == Poisoned(c, FALSE)
               l == p.leaked + 2 + extra
               x == p.scratch + extra
               s == p.submissions + 1
               a == p.adrift \cup uses
               d == [p EXCEPT !.leaked = l, !.scratch = x, !.submissions = s, !.adrift = a]
    <2>1. OneShot(c, shot, m, uses, extra) = d
      BY <1>6 DEF OneShot
    <2>2. p.alive = c.alive /\ p.pool = c.pool
      BY <1>1 DEF Poisoned, Context
    <2>3. Sound(p, T, n) /\ Carried(c, p) /\ p.poisoned
      BY PoisonedSound
    <2> HIDE DEF p
    <2>4. p \in Context /\ Stray(p, n) >= 0 /\ Emptied(p)
      BY <2>3 DEF Sound, Counted
    <2>5. /\ l \in Nat /\ x \in Nat /\ s \in Nat /\ a \in SUBSET Objects
          /\ p.leaked \in Nat /\ p.scratch \in Nat /\ p.submissions \in Nat
          /\ l = p.leaked + 2 + extra /\ x = p.scratch + extra /\ s = p.submissions + 1
      BY <2>4, ContextParts
    <2> HIDE DEF l, x, s, a
    <2>6. d \in Context
      BY <2>4, <2>5 DEF Context
    <2>7. /\ d.own = p.own /\ d.rec = p.rec /\ d.flight = p.flight /\ d.pool = p.pool
          /\ d.alive = p.alive /\ d.open = p.open /\ d.flying = p.flying /\ d.kern = p.kern
          /\ d.leaked = l /\ d.scratch = x /\ d.submissions = s
      BY <2>4 DEF Context
    <2>8. Carried(p, d)
      BY <2>3, <2>4 DEF Carried, Passed, Context
    <2> HIDE DEF d
    <2>9. /\ Stray(d, n) = Stray(p, n) + 1
          /\ Stray(d, n) \in Int /\ Stray(p, n) \in Int
      <3>1. One(p.open) \in Nat /\ One(p.flying) \in Nat
        BY DEF One
      <3>2. Stray(d, n) = s - n - One(p.open) - One(p.flying)
        BY <2>7 DEF Stray
      <3>3. Stray(p, n) = p.submissions - n - One(p.open) - One(p.flying)
        BY DEF Stray
      <3> QED
        BY <2>5, <3>1, <3>2, <3>3
    <2>10. /\ Stray(d, n) >= 0
           /\ d.leaked - d.scratch - 2 * Stray(d, n)
                = p.leaked - p.scratch - 2 * Stray(p, n)
      <3>1. d.leaked = p.leaked + 2 + extra /\ d.scratch = p.scratch + extra
        BY <2>5, <2>7
      <3>2. Stray(d, n) >= 0
        BY <2>4, <2>9
      <3> HIDE DEF p, d
      <3>3. d.leaked - d.scratch - 2 * Stray(d, n)
              = p.leaked - p.scratch - 2 * Stray(p, n)
        BY <2>5, <2>9, <3>1
      <3> QED
        BY <3>2, <3>3
    <2>11. Sound(d, T, n)
      BY <2>3, <2>6, <2>7, <2>9, <2>10, Untouched
    <2>12. Carried(c, d) /\ d.alive = c.alive /\ d.pool = c.pool
      BY <2>2, <2>3, <2>7, <2>8 DEF Carried, Passed
    <2> QED
      BY <1>6, <2>1, <2>11, <2>12
  <1> QED
    BY <1>2, <1>3, <1>4, <1>5, <1>6

(* What dropping the batches of a context leaves. *)
AbandonLeaves(c, d) ==
  /\ ~d.open /\ ~d.flying
  /\ d.own = c.own /\ d.next = c.next /\ d.kern = c.kern /\ d.bindings = c.bindings
  /\ d.closed = c.closed /\ d.faults = c.faults
  /\ c.poisoned => d.poisoned
  /\ c.lost => d.lost
  /\ ~d.poisoned => d.adrift = c.adrift

LEMMA AbandonedSound ==
  ASSUME NEW c, Sound(c, {}, 0), NEW wait \in WaitResults
  PROVE  LET d == Abandoned(c, wait)
         IN  Sound(d, {}, 0) /\ AbandonLeaves(c, d)
  <1> DEFINE a == IF c.flying /\ c.poisoned
                  THEN Leaked([c EXCEPT !.leaked = @ + 2, !.flying = FALSE,
                                        !.flight = NoBatch, !.ran = FALSE,
                                        !.adrift = @ \cup Uses(c.flight.cmds)],
                              c.flight.retired)
                  ELSE Reaped(c, wait)
             d0 == [a EXCEPT !.open = FALSE, !.rec = NoBatch]
             d == SubmissionReleased(d0)
  <1>1. c \in Context /\ c.flight \in Batches /\ 0 \in Nat /\ 1 \in Nat /\ 0 + 1 = 1
    BY ContextParts DEF Sound
  <1>2. Sound(a, {}, 0) /\ Passed(c, a) /\ ~a.flying
    <2>1. CASE c.flying /\ c.poisoned
      <3> DEFINE e1 == [c EXCEPT !.flying = FALSE, !.flight = NoBatch, !.ran = FALSE]
                 e2 == [e1 EXCEPT !.leaked = @ + 2]
                 ad == c.adrift \cup Uses(c.flight.cmds)
                 e3 == [e2 EXCEPT !.adrift = ad]
      <3>1. Sound(e1, c.flight.retired \cup {}, 0 + 1) /\ c.flight.retired \cap {} = {}
        BY <1>1, <2>1, BatchLanded
      <3>2. Passed(c, e1) /\ ~e1.flying
        BY <1>1 DEF Context, Passed
      <3>3. e3 = [c EXCEPT !.leaked = @ + 2, !.flying = FALSE,
                           !.flight = NoBatch, !.ran = FALSE,
                           !.adrift = @ \cup Uses(c.flight.cmds)]
        BY <1>1 DEF Context
      <3> HIDE DEF e1
      <3>4. Sound(e2, c.flight.retired \cup {}, 0) /\ Carried(e1, e2)
        BY <1>1, <3>1, StraySound
      <3>5. ad \in SUBSET Objects
        BY <1>1, ContextParts, BatchParts
      <3> HIDE DEF e2, ad
      <3>6. Sound(e3, c.flight.retired \cup {}, 0) /\ (e2.poisoned => Carried(e2, e3))
        BY <1>1, <3>4, <3>5, AdriftSound
      <3>7. e2.poisoned
        BY <2>1, <3>2, <3>4 DEF Carried, Passed
      <3> DEFINE l == Leaked(e3, c.flight.retired)
      <3>8. a = l
        BY <2>1, <3>3
      <3> HIDE DEF e3
      <3>9. Sound(l, {}, 0) /\ Carried(e3, l)
        BY <1>1, <3>1, <3>6, LeakedSound
      <3> HIDE DEF l, a
      <3>10. Passed(c, l) /\ ~l.flying
        BY <3>2, <3>4, <3>6, <3>7, <3>9 DEF Carried, Passed
      <3> QED
        BY <3>8, <3>9, <3>10
    <2>2. CASE ~(c.flying /\ c.poisoned)
      <3>1. a = Reaped(c, wait)
        BY <2>2
      <3> HIDE DEF a
      <3> QED
        BY <1>1, <3>1, ReapedSound
    <2> QED
      BY <2>1, <2>2
  <1>3. Abandoned(c, wait) = IF ~a.open THEN a
                             ELSE IF a.poisoned THEN Scrapped(d, a.rec.retired)
                             ELSE Recycled(d, a.rec.retired)
    BY DEF Abandoned
  <1> HIDE DEF a
  <1>4. CASE ~a.open
    <2>1. Abandoned(c, wait) = a
      BY <1>3, <1>4
    <2>2. AbandonLeaves(c, a)
      BY <1>2, <1>4 DEF Passed, AbandonLeaves
    <2> QED
      BY <1>2, <2>1, <2>2
  <1>5. CASE a.open
    <2>1. Sound(d0, a.rec.retired \cup {}, 0 + 1) /\ a.rec.retired \cap {} = {}
      BY <1>1, <1>2, <1>5, BatchClosed
    <2>2. /\ ~d0.open /\ ~d0.flying /\ d0.own = a.own /\ d0.next = a.next
          /\ d0.kern = a.kern /\ d0.bindings = a.bindings
          /\ d0.closed = a.closed /\ d0.faults = a.faults
          /\ d0.poisoned = a.poisoned /\ d0.lost = a.lost /\ d0.adrift = a.adrift
      <3>1. a \in Context
        BY <1>2 DEF Sound
      <3> QED
        BY <1>2, <3>1 DEF Context
    <2> HIDE DEF d0
    <2>3. Sound(d, a.rec.retired \cup {}, 0) /\ Carried(d0, d)
      BY <1>1, <2>1, SubmissionReleasedSound
    <2> HIDE DEF d
    <2>4. /\ Sound(Scrapped(d, a.rec.retired), {}, 0)
          /\ Carried(d, Scrapped(d, a.rec.retired))
      BY <1>1, <2>1, <2>3, ScrappedSound
    <2>5. /\ Sound(Recycled(d, a.rec.retired), {}, 0)
          /\ Carried(d, Recycled(d, a.rec.retired))
      BY <1>1, <2>1, <2>3, RecycledSound
    <2>6. ASSUME NEW z, Carried(d, z) PROVE AbandonLeaves(c, z)
      BY <1>2, <2>2, <2>3, <2>6 DEF Carried, Passed, AbandonLeaves
    <2> QED
      BY <1>3, <1>5, <2>4, <2>5, <2>6
  <1> QED
    BY <1>4, <1>5

-----------------------------------------------------------------------------
(* The inductive invariant of the calls.                                   *)

(* An id not yet given owns nothing. *)
Fresh(c) == \A h \in Handles : h >= c.next => c.own[h] = NoPair

(* A kernel that was bound has a pair to write into its next set. *)
Bound(c) == \A k \in Kernels : c.kern[k].bound # 0 => c.kern[k].pending \in Pairs

(* A closed context whose device is in a known state holds no batch and    *)
(* pools nothing.                                                          *)
Left(c) ==
  c.closed /\ (c.poisoned => c.lost) => ~c.open /\ ~c.flying /\ c.pool = {}

Whole(c) == Sound(c, {}, 0) /\ Fresh(c) /\ Bound(c)

IInv == Whole(ctx) /\ Left(ctx)

(* What most steps of a call leave as it was. *)
Calm(c, d) ==
  /\ d.own = c.own /\ d.next = c.next /\ d.closed = c.closed
  /\ \A k \in Kernels : /\ d.kern[k].bound = c.kern[k].bound
                        /\ d.kern[k].pending = c.kern[k].pending

LEMMA CalmWhole ==
  ASSUME NEW c, Whole(c), NEW d, Sound(d, {}, 0), Calm(c, d)
  PROVE  Whole(d)
  BY DEF Whole, Calm, Fresh, Bound

(* All but what a call answers. *)
Same(c, d) ==
  /\ d.open = c.open /\ d.rec = c.rec /\ d.flying = c.flying /\ d.flight = c.flight
  /\ d.ran = c.ran /\ d.adrift = c.adrift /\ d.own = c.own /\ d.next = c.next
  /\ d.pool = c.pool /\ d.kern = c.kern /\ d.alive = c.alive
  /\ d.submissions = c.submissions /\ d.scratch = c.scratch /\ d.mem = c.mem
  /\ d.bindings = c.bindings /\ d.poisoned = c.poisoned /\ d.lost = c.lost
  /\ d.leaked = c.leaked /\ d.closed = c.closed

LEMMA SameSound ==
  ASSUME NEW c, NEW T, NEW n \in Nat, Sound(c, T, n), NEW d \in Context, Same(c, d)
  PROVE  Sound(d, T, n)
  <1>1. c \in Context /\ Stray(c, n) >= 0
    BY DEF Sound, Counted
  <1>2. Stray(d, n) = Stray(c, n) /\ Stray(c, n) \in Int
    BY <1>1, StrayType DEF Same, Stray
  <1>3. c.leaked \in Nat /\ c.scratch \in Nat /\ d.leaked = c.leaked /\ d.scratch = c.scratch
    BY <1>1, ContextParts DEF Same
  <1> QED
    BY <1>1, <1>2, <1>3, Untouched DEF Same

LEMMA CalledWhole ==
  ASSUME Whole(ctx), NEW n \in Nat, ctx.faults + n <= MaxFaults
  PROVE  LET d == Called(n)
         IN  Whole(d) /\ Same(ctx, d) /\ d.faults = ctx.faults + n
             /\ d.answer = NoAnswer /\ d.wrote = 0
  <1> DEFINE f == ctx.faults + n
             d == [ctx EXCEPT !.answer = NoAnswer, !.wrote = 0, !.faults = f]
  <1>1. ctx \in Context /\ Sound(ctx, {}, 0)
    BY DEF Whole, Sound
  <1>2. f \in 0 .. MaxFaults
    <2>1. ctx.faults \in 0 .. MaxFaults /\ MaxFaults \in Nat
      BY <1>1, ContextParts, BoundAssumption
    <2> QED
      BY <2>1
  <1>3. Called(n) = d /\ f = ctx.faults + n
    BY DEF Called
  <1> HIDE DEF f
  <1>4. d \in Context
    BY <1>1, <1>2 DEF Context
  <1>5. Same(ctx, d) /\ d.faults = f /\ d.answer = NoAnswer /\ d.wrote = 0
    BY <1>1 DEF Same, Context
  <1> HIDE DEF d
  <1>6. Sound(d, {}, 0)
    BY <1>1, <1>4, <1>5, SameSound
  <1>7. Whole(d)
    BY <1>5, <1>6, CalmWhole DEF Calm, Same
  <1> QED
    BY <1>3, <1>5, <1>7

LEMMA WritingWhole ==
  ASSUME NEW c, Whole(c), NEW h \in Handles \cup {0, Everything}
  PROVE  LET d == Writing(c, h)
         IN  Whole(d) /\ Same(c, d) /\ d.faults = c.faults
  <1> DEFINE w == IF c.poisoned THEN 0 ELSE h
             d == [c EXCEPT !.wrote = w]
  <1>1. c \in Context /\ Sound(c, {}, 0) /\ w \in Handles \cup {0, Everything}
    BY DEF Whole, Sound
  <1>2. Writing(c, h) = d
    BY DEF Writing
  <1> HIDE DEF w
  <1>3. d \in Context
    BY <1>1 DEF Context
  <1>4. Same(c, d) /\ d.faults = c.faults
    BY <1>1 DEF Same, Context
  <1> HIDE DEF d
  <1>5. Sound(d, {}, 0)
    BY <1>1, <1>3, <1>4, SameSound
  <1>6. Whole(d)
    BY <1>4, <1>5, CalmWhole DEF Calm, Same
  <1> QED
    BY <1>2, <1>4, <1>6

LEMMA CompletingType ==
  ASSUME NEW reason
  PROVE  Completing(reason) \in BOOLEAN
  BY BoundAssumption DEF Completing

LEMMA FlushWhole ==
  ASSUME NEW c, Whole(c), NEW reason, NEW f \in Outcomes
  PROVE  LET d == Flush(c, reason, f)
         IN  /\ Whole(d) /\ FlushLeaves(c, d, Completing(reason))
             /\ \A k \in Kernels : /\ d.kern[k].bound = c.kern[k].bound
                                   /\ d.kern[k].pending = c.kern[k].pending
                                   /\ d.kern[k].mark = 0 /\ d.kern[k].reuse = NoSet
  <1> DEFINE d == Flush(c, reason, f)
  <1>1. Sound(d, {}, 0) /\ FlushLeaves(c, d, Completing(reason))
    BY CompletingType, FlushedSound DEF Whole, Flush
  <1> HIDE DEF d
  <1>2. c.kern \in [Kernels -> KernelStates]
    BY ContextParts DEF Whole, Sound
  <1>3. ASSUME NEW k \in Kernels
        PROVE  /\ d.kern[k].bound = c.kern[k].bound
               /\ d.kern[k].pending = c.kern[k].pending
               /\ d.kern[k].mark = 0 /\ d.kern[k].reuse = NoSet
    <2>1. d.kern[k] = [c.kern[k] EXCEPT !.mark = 0, !.reuse = NoSet]
      BY <1>1 DEF FlushLeaves, Aged
    <2>2. c.kern[k] \in KernelStates
      BY <1>2
    <2> QED
      BY <2>1, <2>2 DEF KernelStates
  <1>4. Whole(d)
    BY <1>1, <1>3, CalmWhole DEF FlushLeaves, Calm
  <1> QED
    BY <1>1, <1>3, <1>4 DEF d

(* A step of a live context stays clear of what closing leaves. *)
LEMMA OpenLeft ==
  ASSUME NEW c, ~c.closed
  PROVE  Left(c)
  BY DEF Left

LEMMA CostType ==
  ASSUME NEW outcome, NEW fine
  PROVE  Cost(outcome, fine) \in Nat
  BY DEF Cost

-----------------------------------------------------------------------------
(* Each call keeps the invariant.                                          *)

LEMMA StepHeld ==
  ASSUME NEW d, ctx' = d, Whole(d), Left(d)
  PROVE  IInv'
  BY DEF IInv, Whole, Left, Sound, Apart, Counted, Emptied, Fresh, Bound, Owned, Built,
         Holding, Stray, One

LEMMA BufferHeld ==
  ASSUME IInv, Buffer
  PROVE  IInv'
  <1> DEFINE c == Called(0)
             h == ctx.next
             x == c.next + 1
  <1>1. ~ctx.closed /\ ctx.next <= MaxHandles /\ ctx.faults + 0 <= MaxFaults /\ Whole(ctx)
    BY DEF Buffer, Live, IInv
  <1>2. Whole(c) /\ Same(ctx, c) /\ 0 \in Nat
    BY <1>1, CalledWhole
  <1> DEFINE To(p, m) == [c EXCEPT !.pool = @ \ {p}, !.alive = @ \cup {p}, !.mem = m,
                                   !.own[h] = p, !.next = x]
  <1>3. PICK p \in Pairs, m \in Cells :
          (p \in c.pool \/ p \notin c.alive) /\ ctx' = To(p, m)
    <2>1. c \in Context /\ Holding(c, {}) \subseteq c.alive
      BY <1>2 DEF Whole, Sound, Apart
    <2>2. c.mem \in Cells /\ c.pool \subseteq c.alive
      BY <2>1, ContextParts DEF Holding
    <2>3. ctx.pool = c.pool /\ ctx.alive = c.alive /\ ctx.next = c.next
      BY <1>2 DEF Same
    <2>4. CASE ctx.pool \cap Pairs # {}
      <3>1. PICK p \in ctx.pool \cap Pairs :
              ctx' = [c EXCEPT !.pool = @ \ {p}, !.own[h] = p, !.next = @ + 1]
        BY <2>4 DEF Buffer
      <3>2. c.alive = c.alive \cup {p}
        BY <2>2, <2>3, <3>1
      <3>3. [c EXCEPT !.pool = @ \ {p}, !.own[h] = p, !.next = @ + 1]
              = To(p, c.mem)
        BY <2>1, <3>2 DEF Context
      <3> HIDE DEF c, h, x, To
      <3> QED
        BY <2>2, <2>3, <3>1, <3>2, <3>3
    <2>5. CASE ctx.pool \cap Pairs = {}
      <3>1. PICK p \in Pairs \ ctx.alive :
              ctx' = [c EXCEPT !.alive = @ \cup {p}, !.own[h] = p,
                               !.next = @ + 1, !.mem[p] = Junk]
        BY <2>5 DEF Buffer
      <3> DEFINE m == [c.mem EXCEPT ![p] = Junk]
      <3>2. c.pool = c.pool \ {p}
        BY <2>2, <2>3, <3>1
      <3>3. m \in Cells
        BY <2>2 DEF Cells, Contents
      <3>4. [c EXCEPT !.alive = @ \cup {p}, !.own[h] = p, !.next = @ + 1, !.mem[p] = Junk]
              = To(p, m)
        BY <2>1, <3>2 DEF Context
      <3> HIDE DEF c, h, x, m, To
      <3> QED
        BY <2>3, <3>1, <3>2, <3>3, <3>4
    <2> QED
      BY <2>4, <2>5
  <1> HIDE DEF c
  <1> DEFINE t == [c EXCEPT !.pool = @ \ {p}, !.alive = @ \cup {p}, !.mem = m]
             d == [t EXCEPT !.own[h] = p, !.next = x]
  <1>5. Sound(t, {} \cup {p}, 0) /\ Carried(c, t) /\ p \notin {}
    <2>1. Sound(c, {}, 0) /\ p \in Objects
      BY <1>2 DEF Whole, Objects
    <2> QED
      BY <1>2, <1>3, <2>1, TakenSound
  <1>6. ctx' = d
    BY <1>3
  <1> HIDE DEF t
  <1>7. t.own = c.own /\ t.next = c.next /\ t.kern = c.kern /\ t.closed = c.closed
    BY <1>5 DEF Carried, Passed
  <1>8. c.next \in 1 .. MaxHandles + 1 /\ MaxHandles \in Nat
        /\ c.own \in [Handles -> Pairs \cup {NoPair}]
    <2>1. c \in Context
      BY <1>2 DEF Whole, Sound
    <2> QED
      BY <2>1, BoundAssumption DEF Context
  <1>9. ctx.next = c.next /\ ~c.closed
    BY <1>1, <1>2 DEF Same
  <1>10. h \in Handles /\ x \in 1 .. MaxHandles + 1 /\ h \in Nat /\ x = h + 1
    BY <1>1, <1>8, <1>9 DEF Handles
  <1>11. Fresh(c) /\ Bound(c)
    BY <1>2 DEF Whole
  <1>12. c.own[h] = NoPair
    BY <1>9, <1>10, <1>11 DEF Fresh, Handles
  <1> HIDE DEF h, x
  <1>13. Sound(d, {}, 0)
    BY <1>2, <1>5, <1>7, <1>10, <1>12, OwningSound
  <1>14. d.own = [c.own EXCEPT ![h] = p] /\ d.next = x /\ d.kern = c.kern
         /\ d.closed = c.closed
    <2>1. t \in Context
      BY <1>5 DEF Sound
    <2> QED
      BY <1>7, <2>1 DEF Context
  <1> HIDE DEF d
  <1>15. Fresh(d)
    <2> SUFFICES ASSUME NEW g \in Handles, g >= d.next PROVE d.own[g] = NoPair
      BY DEF Fresh
    <2>1. g \in Nat /\ g # h /\ g >= c.next
      BY <1>9, <1>10, <1>14 DEF Handles, h
    <2> QED
      BY <1>8, <1>11, <1>14, <2>1 DEF Fresh
  <1>16. Bound(d)
    BY <1>11, <1>14 DEF Bound
  <1>17. Left(d)
    BY <1>9, <1>14, OpenLeft
  <1> QED
    BY <1>6, <1>13, <1>15, <1>16, <1>17, StepHeld DEF Whole

(* An object that has left its holder goes into the open batch, into the   *)
(* one in flight, or is released at once.                                  *)
LEMMA RetirementHeld ==
  ASSUME NEW c, NEW S, Sound(c, S, 0), Fresh(c), Bound(c)
  PROVE  /\ ~c.open => Whole(ReleasedOrLeaked(c, S)) /\ Calm(c, ReleasedOrLeaked(c, S))
         /\ c.open => LET d == [c EXCEPT !.rec.retired = @ \cup S]
                      IN  Whole(d) /\ Calm(c, d) /\ d.open
         /\ c.flying => LET d == [c EXCEPT !.flight.retired = @ \cup S]
                        IN  Whole(d) /\ Calm(c, d)
  <1>1. 0 \in Nat /\ Sound(c, S \cup {}, 0) /\ S \cap {} = {} /\ c \in Context
    <2>1. S \cup {} = S
      OBVIOUS
    <2> QED
      BY <2>1 DEF Sound
  <1>2. ~c.open => Whole(ReleasedOrLeaked(c, S)) /\ Calm(c, ReleasedOrLeaked(c, S))
    <2> DEFINE d == ReleasedOrLeaked(c, S)
    <2>1. Sound(d, {}, 0) /\ Carried(c, d)
      BY <1>1, ReleasedOrLeakedSound
    <2> HIDE DEF d
    <2>2. Calm(c, d)
      BY <2>1 DEF Carried, Passed, Calm
    <2>3. Whole(d)
      BY <2>1, <2>2 DEF Whole, Fresh, Bound, Calm
    <2> QED
      BY <2>2, <2>3 DEF d
  <1>3. ASSUME c.open
        PROVE  LET d == [c EXCEPT !.rec.retired = @ \cup S]
               IN  Whole(d) /\ Calm(c, d) /\ d.open
    <2> DEFINE d == [c EXCEPT !.rec.retired = @ \cup S]
    <2>1. Sound(d, {}, 0)
      BY <1>1, <1>3, RetiredOpen
    <2>2. Calm(c, d) /\ d.open
      BY <1>1, <1>3 DEF Calm, Context
    <2> HIDE DEF d
    <2>3. Whole(d)
      BY <2>1, <2>2 DEF Whole, Fresh, Bound, Calm
    <2> QED
      BY <2>2, <2>3 DEF d
  <1>4. ASSUME c.flying
        PROVE  LET d == [c EXCEPT !.flight.retired = @ \cup S]
               IN  Whole(d) /\ Calm(c, d)
    <2> DEFINE d == [c EXCEPT !.flight.retired = @ \cup S]
    <2>1. Sound(d, {}, 0)
      BY <1>1, <1>4, RetiredFlying
    <2>2. Calm(c, d)
      BY <1>1, <1>4 DEF Calm, Context
    <2> HIDE DEF d
    <2>3. Whole(d)
      BY <2>1, <2>2 DEF Whole, Fresh, Bound, Calm
    <2> QED
      BY <2>2, <2>3 DEF d
  <1> QED
    BY <1>2, <1>3, <1>4

LEMMA FreeBufferHeld ==
  ASSUME IInv, NEW h \in Handles, NEW f \in Outcomes, FreeBuffer(h, f)
  PROVE  IInv'
  <1> DEFINE n == Cost(f, Idle)
             e == Called(n)
             p == ctx.own[h]
             c == [e EXCEPT !.own[h] = NoPair]
             r == [c EXCEPT !.rec.retired = @ \cup {p}]
             due == Cardinality(r.rec.retired \cap Pairs) > MaxRetired
  <1>1. ~ctx.closed /\ p # NoPair /\ Whole(ctx)
    BY DEF FreeBuffer, IInv
  <1>2. n \in Nat /\ ctx.faults + n <= MaxFaults
    <2>1. ctx.faults \in 0 .. MaxFaults /\ MaxFaults \in Nat /\ ctx \in Context
      BY <1>1, ContextParts, BoundAssumption DEF Whole, Sound
    <2>2. f = Idle => n = 0
      BY DEF Cost
    <2>3. f # Idle => ctx.faults + n <= MaxFaults
      <3>1. c.faults = ctx.faults + n
        BY <2>1 DEF Called, Context
      <3>2. f # Idle => c.faults <= MaxFaults
        BY DEF FreeBuffer
      <3> QED
        BY <3>1, <3>2
    <2> QED
      BY <2>1, <2>2, <2>3, CostType
  <1>3. ctx' = IF ~c.open /\ c.flying THEN [c EXCEPT !.flight.retired = @ \cup {p}]
               ELSE IF ~c.open THEN ReleasedOrLeaked(c, {p})
               ELSE IF due THEN Flush(r, "RetirementBudget", f)
               ELSE r
    BY DEF FreeBuffer
  <1> HIDE DEF n, due
  <1>4. Whole(e) /\ Same(ctx, e)
    BY <1>1, <1>2, CalledWhole
  <1> HIDE DEF e
  <1>5. e.own[h] = p /\ Sound(e, {}, 0) /\ e \in Context /\ Fresh(e) /\ Bound(e) /\ 0 \in Nat
        /\ ~e.closed
    BY <1>1, <1>4 DEF Same, Whole, Sound
  <1>6. Sound(c, {p}, 0)
    <2>1. Sound(c, {} \cup {p}, 0)
      BY <1>1, <1>5, DisownedSound
    <2>2. {} \cup {p} = {p}
      OBVIOUS
    <2> QED
      BY <2>1, <2>2
  <1>7. c.own = [e.own EXCEPT ![h] = NoPair] /\ c.next = e.next /\ c.kern = e.kern
        /\ c.closed = e.closed
    BY <1>5 DEF Context
  <1> HIDE DEF c, p
  <1>8. Fresh(c) /\ Bound(c) /\ ~c.closed
    <2>1. e.own \in [Handles -> Pairs \cup {NoPair}]
      BY <1>5, ContextParts
    <2> QED
      BY <1>5, <1>7, <2>1 DEF Fresh, Bound
  <1>9. CASE ~c.open /\ c.flying
    <2> DEFINE d == [c EXCEPT !.flight.retired = @ \cup {p}]
    <2>1. Whole(d) /\ Calm(c, d)
      BY <1>6, <1>8, <1>9, RetirementHeld
    <2>2. ctx' = d
      BY <1>3, <1>9
    <2> HIDE DEF d
    <2> QED
      BY <1>8, <2>1, <2>2, OpenLeft, StepHeld DEF Calm
  <1>10. CASE ~c.open /\ ~c.flying
    <2> DEFINE d == ReleasedOrLeaked(c, {p})
    <2>1. Whole(d) /\ Calm(c, d)
      BY <1>6, <1>8, <1>10, RetirementHeld
    <2>2. ctx' = d
      BY <1>3, <1>10
    <2> HIDE DEF d
    <2> QED
      BY <1>8, <2>1, <2>2, OpenLeft, StepHeld DEF Calm
  <1>11. CASE c.open
    <2>1. Whole(r) /\ Calm(c, r)
      BY <1>6, <1>8, <1>11, RetirementHeld
    <2> HIDE DEF r
    <2>2. CASE ~due
      <3>1. ctx' = r
        BY <1>3, <1>11, <2>2
      <3> QED
        BY <1>8, <2>1, <3>1, OpenLeft, StepHeld DEF Calm
    <2>3. CASE due
      <3> DEFINE d == Flush(r, "RetirementBudget", f)
      <3>1. Whole(d) /\ FlushLeaves(r, d, Completing("RetirementBudget"))
        BY <2>1, FlushWhole
      <3>2. ctx' = d
        BY <1>3, <1>11, <2>3
      <3> HIDE DEF d
      <3> QED
        BY <1>8, <2>1, <3>1, <3>2, OpenLeft, StepHeld DEF Calm, FlushLeaves
    <2> QED
      BY <2>2, <2>3
  <1> QED
    BY <1>9, <1>10, <1>11

LEMMA DestroyKernelHeld ==
  ASSUME IInv, NEW k \in Kernels, DestroyKernel(k)
  PROVE  IInv'
  <1> DEFINE e == Called(0)
             c == [e EXCEPT !.kern[k] = Unbuilt]
  <1>1. ~ctx.closed /\ ctx.kern[k].built /\ Whole(ctx)
    BY DEF DestroyKernel, IInv
  <1>2. ctx.faults + 0 <= MaxFaults /\ 0 \in Nat
    <2>1. ctx.faults \in 0 .. MaxFaults /\ MaxFaults \in Nat /\ ctx \in Context
      BY <1>1, ContextParts, BoundAssumption DEF Whole, Sound
    <2> QED
      BY <2>1
  <1>3. ctx' = IF c.open THEN [c EXCEPT !.rec.retired = @ \cup {k}]
               ELSE IF c.flying THEN [c EXCEPT !.flight.retired = @ \cup {k}]
               ELSE ReleasedOrLeaked(c, {k})
    BY DEF DestroyKernel
  <1>4. Whole(e) /\ Same(ctx, e)
    BY <1>1, <1>2, CalledWhole
  <1> HIDE DEF e
  <1>5. e.kern[k].built /\ Sound(e, {}, 0) /\ e \in Context /\ Fresh(e) /\ Bound(e)
        /\ ~e.closed
    BY <1>1, <1>4 DEF Same, Whole, Sound
  <1>6. Sound(c, {k}, 0)
    <2>1. Sound(c, {} \cup {k}, 0)
      BY <1>2, <1>5, UnbuildingSound
    <2>2. {} \cup {k} = {k}
      OBVIOUS
    <2> QED
      BY <2>1, <2>2
  <1>7. c.own = e.own /\ c.next = e.next /\ c.kern = [e.kern EXCEPT ![k] = Unbuilt]
        /\ c.closed = e.closed
    BY <1>5 DEF Context
  <1> HIDE DEF c
  <1>8. Fresh(c) /\ Bound(c) /\ ~c.closed
    <2>1. e.kern \in [Kernels -> KernelStates] /\ Unbuilt.bound = 0
      BY <1>5, ContextParts DEF Unbuilt
    <2> QED
      BY <1>5, <1>7, <2>1 DEF Fresh, Bound
  <1>9. CASE c.open
    <2> DEFINE d == [c EXCEPT !.rec.retired = @ \cup {k}]
    <2>1. Whole(d) /\ Calm(c, d)
      BY <1>6, <1>8, <1>9, RetirementHeld
    <2>2. ctx' = d
      BY <1>3, <1>9
    <2> HIDE DEF d
    <2> QED
      BY <1>8, <2>1, <2>2, OpenLeft, StepHeld DEF Calm
  <1>10. CASE ~c.open /\ c.flying
    <2> DEFINE d == [c EXCEPT !.flight.retired = @ \cup {k}]
    <2>1. Whole(d) /\ Calm(c, d)
      BY <1>6, <1>8, <1>10, RetirementHeld
    <2>2. ctx' = d
      BY <1>3, <1>10
    <2> HIDE DEF d
    <2> QED
      BY <1>8, <2>1, <2>2, OpenLeft, StepHeld DEF Calm
  <1>11. CASE ~c.open /\ ~c.flying
    <2> DEFINE d == ReleasedOrLeaked(c, {k})
    <2>1. Whole(d) /\ Calm(c, d)
      BY <1>6, <1>8, <1>11, RetirementHeld
    <2>2. ctx' = d
      BY <1>3, <1>11
    <2> HIDE DEF d
    <2> QED
      BY <1>8, <2>1, <2>2, OpenLeft, StepHeld DEF Calm
  <1> QED
    BY <1>9, <1>10, <1>11

LEMMA BuildKernelHeld ==
  ASSUME IInv, NEW k \in Kernels, BuildKernel(k)
  PROVE  IInv'
  <1> DEFINE e == Called(0)
             a == e.alive \cup {k}
             yes == TRUE
             u == [Unbuilt EXCEPT !.built = yes]
             K == [e.kern EXCEPT ![k] = u]
             B == [s \in DescriptorSets |-> IF s[1] = k THEN NoPair ELSE e.bindings[s]]
             d == [e EXCEPT !.alive = a, !.kern = K, !.bindings = B]
  <1>1. ~ctx.closed /\ k \notin ctx.alive /\ ctx.faults + 0 <= MaxFaults /\ Whole(ctx)
        /\ 0 \in Nat
    BY DEF BuildKernel, Live, IInv
  <1>2. Whole(e) /\ Same(ctx, e)
    BY <1>1, CalledWhole
  <1>3. ctx' = d
    BY DEF BuildKernel
  <1> HIDE DEF e
  <1>4. k \notin e.alive /\ ~e.closed /\ e \in Context /\ Apart(e, {}) /\ Counted(e, {}, 0)
        /\ Emptied(e) /\ Fresh(e) /\ Bound(e)
    BY <1>1, <1>2 DEF Same, Whole, Sound
  <1>5. a \in SUBSET Objects /\ a = e.alive \cup {k}
    BY <1>4, ContextParts DEF Objects
  <1>6. /\ K \in [Kernels -> KernelStates] /\ K[k].built /\ K[k].bound = 0
        /\ \A j \in Kernels : j # k => K[j] = e.kern[j]
    <2>0. yes \in BOOLEAN /\ yes
      OBVIOUS
    <2> HIDE DEF yes
    <2>1. u = [built |-> yes, bound |-> 0, pending |-> NoPair, mark |-> 0, reuse |-> NoSet]
      BY DEF Unbuilt
    <2>2. 0 \in 0 .. ArenaSize
      BY BoundAssumption
    <2>3. u \in KernelStates /\ u.built /\ u.bound = 0
      BY <2>0, <2>1, <2>2 DEF KernelStates
    <2> HIDE DEF u
    <2> QED
      BY <1>4, <2>3, ContextParts DEF u
  <1>7. B \in Sets
    BY <1>4, ContextParts DEF Sets
  <1> HIDE DEF a, K, B
  <1>8. d \in Context
    BY <1>4, <1>5, <1>6, <1>7, ZenonT(60) DEF Context, Sets
  <1>9. /\ d.own = e.own /\ d.flight = e.flight /\ d.pool = e.pool /\ d.rec = e.rec
        /\ d.alive = a /\ d.open = e.open /\ d.flying = e.flying /\ d.kern = K
        /\ d.leaked = e.leaked /\ d.scratch = e.scratch /\ d.submissions = e.submissions
        /\ d.next = e.next /\ d.closed = e.closed
    BY <1>4 DEF Context
  <1> HIDE DEF d
  <1>10. ~e.kern[k].built
    BY <1>4 DEF Apart, Holding, Built
  <1>11. Owned(d) = Owned(e) /\ Built(d) = Built(e) \cup {k}
    BY <1>6, <1>9, <1>10 DEF Owned, Built
  <1>12. /\ Apart(d, {})
         /\ d.alive \ Holding(d, {}) = e.alive \ Holding(e, {})
    BY <1>4, <1>5, <1>9, <1>11 DEF Apart, Holding
  <1>13. Counted(d, {}, 0)
    BY <1>4, <1>9, <1>12 DEF Counted, Stray
  <1>14. Emptied(d)
    BY <1>4, <1>9 DEF Emptied
  <1>15. Fresh(d) /\ Bound(d)
    BY <1>4, <1>6, <1>9 DEF Fresh, Bound
  <1> QED
    BY <1>3, <1>4, <1>8, <1>9, <1>12, <1>13, <1>14, <1>15, OpenLeft, StepHeld DEF Whole, Sound

LEMMA BindHeld ==
  ASSUME IInv, NEW k \in Kernels, NEW h \in Handles, Bind(k, h)
  PROVE  IInv'
  <1> DEFINE e == Called(0)
             kk == [e.kern[k] EXCEPT !.bound = h, !.pending = ctx.own[h], !.reuse = NoSet]
             K == [e.kern EXCEPT ![k] = kk]
             d == [e EXCEPT !.kern = K]
  <1>1. ~ctx.closed /\ ctx.faults + 0 <= MaxFaults /\ Whole(ctx) /\ ctx.own[h] # NoPair
        /\ 0 \in Nat
    BY DEF Bind, Live, IInv
  <1>2. Whole(e) /\ Same(ctx, e)
    BY <1>1, CalledWhole
  <1>3. ctx' = d
    <2>1. e \in Context
      BY <1>2 DEF Whole, Sound
    <2>2. ctx' = [e EXCEPT !.kern[k].bound = h, !.kern[k].pending = ctx.own[h],
                           !.kern[k].reuse = NoSet]
      BY DEF Bind
    <2>3. e.kern[k] \in KernelStates /\ e.kern \in [Kernels -> KernelStates]
      BY <2>1, ContextParts
    <2> HIDE DEF e
    <2>4. [e EXCEPT !.kern[k].bound = h, !.kern[k].pending = ctx.own[h],
                    !.kern[k].reuse = NoSet] = d
      BY <2>1, <2>3, ZenonT(60) DEF Context, KernelStates
    <2> QED
      BY <2>2, <2>4
  <1> HIDE DEF e
  <1>4. ~e.closed /\ e \in Context /\ Sound(e, {}, 0) /\ Fresh(e) /\ Bound(e)
        /\ ctx.own[h] \in Pairs
    <2>1. ctx.own \in [Handles -> Pairs \cup {NoPair}]
      BY <1>1, ContextParts DEF Whole, Sound
    <2> QED
      BY <1>1, <1>2, <2>1 DEF Same, Whole, Sound
  <1>5. kk \in KernelStates /\ kk.built = e.kern[k].built /\ kk.pending \in Pairs
    <2>1. e.kern[k] \in KernelStates
      BY <1>4, ContextParts
    <2> QED
      BY <1>4, <2>1 DEF KernelStates
  <1> HIDE DEF kk
  <1>6. /\ K \in [Kernels -> KernelStates] /\ K[k] = kk
        /\ \A j \in Kernels : j # k => K[j] = e.kern[j]
        /\ \A j \in Kernels : K[j].built = e.kern[j].built
    BY <1>4, <1>5, ContextParts
  <1> HIDE DEF K
  <1>7. d \in Context
    BY <1>4, <1>6 DEF Context
  <1>8. /\ d.own = e.own /\ d.flight = e.flight /\ d.pool = e.pool /\ d.rec = e.rec
        /\ d.alive = e.alive /\ d.open = e.open /\ d.flying = e.flying /\ d.kern = K
        /\ d.leaked = e.leaked /\ d.scratch = e.scratch /\ d.submissions = e.submissions
        /\ d.next = e.next /\ d.closed = e.closed
    BY <1>4 DEF Context
  <1> HIDE DEF d
  <1>9. Stray(d, 0) = Stray(e, 0) /\ Stray(e, 0) \in Int /\ Stray(e, 0) >= 0
    BY <1>1, <1>4, <1>8, StrayType DEF Stray, Sound, Counted
  <1>10. Emptied(d)
    BY <1>4, <1>8 DEF Emptied, Sound
  <1>11. Sound(d, {}, 0)
    <2>1. e.leaked \in Nat /\ e.scratch \in Nat
      BY <1>4, ContextParts
    <2> QED
      BY <1>4, <1>6, <1>7, <1>8, <1>9, <1>10, <2>1, SameHolders
  <1>12. Fresh(d) /\ Bound(d)
    BY <1>4, <1>5, <1>6, <1>8 DEF Fresh, Bound
  <1> QED
    BY <1>3, <1>4, <1>8, <1>11, <1>12, OpenLeft, StepHeld DEF Whole

LEMMA SetWrittenWhole ==
  ASSUME NEW c, Whole(c), NEW k \in Kernels, c.kern[k].mark # ArenaSize
  PROVE  LET d == SetWritten(c, k)
         IN  Whole(d) /\ Calm(c, d) /\ Rest(c, d)
  <1> DEFINE d == SetWritten(c, k)
  <1>1. 0 \in Nat /\ Sound(c, {}, 0) /\ c \in Context
    BY DEF Whole, Sound
  <1>2. Sound(d, {}, 0) /\ Rest(c, d) /\ d.kern = [c.kern EXCEPT ![k].mark = @ + 1]
    BY <1>1, SetWrittenSound, ZenonT(60)
  <1>3. Calm(c, d)
    <2>1. c.kern \in [Kernels -> KernelStates] /\ c.kern[k] \in KernelStates
      BY <1>1, ContextParts
    <2> HIDE DEF d
    <2>2. ASSUME NEW j \in Kernels
          PROVE  d.kern[j].bound = c.kern[j].bound /\ d.kern[j].pending = c.kern[j].pending
      BY <1>2, <2>1 DEF KernelStates
    <2> QED
      BY <1>2, <2>2 DEF Calm, Rest
  <1> HIDE DEF d
  <1> QED
    BY <1>2, <1>3, CalmWhole DEF d

LEMMA AcquiredWhole ==
  ASSUME NEW c, Whole(c), NEW k \in Kernels,
         c.kern[k].reuse = NoSet => c.kern[k].mark # ArenaSize
  PROVE  LET d == Acquired(c, k)
         IN  Whole(d) /\ Calm(c, d) /\ Rest(c, d) /\ d.kern[k].reuse \in DescriptorSets
  <1> DEFINE d == Acquired(c, k)
  <1>1. 0 \in Nat /\ Sound(c, {}, 0) /\ c \in Context
    BY DEF Whole, Sound
  <1> DEFINE kk == [c.kern[k] EXCEPT !.mark = @ + 1, !.reuse = NextSet(c, k)]
             K == [c.kern EXCEPT ![k] = kk]
  <1>2. /\ Sound(d, {}, 0) /\ Rest(c, d) /\ d.open = c.open /\ d.rec = c.rec
        /\ d.kern[k].reuse \in DescriptorSets
        /\ c.kern[k].reuse # NoSet => d = c
        /\ c.kern[k].reuse = NoSet =>
             /\ d.bindings = [c.bindings EXCEPT ![NextSet(c, k)] = c.kern[k].pending]
             /\ d.kern = K
    BY <1>1, AcquiredSound, ZenonT(60)
  <1> HIDE DEF d
  <1>3. Calm(c, d)
    <2>1. c.kern \in [Kernels -> KernelStates] /\ c.kern[k] \in KernelStates
      BY <1>1, ContextParts
    <2>3. kk.bound = c.kern[k].bound /\ kk.pending = c.kern[k].pending
      BY <2>1 DEF KernelStates
    <2> HIDE DEF kk
    <2>4. \A j \in Kernels : /\ K[j].bound = c.kern[j].bound
                             /\ K[j].pending = c.kern[j].pending
      BY <2>1, <2>3
    <2> HIDE DEF K
    <2>2. ASSUME NEW j \in Kernels
          PROVE  d.kern[j].bound = c.kern[j].bound /\ d.kern[j].pending = c.kern[j].pending
      BY <1>2, <2>4
    <2> QED
      BY <1>2, <2>2 DEF Calm, Rest
  <1> QED
    BY <1>2, <1>3, CalmWhole DEF d

LEMMA RecordedWhole ==
  ASSUME NEW c, Whole(c), NEW cmd \in Commands
  PROVE  LET d == Recorded(c, cmd)
         IN  Whole(d) /\ Calm(c, d) /\ d.open
  <1> DEFINE d == Recorded(c, cmd)
  <1>1. 0 \in Nat /\ Sound(c, {}, 0)
    BY DEF Whole
  <1>2. Sound(d, {}, 0) /\ Rest(c, d) /\ d.kern = c.kern /\ d.open
    BY <1>1, RecordedSound
  <1> HIDE DEF d
  <1>3. Calm(c, d)
    BY <1>2 DEF Calm, Rest
  <1> QED
    BY <1>2, <1>3, CalmWhole DEF d

LEMMA OneShotWhole ==
  ASSUME NEW c, Whole(c), NEW shot \in Shots, NEW m \in Cells,
         NEW uses \in SUBSET Objects, NEW extra \in Nat
  PROVE  LET d == OneShot(c, shot, m, uses, extra)
         IN  Whole(d) /\ Calm(c, d)
  <1> DEFINE d == OneShot(c, shot, m, uses, extra)
  <1>1. 0 \in Nat /\ Sound(c, {}, 0)
    BY DEF Whole
  <1>2. Sound(d, {}, 0) /\ Carried(c, d)
    BY <1>1, OneShotSound
  <1> HIDE DEF d
  <1>3. Calm(c, d)
    BY <1>2 DEF Calm, Carried, Passed
  <1> QED
    BY <1>2, <1>3, CalmWhole DEF d

LEMMA CalmFlush ==
  ASSUME NEW c, Whole(c), NEW reason, NEW f \in Outcomes
  PROVE  Calm(c, Flush(c, reason, f))
  <1> DEFINE d == Flush(c, reason, f)
  <1>1. /\ FlushLeaves(c, d, Completing(reason))
        /\ \A k \in Kernels : /\ d.kern[k].bound = c.kern[k].bound
                              /\ d.kern[k].pending = c.kern[k].pending
    BY FlushWhole
  <1> HIDE DEF d
  <1>2. Calm(c, d)
    BY <1>1 DEF Calm, FlushLeaves
  <1> QED
    BY <1>2 DEF d

LEMMA CalmOn ==
  ASSUME NEW c, NEW d, NEW e, Calm(c, d), Calm(d, e)
  PROVE  Calm(c, e)
  BY DEF Calm

LEMMA SameCalm ==
  ASSUME NEW c, NEW d, Same(c, d)
  PROVE  Calm(c, d)
  BY DEF Same, Calm

LEMMA OpenHeld ==
  ASSUME NEW c, NEW d, ~c.closed, Calm(c, d), Whole(d), ctx' = d
  PROVE  IInv'
  <1>1. ~d.closed
    BY DEF Calm
  <1> QED
    BY <1>1, OpenLeft, StepHeld

LEMMA DispatchHeld ==
  ASSUME IInv, NEW k \in Kernels, NEW v \in Pushed, NEW f \in Outcomes, NEW g \in Outcomes,
         Dispatch(k, v, f, g)
  PROVE  IInv'
  <1> DEFINE n == Cost(f, Idle) + Cost(g, Idle)
             c == Called(n)
             exhausted == c.kern[k].reuse = NoSet /\ c.kern[k].mark = ArenaSize
             l == Flush(c, "DescriptorsExhausted", f)
             a == IF exhausted THEN l ELSE c
             s == Acquired(a, k)
             cmd == [set |-> s.kern[k].reuse, to |-> c.kern[k].pending, value |-> v]
             r == Recorded(s, cmd)
             due == Due(r)
             z == Flush(r, "BatchFull", g)
             y == IF due THEN z ELSE r
             failed == exhausted /\ Failed(c, "DescriptorsExhausted", f)
  <1>1. /\ ~ctx.closed /\ ctx.faults + n <= MaxFaults /\ Whole(ctx) /\ n \in Nat
        /\ ctx.kern[k].bound # 0
    <2>1. Live(n) /\ Dispatchable(k)
      BY ZenonT(60) DEF Dispatch
    <2>2. n \in Nat
      BY CostType
    <2> HIDE DEF n
    <2> QED
      BY <2>1, <2>2 DEF Dispatchable, Live, IInv
  <1>2. ctx' = IF failed THEN a ELSE Writing(y, c.kern[k].bound)
    BY DEF Dispatch
  <1> HIDE DEF n, failed, due
  <1>3. Whole(c) /\ Same(ctx, c)
    BY <1>1, CalledWhole
  <1> HIDE DEF c
  <1>4. /\ c \in Context /\ ~c.closed /\ c.kern[k].pending \in Pairs
        /\ c.kern[k].bound \in Handles /\ Calm(c, c)
    <2>1. c \in Context /\ Bound(c)
      BY <1>3 DEF Whole, Sound
    <2>2. c.kern[k] \in KernelStates /\ c.kern[k].bound # 0
      BY <1>1, <1>3, <2>1, ContextParts DEF Same
    <2> QED
      BY <1>1, <1>3, <2>1, <2>2 DEF Same, Bound, KernelStates, Calm
  <1>5. /\ Whole(l) /\ Calm(c, l) /\ l.kern[k].mark = 0
    BY <1>3, CalmFlush, FlushWhole
  <1>6. Whole(a) /\ Calm(c, a) /\ (a.kern[k].reuse = NoSet => a.kern[k].mark # ArenaSize)
    <2>1. ArenaSize # 0
      BY BoundAssumption
    <2> HIDE DEF l
    <2> QED
      BY <1>3, <1>4, <1>5, <2>1
  <1> HIDE DEF a
  <1>7. Whole(s) /\ Calm(a, s) /\ s.kern[k].reuse \in DescriptorSets
    BY <1>6, AcquiredWhole
  <1> HIDE DEF s
  <1>8. cmd \in Commands
    BY <1>4, <1>7 DEF Commands
  <1> HIDE DEF cmd
  <1>9. Whole(r) /\ Calm(s, r)
    BY <1>7, <1>8, RecordedWhole
  <1> HIDE DEF r
  <1>10. Whole(z) /\ Calm(r, z)
    BY <1>9, CalmFlush, FlushWhole
  <1>11. Calm(c, r) /\ Calm(c, z)
    BY <1>6, <1>7, <1>9, <1>10 DEF Calm
  <1> HIDE DEF z
  <1>12. Whole(y) /\ Calm(c, y)
    BY <1>9, <1>10, <1>11
  <1> HIDE DEF y
  <1> DEFINE w == Writing(y, c.kern[k].bound)
  <1>13. Whole(w) /\ Calm(c, w)
    <2>1. Whole(w) /\ Same(y, w)
      BY <1>4, <1>12, WritingWhole
    <2> HIDE DEF w
    <2> QED
      BY <1>12, <2>1, SameCalm, CalmOn
  <1> HIDE DEF w
  <1>14. ctx' = IF failed THEN a ELSE w
    BY <1>2 DEF w
  <1>15. CASE failed
    <2>1. ctx' = a
      BY <1>14, <1>15
    <2> QED
      BY <1>4, <1>6, <2>1, OpenHeld
  <1>16. CASE ~failed
    <2>1. ctx' = w
      BY <1>14, <1>16
    <2> QED
      BY <1>4, <1>13, <2>1, OpenHeld
  <1> QED
    BY <1>15, <1>16

LEMMA DispatchTimedHeld ==
  ASSUME IInv, NEW k \in Kernels, NEW v \in Pushed, NEW f \in Outcomes, NEW shot \in Shots,
         DispatchTimed(k, v, f, shot)
  PROVE  IInv'
  <1> DEFINE n == Cost(f, Idle) + Cost(shot, "ok")
             c == Called(n)
             a == Flush(c, "TimedDispatch", f)
             s == SetWritten(a, k)
             cmd == [set |-> NextSet(a, k), to |-> c.kern[k].pending, value |-> v]
             m == Executed(s, s.mem, cmd)
             o == OneShot(s, shot, m, Uses(<<cmd>>), 1)
             w == Writing(o, c.kern[k].bound)
             failed == Failed(c, "TimedDispatch", f)
  <1>1. /\ ~ctx.closed /\ ctx.faults + n <= MaxFaults /\ Whole(ctx) /\ n \in Nat
        /\ ctx.kern[k].bound # 0
    BY CostType DEF DispatchTimed, Dispatchable, Live, IInv
  <1>2. ctx' = IF failed THEN a ELSE IF shot = "fails" THEN o ELSE w
    BY DEF DispatchTimed
  <1> HIDE DEF n, failed
  <1>3. Whole(c) /\ Same(ctx, c)
    BY <1>1, CalledWhole
  <1> HIDE DEF c
  <1>4. /\ c \in Context /\ ~c.closed /\ c.kern[k].pending \in Pairs
        /\ c.kern[k].bound \in Handles
    <2>1. c \in Context /\ Bound(c)
      BY <1>3 DEF Whole, Sound
    <2>2. c.kern[k] \in KernelStates /\ c.kern[k].bound # 0
      BY <1>1, <1>3, <2>1, ContextParts DEF Same
    <2> QED
      BY <1>1, <1>3, <2>1, <2>2 DEF Same, Bound, KernelStates
  <1>5. Whole(a) /\ Calm(c, a) /\ a.kern[k].mark # ArenaSize /\ Sound(a, {}, 0) /\ 0 \in Nat
    <2>1. Whole(a) /\ Calm(c, a) /\ a.kern[k].mark = 0
      BY <1>3, CalmFlush, FlushWhole
    <2> HIDE DEF a
    <2> QED
      BY <2>1, BoundAssumption DEF Whole
  <1> HIDE DEF a
  <1>6. Whole(s) /\ Calm(a, s) /\ NextSet(a, k) \in DescriptorSets
    BY <1>5, SetWrittenSound, SetWrittenWhole
  <1> HIDE DEF s
  <1>7. cmd \in Commands
    BY <1>4, <1>6 DEF Commands
  <1> HIDE DEF cmd
  <1>8. m \in Cells
    <2>1. s \in Context
      BY <1>6 DEF Whole, Sound
    <2> QED
      BY <1>7, <2>1, ContextParts, ExecutedType
  <1> HIDE DEF m
  <1>9. Uses(<<cmd>>) \in SUBSET Objects
    <2>1. <<cmd>> \in Seq(Commands)
      BY <1>7
    <2> QED
      BY <2>1, UsesType
  <1>10. Whole(o) /\ Calm(s, o)
    <2> DEFINE u == Uses(<<cmd>>)
    <2>1. u \in SUBSET Objects /\ 1 \in Nat
      BY <1>9
    <2> HIDE DEF u
    <2>2. Whole(OneShot(s, shot, m, u, 1)) /\ Calm(s, OneShot(s, shot, m, u, 1))
      BY <1>6, <1>8, <2>1, OneShotWhole
    <2> QED
      BY <2>2 DEF u
  <1> HIDE DEF o
  <1>11. Calm(c, o)
    BY <1>5, <1>6, <1>10 DEF Calm
  <1>12. Whole(w) /\ Calm(c, w)
    <2>1. Whole(w) /\ Same(o, w)
      BY <1>4, <1>10, WritingWhole
    <2> HIDE DEF w
    <2> QED
      BY <1>11, <2>1, SameCalm, CalmOn
  <1> HIDE DEF w
  <1>13. ctx' = a \/ ctx' = o \/ ctx' = w
    BY <1>2
  <1> QED
    BY <1>4, <1>5, <1>10, <1>11, <1>12, <1>13, OpenHeld

LEMMA CalmParts ==
  ASSUME NEW c, Fresh(c), Bound(c), NEW d, Calm(c, d)
  PROVE  Fresh(d) /\ Bound(d)
  BY DEF Calm, Fresh, Bound

LEMMA StageTakenSound ==
  ASSUME NEW c, Whole(c), NEW s \in Stages, s \in StageChoices(c), NEW v \in Pushed
  PROVE  LET d == StageTaken(c, s, v)
         IN  Sound(d, {s}, 0) /\ Calm(c, d)
  <1> DEFINE m == [c.mem EXCEPT ![s] = v]
             d == [c EXCEPT !.pool = @ \ {s}, !.alive = @ \cup {s}, !.mem = m]
  <1>1. Sound(c, {}, 0) /\ c \in Context /\ c.mem \in Cells /\ 0 \in Nat
    BY ContextParts DEF Whole, Sound
  <1>2. m \in Cells /\ s \in Objects
    BY <1>1 DEF Cells, Contents, Objects
  <1>3. s \in c.pool \/ s \notin c.alive
    BY DEF StageChoices
  <1>4. StageTaken(c, s, v) = d
    BY DEF StageTaken
  <1> HIDE DEF m
  <1>5. Sound(d, {} \cup {s}, 0) /\ Carried(c, d)
    BY <1>1, <1>2, <1>3, TakenSound
  <1>6. {} \cup {s} = {s}
    OBVIOUS
  <1> HIDE DEF d
  <1>7. Sound(d, {s}, 0)
    BY <1>5, <1>6
  <1>8. Calm(c, d)
    BY <1>5 DEF Calm, Carried, Passed
  <1> QED
    BY <1>4, <1>7, <1>8

LEMMA UploadRecordedHeld ==
  ASSUME IInv, NEW h \in Handles, NEW v \in Pushed, NEW s \in Stages, UploadRecorded(h, v, s)
  PROVE  IInv'
  <1> DEFINE c == Called(0)
             t == StageTaken(c, s, v)
             cmd == [from |-> s, to |-> ctx.own[h]]
             r == Recorded(t, cmd)
             q == [r EXCEPT !.rec.retired = @ \cup {s}]
             w == Writing(q, h)
  <1>1. /\ ~ctx.closed /\ ctx.faults + 0 <= MaxFaults /\ Whole(ctx) /\ 0 \in Nat
        /\ ctx.own[h] # NoPair /\ s \in StageChoices(ctx)
    BY DEF UploadRecorded, Live, IInv
  <1>2. ctx' = w
    BY DEF UploadRecorded
  <1>3. Whole(c) /\ Same(ctx, c)
    BY <1>1, CalledWhole
  <1> HIDE DEF c
  <1>4. Fresh(c) /\ Bound(c) /\ ~c.closed /\ s \in StageChoices(c)
    BY <1>1, <1>3 DEF Whole, Same, StageChoices
  <1>5. Sound(t, {s}, 0) /\ Calm(c, t)
    BY <1>3, <1>4, StageTakenSound
  <1> HIDE DEF t
  <1>6. cmd \in Commands
    <2>1. ctx.own[h] \in Pairs
      BY <1>1, ContextParts DEF Whole, Sound
    <2> QED
      BY <2>1 DEF Commands
  <1> HIDE DEF cmd
  <1>7. Sound(r, {s}, 0) /\ Calm(t, r) /\ r.open
    <2>1. Sound(r, {s}, 0) /\ Rest(t, r) /\ r.kern = t.kern /\ r.open
      BY <1>1, <1>5, <1>6, RecordedSound
    <2> HIDE DEF r
    <2> QED
      BY <2>1 DEF Rest, Calm
  <1> HIDE DEF r
  <1>8. Calm(c, r) /\ Fresh(r) /\ Bound(r)
    BY <1>4, <1>5, <1>7, CalmOn, CalmParts
  <1>9. Whole(q) /\ Calm(r, q)
    BY <1>7, <1>8, RetirementHeld
  <1> HIDE DEF q
  <1>10. Whole(w) /\ Same(q, w)
    <2>1. h \in Handles \cup {0, Everything}
      OBVIOUS
    <2> QED
      BY <1>9, <2>1, WritingWhole
  <1> HIDE DEF w
  <1>11. Calm(c, w)
    BY <1>8, <1>9, <1>10, SameCalm, CalmOn
  <1> QED
    BY <1>2, <1>4, <1>10, <1>11, OpenHeld

LEMMA UploadNowHeld ==
  ASSUME IInv, NEW h \in Handles, NEW v \in Pushed, NEW s \in Stages, NEW f \in Outcomes,
         NEW shot \in Shots, UploadNow(h, v, s, f, shot)
  PROVE  IInv'
  <1> DEFINE n == Cost(f, Idle) + Cost(shot, "ok")
             c == Called(n)
             a == Flush(c, "Upload", f)
             t == StageTaken(a, s, v)
             cmd == [from |-> s, to |-> ctx.own[h]]
             m == Executed(t, t.mem, cmd)
             u == Uses(<<cmd>>)
             done == OneShot(t, shot, m, u, 0)
             failed == Failed(c, "Upload", f)
             x == Recycled(done, {s})
             y == ReleasedOrLeaked(done, {s})
             wx == Writing(x, h)
             wy == Writing(y, h)
  <1>1. /\ ~ctx.closed /\ ctx.faults + n <= MaxFaults /\ Whole(ctx) /\ n \in Nat
        /\ ctx.own[h] # NoPair /\ s \in StageChoices(a) /\ 0 \in Nat
    BY CostType DEF UploadNow, Live, IInv
  <1>2. ctx' = IF failed THEN a
               ELSE IF shot = "ok" THEN wx ELSE IF shot = "fails" THEN y ELSE wy
    BY DEF UploadNow
  <1> HIDE DEF n, failed
  <1>3. Whole(c) /\ Same(ctx, c)
    BY <1>1, CalledWhole
  <1> HIDE DEF c
  <1>4. Fresh(c) /\ Bound(c) /\ ~c.closed
    BY <1>1, <1>3 DEF Whole, Same
  <1>5. Whole(a) /\ Calm(c, a)
    BY <1>3, CalmFlush, FlushWhole
  <1> HIDE DEF a
  <1>6. Sound(t, {s}, 0) /\ Calm(a, t)
    BY <1>1, <1>5, StageTakenSound
  <1> HIDE DEF t
  <1>7. cmd \in Commands
    <2>1. ctx.own[h] \in Pairs
      BY <1>1, ContextParts DEF Whole, Sound
    <2> QED
      BY <2>1 DEF Commands
  <1>8. u \in SUBSET Objects
    <2> HIDE DEF cmd
    <2>1. <<cmd>> \in Seq(Commands)
      BY <1>7
    <2> QED
      BY <2>1, UsesType
  <1> HIDE DEF cmd
  <1>9. m \in Cells
    <2>1. t \in Context
      BY <1>6 DEF Sound
    <2> QED
      BY <1>7, <2>1, ContextParts, ExecutedType
  <1> HIDE DEF m, u
  <1>10. Sound(done, {s}, 0) /\ Calm(t, done)
    <2>1. Sound(done, {s}, 0) /\ Carried(t, done)
      BY <1>1, <1>6, <1>8, <1>9, OneShotSound
    <2> HIDE DEF done
    <2> QED
      BY <2>1 DEF Carried, Passed, Calm
  <1> HIDE DEF done
  <1>11. Calm(c, done) /\ Fresh(done) /\ Bound(done)
    <2>1. Calm(c, done)
      BY <1>5, <1>6, <1>10 DEF Calm
    <2> QED
      BY <1>4, <2>1, CalmParts
  <1>12. Whole(x) /\ Calm(c, x)
    <2>1. Sound(done, {s} \cup {}, 0) /\ {s} \cap {} = {}
      <3>1. {s} \cup {} = {s}
        OBVIOUS
      <3> QED
        BY <1>10, <3>1
    <2>2. Sound(x, {}, 0) /\ Carried(done, x)
      BY <1>1, <2>1, RecycledSound
    <2> HIDE DEF x
    <2>3. Calm(done, x)
      BY <2>2 DEF Carried, Passed, Calm
    <2>4. Calm(c, x)
      BY <1>11, <2>3, CalmOn
    <2> QED
      BY <1>3, <2>2, <2>4, CalmWhole
  <1> HIDE DEF x
  <1>13. Whole(y) /\ Calm(c, y)
    <2>1. Sound(done, {s} \cup {}, 0) /\ {s} \cap {} = {}
      <3>1. {s} \cup {} = {s}
        OBVIOUS
      <3> QED
        BY <1>10, <3>1
    <2>2. Sound(y, {}, 0) /\ Carried(done, y)
      BY <1>1, <2>1, ReleasedOrLeakedSound
    <2> HIDE DEF y
    <2>3. Calm(done, y)
      BY <2>2 DEF Carried, Passed, Calm
    <2>4. Calm(c, y)
      BY <1>11, <2>3, CalmOn
    <2> QED
      BY <1>3, <2>2, <2>4, CalmWhole
  <1> HIDE DEF y
  <1>14. h \in Handles \cup {0, Everything}
    OBVIOUS
  <1>15. Whole(wx) /\ Calm(c, wx)
    <2>1. Whole(wx) /\ Same(x, wx)
      BY <1>12, <1>14, WritingWhole
    <2> HIDE DEF wx
    <2> QED
      BY <1>12, <2>1, SameCalm, CalmOn
  <1>16. Whole(wy) /\ Calm(c, wy)
    <2>1. Whole(wy) /\ Same(y, wy)
      BY <1>13, <1>14, WritingWhole
    <2> HIDE DEF wy
    <2> QED
      BY <1>13, <2>1, SameCalm, CalmOn
  <1> HIDE DEF wx, wy
  <1>17. ctx' = a \/ ctx' = wx \/ ctx' = y \/ ctx' = wy
    BY <1>2
  <1> QED
    BY <1>4, <1>5, <1>13, <1>15, <1>16, <1>17, OpenHeld

LEMMA DownloadHeld ==
  ASSUME IInv, NEW h \in Handles, NEW f \in Outcomes, NEW shot \in Shots,
         Download(h, f, shot)
  PROVE  IInv'
  <1> DEFINE n == Cost(f, Idle) + Cost(shot, "ok")
             c == Called(n)
             a == Flush(c, "Readback", f)
             u == {ctx.own[h]}
             m == a.mem
             o == OneShot(a, shot, m, u, 2)
             r == IF shot = "ok" THEN a.mem[ctx.own[h]] ELSE NoAnswer
             d == [o EXCEPT !.answer = r]
             failed == Failed(c, "Readback", f)
  <1>1. /\ ~ctx.closed /\ ctx.faults + n <= MaxFaults /\ Whole(ctx) /\ n \in Nat
        /\ ctx.own[h] # NoPair /\ 0 \in Nat /\ 2 \in Nat
    BY CostType DEF Download, Live, IInv
  <1>2. ctx' = IF failed THEN a ELSE d
    BY DEF Download
  <1> HIDE DEF n, failed
  <1>3. Whole(c) /\ Same(ctx, c) /\ ~c.closed
    <2>1. Whole(c) /\ Same(ctx, c)
      BY <1>1, CalledWhole
    <2> HIDE DEF c
    <2> QED
      BY <1>1, <2>1 DEF Same
  <1> HIDE DEF c
  <1>4. Whole(a) /\ Calm(c, a)
    BY <1>3, CalmFlush, FlushWhole
  <1> HIDE DEF a
  <1>5. ctx.own[h] \in Pairs
    BY <1>1, ContextParts DEF Whole, Sound
  <1>6. a.mem \in Cells
    BY <1>4, ContextParts DEF Whole, Sound
  <1>7. r \in Contents \cup {NoAnswer}
    BY <1>5, <1>6 DEF Cells
  <1>8. u \in SUBSET Objects
    BY <1>5 DEF Objects
  <1>9. m \in Cells
    BY <1>6
  <1> HIDE DEF r, u, m
  <1>10. Whole(o) /\ Calm(a, o)
    BY <1>1, <1>4, <1>8, <1>9, OneShotWhole
  <1> HIDE DEF o
  <1>11. Whole(d) /\ Calm(c, d)
    <2>1. o \in Context /\ Sound(o, {}, 0)
      BY <1>10 DEF Whole, Sound
    <2>2. d \in Context
      BY <1>7, <2>1 DEF Context
    <2>3. Same(o, d)
      BY <2>1 DEF Same, Context
    <2> HIDE DEF d
    <2>4. Sound(d, {}, 0)
      BY <1>1, <2>1, <2>2, <2>3, SameSound
    <2>5. Calm(c, d)
      BY <1>4, <1>10, <2>3 DEF Same, Calm
    <2> QED
      BY <1>3, <2>4, <2>5, CalmWhole
  <1> HIDE DEF d
  <1>12. ctx' = a \/ ctx' = d
    BY <1>2
  <1> QED
    BY <1>3, <1>4, <1>11, <1>12, OpenHeld

LEMMA SyncHeld ==
  ASSUME IInv, NEW f \in Outcomes, Sync(f)
  PROVE  IInv'
  <1> DEFINE n == Cost(f, Idle)
             c == Called(n)
             a == Flush(c, "ExplicitSync", f)
  <1>1. ~ctx.closed /\ ctx.faults + n <= MaxFaults /\ Whole(ctx) /\ n \in Nat
    BY CostType DEF Sync, Live, IInv
  <1>2. ctx' = a
    BY DEF Sync
  <1> HIDE DEF n
  <1>3. Whole(c) /\ Same(ctx, c)
    BY <1>1, CalledWhole
  <1> HIDE DEF c
  <1>4. ~c.closed
    BY <1>1, <1>3 DEF Same
  <1>5. Whole(a) /\ Calm(c, a)
    BY <1>3, CalmFlush, FlushWhole
  <1> HIDE DEF a
  <1> QED
    BY <1>2, <1>4, <1>5, OpenHeld

LEMMA DiscardHeld ==
  ASSUME IInv, NEW wait \in WaitResults, DiscardRecordedBatch(wait)
  PROVE  IInv'
  <1> DEFINE n == Cost(wait, "ok")
             c == Called(n)
             a == Abandoned(c, wait)
             w == Writing(a, Everything)
  <1>1. ~ctx.closed /\ ctx.faults + n <= MaxFaults /\ Whole(ctx) /\ n \in Nat
    BY CostType DEF DiscardRecordedBatch, IInv
  <1>2. ctx' = w
    BY DEF DiscardRecordedBatch
  <1> HIDE DEF n
  <1>3. Whole(c) /\ Same(ctx, c)
    BY <1>1, CalledWhole
  <1> HIDE DEF c
  <1>4. ~c.closed /\ Sound(c, {}, 0)
    BY <1>1, <1>3 DEF Same, Whole
  <1>5. Sound(a, {}, 0) /\ AbandonLeaves(c, a)
    BY <1>4, AbandonedSound
  <1> HIDE DEF a
  <1>6. Calm(c, a)
    BY <1>5 DEF AbandonLeaves, Calm
  <1>7. Whole(a)
    BY <1>3, <1>5, <1>6, CalmWhole
  <1>8. Whole(w) /\ Same(a, w)
    <2>1. Everything \in Handles \cup {0, Everything}
      OBVIOUS
    <2> QED
      BY <1>7, <2>1, WritingWhole
  <1> HIDE DEF w
  <1>9. Calm(c, w)
    BY <1>6, <1>8, SameCalm, CalmOn
  <1> QED
    BY <1>2, <1>4, <1>8, <1>9, OpenHeld

(* The batches, and the sets written for them, are as they were. *)
Batched(c, d) ==
  /\ d.open = c.open /\ d.rec = c.rec /\ d.flying = c.flying /\ d.flight = c.flight
  /\ d.kern = c.kern /\ d.bindings = c.bindings /\ d.poisoned = c.poisoned

LEMMA DropHeld ==
  ASSUME IInv, NEW idle, NEW wait \in WaitResults, Drop(idle, wait)
  PROVE  /\ IInv' /\ ctx'.closed
         /\ \/ ~ctx'.open /\ ~ctx'.flying
            \/ Batched(ctx, ctx')
  <1> DEFINE n == Cost(idle, "ok") + Cost(wait, "ok")
             e == Called(n)
             yes == TRUE
             c == [e EXCEPT !.closed = yes]
             o == Ran(c)
             b == [o.flight EXCEPT !.cmds = << >>]
             j == [o EXCEPT !.flight = b]
             i == IF idle = "ok" THEN j ELSE c
             a == Abandoned(i, wait)
             al == a.alive \ a.pool
             d == [a EXCEPT !.alive = al, !.pool = {}]
  <1>1. ctx.faults + n <= MaxFaults /\ Whole(ctx) /\ n \in Nat /\ 0 \in Nat
    <2>1. Cost(idle, "ok") \in Nat /\ Cost(wait, "ok") \in Nat
      BY CostType
    <2>2. ctx.faults + Cost(idle, "ok") + Cost(wait, "ok") <= MaxFaults /\ Whole(ctx)
      BY DEF Drop, IInv
    <2>3. ctx.faults \in Nat
      BY <2>2, ContextParts DEF Whole, Sound
    <2> QED
      BY <2>1, <2>2, <2>3
  <1>2. ctx' = IF c.poisoned /\ ~c.lost THEN c ELSE d
    BY DEF Drop
  <1> HIDE DEF n
  <1>3. Whole(e) /\ Same(ctx, e)
    BY <1>1, CalledWhole
  <1> HIDE DEF e
  <1>4. yes \in BOOLEAN /\ yes
    OBVIOUS
  <1> HIDE DEF yes
  <1>5. Sound(c, {}, 0) /\ c.closed /\ Fresh(c) /\ Bound(c) /\ Batched(e, c)
    <2>1. e \in Context /\ Sound(e, {}, 0) /\ Stray(e, 0) >= 0 /\ Fresh(e) /\ Bound(e)
      BY <1>3 DEF Whole, Sound, Counted
    <2>2. c \in Context
      BY <1>4, <2>1 DEF Context
    <2>3. /\ c.own = e.own /\ c.rec = e.rec /\ c.flight = e.flight /\ c.pool = e.pool
          /\ c.alive = e.alive /\ c.open = e.open /\ c.flying = e.flying
          /\ c.kern = e.kern /\ c.leaked = e.leaked /\ c.scratch = e.scratch
          /\ c.submissions = e.submissions /\ c.next = e.next /\ c.closed = yes
          /\ c.bindings = e.bindings /\ c.poisoned = e.poisoned
      BY <2>1 DEF Context
    <2> HIDE DEF c
    <2>4. Stray(c, 0) = Stray(e, 0) /\ Stray(e, 0) \in Int
      BY <1>1, <2>1, <2>3, StrayType DEF Stray
    <2>5. e.leaked \in Nat /\ e.scratch \in Nat
      BY <2>1, ContextParts
    <2>6. Sound(c, {}, 0)
      BY <2>1, <2>2, <2>3, <2>4, <2>5, Untouched
    <2> QED
      BY <1>4, <2>1, <2>3, <2>6 DEF Fresh, Bound, Batched
  <1> HIDE DEF c
  <1>6. Sound(o, {}, 0) /\ Carried(c, o)
    BY <1>1, <1>5, RanSound
  <1> HIDE DEF o
  <1>7. o \in Context /\ o.flight \in Batches /\ Emptied(o) /\ Stray(o, 0) >= 0
    BY <1>6, ContextParts DEF Sound, Counted
  <1>8. b \in Batches /\ b.retired = o.flight.retired
        /\ (o.flight = NoBatch => b = NoBatch)
    <2>1. << >> \in Seq(Commands)
      OBVIOUS
    <2>2. b \in Batches /\ b.retired = o.flight.retired
      BY <1>7, <2>1 DEF Batches
    <2>3. [NoBatch EXCEPT !.cmds = << >>] = NoBatch
      BY DEF NoBatch
    <2> QED
      BY <2>2, <2>3
  <1> HIDE DEF b
  <1>9. Sound(j, {}, 0) /\ Calm(o, j)
    <2>1. j \in Context
      BY <1>7, <1>8 DEF Context
    <2>2. /\ j.own = o.own /\ j.rec = o.rec /\ j.flight = b /\ j.pool = o.pool
          /\ j.alive = o.alive /\ j.open = o.open /\ j.flying = o.flying
          /\ j.kern = o.kern /\ j.leaked = o.leaked /\ j.scratch = o.scratch
          /\ j.submissions = o.submissions /\ j.next = o.next /\ j.closed = o.closed
      BY <1>7 DEF Context
    <2> HIDE DEF j
    <2>3. Stray(j, 0) = Stray(o, 0) /\ Stray(o, 0) \in Int
      BY <1>1, <1>7, <2>2, StrayType DEF Stray
    <2>4. o.leaked \in Nat /\ o.scratch \in Nat
      BY <1>7, ContextParts
    <2>5. Emptied(j)
      BY <1>7, <1>8, <2>2 DEF Emptied
    <2>6. Sound(j, {}, 0)
      BY <1>6, <1>7, <1>8, <2>1, <2>2, <2>3, <2>4, <2>5, SameHolders
    <2>7. Calm(o, j)
      BY <2>2 DEF Calm
    <2> QED
      BY <2>6, <2>7
  <1> HIDE DEF j
  <1>10. Calm(c, o)
    BY <1>6 DEF Carried, Passed, Calm
  <1>11. Sound(i, {}, 0) /\ Calm(c, i)
    BY <1>5, <1>9, <1>10 DEF Calm
  <1>12. ctx' = IF c.poisoned /\ ~c.lost THEN c
                ELSE [a EXCEPT !.alive = @ \ a.pool, !.pool = {}]
    BY <1>2
  <1> HIDE DEF i
  <1>13. Sound(a, {}, 0) /\ AbandonLeaves(i, a)
    BY <1>11, AbandonedSound
  <1> HIDE DEF a
  <1>14. Calm(c, a)
    BY <1>11, <1>13 DEF Calm, AbandonLeaves
  <1>15. a \in Context /\ Apart(a, {}) /\ Counted(a, {}, 0) /\ Emptied(a)
    BY <1>13 DEF Sound
  <1>16. al \in SUBSET Objects /\ al = a.alive \ a.pool
    BY <1>15, ContextParts
  <1> HIDE DEF al
  <1>17. d \in Context
    <2>1. {} \in SUBSET (Pairs \cup Stages)
      OBVIOUS
    <2> QED
      BY <1>15, <1>16, <2>1 DEF Context
  <1>18. /\ d.own = a.own /\ d.rec = a.rec /\ d.flight = a.flight /\ d.pool = {}
         /\ d.alive = al /\ d.open = a.open /\ d.flying = a.flying
         /\ d.kern = a.kern /\ d.leaked = a.leaked /\ d.scratch = a.scratch
         /\ d.submissions = a.submissions /\ d.next = a.next /\ d.closed = a.closed
    BY <1>15 DEF Context
  <1>19. ctx' = IF c.poisoned /\ ~c.lost THEN c ELSE d
    BY <1>12, <1>16
  <1> HIDE DEF d
  <1>20. Owned(d) = Owned(a) /\ Built(d) = Built(a)
    BY <1>18 DEF Owned, Built
  <1>21. Apart(d, {}) /\ d.alive \ Holding(d, {}) = a.alive \ Holding(a, {})
    BY <1>15, <1>16, <1>18, <1>20 DEF Apart, Holding
  <1>22. Counted(d, {}, 0)
    BY <1>15, <1>18, <1>21 DEF Counted, Stray
  <1>23. Emptied(d)
    BY <1>15, <1>18 DEF Emptied
  <1>24. Whole(d) /\ Left(d)
    <2>1. Calm(c, d)
      BY <1>14, <1>18 DEF Calm
    <2>2. Fresh(d) /\ Bound(d)
      BY <1>5, <2>1, CalmParts
    <2>3. Left(d)
      BY <1>13, <1>18 DEF AbandonLeaves, Left
    <2> QED
      BY <1>17, <1>21, <1>22, <1>23, <2>2, <2>3 DEF Whole, Sound
  <1>25. c.poisoned /\ ~c.lost => Whole(c) /\ Left(c)
    BY <1>5 DEF Whole, Left
  <1>26. d.closed /\ ~d.open /\ ~d.flying
    BY <1>5, <1>13, <1>14, <1>18 DEF AbandonLeaves, Calm
  <1>27. Batched(ctx, c)
    BY <1>3, <1>5 DEF Same, Batched
  <1> QED
    BY <1>5, <1>19, <1>24, <1>25, <1>26, <1>27, StepHeld

LEMMA DeviceExecutesHeld ==
  ASSUME IInv, DeviceExecutes
  PROVE  IInv'
  <1> DEFINE d == Ran(ctx)
  <1>1. Sound(ctx, {}, 0) /\ Whole(ctx) /\ Left(ctx) /\ ctx.flying /\ 0 \in Nat
    BY DEF IInv, Whole, DeviceExecutes
  <1>2. ctx' = d
    BY DEF DeviceExecutes
  <1>3. Sound(d, {}, 0) /\ Carried(ctx, d) /\ d.poisoned = ctx.poisoned /\ d.lost = ctx.lost
    BY <1>1, RanSound
  <1> HIDE DEF d
  <1>4. Calm(ctx, d)
    BY <1>3 DEF Carried, Passed, Calm
  <1>5. Whole(d)
    BY <1>1, <1>3, <1>4, CalmWhole
  <1>6. Left(d)
    BY <1>1, <1>3 DEF Left, Carried, Passed
  <1> QED
    BY <1>2, <1>5, <1>6, StepHeld

-----------------------------------------------------------------------------
LEMMA InitHeld ==
  ASSUME Init
  PROVE  IInv
  <1>1. NoBatch \in Batches /\ NoBatch.retired = {}
    <2>1. << >> \in Seq(Commands) /\ {} \in SUBSET Objects
      OBVIOUS
    <2> QED
      BY <2>1 DEF NoBatch, Batches
  <1>2. Unbuilt \in KernelStates /\ ~Unbuilt.built /\ Unbuilt.bound = 0
    <2>1. 0 \in 0 .. ArenaSize
      BY BoundAssumption
    <2> QED
      BY <2>1 DEF Unbuilt, KernelStates
  <1>3. 1 \in 1 .. MaxHandles + 1 /\ 0 \in 0 .. MaxFaults
    BY BoundAssumption
  <1> DEFINE no == FALSE
             O == [h \in Handles |-> NoPair]
             K == [k \in Kernels |-> Unbuilt]
             M == [o \in Pairs \cup Stages |-> Junk]
             B == [s \in DescriptorSets |-> NoPair]
             c == [open |-> no, rec |-> NoBatch, flying |-> no, flight |-> NoBatch,
                   ran |-> no, adrift |-> {}, own |-> O, next |-> 1, pool |-> {},
                   kern |-> K, alive |-> {}, submissions |-> 0, scratch |-> 0,
                   mem |-> M, bindings |-> B, poisoned |-> no, lost |-> no,
                   leaked |-> 0, faults |-> 0, closed |-> no, answer |-> NoAnswer,
                   wrote |-> 0]
  <1>4. no \in BOOLEAN /\ ~no
    OBVIOUS
  <1>5. ctx = c
    BY DEF Init
  <1>6. /\ O \in [Handles -> Pairs \cup {NoPair}] /\ \A h \in Handles : O[h] = NoPair
        /\ K \in [Kernels -> KernelStates]
        /\ M \in [Pairs \cup Stages -> Contents]
        /\ B \in [DescriptorSets -> Pairs \cup {NoPair}]
    BY <1>2 DEF Contents
  <1>7. \A k \in Kernels : ~K[k].built /\ K[k].bound = 0
    BY <1>2
  <1> HIDE DEF no, O, K, M, B
  <1>8. c \in Context
    <2>1. {} \in SUBSET Objects /\ {} \in SUBSET (Pairs \cup Stages) /\ 0 \in Nat
      OBVIOUS
    <2> QED
      BY <1>1, <1>3, <1>4, <1>6, <2>1 DEF Context
  <1>9. /\ c.open = no /\ c.rec = NoBatch /\ c.flying = no /\ c.flight = NoBatch
        /\ c.own = O /\ c.kern = K /\ c.pool = {} /\ c.alive = {} /\ c.submissions = 0
        /\ c.scratch = 0 /\ c.leaked = 0 /\ c.closed = no
    OBVIOUS
  <1> HIDE DEF c
  <1>10. Owned(c) = {} /\ Built(c) = {}
    BY <1>6, <1>7, <1>9 DEF Owned, Built
  <1>11. Holding(c, {}) = {} /\ Apart(c, {})
    BY <1>1, <1>6, <1>9, <1>10 DEF Holding, Apart
  <1>12. Counted(c, {}, 0)
    <2>1. c.alive \ Holding(c, {}) = {}
      BY <1>9
    <2>2. Weight({}) = 0
      <3>1. {} \in SUBSET Objects
        OBVIOUS
      <3> QED
        BY <3>1, WeightFacts
    <2>3. Stray(c, 0) = 0
      <3>1. One(c.open) = 0 /\ One(c.flying) = 0
        BY <1>4, <1>9 DEF One
      <3> QED
        BY <1>9, <3>1 DEF Stray
    <2> QED
      BY <1>9, <2>1, <2>2, <2>3 DEF Counted
  <1>13. Emptied(c)
    BY <1>9 DEF Emptied
  <1>14. Fresh(c) /\ Bound(c) /\ Left(c)
    BY <1>4, <1>6, <1>7, <1>9 DEF Fresh, Bound, Left
  <1> QED
    BY <1>5, <1>8, <1>11, <1>12, <1>13, <1>14 DEF IInv, Whole, Sound

LEMMA StutterHeld ==
  ASSUME IInv, UNCHANGED ctx
  PROVE  IInv'
  BY StepHeld DEF IInv

LEMMA NextHeld ==
  ASSUME IInv, [Next]_ctx
  PROVE  IInv'
  <1>1. Waits \subseteq WaitResults
    BY BoundAssumption DEF Waits, WaitResults
  <1>2. CASE Next
    BY <1>1, <1>2, BufferHeld, FreeBufferHeld, BuildKernelHeld, DestroyKernelHeld, BindHeld,
       DispatchHeld, DispatchTimedHeld, UploadRecordedHeld, UploadNowHeld, DownloadHeld,
       SyncHeld, DiscardHeld, DropHeld, DeviceExecutesHeld DEF Next
  <1>3. CASE UNCHANGED ctx
    BY <1>3, StutterHeld
  <1> QED
    BY <1>2, <1>3

(* Whatever calls are made and fail, in whatever order: each object is     *)
(* held once, the leak count is exact, a closed batch is empty, ids not    *)
(* yet handed out own nothing, and a context closed in a known state has   *)
(* no batch and no pool (the bookkeeping of lib.rs:2646-3260, 5595-5660).  *)
THEOREM Invariance == Spec => []IInv
  BY InitHeld, NextHeld, PTL DEF Spec

(* The record of a context always has the types the code gives its parts:  *)
(* no count of live objects goes below zero, no descriptor set is taken    *)
(* past the arena (acquire_set, lib.rs:5151-5181), no id past the last.    *)
THEOREM TypeCorrect == Spec => []TypeOK
  <1>1. IInv => TypeOK
    BY DEF IInv, Whole, Sound, TypeOK
  <1> QED
    BY <1>1, Invariance, PTL

LEMMA PartsApart ==
  ASSUME NEW A, NEW B, NEW C, NEW D, NEW E, NEW X,
         A \cap B = {}, (A \cup B) \cap C = {}, (A \cup B \cup C) \cap D = {},
         (A \cup B \cup C \cup D) \cap E = {}, A \cup B \cup C \cup D \cup E \subseteq X
  PROVE  LET hs == <<A, B, C, D, E>>
         IN  /\ \A i, j \in DOMAIN hs : i # j => hs[i] \cap hs[j] = {}
             /\ UNION Range(hs) \subseteq X
  <1> DEFINE hs == <<A, B, C, D, E>>
  <1>1. DOMAIN hs = 1 .. 5 /\ hs[1] = A /\ hs[2] = B /\ hs[3] = C /\ hs[4] = D /\ hs[5] = E
    OBVIOUS
  <1> HIDE DEF hs
  <1>2. \A i \in 1 .. 5 : i = 1 \/ i = 2 \/ i = 3 \/ i = 4 \/ i = 5
    OBVIOUS
  <1>3. ASSUME NEW i \in 1 .. 5, NEW j \in 1 .. 5, i # j
        PROVE  hs[i] \cap hs[j] = {}
    <2>1. /\ A \cap C = {} /\ B \cap C = {} /\ A \cap D = {} /\ B \cap D = {}
          /\ C \cap D = {} /\ A \cap E = {} /\ B \cap E = {} /\ C \cap E = {}
          /\ D \cap E = {}
      OBVIOUS
    <2> QED
      BY <1>1, <1>2, <1>3, <2>1
  <1>4. \A i \in 1 .. 5 : hs[i] \subseteq X
    BY <1>1, <1>2
  <1>5. UNION Range(hs) \subseteq X
    BY <1>1, <1>4 DEF Range
  <1> QED
    BY <1>1, <1>3, <1>5 DEF hs

(* Whatever fails and in whatever order: no pair, kernel or staging pair   *)
(* is ever in two places that would each release it or hand it out         *)
(* (lib.rs:2701-2739, 5584-5655), and none that has been destroyed is in   *)
(* any.                                                                    *)
THEOREM HoldersApart == Spec => []OneHolder
  <1>1. ASSUME IInv PROVE OneHolder
    <2>1. Apart(ctx, {})
      BY <1>1 DEF IInv, Whole, Sound
    <2>2. OwnedPairs = Owned(ctx) /\ BuiltKernels = Built(ctx)
      BY DEF OwnedPairs, BuiltKernels, Owned, Built
    <2> DEFINE A == OwnedPairs
               B == BuiltKernels
               C == ctx.pool
               D == ctx.rec.retired
               E == ctx.flight.retired
    <2>3. /\ A \cap B = {} /\ (A \cup B) \cap C = {} /\ (A \cup B \cup C) \cap D = {}
          /\ (A \cup B \cup C \cup D) \cap E = {}
          /\ A \cup B \cup C \cup D \cup E \subseteq ctx.alive
      BY <2>1, <2>2 DEF Apart, Holding
    <2>4. \A g, h \in Handles : ctx.own[g] = ctx.own[h] /\ g # h => ctx.own[g] = NoPair
      BY <2>1 DEF Apart
    <2> HIDE DEF A, B, C, D, E
    <2>5. LET hs == <<A, B, C, D, E>>
          IN  /\ \A i, j \in DOMAIN hs : i # j => hs[i] \cap hs[j] = {}
              /\ UNION Range(hs) \subseteq ctx.alive
      BY <2>3, PartsApart
    <2> QED
      BY <2>4, <2>5 DEF OneHolder, A, B, C, D, E
  <1> QED
    BY <1>1, Invariance, PTL

(* The count of leaked objects is exact after every call and every failure *)
(* (lib.rs:474-483), and a context closed with its device in a known state *)
(* and a count of zero has destroyed everything the caller does not still  *)
(* hold (Drop for Context, from lib.rs:5920).                              *)
THEOREM LeaksExact == Spec => []LeaksAccounted
  <1>1. ASSUME IInv PROVE LeaksAccounted
    <2>1. ctx \in Context /\ Counted(ctx, {}, 0) /\ Apart(ctx, {}) /\ Emptied(ctx) /\ Left(ctx)
      BY <1>1 DEF IInv, Whole, Sound
    <2>2. OwnedPairs = Owned(ctx) /\ BuiltKernels = Built(ctx)
      BY DEF OwnedPairs, BuiltKernels, Owned, Built
    <2>3. Held = Holding(ctx, {})
      BY <2>2 DEF Held, Holding
    <2> DEFINE W == Weight(ctx.alive \ Held)
               x == One(ctx.open)
               y == One(ctx.flying)
               s == Stray(ctx, 0)
    <2>4. /\ W \in Nat /\ (W = 0 => ctx.alive \ Held = {})
          /\ ctx.submissions \in Nat /\ ctx.scratch \in Nat /\ ctx.leaked \in Nat
      BY <2>1, ContextParts, WeightFacts
    <2>5. x \in Nat /\ y \in Nat /\ x = (IF ctx.open THEN 1 ELSE 0)
          /\ y = (IF ctx.flying THEN 1 ELSE 0)
      BY DEF One
    <2>6. s = ctx.submissions - 0 - x - y /\ s >= 0 /\ ctx.leaked = W + ctx.scratch + 2 * s
      BY <2>1, <2>3 DEF Stray, Counted
    <2> HIDE DEF W, x, y, s
    <2>7. ctx.leaked = W + ctx.scratch + 2 * (ctx.submissions - x - y)
      BY <2>4, <2>5, <2>6
    <2>8. LeaksCounted
      BY <2>5, <2>7 DEF LeaksCounted, W
    <2>9. NothingLeftBehind
      <3> SUFFICES ASSUME ctx.closed, ctx.poisoned => ctx.lost, ctx.leaked = 0
                   PROVE  /\ ctx.alive = OwnedPairs \cup BuiltKernels
                          /\ ctx.submissions = 0 /\ ctx.scratch = 0
        BY DEF NothingLeftBehind
      <3>1. ~ctx.open /\ ~ctx.flying /\ ctx.pool = {}
        BY <2>1 DEF Left
      <3>2. ctx.rec.retired = {} /\ ctx.flight.retired = {}
        BY <2>1, <3>1 DEF Emptied, NoBatch
      <3>3. x = 0 /\ y = 0
        BY <2>5, <3>1
      <3>4. W = 0 /\ ctx.scratch = 0 /\ ctx.submissions = 0
        <4>1. s = ctx.submissions
          BY <2>4, <2>6, <3>3
        <4>2. W + ctx.scratch + 2 * s = 0
          BY <2>6
        <4> QED
          BY <2>4, <4>1, <4>2
      <3>5. ctx.alive \subseteq Held /\ Held \subseteq ctx.alive
        BY <2>1, <2>3, <2>4, <3>4 DEF Apart
      <3> QED
        BY <3>1, <3>2, <3>4, <3>5 DEF Held
    <2> QED
      BY <2>8, <2>9 DEF LeaksAccounted
  <1> QED
    BY <1>1, Invariance, PTL

-----------------------------------------------------------------------------
(* What commands name.  Under the waits of Orderly: without ACK_ASYNC_FLUSH *)
(* nothing stays in flight; with it, a batch that cannot be submitted and a *)
(* wait that leaves the device unknown while a batch is open are the two    *)
(* defects the README reports.                                              *)

Orderly ==
  \/ ~AsyncFlush
  \/ /\ "fails" \notin SubmitFaults
     /\ "unknown" \in WaitFaults => ~MayDiscard /\ MaxFaults <= 1

(* A live context's recorded commands name what the program holds, and     *)
(* what has been retired into their batch or a later one, or is of T.      *)
Known(c, T) ==
  ~c.poisoned =>
    /\ Uses(c.rec.cmds) \subseteq Owned(c) \cup Built(c) \cup c.rec.retired \cup T
    /\ Uses(c.flight.cmds)
         \subseteq Owned(c) \cup Built(c) \cup c.rec.retired \cup c.flight.retired \cup T
    /\ c.adrift = {}

(* A poisoned context has nothing recorded, and one whose device may still *)
(* be running keeps what that may name.                                    *)
Safe(c) ==
  /\ c.lost => c.poisoned
  /\ c.poisoned => ~c.open
  /\ Orderly /\ c.poisoned /\ ~c.lost
       => ~c.flying /\ c.adrift \subseteq c.alive \ c.pool

Grounded(c) == ~AsyncFlush => ~c.flying

(* What a kernel is to write is the pair of the id it is bound to, while   *)
(* that is live, and the set it may reuse is its own.                      *)
Tied(c) ==
  \A k \in Kernels :
    /\ c.kern[k].bound < c.next
    /\ c.kern[k].bound # 0 /\ c.own[c.kern[k].bound] # NoPair
         => c.kern[k].pending = c.own[c.kern[k].bound]
    /\ c.kern[k].reuse # NoSet => c.kern[k].reuse[1] = k

Quiet(c) == ~AsyncFlush /\ (c.poisoned => c.lost) => c.leaked = 0

Named(c, T) == Known(c, T) /\ Safe(c) /\ Grounded(c) /\ Tied(c) /\ Quiet(c)

Names(cmd) == IF IsDispatch(cmd) THEN {cmd.to, cmd.set[1]} ELSE {cmd.from, cmd.to}

LEMMA UsesEmpty == Uses(<< >>) = {} /\ Uses(NoBatch.cmds) = {}
  <1>1. Uses(<< >>) = {}
    BY DEF Uses
  <1>2. NoBatch.cmds = << >>
    BY DEF NoBatch
  <1> QED
    BY <1>1, <1>2

LEMMA UsesAppend ==
  ASSUME NEW cmds \in Seq(Commands), NEW cmd \in Commands
  PROVE  Uses(Append(cmds, cmd)) = Uses(cmds) \cup Names(cmd)
  <1> DEFINE a == Append(cmds, cmd)
             n == Len(cmds)
  <1>1. n \in Nat /\ DOMAIN cmds = 1 .. n /\ DOMAIN a = 1 .. n + 1 /\ a[n + 1] = cmd
        /\ \A i \in 1 .. n : a[i] = cmds[i]
    OBVIOUS
  <1>2. Uses(a) = UNION {Names(a[i]) : i \in DOMAIN a}
    BY DEF Uses, Names
  <1>3. Uses(cmds) = UNION {Names(cmds[i]) : i \in DOMAIN cmds}
    BY DEF Uses, Names
  <1> HIDE DEF a, n
  <1>4. 1 .. n + 1 = (1 .. n) \cup {n + 1}
    BY <1>1
  <1>5. \A x : x \in Uses(a) <=> x \in Uses(cmds) \/ x \in Names(cmd)
    BY <1>1, <1>2, <1>3, <1>4
  <1> QED
    BY <1>5 DEF a

LEMMA UsesOne ==
  ASSUME NEW cmd
  PROVE  Uses(<<cmd>>) = Names(cmd)
  <1>1. DOMAIN <<cmd>> = {1} /\ <<cmd>>[1] = cmd
    OBVIOUS
  <1> QED
    BY <1>1 DEF Uses, Names

LEMMA HoldersExist ==
  ASSUME NEW c, NEW T, Apart(c, T)
  PROVE  Owned(c) \cup Built(c) \cup c.rec.retired \cup c.flight.retired \cup T
           \subseteq c.alive \ c.pool
  BY DEF Apart, Holding

(* The standing of a context: what disposing of objects does not touch.    *)
Steady(c, d) == d.poisoned = c.poisoned /\ d.lost = c.lost /\ d.adrift = c.adrift

LEMMA DisposalSteady ==
  ASSUME NEW c \in Context, NEW S
  PROVE  /\ Steady(c, Recycled(c, S)) /\ Recycled(c, S).leaked = c.leaked
         /\ Steady(c, Scrapped(c, S)) /\ Scrapped(c, S).leaked = c.leaked
         /\ Steady(c, Leaked(c, S))
         /\ Leaked(c, S).alive = c.alive /\ Leaked(c, S).pool = c.pool
         /\ Steady(c, SubmissionReleased(c)) /\ SubmissionReleased(c).leaked = c.leaked
         /\ SubmissionReleased(c).alive = c.alive /\ SubmissionReleased(c).pool = c.pool
  <1>1. Steady(c, Recycled(c, S)) /\ Recycled(c, S).leaked = c.leaked
    BY DEF Recycled, Context, Steady
  <1>2. Steady(c, Scrapped(c, S)) /\ Scrapped(c, S).leaked = c.leaked
    BY DEF Scrapped, Recycled, Context, Steady
  <1>3. Steady(c, Leaked(c, S)) /\ Leaked(c, S).alive = c.alive /\ Leaked(c, S).pool = c.pool
    BY DEF Leaked, Context, Steady
  <1>4. /\ Steady(c, SubmissionReleased(c)) /\ SubmissionReleased(c).leaked = c.leaked
        /\ SubmissionReleased(c).alive = c.alive /\ SubmissionReleased(c).pool = c.pool
    BY DEF SubmissionReleased, Context, Steady
  <1> QED
    BY <1>1, <1>2, <1>3, <1>4

LEMMA ReleaseSteady ==
  ASSUME NEW c \in Context, NEW S
  PROVE  LET d == ReleasedOrLeaked(c, S)
         IN  /\ Steady(c, d)
             /\ c.poisoned /\ ~c.lost => d.alive = c.alive /\ d.pool = c.pool
             /\ (c.poisoned => c.lost) => d.leaked = c.leaked
  BY DisposalSteady DEF ReleasedOrLeaked

(* What waiting for a batch that names S does to a live context.           *)
WaitLeaves(c, d, S, wait) ==
  /\ wait \in {"ok", "idle"} =>
       ~d.poisoned /\ ~d.lost /\ d.leaked = c.leaked /\ d.adrift = c.adrift
  /\ wait = "lost" => d.poisoned /\ d.lost /\ d.leaked = c.leaked
  /\ wait = "unknown" =>
       /\ d.poisoned /\ ~d.lost /\ d.alive = c.alive /\ d.pool = c.pool
       /\ d.adrift = c.adrift \cup S

LEMMA FinishedLeaves ==
  ASSUME NEW c, NEW b \in Batches, NEW T, NEW n \in Nat,
         Sound(c, b.retired \cup T, n + 1), b.retired \cap T = {},
         NEW wait \in WaitResults, ~c.poisoned, ~c.lost
  PROVE  WaitLeaves(c, Finished(c, b, wait), Uses(b.cmds), wait)
  <1>0. n + 1 \in Nat /\ c \in Context
    BY DEF Sound
  <1>1. CASE wait = "ok"
    <2> DEFINE r == Recycled(c, b.retired)
    <2>1. r \in Context
      BY <1>0, RecycledSound DEF Sound
    <2>2. Steady(c, r) /\ r.leaked = c.leaked
      BY <1>0, DisposalSteady
    <2>3. Finished(c, b, wait) = SubmissionReleased(r)
      BY <1>1 DEF Finished
    <2> HIDE DEF r
    <2> QED
      BY <1>1, <2>1, <2>2, <2>3, DisposalSteady DEF WaitLeaves, Steady
  <1>2. CASE wait = "idle"
    <2> DEFINE r == ReleasedOrLeaked(c, b.retired)
    <2>1. r \in Context
      BY <1>0, ReleasedOrLeakedSound DEF Sound
    <2>2. Steady(c, r) /\ r.leaked = c.leaked
      BY <1>0, ReleaseSteady
    <2>3. Finished(c, b, wait) = SubmissionReleased(r)
      BY <1>2 DEF Finished
    <2> HIDE DEF r
    <2> QED
      BY <1>2, <2>1, <2>2, <2>3, DisposalSteady DEF WaitLeaves, Steady
  <1>3. CASE wait = "lost"
    <2> DEFINE p == Poisoned(c, TRUE)
               r == ReleasedOrLeaked(p, b.retired)
    <2>1. Sound(p, b.retired \cup T, n + 1) /\ p.poisoned /\ p.lost
      BY <1>0, PoisonedSound
    <2>2. p \in Context /\ p.leaked = c.leaked
      BY <1>0, <2>1 DEF Poisoned, Context, Sound
    <2>3. Finished(c, b, wait) = SubmissionReleased(r)
      BY <1>3 DEF Finished
    <2> HIDE DEF p
    <2>4. r \in Context
      BY <1>0, <2>1, ReleasedOrLeakedSound DEF Sound
    <2>5. Steady(p, r) /\ r.leaked = p.leaked
      BY <2>1, <2>2, ReleaseSteady
    <2> HIDE DEF r
    <2> QED
      BY <1>3, <2>1, <2>2, <2>3, <2>4, <2>5, DisposalSteady, ZenonT(60) DEF WaitLeaves, Steady
  <1>4. CASE wait = "unknown"
    <2> DEFINE a == c.adrift \cup Uses(b.cmds)
               l == c.leaked + 2
               e == [c EXCEPT !.leaked = l, !.adrift = a]
               no == FALSE
               p == Poisoned(e, no)
    <2>1. a \in SUBSET Objects /\ l \in Nat
      BY <1>0, ContextParts, BatchParts
    <2>2. Finished(c, b, wait) = ReleasedOrLeaked(p, b.retired)
      BY <1>4 DEF Finished
    <2>3. no \in BOOLEAN /\ ~no /\ a = c.adrift \cup Uses(b.cmds)
      OBVIOUS
    <2> HIDE DEF a, l, no
    <2>4. e \in Context /\ e.adrift = a /\ e.alive = c.alive /\ e.pool = c.pool
          /\ e.lost = c.lost
      BY <1>0, <2>1 DEF Context
    <2> HIDE DEF e
    <2>5. p \in Context /\ p.poisoned /\ ~p.lost /\ p.adrift = a
          /\ p.alive = c.alive /\ p.pool = c.pool
      <3> DEFINE yes == TRUE
                 z == e.lost \/ no
      <3>1. p = [e EXCEPT !.poisoned = yes, !.lost = z]
        BY DEF Poisoned
      <3>2. yes \in BOOLEAN /\ yes /\ z \in BOOLEAN /\ ~z
        BY <2>3, <2>4, ContextParts
      <3> HIDE DEF yes, z
      <3> QED
        BY <2>4, <3>1, <3>2, ZenonT(60) DEF Context
    <2> HIDE DEF p
    <2> QED
      BY <1>4, <2>2, <2>3, <2>5, ReleaseSteady DEF WaitLeaves, Steady
  <1> QED
    BY <1>1, <1>2, <1>3, <1>4 DEF WaitResults

LEMMA ReapedLeaves ==
  ASSUME NEW c, NEW T, NEW n \in Nat, Sound(c, T, n), NEW wait \in WaitResults,
         ~c.poisoned, ~c.lost
  PROVE  LET d == Reaped(c, wait)
         IN  /\ ~c.flying => d = c
             /\ c.flying => WaitLeaves(c, d, Uses(c.flight.cmds), wait)
  <1>1. CASE ~c.flying
    BY <1>1 DEF Reaped
  <1>2. CASE c.flying
    <2> DEFINE o == Ran(c)
               e == [o EXCEPT !.flying = FALSE, !.flight = NoBatch, !.ran = FALSE]
               b == c.flight
    <2>1. c \in Context /\ b \in Batches
      BY ContextParts DEF Sound
    <2>2. Sound(o, T, n) /\ Carried(c, o) /\ ~o.poisoned /\ ~o.lost
      BY RanSound
    <2>3. o.leaked = c.leaked /\ o.alive = c.alive /\ o.pool = c.pool /\ o.adrift = c.adrift
      BY <2>1 DEF Ran, Context
    <2>4. Reaped(c, wait) = Finished(e, b, wait)
      BY <1>2 DEF Reaped
    <2> HIDE DEF o
    <2>5. o \in Context /\ o.flying /\ o.flight = b
      BY <1>2, <2>2 DEF Carried, Sound
    <2>6. Sound(e, b.retired \cup T, n + 1) /\ b.retired \cap T = {}
      BY <2>2, <2>5, BatchLanded
    <2>7. ~e.poisoned /\ ~e.lost /\ e.leaked = c.leaked /\ e.alive = c.alive
          /\ e.pool = c.pool /\ e.adrift = c.adrift
      BY <2>2, <2>3, <2>5 DEF Context
    <2> HIDE DEF e
    <2>8. WaitLeaves(e, Finished(e, b, wait), Uses(b.cmds), wait)
      BY <2>1, <2>6, <2>7, FinishedLeaves
    <2>9. WaitLeaves(c, Reaped(c, wait), Uses(b.cmds), wait)
      BY <2>4, <2>7, <2>8 DEF WaitLeaves
    <2> QED
      BY <1>2, <2>9
  <1> QED
    BY <1>1, <1>2

LEMMA LostLeaves ==
  ASSUME NEW c, NEW b \in Batches, NEW T, NEW n \in Nat,
         Sound(c, b.retired \cup T, n + 1), b.retired \cap T = {}, NEW submit,
         ~c.poisoned, ~c.lost
  PROVE  LET d == Lost(c, b, submit)
         IN  /\ d.poisoned /\ d.leaked = c.leaked /\ d.adrift = c.adrift
             /\ submit = "lost" => d.lost
  <1> DEFINE r == ReleasedOrLeaked(c, b.retired)
             s == SubmissionReleased(r)
             yes == TRUE
             z == s.lost \/ submit = "lost"
             d == [s EXCEPT !.poisoned = yes, !.lost = z]
  <1>1. c \in Context /\ n + 1 \in Nat
    BY DEF Sound
  <1>2. Sound(r, T, n + 1) /\ r \in Context
    BY <1>1, ReleasedOrLeakedSound DEF Sound
  <1>3. Steady(c, r) /\ r.leaked = c.leaked
    BY <1>1, ReleaseSteady
  <1> HIDE DEF r
  <1>4. s \in Context /\ Steady(r, s) /\ s.leaked = r.leaked
    BY <1>2, DisposalSteady, SubmissionReleasedSound DEF Sound
  <1> HIDE DEF s
  <1>5. Lost(c, b, submit) = d
    BY DEF Lost, Poisoned, s, r
  <1>6. yes \in BOOLEAN /\ yes /\ z \in BOOLEAN /\ (submit = "lost" => z)
    BY <1>4, ContextParts
  <1> HIDE DEF yes, z
  <1>7. d.poisoned = yes /\ d.lost = z /\ d.leaked = s.leaked /\ d.adrift = s.adrift
    BY <1>4 DEF Context
  <1> HIDE DEF d
  <1> QED
    BY <1>3, <1>4, <1>5, <1>6, <1>7 DEF Steady

LEMMA LeakedBehindLeaves ==
  ASSUME NEW c \in Context, NEW b \in Batches, NEW reap \in {"idle", "lost", "unknown"}
  PROVE  LET d == LeakedBehind(c, b, reap)
         IN  /\ d.poisoned = c.poisoned /\ d.lost = c.lost
             /\ d.alive = c.alive /\ d.pool = c.pool /\ d.flying = c.flying
             /\ reap # "unknown" => d.adrift = c.adrift
             /\ reap = "unknown" => d.adrift = c.adrift \cup Uses(b.cmds)
  <1> DEFINE e == [c EXCEPT !.leaked = @ + 2]
             w == e.leaked + Weight(b.retired)
             l == [e EXCEPT !.leaked = w]
  <1>1. e \in Context /\ e.poisoned = c.poisoned /\ e.lost = c.lost /\ e.alive = c.alive
        /\ e.pool = c.pool /\ e.flying = c.flying /\ e.adrift = c.adrift
    <2> DEFINE x == c.leaked + 2
    <2>1. x \in Nat /\ e = [c EXCEPT !.leaked = x]
      BY ContextParts
    <2> HIDE DEF x
    <2> QED
      BY <2>1 DEF Context
  <1>2. Leaked(e, b.retired) = l
    BY DEF Leaked
  <1> HIDE DEF e
  <1>3. w \in Nat
    BY <1>1, ContextParts, BatchParts, WeightFacts
  <1> HIDE DEF w
  <1>4. l \in Context /\ l.poisoned = c.poisoned /\ l.lost = c.lost /\ l.alive = c.alive
        /\ l.pool = c.pool /\ l.flying = c.flying /\ l.adrift = c.adrift
    BY <1>1, <1>3 DEF Context
  <1>5. LeakedBehind(c, b, reap) =
          CASE reap = "idle"    -> [l EXCEPT !.mem = RunAll(c, @, b.cmds)]
            [] reap = "lost"    -> l
            [] reap = "unknown" -> [l EXCEPT !.adrift = @ \cup Uses(b.cmds)]
    BY <1>2 DEF LeakedBehind, e
  <1> HIDE DEF l
  <1>6. CASE reap = "idle"
    BY <1>4, <1>5, <1>6 DEF Context
  <1>7. CASE reap = "lost"
    BY <1>4, <1>5, <1>7
  <1>8. CASE reap = "unknown"
    BY <1>4, <1>5, <1>8 DEF Context
  <1> QED
    BY <1>6, <1>7, <1>8

LEMMA GenerationKeeps ==
  ASSUME NEW c \in Context
  PROVE  LET d == NextGeneration(c)
         IN  d.alive = c.alive /\ d.pool = c.pool /\ d.leaked = c.leaked
  BY DEF NextGeneration, Context

(* What is left for a flush to show, besides FlushLeaves. *)
FlushKeeps(c, d, completing) ==
  /\ d.lost => d.poisoned
  /\ Orderly /\ d.poisoned /\ ~d.lost
       => ~d.flying /\ d.adrift \subseteq d.alive \ d.pool
  /\ Quiet(d)

LEMMA FlushedKeeps ==
  ASSUME NEW c, Sound(c, {}, 0), Known(c, {}), Safe(c), Grounded(c), Quiet(c),
         ~c.poisoned, NEW completing \in BOOLEAN, AsyncFlush \/ completing,
         NEW f \in Outcomes
  PROVE  LET d == Flushed(c, completing, f)
         IN  /\ FlushKeeps(c, d, completing)
             /\ f = Idle => ~d.poisoned
  <1> DEFINE b == c.rec
             g0 == [c EXCEPT !.open = FALSE, !.rec = NoBatch]
             g == NextGeneration(g0)
             r == Reaped(g, f.reap)
             d == Flushed(c, completing, f)
             H == Owned(c) \cup Built(c) \cup b.retired \cup c.flight.retired
  <1>1. c \in Context /\ b \in Batches /\ Apart(c, {}) /\ Emptied(c) /\ NoBatch \in Batches
    <2>1. << >> \in Seq(Commands) /\ {} \in SUBSET Objects
      OBVIOUS
    <2> QED
      BY <2>1, ContextParts DEF Sound, NoBatch, Batches
  <1>2. ~c.lost /\ c.adrift = {} /\ Uses(b.cmds) \subseteq H /\ Uses(c.flight.cmds) \subseteq H
        /\ H \subseteq c.alive \ c.pool
        /\ Uses(b.cmds) \subseteq Owned(c) \cup Built(c) \cup b.retired
    BY <1>1, HoldersExist DEF Safe, Known
  <1> HIDE DEF H
  <1>3. 0 \in Nat /\ 1 \in Nat /\ 0 + 1 = 1
    OBVIOUS
  <1>4. /\ f.reap \in WaitResults /\ f.wait \in WaitResults
        /\ (f.reap # "ok" => f.reap \in {"idle", "lost", "unknown"})
        /\ (f.submit # "ok" => f.submit \in {"fails", "lost"} /\ f.submit \in SubmitFaults)
        /\ (f = Idle => f.submit = "ok" /\ f.reap = "ok" /\ f.wait = "ok")
    <2>1. /\ f.reap \in WaitResults /\ f.wait \in WaitResults
          /\ (f.reap # "ok" => f.reap \in {"idle", "lost", "unknown"})
          /\ (f.submit # "ok" => f.submit \in SubmitFaults)
      BY OutcomeParts
    <2>2. Idle.submit = "ok" /\ Idle.reap = "ok" /\ Idle.wait = "ok"
      BY DEF Idle
    <2>3. SubmitFaults \subseteq {"fails", "lost"}
      BY BoundAssumption
    <2> QED
      BY <2>1, <2>2, <2>3
  <1>5. /\ g0 \in Context /\ g0.flying = c.flying /\ g0.flight = c.flight
        /\ g0.alive = c.alive /\ g0.pool = c.pool /\ g0.leaked = c.leaked
        /\ g0.poisoned = c.poisoned /\ g0.lost = c.lost /\ g0.adrift = c.adrift
        /\ g0.own = c.own /\ g0.kern = c.kern
    <2> DEFINE no == FALSE
    <2>1. g0 = [c EXCEPT !.open = no, !.rec = NoBatch] /\ no \in BOOLEAN
      OBVIOUS
    <2> HIDE DEF no
    <2> QED
      BY <1>1, <2>1 DEF Context
  <1>6. \E n, T : /\ n \in Nat /\ Sound(g0, T, n)
                 /\ (~c.open => T = {} /\ n = 0)
                 /\ (c.open => T = b.retired \cup {} /\ n = 1)
    <2>1. CASE c.open
      <3>1. Sound(g0, b.retired \cup {}, 0 + 1)
        BY <1>3, <2>1, BatchClosed
      <3> HIDE DEF g0, b
      <3> QED
        BY <1>3, <2>1, <3>1
    <2>2. CASE ~c.open
      <3>1. c.open = FALSE /\ c.rec = NoBatch
        BY <1>1, <2>2 DEF Emptied, Context
      <3>2. g0 = c
        BY <1>1, <3>1 DEF Context
      <3> HIDE DEF g0
      <3> QED
        BY <1>3, <2>2, <3>2
    <2> QED
      BY <2>1, <2>2
  <1>7a. PICK n : \E T : /\ n \in Nat /\ Sound(g0, T, n)
                        /\ (~c.open => T = {} /\ n = 0)
                        /\ (c.open => T = b.retired \cup {} /\ n = 1)
    BY <1>6
  <1>7. PICK T : /\ n \in Nat /\ Sound(g0, T, n)
                 /\ (~c.open => T = {} /\ n = 0)
                 /\ (c.open => T = b.retired \cup {} /\ n = 1)
    BY <1>7a
  <1> HIDE DEF g0
  <1>8. /\ Sound(g, T, n) /\ g.flying = c.flying /\ g.flight = c.flight
        /\ g.alive = c.alive /\ g.pool = c.pool /\ g.leaked = c.leaked
        /\ ~g.poisoned /\ ~g.lost /\ g.adrift = c.adrift
        /\ g.own = c.own /\ Owned(g) = Owned(c) /\ Built(g) = Built(c)
    <2>1. /\ Sound(g, T, n) /\ g.flying = c.flying /\ g.flight = c.flight
          /\ g.own = c.own /\ g.poisoned = c.poisoned /\ g.lost = c.lost
          /\ g.adrift = c.adrift /\ g.kern = Aged(c.kern)
      BY <1>5, <1>7, NextGenerationSound
    <2>2. g.alive = c.alive /\ g.pool = c.pool /\ g.leaked = c.leaked
      BY <1>5, GenerationKeeps
    <2> HIDE DEF g
    <2>3. Owned(g) = Owned(c)
      BY <2>1 DEF Owned
    <2>4. Built(g) = Built(c)
      <3>1. ASSUME NEW k \in Kernels PROVE g.kern[k].built = c.kern[k].built
        <4>1. c.kern[k] \in KernelStates
          BY <1>1, ContextParts
        <4>2. g.kern[k] = [c.kern[k] EXCEPT !.mark = 0, !.reuse = NoSet]
          BY <2>1 DEF Aged
        <4> QED
          BY <4>1, <4>2 DEF KernelStates
      <3> QED
        BY <3>1 DEF Built
    <2> QED
      BY <1>2, <2>1, <2>2, <2>3, <2>4
  <1> HIDE DEF g
  <1>9. /\ ~c.flying => r = g
        /\ c.flying => WaitLeaves(g, r, Uses(c.flight.cmds), f.reap)
        /\ Sound(r, T, n) /\ Passed(g, r) /\ ~r.flying /\ r \in Context
    <2>1. /\ ~g.flying => r = g
          /\ g.flying => WaitLeaves(g, r, Uses(g.flight.cmds), f.reap)
      BY <1>4, <1>7, <1>8, ReapedLeaves
    <2>2. Sound(r, T, n) /\ Passed(g, r) /\ ~r.flying
      BY <1>4, <1>7, <1>8, ReapedSound
    <2> HIDE DEF r
    <2> QED
      BY <1>8, <2>1, <2>2 DEF Sound
  <1> HIDE DEF r
  (* The batch in flight seen through, or not. *)
  <1>10. /\ f.reap = "ok" \/ ~c.flying =>
               ~r.poisoned /\ ~r.lost /\ r.leaked = c.leaked /\ r.adrift = {}
         /\ f.reap = "idle" => ~r.poisoned /\ ~r.lost /\ r.leaked = c.leaked /\ r.adrift = {}
         /\ r.lost => r.poisoned
         /\ r.poisoned /\ ~r.lost => /\ f.reap = "unknown" /\ r.alive = c.alive /\ r.pool = c.pool
                                     /\ r.adrift \subseteq H
         /\ r.poisoned => c.flying
    BY <1>2, <1>4, <1>8, <1>9 DEF WaitLeaves, WaitResults
  <1>11. c.flying => AsyncFlush
    BY DEF Grounded
  <1>12. ~AsyncFlush => c.leaked = 0
    BY DEF Quiet
  <1>13. CASE ~c.open
    <2>1. d = IF completing THEN r ELSE g
      BY <1>13 DEF Flushed, r, g, g0
    <2>2. CASE completing
      <3>1. d = r
        BY <2>1, <2>2
      <3> HIDE DEF d
      <3>2. FlushKeeps(c, d, completing)
        BY <1>2, <1>9, <1>10, <1>11, <1>12, <3>1 DEF FlushKeeps, Quiet
      <3>3. f = Idle => ~d.poisoned
        BY <1>4, <1>10, <3>1
      <3> QED
        BY <3>2, <3>3 DEF d
    <2>3. CASE ~completing
      <3>1. d = g
        BY <2>1, <2>3
      <3> HIDE DEF d
      <3> QED
        BY <1>8, <1>12, <3>1 DEF FlushKeeps, Quiet, d
    <2> QED
      BY <2>2, <2>3
  <1>14. CASE c.open
    <2>1. T = b.retired \cup {} /\ n = 0 + 1 /\ b.retired \cap {} = {}
      BY <1>7, <1>14
    <2>2. CASE f.submit # "ok"
      <3>1. d = Lost(g, b, f.submit)
        BY <1>14, <2>2 DEF Flushed, g, g0
      <3> HIDE DEF d
      <3>2. /\ d.poisoned /\ d.leaked = g.leaked /\ d.adrift = g.adrift
            /\ f.submit = "lost" => d.lost
        <4>1. Sound(g, b.retired \cup {}, 0 + 1)
          BY <1>8, <2>1
        <4> QED
          BY <1>1, <1>3, <1>8, <2>1, <3>1, <4>1, LostLeaves, ZenonT(60)
      <3>3. Orderly /\ f.submit = "fails" => ~AsyncFlush
        BY <1>4, <2>2 DEF Orderly
      <3>4. d.flying = g.flying
        <4>1. Sound(g, b.retired \cup {}, 0 + 1)
          BY <1>8, <2>1
        <4>2. Carried(g, d)
          BY <1>1, <1>3, <2>1, <3>1, <4>1, LostSound
        <4> QED
          BY <4>2 DEF Carried
      <3>5. FlushKeeps(c, d, completing)
        BY <1>2, <1>4, <1>8, <1>11, <1>12, <2>2, <3>2, <3>3, <3>4 DEF FlushKeeps, Quiet
      <3> QED
        BY <1>4, <2>2, <3>5 DEF d
    <2>3. CASE f.submit = "ok" /\ c.flying /\ f.reap # "ok"
      <3>1. d = LeakedBehind(r, b, f.reap)
        BY <1>14, <2>3 DEF Flushed, r, g, g0
      <3> HIDE DEF d
      <3>2. /\ d.poisoned = r.poisoned /\ d.lost = r.lost
            /\ d.alive = r.alive /\ d.pool = r.pool /\ d.flying = r.flying
            /\ f.reap # "unknown" => d.adrift = r.adrift
            /\ f.reap = "unknown" => d.adrift = r.adrift \cup Uses(b.cmds)
        BY <1>1, <1>4, <1>9, <2>3, <3>1, LeakedBehindLeaves
      <3>3. FlushKeeps(c, d, completing)
        BY <1>2, <1>9, <1>10, <1>11, <2>3, <3>2 DEF FlushKeeps, Quiet
      <3> QED
        BY <1>4, <2>3, <3>3 DEF d
    <2>4. CASE f.submit = "ok" /\ ~(c.flying /\ f.reap # "ok") /\ completing
      <3> DEFINE m == RunAll(r, r.mem, b.cmds)
                 e == [r EXCEPT !.mem = m, !.ran = r.ran]
      <3>1. d = Finished([r EXCEPT !.mem = m], b, f.wait)
        BY <1>14, <2>4 DEF Flushed, r, g, g0
      <3>2. m \in Cells /\ r.ran \in BOOLEAN
        BY <1>1, <1>9, ContextParts, BatchParts, RunAllType
      <3> HIDE DEF m
      <3>3. [r EXCEPT !.mem = m] = e /\ e.leaked = r.leaked /\ e.adrift = r.adrift
            /\ e.pool = r.pool /\ e.alive = r.alive
        BY <1>9 DEF Context
      <3>4. Sound(e, b.retired \cup {}, 0 + 1) /\ Carried(r, e)
            /\ e.poisoned = r.poisoned /\ e.lost = r.lost
        <4>1. Sound(r, b.retired \cup {}, 0 + 1)
          BY <1>9, <2>1
        <4> QED
          BY <1>3, <3>2, <4>1, MemorySound, ZenonT(60)
      <3> HIDE DEF e, d
      <3>5. ~e.poisoned /\ ~e.lost /\ e.leaked = c.leaked /\ e.adrift = {}
        BY <1>10, <2>4, <3>3, <3>4
      <3>6. d = Finished(e, b, f.wait)
        BY <3>1, <3>3
      <3>7. WaitLeaves(e, d, Uses(b.cmds), f.wait) /\ Carried(e, d)
        BY <1>1, <1>3, <1>4, <2>1, <3>4, <3>5, <3>6, FinishedLeaves, FinishedSound
      <3>8. Uses(b.cmds) \subseteq e.alive \ e.pool
        <4>1. Owned(e) = Owned(c) /\ Built(e) = Built(c)
          BY <1>8, <1>9, <3>4 DEF Carried, Passed, Owned, Built
        <4>2. Apart(e, b.retired \cup {})
          BY <3>4 DEF Sound
        <4> QED
          BY <1>2, <4>1, <4>2, HoldersExist
      <3>9. ~d.flying
        BY <1>9, <3>4, <3>7 DEF Carried
      <3>10. FlushKeeps(c, d, completing)
        BY <1>4, <1>12, <3>5, <3>7, <3>8, <3>9 DEF FlushKeeps, Quiet, WaitLeaves, WaitResults
      <3>11. f = Idle => ~d.poisoned
        BY <1>4, <3>7 DEF WaitLeaves
      <3> QED
        BY <3>10, <3>11 DEF d
    <2>5. CASE f.submit = "ok" /\ ~(c.flying /\ f.reap # "ok") /\ ~completing
      <3>1. d = [r EXCEPT !.flying = TRUE, !.flight = b]
        BY <1>14, <2>5 DEF Flushed, r, g, g0
      <3>2. ~r.poisoned /\ ~r.lost
        BY <1>10, <2>5
      <3>3. d.poisoned = r.poisoned /\ d.lost = r.lost
        BY <1>9, <3>1 DEF Context
      <3> HIDE DEF d
      <3> QED
        BY <2>5, <3>2, <3>3 DEF FlushKeeps, Quiet, d
    <2> QED
      BY <2>2, <2>3, <2>4, <2>5
  <1> QED
    BY <1>13, <1>14

LEMMA TiedCalm ==
  ASSUME NEW c, Tied(c), NEW d, Calm(c, d),
         \A k \in Kernels : d.kern[k].reuse # NoSet => d.kern[k].reuse[1] = k
  PROVE  Tied(d)
  BY DEF Tied, Calm

LEMMA FlushHolders ==
  ASSUME NEW c \in Context, NEW d, NEW w, FlushLeaves(c, d, w)
  PROVE  Owned(d) = Owned(c) /\ Built(d) = Built(c)
  <1>1. Owned(d) = Owned(c)
    BY DEF FlushLeaves, Owned
  <1>2. ASSUME NEW k \in Kernels PROVE d.kern[k].built = c.kern[k].built
    <2>1. c.kern[k] \in KernelStates
      BY ContextParts
    <2>2. d.kern[k] = [c.kern[k] EXCEPT !.mark = 0, !.reuse = NoSet]
      BY DEF FlushLeaves, Aged
    <2> QED
      BY <2>1, <2>2 DEF KernelStates
  <1> QED
    BY <1>1, <1>2 DEF Built

LEMMA FlushNamed ==
  ASSUME NEW c, Whole(c), Named(c, {}), ~c.poisoned, NEW reason, NEW f \in Outcomes
  PROVE  LET d == Flush(c, reason, f)
         IN  /\ Named(d, {}) /\ ~d.open
             /\ Completing(reason) /\ ~d.poisoned => ~d.flying
             /\ f = Idle => ~d.poisoned
  <1> DEFINE w == Completing(reason)
             d == Flush(c, reason, f)
  <1>1. w \in BOOLEAN /\ (AsyncFlush \/ w)
    BY CompletingType DEF Completing
  <1>2. FlushKeeps(c, d, w) /\ (f = Idle => ~d.poisoned)
    BY <1>1, FlushedKeeps DEF Named, Whole, Flush
  <1>3. /\ Whole(d) /\ FlushLeaves(c, d, w) /\ Calm(c, d)
        /\ \A k \in Kernels : d.kern[k].reuse = NoSet
    BY FlushWhole, CalmFlush
  <1> HIDE DEF d, w
  <1>4. c \in Context /\ d \in Context /\ Emptied(c) /\ Emptied(d)
    BY <1>3 DEF Whole, Sound
  <1>5. Owned(d) = Owned(c)
    BY <1>3, <1>4, FlushHolders
  <1>6. Built(d) = Built(c)
    BY <1>3, <1>4, FlushHolders
  <1>7. Known(d, {})
    <2> SUFFICES ASSUME ~d.poisoned PROVE Known(d, {})
      BY DEF Known
    <2>1. /\ Uses(c.rec.cmds) \subseteq Owned(c) \cup Built(c) \cup c.rec.retired
          /\ Uses(c.flight.cmds)
               \subseteq Owned(c) \cup Built(c) \cup c.rec.retired \cup c.flight.retired
          /\ c.adrift = {}
      BY DEF Named, Known
    <2>2. d.rec = NoBatch /\ NoBatch.retired = {} /\ Uses(d.rec.cmds) = {} /\ d.adrift = {}
      BY <1>3, <2>1, UsesEmpty DEF FlushLeaves, NoBatch
    <2>3. CASE ~d.flying
      <3>1. Uses(d.flight.cmds) = {}
        BY <1>4, <2>3, UsesEmpty DEF Emptied
      <3> QED
        BY <2>2, <3>1 DEF Known
    <2>4. CASE c.flying /\ d.flight = c.flight /\ (d.poisoned \/ ~c.open)
      <3>1. c.rec.retired = {}
        BY <1>4, <2>2, <2>4 DEF Emptied
      <3> QED
        BY <1>5, <1>6, <2>1, <2>2, <2>4, <3>1 DEF Known
    <2>5. CASE c.open /\ d.flight = c.rec /\ ~w
      BY <1>5, <1>6, <2>1, <2>2, <2>5 DEF Known
    <2> QED
      BY <1>3, <2>3, <2>4, <2>5 DEF FlushLeaves
  <1>8. Safe(d)
    BY <1>2, <1>3 DEF FlushKeeps, FlushLeaves, Safe
  <1>9. Grounded(d)
    BY <1>1, <1>3 DEF FlushLeaves, Grounded, Named
  <1>10. Tied(d)
    BY <1>3, TiedCalm DEF Named
  <1> QED
    BY <1>2, <1>3, <1>7, <1>8, <1>9, <1>10 DEF Named, FlushKeeps, FlushLeaves, d, w

LEMMA SameNamed ==
  ASSUME NEW c, NEW T, Named(c, T), NEW d, Same(c, d)
  PROVE  Named(d, T)
  <1>1. Owned(d) = Owned(c) /\ Built(d) = Built(c)
    BY DEF Same, Owned, Built
  <1> QED
    BY <1>1 DEF Same, Named, Known, Safe, Grounded, Tied, Quiet

LEMMA CalledNamed ==
  ASSUME Whole(ctx), Named(ctx, {}), NEW n \in Nat, ctx.faults + n <= MaxFaults
  PROVE  Whole(Called(n)) /\ Named(Called(n), {}) /\ Same(ctx, Called(n))
  BY CalledWhole, SameNamed

LEMMA WritingNamed ==
  ASSUME NEW c, Whole(c), Named(c, {}), NEW h \in Handles \cup {0, Everything}
  PROVE  Named(Writing(c, h), {})
  BY WritingWhole, SameNamed

LEMMA NamedHeld ==
  ASSUME NEW d, ctx' = d, Named(d, {})
  PROVE  Named(ctx, {})'
  BY DEF Named, Known, Safe, Grounded, Tied, Quiet, Owned, Built, Uses, IsDispatch

LEMMA DisownedNamed ==
  ASSUME NEW c \in Context, Named(c, {}), NEW h \in Handles, c.own[h] # NoPair
  PROVE  Named([c EXCEPT !.own[h] = NoPair], {c.own[h]})
  <1> DEFINE p == c.own[h]
             O == [c.own EXCEPT ![h] = NoPair]
             d == [c EXCEPT !.own = O]
  <1>1. c.own \in [Handles -> Pairs \cup {NoPair}]
    BY ContextParts
  <1>2. O[h] = NoPair /\ \A g \in Handles : g # h => O[g] = c.own[g]
    BY <1>1
  <1>3. [c EXCEPT !.own[h] = NoPair] = d
    OBVIOUS
  <1> HIDE DEF O
  <1>4. /\ d.own = O /\ d.flight = c.flight /\ d.pool = c.pool /\ d.rec = c.rec
        /\ d.alive = c.alive /\ d.open = c.open /\ d.flying = c.flying /\ d.kern = c.kern
        /\ d.leaked = c.leaked /\ d.poisoned = c.poisoned /\ d.lost = c.lost
        /\ d.adrift = c.adrift /\ d.next = c.next
    BY DEF Context
  <1> HIDE DEF d
  <1>5. Owned(c) \subseteq Owned(d) \cup {p} /\ Built(d) = Built(c)
    BY <1>2, <1>4 DEF Owned, Built
  <1> HIDE DEF p
  <1>6. Known(d, {p})
    BY <1>4, <1>5 DEF Named, Known
  <1>7. Tied(d)
    <2> SUFFICES ASSUME NEW k \in Kernels
                 PROVE  /\ d.kern[k].bound < d.next
                        /\ d.kern[k].bound # 0 /\ d.own[d.kern[k].bound] # NoPair
                             => d.kern[k].pending = d.own[d.kern[k].bound]
                        /\ d.kern[k].reuse # NoSet => d.kern[k].reuse[1] = k
      BY DEF Tied
    <2>1. c.kern[k].bound \in Handles \cup {0}
      BY ContextParts DEF KernelStates
    <2> QED
      BY <1>2, <1>4, <2>1 DEF Named, Tied
  <1>8. Safe(d) /\ Grounded(d) /\ Quiet(d)
    BY <1>4 DEF Named, Safe, Grounded, Quiet
  <1> QED
    BY <1>3, <1>6, <1>7, <1>8 DEF Named, p

LEMMA UnbuildingNamed ==
  ASSUME NEW c \in Context, Named(c, {}), NEW k \in Kernels
  PROVE  Named([c EXCEPT !.kern[k] = Unbuilt], {k})
  <1> DEFINE K == [c.kern EXCEPT ![k] = Unbuilt]
             d == [c EXCEPT !.kern = K]
  <1>1. c.kern \in [Kernels -> KernelStates]
    BY ContextParts
  <1>2. K[k] = Unbuilt /\ \A j \in Kernels : j # k => K[j] = c.kern[j]
    BY <1>1
  <1>3. [c EXCEPT !.kern[k] = Unbuilt] = d
    OBVIOUS
  <1> HIDE DEF K
  <1>4. /\ d.own = c.own /\ d.flight = c.flight /\ d.pool = c.pool /\ d.rec = c.rec
        /\ d.alive = c.alive /\ d.open = c.open /\ d.flying = c.flying /\ d.kern = K
        /\ d.leaked = c.leaked /\ d.poisoned = c.poisoned /\ d.lost = c.lost
        /\ d.adrift = c.adrift /\ d.next = c.next
    BY DEF Context
  <1> HIDE DEF d
  <1>5. Owned(d) = Owned(c) /\ Built(c) \subseteq Built(d) \cup {k}
    BY <1>2, <1>4 DEF Owned, Built
  <1>6. Known(d, {k})
    BY <1>4, <1>5 DEF Named, Known
  <1>7. Tied(d)
    <2>1. Unbuilt.bound = 0 /\ Unbuilt.reuse = NoSet
      BY DEF Unbuilt
    <2>2. 0 < c.next
      BY DEF Context
    <2> QED
      BY <1>2, <1>4, <2>1, <2>2 DEF Named, Tied
  <1>8. Safe(d) /\ Grounded(d) /\ Quiet(d)
    BY <1>4 DEF Named, Safe, Grounded, Quiet
  <1> QED
    BY <1>3, <1>6, <1>7, <1>8 DEF Named

LEMMA RetirementNamed ==
  ASSUME NEW c, NEW S, Sound(c, S, 0), Named(c, S)
  PROVE  /\ ~c.open /\ ~c.flying => Named(ReleasedOrLeaked(c, S), {})
         /\ c.open => Named([c EXCEPT !.rec.retired = @ \cup S], {})
         /\ ~c.open /\ c.flying => Named([c EXCEPT !.flight.retired = @ \cup S], {})
  <1>1. 0 \in Nat /\ Sound(c, S \cup {}, 0) /\ S \cap {} = {} /\ c \in Context /\ Emptied(c)
        /\ c.rec \in Batches /\ c.flight \in Batches
    <2>1. S \cup {} = S
      OBVIOUS
    <2> QED
      BY <2>1, ContextParts DEF Sound
  <1>2. /\ ~c.open => Uses(c.rec.cmds) = {} /\ c.rec.retired = {}
        /\ ~c.flying => Uses(c.flight.cmds) = {} /\ c.flight.retired = {}
    BY <1>1, UsesEmpty DEF Emptied, NoBatch
  <1>3. ASSUME ~c.open, ~c.flying PROVE Named(ReleasedOrLeaked(c, S), {})
    <2> DEFINE d == ReleasedOrLeaked(c, S)
    <2>1. Carried(c, d)
      BY <1>1, ReleasedOrLeakedSound
    <2>2. /\ Steady(c, d)
          /\ c.poisoned /\ ~c.lost => d.alive = c.alive /\ d.pool = c.pool
          /\ (c.poisoned => c.lost) => d.leaked = c.leaked
      BY <1>1, ReleaseSteady
    <2> HIDE DEF d
    <2>3. Known(d, {})
      BY <1>2, <1>3, <2>1, <2>2 DEF Named, Known, Carried, Passed, Steady
    <2>4. Safe(d) /\ Grounded(d) /\ Quiet(d)
      BY <1>3, <2>1, <2>2 DEF Named, Safe, Grounded, Quiet, Carried, Passed, Steady
    <2>5. Tied(d)
      BY <2>1 DEF Named, Tied, Carried, Passed
    <2> QED
      BY <2>3, <2>4, <2>5 DEF Named, d
  <1>4. ASSUME c.open PROVE Named([c EXCEPT !.rec.retired = @ \cup S], {})
    <2> DEFINE b == [c.rec EXCEPT !.retired = @ \cup S]
               d == [c EXCEPT !.rec = b]
    <2>1. b.retired = c.rec.retired \cup S /\ b.cmds = c.rec.cmds
      BY <1>1 DEF Batches
    <2>2. [c EXCEPT !.rec.retired = @ \cup S] = d
      OBVIOUS
    <2> HIDE DEF b
    <2>3. /\ d.own = c.own /\ d.flight = c.flight /\ d.pool = c.pool /\ d.rec = b
          /\ d.alive = c.alive /\ d.open = c.open /\ d.flying = c.flying /\ d.kern = c.kern
          /\ d.leaked = c.leaked /\ d.poisoned = c.poisoned /\ d.lost = c.lost
          /\ d.adrift = c.adrift /\ d.next = c.next
      BY <1>1 DEF Context
    <2> HIDE DEF d
    <2>4. Owned(d) = Owned(c) /\ Built(d) = Built(c)
      BY <2>3 DEF Owned, Built
    <2>5. Known(d, {})
      BY <2>1, <2>3, <2>4 DEF Named, Known
    <2>6. Safe(d) /\ Grounded(d) /\ Quiet(d) /\ Tied(d)
      BY <2>3 DEF Named, Safe, Grounded, Quiet, Tied
    <2> QED
      BY <2>2, <2>5, <2>6 DEF Named
  <1>5. ASSUME ~c.open, c.flying PROVE Named([c EXCEPT !.flight.retired = @ \cup S], {})
    <2> DEFINE b == [c.flight EXCEPT !.retired = @ \cup S]
               d == [c EXCEPT !.flight = b]
    <2>1. b.retired = c.flight.retired \cup S /\ b.cmds = c.flight.cmds
      BY <1>1 DEF Batches
    <2>2. [c EXCEPT !.flight.retired = @ \cup S] = d
      OBVIOUS
    <2> HIDE DEF b
    <2>3. /\ d.own = c.own /\ d.flight = b /\ d.pool = c.pool /\ d.rec = c.rec
          /\ d.alive = c.alive /\ d.open = c.open /\ d.flying = c.flying /\ d.kern = c.kern
          /\ d.leaked = c.leaked /\ d.poisoned = c.poisoned /\ d.lost = c.lost
          /\ d.adrift = c.adrift /\ d.next = c.next
      BY <1>1 DEF Context
    <2> HIDE DEF d
    <2>4. Owned(d) = Owned(c) /\ Built(d) = Built(c)
      BY <2>3 DEF Owned, Built
    <2>5. Known(d, {})
      BY <1>2, <1>5, <2>1, <2>3, <2>4 DEF Named, Known
    <2>6. Safe(d) /\ Grounded(d) /\ Quiet(d) /\ Tied(d)
      BY <2>3 DEF Named, Safe, Grounded, Quiet, Tied
    <2> QED
      BY <2>2, <2>5, <2>6 DEF Named
  <1> QED
    BY <1>3, <1>4, <1>5

(* Nothing is in flight and nothing recorded: what a call disposes of then. *)
LEMMA IdleNamed ==
  ASSUME NEW c, NEW S, Sound(c, S, 0), Named(c, S), ~c.open, ~c.flying, ~c.poisoned,
         NEW d, Carried(c, d), Steady(c, d), d.leaked = c.leaked
  PROVE  Named(d, {})
  <1>1. Uses(c.rec.cmds) = {} /\ Uses(c.flight.cmds) = {}
    BY UsesEmpty DEF Sound, Emptied
  <1>2. Known(d, {})
    BY <1>1 DEF Named, Known, Carried, Passed, Steady
  <1>3. Safe(d) /\ Grounded(d) /\ Quiet(d)
    BY DEF Named, Safe, Grounded, Quiet, Carried, Passed, Steady
  <1>4. Tied(d)
    BY DEF Named, Tied, Carried, Passed
  <1> QED
    BY <1>2, <1>3, <1>4 DEF Named

LEMMA StageTakenNamed ==
  ASSUME NEW c \in Context, Named(c, {}), ~c.poisoned, NEW s \in Stages, NEW v
  PROVE  Named(StageTaken(c, s, v), {s})
  <1> DEFINE po == c.pool \ {s}
             al == c.alive \cup {s}
             m == [c.mem EXCEPT ![s] = v]
             d == [c EXCEPT !.pool = po, !.alive = al, !.mem = m]
  <1>1. StageTaken(c, s, v) = d
    BY DEF StageTaken
  <1> HIDE DEF po, al, m
  <1>2. /\ d.own = c.own /\ d.flight = c.flight /\ d.rec = c.rec
        /\ d.open = c.open /\ d.flying = c.flying /\ d.kern = c.kern
        /\ d.leaked = c.leaked /\ d.poisoned = c.poisoned /\ d.lost = c.lost
        /\ d.adrift = c.adrift /\ d.next = c.next
    BY DEF Context
  <1> HIDE DEF d
  <1>3. Owned(d) = Owned(c) /\ Built(d) = Built(c)
    BY <1>2 DEF Owned, Built
  <1>4. Known(d, {s})
    BY <1>2, <1>3 DEF Named, Known
  <1>5. Safe(d) /\ Grounded(d) /\ Quiet(d) /\ Tied(d)
    BY <1>2 DEF Named, Safe, Grounded, Quiet, Tied
  <1> QED
    BY <1>1, <1>4, <1>5 DEF Named

(* Recording: what the steps of Rest leave of a live context. *)
LEMMA RestNamed ==
  ASSUME NEW c, NEW T, Named(c, T), ~c.poisoned, NEW d, Rest(c, d), Calm(c, d),
         d.leaked = c.leaked, d.rec.retired = c.rec.retired,
         \A k \in Kernels : /\ d.kern[k].built = c.kern[k].built
                            /\ d.kern[k].reuse # NoSet => d.kern[k].reuse[1] = k,
         Uses(d.rec.cmds) \subseteq Uses(c.rec.cmds) \cup Owned(c) \cup Built(c) \cup T
  PROVE  Named(d, T) /\ ~d.poisoned /\ Owned(d) = Owned(c) /\ Built(d) = Built(c)
  <1>1. Owned(d) = Owned(c) /\ Built(d) = Built(c)
    BY DEF Owned, Built, Rest
  <1>2. Known(d, T)
    BY <1>1 DEF Named, Known, Rest
  <1>3. Safe(d) /\ Grounded(d) /\ Quiet(d)
    BY DEF Named, Safe, Grounded, Quiet, Rest
  <1>4. Tied(d)
    BY TiedCalm DEF Named
  <1> QED
    BY <1>1, <1>2, <1>3, <1>4 DEF Named, Rest

LEMMA SetWrittenNamed ==
  ASSUME NEW c, Whole(c), Named(c, {}), ~c.poisoned, NEW k \in Kernels,
         c.kern[k].mark # ArenaSize
  PROVE  LET d == SetWritten(c, k)
         IN  Named(d, {}) /\ ~d.poisoned /\ Owned(d) = Owned(c) /\ Built(d) = Built(c)
  <1> DEFINE m == c.kern[k].mark + 1
             kk == [c.kern[k] EXCEPT !.mark = m]
             K == [c.kern EXCEPT ![k] = kk]
             d == SetWritten(c, k)
  <1>1. c \in Context /\ 0 \in Nat /\ Sound(c, {}, 0)
    BY DEF Whole, Sound
  <1>2. Rest(c, d) /\ Calm(c, d) /\ d.rec = c.rec /\ d.kern = K
    BY <1>1, SetWrittenSound, SetWrittenWhole, ZenonT(60)
  <1>3. d.leaked = c.leaked
    BY <1>1 DEF SetWritten, Context
  <1> HIDE DEF d
  <1>4. c.kern \in [Kernels -> KernelStates] /\ c.kern[k] \in KernelStates
    BY <1>1, ContextParts
  <1> HIDE DEF m
  <1>5. kk.built = c.kern[k].built /\ kk.reuse = c.kern[k].reuse
    BY <1>4 DEF KernelStates
  <1> HIDE DEF kk
  <1>6. \A j \in Kernels : /\ d.kern[j].built = c.kern[j].built
                           /\ d.kern[j].reuse # NoSet => d.kern[j].reuse[1] = j
    BY <1>2, <1>4, <1>5 DEF Named, Tied
  <1> QED
    BY <1>2, <1>3, <1>6, RestNamed DEF d

LEMMA AcquiredNamed ==
  ASSUME NEW c, Whole(c), Named(c, {}), ~c.poisoned, NEW k \in Kernels,
         c.kern[k].reuse = NoSet => c.kern[k].mark # ArenaSize
  PROVE  LET d == Acquired(c, k)
         IN  /\ Named(d, {}) /\ ~d.poisoned /\ Owned(d) = Owned(c) /\ Built(d) = Built(c)
             /\ d.kern[k].reuse[1] = k
  <1> DEFINE kk == [c.kern[k] EXCEPT !.mark = @ + 1, !.reuse = NextSet(c, k)]
             K == [c.kern EXCEPT ![k] = kk]
             d == Acquired(c, k)
  <1>1. c \in Context /\ 0 \in Nat /\ Sound(c, {}, 0)
    BY DEF Whole, Sound
  <1>2. CASE c.kern[k].reuse # NoSet
    <2>1. d = c
      BY <1>2 DEF Acquired
    <2>2. c.kern[k].reuse[1] = k
      BY <1>2 DEF Named, Tied
    <2> HIDE DEF d
    <2> QED
      BY <2>1, <2>2 DEF d
  <1>3. CASE c.kern[k].reuse = NoSet
    <2>1. /\ Sound(d, {}, 0) /\ Rest(c, d) /\ d.open = c.open /\ d.rec = c.rec
          /\ d.kern[k].reuse \in DescriptorSets
          /\ c.kern[k].reuse # NoSet => d = c
          /\ c.kern[k].reuse = NoSet =>
               /\ d.bindings = [c.bindings EXCEPT ![NextSet(c, k)] = c.kern[k].pending]
               /\ d.kern = K
      BY <1>1, AcquiredSound, ZenonT(60)
    <2>2. d.leaked = c.leaked
      <3>1. d = [SetWritten(c, k) EXCEPT !.kern[k].reuse = NextSet(c, k)]
        BY <1>3 DEF Acquired
      <3>2. SetWritten(c, k) \in Context /\ SetWritten(c, k).leaked = c.leaked
        <4>1. SetWritten(c, k) \in Context
          BY <1>3, SetWrittenWhole DEF Whole, Sound
        <4>2. SetWritten(c, k).leaked = c.leaked
          BY <1>1 DEF SetWritten, Context
        <4> QED
          BY <4>1, <4>2
      <3> QED
        BY <3>1, <3>2 DEF Context
    <2>3. Calm(c, d)
      BY AcquiredWhole
    <2> HIDE DEF d
    <2>4. c.kern \in [Kernels -> KernelStates] /\ c.kern[k] \in KernelStates
      BY <1>1, ContextParts
    <2>5. kk.built = c.kern[k].built /\ kk.reuse = NextSet(c, k)
      BY <2>4 DEF KernelStates
    <2>6. NextSet(c, k)[1] = k
      BY DEF NextSet
    <2> HIDE DEF kk
    <2>7. d.kern[k] = kk /\ \A j \in Kernels : j # k => d.kern[j] = c.kern[j]
      BY <1>3, <2>1, <2>4
    <2>8. \A j \in Kernels : /\ d.kern[j].built = c.kern[j].built
                             /\ d.kern[j].reuse # NoSet => d.kern[j].reuse[1] = j
      BY <2>5, <2>6, <2>7 DEF Named, Tied
    <2>9. Named(d, {}) /\ ~d.poisoned /\ Owned(d) = Owned(c) /\ Built(d) = Built(c)
      BY <2>1, <2>2, <2>3, <2>8, RestNamed
    <2> QED
      BY <2>5, <2>6, <2>7, <2>9 DEF d
  <1> QED
    BY <1>2, <1>3

LEMMA RecordedNamed ==
  ASSUME NEW c, NEW T, Sound(c, T, 0), Named(c, T), ~c.poisoned, NEW cmd \in Commands,
         Names(cmd) \subseteq Owned(c) \cup Built(c) \cup T
  PROVE  LET d == Recorded(c, cmd)
         IN  Named(d, T) /\ ~d.poisoned
  <1> DEFINE d == Recorded(c, cmd)
  <1>1. 0 \in Nat /\ c \in Context
    BY DEF Sound
  <1>2. /\ Rest(c, d) /\ d.kern = c.kern
        /\ d.rec.cmds = Append(c.rec.cmds, cmd) /\ d.rec.retired = c.rec.retired
    BY <1>1, RecordedSound
  <1>3. d.leaked = c.leaked
    <2>1. Opened(c) \in Context
      BY <1>1, OpenedSound DEF Sound
    <2>2. Opened(c).leaked = c.leaked
      BY <1>1 DEF Opened, Context
    <2> QED
      BY <2>1, <2>2 DEF Recorded, Context
  <1> HIDE DEF d
  <1>4. Calm(c, d)
    BY <1>2 DEF Rest, Calm
  <1>5. c.rec.cmds \in Seq(Commands)
    BY <1>1, ContextParts, BatchParts
  <1>6. Uses(d.rec.cmds) = Uses(c.rec.cmds) \cup Names(cmd)
    BY <1>2, <1>5, UsesAppend
  <1>7. \A k \in Kernels : /\ d.kern[k].built = c.kern[k].built
                           /\ d.kern[k].reuse # NoSet => d.kern[k].reuse[1] = k
    BY <1>2 DEF Named, Tied
  <1>8. Uses(d.rec.cmds) \subseteq Uses(c.rec.cmds) \cup Owned(c) \cup Built(c) \cup T
    BY <1>6
  <1> QED
    BY <1>2, <1>3, <1>4, <1>7, <1>8, RestNamed DEF d

LEMMA OneShotNamed ==
  ASSUME NEW c, NEW T, Sound(c, T, 0), Named(c, T), ~c.poisoned, ~c.open, ~c.flying,
         NEW shot \in Shots, NEW m \in Cells, NEW uses \in SUBSET Objects,
         uses \subseteq Owned(c) \cup Built(c) \cup T, NEW extra \in Nat
  PROVE  LET d == OneShot(c, shot, m, uses, extra)
         IN  Named(d, T) /\ (shot \in {"ok", "idle", "fails"} => Steady(c, d) /\ d.leaked = c.leaked)
  <1> DEFINE d == OneShot(c, shot, m, uses, extra)
  <1>1. 0 \in Nat /\ c \in Context /\ Emptied(c) /\ ~c.lost /\ c.adrift = {}
    BY DEF Sound, Named, Safe, Known
  <1>2. shot \in {"ok", "fails", "idle", "lost", "unknown"}
    BY BoundAssumption DEF Shots
  <1>3. Carried(c, d) /\ d.alive = c.alive /\ d.pool = c.pool
    BY <1>1, OneShotSound
  <1>4. CASE shot \in {"ok", "idle", "fails"}
    <2>1. Steady(c, d) /\ d.leaked = c.leaked
      BY <1>1, <1>4 DEF OneShot, Context, Steady
    <2> HIDE DEF d
    <2>2. Owned(d) = Owned(c) /\ Built(d) = Built(c)
      BY <1>3 DEF Owned, Built, Carried, Passed
    <2>3. Known(d, T)
      BY <1>3, <2>1, <2>2 DEF Named, Known, Steady, Carried, Passed
    <2>4. Safe(d) /\ Grounded(d) /\ Quiet(d)
      BY <1>3, <2>1 DEF Named, Safe, Grounded, Quiet, Steady, Carried, Passed
    <2>5. Tied(d)
      BY <1>3 DEF Named, Tied, Carried, Passed
    <2> QED
      BY <2>1, <2>3, <2>4, <2>5 DEF Named, d
  <1>5. CASE shot \in {"lost", "unknown"}
    <2>1. /\ d.poisoned
          /\ shot = "lost" => d.lost /\ d.leaked = c.leaked
          /\ shot = "unknown" => ~d.lost /\ d.adrift = uses
      <3>1. CASE shot = "lost"
        <4> DEFINE yes == TRUE
                   e == [c EXCEPT !.poisoned = yes, !.lost = @ \/ yes]
        <4>1. d = e
          BY <3>1 DEF OneShot, Poisoned
        <4> QED
          BY <1>1, <3>1, <4>1 DEF Context
      <3>2. CASE shot = "unknown"
        <4> DEFINE no == FALSE
                   yes == TRUE
                   z == c.lost \/ no
                   p == [c EXCEPT !.poisoned = yes, !.lost = z]
                   l == p.leaked + 2 + extra
                   x == p.scratch + extra
                   y == p.submissions + 1
                   u == p.adrift \cup uses
                   e == [p EXCEPT !.leaked = l, !.scratch = x, !.submissions = y, !.adrift = u]
        <4>1. d = e
          BY <3>2 DEF OneShot, Poisoned
        <4>2. yes \in BOOLEAN /\ yes /\ z \in BOOLEAN /\ ~z
          BY <1>1
        <4> HIDE DEF yes, z, l, x, y
        <4>3. p.poisoned = yes /\ p.lost = z /\ p.adrift = c.adrift /\ p \in Context
          BY <1>1, <4>2 DEF Context
        <4>4. u = uses
          BY <1>1, <4>3
        <4> HIDE DEF p, u
        <4>5. e.poisoned = p.poisoned /\ e.lost = p.lost /\ e.adrift = u
          BY <4>3 DEF Context
        <4> HIDE DEF e, d
        <4> QED
          BY <3>2, <4>1, <4>2, <4>3, <4>4, <4>5
      <3> QED
        BY <1>5, <3>1, <3>2
    <2> HIDE DEF d
    <2>2. ~d.open /\ ~d.flying
      BY <1>3 DEF Carried, Passed
    <2>3. uses \subseteq c.alive \ c.pool
      BY HoldersExist DEF Sound
    <2>4. Safe(d)
      BY <1>3, <1>5, <2>1, <2>2, <2>3 DEF Safe
    <2>5. Known(d, T) /\ Grounded(d)
      BY <2>1, <2>2 DEF Known, Grounded
    <2>6. Quiet(d)
      BY <1>1, <1>5, <2>1 DEF Quiet, Named
    <2>7. Tied(d)
      BY <1>3 DEF Named, Tied, Carried, Passed
    <2> QED
      BY <1>5, <2>4, <2>5, <2>6, <2>7 DEF Named, d
  <1> QED
    BY <1>2, <1>4, <1>5

LEMMA AbandonedNamed ==
  ASSUME NEW c, Whole(c), Named(c, {}), NEW wait \in WaitResults,
         Orderly /\ c.flying /\ ~c.poisoned /\ wait = "unknown" => Uses(c.flight.cmds) = {}
  PROVE  LET d == Abandoned(c, wait)
         IN  Named(d, {}) /\ ~d.open /\ ~d.flying
  <1> DEFINE e == [c EXCEPT !.leaked = @ + 2, !.flying = FALSE,
                            !.flight = NoBatch, !.ran = FALSE,
                            !.adrift = @ \cup Uses(c.flight.cmds)]
             a == IF c.flying /\ c.poisoned THEN Leaked(e, c.flight.retired)
                  ELSE Reaped(c, wait)
             d0 == [a EXCEPT !.open = FALSE, !.rec = NoBatch]
             s == SubmissionReleased(d0)
             d == Abandoned(c, wait)
  <1>1. Sound(c, {}, 0) /\ c \in Context /\ 0 \in Nat /\ (c.lost => c.poisoned)
        /\ (~c.poisoned => c.adrift = {})
    BY DEF Whole, Sound, Named, Safe, Known
  <1>2. Sound(d, {}, 0) /\ AbandonLeaves(c, d)
    BY <1>1, AbandonedSound
  <1>3. a \in Context
    <2>1. CASE c.flying /\ c.poisoned
      <3> DEFINE l == c.leaked + 2
                 no == FALSE
                 u == c.adrift \cup Uses(c.flight.cmds)
      <3>1. e = [c EXCEPT !.leaked = l, !.flying = no, !.flight = NoBatch, !.ran = no,
                          !.adrift = u]
        OBVIOUS
      <3>2. l \in Nat /\ no \in BOOLEAN /\ u \in SUBSET Objects /\ NoBatch \in Batches
            /\ c.flight.retired \in SUBSET Objects
        <4>1. << >> \in Seq(Commands) /\ {} \in SUBSET Objects
          OBVIOUS
        <4>2. NoBatch \in Batches
          BY <4>1 DEF NoBatch, Batches
        <4> QED
          BY <1>1, <4>2, ContextParts, BatchParts
      <3> HIDE DEF l, no, u
      <3>3. e \in Context
        BY <1>1, <3>1, <3>2, ZenonT(60) DEF Context
      <3> HIDE DEF e
      <3> DEFINE w == e.leaked + Weight(c.flight.retired)
                 z == [e EXCEPT !.leaked = w]
      <3>4. Leaked(e, c.flight.retired) = z
        BY DEF Leaked
      <3>5. w \in Nat
        BY <3>2, <3>3, ContextParts, WeightFacts
      <3> HIDE DEF w
      <3>6. z \in Context
        BY <3>3, <3>5 DEF Context
      <3> QED
        BY <2>1, <3>4, <3>6
    <2>2. CASE ~(c.flying /\ c.poisoned)
      <3>1. a = Reaped(c, wait)
        BY <2>2
      <3> HIDE DEF a
      <3> QED
        BY <1>1, <3>1, ReapedSound DEF Sound
    <2> QED
      BY <2>1, <2>2
  <1>4. /\ ~c.flying => a = c
        /\ c.flying /\ c.poisoned => a.poisoned /\ (Orderly => a.lost) /\ ~a.open
        /\ c.flying /\ ~c.poisoned => WaitLeaves(c, a, Uses(c.flight.cmds), wait)
    <2>1. ASSUME ~c.flying PROVE a = c
      BY <2>1 DEF Reaped
    <2>2. ASSUME c.flying, c.poisoned PROVE a.poisoned /\ (Orderly => a.lost) /\ ~a.open
      <3>2. e.poisoned = c.poisoned /\ e.lost = c.lost /\ e.open = c.open
        BY <1>1 DEF Context
      <3>3. {"poisoned", "lost", "open"} \subseteq DOMAIN e
        BY <1>1 DEF Context
      <3> HIDE DEF e
      <3>4. a = [e EXCEPT !.leaked = @ + Weight(c.flight.retired)]
        BY <2>2 DEF Leaked
      <3> HIDE DEF a
      <3>5. a.poisoned = e.poisoned /\ a.lost = e.lost /\ a.open = e.open
        BY <3>3, <3>4
      <3> QED
        BY <2>2, <3>2, <3>5 DEF Named, Safe
    <2>3. ASSUME c.flying, ~c.poisoned
          PROVE  WaitLeaves(c, a, Uses(c.flight.cmds), wait)
      <3>1. a = Reaped(c, wait)
        BY <2>3
      <3> HIDE DEF a
      <3> QED
        BY <1>1, <2>3, <3>1, ReapedLeaves
    <2> QED
      BY <2>1, <2>2, <2>3
  <1>5. Steady(a, d) /\ d.leaked = a.leaked
        /\ (a.poisoned /\ ~a.open => d = a)
    <2>1. d = IF ~a.open THEN a
              ELSE IF a.poisoned THEN Scrapped(s, a.rec.retired)
              ELSE Recycled(s, a.rec.retired)
      BY DEF Abandoned
    <2> HIDE DEF a, d
    <2>2. d0 \in Context /\ Steady(a, d0) /\ d0.leaked = a.leaked
      <3>1. NoBatch \in Batches
        <4>1. << >> \in Seq(Commands) /\ {} \in SUBSET Objects
          OBVIOUS
        <4> QED
          BY <4>1 DEF NoBatch, Batches
      <3> QED
        BY <1>3, <3>1 DEF Context, Steady
    <2>3. ~a.open => d = a
      BY <2>1
    <2>4. ASSUME a.open PROVE Steady(a, d) /\ d.leaked = a.leaked
      <3>1. DOMAIN s = DOMAIN d0
        BY DEF SubmissionReleased
      <3>2. Steady(d0, s) /\ s.leaked = d0.leaked
        BY <2>2, DisposalSteady
      <3> DEFINE R == a.rec.retired
      <3>3. Steady(s, Recycled(s, R)) /\ Recycled(s, R).leaked = s.leaked
        <4> HIDE DEF R, d0
        <4>1. SubmissionReleased(d0) = [d0 EXCEPT !.submissions = @ - 1]
          BY DEF SubmissionReleased
        <4> QED
          BY <2>2, <4>1 DEF Recycled, Context, Steady
      <3>4. Steady(s, Scrapped(s, R)) /\ Scrapped(s, R).leaked = s.leaked
        <4> HIDE DEF R, d0
        <4>1. SubmissionReleased(d0) = [d0 EXCEPT !.submissions = @ - 1]
          BY DEF SubmissionReleased
        <4> QED
          BY <2>2, <4>1 DEF Scrapped, Recycled, Context, Steady
      <3> HIDE DEF s, d0
      <3>5. d = Scrapped(s, R) \/ d = Recycled(s, R)
        BY <2>1, <2>4
      <3> HIDE DEF R
      <3> QED
        BY <2>2, <3>2, <3>3, <3>4, <3>5 DEF Steady
    <2> QED
      BY <2>3, <2>4 DEF Steady
  <1> HIDE DEF a, d
  <1>6. Tied(d)
    BY <1>2 DEF Named, Tied, AbandonLeaves
  <1>7. Uses(d.rec.cmds) = {} /\ Uses(d.flight.cmds) = {} /\ ~d.open /\ ~d.flying
    BY <1>2, UsesEmpty DEF Sound, Emptied, AbandonLeaves
  <1>8. Known(d, {})
    BY <1>1, <1>2, <1>7 DEF Known, AbandonLeaves
  <1>9. Grounded(d)
    BY <1>7 DEF Grounded
  <1>10. Safe(d) /\ Quiet(d)
    <2>1. CASE ~c.flying /\ ~c.poisoned
      <3>1. ~d.poisoned /\ ~d.lost /\ d.leaked = c.leaked
        BY <1>1, <1>4, <1>5, <2>1 DEF Steady
      <3> QED
        BY <2>1, <3>1 DEF Safe, Quiet, Named
    <2>2. CASE ~c.flying /\ c.poisoned
      <3>1. d = c
        BY <1>4, <1>5, <2>2 DEF Named, Safe
      <3> QED
        BY <3>1 DEF Named
    <2>3. CASE c.flying /\ c.poisoned
      <3>1. d.poisoned /\ (Orderly => d.lost) /\ AsyncFlush
        BY <1>4, <1>5, <2>3 DEF Steady, Named, Grounded
      <3> QED
        BY <1>7, <3>1 DEF Safe, Quiet
    <2>4. CASE c.flying /\ ~c.poisoned
      <3>1. AsyncFlush
        BY <2>4 DEF Named, Grounded
      <3>2. WaitLeaves(c, a, Uses(c.flight.cmds), wait)
        BY <1>4, <2>4
      <3>3. \/ ~d.poisoned /\ ~d.lost
            \/ d.poisoned /\ d.lost
            \/ d.poisoned /\ ~d.lost /\ (Orderly => d.adrift = {})
        BY <1>1, <1>5, <2>4, <3>2 DEF WaitLeaves, Steady, WaitResults
      <3> QED
        BY <1>7, <3>1, <3>3 DEF Safe, Quiet
    <2> QED
      BY <2>1, <2>2, <2>3, <2>4
  <1> QED
    BY <1>6, <1>7, <1>8, <1>9, <1>10 DEF Named, d

-----------------------------------------------------------------------------
(* Each call keeps what commands name. *)

LEMMA RanNamed ==
  ASSUME NEW c, Whole(c), Named(c, {})
  PROVE  LET d == Ran(c)
         IN  /\ Whole(d) /\ Named(d, {}) /\ d.flying = c.flying
             /\ d.poisoned = c.poisoned /\ d.flight = c.flight
  <1> DEFINE d == Ran(c)
  <1>1. c \in Context /\ Sound(c, {}, 0) /\ 0 \in Nat
    BY DEF Whole, Sound
  <1>2. Sound(d, {}, 0) /\ Carried(c, d)
    BY <1>1, RanSound
  <1>3. Steady(c, d) /\ d.leaked = c.leaked /\ d.alive = c.alive /\ d.pool = c.pool
    BY <1>1 DEF Ran, Context, Steady
  <1> HIDE DEF d
  <1>4. Owned(d) = Owned(c) /\ Built(d) = Built(c)
    BY <1>2 DEF Owned, Built, Carried, Passed
  <1>5. Known(d, {})
    BY <1>2, <1>3, <1>4 DEF Named, Known, Carried, Passed, Steady
  <1>6. Safe(d) /\ Grounded(d) /\ Quiet(d) /\ Tied(d)
    BY <1>2, <1>3 DEF Named, Safe, Grounded, Quiet, Tied, Carried, Passed, Steady
  <1>7. Whole(d)
    BY <1>2, CalmWhole DEF Carried, Passed, Calm
  <1> QED
    BY <1>2, <1>3, <1>5, <1>6, <1>7 DEF Named, Carried, Passed, Steady, d

LEMMA BufferNamed ==
  ASSUME IInv, Named(ctx, {}), Buffer
  PROVE  Named(ctx, {})'
  <1> DEFINE c == Called(0)
             h == ctx.next
             x == c.next + 1
  <1>1. ~ctx.poisoned /\ ctx.next <= MaxHandles /\ ctx.faults + 0 <= MaxFaults /\ Whole(ctx)
    BY DEF Buffer, Live, IInv
  <1>2. Whole(c) /\ Named(c, {}) /\ Same(ctx, c) /\ 0 \in Nat
    BY <1>1, CalledNamed
  <1> DEFINE To(p, po, al, m) == [c EXCEPT !.pool = po, !.alive = al, !.mem = m,
                                           !.own[h] = p, !.next = x]
  <1>3. PICK p, po, al, m : p \in Pairs /\ ctx' = To(p, po, al, m)
    <2>1. c \in Context
      BY <1>2 DEF Whole, Sound
    <2>2. CASE ctx.pool \cap Pairs # {}
      <3>1. PICK p \in ctx.pool \cap Pairs :
              ctx' = [c EXCEPT !.pool = @ \ {p}, !.own[h] = p, !.next = @ + 1]
        BY <2>2 DEF Buffer
      <3>2. [c EXCEPT !.pool = @ \ {p}, !.own[h] = p, !.next = @ + 1]
              = To(p, c.pool \ {p}, c.alive, c.mem)
        BY <2>1 DEF Context
      <3> HIDE DEF c, h, x, To
      <3> QED
        BY <3>1, <3>2
    <2>3. CASE ctx.pool \cap Pairs = {}
      <3>1. PICK p \in Pairs \ ctx.alive :
              ctx' = [c EXCEPT !.alive = @ \cup {p}, !.own[h] = p,
                               !.next = @ + 1, !.mem[p] = Junk]
        BY <2>3 DEF Buffer
      <3> DEFINE m == [c.mem EXCEPT ![p] = Junk]
      <3>2. [c EXCEPT !.alive = @ \cup {p}, !.own[h] = p, !.next = @ + 1, !.mem[p] = Junk]
              = To(p, c.pool, c.alive \cup {p}, m)
        BY <2>1 DEF Context
      <3> HIDE DEF c, h, x, m, To
      <3> QED
        BY <3>1, <3>2
    <2> QED
      BY <2>2, <2>3
  <1> DEFINE d == To(p, po, al, m)
  <1> HIDE DEF c
  <1>4. c \in Context /\ Fresh(c) /\ h = c.next /\ ~c.poisoned
    BY <1>1, <1>2 DEF Whole, Sound, Same
  <1>5. c.own \in [Handles -> Pairs \cup {NoPair}] /\ c.next \in 1 .. MaxHandles + 1
        /\ MaxHandles \in Nat
    BY <1>4, BoundAssumption DEF Context
  <1>6. h \in Handles /\ h \in Nat /\ x = h + 1
    BY <1>1, <1>4, <1>5 DEF Handles
  <1>7. c.own[h] = NoPair
    BY <1>4, <1>5, <1>6 DEF Fresh
  <1>8. /\ d.own = [c.own EXCEPT ![h] = p] /\ d.next = x /\ d.kern = c.kern
        /\ d.flight = c.flight /\ d.rec = c.rec
        /\ d.open = c.open /\ d.flying = c.flying
        /\ d.leaked = c.leaked /\ d.poisoned = c.poisoned /\ d.lost = c.lost
        /\ d.adrift = c.adrift
    BY <1>4 DEF Context
  <1> HIDE DEF d, h, x
  <1>9. Owned(c) \subseteq Owned(d) /\ Built(d) = Built(c)
    BY <1>5, <1>6, <1>7, <1>8 DEF Owned, Built
  <1>10. Known(d, {})
    BY <1>2, <1>8, <1>9 DEF Named, Known
  <1>11. Safe(d) /\ Grounded(d) /\ Quiet(d)
    BY <1>2, <1>4, <1>8 DEF Named, Safe, Grounded, Quiet
  <1>12. Tied(d)
    <2> SUFFICES ASSUME NEW k \in Kernels
                 PROVE  /\ d.kern[k].bound < d.next
                        /\ d.kern[k].bound # 0 /\ d.own[d.kern[k].bound] # NoPair
                             => d.kern[k].pending = d.own[d.kern[k].bound]
                        /\ d.kern[k].reuse # NoSet => d.kern[k].reuse[1] = k
      BY DEF Tied
    <2>1. c.kern[k] \in KernelStates
      BY <1>4, ContextParts
    <2>2. c.kern[k].bound \in Nat /\ c.kern[k].bound < h
          /\ (c.kern[k].bound # 0 => c.kern[k].bound \in Handles)
      BY <1>2, <1>4, <2>1 DEF Named, Tied, KernelStates, Handles
    <2>3. c.kern[k].bound # h /\ c.kern[k].bound < x
      BY <1>6, <2>2
    <2> QED
      BY <1>2, <1>5, <1>8, <2>2, <2>3 DEF Named, Tied
  <1>13. ctx' = d /\ Named(d, {})
    BY <1>3, <1>10, <1>11, <1>12 DEF d, Named
  <1> QED
    BY <1>13, NamedHeld

LEMMA FreeBufferNamed ==
  ASSUME IInv, Named(ctx, {}), NEW h \in Handles, NEW f \in Outcomes,
         FreeBuffer(h, f)
  PROVE  Named(ctx, {})'
  <1> DEFINE n == Cost(f, Idle)
             e == Called(n)
             p == ctx.own[h]
             c == [e EXCEPT !.own[h] = NoPair]
             r == [c EXCEPT !.rec.retired = @ \cup {p}]
             due == Cardinality(r.rec.retired \cap Pairs) > MaxRetired
  <1>1. p # NoPair /\ Whole(ctx)
    BY DEF FreeBuffer, IInv
  <1>2. n \in Nat /\ ctx.faults + n <= MaxFaults
    <2>1. ctx.faults \in 0 .. MaxFaults /\ MaxFaults \in Nat /\ ctx \in Context
      BY <1>1, ContextParts, BoundAssumption DEF Whole, Sound
    <2>2. f = Idle => n = 0
      BY DEF Cost
    <2>3. f # Idle => ctx.faults + n <= MaxFaults
      <3>1. c.faults = ctx.faults + n
        BY <2>1 DEF Called, Context
      <3>2. f # Idle => c.faults <= MaxFaults
        BY DEF FreeBuffer
      <3> QED
        BY <3>1, <3>2
    <2> QED
      BY <2>1, <2>2, <2>3, CostType
  <1>3. ctx' = IF ~c.open /\ c.flying THEN [c EXCEPT !.flight.retired = @ \cup {p}]
               ELSE IF ~c.open THEN ReleasedOrLeaked(c, {p})
               ELSE IF due THEN Flush(r, "RetirementBudget", f)
               ELSE r
    BY DEF FreeBuffer
  <1> HIDE DEF n, due
  <1>4. Whole(e) /\ Named(e, {}) /\ Same(ctx, e)
    BY <1>1, <1>2, CalledNamed
  <1> HIDE DEF e
  <1>5. e.own[h] = p /\ Sound(e, {}, 0) /\ e \in Context /\ Fresh(e) /\ Bound(e) /\ 0 \in Nat
    BY <1>1, <1>4 DEF Same, Whole, Sound
  <1>6. Sound(c, {p}, 0)
    <2>1. Sound(c, {} \cup {p}, 0)
      BY <1>1, <1>5, DisownedSound
    <2>2. {} \cup {p} = {p}
      OBVIOUS
    <2> QED
      BY <2>1, <2>2
  <1>7. Named(c, {p})
    BY <1>1, <1>4, <1>5, DisownedNamed
  <1>8. c.own = [e.own EXCEPT ![h] = NoPair] /\ c.next = e.next /\ c.kern = e.kern
    BY <1>5 DEF Context
  <1> HIDE DEF c, p
  <1>9. Fresh(c) /\ Bound(c)
    <2>1. e.own \in [Handles -> Pairs \cup {NoPair}]
      BY <1>5, ContextParts
    <2> QED
      BY <1>5, <1>8, <2>1 DEF Fresh, Bound
  <1>10. CASE ~c.open
    <2>1. Named(ctx', {})
      BY <1>3, <1>6, <1>7, <1>10, RetirementNamed
    <2> QED
      BY <2>1, NamedHeld
  <1>11. CASE c.open
    <2>1. Named(r, {}) /\ Whole(r)
      BY <1>6, <1>7, <1>9, <1>11, RetirementNamed, RetirementHeld
    <2>2. ~r.poisoned
      <3>1. ~c.poisoned /\ c \in Context
        BY <1>6, <1>7, <1>11 DEF Named, Safe, Sound
      <3> QED
        BY <3>1 DEF Context
    <2> HIDE DEF r
    <2> DEFINE d == Flush(r, "RetirementBudget", f)
    <2>3. Named(d, {})
      BY <2>1, <2>2, FlushNamed
    <2>4. ctx' = r \/ ctx' = d
      BY <1>3, <1>11
    <2> HIDE DEF d
    <2> QED
      BY <2>1, <2>3, <2>4, NamedHeld
  <1> QED
    BY <1>10, <1>11

LEMMA DestroyKernelNamed ==
  ASSUME IInv, Named(ctx, {}), NEW k \in Kernels, DestroyKernel(k)
  PROVE  Named(ctx, {})'
  <1> DEFINE e == Called(0)
             c == [e EXCEPT !.kern[k] = Unbuilt]
  <1>1. ctx.kern[k].built /\ Whole(ctx)
    BY DEF DestroyKernel, IInv
  <1>2. ctx.faults + 0 <= MaxFaults /\ 0 \in Nat
    <2>1. ctx.faults \in 0 .. MaxFaults /\ MaxFaults \in Nat /\ ctx \in Context
      BY <1>1, ContextParts, BoundAssumption DEF Whole, Sound
    <2> QED
      BY <2>1
  <1>3. ctx' = IF c.open THEN [c EXCEPT !.rec.retired = @ \cup {k}]
               ELSE IF c.flying THEN [c EXCEPT !.flight.retired = @ \cup {k}]
               ELSE ReleasedOrLeaked(c, {k})
    BY DEF DestroyKernel
  <1>4. Whole(e) /\ Named(e, {}) /\ Same(ctx, e)
    BY <1>1, <1>2, CalledNamed
  <1> HIDE DEF e
  <1>5. e.kern[k].built /\ Sound(e, {}, 0) /\ e \in Context
    BY <1>1, <1>4 DEF Same, Whole, Sound
  <1>6. Sound(c, {k}, 0)
    <2>1. Sound(c, {} \cup {k}, 0)
      BY <1>2, <1>5, UnbuildingSound
    <2>2. {} \cup {k} = {k}
      OBVIOUS
    <2> QED
      BY <2>1, <2>2
  <1>7. Named(c, {k})
    BY <1>4, <1>5, UnbuildingNamed
  <1> HIDE DEF c
  <1>8. Named(ctx', {})
    BY <1>3, <1>6, <1>7, RetirementNamed
  <1> QED
    BY <1>8, NamedHeld

LEMMA BuildKernelNamed ==
  ASSUME IInv, Named(ctx, {}), NEW k \in Kernels, BuildKernel(k)
  PROVE  Named(ctx, {})'
  <1> DEFINE e == Called(0)
             a == e.alive \cup {k}
             yes == TRUE
             u == [Unbuilt EXCEPT !.built = yes]
             K == [e.kern EXCEPT ![k] = u]
             B == [s \in DescriptorSets |-> IF s[1] = k THEN NoPair ELSE e.bindings[s]]
             d == [e EXCEPT !.alive = a, !.kern = K, !.bindings = B]
  <1>1. k \notin ctx.alive /\ ctx.faults + 0 <= MaxFaults /\ Whole(ctx)
        /\ 0 \in Nat /\ ~ctx.poisoned
    BY DEF BuildKernel, Live, IInv
  <1>2. Whole(e) /\ Named(e, {}) /\ Same(ctx, e)
    BY <1>1, CalledNamed
  <1>3. ctx' = d
    BY DEF BuildKernel
  <1> HIDE DEF e
  <1>4. ~e.poisoned /\ e \in Context
    BY <1>1, <1>2 DEF Same, Whole, Sound
  <1>5. /\ K[k].built /\ K[k].bound = 0 /\ K[k].reuse = NoSet
        /\ \A j \in Kernels : j # k => K[j] = e.kern[j]
    <2>0. yes \in BOOLEAN /\ yes
      OBVIOUS
    <2> HIDE DEF yes
    <2>1. u = [built |-> yes, bound |-> 0, pending |-> NoPair, mark |-> 0, reuse |-> NoSet]
      BY DEF Unbuilt
    <2>2. u.built /\ u.bound = 0 /\ u.reuse = NoSet
      BY <2>0, <2>1
    <2> HIDE DEF u
    <2> QED
      BY <1>4, <2>2, ContextParts DEF u
  <1> HIDE DEF a, K, B
  <1>6. /\ d.own = e.own /\ d.next = e.next /\ d.kern = K
        /\ d.flight = e.flight /\ d.rec = e.rec
        /\ d.open = e.open /\ d.flying = e.flying
        /\ d.leaked = e.leaked /\ d.poisoned = e.poisoned /\ d.lost = e.lost
        /\ d.adrift = e.adrift
    BY <1>4 DEF Context
  <1> HIDE DEF d
  <1>7. Owned(d) = Owned(e) /\ Built(e) \subseteq Built(d)
    BY <1>5, <1>6 DEF Owned, Built
  <1>8. Known(d, {})
    BY <1>2, <1>6, <1>7 DEF Named, Known
  <1>9. Safe(d) /\ Grounded(d) /\ Quiet(d)
    BY <1>2, <1>4, <1>6 DEF Named, Safe, Grounded, Quiet
  <1>10. Tied(d)
    <2>1. 0 < e.next
      BY <1>4 DEF Context
    <2> QED
      BY <1>2, <1>5, <1>6, <2>1 DEF Named, Tied
  <1> QED
    BY <1>3, <1>8, <1>9, <1>10, NamedHeld DEF Named

LEMMA BindNamed ==
  ASSUME IInv, Named(ctx, {}), NEW k \in Kernels, NEW h \in Handles, Bind(k, h)
  PROVE  Named(ctx, {})'
  <1> DEFINE e == Called(0)
             kk == [e.kern[k] EXCEPT !.bound = h, !.pending = ctx.own[h], !.reuse = NoSet]
             K == [e.kern EXCEPT ![k] = kk]
             d == [e EXCEPT !.kern = K]
  <1>1. ctx.faults + 0 <= MaxFaults /\ Whole(ctx) /\ ctx.own[h] # NoPair
        /\ 0 \in Nat /\ ~ctx.poisoned
    BY DEF Bind, Live, IInv
  <1>2. Whole(e) /\ Named(e, {}) /\ Same(ctx, e)
    BY <1>1, CalledNamed
  <1>3. ctx' = d
    <2>1. e \in Context
      BY <1>2 DEF Whole, Sound
    <2>2. ctx' = [e EXCEPT !.kern[k].bound = h, !.kern[k].pending = ctx.own[h],
                           !.kern[k].reuse = NoSet]
      BY DEF Bind
    <2>3. e.kern[k] \in KernelStates /\ e.kern \in [Kernels -> KernelStates]
      BY <2>1, ContextParts
    <2> HIDE DEF e
    <2>4. [e EXCEPT !.kern[k].bound = h, !.kern[k].pending = ctx.own[h],
                    !.kern[k].reuse = NoSet] = d
      BY <2>1, <2>3, ZenonT(60) DEF Context, KernelStates
    <2> QED
      BY <2>2, <2>4
  <1> HIDE DEF e
  <1>4. e \in Context /\ ~e.poisoned /\ e.own[h] = ctx.own[h] /\ h < e.next
    <2>1. e \in Context /\ Fresh(e) /\ e.own[h] = ctx.own[h] /\ ~e.poisoned
      BY <1>1, <1>2 DEF Same, Whole, Sound
    <2>2. h \in Nat /\ e.next \in Nat
      BY <2>1 DEF Context, Handles
    <2> QED
      BY <1>1, <2>1, <2>2 DEF Fresh
  <1>5. kk.built = e.kern[k].built /\ kk.bound = h /\ kk.pending = e.own[h] /\ kk.reuse = NoSet
    <2>1. e.kern[k] \in KernelStates
      BY <1>4, ContextParts
    <2> QED
      BY <1>4, <2>1 DEF KernelStates
  <1> HIDE DEF kk
  <1>6. /\ K[k] = kk
        /\ \A j \in Kernels : j # k => K[j] = e.kern[j]
        /\ \A j \in Kernels : K[j].built = e.kern[j].built
    BY <1>4, <1>5, ContextParts
  <1> HIDE DEF K
  <1>7. /\ d.own = e.own /\ d.next = e.next /\ d.kern = K
        /\ d.flight = e.flight /\ d.rec = e.rec
        /\ d.open = e.open /\ d.flying = e.flying
        /\ d.leaked = e.leaked /\ d.poisoned = e.poisoned /\ d.lost = e.lost
        /\ d.adrift = e.adrift
    BY <1>4 DEF Context
  <1> HIDE DEF d
  <1>8. Owned(d) = Owned(e) /\ Built(d) = Built(e)
    BY <1>6, <1>7 DEF Owned, Built
  <1>9. Known(d, {})
    BY <1>2, <1>7, <1>8 DEF Named, Known
  <1>10. Safe(d) /\ Grounded(d) /\ Quiet(d)
    BY <1>2, <1>4, <1>7 DEF Named, Safe, Grounded, Quiet
  <1>11. Tied(d)
    BY <1>2, <1>4, <1>5, <1>6, <1>7 DEF Named, Tied
  <1> QED
    BY <1>3, <1>9, <1>10, <1>11, NamedHeld DEF Named

(* What a bound kernel's dispatch addresses is the program's own. *)
LEMMA Addressed ==
  ASSUME NEW c, Named(c, {}), NEW k \in Kernels, c.kern[k].built, c.kern[k].bound # 0,
         c.kern[k].bound \in Handles, c.own[c.kern[k].bound] # NoPair
  PROVE  c.kern[k].pending \in Owned(c) /\ k \in Built(c)
  BY DEF Named, Tied, Owned, Built

LEMMA DispatchNamed ==
  ASSUME IInv, Named(ctx, {}), NEW k \in Kernels, NEW v \in Pushed,
         NEW f \in Outcomes, NEW g \in Outcomes, Dispatch(k, v, f, g)
  PROVE  Named(ctx, {})'
  <1> DEFINE n == Cost(f, Idle) + Cost(g, Idle)
             c == Called(n)
             exhausted == c.kern[k].reuse = NoSet /\ c.kern[k].mark = ArenaSize
             l == Flush(c, "DescriptorsExhausted", f)
             a == IF exhausted THEN l ELSE c
             s == Acquired(a, k)
             cmd == [set |-> s.kern[k].reuse, to |-> c.kern[k].pending, value |-> v]
             r == Recorded(s, cmd)
             due == Due(r)
             z == Flush(r, "BatchFull", g)
             y == IF due THEN z ELSE r
             failed == exhausted /\ Failed(c, "DescriptorsExhausted", f)
             w == Writing(y, c.kern[k].bound)
  <1>1. /\ ctx.faults + n <= MaxFaults /\ Whole(ctx) /\ n \in Nat /\ ~ctx.poisoned
        /\ Dispatchable(k)
    <2>1. Live(n) /\ Dispatchable(k)
      BY DEF Dispatch
    <2> QED
      BY <2>1, CostType DEF Live, IInv
  <1>2. ctx' = (IF failed THEN a ELSE w) /\ (f # Idle => failed)
    BY DEF Dispatch
  <1> HIDE DEF n, failed, due
  <1>3. Whole(c) /\ Named(c, {}) /\ Same(ctx, c)
    BY <1>1, CalledNamed
  <1> HIDE DEF c
  <1>4. /\ c \in Context /\ ~c.poisoned /\ c.kern[k].pending \in Pairs
        /\ c.kern[k].bound \in Handles /\ c.kern[k].pending \in Owned(c) /\ k \in Built(c)
    <2>1. c \in Context /\ Bound(c)
      BY <1>3 DEF Whole, Sound
    <2>2. c.kern[k] \in KernelStates /\ c.kern[k].bound # 0 /\ c.kern[k].built
          /\ c.own[c.kern[k].bound] # NoPair
      BY <1>1, <1>3, <2>1, ContextParts DEF Same, Dispatchable
    <2>3. c.kern[k].bound \in Handles
      BY <2>2 DEF KernelStates
    <2> QED
      BY <1>1, <1>3, <2>1, <2>2, <2>3, Addressed DEF Same, Bound
  <1>5. /\ Whole(l) /\ Named(l, {}) /\ l.kern[k].mark = 0 /\ (f = Idle => ~l.poisoned)
        /\ Owned(l) = Owned(c) /\ Built(l) = Built(c)
    <2>1. /\ Whole(l) /\ Calm(c, l) /\ l.kern[k].mark = 0
          /\ FlushLeaves(c, l, Completing("DescriptorsExhausted"))
      BY <1>3, CalmFlush, FlushWhole
    <2>2. Named(l, {}) /\ (f = Idle => ~l.poisoned)
      BY <1>3, <1>4, FlushNamed
    <2> HIDE DEF l
    <2> QED
      BY <1>4, <2>1, <2>2, FlushHolders
  <1>6. /\ Whole(a) /\ Named(a, {}) /\ (a.kern[k].reuse = NoSet => a.kern[k].mark # ArenaSize)
        /\ Owned(a) = Owned(c) /\ Built(a) = Built(c)
        /\ (~failed => ~a.poisoned)
    <2>1. ArenaSize # 0
      BY BoundAssumption
    <2> HIDE DEF l
    <2> QED
      BY <1>2, <1>3, <1>4, <1>5, <2>1
  <1> HIDE DEF a
  <1>7. CASE failed
    <2>1. ctx' = a
      BY <1>2, <1>7
    <2> QED
      BY <1>6, <2>1, NamedHeld
  <1>8. CASE ~failed
    <2>1. /\ Whole(s) /\ s.kern[k].reuse \in DescriptorSets /\ Named(s, {}) /\ ~s.poisoned
          /\ Owned(s) = Owned(c) /\ Built(s) = Built(c) /\ s.kern[k].reuse[1] = k
      BY <1>6, <1>8, AcquiredWhole, AcquiredNamed
    <2> HIDE DEF s
    <2>2. cmd \in Commands /\ Names(cmd) \subseteq Owned(s) \cup Built(s) \cup {}
      <3>1. cmd \in Commands
        BY <1>4, <2>1 DEF Commands
      <3>2. IsDispatch(cmd) /\ cmd.to = c.kern[k].pending /\ cmd.set = s.kern[k].reuse
        BY DEF IsDispatch
      <3> HIDE DEF cmd
      <3>3. Names(cmd) = {c.kern[k].pending, k}
        BY <2>1, <3>2 DEF Names
      <3> QED
        BY <1>4, <2>1, <3>1, <3>3
    <2> HIDE DEF cmd
    <2>3. Whole(r) /\ Named(r, {}) /\ ~r.poisoned
      <3>1. Sound(s, {}, 0)
        BY <2>1 DEF Whole
      <3> QED
        BY <2>1, <2>2, <3>1, RecordedWhole, RecordedNamed
    <2> HIDE DEF r
    <2>4. Whole(z) /\ Named(z, {})
      BY <2>3, FlushWhole, FlushNamed
    <2> HIDE DEF z
    <2>5. Whole(y) /\ Named(y, {})
      BY <2>3, <2>4
    <2> HIDE DEF y
    <2>6. Named(w, {})
      BY <1>4, <2>5, WritingNamed
    <2>7. ctx' = w
      BY <1>2, <1>8
    <2> HIDE DEF w
    <2> QED
      BY <2>6, <2>7, NamedHeld
  <1> QED
    BY <1>7, <1>8

LEMMA DispatchTimedNamed ==
  ASSUME IInv, Named(ctx, {}), NEW k \in Kernels, NEW v \in Pushed,
         NEW f \in Outcomes, NEW shot \in Shots, DispatchTimed(k, v, f, shot)
  PROVE  Named(ctx, {})'
  <1> DEFINE n == Cost(f, Idle) + Cost(shot, "ok")
             c == Called(n)
             a == Flush(c, "TimedDispatch", f)
             s == SetWritten(a, k)
             cmd == [set |-> NextSet(a, k), to |-> c.kern[k].pending, value |-> v]
             m == Executed(s, s.mem, cmd)
             u == Uses(<<cmd>>)
             o == OneShot(s, shot, m, u, 1)
             w == Writing(o, c.kern[k].bound)
             failed == Failed(c, "TimedDispatch", f)
  <1>1. /\ ctx.faults + n <= MaxFaults /\ Whole(ctx) /\ n \in Nat /\ ~ctx.poisoned
        /\ Dispatchable(k)
    BY CostType DEF DispatchTimed, Live, IInv
  <1>2. ctx' = (IF failed THEN a ELSE IF shot = "fails" THEN o ELSE w) /\ (f # Idle => failed)
    BY DEF DispatchTimed
  <1> HIDE DEF n, failed
  <1>3. Whole(c) /\ Named(c, {}) /\ Same(ctx, c)
    BY <1>1, CalledNamed
  <1> HIDE DEF c
  <1>4. /\ c \in Context /\ ~c.poisoned /\ c.kern[k].pending \in Pairs
        /\ c.kern[k].bound \in Handles /\ c.kern[k].pending \in Owned(c) /\ k \in Built(c)
    <2>1. c \in Context /\ Bound(c)
      BY <1>3 DEF Whole, Sound
    <2>2. c.kern[k] \in KernelStates /\ c.kern[k].bound # 0 /\ c.kern[k].built
          /\ c.own[c.kern[k].bound] # NoPair
      BY <1>1, <1>3, <2>1, ContextParts DEF Same, Dispatchable
    <2>3. c.kern[k].bound \in Handles
      BY <2>2 DEF KernelStates
    <2> QED
      BY <1>1, <1>3, <2>1, <2>2, <2>3, Addressed DEF Same, Bound
  <1>5. /\ Whole(a) /\ Named(a, {}) /\ a.kern[k].mark # ArenaSize /\ Sound(a, {}, 0) /\ 0 \in Nat
        /\ Owned(a) = Owned(c) /\ Built(a) = Built(c) /\ (f = Idle => ~a.poisoned) /\ ~a.open
        /\ (~a.poisoned => ~a.flying)
    <2>1. /\ Whole(a) /\ Calm(c, a) /\ a.kern[k].mark = 0
          /\ FlushLeaves(c, a, Completing("TimedDispatch"))
      BY <1>3, CalmFlush, FlushWhole
    <2>2. Completing("TimedDispatch")
      BY DEF Completing
    <2>3. Named(a, {}) /\ (f = Idle => ~a.poisoned) /\ ~a.open /\ (~a.poisoned => ~a.flying)
      BY <1>3, <1>4, <2>2, FlushNamed
    <2> HIDE DEF a
    <2>4. Owned(a) = Owned(c) /\ Built(a) = Built(c)
      BY <1>4, <2>1, FlushHolders
    <2> QED
      BY <2>1, <2>3, <2>4, BoundAssumption DEF Whole
  <1> HIDE DEF a
  <1>6. CASE failed
    <2>1. ctx' = a
      BY <1>2, <1>6
    <2> QED
      BY <1>5, <2>1, NamedHeld
  <1>7. CASE ~failed
    <2>0. ~a.poisoned /\ ~a.flying
      BY <1>2, <1>5, <1>7
    <2>1. /\ Whole(s) /\ Named(s, {}) /\ ~s.poisoned /\ NextSet(a, k) \in DescriptorSets
          /\ Owned(s) = Owned(c) /\ Built(s) = Built(c) /\ ~s.open /\ ~s.flying
          /\ Sound(s, {}, 0)
      <3>1. /\ Whole(s) /\ Named(s, {}) /\ ~s.poisoned /\ NextSet(a, k) \in DescriptorSets
            /\ Owned(s) = Owned(c) /\ Built(s) = Built(c)
        BY <1>5, <2>0, SetWrittenSound, SetWrittenWhole, SetWrittenNamed
      <3>2. Rest(a, s) /\ s.open = a.open
        BY <1>5, SetWrittenSound, ZenonT(60)
      <3> HIDE DEF s
      <3> QED
        BY <1>5, <2>0, <3>1, <3>2 DEF Rest, Whole
    <2> HIDE DEF s
    <2>2. /\ cmd \in Commands /\ u \in SUBSET Objects
          /\ u \subseteq Owned(s) \cup Built(s) \cup {}
      <3>1. cmd \in Commands
        BY <1>4, <2>1 DEF Commands
      <3>2. IsDispatch(cmd) /\ cmd.to = c.kern[k].pending /\ cmd.set = NextSet(a, k)
        BY DEF IsDispatch
      <3> HIDE DEF cmd
      <3>3. <<cmd>> \in Seq(Commands)
        BY <3>1
      <3>4. u = {c.kern[k].pending, k}
        <4>1. u = Names(cmd)
          BY UsesOne
        <4>2. NextSet(a, k)[1] = k
          BY DEF NextSet
        <4> HIDE DEF u
        <4> QED
          BY <3>2, <4>1, <4>2 DEF Names
      <3> QED
        BY <1>4, <2>1, <3>1, <3>3, <3>4, UsesType
    <2> HIDE DEF cmd
    <2>3. m \in Cells
      <3>1. s \in Context
        BY <2>1 DEF Whole, Sound
      <3> QED
        BY <2>2, <3>1, ContextParts, ExecutedType
    <2> HIDE DEF m, u
    <2>4. Whole(o) /\ Named(o, {})
      <3>1. 1 \in Nat
        OBVIOUS
      <3> QED
        BY <2>1, <2>2, <2>3, <3>1, OneShotWhole, OneShotNamed
    <2> HIDE DEF o
    <2>5. Named(w, {})
      BY <1>4, <2>4, WritingNamed
    <2>6. ctx' = o \/ ctx' = w
      BY <1>2, <1>7
    <2> HIDE DEF w
    <2> QED
      BY <2>4, <2>5, <2>6, NamedHeld
  <1> QED
    BY <1>6, <1>7

LEMMA UploadRecordedNamed ==
  ASSUME IInv, Named(ctx, {}), NEW h \in Handles, NEW v \in Pushed, NEW s \in Stages,
         UploadRecorded(h, v, s)
  PROVE  Named(ctx, {})'
  <1> DEFINE c == Called(0)
             t == StageTaken(c, s, v)
             cmd == [from |-> s, to |-> ctx.own[h]]
             r == Recorded(t, cmd)
             q == [r EXCEPT !.rec.retired = @ \cup {s}]
             w == Writing(q, h)
  <1>1. /\ ctx.faults + 0 <= MaxFaults /\ Whole(ctx) /\ 0 \in Nat /\ ~ctx.poisoned
        /\ ctx.own[h] # NoPair /\ s \in StageChoices(ctx)
    BY DEF UploadRecorded, Live, IInv
  <1>2. ctx' = w
    BY DEF UploadRecorded
  <1>3. Whole(c) /\ Named(c, {}) /\ Same(ctx, c)
    BY <1>1, CalledNamed
  <1> HIDE DEF c
  <1>4. /\ Fresh(c) /\ Bound(c) /\ ~c.poisoned /\ s \in StageChoices(c) /\ c \in Context
        /\ ctx.own[h] = c.own[h]
    BY <1>1, <1>3 DEF Whole, Same, StageChoices, Sound
  <1>5. Sound(t, {s}, 0) /\ Named(t, {s}) /\ ~t.poisoned /\ t.own = c.own /\ Calm(c, t)
    <2>1. Sound(t, {s}, 0) /\ Calm(c, t) /\ Named(t, {s})
      BY <1>3, <1>4, StageTakenSound, StageTakenNamed
    <2>2. ~t.poisoned
      BY <1>4 DEF StageTaken, Context
    <2> HIDE DEF t
    <2> QED
      BY <2>1, <2>2 DEF Calm
  <1> HIDE DEF t
  <1>6. cmd \in Commands /\ Names(cmd) \subseteq Owned(t) \cup Built(t) \cup {s}
    <2>1. ctx.own[h] \in Pairs
      BY <1>1, ContextParts DEF Whole, Sound
    <2>2. ~IsDispatch(cmd) /\ cmd.from = s /\ cmd.to = ctx.own[h]
      BY DEF IsDispatch
    <2>3. cmd \in Commands
      BY <2>1 DEF Commands
    <2>4. ctx.own[h] \in Owned(t)
      BY <1>1, <1>4, <1>5 DEF Owned
    <2> HIDE DEF cmd
    <2> QED
      BY <2>2, <2>3, <2>4 DEF Names
  <1> HIDE DEF cmd
  <1>7. Sound(r, {s}, 0) /\ Named(r, {s}) /\ r.open /\ Calm(t, r)
    <2>1. Sound(r, {s}, 0) /\ Rest(t, r) /\ r.kern = t.kern /\ r.open
      BY <1>1, <1>5, <1>6, RecordedSound
    <2>2. Named(r, {s})
      BY <1>1, <1>5, <1>6, RecordedNamed
    <2> HIDE DEF r
    <2> QED
      BY <2>1, <2>2 DEF Rest, Calm
  <1> HIDE DEF r
  <1>8. Fresh(r) /\ Bound(r)
    BY <1>4, <1>5, <1>7, CalmOn, CalmParts
  <1>9. Whole(q) /\ Named(q, {})
    BY <1>7, <1>8, RetirementHeld, RetirementNamed
  <1> HIDE DEF q
  <1>10. Named(w, {})
    <2>1. h \in Handles \cup {0, Everything}
      OBVIOUS
    <2> QED
      BY <1>9, <2>1, WritingNamed
  <1> HIDE DEF w
  <1> QED
    BY <1>2, <1>10, NamedHeld

LEMMA UploadNowNamed ==
  ASSUME IInv, Named(ctx, {}), NEW h \in Handles, NEW v \in Pushed, NEW s \in Stages,
         NEW f \in Outcomes, NEW shot \in Shots, UploadNow(h, v, s, f, shot)
  PROVE  Named(ctx, {})'
  <1> DEFINE n == Cost(f, Idle) + Cost(shot, "ok")
             c == Called(n)
             a == Flush(c, "Upload", f)
             t == StageTaken(a, s, v)
             cmd == [from |-> s, to |-> ctx.own[h]]
             m == Executed(t, t.mem, cmd)
             u == Uses(<<cmd>>)
             done == OneShot(t, shot, m, u, 0)
             failed == Failed(c, "Upload", f)
             x == Recycled(done, {s})
             y == ReleasedOrLeaked(done, {s})
             wx == Writing(x, h)
             wy == Writing(y, h)
  <1>1. /\ ctx.faults + n <= MaxFaults /\ Whole(ctx) /\ n \in Nat /\ ~ctx.poisoned
        /\ ctx.own[h] # NoPair /\ s \in StageChoices(a) /\ 0 \in Nat
    BY CostType DEF UploadNow, Live, IInv
  <1>2. /\ ctx' = IF failed THEN a
                  ELSE IF shot = "ok" THEN wx ELSE IF shot = "fails" THEN y ELSE wy
        /\ f # Idle => failed
    BY DEF UploadNow
  <1> HIDE DEF n, failed
  <1>3. Whole(c) /\ Named(c, {}) /\ Same(ctx, c)
    BY <1>1, CalledNamed
  <1> HIDE DEF c
  <1>4. Fresh(c) /\ Bound(c) /\ ~c.poisoned /\ c \in Context /\ c.own = ctx.own
    BY <1>1, <1>3 DEF Whole, Same, Sound
  <1>5. /\ Whole(a) /\ Calm(c, a) /\ Named(a, {}) /\ (f = Idle => ~a.poisoned) /\ ~a.open
        /\ (~a.poisoned => ~a.flying)
    <2>1. Completing("Upload")
      BY DEF Completing
    <2> QED
      BY <1>3, <1>4, <2>1, CalmFlush, FlushWhole, FlushNamed
  <1> HIDE DEF a
  <1>6. CASE failed
    <2>1. ctx' = a
      BY <1>2, <1>6
    <2> QED
      BY <1>5, <2>1, NamedHeld
  <1>7. CASE ~failed
    <2>0. ~a.poisoned /\ ~a.flying /\ ~a.open /\ a \in Context
      BY <1>2, <1>5, <1>7 DEF Whole, Sound
    <2>1. /\ Sound(t, {s}, 0) /\ Calm(a, t) /\ Named(t, {s})
          /\ ~t.poisoned /\ ~t.flying /\ ~t.open
      <3>1. Sound(t, {s}, 0) /\ Calm(a, t) /\ Named(t, {s})
        BY <1>1, <1>5, <2>0, StageTakenSound, StageTakenNamed
      <3>2. ~t.poisoned /\ ~t.flying /\ ~t.open
        BY <2>0 DEF StageTaken, Context
      <3> HIDE DEF t
      <3> QED
        BY <3>1, <3>2
    <2> HIDE DEF t
    <2>2. cmd \in Commands /\ u \in SUBSET Objects /\ u \subseteq Owned(t) \cup Built(t) \cup {s}
      <3>1. ctx.own[h] \in Pairs
        BY <1>1, ContextParts DEF Whole, Sound
      <3>2. cmd \in Commands /\ ~IsDispatch(cmd) /\ cmd.from = s /\ cmd.to = ctx.own[h]
        BY <3>1 DEF Commands, IsDispatch
      <3> HIDE DEF cmd
      <3>3. <<cmd>> \in Seq(Commands)
        BY <3>2
      <3>4. u = Names(cmd)
        BY UsesOne
      <3>5. u \in SUBSET Objects
        BY <3>3, UsesType
      <3> HIDE DEF u
      <3>6. u = {s, ctx.own[h]}
        BY <3>2, <3>4 DEF Names
      <3>7. ctx.own[h] \in Owned(t)
        BY <1>1, <1>4, <1>5, <2>1 DEF Owned, Calm
      <3> QED
        BY <3>2, <3>5, <3>6, <3>7
    <2> HIDE DEF cmd
    <2>3. m \in Cells
      <3>1. t \in Context
        BY <2>1 DEF Sound
      <3> QED
        BY <2>2, <3>1, ContextParts, ExecutedType
    <2> HIDE DEF m, u
    <2>4. Sound(done, {s}, 0) /\ Carried(t, done) /\ Named(done, {s})
          /\ (shot = "ok" => ~done.poisoned)
      <3>1. Sound(done, {s}, 0) /\ Carried(t, done)
        BY <1>1, <2>1, <2>2, <2>3, OneShotSound
      <3>2. Named(done, {s}) /\ (shot = "ok" => Steady(t, done))
        BY <1>1, <2>1, <2>2, <2>3, OneShotNamed
      <3> HIDE DEF done
      <3> QED
        BY <2>1, <3>1, <3>2 DEF Steady
    <2> HIDE DEF done
    <2>5. ~done.open /\ ~done.flying /\ done \in Context /\ Fresh(done) /\ Bound(done)
      <3>1. Calm(c, done)
        BY <1>5, <2>1, <2>4 DEF Calm, Carried, Passed
      <3> QED
        BY <1>4, <2>1, <2>4, <3>1, CalmParts DEF Carried, Passed, Sound
    <2>6. Sound(done, {s} \cup {}, 0) /\ {s} \cap {} = {}
      <3>1. {s} \cup {} = {s}
        OBVIOUS
      <3> QED
        BY <2>4, <3>1
    <2>7. shot = "ok" => Whole(x) /\ Named(x, {})
      <3>1. Sound(x, {}, 0) /\ Carried(done, x) /\ Steady(done, x) /\ x.leaked = done.leaked
        BY <1>1, <2>5, <2>6, RecycledSound, DisposalSteady
      <3> HIDE DEF x
      <3>2. Whole(x)
        BY <2>5, <3>1, CalmParts DEF Carried, Passed, Calm, Whole
      <3>3. shot = "ok" => Named(x, {})
        BY <2>4, <2>5, <3>1, IdleNamed
      <3> QED
        BY <3>2, <3>3
    <2>8. Whole(y) /\ Named(y, {})
      BY <2>4, <2>5, RetirementHeld, RetirementNamed
    <2> HIDE DEF x, y
    <2>9. h \in Handles \cup {0, Everything}
      OBVIOUS
    <2>10. (shot = "ok" => Named(wx, {})) /\ Named(wy, {})
      BY <2>7, <2>8, <2>9, WritingNamed
    <2> HIDE DEF wx, wy
    <2>11. ctx' = y \/ ctx' = wy \/ (shot = "ok" /\ ctx' = wx)
      BY <1>2, <1>7
    <2> QED
      BY <2>8, <2>10, <2>11, NamedHeld
  <1> QED
    BY <1>6, <1>7

LEMMA DownloadNamed ==
  ASSUME IInv, Named(ctx, {}), NEW h \in Handles, NEW f \in Outcomes,
         NEW shot \in Shots, Download(h, f, shot)
  PROVE  Named(ctx, {})'
  <1> DEFINE n == Cost(f, Idle) + Cost(shot, "ok")
             c == Called(n)
             a == Flush(c, "Readback", f)
             u == {ctx.own[h]}
             m == a.mem
             o == OneShot(a, shot, m, u, 2)
             r == IF shot = "ok" THEN a.mem[ctx.own[h]] ELSE NoAnswer
             d == [o EXCEPT !.answer = r]
             failed == Failed(c, "Readback", f)
  <1>1. /\ ctx.faults + n <= MaxFaults /\ Whole(ctx) /\ n \in Nat /\ ~ctx.poisoned
        /\ ctx.own[h] # NoPair /\ 0 \in Nat /\ 2 \in Nat
    BY CostType DEF Download, Live, IInv
  <1>2. ctx' = (IF failed THEN a ELSE d) /\ (f # Idle => failed)
    BY DEF Download
  <1> HIDE DEF n, failed
  <1>3. Whole(c) /\ Named(c, {}) /\ Same(ctx, c)
    BY <1>1, CalledNamed
  <1> HIDE DEF c
  <1>4. ~c.poisoned /\ c \in Context /\ c.own = ctx.own
    BY <1>1, <1>3 DEF Whole, Same, Sound
  <1>5. /\ Whole(a) /\ Calm(c, a) /\ Named(a, {}) /\ (f = Idle => ~a.poisoned) /\ ~a.open
        /\ (~a.poisoned => ~a.flying)
    <2>1. Completing("Readback")
      BY DEF Completing
    <2> QED
      BY <1>3, <1>4, <2>1, CalmFlush, FlushWhole, FlushNamed
  <1> HIDE DEF a
  <1>6. CASE failed
    <2>1. ctx' = a
      BY <1>2, <1>6
    <2> QED
      BY <1>5, <2>1, NamedHeld
  <1>7. CASE ~failed
    <2>1. ~a.poisoned /\ ~a.flying /\ ~a.open /\ a \in Context /\ Sound(a, {}, 0)
      BY <1>2, <1>5, <1>7 DEF Whole, Sound
    <2>2. ctx.own[h] \in Pairs
      BY <1>1, ContextParts DEF Whole, Sound
    <2>3. m \in Cells
      BY <2>1, ContextParts
    <2>4. u \in SUBSET Objects /\ u \subseteq Owned(a) \cup Built(a) \cup {}
      BY <1>1, <1>4, <1>5, <2>2 DEF Objects, Owned, Calm
    <2> HIDE DEF u, m, r
    <2>5. Whole(o) /\ Named(o, {})
      BY <1>1, <1>5, <2>1, <2>3, <2>4, OneShotWhole, OneShotNamed
    <2> HIDE DEF o
    <2>6. Named(d, {})
      <3>1. Same(o, d)
        BY <2>5 DEF Whole, Sound, Context, Same
      <3> HIDE DEF d
      <3> QED
        BY <2>5, <3>1, SameNamed
    <2>7. ctx' = d
      BY <1>2, <1>7 DEF o, u, m, r
    <2> HIDE DEF d
    <2> QED
      BY <2>6, <2>7, NamedHeld
  <1> QED
    BY <1>6, <1>7

LEMMA SyncNamed ==
  ASSUME IInv, Named(ctx, {}), NEW f \in Outcomes, Sync(f)
  PROVE  Named(ctx, {})'
  <1> DEFINE n == Cost(f, Idle)
             c == Called(n)
             a == Flush(c, "ExplicitSync", f)
  <1>1. ctx.faults + n <= MaxFaults /\ Whole(ctx) /\ n \in Nat /\ ~ctx.poisoned
    BY CostType DEF Sync, Live, IInv
  <1>2. ctx' = a
    BY DEF Sync
  <1> HIDE DEF n
  <1>3. Whole(c) /\ Named(c, {}) /\ ~c.poisoned
    <2>1. Whole(c) /\ Named(c, {}) /\ Same(ctx, c)
      BY <1>1, CalledNamed
    <2> HIDE DEF c
    <2> QED
      BY <1>1, <2>1 DEF Same
  <1> HIDE DEF c
  <1>4. Named(a, {})
    BY <1>3, FlushNamed
  <1> HIDE DEF a
  <1> QED
    BY <1>2, <1>4, NamedHeld

LEMMA DiscardNamed ==
  ASSUME IInv, Named(ctx, {}), NEW wait \in Waits, DiscardRecordedBatch(wait)
  PROVE  Named(ctx, {})'
  <1> DEFINE n == Cost(wait, "ok")
             c == Called(n)
             a == Abandoned(c, wait)
             w == Writing(a, Everything)
  <1>1. /\ ctx.faults + n <= MaxFaults /\ Whole(ctx) /\ n \in Nat /\ MayDiscard
    BY CostType DEF DiscardRecordedBatch, IInv
  <1>2. ctx' = w
    BY DEF DiscardRecordedBatch
  <1> HIDE DEF n
  <1>3. Whole(c) /\ Named(c, {}) /\ Same(ctx, c)
    BY <1>1, CalledNamed
  <1> HIDE DEF c
  <1>4. wait \in WaitResults /\ ~(Orderly /\ c.flying /\ wait = "unknown")
    <2>1. wait = "unknown" => "unknown" \in WaitFaults
      BY DEF Waits
    <2>2. c.flying => AsyncFlush
      BY <1>3 DEF Named, Grounded
    <2> QED
      BY <1>1, <2>1, <2>2, BoundAssumption DEF Orderly, Waits, WaitResults
  <1>5. Whole(a) /\ Named(a, {})
    <2>1. Sound(c, {}, 0)
      BY <1>3 DEF Whole
    <2>2. Sound(a, {}, 0) /\ AbandonLeaves(c, a)
      BY <1>4, <2>1, AbandonedSound
    <2>3. Named(a, {})
      BY <1>3, <1>4, AbandonedNamed
    <2> HIDE DEF a
    <2> QED
      BY <1>3, <2>2, <2>3, CalmWhole DEF AbandonLeaves, Calm
  <1> HIDE DEF a
  <1>6. Named(w, {})
    <2>1. Everything \in Handles \cup {0, Everything}
      OBVIOUS
    <2> QED
      BY <1>5, <2>1, WritingNamed
  <1> HIDE DEF w
  <1> QED
    BY <1>2, <1>6, NamedHeld

LEMMA DropNamed ==
  ASSUME IInv, Named(ctx, {}), NEW idle \in {"ok", "fails"}, NEW wait \in Waits,
         Drop(idle, wait)
  PROVE  Named(ctx, {})'
  <1> DEFINE n == Cost(idle, "ok") + Cost(wait, "ok")
             e == Called(n)
             yes == TRUE
             c == [e EXCEPT !.closed = yes]
             o == Ran(c)
             b == [o.flight EXCEPT !.cmds = << >>]
             j == [o EXCEPT !.flight = b]
             i == IF idle = "ok" THEN j ELSE c
             a == Abandoned(i, wait)
             al == a.alive \ a.pool
             d == [a EXCEPT !.alive = al, !.pool = {}]
  <1>1. ctx.faults + n <= MaxFaults /\ Whole(ctx) /\ n \in Nat /\ 0 \in Nat
        /\ (MaxFaults <= 1 /\ wait # "ok" => idle = "ok")
    <2>1. Cost(idle, "ok") \in Nat /\ Cost(wait, "ok") \in Nat
      BY CostType
    <2>2. ctx.faults + Cost(idle, "ok") + Cost(wait, "ok") <= MaxFaults /\ Whole(ctx)
      BY DEF Drop, IInv
    <2>3. ctx.faults \in Nat /\ MaxFaults \in Nat
      BY <2>2, ContextParts, BoundAssumption DEF Whole, Sound
    <2>4. (wait # "ok" => Cost(wait, "ok") = 1) /\ (idle # "ok" => Cost(idle, "ok") = 1)
      BY DEF Cost
    <2> QED
      BY <2>1, <2>2, <2>3, <2>4
  <1>2. ctx' = IF c.poisoned /\ ~c.lost THEN c
               ELSE [a EXCEPT !.alive = @ \ a.pool, !.pool = {}]
    BY DEF Drop
  <1> HIDE DEF n
  <1>3. Whole(e) /\ Named(e, {}) /\ Same(ctx, e)
    BY <1>1, CalledNamed
  <1> HIDE DEF e
  <1>4. Whole(c) /\ Named(c, {}) /\ c.flight = e.flight
    <2>0. yes \in BOOLEAN
      OBVIOUS
    <2> HIDE DEF yes
    <2>1. e \in Context /\ Sound(e, {}, 0) /\ Stray(e, 0) >= 0 /\ Fresh(e) /\ Bound(e)
      BY <1>3 DEF Whole, Sound, Counted
    <2>2. c \in Context
      BY <2>0, <2>1 DEF Context
    <2>3. /\ c.own = e.own /\ c.rec = e.rec /\ c.flight = e.flight /\ c.pool = e.pool
          /\ c.alive = e.alive /\ c.open = e.open /\ c.flying = e.flying
          /\ c.kern = e.kern /\ c.leaked = e.leaked /\ c.scratch = e.scratch
          /\ c.submissions = e.submissions /\ c.next = e.next
          /\ c.poisoned = e.poisoned /\ c.lost = e.lost /\ c.adrift = e.adrift
      BY <2>1 DEF Context
    <2> HIDE DEF c
    <2>4. Stray(c, 0) = Stray(e, 0) /\ Stray(e, 0) \in Int
      BY <1>1, <2>1, <2>3, StrayType DEF Stray
    <2>5. e.leaked \in Nat /\ e.scratch \in Nat
      BY <2>1, ContextParts
    <2>6. Sound(c, {}, 0)
      BY <2>1, <2>2, <2>3, <2>4, <2>5, Untouched
    <2>7. Whole(c)
      BY <2>1, <2>3, <2>6 DEF Whole, Fresh, Bound
    <2>8. Owned(c) = Owned(e) /\ Built(c) = Built(e)
      BY <2>3 DEF Owned, Built
    <2>9. Known(c, {})
      BY <1>3, <2>3, <2>8 DEF Named, Known
    <2>10. Safe(c) /\ Grounded(c) /\ Tied(c) /\ Quiet(c)
      BY <1>3, <2>3 DEF Named, Safe, Grounded, Tied, Quiet
    <2> QED
      BY <2>3, <2>7, <2>9, <2>10 DEF Named
  <1> HIDE DEF c
  <1>5. Whole(o) /\ Named(o, {}) /\ o.flying = c.flying /\ o.poisoned = c.poisoned
        /\ o.flight = c.flight
    BY <1>4, RanNamed
  <1> HIDE DEF o
  <1>6. Whole(j) /\ Named(j, {}) /\ j.flying = o.flying /\ j.poisoned = o.poisoned
        /\ Uses(j.flight.cmds) = {}
    <2>1. o \in Context /\ o.flight \in Batches /\ Emptied(o) /\ Stray(o, 0) >= 0
          /\ Sound(o, {}, 0)
      BY <1>5, ContextParts DEF Whole, Sound, Counted
    <2>2. b \in Batches /\ b.retired = o.flight.retired /\ b.cmds = << >>
          /\ (o.flight = NoBatch => b = NoBatch)
      <3>1. << >> \in Seq(Commands)
        OBVIOUS
      <3>2. b \in Batches /\ b.retired = o.flight.retired /\ b.cmds = << >>
        BY <2>1, <3>1 DEF Batches
      <3>3. [NoBatch EXCEPT !.cmds = << >>] = NoBatch
        BY DEF NoBatch
      <3> QED
        BY <3>2, <3>3
    <2> HIDE DEF b
    <2>3. j \in Context
      BY <2>1, <2>2 DEF Context
    <2>4. /\ j.own = o.own /\ j.rec = o.rec /\ j.flight = b /\ j.pool = o.pool
          /\ j.alive = o.alive /\ j.open = o.open /\ j.flying = o.flying
          /\ j.kern = o.kern /\ j.leaked = o.leaked /\ j.scratch = o.scratch
          /\ j.submissions = o.submissions /\ j.next = o.next /\ j.closed = o.closed
          /\ j.poisoned = o.poisoned /\ j.lost = o.lost /\ j.adrift = o.adrift
      BY <2>1 DEF Context
    <2> HIDE DEF j
    <2>5. Stray(j, 0) = Stray(o, 0) /\ Stray(o, 0) \in Int
      BY <1>1, <2>1, <2>4, StrayType DEF Stray
    <2>6. o.leaked \in Nat /\ o.scratch \in Nat
      BY <2>1, ContextParts
    <2>7. Emptied(j)
      BY <2>1, <2>2, <2>4 DEF Emptied
    <2>8. Sound(j, {}, 0)
      BY <2>1, <2>2, <2>3, <2>4, <2>5, <2>6, <2>7, SameHolders
    <2>9. Whole(j)
      BY <1>5, <2>4, <2>8 DEF Whole, Fresh, Bound
    <2>10. Uses(j.flight.cmds) = {}
      BY <2>2, <2>4, UsesEmpty
    <2>11. Owned(j) = Owned(o) /\ Built(j) = Built(o)
      BY <2>4 DEF Owned, Built
    <2>12. Known(j, {})
      BY <1>5, <2>4, <2>10, <2>11 DEF Named, Known
    <2>13. Safe(j) /\ Grounded(j) /\ Tied(j) /\ Quiet(j)
      BY <1>5, <2>4 DEF Named, Safe, Grounded, Tied, Quiet
    <2> QED
      BY <2>4, <2>9, <2>10, <2>12, <2>13 DEF Named
  <1> HIDE DEF j
  <1>7. /\ Whole(i) /\ Named(i, {}) /\ i.flying = c.flying /\ i.poisoned = c.poisoned
        /\ idle = "ok" => Uses(i.flight.cmds) = {}
    BY <1>4, <1>5, <1>6
  <1> HIDE DEF i
  <1>8. /\ wait \in WaitResults
        /\ Orderly /\ i.flying /\ ~i.poisoned /\ wait = "unknown" => Uses(i.flight.cmds) = {}
    <2>1. wait = "unknown" => "unknown" \in WaitFaults
      BY DEF Waits
    <2>2. c.flying => AsyncFlush
      BY <1>4 DEF Named, Grounded
    <2>3. Orderly /\ i.flying /\ wait = "unknown" => idle = "ok"
      BY <1>1, <1>7, <2>1, <2>2 DEF Orderly
    <2> QED
      BY <1>7, <2>3, BoundAssumption DEF Waits, WaitResults
  <1>9. Named(a, {}) /\ ~a.open /\ ~a.flying /\ a \in Context
    <2>1. Sound(i, {}, 0)
      BY <1>7 DEF Whole
    <2> QED
      BY <1>7, <1>8, <2>1, AbandonedSound, AbandonedNamed DEF Sound
  <1> HIDE DEF a
  <1>10. Named(d, {})
    <2>1. al = a.alive \ a.pool
      OBVIOUS
    <2> HIDE DEF al
    <2>2. /\ d.own = a.own /\ d.rec = a.rec /\ d.flight = a.flight /\ d.pool = {}
          /\ d.alive = al /\ d.open = a.open /\ d.flying = a.flying
          /\ d.kern = a.kern /\ d.leaked = a.leaked /\ d.next = a.next
          /\ d.poisoned = a.poisoned /\ d.lost = a.lost /\ d.adrift = a.adrift
      BY <1>9 DEF Context
    <2> HIDE DEF d
    <2>3. Owned(d) = Owned(a) /\ Built(d) = Built(a)
      BY <2>2 DEF Owned, Built
    <2>4. Known(d, {})
      BY <1>9, <2>2, <2>3 DEF Named, Known
    <2>5. Safe(d) /\ Grounded(d) /\ Tied(d) /\ Quiet(d)
      BY <1>9, <2>1, <2>2 DEF Named, Safe, Grounded, Tied, Quiet
    <2> QED
      BY <2>4, <2>5 DEF Named
  <1>11. ctx' = c \/ ctx' = d
    BY <1>2
  <1> HIDE DEF d
  <1> QED
    BY <1>4, <1>10, <1>11, NamedHeld

LEMMA DeviceExecutesNamed ==
  ASSUME IInv, Named(ctx, {}), DeviceExecutes
  PROVE  Named(ctx, {})'
  <1> DEFINE d == Ran(ctx)
  <1>1. Named(d, {})
    BY RanNamed DEF IInv
  <1>2. ctx' = d
    BY DEF DeviceExecutes
  <1> HIDE DEF d
  <1> QED
    BY <1>1, <1>2, NamedHeld

LEMMA InitNamed ==
  ASSUME Init
  PROVE  Named(ctx, {})
  <1>1. Uses(ctx.rec.cmds) = {} /\ Uses(ctx.flight.cmds) = {} /\ ctx.adrift = {}
    BY UsesEmpty DEF Init
  <1>2. ~ctx.poisoned /\ ~ctx.lost /\ ~ctx.flying /\ ctx.leaked = 0
    BY DEF Init
  <1>3. \A k \in Kernels : ctx.kern[k] = Unbuilt
    BY DEF Init
  <1>4. ctx.next = 1
    BY DEF Init
  <1>5. Tied(ctx)
    <2>1. Unbuilt.bound = 0 /\ Unbuilt.reuse = NoSet
      BY DEF Unbuilt
    <2> QED
      BY <1>3, <1>4, <2>1 DEF Tied
  <1> QED
    BY <1>1, <1>2, <1>5 DEF Named, Known, Safe, Grounded, Quiet

LEMMA NextNamed ==
  ASSUME IInv, Named(ctx, {}), [Next]_ctx
  PROVE  Named(ctx, {})'
  <1>1. CASE Next
    BY <1>1, BufferNamed, FreeBufferNamed, BuildKernelNamed, DestroyKernelNamed, BindNamed,
       DispatchNamed, DispatchTimedNamed, UploadRecordedNamed, UploadNowNamed, DownloadNamed,
       SyncNamed, DiscardNamed, DropNamed, DeviceExecutesNamed DEF Next
  <1>2. CASE UNCHANGED ctx
    BY <1>2, NamedHeld
  <1> QED
    BY <1>1, <1>2

(* What the commands of a context that accepts work name, the program      *)
(* holds or a batch has retired; a poisoned context has no open batch; and *)
(* with every flush seen through, a context that is healthy or lost has    *)
(* leaked nothing (lib.rs:595-607, 2646-2740).                             *)
THEOREM NamesKept == Spec => []Named(ctx, {})
  <1>1. Init => Named(ctx, {})
    BY InitNamed
  <1>2. IInv /\ Named(ctx, {}) /\ [Next]_ctx => Named(ctx, {})'
    BY NextNamed
  <1> QED
    BY <1>1, <1>2, Invariance, PTL DEF Spec

(* No object a recorded or submitted command names is destroyed, or pooled *)
(* for the next buffer(), before the command has been waited for: what     *)
(* retirement and the leak rule are for (lib.rs:595-607, 3181-3183).       *)
(* Orderly names the program and the device for which it is so: without    *)
(* it the code does release such an object.                                *)
THEOREM NamedObjectsSafe ==
  ASSUME Orderly
  PROVE  Spec => []NamedObjectsExist
  <1>1. ASSUME IInv, Named(ctx, {})
        PROVE  NamedObjectsExist
    <2>1. Apart(ctx, {}) /\ Emptied(ctx)
      BY <1>1 DEF IInv, Whole, Sound
    <2>2. Owned(ctx) \cup Built(ctx) \cup ctx.rec.retired \cup ctx.flight.retired \cup {}
            \subseteq ctx.alive \ ctx.pool
      BY <2>1, HoldersExist
    <2>3. CASE ~ctx.poisoned
      BY <1>1, <2>2, <2>3 DEF Named, Known, NamedObjectsExist
    <2>4. CASE ctx.poisoned /\ ~ctx.lost
      <3>1. Uses(ctx.rec.cmds) = {} /\ Uses(ctx.flight.cmds) = {}
        BY <1>1, <2>1, <2>4, UsesEmpty DEF Named, Safe, Emptied
      <3> QED
        BY <1>1, <2>4, <3>1 DEF Named, Safe, NamedObjectsExist
    <2>5. CASE ctx.lost
      BY <2>5 DEF NamedObjectsExist
    <2> QED
      BY <2>3, <2>4, <2>5
  <1> QED
    BY <1>1, Invariance, NamesKept, PTL

(* "On a healthy or lost context leaked_on_poison() is 0" (lib.rs:3336),   *)
(* as long as every flush is seen through; with a batch left in flight it  *)
(* is not so.                                                              *)
THEOREM HealthyLeavesNothing ==
  ASSUME ~AsyncFlush
  PROVE  Spec => []HealthyLeaksNothing
  <1>1. Named(ctx, {}) => HealthyLeaksNothing
    BY DEF Named, Quiet, HealthyLeaksNothing
  <1> QED
    BY <1>1, NamesKept, PTL


-----------------------------------------------------------------------------
(* What descriptor sets are written with.                                  *)

(* The dispatches of a batch use sets of its bank, and these are bound to  *)
(* what the dispatches address.                                            *)
Fits(c, b) ==
  \A i \in DOMAIN b.cmds : IsDispatch(b.cmds[i]) =>
    b.cmds[i].set[2] = b.bank /\ c.bindings[b.cmds[i].set] = b.cmds[i].to

(* While the context accepts work, the open batch uses no set above a      *)
(* kernel's watermark, and the set a kernel may use again is of the open   *)
(* bank, below the watermark, and bound to what the kernel is bound to.    *)
Below(c) ==
  ~c.poisoned /\ ~c.closed =>
    \A k \in Kernels : c.kern[k].built =>
      /\ \A i \in DOMAIN c.rec.cmds :
           IsDispatch(c.rec.cmds[i]) /\ c.rec.cmds[i].set[1] = k
             => c.rec.cmds[i].set[3] <= c.kern[k].mark
      /\ c.kern[k].reuse # NoSet =>
           /\ c.kern[k].reuse[1] = k /\ c.kern[k].reuse[2] = OpenBank(c)
           /\ c.kern[k].reuse[3] <= c.kern[k].mark
           /\ c.bindings[c.kern[k].reuse] = c.kern[k].pending

(* The open batch and the one in flight use different banks. *)
Banked(c) ==
  /\ c.open /\ c.flying => c.rec.bank # c.flight.bank
  /\ ~AsyncFlush => c.rec.bank = 0

Written(c) == Fits(c, c.rec) /\ Fits(c, c.flight) /\ Below(c) /\ Banked(c)

(* What a step that writes no set and records nothing leaves of them. *)
Undisturbed(c, d) ==
  /\ d.open = c.open /\ d.flying = c.flying /\ d.bindings = c.bindings
  /\ d.rec.cmds = c.rec.cmds /\ d.rec.bank = c.rec.bank
  /\ d.flight.cmds = c.flight.cmds /\ d.flight.bank = c.flight.bank
  /\ c.poisoned => d.poisoned
  /\ c.closed => d.closed
  /\ \A k \in Kernels : d.kern[k].built =>
       /\ c.kern[k].built /\ d.kern[k].mark = c.kern[k].mark
       /\ d.kern[k].reuse # NoSet =>
            d.kern[k].reuse = c.kern[k].reuse /\ d.kern[k].pending = c.kern[k].pending

LEMMA UndisturbedWritten ==
  ASSUME NEW c, Written(c), NEW d, Undisturbed(c, d)
  PROVE  Written(d)
  <1>1. OpenBank(d) = OpenBank(c)
    BY DEF Undisturbed, OpenBank
  <1>2. Fits(d, d.rec) /\ Fits(d, d.flight) /\ Banked(d)
    BY DEF Undisturbed, Written, Fits, Banked
  <1>3. Below(d)
    BY <1>1 DEF Undisturbed, Written, Below
  <1> QED
    BY <1>2, <1>3 DEF Written

LEMMA SameWritten ==
  ASSUME NEW c, Written(c), NEW d, Same(c, d)
  PROVE  Written(d)
  <1>1. Undisturbed(c, d)
    BY DEF Same, Undisturbed
  <1> QED
    BY <1>1, UndisturbedWritten

LEMMA CarriedWritten ==
  ASSUME NEW c, Written(c), NEW d, Carried(c, d)
  PROVE  Written(d)
  <1>1. Undisturbed(c, d)
    BY DEF Carried, Passed, Undisturbed
  <1> QED
    BY <1>1, UndisturbedWritten

LEMMA EmptyFits ==
  ASSUME NEW c
  PROVE  Fits(c, NoBatch) /\ NoBatch.bank = 0 /\ NoBatch.cmds = << >>
  BY DEF Fits, NoBatch

(* No batch at all, and no set that may be used again. *)
Clear(c) ==
  ~c.open /\ ~c.flying /\ Emptied(c) /\ \A k \in Kernels : c.kern[k].reuse = NoSet

LEMMA ClearWritten ==
  ASSUME NEW c, Clear(c)
  PROVE  Written(c)
  <1>1. c.rec = NoBatch /\ c.flight = NoBatch
    BY DEF Clear, Emptied
  <1>2. Fits(c, c.rec) /\ Fits(c, c.flight) /\ Banked(c)
    BY <1>1, EmptyFits DEF Clear, Banked
  <1>3. Below(c)
    BY <1>1, EmptyFits DEF Clear, Below
  <1> QED
    BY <1>2, <1>3 DEF Written

LEMMA FlushWritten ==
  ASSUME NEW c, Whole(c), Written(c), NEW reason, NEW f \in Outcomes
  PROVE  LET d == Flush(c, reason, f)
         IN  Written(d) /\ (~d.flying => Clear(d))
  <1> DEFINE d == Flush(c, reason, f)
  <1>1. /\ Whole(d) /\ FlushLeaves(c, d, Completing(reason))
        /\ \A k \in Kernels : d.kern[k].reuse = NoSet
    BY FlushWhole
  <1> HIDE DEF d
  <1>2. ~d.open /\ d.rec = NoBatch /\ d.bindings = c.bindings /\ Emptied(d)
    BY <1>1 DEF FlushLeaves, Whole, Sound
  <1>3. Fits(d, d.rec) /\ Below(d) /\ Banked(d)
    BY <1>1, <1>2, EmptyFits DEF Below, Banked
  <1>4. Fits(d, d.flight)
    <2>1. CASE ~d.flying
      <3>1. d.flight = NoBatch
        BY <1>2, <2>1 DEF Emptied
      <3> QED
        BY <3>1, EmptyFits
    <2>2. CASE d.flying
      <3>1. d.flight = c.flight \/ d.flight = c.rec
        BY <1>1, <2>2 DEF FlushLeaves
      <3> QED
        BY <1>2, <3>1 DEF Written, Fits
    <2> QED
      BY <2>1, <2>2
  <1> QED
    BY <1>1, <1>2, <1>3, <1>4 DEF Written, Clear, d

(* The next set of the open bank is of no dispatch recorded or submitted. *)
LEMMA NextSetUnused ==
  ASSUME NEW c \in Context, Written(c), Emptied(c), ~c.poisoned, ~c.closed,
         NEW k \in Kernels, c.kern[k].built
  PROVE  /\ \A i \in DOMAIN c.rec.cmds :
              IsDispatch(c.rec.cmds[i]) => c.rec.cmds[i].set # NextSet(c, k)
         /\ \A i \in DOMAIN c.flight.cmds :
              IsDispatch(c.flight.cmds[i]) => c.flight.cmds[i].set # NextSet(c, k)
         /\ \A j \in Kernels : c.kern[j].built /\ c.kern[j].reuse # NoSet
                                 => c.kern[j].reuse # NextSet(c, k)
  <1> DEFINE s == NextSet(c, k)
             m == c.kern[k].mark
  <1>1. s[1] = k /\ s[2] = OpenBank(c) /\ s[3] = m + 1
    BY DEF NextSet
  <1>2. m \in Nat /\ c.flight.bank \in {0, 1}
    BY ContextParts, BatchParts, BoundAssumption DEF KernelStates
  <1>3. ~(m + 1 <= m)
    BY <1>2
  <1> HIDE DEF s
  <1>4. ASSUME NEW i \in DOMAIN c.rec.cmds, IsDispatch(c.rec.cmds[i])
        PROVE  c.rec.cmds[i].set # s
    BY <1>1, <1>3, <1>4 DEF Written, Below
  <1>5. ASSUME NEW i \in DOMAIN c.flight.cmds, IsDispatch(c.flight.cmds[i])
        PROVE  c.flight.cmds[i].set # s
    <2>1. CASE ~c.flying
      <3>1. DOMAIN c.flight.cmds = {}
        BY <2>1, EmptyFits DEF Emptied
      <3> QED
        BY <3>1
    <2>2. CASE c.flying
      <3>1. OpenBank(c) # c.flight.bank
        BY <1>2, <2>2 DEF OpenBank, Written, Banked
      <3>2. c.flight.cmds[i].set[2] = c.flight.bank
        BY <1>5 DEF Written, Fits
      <3> QED
        BY <1>1, <3>1, <3>2
    <2> QED
      BY <2>1, <2>2
  <1>6. ASSUME NEW j \in Kernels, c.kern[j].built, c.kern[j].reuse # NoSet
        PROVE  c.kern[j].reuse # s
    <2>1. c.kern[j].reuse[1] = j /\ c.kern[j].reuse[3] <= c.kern[j].mark
      BY <1>6 DEF Written, Below
    <2> QED
      BY <1>1, <1>3, <2>1
  <1> QED
    BY <1>4, <1>5, <1>6 DEF s

(* The set a dispatch of k would use, were it recorded into c. *)
Ready(c, k, to) ==
  /\ c.kern[k].reuse \in DescriptorSets
  /\ c.kern[k].reuse[1] = k /\ c.kern[k].reuse[2] = OpenBank(c)
  /\ c.kern[k].reuse[3] <= c.kern[k].mark
  /\ c.bindings[c.kern[k].reuse] = to

LEMMA AcquiredWritten ==
  ASSUME NEW c, Whole(c), Written(c), ~c.poisoned, ~c.closed,
         NEW k \in Kernels, c.kern[k].built,
         c.kern[k].reuse = NoSet => c.kern[k].mark # ArenaSize
  PROVE  LET d == Acquired(c, k)
         IN  Written(d) /\ Ready(d, k, c.kern[k].pending)
  <1> DEFINE kk == [c.kern[k] EXCEPT !.mark = @ + 1, !.reuse = NextSet(c, k)]
             K == [c.kern EXCEPT ![k] = kk]
             s == NextSet(c, k)
             B == [c.bindings EXCEPT ![s] = c.kern[k].pending]
             d == Acquired(c, k)
  <1>1. c \in Context /\ 0 \in Nat /\ Sound(c, {}, 0) /\ Emptied(c)
    BY DEF Whole, Sound
  <1>2. /\ Sound(d, {}, 0) /\ Rest(c, d) /\ d.open = c.open /\ d.rec = c.rec
        /\ d.kern[k].reuse \in DescriptorSets
        /\ c.kern[k].reuse # NoSet => d = c
        /\ c.kern[k].reuse = NoSet => d.bindings = B /\ d.kern = K
    BY <1>1, AcquiredSound, ZenonT(40)
  <1>3. c.kern \in [Kernels -> KernelStates] /\ c.kern[k] \in KernelStates
        /\ c.bindings \in Sets
    BY <1>1, ContextParts
  <1> HIDE DEF d
  <1>4. CASE c.kern[k].reuse # NoSet
    <2>1. d = c
      BY <1>2, <1>4
    <2> QED
      BY <1>2, <1>4, <2>1 DEF Written, Below, Ready, d
  <1>5. CASE c.kern[k].reuse = NoSet
    <2>1. /\ \A i \in DOMAIN c.rec.cmds :
               IsDispatch(c.rec.cmds[i]) => c.rec.cmds[i].set # s
          /\ \A i \in DOMAIN c.flight.cmds :
               IsDispatch(c.flight.cmds[i]) => c.flight.cmds[i].set # s
          /\ \A j \in Kernels : c.kern[j].built /\ c.kern[j].reuse # NoSet
                                  => c.kern[j].reuse # s
      BY <1>1, NextSetUnused
    <2>2. s[1] = k /\ s[2] = OpenBank(c) /\ s[3] = c.kern[k].mark + 1
      BY DEF NextSet
    <2>3. kk.mark = c.kern[k].mark + 1 /\ kk.reuse = s /\ kk.built = c.kern[k].built
          /\ kk.pending = c.kern[k].pending
      BY <1>3 DEF KernelStates
    <2>4. s \in DescriptorSets
      <3>1. d.kern[k] = kk
        BY <1>2, <1>3, <1>5
      <3> QED
        BY <1>2, <2>3, <3>1
    <2>5. c.kern[k].mark \in Nat
      BY <1>3, BoundAssumption DEF KernelStates
    <2> HIDE DEF kk, s
    <2>6. /\ d.kern[k] = kk
          /\ \A j \in Kernels : j # k => d.kern[j] = c.kern[j]
          /\ d.bindings[s] = c.kern[k].pending
          /\ \A t \in DescriptorSets : t # s => d.bindings[t] = c.bindings[t]
      BY <1>2, <1>3, <1>5, <2>4 DEF Sets
    <2> HIDE DEF K, B
    <2>7. OpenBank(d) = OpenBank(c)
      BY <1>2 DEF Rest, OpenBank
    <2>8. \A b \in {c.rec, c.flight} : \A i \in DOMAIN b.cmds :
            IsDispatch(b.cmds[i]) => b.cmds[i].set \in DescriptorSets
      <3>1. \A b \in {c.rec, c.flight} : b.cmds \in Seq(Commands)
        BY <1>1, ContextParts, BatchParts
      <3>2. \A b \in {c.rec, c.flight} : \A i \in DOMAIN b.cmds : b.cmds[i] \in Commands
        BY <3>1
      <3> QED
        BY <3>2, CommandKinds
    <2>9. Fits(d, d.rec)
      BY <1>2, <2>1, <2>6, <2>8 DEF Written, Fits
    <2>10. Fits(d, d.flight)
      BY <1>2, <2>1, <2>6, <2>8 DEF Written, Fits, Rest
    <2>11. Banked(d)
      BY <1>2 DEF Written, Banked, Rest
    <2>12. Ready(d, k, c.kern[k].pending)
      <3>1. c.kern[k].mark + 1 <= c.kern[k].mark + 1
        BY <2>5
      <3> QED
        BY <2>2, <2>3, <2>4, <2>6, <2>7, <3>1 DEF Ready
    <2>13. Below(d)
      <3> SUFFICES ASSUME NEW j \in Kernels, d.kern[j].built
                   PROVE /\ \A i \in DOMAIN d.rec.cmds :
                              IsDispatch(d.rec.cmds[i]) /\ d.rec.cmds[i].set[1] = j
                                => d.rec.cmds[i].set[3] <= d.kern[j].mark
                         /\ d.kern[j].reuse # NoSet =>
                              /\ d.kern[j].reuse[1] = j /\ d.kern[j].reuse[2] = OpenBank(d)
                              /\ d.kern[j].reuse[3] <= d.kern[j].mark
                              /\ d.bindings[d.kern[j].reuse] = d.kern[j].pending
        BY DEF Below
      <3>1. c.kern[j].built
        BY <2>3, <2>6
      <3>2. /\ \A i \in DOMAIN c.rec.cmds :
                 IsDispatch(c.rec.cmds[i]) /\ c.rec.cmds[i].set[1] = j
                   => c.rec.cmds[i].set[3] <= c.kern[j].mark
            /\ c.kern[j].reuse # NoSet =>
                 /\ c.kern[j].reuse[1] = j /\ c.kern[j].reuse[2] = OpenBank(c)
                 /\ c.kern[j].reuse[3] <= c.kern[j].mark
                 /\ c.bindings[c.kern[j].reuse] = c.kern[j].pending
        BY <3>1 DEF Written, Below
      <3>3. CASE j # k
        <4>1. d.kern[j] = c.kern[j]
          BY <2>6, <3>3
        <4>2. c.kern[j].reuse \in DescriptorSets \cup {NoSet}
          BY <1>3 DEF KernelStates
        <4> QED
          BY <1>2, <2>1, <2>6, <2>7, <3>1, <3>2, <4>1, <4>2
      <3>4. CASE j = k
        <4>1. ASSUME NEW i \in DOMAIN d.rec.cmds,
                     IsDispatch(d.rec.cmds[i]) /\ d.rec.cmds[i].set[1] = j
              PROVE  d.rec.cmds[i].set[3] <= d.kern[j].mark
          <5>1. d.rec.cmds[i].set \in DescriptorSets
            BY <1>2, <2>8, <4>1
          <5>2. d.rec.cmds[i].set[3] \in Nat
            BY <5>1, BoundAssumption DEF DescriptorSets
          <5>3. d.rec.cmds[i].set[3] <= c.kern[k].mark
            BY <1>2, <3>2, <3>4, <4>1
          <5>4. d.kern[j].mark = c.kern[k].mark + 1
            BY <2>3, <2>6, <3>4
          <5> QED
            BY <2>5, <5>2, <5>3, <5>4
        <4>2. d.kern[k].pending = c.kern[k].pending
          BY <2>3, <2>6
        <4> QED
          BY <2>12, <3>4, <4>1, <4>2 DEF Ready
      <3> QED
        BY <3>3, <3>4
    <2> QED
      BY <2>9, <2>10, <2>11, <2>12, <2>13 DEF Written, d
  <1> QED
    BY <1>4, <1>5

(* A command that may be recorded: the copy of a staging pair, or a        *)
(* dispatch of a set of the open bank, below the watermark of its kernel.  *)
Recordable(c, cmd) ==
  IsDispatch(cmd) =>
    /\ cmd.set[2] = OpenBank(c) /\ c.bindings[cmd.set] = cmd.to
    /\ \A k \in Kernels : c.kern[k].built /\ cmd.set[1] = k
                            => cmd.set[3] <= c.kern[k].mark

LEMMA RecordedWritten ==
  ASSUME NEW c, NEW T, Sound(c, T, 0), Written(c), Grounded(c), NEW cmd \in Commands,
         Recordable(c, cmd)
  PROVE  Written(Recorded(c, cmd))
  <1> DEFINE d == Recorded(c, cmd)
  <1>1. 0 \in Nat /\ c \in Context /\ Emptied(c)
    BY DEF Sound
  <1>2. /\ Rest(c, d) /\ d.open /\ d.kern = c.kern /\ d.bindings = c.bindings
        /\ d.rec.cmds = Append(c.rec.cmds, cmd) /\ d.rec.bank = OpenBank(c)
    BY <1>1, RecordedSound
  <1> HIDE DEF d
  <1>3. c.rec.cmds \in Seq(Commands) /\ c.flight.bank \in {0, 1}
    BY <1>1, ContextParts, BatchParts
  <1>4. ASSUME NEW i \in DOMAIN d.rec.cmds
        PROVE  \/ i \in DOMAIN c.rec.cmds /\ d.rec.cmds[i] = c.rec.cmds[i] /\ c.open
               \/ d.rec.cmds[i] = cmd
    <2>1. (i \in DOMAIN c.rec.cmds /\ d.rec.cmds[i] = c.rec.cmds[i]) \/ d.rec.cmds[i] = cmd
      BY <1>2, <1>3
    <2>2. ~c.open => DOMAIN c.rec.cmds = {}
      BY <1>1, EmptyFits DEF Emptied
    <2> QED
      BY <2>1, <2>2
  <1>5. OpenBank(d) = OpenBank(c) /\ (c.open => OpenBank(c) = c.rec.bank)
    BY <1>2 DEF OpenBank
  <1>6. Fits(d, d.rec)
    BY <1>2, <1>4, <1>5 DEF Written, Fits, Recordable
  <1>7. Fits(d, d.flight)
    BY <1>2 DEF Written, Fits, Rest
  <1>8. Banked(d)
    <2>1. c.flying => OpenBank(c) # c.flight.bank
      BY <1>3 DEF OpenBank, Written, Banked
    <2>2. ~AsyncFlush => OpenBank(c) = 0
      BY DEF OpenBank, Written, Banked, Grounded
    <2> QED
      BY <1>2, <2>1, <2>2 DEF Banked, Rest
  <1>9. Below(d)
    BY <1>2, <1>4, <1>5 DEF Written, Below, Recordable, Rest
  <1> QED
    BY <1>6, <1>7, <1>8, <1>9 DEF Written, d

(* Retiring objects, or releasing them, disturbs no set. *)
LEMMA RetirementWritten ==
  ASSUME NEW c, NEW S, Sound(c, S, 0), Written(c)
  PROVE  /\ Written(ReleasedOrLeaked(c, S))
         /\ Written([c EXCEPT !.rec.retired = @ \cup S])
         /\ Written([c EXCEPT !.flight.retired = @ \cup S])
  <1>1. 0 \in Nat /\ Sound(c, S \cup {}, 0) /\ S \cap {} = {} /\ c \in Context
        /\ c.rec \in Batches /\ c.flight \in Batches
    <2>1. S \cup {} = S
      OBVIOUS
    <2> QED
      BY <2>1, ContextParts DEF Sound
  <1>2. Written(ReleasedOrLeaked(c, S))
    <2> DEFINE d == ReleasedOrLeaked(c, S)
    <2>1. Carried(c, d)
      BY <1>1, ReleasedOrLeakedSound
    <2> HIDE DEF d
    <2> QED
      BY <2>1, CarriedWritten DEF d
  <1>3. Written([c EXCEPT !.rec.retired = @ \cup S])
    <2> DEFINE x == c.rec.retired \cup S
               b == [c.rec EXCEPT !.retired = x]
               d == [c EXCEPT !.rec = b]
    <2>1. b.cmds = c.rec.cmds /\ b.bank = c.rec.bank
      BY <1>1 DEF Batches
    <2>2. [c EXCEPT !.rec.retired = @ \cup S] = d
      BY <1>1 DEF Context, Batches
    <2> HIDE DEF x, b
    <2>3. Undisturbed(c, d)
      BY <1>1, <2>1 DEF Undisturbed, Context
    <2> HIDE DEF d
    <2> QED
      BY <2>2, <2>3, UndisturbedWritten
  <1>4. Written([c EXCEPT !.flight.retired = @ \cup S])
    <2> DEFINE x == c.flight.retired \cup S
               b == [c.flight EXCEPT !.retired = x]
               d == [c EXCEPT !.flight = b]
    <2>1. b.cmds = c.flight.cmds /\ b.bank = c.flight.bank
      BY <1>1 DEF Batches
    <2>2. [c EXCEPT !.flight.retired = @ \cup S] = d
      BY <1>1 DEF Context, Batches
    <2> HIDE DEF x, b
    <2>3. Undisturbed(c, d)
      BY <1>1, <2>1 DEF Undisturbed, Context
    <2> HIDE DEF d
    <2> QED
      BY <2>2, <2>3, UndisturbedWritten
  <1> QED
    BY <1>2, <1>3, <1>4

LEMMA AbandonedWritten ==
  ASSUME NEW c, Whole(c), Named(c, {}), Written(c), ~AsyncFlush \/ c.closed,
         NEW wait \in WaitResults
  PROVE  Written(Abandoned(c, wait))
  <1> DEFINE d == Abandoned(c, wait)
  <1>1. Sound(c, {}, 0) /\ Emptied(c)
    BY DEF Whole, Sound
  <1>2. Sound(d, {}, 0) /\ AbandonLeaves(c, d)
    BY <1>1, AbandonedSound
  <1> HIDE DEF d
  <1>3. d.rec = NoBatch /\ d.flight = NoBatch /\ ~d.open /\ ~d.flying
    BY <1>2 DEF Sound, Emptied, AbandonLeaves
  <1>4. Fits(d, d.rec) /\ Fits(d, d.flight) /\ Banked(d)
    BY <1>3, EmptyFits DEF Banked
  <1>5. Below(d)
    <2>1. CASE c.closed
      BY <1>2, <2>1 DEF AbandonLeaves, Below
    <2>2. CASE ~AsyncFlush
      <3>1. OpenBank(c) = 0 /\ OpenBank(d) = 0
        BY <1>3, <2>2 DEF OpenBank, Named, Grounded, Written, Banked
      <3>2. DOMAIN d.rec.cmds = {}
        BY <1>3, EmptyFits
      <3> QED
        BY <1>2, <3>1, <3>2 DEF Below, Written, AbandonLeaves
    <2> QED
      BY <2>1, <2>2
  <1> QED
    BY <1>4, <1>5 DEF Written, d

LEMMA CalledWritten ==
  ASSUME Whole(ctx), Named(ctx, {}), Written(ctx), NEW n \in Nat, ctx.faults + n <= MaxFaults
  PROVE  /\ Whole(Called(n)) /\ Named(Called(n), {}) /\ Same(ctx, Called(n))
         /\ Written(Called(n))
  BY CalledNamed, SameWritten

LEMMA WritingWritten ==
  ASSUME NEW c, Whole(c), Written(c), NEW h \in Handles \cup {0, Everything}
  PROVE  Written(Writing(c, h))
  BY WritingWhole, SameWritten

LEMMA WrittenHeld ==
  ASSUME NEW d, ctx' = d, Written(d)
  PROVE  Written(ctx)'
  BY DEF Written, Fits, Below, Banked, OpenBank, IsDispatch

LEMMA BufferWritten ==
  ASSUME IInv, Named(ctx, {}), Written(ctx), Buffer
  PROVE  Written(ctx)'
  <1> DEFINE c == Called(0)
             h == ctx.next
  <1>1. ctx.faults + 0 <= MaxFaults /\ Whole(ctx) /\ 0 \in Nat
    BY DEF Buffer, Live, IInv
  <1>2. Whole(c) /\ Written(c) /\ c \in Context
    <2>1. Whole(c) /\ Written(c)
      BY <1>1, CalledWritten
    <2> HIDE DEF c
    <2> QED
      BY <2>1 DEF Whole, Sound
  <1>3. Undisturbed(c, ctx')
    <2>1. CASE ctx.pool \cap Pairs # {}
      <3>1. PICK p \in ctx.pool \cap Pairs :
              ctx' = [c EXCEPT !.pool = @ \ {p}, !.own[h] = p, !.next = @ + 1]
        BY <2>1 DEF Buffer
      <3> HIDE DEF c, h
      <3> QED
        BY <1>2, <3>1 DEF Undisturbed, Context
    <2>2. CASE ctx.pool \cap Pairs = {}
      <3>1. PICK p \in Pairs \ ctx.alive :
              ctx' = [c EXCEPT !.alive = @ \cup {p}, !.own[h] = p,
                               !.next = @ + 1, !.mem[p] = Junk]
        BY <2>2 DEF Buffer
      <3> HIDE DEF c, h
      <3> QED
        BY <1>2, <3>1 DEF Undisturbed, Context
    <2> QED
      BY <2>1, <2>2
  <1> HIDE DEF c
  <1>4. Written(ctx')
    BY <1>2, <1>3, UndisturbedWritten
  <1> QED
    BY <1>4, WrittenHeld

LEMMA FreeBufferWritten ==
  ASSUME IInv, Named(ctx, {}), Written(ctx), NEW h \in Handles, NEW f \in Outcomes,
         FreeBuffer(h, f)
  PROVE  Written(ctx)'
  <1> DEFINE n == Cost(f, Idle)
             e == Called(n)
             p == ctx.own[h]
             c == [e EXCEPT !.own[h] = NoPair]
             r == [c EXCEPT !.rec.retired = @ \cup {p}]
             due == Cardinality(r.rec.retired \cap Pairs) > MaxRetired
  <1>1. p # NoPair /\ Whole(ctx)
    BY DEF FreeBuffer, IInv
  <1>2. n \in Nat /\ ctx.faults + n <= MaxFaults
    <2>1. ctx.faults \in 0 .. MaxFaults /\ MaxFaults \in Nat /\ ctx \in Context
      BY <1>1, ContextParts, BoundAssumption DEF Whole, Sound
    <2>2. f = Idle => n = 0
      BY DEF Cost
    <2>3. f # Idle => ctx.faults + n <= MaxFaults
      <3>1. c.faults = ctx.faults + n
        BY <2>1 DEF Called, Context
      <3>2. f # Idle => c.faults <= MaxFaults
        BY DEF FreeBuffer
      <3> QED
        BY <3>1, <3>2
    <2> QED
      BY <2>1, <2>2, <2>3, CostType
  <1>3. ctx' = IF ~c.open /\ c.flying THEN [c EXCEPT !.flight.retired = @ \cup {p}]
               ELSE IF ~c.open THEN ReleasedOrLeaked(c, {p})
               ELSE IF due THEN Flush(r, "RetirementBudget", f)
               ELSE r
    BY DEF FreeBuffer
  <1> HIDE DEF n, due
  <1>4. Whole(e) /\ Same(ctx, e) /\ Written(e)
    BY <1>1, <1>2, CalledWritten
  <1> HIDE DEF e
  <1>5. e.own[h] = p /\ Sound(e, {}, 0) /\ e \in Context /\ Fresh(e) /\ Bound(e) /\ 0 \in Nat
    BY <1>1, <1>4 DEF Same, Whole, Sound
  <1>6. Sound(c, {p}, 0)
    <2>1. Sound(c, {} \cup {p}, 0)
      BY <1>1, <1>5, DisownedSound
    <2>2. {} \cup {p} = {p}
      OBVIOUS
    <2> QED
      BY <2>1, <2>2
  <1>7. Written(c)
    <2>1. Undisturbed(e, c)
      BY <1>5 DEF Undisturbed, Context
    <2> HIDE DEF c
    <2> QED
      BY <1>4, <2>1, UndisturbedWritten
  <1>8. c.own = [e.own EXCEPT ![h] = NoPair] /\ c.next = e.next /\ c.kern = e.kern
    BY <1>5 DEF Context
  <1> HIDE DEF c, p
  <1>9. Fresh(c) /\ Bound(c)
    <2>1. e.own \in [Handles -> Pairs \cup {NoPair}]
      BY <1>5, ContextParts
    <2> QED
      BY <1>5, <1>8, <2>1 DEF Fresh, Bound
  <1>10. CASE ~c.open
    <2>1. Written(ctx')
      BY <1>3, <1>6, <1>7, <1>10, RetirementWritten
    <2> QED
      BY <2>1, WrittenHeld
  <1>11. CASE c.open
    <2>1. Written(r) /\ Whole(r)
      BY <1>6, <1>7, <1>9, <1>11, RetirementWritten, RetirementHeld
    <2> HIDE DEF r
    <2> DEFINE d == Flush(r, "RetirementBudget", f)
    <2>2. Written(d)
      BY <2>1, FlushWritten
    <2>3. ctx' = r \/ ctx' = d
      BY <1>3, <1>11
    <2> HIDE DEF d
    <2> QED
      BY <2>1, <2>2, <2>3, WrittenHeld
  <1> QED
    BY <1>10, <1>11

LEMMA DestroyKernelWritten ==
  ASSUME IInv, Named(ctx, {}), Written(ctx), NEW k \in Kernels, DestroyKernel(k)
  PROVE  Written(ctx)'
  <1> DEFINE e == Called(0)
             c == [e EXCEPT !.kern[k] = Unbuilt]
  <1>1. ctx.kern[k].built /\ Whole(ctx)
    BY DEF DestroyKernel, IInv
  <1>2. ctx.faults + 0 <= MaxFaults /\ 0 \in Nat
    <2>1. ctx.faults \in 0 .. MaxFaults /\ MaxFaults \in Nat /\ ctx \in Context
      BY <1>1, ContextParts, BoundAssumption DEF Whole, Sound
    <2> QED
      BY <2>1
  <1>3. ctx' = IF c.open THEN [c EXCEPT !.rec.retired = @ \cup {k}]
               ELSE IF c.flying THEN [c EXCEPT !.flight.retired = @ \cup {k}]
               ELSE ReleasedOrLeaked(c, {k})
    BY DEF DestroyKernel
  <1>4. Whole(e) /\ Same(ctx, e) /\ Written(e)
    BY <1>1, <1>2, CalledWritten
  <1> HIDE DEF e
  <1>5. e.kern[k].built /\ Sound(e, {}, 0) /\ e \in Context
    BY <1>1, <1>4 DEF Same, Whole, Sound
  <1>6. Sound(c, {k}, 0)
    <2>1. Sound(c, {} \cup {k}, 0)
      BY <1>2, <1>5, UnbuildingSound
    <2>2. {} \cup {k} = {k}
      OBVIOUS
    <2> QED
      BY <2>1, <2>2
  <1>7. Written(c)
    <2>1. e.kern \in [Kernels -> KernelStates] /\ ~Unbuilt.built
      BY <1>5, ContextParts DEF Unbuilt
    <2>2. Undisturbed(e, c)
      BY <1>5, <2>1 DEF Undisturbed, Context
    <2> HIDE DEF c
    <2> QED
      BY <1>4, <2>2, UndisturbedWritten
  <1> HIDE DEF c
  <1>8. Written(ctx')
    BY <1>3, <1>6, <1>7, RetirementWritten
  <1> QED
    BY <1>8, WrittenHeld

LEMMA BindWritten ==
  ASSUME IInv, Named(ctx, {}), Written(ctx), NEW k \in Kernels, NEW h \in Handles, Bind(k, h)
  PROVE  Written(ctx)'
  <1> DEFINE e == Called(0)
             kk == [e.kern[k] EXCEPT !.bound = h, !.pending = ctx.own[h], !.reuse = NoSet]
             K == [e.kern EXCEPT ![k] = kk]
             d == [e EXCEPT !.kern = K]
  <1>1. ctx.faults + 0 <= MaxFaults /\ Whole(ctx) /\ 0 \in Nat
    BY DEF Bind, Live, IInv
  <1>2. Whole(e) /\ Written(e)
    BY <1>1, CalledWritten
  <1>3. ctx' = [e EXCEPT !.kern[k].bound = h, !.kern[k].pending = ctx.own[h],
                         !.kern[k].reuse = NoSet]
    BY DEF Bind
  <1> HIDE DEF e
  <1>4. e \in Context /\ e.kern[k] \in KernelStates /\ e.kern \in [Kernels -> KernelStates]
    BY <1>2, ContextParts DEF Whole, Sound
  <1>5. ctx' = d
    BY <1>3, <1>4, ZenonT(60) DEF Context, KernelStates
  <1>6. kk.built = e.kern[k].built /\ kk.mark = e.kern[k].mark /\ kk.reuse = NoSet
    BY <1>4 DEF KernelStates
  <1> HIDE DEF kk
  <1>7. K[k] = kk /\ \A j \in Kernels : j # k => K[j] = e.kern[j]
    BY <1>4
  <1> HIDE DEF K
  <1>8. Undisturbed(e, d)
    BY <1>4, <1>6, <1>7 DEF Undisturbed, Context
  <1> HIDE DEF d
  <1> QED
    BY <1>2, <1>5, <1>8, UndisturbedWritten, WrittenHeld

LEMMA BuildKernelWritten ==
  ASSUME IInv, Named(ctx, {}), Written(ctx), NEW k \in Kernels, BuildKernel(k)
  PROVE  Written(ctx)'
  <1> DEFINE e == Called(0)
             a == e.alive \cup {k}
             yes == TRUE
             u == [Unbuilt EXCEPT !.built = yes]
             K == [e.kern EXCEPT ![k] = u]
             B == [s \in DescriptorSets |-> IF s[1] = k THEN NoPair ELSE e.bindings[s]]
             d == [e EXCEPT !.alive = a, !.kern = K, !.bindings = B]
  <1>1. k \notin ctx.alive /\ ctx.faults + 0 <= MaxFaults /\ Whole(ctx)
        /\ 0 \in Nat /\ ~ctx.poisoned
    BY DEF BuildKernel, Live, IInv
  <1>2. Whole(e) /\ Named(e, {}) /\ Same(ctx, e) /\ Written(e)
    BY <1>1, CalledWritten
  <1>3. ctx' = d
    BY DEF BuildKernel
  <1> HIDE DEF e
  <1>4. ~e.poisoned /\ e \in Context /\ k \notin e.alive /\ Apart(e, {}) /\ k \in Objects
    BY <1>1, <1>2 DEF Same, Whole, Sound, Objects
  <1>5. k \notin Uses(e.rec.cmds) /\ k \notin Uses(e.flight.cmds)
    BY <1>2, <1>4, HoldersExist DEF Named, Known
  <1>6. /\ K[k].built /\ K[k].reuse = NoSet
        /\ \A j \in Kernels : j # k => K[j] = e.kern[j]
    <2>0. yes \in BOOLEAN /\ yes
      OBVIOUS
    <2> HIDE DEF yes
    <2>1. u = [built |-> yes, bound |-> 0, pending |-> NoPair, mark |-> 0, reuse |-> NoSet]
      BY DEF Unbuilt
    <2>2. u.built /\ u.reuse = NoSet
      BY <2>0, <2>1
    <2> HIDE DEF u
    <2> QED
      BY <1>4, <2>2, ContextParts DEF u
  <1>7. \A s \in DescriptorSets : s[1] # k => B[s] = e.bindings[s]
    OBVIOUS
  <1> HIDE DEF a, K, B
  <1>8. /\ d.kern = K /\ d.bindings = B /\ d.flight = e.flight /\ d.rec = e.rec
        /\ d.open = e.open /\ d.flying = e.flying
        /\ d.poisoned = e.poisoned /\ d.closed = e.closed
    BY <1>4 DEF Context
  <1> HIDE DEF d
  <1>9. \A b \in {e.rec, e.flight} : \A i \in DOMAIN b.cmds :
          IsDispatch(b.cmds[i]) => b.cmds[i].set \in DescriptorSets /\ b.cmds[i].set[1] # k
    <2>1. \A b \in {e.rec, e.flight} : b.cmds \in Seq(Commands)
      BY <1>4, ContextParts, BatchParts
    <2>2. ASSUME NEW b \in {e.rec, e.flight}, NEW i \in DOMAIN b.cmds, IsDispatch(b.cmds[i])
          PROVE  b.cmds[i].set \in DescriptorSets /\ b.cmds[i].set[1] # k
      <3>1. b.cmds[i] \in Commands
        BY <2>1
      <3>2. b.cmds[i].set \in DescriptorSets
        BY <2>2, <3>1, CommandKinds
      <3>3. b.cmds[i].set[1] \in Uses(b.cmds)
        BY <2>2 DEF Uses
      <3> QED
        BY <1>5, <3>2, <3>3
    <2> QED
      BY <2>2
  <1>10. Fits(d, d.rec) /\ Fits(d, d.flight)
    BY <1>2, <1>7, <1>8, <1>9 DEF Written, Fits
  <1>11. OpenBank(d) = OpenBank(e) /\ Banked(d)
    BY <1>2, <1>8 DEF Written, Banked, OpenBank
  <1>12. Below(d)
    <2>1. \A j \in Kernels : e.kern[j].reuse \in DescriptorSets \cup {NoSet}
      BY <1>4, ContextParts DEF KernelStates
    <2> QED
      BY <1>2, <1>6, <1>7, <1>8, <1>9, <1>11, <2>1 DEF Written, Below
  <1> QED
    BY <1>3, <1>10, <1>11, <1>12, WrittenHeld DEF Written

LEMMA DispatchWritten ==
  ASSUME IInv, Named(ctx, {}), Written(ctx), NEW k \in Kernels, NEW v \in Pushed,
         NEW f \in Outcomes, NEW g \in Outcomes, Dispatch(k, v, f, g)
  PROVE  Written(ctx)'
  <1> DEFINE n == Cost(f, Idle) + Cost(g, Idle)
             c == Called(n)
             exhausted == c.kern[k].reuse = NoSet /\ c.kern[k].mark = ArenaSize
             l == Flush(c, "DescriptorsExhausted", f)
             a == IF exhausted THEN l ELSE c
             s == Acquired(a, k)
             cmd == [set |-> s.kern[k].reuse, to |-> c.kern[k].pending, value |-> v]
             r == Recorded(s, cmd)
             due == Due(r)
             z == Flush(r, "BatchFull", g)
             y == IF due THEN z ELSE r
             failed == exhausted /\ Failed(c, "DescriptorsExhausted", f)
             w == Writing(y, c.kern[k].bound)
  <1>1. /\ ctx.faults + n <= MaxFaults /\ Whole(ctx) /\ n \in Nat /\ ~ctx.poisoned
        /\ ~ctx.closed /\ Dispatchable(k)
    <2>1. Live(n) /\ Dispatchable(k)
      BY DEF Dispatch
    <2> QED
      BY <2>1, CostType DEF Live, IInv
  <1>2. ctx' = (IF failed THEN a ELSE w) /\ (f # Idle => failed)
    BY DEF Dispatch
  <1> HIDE DEF n, failed, due
  <1>3. Whole(c) /\ Named(c, {}) /\ Same(ctx, c) /\ Written(c)
    BY <1>1, CalledWritten
  <1> HIDE DEF c
  <1>4. /\ c \in Context /\ ~c.poisoned /\ ~c.closed /\ c.kern[k].pending \in Pairs
        /\ c.kern[k].bound \in Handles /\ c.kern[k].built
    <2>1. c \in Context /\ Bound(c)
      BY <1>3 DEF Whole, Sound
    <2>2. c.kern[k] \in KernelStates /\ c.kern[k].bound # 0 /\ c.kern[k].built
      BY <1>1, <1>3, <2>1, ContextParts DEF Same, Dispatchable
    <2>3. c.kern[k].bound \in Handles
      BY <2>2 DEF KernelStates
    <2> QED
      BY <1>1, <1>3, <2>1, <2>2, <2>3 DEF Same, Bound
  <1>5. /\ Whole(l) /\ Named(l, {}) /\ Written(l) /\ l.kern[k].mark = 0
        /\ (f = Idle => ~l.poisoned)
        /\ ~l.closed /\ l.kern[k].built /\ l.kern[k].pending = c.kern[k].pending
    <2>1. /\ Whole(l) /\ Calm(c, l) /\ l.kern[k].mark = 0
          /\ FlushLeaves(c, l, Completing("DescriptorsExhausted"))
      BY <1>3, CalmFlush, FlushWhole
    <2>2. Named(l, {}) /\ (f = Idle => ~l.poisoned)
      BY <1>3, <1>4, FlushNamed
    <2>3. Written(l)
      BY <1>3, FlushWritten
    <2> HIDE DEF l
    <2>4. k \in Built(l)
      BY <1>4, <2>1, FlushHolders DEF Built
    <2> QED
      BY <1>4, <2>1, <2>2, <2>3, <2>4 DEF Calm, Built
  <1>6. /\ Whole(a) /\ Named(a, {}) /\ Written(a)
        /\ (a.kern[k].reuse = NoSet => a.kern[k].mark # ArenaSize)
        /\ (~failed => ~a.poisoned) /\ ~a.closed /\ a.kern[k].built
        /\ a.kern[k].pending = c.kern[k].pending
    <2>1. ArenaSize # 0
      BY BoundAssumption
    <2> HIDE DEF l
    <2> QED
      BY <1>2, <1>3, <1>4, <1>5, <2>1
  <1> HIDE DEF a
  <1>7. CASE failed
    <2>1. ctx' = a
      BY <1>2, <1>7
    <2> QED
      BY <1>6, <2>1, WrittenHeld
  <1>8. CASE ~failed
    <2>1. /\ Whole(s) /\ Named(s, {}) /\ Written(s) /\ Ready(s, k, c.kern[k].pending)
      BY <1>6, <1>8, AcquiredWhole, AcquiredNamed, AcquiredWritten
    <2> HIDE DEF s
    <2>2. cmd \in Commands /\ Recordable(s, cmd)
      <3>1. cmd \in Commands
        BY <1>4, <2>1 DEF Commands, Ready
      <3>2. cmd.to = c.kern[k].pending /\ cmd.set = s.kern[k].reuse
        OBVIOUS
      <3> HIDE DEF cmd
      <3> QED
        BY <2>1, <3>1, <3>2 DEF Ready, Recordable
    <2> HIDE DEF cmd
    <2>3. Whole(r) /\ Written(r)
      <3>1. Sound(s, {}, 0) /\ Grounded(s)
        BY <2>1 DEF Whole, Named
      <3> QED
        BY <2>1, <2>2, <3>1, RecordedWhole, RecordedWritten
    <2> HIDE DEF r
    <2>4. Whole(z) /\ Written(z)
      BY <2>3, FlushWhole, FlushWritten
    <2> HIDE DEF z
    <2>5. Whole(y) /\ Written(y)
      BY <2>3, <2>4
    <2> HIDE DEF y
    <2>6. Written(w)
      BY <1>4, <2>5, WritingWritten
    <2>7. ctx' = w
      BY <1>2, <1>8
    <2> HIDE DEF w
    <2> QED
      BY <2>6, <2>7, WrittenHeld
  <1> QED
    BY <1>7, <1>8

(* A flush that completes leaves a live context clear, and the submission  *)
(* of its own that follows leaves it so.                                   *)
LEMMA ClearKept ==
  ASSUME NEW c, Clear(c), NEW d, d.open = c.open, d.flying = c.flying, d.rec = c.rec,
         d.flight = c.flight, \A k \in Kernels : d.kern[k].reuse = c.kern[k].reuse
  PROVE  Clear(d)
  BY DEF Clear, Emptied

LEMMA ClearCarried ==
  ASSUME NEW c, Clear(c), NEW d, Carried(c, d)
  PROVE  Clear(d)
  BY ClearKept DEF Carried, Passed

LEMMA ClearSame ==
  ASSUME NEW c, Clear(c), NEW d, Same(c, d)
  PROVE  Clear(d)
  BY ClearKept DEF Same

LEMMA ClearHeld ==
  ASSUME NEW c, Whole(c), Clear(c), NEW h \in Handles \cup {0, Everything},
         ctx' = c \/ ctx' = Writing(c, h)
  PROVE  Written(ctx)'
  <1>1. Clear(Writing(c, h))
    BY WritingWhole, ClearSame
  <1>2. Written(ctx')
    BY <1>1, ClearWritten
  <1> QED
    BY <1>2, WrittenHeld

LEMMA FlushClear ==
  ASSUME NEW c, Whole(c), Named(c, {}), ~c.poisoned, Written(c), NEW reason,
         NEW f \in Outcomes, Completing(reason)
  PROVE  LET d == Flush(c, reason, f)
         IN  Whole(d) /\ Written(d) /\ (f = Idle => Clear(d) /\ ~d.poisoned)
  <1> DEFINE d == Flush(c, reason, f)
  <1>1. Whole(d)
    BY FlushWhole
  <1>2. /\ Completing(reason) /\ ~d.poisoned => ~d.flying
        /\ f = Idle => ~d.poisoned
    BY FlushNamed
  <1>3. Written(d) /\ (~d.flying => Clear(d))
    BY FlushWritten
  <1> HIDE DEF d
  <1> QED
    BY <1>1, <1>2, <1>3 DEF d

LEMMA SetWrittenReuses ==
  ASSUME NEW c, Whole(c), NEW k \in Kernels, c.kern[k].mark # ArenaSize
  PROVE  LET d == SetWritten(c, k)
         IN  /\ Whole(d) /\ NextSet(c, k) \in DescriptorSets
             /\ Rest(c, d) /\ d.open = c.open /\ d.rec = c.rec
             /\ \A j \in Kernels : d.kern[j].reuse = c.kern[j].reuse
  <1> DEFINE d == SetWritten(c, k)
  <1>1. 0 \in Nat /\ Sound(c, {}, 0) /\ c.kern \in [Kernels -> KernelStates]
    BY ContextParts DEF Whole, Sound
  <1>2. /\ Sound(d, {}, 0) /\ Rest(c, d) /\ d.open = c.open /\ d.rec = c.rec
        /\ d.kern = [c.kern EXCEPT ![k].mark = @ + 1]
    BY <1>1, SetWrittenSound, ZenonT(60)
  <1>2a. NextSet(c, k) \in DescriptorSets
    BY <1>1, SetWrittenSound
  <1>3. Whole(d)
    BY SetWrittenWhole
  <1> HIDE DEF d
  <1>4. \A j \in Kernels : d.kern[j].reuse = c.kern[j].reuse
    BY <1>1, <1>2 DEF KernelStates
  <1> QED
    BY <1>2, <1>2a, <1>3, <1>4 DEF d

LEMMA DispatchTimedWritten ==
  ASSUME IInv, Named(ctx, {}), Written(ctx), NEW k \in Kernels, NEW v \in Pushed,
         NEW f \in Outcomes, NEW shot \in Shots, DispatchTimed(k, v, f, shot)
  PROVE  Written(ctx)'
  <1> DEFINE n == Cost(f, Idle) + Cost(shot, "ok")
             c == Called(n)
             a == Flush(c, "TimedDispatch", f)
             s == SetWritten(a, k)
             cmd == [set |-> NextSet(a, k), to |-> c.kern[k].pending, value |-> v]
             m == Executed(s, s.mem, cmd)
             u == Uses(<<cmd>>)
             o == OneShot(s, shot, m, u, 1)
             failed == Failed(c, "TimedDispatch", f)
  <1>1. /\ ctx.faults + n <= MaxFaults /\ Whole(ctx) /\ n \in Nat /\ ~ctx.poisoned
        /\ Dispatchable(k)
    BY CostType DEF DispatchTimed, Live, IInv
  <1>2. /\ ctx' = IF failed THEN a
                  ELSE IF shot = "fails" THEN o ELSE Writing(o, c.kern[k].bound)
        /\ f # Idle => failed
    BY DEF DispatchTimed
  <1> HIDE DEF n, failed
  <1>3. Whole(c) /\ Named(c, {}) /\ Same(ctx, c) /\ Written(c)
    BY <1>1, CalledWritten
  <1> HIDE DEF c
  <1>4. /\ c \in Context /\ ~c.poisoned /\ c.kern[k].pending \in Pairs
        /\ c.kern[k].bound \in Handles \cup {0, Everything}
    <2>1. c \in Context /\ Bound(c)
      BY <1>3 DEF Whole, Sound
    <2>2. c.kern[k] \in KernelStates /\ c.kern[k].bound # 0
      BY <1>1, <1>3, <2>1, ContextParts DEF Same, Dispatchable
    <2>3. c.kern[k].bound \in Handles
      BY <2>2 DEF KernelStates
    <2> QED
      BY <1>1, <1>3, <2>1, <2>2, <2>3 DEF Same, Bound
  <1>5. Whole(a) /\ Written(a) /\ (f = Idle => Clear(a)) /\ a.kern[k].mark # ArenaSize
    <2>1. Completing("TimedDispatch")
      BY DEF Completing
    <2>2. a.kern[k].mark = 0
      BY <1>3, FlushWhole
    <2> QED
      BY <1>3, <1>4, <2>1, <2>2, FlushClear, BoundAssumption
  <1> HIDE DEF a
  <1>6. CASE failed
    <2>1. ctx' = a
      BY <1>2, <1>6
    <2> QED
      BY <1>5, <2>1, WrittenHeld
  <1>7. CASE ~failed
    <2>1. /\ Whole(s) /\ Clear(s) /\ NextSet(a, k) \in DescriptorSets
      <3>1. /\ Whole(s) /\ NextSet(a, k) \in DescriptorSets
            /\ Rest(a, s) /\ s.open = a.open /\ s.rec = a.rec
            /\ \A j \in Kernels : s.kern[j].reuse = a.kern[j].reuse
        BY <1>5, SetWrittenReuses
      <3> HIDE DEF s
      <3>2. Clear(a)
        BY <1>2, <1>5, <1>7
      <3> QED
        BY <3>1, <3>2, ClearKept DEF Rest
    <2> HIDE DEF s
    <2>2. cmd \in Commands /\ u \in SUBSET Objects
      <3>1. cmd \in Commands
        BY <1>4, <2>1 DEF Commands
      <3> HIDE DEF cmd
      <3>2. <<cmd>> \in Seq(Commands)
        BY <3>1
      <3> QED
        BY <3>1, <3>2, UsesType
    <2> HIDE DEF cmd
    <2>3. m \in Cells
      <3>1. s \in Context
        BY <2>1 DEF Whole, Sound
      <3> QED
        BY <2>2, <3>1, ContextParts, ExecutedType
    <2> HIDE DEF m, u
    <2>4. Whole(o) /\ Clear(o)
      <3>1. 1 \in Nat /\ 0 \in Nat /\ Sound(s, {}, 0)
        BY <2>1 DEF Whole
      <3>2. Whole(o) /\ Carried(s, o)
        BY <2>1, <2>2, <2>3, <3>1, OneShotWhole, OneShotSound
      <3> HIDE DEF o
      <3> QED
        BY <2>1, <3>2, ClearCarried
    <2> HIDE DEF o
    <2> QED
      BY <1>2, <1>4, <1>7, <2>4, ClearHeld
  <1> QED
    BY <1>6, <1>7

LEMMA UploadRecordedWritten ==
  ASSUME IInv, Named(ctx, {}), Written(ctx), NEW h \in Handles, NEW v \in Pushed,
         NEW s \in Stages, UploadRecorded(h, v, s)
  PROVE  Written(ctx)'
  <1> DEFINE c == Called(0)
             t == StageTaken(c, s, v)
             cmd == [from |-> s, to |-> ctx.own[h]]
             r == Recorded(t, cmd)
             q == [r EXCEPT !.rec.retired = @ \cup {s}]
             w == Writing(q, h)
  <1>1. /\ ctx.faults + 0 <= MaxFaults /\ Whole(ctx) /\ 0 \in Nat /\ ~ctx.poisoned
        /\ ctx.own[h] # NoPair /\ s \in StageChoices(ctx)
    BY DEF UploadRecorded, Live, IInv
  <1>2. ctx' = w
    BY DEF UploadRecorded
  <1>3. Whole(c) /\ Named(c, {}) /\ Same(ctx, c) /\ Written(c)
    BY <1>1, CalledWritten
  <1> HIDE DEF c
  <1>4. Fresh(c) /\ Bound(c) /\ s \in StageChoices(c) /\ c \in Context
    BY <1>1, <1>3 DEF Whole, Same, StageChoices, Sound
  <1>5. Sound(t, {s}, 0) /\ Calm(c, t) /\ Written(t) /\ Grounded(t)
    <2>1. Sound(t, {s}, 0) /\ Calm(c, t)
      BY <1>3, <1>4, StageTakenSound
    <2>2. Undisturbed(c, t) /\ t.flying = c.flying
      BY <1>4 DEF StageTaken, Undisturbed, Context
    <2> HIDE DEF t
    <2> QED
      BY <1>3, <2>1, <2>2, UndisturbedWritten DEF Grounded, Named
  <1> HIDE DEF t
  <1>6. cmd \in Commands /\ ~IsDispatch(cmd)
    <2>1. ctx.own[h] \in Pairs
      BY <1>1, ContextParts DEF Whole, Sound
    <2> QED
      BY <2>1 DEF Commands, IsDispatch
  <1> HIDE DEF cmd
  <1>7. Sound(r, {s}, 0) /\ Written(r) /\ r.open /\ Calm(t, r)
    <2>1. Sound(r, {s}, 0) /\ Rest(t, r) /\ r.kern = t.kern /\ r.open
      BY <1>1, <1>5, <1>6, RecordedSound
    <2>2. Written(r)
      BY <1>5, <1>6, RecordedWritten DEF Recordable
    <2> HIDE DEF r
    <2> QED
      BY <2>1, <2>2 DEF Rest, Calm
  <1> HIDE DEF r
  <1>8. Fresh(r) /\ Bound(r)
    BY <1>4, <1>5, <1>7, CalmOn, CalmParts
  <1>9. Whole(q) /\ Written(q)
    BY <1>7, <1>8, RetirementHeld, RetirementWritten
  <1> HIDE DEF q
  <1>10. Written(w)
    <2>1. h \in Handles \cup {0, Everything}
      OBVIOUS
    <2> QED
      BY <1>9, <2>1, WritingWritten
  <1> HIDE DEF w
  <1> QED
    BY <1>2, <1>10, WrittenHeld

LEMMA UploadNowWritten ==
  ASSUME IInv, Named(ctx, {}), Written(ctx), NEW h \in Handles, NEW v \in Pushed,
         NEW s \in Stages, NEW f \in Outcomes, NEW shot \in Shots,
         UploadNow(h, v, s, f, shot)
  PROVE  Written(ctx)'
  <1> DEFINE n == Cost(f, Idle) + Cost(shot, "ok")
             c == Called(n)
             a == Flush(c, "Upload", f)
             t == StageTaken(a, s, v)
             cmd == [from |-> s, to |-> ctx.own[h]]
             m == Executed(t, t.mem, cmd)
             u == Uses(<<cmd>>)
             done == OneShot(t, shot, m, u, 0)
             failed == Failed(c, "Upload", f)
             x == Recycled(done, {s})
             y == ReleasedOrLeaked(done, {s})
  <1>1. /\ ctx.faults + n <= MaxFaults /\ Whole(ctx) /\ n \in Nat /\ ~ctx.poisoned
        /\ ctx.own[h] # NoPair /\ s \in StageChoices(a) /\ 0 \in Nat
    BY CostType DEF UploadNow, Live, IInv
  <1>2. /\ ctx' = IF failed THEN a
                  ELSE IF shot = "ok" THEN Writing(x, h)
                  ELSE IF shot = "fails" THEN y ELSE Writing(y, h)
        /\ f # Idle => failed
    BY DEF UploadNow
  <1> HIDE DEF n, failed
  <1>3. Whole(c) /\ Named(c, {}) /\ Same(ctx, c) /\ Written(c)
    BY <1>1, CalledWritten
  <1> HIDE DEF c
  <1>4. Fresh(c) /\ Bound(c) /\ ~c.poisoned /\ c \in Context /\ c.own = ctx.own
    BY <1>1, <1>3 DEF Whole, Same, Sound
  <1>5. Whole(a) /\ Calm(c, a) /\ Written(a) /\ (f = Idle => Clear(a))
    <2>1. Completing("Upload")
      BY DEF Completing
    <2> QED
      BY <1>3, <1>4, <2>1, CalmFlush, FlushClear
  <1> HIDE DEF a
  <1>6. CASE failed
    <2>1. ctx' = a
      BY <1>2, <1>6
    <2> QED
      BY <1>5, <2>1, WrittenHeld
  <1>7. CASE ~failed
    <2>0. Clear(a) /\ a \in Context
      BY <1>2, <1>5, <1>7 DEF Whole, Sound
    <2>1. Sound(t, {s}, 0) /\ Calm(a, t) /\ Clear(t)
      <3>1. Sound(t, {s}, 0) /\ Calm(a, t)
        BY <1>1, <1>5, StageTakenSound
      <3>2. /\ t.open = a.open /\ t.flying = a.flying /\ t.rec = a.rec
            /\ t.flight = a.flight /\ t.kern = a.kern
        BY <2>0 DEF StageTaken, Context
      <3> HIDE DEF t
      <3> QED
        BY <2>0, <3>1, <3>2, ClearKept
    <2> HIDE DEF t
    <2>2. cmd \in Commands /\ u \in SUBSET Objects
      <3>1. ctx.own[h] \in Pairs
        BY <1>1, ContextParts DEF Whole, Sound
      <3>2. cmd \in Commands
        BY <3>1 DEF Commands
      <3> HIDE DEF cmd
      <3>3. <<cmd>> \in Seq(Commands)
        BY <3>2
      <3> QED
        BY <3>2, <3>3, UsesType
    <2> HIDE DEF cmd
    <2>3. m \in Cells
      <3>1. t \in Context
        BY <2>1 DEF Sound
      <3> QED
        BY <2>2, <3>1, ContextParts, ExecutedType
    <2> HIDE DEF m, u
    <2>4. Sound(done, {s}, 0) /\ Calm(t, done) /\ Clear(done)
      <3>1. Sound(done, {s}, 0) /\ Carried(t, done)
        BY <1>1, <2>1, <2>2, <2>3, OneShotSound
      <3> HIDE DEF done
      <3> QED
        BY <2>1, <3>1, ClearCarried DEF Calm, Carried, Passed
    <2> HIDE DEF done
    <2>5. Fresh(done) /\ Bound(done) /\ Sound(done, {s} \cup {}, 0) /\ {s} \cap {} = {}
      <3>1. {s} \cup {} = {s}
        OBVIOUS
      <3>2. Calm(c, done)
        BY <1>5, <2>1, <2>4, CalmOn
      <3> QED
        BY <1>4, <2>4, <3>1, <3>2, CalmParts
    <2>6. Whole(x) /\ Clear(x)
      <3>1. Sound(x, {}, 0) /\ Carried(done, x)
        BY <1>1, <2>5, RecycledSound
      <3> HIDE DEF x
      <3>2. Whole(x)
        BY <2>5, <3>1, CalmParts DEF Carried, Passed, Calm, Whole
      <3> QED
        BY <2>4, <3>1, <3>2, ClearCarried
    <2>7. Whole(y) /\ Clear(y)
      <3>1. Whole(y)
        BY <2>4, <2>5, RetirementHeld DEF Clear
      <3>2. Carried(done, y)
        BY <1>1, <2>5, ReleasedOrLeakedSound
      <3> HIDE DEF y
      <3> QED
        BY <2>4, <3>1, <3>2, ClearCarried
    <2> HIDE DEF x, y
    <2>8. h \in Handles \cup {0, Everything}
      OBVIOUS
    <2> QED
      BY <1>2, <1>7, <2>6, <2>7, <2>8, ClearHeld
  <1> QED
    BY <1>6, <1>7

LEMMA DownloadWritten ==
  ASSUME IInv, Named(ctx, {}), Written(ctx), NEW h \in Handles, NEW f \in Outcomes,
         NEW shot \in Shots, Download(h, f, shot)
  PROVE  Written(ctx)'
  <1> DEFINE n == Cost(f, Idle) + Cost(shot, "ok")
             c == Called(n)
             a == Flush(c, "Readback", f)
             u == {ctx.own[h]}
             m == a.mem
             o == OneShot(a, shot, m, u, 2)
             r == IF shot = "ok" THEN a.mem[ctx.own[h]] ELSE NoAnswer
             d == [o EXCEPT !.answer = r]
             failed == Failed(c, "Readback", f)
  <1>1. /\ ctx.faults + n <= MaxFaults /\ Whole(ctx) /\ n \in Nat /\ ~ctx.poisoned
        /\ ctx.own[h] # NoPair /\ 0 \in Nat /\ 2 \in Nat
    BY CostType DEF Download, Live, IInv
  <1>2. ctx' = (IF failed THEN a ELSE d) /\ (f # Idle => failed)
    BY DEF Download
  <1> HIDE DEF n, failed
  <1>3. Whole(c) /\ Named(c, {}) /\ Same(ctx, c) /\ Written(c)
    BY <1>1, CalledWritten
  <1> HIDE DEF c
  <1>4. ~c.poisoned /\ c \in Context
    BY <1>1, <1>3 DEF Whole, Same, Sound
  <1>5. Whole(a) /\ Written(a) /\ (f = Idle => Clear(a))
    <2>1. Completing("Readback")
      BY DEF Completing
    <2> QED
      BY <1>3, <1>4, <2>1, FlushClear
  <1> HIDE DEF a
  <1>6. CASE failed
    <2>1. ctx' = a
      BY <1>2, <1>6
    <2> QED
      BY <1>5, <2>1, WrittenHeld
  <1>7. CASE ~failed
    <2>1. Clear(a) /\ a \in Context /\ Sound(a, {}, 0)
      BY <1>2, <1>5, <1>7 DEF Whole, Sound
    <2>2. u \in SUBSET Objects /\ m \in Cells
      BY <1>1, <2>1, ContextParts DEF Whole, Sound, Objects
    <2> HIDE DEF u, m, r
    <2>3. Whole(o) /\ Clear(o)
      <3>1. Whole(o) /\ Carried(a, o)
        BY <1>1, <1>5, <2>1, <2>2, OneShotWhole, OneShotSound
      <3> HIDE DEF o
      <3> QED
        BY <2>1, <3>1, ClearCarried
    <2> HIDE DEF o
    <2>4. Clear(d)
      <3>1. Same(o, d)
        BY <2>3 DEF Whole, Sound, Context, Same
      <3> HIDE DEF d
      <3> QED
        BY <2>3, <3>1, ClearSame
    <2>5. ctx' = d
      BY <1>2, <1>7 DEF o, u, m, r
    <2> HIDE DEF d
    <2> QED
      BY <2>4, <2>5, ClearWritten, WrittenHeld
  <1> QED
    BY <1>6, <1>7

LEMMA SyncWritten ==
  ASSUME IInv, Named(ctx, {}), Written(ctx), NEW f \in Outcomes, Sync(f)
  PROVE  Written(ctx)'
  <1> DEFINE n == Cost(f, Idle)
             c == Called(n)
             a == Flush(c, "ExplicitSync", f)
  <1>1. ctx.faults + n <= MaxFaults /\ Whole(ctx) /\ n \in Nat
    BY CostType DEF Sync, Live, IInv
  <1>2. ctx' = a
    BY DEF Sync
  <1> HIDE DEF n
  <1>3. Whole(c) /\ Written(c)
    BY <1>1, CalledWritten
  <1> HIDE DEF c
  <1>4. Written(a)
    BY <1>3, FlushWritten
  <1> HIDE DEF a
  <1> QED
    BY <1>2, <1>4, WrittenHeld

LEMMA DiscardWritten ==
  ASSUME IInv, Named(ctx, {}), Written(ctx), ~AsyncFlush \/ ~MayDiscard,
         NEW wait \in Waits, DiscardRecordedBatch(wait)
  PROVE  Written(ctx)'
  <1> DEFINE n == Cost(wait, "ok")
             c == Called(n)
             a == Abandoned(c, wait)
             w == Writing(a, Everything)
  <1>1. /\ ctx.faults + n <= MaxFaults /\ Whole(ctx) /\ n \in Nat /\ ~AsyncFlush
    BY CostType DEF DiscardRecordedBatch, IInv
  <1>2. ctx' = w
    BY DEF DiscardRecordedBatch
  <1> HIDE DEF n
  <1>3. Whole(c) /\ Named(c, {}) /\ Written(c)
    BY <1>1, CalledWritten
  <1> HIDE DEF c
  <1>4. wait \in WaitResults
    BY BoundAssumption DEF Waits, WaitResults
  <1>5. Whole(a) /\ Written(a)
    <2>1. Sound(c, {}, 0)
      BY <1>3 DEF Whole
    <2>2. Sound(a, {}, 0) /\ AbandonLeaves(c, a)
      BY <1>4, <2>1, AbandonedSound
    <2>3. Written(a)
      BY <1>1, <1>3, <1>4, AbandonedWritten
    <2> HIDE DEF a
    <2> QED
      BY <1>3, <2>2, <2>3, CalmWhole DEF AbandonLeaves, Calm
  <1> HIDE DEF a
  <1>6. Written(w)
    <2>1. Everything \in Handles \cup {0, Everything}
      OBVIOUS
    <2> QED
      BY <1>5, <2>1, WritingWritten
  <1> HIDE DEF w
  <1> QED
    BY <1>2, <1>6, WrittenHeld

LEMMA DropWritten ==
  ASSUME IInv, Named(ctx, {}), Written(ctx), NEW idle \in {"ok", "fails"}, NEW wait \in Waits,
         Drop(idle, wait)
  PROVE  Written(ctx)'
  <1>1. wait \in WaitResults
    BY BoundAssumption DEF Waits, WaitResults
  <1>2. /\ IInv' /\ ctx'.closed
        /\ (~ctx'.open /\ ~ctx'.flying) \/ Batched(ctx, ctx')
    BY <1>1, DropHeld
  <1>3. CASE Batched(ctx, ctx')
    <2>1. Undisturbed(ctx, ctx')
      BY <1>2, <1>3 DEF Batched, Undisturbed
    <2> QED
      BY <2>1, UndisturbedWritten, WrittenHeld
  <1>4. CASE ~ctx'.open /\ ~ctx'.flying
    <2>1. ctx'.rec = NoBatch /\ ctx'.flight = NoBatch
      BY <1>2, <1>4 DEF IInv, Whole, Sound, Emptied
    <2>2. Written(ctx')
      BY <1>2, <1>4, <2>1, EmptyFits DEF Written, Below, Banked
    <2> QED
      BY <2>2, WrittenHeld
  <1> QED
    BY <1>2, <1>3, <1>4

LEMMA DeviceExecutesWritten ==
  ASSUME IInv, Named(ctx, {}), Written(ctx), DeviceExecutes
  PROVE  Written(ctx)'
  <1> DEFINE d == Ran(ctx)
  <1>1. Carried(ctx, d)
    <2>1. Sound(ctx, {}, 0) /\ 0 \in Nat
      BY DEF IInv, Whole
    <2> QED
      BY <2>1, RanSound
  <1>2. ctx' = d
    BY DEF DeviceExecutes
  <1> HIDE DEF d
  <1> QED
    BY <1>1, <1>2, CarriedWritten, WrittenHeld

LEMMA InitWritten ==
  ASSUME Init
  PROVE  Written(ctx)
  <1>1. ctx.rec = NoBatch /\ ctx.flight = NoBatch /\ ~ctx.open /\ ~ctx.flying
    BY DEF Init
  <1>2. \A k \in Kernels : ctx.kern[k].reuse = NoSet
    <2>1. \A k \in Kernels : ctx.kern[k] = Unbuilt
      BY DEF Init
    <2> QED
      BY <2>1 DEF Unbuilt
  <1> QED
    BY <1>1, <1>2, ClearWritten DEF Clear, Emptied

LEMMA NextWritten ==
  ASSUME IInv, Named(ctx, {}), Written(ctx), ~AsyncFlush \/ ~MayDiscard, [Next]_ctx
  PROVE  Written(ctx)'
  <1>1. CASE Next
    BY <1>1, BufferWritten, FreeBufferWritten, BuildKernelWritten, DestroyKernelWritten,
       BindWritten, DispatchWritten, DispatchTimedWritten, UploadRecordedWritten,
       UploadNowWritten, DownloadWritten, SyncWritten, DiscardWritten, DropWritten,
       DeviceExecutesWritten DEF Next
  <1>2. CASE UNCHANGED ctx
    BY <1>2, WrittenHeld
  <1> QED
    BY <1>1, <1>2

(* The batches use descriptor sets of different banks, each below its      *)
(* kernel's watermark and bound to what the dispatch addresses, and the    *)
(* set a kernel may use again is of the open bank (lib.rs:506-525,         *)
(* 5151-5215).                                                             *)
THEOREM SetsWritten ==
  ASSUME ~AsyncFlush \/ ~MayDiscard
  PROVE  Spec => []Written(ctx)
  <1>1. Init => Written(ctx)
    BY InitWritten
  <1>2. IInv /\ Named(ctx, {}) /\ Written(ctx) /\ [Next]_ctx => Written(ctx)'
    BY NextWritten
  <1> QED
    BY <1>1, <1>2, Invariance, NamesKept, PTL DEF Spec

(* No descriptor set is rewritten while a recorded or submitted dispatch   *)
(* uses it: not by the arena's reset, not through the cached set, not      *)
(* across the two banks (lib.rs:506-525).  The program must not discard a  *)
(* batch while another is in flight: the cached set then is of the other   *)
(* bank.                                                                   *)
THEOREM SetsHold ==
  ASSUME ~AsyncFlush \/ ~MayDiscard
  PROVE  Spec => []DescriptorsHold
  <1>1. Written(ctx) => DescriptorsHold
    BY DEF Written, Fits, DescriptorsHold
  <1> QED
    BY <1>1, SetsWritten, PTL

-----------------------------------------------------------------------------
(* What readbacks see.  Executing commands depends only on the cells they  *)
(* read and on the sets their dispatches use: memories and contexts that   *)
(* agree on those end in agreement.                                        *)

Agree(m, mm, T) == \A o \in T : m[o] = mm[o]

(* A command that writes what the program addressed, and reads from T. *)
Fitting(c, cmd) == IsDispatch(cmd) => c.bindings[cmd.set] = cmd.to
Reading(cmd, T) == ~IsDispatch(cmd) => cmd.from \in T

(* Two memories alike on T, the first with the staging areas of m. *)
Matched(x, y, m, T) ==
  /\ x \in Cells /\ y \in Cells /\ Agree(x, y, T)
  /\ \A o \in Stages : x[o] = m[o]

(* What a command leaves of a memory. *)
Did(x, m, cmd) ==
  /\ x[cmd.to] = IF IsDispatch(cmd) THEN cmd.value ELSE m[cmd.from]
  /\ \A o \in Pairs : o # cmd.to => x[o] = m[o]

LEMMA ExecutedAgrees ==
  ASSUME NEW c, NEW d, NEW m \in Cells, NEW mm \in Cells, NEW cmd \in Commands,
         Fitting(c, cmd), Fitting(d, cmd), NEW T \in SUBSET (Pairs \cup Stages),
         Reading(cmd, T), Agree(m, mm, T)
  PROVE  /\ Matched(Executed(c, m, cmd), Executed(d, mm, cmd), m, T)
         /\ Did(Executed(c, m, cmd), m, cmd)
  <1>1. cmd.to \in Pairs /\ cmd.to # NoPair /\ cmd.to \notin Stages
    BY CommandKinds, ObjectAssumption
  <1>2. CASE IsDispatch(cmd)
    <2>1. cmd.value \in Contents
      BY <1>2, CommandKinds DEF Contents
    <2>2. /\ Executed(c, m, cmd) = [m EXCEPT ![cmd.to] = cmd.value]
          /\ Executed(d, mm, cmd) = [mm EXCEPT ![cmd.to] = cmd.value]
      BY <1>1, <1>2 DEF Executed, Fitting
    <2> QED
      BY <1>1, <1>2, <2>1, <2>2 DEF Cells, Agree, Matched, Did
  <1>3. CASE ~IsDispatch(cmd)
    <2>1. cmd.from \in Stages /\ m[cmd.from] = mm[cmd.from]
      BY <1>3, CommandKinds DEF Reading, Agree
    <2>2. /\ Executed(c, m, cmd) = [m EXCEPT ![cmd.to] = m[cmd.from]]
          /\ Executed(d, mm, cmd) = [mm EXCEPT ![cmd.to] = mm[cmd.from]]
      BY <1>3 DEF Executed
    <2> QED
      BY <1>1, <1>3, <2>1, <2>2 DEF Cells, Agree, Matched, Did
  <1> QED
    BY <1>2, <1>3

(* The commands cs and ds are alike up to the n-th, and fit c and d. *)
Alike(c, d, cs, ds, n, T) ==
  \A i \in 1 .. n : /\ cs[i] = ds[i] /\ cs[i] \in Commands
                    /\ Fitting(c, cs[i]) /\ Fitting(d, cs[i]) /\ Reading(cs[i], T)

LEMMA RunsAgree ==
  ASSUME NEW c, NEW d, NEW m \in Cells, NEW mm \in Cells,
         NEW T \in SUBSET (Pairs \cup Stages), Agree(m, mm, T),
         NEW cs, NEW ds, NEW n \in Nat, NEW k \in Nat, NEW l \in Nat, n <= k, n <= l,
         Alike(c, d, cs, ds, n, T),
         NEW g, NEW h, Runs(g, c, m, cs, k), Runs(h, d, mm, ds, l)
  PROVE  \A i \in 0 .. n : Matched(g[i], h[i], m, T)
  <1> DEFINE I == {i \in Nat : i <= n => Matched(g[i], h[i], m, T)}
  <1>1. 0 \in I
    <2>1. g[0] = m /\ h[0] = mm
      BY DEF Runs
    <2> QED
      BY <2>1 DEF Matched
  <1>2. ASSUME NEW i \in I PROVE i + 1 \in I
    <2>1. i \in Nat /\ i + 1 \in Nat /\ (i <= n => Matched(g[i], h[i], m, T))
      OBVIOUS
    <2> SUFFICES ASSUME i + 1 <= n PROVE Matched(g[i+1], h[i+1], m, T)
      BY <2>1
    <2>2. /\ i <= n /\ i + 1 \in 1 .. n /\ i + 1 \in 0 .. k /\ i + 1 \in 0 .. l
          /\ i + 1 # 0 /\ (i + 1) - 1 = i
      BY <2>1
    <2>3. g[i+1] = Executed(c, g[i], cs[i+1]) /\ h[i+1] = Executed(d, h[i], ds[i+1])
      BY <2>2 DEF Runs
    <2> DEFINE x == g[i]
               y == h[i]
               cmd == cs[i+1]
    <2>4. Matched(x, y, m, T)
      BY <2>1, <2>2
    <2>5. /\ cmd = ds[i+1] /\ cmd \in Commands
          /\ Fitting(c, cmd) /\ Fitting(d, cmd) /\ Reading(cmd, T)
      BY <2>2 DEF Alike
    <2>6. g[i+1] = Executed(c, x, cmd) /\ h[i+1] = Executed(d, y, cmd)
      BY <2>3, <2>5
    <2> HIDE DEF cmd, x, y, I
    <2>7. x \in Cells /\ y \in Cells /\ Agree(x, y, T)
      BY <2>4 DEF Matched
    <2>8. Matched(Executed(c, x, cmd), Executed(d, y, cmd), x, T)
      BY <2>5, <2>7, ExecutedAgrees
    <2> QED
      BY <2>4, <2>6, <2>8 DEF Matched
  <1> HIDE DEF I
  <1>3. I = Nat
    <2>1. I \subseteq Nat
      BY DEF I
    <2> QED
      BY <1>1, <1>2, <2>1, SetInduction
  <1> QED
    BY <1>3 DEF I

(* All commands of a sequence fit a context and read from T. *)
AllFit(c, cmds, T) == \A i \in DOMAIN cmds : Fitting(c, cmds[i]) /\ Reading(cmds[i], T)

LEMMA RunAllAgrees ==
  ASSUME NEW c, NEW d, NEW m \in Cells, NEW mm \in Cells,
         NEW T \in SUBSET (Pairs \cup Stages), Agree(m, mm, T),
         NEW cmds \in Seq(Commands), AllFit(c, cmds, T), AllFit(d, cmds, T)
  PROVE  Matched(RunAll(c, m, cmds), RunAll(d, mm, cmds), m, T)
  <1> DEFINE n == Len(cmds)
  <1>1. n \in Nat /\ n <= n /\ n \in 0 .. n /\ DOMAIN cmds = 1 .. n
        /\ \A i \in 1 .. n : cmds[i] \in Commands
    OBVIOUS
  <1>2. Alike(c, d, cmds, cmds, n, T)
    BY <1>1 DEF Alike, AllFit
  <1>3. PICK g : Runs(g, c, m, cmds, n) /\ RunAll(c, m, cmds) = g[n]
    BY <1>1, RunAllRuns
  <1>4. PICK h : Runs(h, d, mm, cmds, n) /\ RunAll(d, mm, cmds) = h[n]
    BY <1>1, RunAllRuns
  <1> HIDE DEF n
  <1>5. Matched(g[n], h[n], m, T)
    BY <1>1, <1>2, <1>3, <1>4, RunsAgree
  <1> QED
    BY <1>3, <1>4, <1>5

LEMMA RunAllSame ==
  ASSUME NEW c, NEW d, NEW m \in Cells, NEW cmds \in Seq(Commands),
         AllFit(c, cmds, Pairs \cup Stages), AllFit(d, cmds, Pairs \cup Stages)
  PROVE  RunAll(c, m, cmds) = RunAll(d, m, cmds)
  <1>1. Agree(m, m, Pairs \cup Stages)
    BY DEF Agree
  <1>2. Matched(RunAll(c, m, cmds), RunAll(d, m, cmds), m, Pairs \cup Stages)
    BY <1>1, RunAllAgrees
  <1> QED
    BY <1>2 DEF Matched, Cells, Agree

LEMMA RunAllEmpty ==
  ASSUME NEW c, NEW m
  PROVE  RunAll(c, m, << >>) = m
  <1>1. Len(<< >>) = 0
    OBVIOUS
  <1>2. PICK g : Runs(g, c, m, << >>, 0) /\ RunAll(c, m, << >>) = g[0]
    BY <1>1, RunAllRuns
  <1> QED
    BY <1>2 DEF Runs

LEMMA RunAllAppend ==
  ASSUME NEW c, NEW m \in Cells, NEW cmds \in Seq(Commands), NEW cmd \in Commands,
         AllFit(c, cmds, Pairs \cup Stages)
  PROVE  RunAll(c, m, Append(cmds, cmd)) = Executed(c, RunAll(c, m, cmds), cmd)
  <1> DEFINE n == Len(cmds)
             a == Append(cmds, cmd)
             T == Pairs \cup Stages
  <1>1. /\ n \in Nat /\ n <= n /\ n <= n + 1 /\ n \in 0 .. n /\ n + 1 \in Nat
        /\ n + 1 \in 0 .. n + 1 /\ n + 1 # 0 /\ (n + 1) - 1 = n
        /\ DOMAIN cmds = 1 .. n /\ Len(a) = n + 1 /\ a[n+1] = cmd
        /\ \A i \in 1 .. n : cmds[i] \in Commands /\ a[i] = cmds[i]
    OBVIOUS
  <1>2. PICK g : Runs(g, c, m, cmds, n) /\ RunAll(c, m, cmds) = g[n]
    BY <1>1, RunAllRuns
  <1>3. PICK h : Runs(h, c, m, a, n + 1) /\ RunAll(c, m, a) = h[n+1]
    BY <1>1, RunAllRuns
  <1>4. Alike(c, c, cmds, a, n, T) /\ Agree(m, m, T)
    BY <1>1 DEF Alike, AllFit, Agree
  <1>8. T \in SUBSET (Pairs \cup Stages)
    OBVIOUS
  <1> HIDE DEF n, a, T
  <1>5. Matched(g[n], h[n], m, T)
    BY <1>1, <1>2, <1>3, <1>4, <1>8, RunsAgree
  <1>6. g[n] = h[n]
    BY <1>5 DEF Matched, Cells, Agree, T
  <1>7. h[n+1] = Executed(c, h[n], cmd)
    BY <1>1, <1>3 DEF Runs
  <1> QED
    BY <1>2, <1>3, <1>6, <1>7 DEF a

-----------------------------------------------------------------------------
(* The memory once everything accepted has executed.                       *)

Flown(c) == IF c.flying /\ ~c.ran THEN RunAll(c, c.mem, c.flight.cmds) ELSE c.mem
Settle(c) == RunAll(c, Flown(c), c.rec.cmds)

(* Nothing has executed of a batch there is not. *)
Rested(c) == ~c.flying => ~c.ran

(* The staging areas a batch copies from are in T. *)
Within(b, T) == Uses(b.cmds) \cap Stages \subseteq T

LEMMA FitsAll ==
  ASSUME NEW c, NEW b \in Batches, Fits(c, b), NEW T, Within(b, T)
  PROVE  AllFit(c, b.cmds, T)
  <1> SUFFICES ASSUME NEW i \in DOMAIN b.cmds
               PROVE  Fitting(c, b.cmds[i]) /\ Reading(b.cmds[i], T)
    BY DEF AllFit
  <1>1. b.cmds[i] \in Commands
    BY BatchParts
  <1>2. Fitting(c, b.cmds[i])
    BY DEF Fits, Fitting
  <1>3. Reading(b.cmds[i], T)
    <2> SUFFICES ASSUME ~IsDispatch(b.cmds[i]) PROVE b.cmds[i].from \in T
      BY DEF Reading
    <2>1. b.cmds[i].from \in Stages
      BY <1>1, CommandKinds
    <2>2. b.cmds[i].from \in Uses(b.cmds)
      BY DEF Uses
    <2> QED
      BY <2>1, <2>2 DEF Within
  <1> QED
    BY <1>2, <1>3

LEMMA RanFlown ==
  ASSUME NEW c \in Context
  PROVE  Ran(c).mem = Flown(c) /\ Ran(c).answer = c.answer
  <1>1. CASE c.flying /\ ~c.ran
    BY <1>1 DEF Ran, Flown, Context
  <1>2. CASE ~(c.flying /\ ~c.ran)
    BY <1>2 DEF Ran, Flown
  <1> QED
    BY <1>1, <1>2

(* The commands of two contexts are the same, and write what they address. *)
SameWork(c, d) ==
  /\ d.flying = c.flying /\ d.ran = c.ran
  /\ d.flight.cmds = c.flight.cmds /\ d.rec.cmds = c.rec.cmds
  /\ Fits(c, c.rec) /\ Fits(c, c.flight) /\ Fits(d, d.rec) /\ Fits(d, d.flight)

LEMMA SettleAgrees ==
  ASSUME NEW c \in Context, NEW d \in Context, SameWork(c, d),
         NEW T \in SUBSET (Pairs \cup Stages), Agree(c.mem, d.mem, T),
         Within(c.rec, T), Within(c.flight, T)
  PROVE  Matched(Settle(c), Settle(d), c.mem, T)
  <1>1. /\ c.rec \in Batches /\ c.flight \in Batches /\ c.mem \in Cells
        /\ d.rec \in Batches /\ d.flight \in Batches /\ d.mem \in Cells
    BY ContextParts
  <1>2. c.rec.cmds \in Seq(Commands) /\ c.flight.cmds \in Seq(Commands)
    BY <1>1, BatchParts
  <1>3. AllFit(c, c.rec.cmds, T) /\ AllFit(c, c.flight.cmds, T)
    BY <1>1, FitsAll DEF SameWork
  <1>4. Within(d.rec, T) /\ Within(d.flight, T)
    BY DEF SameWork, Within
  <1>5. AllFit(d, c.rec.cmds, T) /\ AllFit(d, c.flight.cmds, T)
    <2>1. AllFit(d, d.rec.cmds, T) /\ AllFit(d, d.flight.cmds, T)
      BY <1>1, <1>4, FitsAll DEF SameWork
    <2> QED
      BY <2>1 DEF SameWork
  <1>6. Matched(Flown(c), Flown(d), c.mem, T)
    <2>1. CASE c.flying /\ ~c.ran
      <3>1. Matched(RunAll(c, c.mem, c.flight.cmds), RunAll(d, d.mem, c.flight.cmds), c.mem, T)
        BY <1>1, <1>2, <1>3, <1>5, RunAllAgrees
      <3> QED
        BY <2>1, <3>1 DEF Flown, SameWork
    <2>2. CASE ~(c.flying /\ ~c.ran)
      BY <1>1, <2>2 DEF Flown, SameWork, Matched
    <2> QED
      BY <2>1, <2>2
  <1> DEFINE x == Flown(c)
             y == Flown(d)
  <1>7. x \in Cells /\ y \in Cells /\ Agree(x, y, T)
    BY <1>6 DEF Matched
  <1> HIDE DEF x, y
  <1>8. Matched(RunAll(c, x, c.rec.cmds), RunAll(d, y, c.rec.cmds), x, T)
    BY <1>2, <1>3, <1>5, <1>7, RunAllAgrees
  <1>9. Matched(RunAll(c, x, c.rec.cmds), RunAll(d, y, c.rec.cmds), c.mem, T)
    BY <1>6, <1>8 DEF Matched, x
  <1> QED
    BY <1>9 DEF Settle, SameWork, x, y

LEMMA AnyWithin ==
  ASSUME NEW b
  PROVE  Within(b, Pairs \cup Stages)
  BY DEF Within

LEMMA SettleType ==
  ASSUME NEW c \in Context, Written(c)
  PROVE  Settle(c) \in Cells /\ \A o \in Stages : Settle(c)[o] = c.mem[o]
  <1>1. SameWork(c, c) /\ Agree(c.mem, c.mem, Pairs \cup Stages)
    BY DEF SameWork, Written, Agree
  <1>2. Matched(Settle(c), Settle(c), c.mem, Pairs \cup Stages)
    BY <1>1, AnyWithin, SettleAgrees
  <1> QED
    BY <1>2 DEF Matched

LEMMA SettleSame ==
  ASSUME NEW c \in Context, NEW d \in Context, SameWork(c, d), d.mem = c.mem
  PROVE  Settle(d) = Settle(c)
  <1>1. Agree(c.mem, d.mem, Pairs \cup Stages)
    BY DEF Agree
  <1>2. Matched(Settle(c), Settle(d), c.mem, Pairs \cup Stages)
    BY <1>1, AnyWithin, SettleAgrees
  <1> QED
    BY <1>2 DEF Matched, Cells, Agree

LEMMA SettleIdle ==
  ASSUME NEW c, c.rec = NoBatch, ~c.flying
  PROVE  Settle(c) = c.mem
  BY RunAllEmpty, EmptyFits DEF Settle, Flown

LEMMA SettleFlown ==
  ASSUME NEW c, c.rec = NoBatch
  PROVE  Settle(c) = Flown(c)
  BY RunAllEmpty, EmptyFits DEF Settle

(* One more command. *)
LEMMA SettleRecorded ==
  ASSUME NEW c, NEW T, Sound(c, T, 0), Written(c), NEW cmd \in Commands,
         Written(Recorded(c, cmd))
  PROVE  Did(Settle(Recorded(c, cmd)), Settle(c), cmd)
  <1> DEFINE d == Recorded(c, cmd)
             q == c.rec.cmds
             m == Flown(c)
  <1>1. /\ Rest(c, d) /\ d.bindings = c.bindings /\ d.rec.cmds = Append(q, cmd)
        /\ c \in Context /\ d \in Context
    <2>1. 0 \in Nat
      OBVIOUS
    <2> QED
      BY <2>1, RecordedSound DEF Sound
  <1> HIDE DEF d
  <1>2. d.mem = c.mem /\ d.ran = c.ran
    <2> DEFINE o == Opened(c)
    <2>1. o.mem = c.mem /\ o.ran = c.ran /\ o \in Context
      <3>1. o \in Context
        <4>1. 0 \in Nat
          OBVIOUS
        <4> QED
          BY <4>1, OpenedSound DEF Sound
      <3> QED
        BY <1>1, <3>1 DEF Opened, Context
    <2>2. d = [o EXCEPT !.rec.cmds = Append(@, cmd)]
      BY DEF d, Recorded
    <2> HIDE DEF o
    <2> QED
      BY <2>1, <2>2 DEF Context
  <1>3. q \in Seq(Commands) /\ c.mem \in Cells /\ c.flight.cmds \in Seq(Commands)
        /\ c.rec \in Batches /\ c.flight \in Batches /\ c.bindings \in Sets
    BY <1>1, ContextParts, BatchParts
  <1>4. AllFit(c, q, Pairs \cup Stages) /\ AllFit(c, c.flight.cmds, Pairs \cup Stages)
    BY <1>3, AnyWithin, FitsAll DEF Written
  <1>5. m \in Cells
    BY <1>3, RunAllType DEF Flown
  <1>6. d.rec \in Batches /\ d.flight \in Batches
        /\ Fits(d, d.rec) /\ Fits(d, d.flight)
    BY <1>1, ContextParts DEF Written, d
  <1>7. AllFit(d, d.rec.cmds, Pairs \cup Stages) /\ AllFit(d, d.flight.cmds, Pairs \cup Stages)
    BY <1>6, AnyWithin, FitsAll
  <1>8. Flown(d) = m
    <2>1. RunAll(c, c.mem, c.flight.cmds) = RunAll(d, c.mem, c.flight.cmds)
      <3>1. d.flight = c.flight
        BY <1>1 DEF Rest
      <3>2. AllFit(d, c.flight.cmds, Pairs \cup Stages)
        BY <1>7, <3>1
      <3> QED
        BY <1>3, <1>4, <3>2, RunAllSame
    <2> QED
      BY <1>1, <1>2, <2>1 DEF Flown, Rest
  <1> HIDE DEF m
  <1>9. AllFit(d, q, Pairs \cup Stages) /\ Fitting(d, cmd)
    <2>1. /\ DOMAIN d.rec.cmds = 1 .. Len(q) + 1 /\ d.rec.cmds[Len(q) + 1] = cmd
          /\ DOMAIN q = 1 .. Len(q) /\ Len(q) \in Nat
          /\ \A i \in 1 .. Len(q) : d.rec.cmds[i] = q[i]
      BY <1>1, <1>3
    <2>2. /\ Len(q) + 1 \in DOMAIN d.rec.cmds
          /\ \A i \in DOMAIN q : i \in DOMAIN d.rec.cmds /\ d.rec.cmds[i] = q[i]
      BY <2>1
    <2>3. Fitting(d, cmd)
      BY <1>7, <2>1, <2>2 DEF AllFit
    <2>4. AllFit(d, q, Pairs \cup Stages)
      BY <1>7, <2>2 DEF AllFit
    <2> QED
      BY <2>3, <2>4
  <1> DEFINE x == RunAll(d, m, q)
  <1>10. x = Settle(c) /\ x \in Cells
    <2>1. RunAll(c, m, q) = x
      BY <1>3, <1>4, <1>5, <1>9, RunAllSame
    <2>2. d.bindings \in Sets
      BY <1>1, <1>3
    <2> QED
      BY <1>3, <1>5, <2>1, <2>2, RunAllType DEF Settle, m
  <1>11. Settle(d) = Executed(d, x, cmd)
    <2>1. Settle(d) = RunAll(d, m, Append(q, cmd))
      BY <1>1, <1>8 DEF Settle
    <2> QED
      BY <1>3, <1>5, <1>9, <2>1, RunAllAppend
  <1> HIDE DEF x
  <1>12. Reading(cmd, Pairs \cup Stages)
    BY CommandKinds DEF Reading
  <1>13. Agree(x, x, Pairs \cup Stages)
    BY DEF Agree
  <1>14. Did(Executed(d, x, cmd), x, cmd)
    BY <1>9, <1>10, <1>12, <1>13, ExecutedAgrees
  <1> QED
    BY <1>10, <1>11, <1>14 DEF d

(* What disposing of objects leaves as it was. *)
Keeps(c, d) ==
  d.mem = c.mem /\ d.ran = c.ran /\ d.answer = c.answer /\ d.wrote = c.wrote

LEMMA DisposalKeeps ==
  ASSUME NEW c \in Context, NEW S, NEW b
  PROVE  /\ Keeps(c, Recycled(c, S)) /\ Keeps(c, Scrapped(c, S)) /\ Keeps(c, Leaked(c, S))
         /\ Keeps(c, ReleasedOrLeaked(c, S))
         /\ Keeps(c, SubmissionReleased(c)) /\ Keeps(c, Poisoned(c, b))
  <1>1. Keeps(c, Recycled(c, S))
    BY DEF Recycled, Context, Keeps
  <1>2. Keeps(c, Scrapped(c, S))
    BY DEF Scrapped, Recycled, Context, Keeps
  <1>3. Keeps(c, Leaked(c, S))
    BY DEF Leaked, Context, Keeps
  <1>4. Keeps(c, SubmissionReleased(c))
    BY DEF SubmissionReleased, Context, Keeps
  <1>5. Keeps(c, Poisoned(c, b))
    BY DEF Poisoned, Context, Keeps
  <1> QED
    BY <1>1, <1>2, <1>3, <1>4, <1>5 DEF ReleasedOrLeaked

LEMMA KeepsOn ==
  ASSUME NEW c, NEW d, NEW e, Keeps(c, d), Keeps(d, e)
  PROVE  Keeps(c, e)
  BY DEF Keeps

LEMMA FinishedKeeps ==
  ASSUME NEW c, NEW b \in Batches, NEW T, NEW n \in Nat,
         Sound(c, b.retired \cup T, n + 1), b.retired \cap T = {},
         NEW wait \in WaitResults
  PROVE  Keeps(c, Finished(c, b, wait))
  <1>0. n + 1 \in Nat /\ c \in Context
    BY DEF Sound
  <1>1. CASE wait = "ok"
    <2> DEFINE r == Recycled(c, b.retired)
    <2>1. r \in Context /\ Keeps(c, r)
      BY <1>0, RecycledSound, DisposalKeeps DEF Sound
    <2>2. Finished(c, b, wait) = SubmissionReleased(r)
      BY <1>1 DEF Finished
    <2> HIDE DEF r
    <2> QED
      BY <2>1, <2>2, DisposalKeeps, KeepsOn
  <1>2. CASE wait = "idle"
    <2> DEFINE r == ReleasedOrLeaked(c, b.retired)
    <2>1. r \in Context /\ Keeps(c, r)
      BY <1>0, ReleasedOrLeakedSound, DisposalKeeps DEF Sound
    <2>2. Finished(c, b, wait) = SubmissionReleased(r)
      BY <1>2 DEF Finished
    <2> HIDE DEF r
    <2> QED
      BY <2>1, <2>2, DisposalKeeps, KeepsOn
  <1>3. CASE wait = "lost"
    <2> DEFINE p == Poisoned(c, TRUE)
               r == ReleasedOrLeaked(p, b.retired)
    <2>1. Sound(p, b.retired \cup T, n + 1) /\ p \in Context /\ Keeps(c, p)
      BY <1>0, PoisonedSound, DisposalKeeps DEF Sound
    <2>2. Finished(c, b, wait) = SubmissionReleased(r)
      BY <1>3 DEF Finished
    <2> HIDE DEF p
    <2>3. r \in Context /\ Keeps(p, r)
      BY <1>0, <2>1, ReleasedOrLeakedSound, DisposalKeeps DEF Sound
    <2> HIDE DEF r
    <2> QED
      BY <2>1, <2>2, <2>3, DisposalKeeps, KeepsOn
  <1>4. CASE wait = "unknown"
    <2> DEFINE a == c.adrift \cup Uses(b.cmds)
               l == c.leaked + 2
               e == [c EXCEPT !.leaked = l, !.adrift = a]
               no == FALSE
               p == Poisoned(e, no)
    <2>1. a \in SUBSET Objects /\ l \in Nat
      BY <1>0, ContextParts, BatchParts
    <2>2. Finished(c, b, wait) = ReleasedOrLeaked(p, b.retired)
      BY <1>4 DEF Finished
    <2> HIDE DEF a, l
    <2>3. e \in Context /\ Keeps(c, e)
      BY <1>0, <2>1 DEF Context, Keeps
    <2> HIDE DEF e
    <2>4. p \in Context /\ Keeps(e, p)
      <3> DEFINE yes == TRUE
                 z == e.lost \/ no
      <3>1. p = [e EXCEPT !.poisoned = yes, !.lost = z]
        BY DEF Poisoned
      <3>2. yes \in BOOLEAN /\ z \in BOOLEAN
        BY <2>3, ContextParts
      <3> HIDE DEF yes, z
      <3>3. p \in Context
        BY <2>3, <3>1, <3>2, ZenonT(60) DEF Context
      <3>4. Keeps(e, p)
        BY <2>3, DisposalKeeps
      <3> QED
        BY <3>3, <3>4
    <2> HIDE DEF p
    <2> QED
      BY <2>2, <2>3, <2>4, DisposalKeeps, KeepsOn
  <1> QED
    BY <1>1, <1>2, <1>3, <1>4 DEF WaitResults

(* What seeing a batch through does to the memory. *)
LEMMA ReapedKeeps ==
  ASSUME NEW c, NEW T, NEW n \in Nat, Sound(c, T, n), NEW wait \in WaitResults, Rested(c)
  PROVE  LET d == Reaped(c, wait)
         IN  d.mem = Flown(c) /\ ~d.ran /\ d.answer = c.answer /\ d.wrote = c.wrote
  <1>1. CASE ~c.flying
    BY <1>1 DEF Reaped, Flown, Rested
  <1>2. CASE c.flying
    <2> DEFINE o == Ran(c)
               e == [o EXCEPT !.flying = FALSE, !.flight = NoBatch, !.ran = FALSE]
               b == c.flight
    <2>1. c \in Context /\ b \in Batches
      BY ContextParts DEF Sound
    <2>2. Sound(o, T, n) /\ Carried(c, o)
      BY RanSound
    <2>3. o.mem = Flown(c) /\ o.answer = c.answer
      BY <2>1, RanFlown
    <2>4. Reaped(c, wait) = Finished(e, b, wait)
      BY <1>2 DEF Reaped
    <2> HIDE DEF o
    <2>5. o \in Context /\ o.flying /\ o.flight = b /\ o.wrote = c.wrote
      BY <1>2, <2>2 DEF Carried, Passed, Sound
    <2>6. Sound(e, b.retired \cup T, n + 1) /\ b.retired \cap T = {}
      BY <2>2, <2>5, BatchLanded
    <2>7. e.mem = o.mem /\ ~e.ran /\ e.answer = o.answer /\ e.wrote = o.wrote
      BY <2>5 DEF Context
    <2> HIDE DEF e
    <2>8. Keeps(e, Finished(e, b, wait))
      BY <2>1, <2>6, FinishedKeeps
    <2> QED
      BY <2>3, <2>4, <2>5, <2>7, <2>8 DEF Keeps
  <1> QED
    BY <1>1, <1>2

LEMMA LostKeeps ==
  ASSUME NEW c, NEW b \in Batches, NEW T, NEW n \in Nat,
         Sound(c, b.retired \cup T, n + 1), b.retired \cap T = {}, NEW submit
  PROVE  Keeps(c, Lost(c, b, submit))
  <1> DEFINE r == ReleasedOrLeaked(c, b.retired)
             s == SubmissionReleased(r)
  <1>1. c \in Context /\ n + 1 \in Nat
    BY DEF Sound
  <1>2. Sound(r, T, n + 1) /\ r \in Context /\ Keeps(c, r)
    BY <1>1, ReleasedOrLeakedSound, DisposalKeeps DEF Sound
  <1> HIDE DEF r
  <1>3. s \in Context /\ Keeps(r, s)
    BY <1>2, DisposalKeeps, SubmissionReleasedSound DEF Sound
  <1> HIDE DEF s
  <1>4. Lost(c, b, submit) = Poisoned(s, submit = "lost")
    BY DEF Lost, s, r
  <1> QED
    BY <1>2, <1>3, <1>4, DisposalKeeps, KeepsOn

LEMMA LeakedBehindKeeps ==
  ASSUME NEW c \in Context, NEW b \in Batches, NEW reap \in {"idle", "lost", "unknown"}
  PROVE  LET d == LeakedBehind(c, b, reap)
         IN  /\ d.ran = c.ran /\ d.answer = c.answer /\ d.wrote = c.wrote
             /\ d.mem = IF reap = "idle" THEN RunAll(c, c.mem, b.cmds) ELSE c.mem
  <1> DEFINE e == [c EXCEPT !.leaked = @ + 2]
             w == e.leaked + Weight(b.retired)
             l == [e EXCEPT !.leaked = w]
  <1>1. e \in Context /\ Keeps(c, e)
    <2> DEFINE x == c.leaked + 2
    <2>1. x \in Nat /\ e = [c EXCEPT !.leaked = x]
      BY ContextParts
    <2> HIDE DEF x
    <2> QED
      BY <2>1 DEF Context, Keeps
  <1>2. Leaked(e, b.retired) = l
    BY DEF Leaked
  <1> HIDE DEF e
  <1>3. w \in Nat
    BY <1>1, ContextParts, BatchParts, WeightFacts
  <1> HIDE DEF w
  <1>4. l \in Context /\ Keeps(c, l)
    BY <1>1, <1>3 DEF Context, Keeps
  <1>5. LeakedBehind(c, b, reap) =
          CASE reap = "idle"    -> [l EXCEPT !.mem = RunAll(c, @, b.cmds)]
            [] reap = "lost"    -> l
            [] reap = "unknown" -> [l EXCEPT !.adrift = @ \cup Uses(b.cmds)]
    BY <1>2 DEF LeakedBehind, e
  <1> HIDE DEF l
  <1>6. CASE reap = "idle"
    BY <1>4, <1>5, <1>6 DEF Context, Keeps
  <1>7. CASE reap = "lost"
    BY <1>4, <1>5, <1>7 DEF Keeps
  <1>8. CASE reap = "unknown"
    BY <1>4, <1>5, <1>8 DEF Context, Keeps
  <1> QED
    BY <1>6, <1>7, <1>8

LEMMA BindingsRun ==
  ASSUME NEW c, c.bindings \in Sets, NEW d, d.bindings = c.bindings, NEW b \in Batches,
         Fits(c, b), NEW m \in Cells
  PROVE  RunAll(d, m, b.cmds) = RunAll(c, m, b.cmds) /\ RunAll(c, m, b.cmds) \in Cells
  <1>1. b.cmds \in Seq(Commands) /\ Fits(d, b)
    BY BatchParts DEF Fits
  <1>2. AllFit(c, b.cmds, Pairs \cup Stages) /\ AllFit(d, b.cmds, Pairs \cup Stages)
    BY <1>1, AnyWithin, FitsAll
  <1> QED
    BY <1>1, <1>2, RunAllSame, RunAllType

LEMMA FlownSame ==
  ASSUME NEW c \in Context, Fits(c, c.flight), NEW d, d.bindings = c.bindings,
         d.flying = c.flying, d.ran = c.ran, d.mem = c.mem, d.flight = c.flight
  PROVE  Flown(d) = Flown(c) /\ Flown(c) \in Cells
  <1>1. RunAll(d, c.mem, c.flight.cmds) = RunAll(c, c.mem, c.flight.cmds)
        /\ RunAll(c, c.mem, c.flight.cmds) \in Cells /\ c.mem \in Cells
    BY ContextParts, BindingsRun
  <1> QED
    BY <1>1 DEF Flown

(* What a flush leaves of what the program will read. *)
Settles(c, d) ==
  /\ Rested(d) /\ d.answer = c.answer /\ d.wrote = c.wrote
  /\ d.poisoned \/ Settle(d) = Settle(c)

LEMMA FlushedSettles ==
  ASSUME NEW c, Sound(c, {}, 0), Written(c), Rested(c), NEW completing \in BOOLEAN,
         NEW f \in Outcomes
  PROVE  Settles(c, Flushed(c, completing, f))
  <1> DEFINE b == c.rec
             g0 == [c EXCEPT !.open = FALSE, !.rec = NoBatch]
             g == NextGeneration(g0)
             r == Reaped(g, f.reap)
             d == Flushed(c, completing, f)
             x == Flown(c)
  <1>1. c \in Context /\ b \in Batches /\ Fits(c, b) /\ Fits(c, c.flight)
        /\ c.bindings \in Sets
    BY ContextParts DEF Sound, Written
  <1>2. /\ g0.open = FALSE /\ g0.rec = NoBatch /\ g0.flying = c.flying
        /\ g0.flight = c.flight /\ g0.bindings = c.bindings
        /\ g0.wrote = c.wrote /\ g0.poisoned = c.poisoned
        /\ g0.mem = c.mem /\ g0.ran = c.ran /\ g0.answer = c.answer
    BY <1>1 DEF Context
  <1>3. 0 \in Nat /\ 1 \in Nat /\ 0 + 1 = 1
    OBVIOUS
  <1>4. f.reap \in WaitResults /\ f.wait \in WaitResults
        /\ (f.reap # "ok" => f.reap \in {"idle", "lost", "unknown"})
    BY OutcomeParts
  <1>5. d.bindings = c.bindings /\ d.rec = NoBatch /\ (completing /\ ~d.poisoned => ~d.flying)
        /\ d.wrote = c.wrote /\ d \in Context
    <2>1. Sound(d, {}, 0) /\ FlushLeaves(c, d, completing)
      BY FlushedSound
    <2> HIDE DEF d
    <2> QED
      BY <2>1 DEF FlushLeaves, Sound
  <1>6. Settle(c) = RunAll(c, x, b.cmds) /\ x \in Cells
    BY <1>1, FlownSame DEF Settle
  <1>7. ASSUME NEW T, NEW n \in Nat, Sound(g0, T, n)
        PROVE  /\ Sound(g, T, n) /\ g.flying = c.flying /\ g.flight = c.flight
               /\ g.bindings = c.bindings /\ g.answer = c.answer /\ g.wrote = c.wrote
               /\ g.ran = c.ran /\ g.rec = NoBatch /\ g.poisoned = c.poisoned
               /\ Flown(g) = x /\ Rested(g)
               /\ Sound(r, T, n) /\ ~r.flying /\ r.bindings = c.bindings
               /\ g.flying /\ f.reap = "lost" => r.poisoned
               /\ g.flying /\ f.reap = "unknown" => r.poisoned
               /\ r.mem = x /\ ~r.ran /\ r.answer = c.answer /\ r.wrote = c.wrote
               /\ r \in Context
    <2>1. g0 \in Context
      BY <1>7 DEF Sound
    <2>2. Sound(g, T, n) /\ g.flying = g0.flying /\ g.flight = g0.flight
          /\ g.bindings = g0.bindings /\ g.wrote = g0.wrote /\ g.rec = g0.rec
          /\ g.poisoned = g0.poisoned
      BY <1>7, NextGenerationSound
    <2>3. g.mem = g0.mem /\ g.ran = g0.ran /\ g.answer = g0.answer
      <3> HIDE DEF g0
      <3> QED
        BY <2>1 DEF NextGeneration, Context
    <2> HIDE DEF g0, g
    <2>4. Flown(g) = x /\ Rested(g)
      BY <1>1, <1>2, <2>2, <2>3, FlownSame DEF Rested
    <2>5. /\ Sound(r, T, n) /\ Passed(g, r) /\ ~r.flying
          /\ g.flying /\ f.reap = "lost" => r.poisoned
          /\ g.flying /\ f.reap = "unknown" => r.poisoned
      BY <1>4, <2>2, ReapedSound
    <2>6. r.mem = x /\ ~r.ran /\ r.answer = g.answer /\ r.wrote = g.wrote
      BY <1>4, <2>2, <2>4, ReapedKeeps
    <2> HIDE DEF r, x
    <2>7. r \in Context
      BY <2>5 DEF Sound
    <2> QED
      BY <1>2, <2>2, <2>3, <2>4, <2>5, <2>6, <2>7 DEF Passed
  <1>8. CASE ~c.open
    <2>1. g0 = c /\ b = NoBatch
      <3>1. c.open = FALSE /\ c.rec = NoBatch
        BY <1>1, <1>8 DEF Sound, Emptied, Context
      <3> QED
        BY <1>1, <3>1 DEF Context
    <2>2. Sound(g0, {}, 0)
      BY <2>1
    <2> HIDE DEF g0
    <2>3. d = IF completing THEN r ELSE g
      BY <1>8 DEF Flushed, g0
    <2>4. /\ g.answer = c.answer /\ Flown(g) = x /\ Rested(g)
          /\ ~r.flying /\ r.mem = x /\ ~r.ran /\ r.answer = c.answer
      BY <1>3, <1>7, <2>2
    <2> HIDE DEF g, r, d, x
    <2>5. Settle(c) = x
      BY <2>1, SettleFlown DEF x
    <2>6. Settle(d) = x
      <3>1. CASE completing
        BY <1>5, <2>3, <2>4, <3>1, SettleIdle
      <3>2. CASE ~completing
        BY <1>5, <2>3, <2>4, <3>2, SettleFlown
      <3> QED
        BY <3>1, <3>2
    <2> QED
      BY <1>5, <2>3, <2>4, <2>5, <2>6 DEF Settles, Rested, d
  <1>9. CASE c.open
    <2>1. Sound(g0, b.retired \cup {}, 1) /\ b.retired \cap {} = {}
      <3>1. Sound(g0, b.retired \cup {}, 0 + 1)
        BY <1>3, <1>9, BatchClosed
      <3> QED
        BY <1>3, <3>1
    <2> HIDE DEF g0
    <2>2. /\ Sound(g, b.retired \cup {}, 1) /\ g.flying = c.flying /\ g.ran = c.ran
          /\ g.answer = c.answer /\ Rested(g)
          /\ Sound(r, b.retired \cup {}, 1) /\ ~r.flying /\ r.bindings = c.bindings
          /\ g.flying /\ f.reap = "lost" => r.poisoned
          /\ g.flying /\ f.reap = "unknown" => r.poisoned
          /\ r.mem = x /\ ~r.ran /\ r.answer = c.answer /\ r \in Context
      BY <1>3, <1>7, <2>1
    <2> HIDE DEF g
    <2>3. RunAll(r, x, b.cmds) = Settle(c) /\ RunAll(d, x, b.cmds) = Settle(c)
          /\ RunAll(r, x, b.cmds) \in Cells
      <3> HIDE DEF r, d, b, x
      <3> QED
        BY <1>1, <1>5, <1>6, <2>2, BindingsRun
    <2> HIDE DEF r, x
    <2>4. CASE f.submit # "ok"
      <3>1. d = Lost(g, b, f.submit)
        BY <1>9, <2>4 DEF Flushed, g, g0
      <3> HIDE DEF d, b
      <3>2. Carried(g, d) /\ d.poisoned /\ Keeps(g, d)
        BY <1>1, <1>3, <2>1, <2>2, <3>1, LostSound, LostKeeps
      <3> QED
        BY <1>5, <2>2, <3>2 DEF Settles, Rested, Carried, Keeps, d
    <2>5. CASE f.submit = "ok" /\ c.flying /\ f.reap # "ok"
      <3>1. d = LeakedBehind(r, b, f.reap)
        BY <1>9, <2>5 DEF Flushed, r, g, g0
      <3> HIDE DEF d, b
      <3>2. f.reap \in {"idle", "lost", "unknown"} /\ (f.reap # "idle" => r.poisoned)
        BY <1>4, <2>2, <2>5
      <3>3. /\ d.ran = r.ran /\ d.answer = r.answer
            /\ d.mem = IF f.reap = "idle" THEN RunAll(r, r.mem, b.cmds) ELSE r.mem
            /\ d.poisoned = r.poisoned /\ d.flying = r.flying
        BY <1>1, <2>2, <3>1, <3>2, LeakedBehindKeeps, LeakedBehindLeaves
      <3>4. d.poisoned \/ Settle(d) = Settle(c)
        <4>1. CASE f.reap = "idle"
          <5>1. d.mem = Settle(c) /\ ~d.flying
            BY <2>2, <2>3, <3>3, <4>1
          <5> QED
            BY <1>5, <5>1, SettleIdle
        <4>2. CASE f.reap # "idle"
          BY <3>2, <3>3, <4>2
        <4> QED
          BY <4>1, <4>2
      <3> QED
        BY <1>5, <2>2, <3>3, <3>4 DEF Settles, Rested, d
    <2>6. CASE f.submit = "ok" /\ ~(c.flying /\ f.reap # "ok") /\ completing
      <3> DEFINE m == RunAll(r, r.mem, b.cmds)
                 e == [r EXCEPT !.mem = m, !.ran = r.ran]
      <3>1. d = Finished([r EXCEPT !.mem = m], b, f.wait)
        BY <1>9, <2>6 DEF Flushed, r, g, g0
      <3>2. m \in Cells /\ r.ran \in BOOLEAN /\ m = Settle(c)
        BY <2>2, <2>3, ContextParts
      <3> HIDE DEF m, b
      <3>3. [r EXCEPT !.mem = m] = e /\ e.mem = m /\ e.ran = r.ran /\ e.answer = r.answer
        BY <2>2 DEF Context
      <3>4. Sound(e, b.retired \cup {}, 1) /\ Carried(r, e)
        BY <1>3, <2>2, <3>2, MemorySound
      <3> HIDE DEF e, d
      <3>5. d = Finished(e, b, f.wait)
        BY <3>1, <3>3
      <3>6. Carried(e, d) /\ Keeps(e, d)
        BY <1>1, <1>3, <1>4, <2>1, <3>4, <3>5, FinishedSound, FinishedKeeps
      <3>7. d.mem = Settle(c) /\ ~d.flying /\ ~d.ran /\ d.answer = c.answer
        BY <2>2, <3>2, <3>3, <3>4, <3>6 DEF Carried, Keeps
      <3>8. Settle(d) = Settle(c)
        BY <1>5, <3>7, SettleIdle DEF d
      <3> QED
        BY <1>5, <3>7, <3>8 DEF Settles, Rested, d
    <2>7. CASE f.submit = "ok" /\ ~(c.flying /\ f.reap # "ok") /\ ~completing
      <3>1. d = [r EXCEPT !.flying = TRUE, !.flight = b]
        BY <1>9, <2>7 DEF Flushed, r, g, g0
      <3>2. /\ d.flying /\ d.flight = b /\ d.mem = x /\ ~d.ran /\ d.answer = c.answer
        BY <2>2, <3>1 DEF Context
      <3> HIDE DEF d
      <3>3. Flown(d) = Settle(c)
        BY <2>3, <3>2 DEF Flown, d
      <3>4. Settle(d) = Settle(c)
        BY <1>5, <3>3, SettleFlown DEF d
      <3> QED
        BY <1>5, <3>2, <3>4 DEF Settles, Rested, d
    <2> QED
      BY <2>4, <2>5, <2>6, <2>7
  <1> QED
    BY <1>8, <1>9

LEMMA FlushSettles ==
  ASSUME NEW c, Whole(c), Written(c), Rested(c), NEW reason, NEW f \in Outcomes
  PROVE  Settles(c, Flush(c, reason, f))
  BY CompletingType, FlushedSettles DEF Whole, Flush

-----------------------------------------------------------------------------
(* The steps of EagerContext, between what the program sees of two         *)
(* contexts.                                                               *)

Refuses(c) == c.poisoned \/ c.closed

View(c) ==
  [h \in Handles |-> IF Refuses(c) \/ c.own[h] = NoPair THEN Unheld
                     ELSE Settle(c)[c.own[h]]]

Hushed(d) == d.answer = NoAnswer /\ d.wrote = 0
Accepts(c, d) == ~Refuses(c) /\ ~Refuses(d)

Stays(c, d) ==
  View(d) = View(c) /\ Refuses(d) = Refuses(c) /\ d.answer = c.answer /\ d.wrote = c.wrote
Ignores(c, d) == View(d) = View(c) /\ Refuses(d) = Refuses(c) /\ Hushed(d)
GivesUp(d) == Refuses(d) /\ Hushed(d)
Creates(c, d, h) ==
  /\ Accepts(c, d) /\ View(c)[h] = Unheld /\ Hushed(d)
  /\ \E v \in Contents : View(d) = [View(c) EXCEPT ![h] = v]
Writes(c, d, h, v) ==
  /\ Accepts(c, d) /\ View(c)[h] # Unheld /\ d.answer = NoAnswer /\ d.wrote = h
  /\ View(d) = [View(c) EXCEPT ![h] = v]
Reads(c, d, h) ==
  /\ Accepts(c, d) /\ View(c)[h] # Unheld /\ d.answer = View(c)[h] /\ d.wrote = 0
  /\ View(d) = View(c)
Frees(c, d, h) ==
  /\ Accepts(c, d) /\ View(c)[h] # Unheld /\ Hushed(d)
  /\ View(d) = [View(c) EXCEPT ![h] = Unheld]
Discards(c, d) ==
  /\ Accepts(c, d) /\ d.answer = NoAnswer /\ d.wrote = Everything
  /\ View(d) \in [Handles -> Contents \cup {Unheld}]
  /\ \A h \in Handles : View(d)[h] = Unheld <=> View(c)[h] = Unheld

Maps(c, d) ==
  \/ Stays(c, d) \/ Ignores(c, d) \/ GivesUp(d) \/ Discards(c, d)
  \/ \E h \in Handles : Creates(c, d, h) \/ Reads(c, d, h) \/ Frees(c, d, h)
  \/ \E h \in Handles, v \in Contents : Writes(c, d, h, v)

LEMMA MapsHeld ==
  ASSUME ctx \in Context, NEW d \in Context, ctx' = d, Maps(ctx, d)
  PROVE  [Eager!Next]_(Eager!eager)
  <1>1. Settled = Settle(ctx)
    BY RanFlown DEF Settled, Settle
  <1>2. Settled' = Settle(d)
    <2>1. Ran(d).mem = Flown(d)
      BY RanFlown
    <2>2. Settled' = RunAll(d, Ran(d).mem, d.rec.cmds)
      BY DEF Settled, Ran, RunAll, Executed, IsDispatch
    <2> QED
      BY <2>1, <2>2 DEF Settle
  <1>3. Refusing = Refuses(ctx) /\ Refusing' = Refuses(d)
    BY DEF Refusing, Refuses
  <1>4. Readable = View(ctx)
    BY <1>1, <1>3 DEF View, Readable
  <1>5. Readable' = View(d)
    BY <1>2, <1>3 DEF View, Readable
  <1>6. ctx'.answer = d.answer /\ ctx'.wrote = d.wrote
    OBVIOUS
  <1>7. CASE Stays(ctx, d)
    BY <1>3, <1>4, <1>5, <1>6, <1>7 DEF Stays, Eager!eager
  <1>8. CASE Ignores(ctx, d)
    BY <1>3, <1>4, <1>5, <1>6, <1>8 DEF Ignores, Hushed, Eager!Next, Eager!Other, Eager!Silent
  <1>9. CASE GivesUp(d)
    <2>1. View(d) = [h \in Handles |-> Unheld]
      BY <1>9 DEF GivesUp, View
    <2> QED
      BY <1>3, <1>4, <1>5, <1>6, <1>9, <2>1
         DEF GivesUp, Hushed, Eager!Next, Eager!Refuse, Eager!Silent
  <1>10. Accepts(ctx, d) => ~Refusing /\ UNCHANGED Refusing
    BY DEF Accepts, Refuses, Refusing
  <1>11. CASE Discards(ctx, d)
    <2>1. Accepts(ctx, d)
      BY <1>11 DEF Discards
    <2>2. /\ ctx'.answer = NoAnswer /\ ctx'.wrote = Everything
          /\ Readable' \in [Handles -> Contents \cup {Unheld}]
          /\ \A h \in Handles : Readable'[h] = Unheld <=> Readable[h] = Unheld
      BY <1>4, <1>5, <1>6, <1>11 DEF Discards
    <2>3. Eager!Discard
      BY <1>10, <2>1, <2>2 DEF Eager!Discard
    <2> QED
      BY <2>3 DEF Eager!Next
  <1>12. ASSUME NEW h \in Handles, Creates(ctx, d, h) PROVE Eager!Next
    <2>1. Accepts(ctx, d)
      BY <1>12 DEF Creates
    <2>2. /\ ctx'.answer = NoAnswer /\ ctx'.wrote = 0
          /\ Readable[h] = Unheld
          /\ \E v \in Contents : Readable' = [Readable EXCEPT ![h] = v]
      BY <1>4, <1>5, <1>6, <1>12 DEF Creates, Hushed
    <2>3. Eager!Create(h)
      BY <1>10, <2>1, <2>2 DEF Eager!Create, Eager!Silent
    <2> QED
      BY <2>3 DEF Eager!Next
  <1>13. ASSUME NEW h \in Handles, Reads(ctx, d, h) PROVE Eager!Next
    <2>1. Accepts(ctx, d)
      BY <1>13 DEF Reads
    <2>2. /\ ctx'.answer = Readable[h] /\ ctx'.wrote = 0
          /\ Readable[h] # Unheld /\ UNCHANGED Readable
      BY <1>4, <1>5, <1>6, <1>13 DEF Reads
    <2>3. Eager!Read(h)
      BY <1>10, <2>1, <2>2 DEF Eager!Read
    <2> QED
      BY <2>3 DEF Eager!Next
  <1>14. ASSUME NEW h \in Handles, Frees(ctx, d, h) PROVE Eager!Next
    <2>1. Accepts(ctx, d)
      BY <1>14 DEF Frees
    <2>2. /\ ctx'.answer = NoAnswer /\ ctx'.wrote = 0
          /\ Readable[h] # Unheld /\ Readable' = [Readable EXCEPT ![h] = Unheld]
      BY <1>4, <1>5, <1>6, <1>14 DEF Frees, Hushed
    <2>3. Eager!Free(h)
      BY <1>10, <2>1, <2>2 DEF Eager!Free, Eager!Silent
    <2> QED
      BY <2>3 DEF Eager!Next
  <1>15. ASSUME NEW h \in Handles, NEW v \in Contents, Writes(ctx, d, h, v)
         PROVE  Eager!Next
    <2>1. Accepts(ctx, d)
      BY <1>15 DEF Writes
    <2>2. /\ ctx'.answer = NoAnswer /\ ctx'.wrote = h
          /\ Readable[h] # Unheld /\ Readable' = [Readable EXCEPT ![h] = v]
      BY <1>4, <1>5, <1>6, <1>15 DEF Writes
    <2>3. Eager!Set(h, v)
      BY <1>10, <2>1, <2>2 DEF Eager!Set
    <2> QED
      BY <2>3 DEF Eager!Next
  <1> QED
    BY <1>7, <1>8, <1>9, <1>11, <1>12, <1>13, <1>14, <1>15 DEF Maps

-----------------------------------------------------------------------------
(* What of the memory to come the program can see. *)
Seen(c, d) == \A o \in Pairs : Settle(d)[o] = Settle(c)[o]

Follows(c, d) == Maps(c, d) /\ Rested(d)

LEMMA ViewParts ==
  ASSUME NEW c \in Context, Written(c)
  PROVE  /\ View(c) \in [Handles -> Contents \cup {Unheld}]
         /\ Refuses(c) => \A h \in Handles : View(c)[h] = Unheld
         /\ ~Refuses(c) => \A h \in Handles :
              /\ View(c)[h] = Unheld <=> c.own[h] = NoPair
              /\ c.own[h] # NoPair =>
                   /\ c.own[h] \in Pairs /\ View(c)[h] = Settle(c)[c.own[h]]
                   /\ View(c)[h] \in Contents
  <1> DEFINE m == Settle(c)
  <1>1. m \in Cells /\ c.own \in [Handles -> Pairs \cup {NoPair}] /\ Unheld \notin Contents
    BY SettleType, ContextParts, ObjectAssumption
  <1> HIDE DEF m
  <1>2. View(c) = [h \in Handles |-> IF Refuses(c) \/ c.own[h] = NoPair THEN Unheld
                                     ELSE m[c.own[h]]]
    BY DEF View, m
  <1>3. \A h \in Handles : c.own[h] # NoPair => c.own[h] \in Pairs /\ m[c.own[h]] \in Contents
    BY <1>1 DEF Cells
  <1> QED
    BY <1>1, <1>2, <1>3 DEF m

LEMMA HushedFollows ==
  ASSUME NEW c \in Context, NEW d \in Context, Written(c), Written(d), Rested(d), Hushed(d),
         Refuses(d) \/ (d.own = c.own /\ Seen(c, d) /\ ~Refuses(c))
  PROVE  Follows(c, d)
  <1>1. CASE Refuses(d)
    BY <1>1 DEF Follows, Maps, GivesUp
  <1>2. CASE ~Refuses(d)
    <2>1. View(d) = View(c)
      <3>1. ASSUME NEW h \in Handles PROVE View(d)[h] = View(c)[h]
        BY <1>2, ViewParts DEF Seen
      <3> QED
        BY <3>1 DEF View
    <2>2. Refuses(d) = Refuses(c)
      BY <1>2 DEF Refuses
    <2> QED
      BY <2>1, <2>2 DEF Follows, Maps, Ignores
  <1> QED
    BY <1>1, <1>2

(* One pair was written, and the rest is as it was. *)
Put(x, m, p, v) == x[p] = v /\ \A o \in Pairs : o # p => x[o] = m[o]

LEMMA WriteFollows ==
  ASSUME NEW c \in Context, NEW d \in Context, Written(c), Written(d), Rested(d),
         Apart(c, {}), NEW h \in Handles, NEW v \in Contents, c.own[h] # NoPair,
         ~Refuses(c), d.closed = c.closed, d.own = c.own, d.answer = NoAnswer,
         d.wrote = IF d.poisoned THEN 0 ELSE h,
         d.poisoned \/ Put(Settle(d), Settle(c), c.own[h], v)
  PROVE  Follows(c, d)
  <1>1. CASE d.poisoned
    BY <1>1 DEF Follows, Maps, GivesUp, Refuses, Hushed
  <1>2. CASE ~d.poisoned
    <2>1. ~Refuses(d)
      BY <1>2 DEF Refuses
    <2>2. ASSUME NEW g \in Handles
          PROVE  View(d)[g] = IF g = h THEN v ELSE View(c)[g]
      <3>1. CASE g = h
        BY <1>2, <2>1, <3>1, ViewParts DEF Put
      <3>2. CASE g # h /\ c.own[g] = NoPair
        BY <2>1, <3>2, ViewParts
      <3>3. CASE g # h /\ c.own[g] # NoPair
        <4>1. c.own[g] # c.own[h] /\ c.own[g] \in Pairs
          BY <3>3, ViewParts DEF Apart
        <4> QED
          BY <1>2, <2>1, <3>3, <4>1, ViewParts DEF Put
      <3> QED
        BY <3>1, <3>2, <3>3
    <2>3. View(d) = [View(c) EXCEPT ![h] = v]
      <3>1. /\ View(c) \in [Handles -> Contents \cup {Unheld}]
            /\ View(d) \in [Handles -> Contents \cup {Unheld}]
        BY ViewParts
      <3> QED
        BY <2>2, <3>1
    <2>4. View(c)[h] # Unheld
      BY ViewParts
    <2>5. Writes(c, d, h, v)
      BY <1>2, <2>1, <2>3, <2>4 DEF Writes, Accepts
    <2> QED
      BY <2>5 DEF Follows, Maps
  <1> QED
    BY <1>1, <1>2

LEMMA FreeFollows ==
  ASSUME NEW c \in Context, NEW d \in Context, Written(c), Written(d), Rested(d),
         NEW h \in Handles, c.own[h] # NoPair, d.closed = c.closed,
         d.own = [c.own EXCEPT ![h] = NoPair], Hushed(d), c.poisoned => d.poisoned,
         d.poisoned \/ Seen(c, d)
  PROVE  Follows(c, d)
  <1>1. CASE Refuses(d)
    BY <1>1 DEF Follows, Maps, GivesUp
  <1>2. CASE ~Refuses(d)
    <2>1. ~Refuses(c) /\ Seen(c, d) /\ c.own \in [Handles -> Pairs \cup {NoPair}]
      BY <1>2, ContextParts DEF Refuses
    <2>2. ASSUME NEW g \in Handles
          PROVE  View(d)[g] = IF g = h THEN Unheld ELSE View(c)[g]
      BY <1>2, <2>1, ViewParts DEF Seen
    <2>3. View(d) = [View(c) EXCEPT ![h] = Unheld]
      <3>1. /\ View(c) \in [Handles -> Contents \cup {Unheld}]
            /\ View(d) \in [Handles -> Contents \cup {Unheld}]
        BY ViewParts
      <3> QED
        BY <2>2, <3>1
    <2>4. Frees(c, d, h)
      BY <1>2, <2>1, <2>3, ViewParts DEF Frees, Accepts
    <2> QED
      BY <2>4 DEF Follows, Maps
  <1> QED
    BY <1>1, <1>2

LEMMA CreateFollows ==
  ASSUME NEW c \in Context, NEW d \in Context, Written(c), Written(d), Rested(d),
         NEW h \in Handles, c.own[h] = NoPair, NEW p \in Pairs,
         \A g \in Handles : c.own[g] # p, d.own = [c.own EXCEPT ![h] = p], Hushed(d),
         ~Refuses(c), ~Refuses(d), \A o \in Pairs : o # p => Settle(d)[o] = Settle(c)[o]
  PROVE  Follows(c, d)
  <1>1. c.own \in [Handles -> Pairs \cup {NoPair}] /\ p # NoPair
    BY ContextParts, ObjectAssumption
  <1> DEFINE v == View(d)[h]
  <1>2. v \in Contents
    BY <1>1, ViewParts
  <1>3. ASSUME NEW g \in Handles, g # h PROVE View(d)[g] = View(c)[g]
    BY <1>1, <1>3, ViewParts
  <1> HIDE DEF v
  <1>4. View(d) = [View(c) EXCEPT ![h] = v]
    <2>1. /\ View(c) \in [Handles -> Contents \cup {Unheld}]
          /\ View(d) \in [Handles -> Contents \cup {Unheld}]
      BY ViewParts
    <2> QED
      BY <1>3, <2>1 DEF v
  <1>5. Creates(c, d, h)
    BY <1>2, <1>4, ViewParts DEF Creates, Accepts
  <1> QED
    BY <1>5 DEF Follows, Maps

(* What a step of a call leaves of what the program will read. *)
Bears(c, d) ==
  /\ d.own = c.own /\ d.closed = c.closed /\ (c.poisoned => d.poisoned)
  /\ Rested(c) => Rested(d)
  /\ Hushed(c) => Hushed(d)
  /\ d.poisoned \/ Seen(c, d)

LEMMA BearsOn ==
  ASSUME NEW c, NEW d, NEW e, Bears(c, d), Bears(d, e)
  PROVE  Bears(c, e)
  BY DEF Bears, Seen

LEMMA BearsFollows ==
  ASSUME NEW c \in Context, NEW d \in Context, Written(c), Written(d), Rested(c),
         Bears(c, d), Hushed(d)
  PROVE  Follows(c, d)
  <1>1. Rested(d)
    BY DEF Bears
  <1>2. Refuses(d) \/ (d.own = c.own /\ Seen(c, d) /\ ~Refuses(c))
    BY DEF Bears, Refuses
  <1> QED
    BY <1>1, <1>2, HushedFollows

LEMMA FlushBears ==
  ASSUME NEW c, Whole(c), Written(c), Rested(c), NEW reason, NEW f \in Outcomes
  PROVE  Bears(c, Flush(c, reason, f))
  <1> DEFINE d == Flush(c, reason, f)
  <1>1. Settles(c, d)
    BY FlushSettles
  <1>2. FlushLeaves(c, d, Completing(reason))
    BY FlushWhole
  <1> HIDE DEF d
  <1>3. Bears(c, d)
    BY <1>1, <1>2 DEF Settles, FlushLeaves, Bears, Seen, Hushed
  <1> QED
    BY <1>3 DEF d

(* The same work to do, from the same memory. *)
LEMMA WorkBears ==
  ASSUME NEW c \in Context, NEW d \in Context, Written(c), Written(d), Keeps(c, d),
         d.flying = c.flying, d.flight.cmds = c.flight.cmds, d.rec.cmds = c.rec.cmds,
         d.own = c.own, d.closed = c.closed, c.poisoned => d.poisoned
  PROVE  Bears(c, d) /\ Settle(d) = Settle(c)
  <1>1. SameWork(c, d)
    BY DEF SameWork, Keeps, Written
  <1>2. Settle(d) = Settle(c)
    BY <1>1, SettleSame DEF Keeps
  <1> QED
    BY <1>2 DEF Bears, Keeps, Seen, Rested, Hushed

LEMMA CarriedBears ==
  ASSUME NEW c \in Context, NEW d \in Context, Written(c), Carried(c, d), Keeps(c, d)
  PROVE  Written(d) /\ Bears(c, d) /\ Settle(d) = Settle(c)
  <1>1. Written(d)
    BY CarriedWritten
  <1> QED
    BY <1>1, WorkBears DEF Carried, Passed

LEMMA CalledBears ==
  ASSUME IInv, Named(ctx, {}), Written(ctx), NEW n \in Nat, ctx.faults + n <= MaxFaults
  PROVE  LET c == Called(n)
         IN  /\ Whole(c) /\ Named(c, {}) /\ Written(c) /\ Same(ctx, c) /\ c \in Context
             /\ Bears(ctx, c) /\ Hushed(c) /\ Settle(c) = Settle(ctx)
  <1> DEFINE c == Called(n)
  <1>1. Whole(ctx) /\ ctx \in Context
    BY DEF IInv, Whole, Sound
  <1>2. Whole(c) /\ Named(c, {}) /\ Written(c) /\ Same(ctx, c)
    BY <1>1, CalledWritten
  <1>3. Hushed(c)
    BY <1>1, CalledWhole DEF Hushed
  <1> HIDE DEF c
  <1>4. c \in Context
    BY <1>2 DEF Whole, Sound
  <1>5. Settle(c) = Settle(ctx)
    <2>1. SameWork(ctx, c) /\ c.mem = ctx.mem
      BY <1>2 DEF SameWork, Same, Written
    <2> QED
      BY <1>1, <1>4, <2>1, SettleSame
  <1>6. Bears(ctx, c)
    BY <1>2, <1>3, <1>5 DEF Bears, Same, Seen, Rested
  <1> QED
    BY <1>2, <1>3, <1>4, <1>5, <1>6 DEF c

LEMMA SetWrittenKeeps ==
  ASSUME NEW c \in Context, NEW k \in Kernels
  PROVE  Keeps(c, SetWritten(c, k))
  BY DEF SetWritten, Context, Keeps

LEMMA AcquiredBears ==
  ASSUME NEW c, Whole(c), Written(c), NEW k \in Kernels,
         c.kern[k].reuse = NoSet => c.kern[k].mark # ArenaSize, Written(Acquired(c, k))
  PROVE  Bears(c, Acquired(c, k)) /\ Settle(Acquired(c, k)) = Settle(c)
  <1> DEFINE d == Acquired(c, k)
             s == SetWritten(c, k)
  <1>1. c \in Context /\ Sound(c, {}, 0) /\ 0 \in Nat
    BY DEF Whole, Sound
  <1>2. Sound(d, {}, 0) /\ Rest(c, d) /\ d.rec = c.rec
    BY <1>1, AcquiredSound
  <1>3. Keeps(c, d)
    <2>1. CASE c.kern[k].reuse # NoSet
      BY <2>1 DEF Acquired, Keeps
    <2>2. CASE c.kern[k].reuse = NoSet
      <3>1. Keeps(c, s)
        BY <1>1, SetWrittenKeeps
      <3>2. s \in Context
        BY <1>1, <2>2, SetWrittenSound DEF Sound
      <3>3. d = [s EXCEPT !.kern[k].reuse = NextSet(c, k)]
        BY <2>2 DEF Acquired
      <3> HIDE DEF s, d
      <3>4. Keeps(s, d)
        BY <3>2, <3>3 DEF Keeps, Context
      <3> QED
        BY <3>1, <3>4, KeepsOn
    <2> QED
      BY <2>1, <2>2
  <1> HIDE DEF d
  <1>4. d \in Context
    BY <1>2 DEF Sound
  <1>5. Written(d)
    BY DEF d
  <1>6. Bears(c, d) /\ Settle(d) = Settle(c)
    BY <1>1, <1>2, <1>3, <1>4, <1>5, WorkBears DEF Rest
  <1> QED
    BY <1>6 DEF d

LEMMA RecordedKeeps ==
  ASSUME NEW c, NEW T, Sound(c, T, 0), NEW cmd
  PROVE  Keeps(c, Recorded(c, cmd))
  <1> DEFINE o == Opened(c)
             d == Recorded(c, cmd)
  <1>1. c \in Context /\ 0 \in Nat
    BY DEF Sound
  <1>2. o \in Context
    BY <1>1, OpenedSound DEF Sound
  <1>3. Keeps(c, o)
    BY <1>1 DEF Opened, Context, Keeps
  <1>4. d = [o EXCEPT !.rec.cmds = Append(@, cmd)]
    BY DEF Recorded
  <1> HIDE DEF o, d
  <1>5. Keeps(o, d)
    BY <1>2, <1>4 DEF Context, Keeps
  <1>6. Keeps(c, d)
    BY <1>3, <1>5, KeepsOn
  <1> QED
    BY <1>6 DEF d

LEMMA WritingSays ==
  ASSUME NEW c \in Context, NEW h
  PROVE  LET d == Writing(c, h)
         IN  /\ d.mem = c.mem /\ d.ran = c.ran /\ d.answer = c.answer
             /\ d.wrote = IF c.poisoned THEN 0 ELSE h
  BY DEF Writing, Context

(* A call that wrote h. *)
LEMMA WritingFollows ==
  ASSUME NEW c, Whole(c), Written(c), NEW d, Whole(d), Written(d), Rested(d),
         NEW h \in Handles, NEW v \in Contents, c.own[h] # NoPair, ~Refuses(c),
         d.own = c.own, d.closed = c.closed, d.answer = NoAnswer,
         d.poisoned \/ Put(Settle(d), Settle(c), c.own[h], v)
  PROVE  Follows(c, Writing(d, h))
  <1> DEFINE w == Writing(d, h)
  <1>1. c \in Context /\ d \in Context /\ Apart(c, {})
    BY DEF Whole, Sound
  <1>2. Whole(w) /\ Same(d, w)
    BY WritingWhole
  <1>3. w.mem = d.mem /\ w.ran = d.ran /\ w.answer = d.answer
        /\ w.wrote = IF d.poisoned THEN 0 ELSE h
    BY <1>1, WritingSays
  <1> HIDE DEF w
  <1>4. w \in Context /\ Written(w) /\ Rested(w)
    BY <1>2, SameWritten DEF Whole, Sound, Same, Rested
  <1>5. Settle(w) = Settle(d)
    <2>1. SameWork(d, w)
      BY <1>2, <1>4 DEF SameWork, Same, Written
    <2> QED
      BY <1>1, <1>3, <1>4, <2>1, SettleSame
  <1>6. w.poisoned = d.poisoned /\ w.own = c.own /\ w.closed = c.closed
    BY <1>2 DEF Same
  <1>7. Follows(c, w)
    BY <1>1, <1>3, <1>4, <1>5, <1>6, WriteFollows
  <1> QED
    BY <1>7 DEF w

-----------------------------------------------------------------------------
(* One call after another. *)
LEMMA SyncFollows ==
  ASSUME IInv, Named(ctx, {}), Written(ctx), Rested(ctx), NEW f \in Outcomes, Sync(f)
  PROVE  Follows(ctx, ctx')
  <1> DEFINE n == Cost(f, Idle)
             c == Called(n)
             a == Flush(c, "ExplicitSync", f)
  <1>1. ctx.faults + n <= MaxFaults /\ n \in Nat /\ ctx \in Context
    BY CostType DEF Sync, Live, IInv, Whole, Sound
  <1>2. ctx' = a
    BY DEF Sync
  <1> HIDE DEF n
  <1>3. Whole(c) /\ Written(c) /\ Bears(ctx, c) /\ Hushed(c)
    BY <1>1, CalledBears
  <1> HIDE DEF c
  <1>4. Rested(c)
    BY <1>3 DEF Bears
  <1>5. Whole(a) /\ Written(a) /\ Bears(c, a)
    BY <1>3, <1>4, FlushWhole, FlushWritten, FlushBears
  <1> HIDE DEF a
  <1>6. Bears(ctx, a) /\ Hushed(a) /\ a \in Context
    BY <1>3, <1>5, BearsOn DEF Bears, Whole, Sound
  <1> QED
    BY <1>1, <1>2, <1>5, <1>6, BearsFollows

LEMMA DeviceExecutesFollows ==
  ASSUME IInv, Written(ctx), Rested(ctx), DeviceExecutes
  PROVE  Follows(ctx, ctx')
  <1> DEFINE d == Ran(ctx)
             m == Flown(ctx)
  <1>1. Sound(ctx, {}, 0) /\ 0 \in Nat /\ ctx \in Context
    BY DEF IInv, Whole, Sound
  <1>2. ctx' = d /\ ctx.flying /\ ~ctx.ran
    BY DEF DeviceExecutes
  <1>3. Sound(d, {}, 0) /\ Carried(ctx, d) /\ d.poisoned = ctx.poisoned
    BY <1>1, RanSound
  <1>4. d.mem = m /\ d.answer = ctx.answer
    BY <1>1, RanFlown
  <1>5. d.ran
    BY <1>1, <1>2 DEF Ran, Context
  <1> HIDE DEF d, m
  <1>6. ctx.rec \in Batches /\ Fits(ctx, ctx.rec) /\ ctx.bindings \in Sets /\ m \in Cells
    <2>1. Fits(ctx, ctx.flight)
      BY DEF Written
    <2> QED
      BY <1>1, <2>1, ContextParts, FlownSame DEF Written, m
  <1>7. RunAll(d, m, ctx.rec.cmds) = RunAll(ctx, m, ctx.rec.cmds)
    <2>1. d.bindings = ctx.bindings
      BY <1>3 DEF Carried, Passed
    <2> QED
      BY <1>6, <2>1, BindingsRun
  <1>8. Settle(d) = Settle(ctx)
    <2>1. Flown(d) = m /\ d.rec = ctx.rec
      BY <1>3, <1>4, <1>5 DEF Flown, Carried, Passed
    <2> QED
      BY <1>7, <2>1 DEF Settle, m
  <1>9. View(d) = View(ctx) /\ Refuses(d) = Refuses(ctx) /\ d.wrote = ctx.wrote
    BY <1>3, <1>8 DEF View, Refuses, Carried, Passed
  <1>10. Rested(d)
    BY <1>2, <1>3 DEF Rested, Carried
  <1> QED
    BY <1>2, <1>4, <1>9, <1>10 DEF Follows, Maps, Stays

LEMMA BuildKernelFollows ==
  ASSUME IInv, Named(ctx, {}), Written(ctx), Rested(ctx), NEW k \in Kernels, BuildKernel(k),
         ctx' \in Context, Written(ctx')
  PROVE  Follows(ctx, ctx')
  <1> DEFINE e == Called(0)
  <1>1. ctx.faults + 0 <= MaxFaults /\ 0 \in Nat /\ ctx \in Context
    BY DEF BuildKernel, Live, IInv, Whole, Sound
  <1>2. e \in Context /\ Written(e) /\ Bears(ctx, e) /\ Hushed(e)
    BY <1>1, CalledBears
  <1>3. \E K, B : ctx' = [e EXCEPT !.alive = @ \cup {k}, !.kern = K, !.bindings = B]
    <2>1. ctx' = [e EXCEPT !.alive = @ \cup {k},
                    !.kern = [e.kern EXCEPT ![k] = [Unbuilt EXCEPT !.built = TRUE]],
                    !.bindings = [s \in DescriptorSets |-> IF s[1] = k THEN NoPair
                                                           ELSE e.bindings[s]]]
      BY DEF BuildKernel
    <2> QED
      BY <2>1
  <1> HIDE DEF e
  <1>4. /\ Keeps(e, ctx') /\ ctx'.flying = e.flying /\ ctx'.flight = e.flight
        /\ ctx'.rec = e.rec /\ ctx'.own = e.own /\ ctx'.closed = e.closed
        /\ ctx'.poisoned = e.poisoned
    BY <1>2, <1>3 DEF Context, Keeps
  <1>5. Bears(e, ctx')
    BY <1>2, <1>4, WorkBears
  <1>6. Bears(ctx, ctx') /\ Hushed(ctx')
    BY <1>2, <1>5, BearsOn DEF Bears
  <1> QED
    BY <1>1, <1>6, BearsFollows

LEMMA BindFollows ==
  ASSUME IInv, Named(ctx, {}), Written(ctx), Rested(ctx), NEW k \in Kernels,
         NEW h \in Handles, Bind(k, h), ctx' \in Context, Written(ctx')
  PROVE  Follows(ctx, ctx')
  <1> DEFINE e == Called(0)
  <1>1. ctx.faults + 0 <= MaxFaults /\ 0 \in Nat /\ ctx \in Context
    BY DEF Bind, Live, IInv, Whole, Sound
  <1>2. e \in Context /\ Written(e) /\ Bears(ctx, e) /\ Hushed(e)
    BY <1>1, CalledBears
  <1>3. ctx' = [e EXCEPT !.kern[k].bound = h, !.kern[k].pending = ctx.own[h],
                         !.kern[k].reuse = NoSet]
    BY DEF Bind
  <1> HIDE DEF e
  <1>4. /\ Keeps(e, ctx') /\ ctx'.flying = e.flying /\ ctx'.flight = e.flight
        /\ ctx'.rec = e.rec /\ ctx'.own = e.own /\ ctx'.closed = e.closed
        /\ ctx'.poisoned = e.poisoned
    <2> DEFINE kk == [e.kern[k] EXCEPT !.bound = h, !.pending = ctx.own[h], !.reuse = NoSet]
               K == [e.kern EXCEPT ![k] = kk]
    <2>1. e.kern[k] \in KernelStates /\ e.kern \in [Kernels -> KernelStates]
      BY <1>2, ContextParts
    <2>2. [e EXCEPT !.kern[k].bound = h, !.kern[k].pending = ctx.own[h],
                    !.kern[k].reuse = NoSet] = [e EXCEPT !.kern = K]
      BY <1>2, <2>1, ZenonT(60) DEF Context, KernelStates
    <2> HIDE DEF K
    <2>3. ctx' = [e EXCEPT !.kern = K]
      BY <1>3, <2>2
    <2> QED
      BY <1>2, <2>3 DEF Context, Keeps
  <1>5. Bears(e, ctx')
    BY <1>2, <1>4, WorkBears
  <1>6. Bears(ctx, ctx') /\ Hushed(ctx')
    BY <1>2, <1>5, BearsOn DEF Bears
  <1> QED
    BY <1>1, <1>6, BearsFollows

(* Retiring objects, or releasing them. *)
LEMMA RetirementBears ==
  ASSUME NEW c, NEW S, Sound(c, S, 0), Written(c)
  PROVE  /\ Bears(c, ReleasedOrLeaked(c, S))
         /\ Bears(c, [c EXCEPT !.rec.retired = @ \cup S])
         /\ Bears(c, [c EXCEPT !.flight.retired = @ \cup S])
  <1>1. c \in Context /\ S \in SUBSET Objects /\ Sound(c, S \cup {}, 0) /\ S \cap {} = {}
        /\ 0 \in Nat
    <2>1. c \in Context /\ S \subseteq c.alive
      BY DEF Sound, Apart, Holding
    <2>2. S \cup {} = S
      OBVIOUS
    <2> QED
      BY <2>1, <2>2, ContextParts
  <1>2. Bears(c, ReleasedOrLeaked(c, S))
    <2> DEFINE d == ReleasedOrLeaked(c, S)
    <2>1. Carried(c, d) /\ Keeps(c, d) /\ d \in Context
      BY <1>1, ReleasedOrLeakedSound, DisposalKeeps DEF Sound
    <2> HIDE DEF d
    <2>2. Bears(c, d)
      BY <1>1, <2>1, CarriedBears
    <2> QED
      BY <2>2 DEF d
  <1>3. c.rec \in Batches /\ c.flight \in Batches
    BY <1>1, ContextParts
  <1>4. Bears(c, [c EXCEPT !.rec.retired = @ \cup S])
    <2> DEFINE d == [c EXCEPT !.rec.retired = @ \cup S]
    <2>1. /\ d \in Context /\ Keeps(c, d) /\ d.flying = c.flying
          /\ d.flight = c.flight /\ d.rec.cmds = c.rec.cmds /\ d.own = c.own
          /\ d.closed = c.closed /\ d.poisoned = c.poisoned
      BY <1>1, <1>3 DEF Context, Batches, Keeps
    <2>2. Written(d)
      BY RetirementWritten
    <2> HIDE DEF d
    <2>3. Bears(c, d)
      BY <1>1, <2>1, <2>2, WorkBears
    <2> QED
      BY <2>3 DEF d
  <1>5. Bears(c, [c EXCEPT !.flight.retired = @ \cup S])
    <2> DEFINE d == [c EXCEPT !.flight.retired = @ \cup S]
    <2>1. /\ d \in Context /\ Keeps(c, d) /\ d.flying = c.flying
          /\ d.flight.cmds = c.flight.cmds /\ d.rec.cmds = c.rec.cmds /\ d.own = c.own
          /\ d.closed = c.closed /\ d.poisoned = c.poisoned
      BY <1>1, <1>3 DEF Context, Batches, Keeps
    <2>2. Written(d)
      BY RetirementWritten
    <2> HIDE DEF d
    <2>3. Bears(c, d)
      BY <1>1, <2>1, <2>2, WorkBears
    <2> QED
      BY <2>3 DEF d
  <1> QED
    BY <1>2, <1>4, <1>5

LEMMA DestroyKernelFollows ==
  ASSUME IInv, Named(ctx, {}), Written(ctx), Rested(ctx), NEW k \in Kernels,
         DestroyKernel(k), ctx' \in Context, Written(ctx')
  PROVE  Follows(ctx, ctx')
  <1> DEFINE e == Called(0)
             c == [e EXCEPT !.kern[k] = Unbuilt]
  <1>1. ctx.kern[k].built /\ Whole(ctx) /\ ctx \in Context
    BY DEF DestroyKernel, IInv, Whole, Sound
  <1>2. ctx.faults + 0 <= MaxFaults /\ 0 \in Nat
    <2>1. ctx.faults \in 0 .. MaxFaults /\ MaxFaults \in Nat
      BY <1>1, ContextParts, BoundAssumption
    <2> QED
      BY <2>1
  <1>3. ctx' = IF c.open THEN [c EXCEPT !.rec.retired = @ \cup {k}]
               ELSE IF c.flying THEN [c EXCEPT !.flight.retired = @ \cup {k}]
               ELSE ReleasedOrLeaked(c, {k})
    BY DEF DestroyKernel
  <1>4. Whole(e) /\ Same(ctx, e) /\ Written(e) /\ Bears(ctx, e) /\ Hushed(e)
    BY <1>2, CalledBears
  <1> HIDE DEF e
  <1>5. e.kern[k].built /\ Sound(e, {}, 0) /\ e \in Context
    BY <1>1, <1>4 DEF Same, Whole, Sound
  <1>6. Sound(c, {k}, 0)
    <2>1. Sound(c, {} \cup {k}, 0)
      BY <1>2, <1>5, UnbuildingSound
    <2>2. {} \cup {k} = {k}
      OBVIOUS
    <2> QED
      BY <2>1, <2>2
  <1>7. Written(c)
    <2>1. e.kern \in [Kernels -> KernelStates] /\ ~Unbuilt.built
      BY <1>5, ContextParts DEF Unbuilt
    <2>2. Undisturbed(e, c)
      BY <1>5, <2>1 DEF Undisturbed, Context
    <2> HIDE DEF c
    <2> QED
      BY <1>4, <2>2, UndisturbedWritten
  <1>8. /\ Keeps(e, c) /\ c.flying = e.flying /\ c.flight = e.flight /\ c.rec = e.rec
        /\ c.own = e.own /\ c.closed = e.closed /\ c.poisoned = e.poisoned
    BY <1>5 DEF Context, Keeps
  <1> HIDE DEF c
  <1>9. c \in Context
    BY <1>6 DEF Sound
  <1>10. Bears(e, c)
    BY <1>4, <1>5, <1>7, <1>8, <1>9, WorkBears
  <1>11. Bears(c, ctx')
    BY <1>3, <1>6, <1>7, RetirementBears
  <1>12. Bears(ctx, ctx') /\ Hushed(ctx')
    BY <1>4, <1>10, <1>11, BearsOn DEF Bears
  <1> QED
    BY <1>1, <1>12, BearsFollows

LEMMA FreeBufferFollows ==
  ASSUME IInv, Named(ctx, {}), Written(ctx), Rested(ctx), NEW h \in Handles,
         NEW f \in Outcomes, FreeBuffer(h, f), ctx' \in Context, Written(ctx')
  PROVE  Follows(ctx, ctx')
  <1> DEFINE n == Cost(f, Idle)
             e == Called(n)
             p == ctx.own[h]
             c == [e EXCEPT !.own[h] = NoPair]
             r == [c EXCEPT !.rec.retired = @ \cup {p}]
             due == Cardinality(r.rec.retired \cap Pairs) > MaxRetired
  <1>1. p # NoPair /\ Whole(ctx) /\ ctx \in Context
    BY DEF FreeBuffer, IInv, Whole, Sound
  <1>2. n \in Nat /\ ctx.faults + n <= MaxFaults
    <2>1. ctx.faults \in 0 .. MaxFaults /\ MaxFaults \in Nat
      BY <1>1, ContextParts, BoundAssumption
    <2>2. f = Idle => n = 0
      BY DEF Cost
    <2>3. f # Idle => ctx.faults + n <= MaxFaults
      <3>1. c.faults = ctx.faults + n
        BY <1>1 DEF Called, Context
      <3>2. f # Idle => c.faults <= MaxFaults
        BY DEF FreeBuffer
      <3> QED
        BY <3>1, <3>2
    <2> QED
      BY <2>1, <2>2, <2>3, CostType
  <1>3. ctx' = IF ~c.open /\ c.flying THEN [c EXCEPT !.flight.retired = @ \cup {p}]
               ELSE IF ~c.open THEN ReleasedOrLeaked(c, {p})
               ELSE IF due THEN Flush(r, "RetirementBudget", f)
               ELSE r
    BY DEF FreeBuffer
  <1> HIDE DEF n, due
  <1>4. Whole(e) /\ Same(ctx, e) /\ Written(e) /\ Bears(ctx, e) /\ Hushed(e)
        /\ Settle(e) = Settle(ctx)
    BY <1>2, CalledBears
  <1> HIDE DEF e
  <1>5. e.own[h] = p /\ Sound(e, {}, 0) /\ e \in Context /\ Fresh(e) /\ Bound(e) /\ 0 \in Nat
        /\ e.own = ctx.own /\ e.closed = ctx.closed /\ e.poisoned = ctx.poisoned
    BY <1>1, <1>4 DEF Same, Whole, Sound
  <1>6. Sound(c, {p}, 0)
    <2>1. Sound(c, {} \cup {p}, 0)
      BY <1>1, <1>5, DisownedSound
    <2>2. {} \cup {p} = {p}
      OBVIOUS
    <2> QED
      BY <2>1, <2>2
  <1>7. /\ Undisturbed(e, c) /\ Keeps(e, c) /\ c.flying = e.flying /\ c.flight = e.flight
        /\ c.rec = e.rec /\ c.closed = e.closed /\ c.poisoned = e.poisoned
        /\ c.own = [e.own EXCEPT ![h] = NoPair] /\ c.next = e.next /\ c.kern = e.kern
    BY <1>5 DEF Undisturbed, Context, Keeps
  <1> HIDE DEF c, p
  <1>8. Written(c) /\ c \in Context
    BY <1>4, <1>6, <1>7, UndisturbedWritten DEF Sound
  <1>9. Fresh(c) /\ Bound(c)
    <2>1. e.own \in [Handles -> Pairs \cup {NoPair}]
      BY <1>5, ContextParts
    <2> QED
      BY <1>5, <1>7, <2>1 DEF Fresh, Bound
  <1>10. Settle(c) = Settle(ctx) /\ Rested(c) /\ Hushed(c)
    <2>1. SameWork(e, c)
      BY <1>4, <1>7, <1>8 DEF SameWork, Keeps, Written
    <2>2. Settle(c) = Settle(e)
      BY <1>5, <1>7, <1>8, <2>1, SettleSame DEF Keeps
    <2> QED
      BY <1>4, <1>7, <2>2 DEF Keeps, Bears, Rested, Hushed
  <1>11. Bears(c, ctx')
    <2>1. CASE ~c.open
      BY <1>3, <1>6, <1>8, <2>1, RetirementBears
    <2>2. CASE c.open
      <3>1. Bears(c, r) /\ Written(r) /\ Whole(r)
        BY <1>6, <1>8, <1>9, <2>2, RetirementBears, RetirementWritten, RetirementHeld
      <3> HIDE DEF r
      <3>2. Rested(r)
        BY <1>10, <3>1 DEF Bears
      <3> DEFINE d == Flush(r, "RetirementBudget", f)
      <3>3. Bears(r, d)
        BY <3>1, <3>2, FlushBears
      <3>4. ctx' = r \/ ctx' = d
        BY <1>3, <2>2
      <3> HIDE DEF d
      <3> QED
        BY <3>1, <3>3, <3>4, BearsOn
    <2> QED
      BY <2>1, <2>2
  <1>12. /\ ctx'.own = [ctx.own EXCEPT ![h] = NoPair] /\ ctx'.closed = ctx.closed
         /\ (ctx.poisoned => ctx'.poisoned) /\ Rested(ctx') /\ Hushed(ctx')
         /\ (ctx'.poisoned \/ Seen(ctx, ctx'))
    BY <1>5, <1>7, <1>10, <1>11 DEF Bears, Seen
  <1> QED
    BY <1>1, <1>12, FreeFollows DEF p

LEMMA BufferFollows ==
  ASSUME IInv, Named(ctx, {}), Written(ctx), Rested(ctx), Buffer,
         ctx' \in Context, Written(ctx')
  PROVE  Follows(ctx, ctx')
  <1> DEFINE c == Called(0)
             h == ctx.next
  <1>1. /\ ctx.faults + 0 <= MaxFaults /\ Whole(ctx) /\ 0 \in Nat /\ ctx \in Context
        /\ ~ctx.poisoned /\ ~ctx.closed
    BY DEF Buffer, Live, IInv, Whole, Sound
  <1>2. h \in Handles /\ ctx.own[h] = NoPair
    <2>1. h \in 1 .. MaxHandles + 1 /\ h <= MaxHandles /\ MaxHandles \in Nat
      BY <1>1, BoundAssumption DEF Buffer, Context
    <2>2. h \in Handles /\ h >= h
      BY <2>1 DEF Handles
    <2> QED
      BY <1>1, <2>2 DEF Whole, Fresh
  <1>3. c \in Context /\ Written(c) /\ Same(ctx, c) /\ Hushed(c) /\ Bears(ctx, c)
        /\ Settle(c) = Settle(ctx)
    BY <1>1, CalledBears
  <1>4. \E p \in Pairs :
          /\ p \in ctx.pool \/ p \notin ctx.alive
          /\ \/ ctx' = [c EXCEPT !.pool = @ \ {p}, !.own[h] = p, !.next = @ + 1]
             \/ ctx' = [c EXCEPT !.alive = @ \cup {p}, !.own[h] = p,
                                 !.next = @ + 1, !.mem[p] = Junk]
    <2>1. CASE ctx.pool \cap Pairs # {}
      BY <2>1 DEF Buffer
    <2>2. CASE ctx.pool \cap Pairs = {}
      BY <2>2 DEF Buffer
    <2> QED
      BY <2>1, <2>2
  <1> HIDE DEF c, h
  <1>5. PICK p \in Pairs :
          /\ p \in ctx.pool \/ p \notin ctx.alive
          /\ \/ ctx' = [c EXCEPT !.pool = @ \ {p}, !.own[h] = p, !.next = @ + 1]
             \/ ctx' = [c EXCEPT !.alive = @ \cup {p}, !.own[h] = p,
                                 !.next = @ + 1, !.mem[p] = Junk]
    BY <1>4
  <1> DEFINE T == (Pairs \cup Stages) \ {p}
  <1>6. /\ ctx'.own = [c.own EXCEPT ![h] = p]
        /\ ctx'.flying = c.flying /\ ctx'.flight = c.flight /\ ctx'.rec = c.rec
        /\ ctx'.ran = c.ran /\ ctx'.answer = c.answer /\ ctx'.wrote = c.wrote
        /\ ctx'.closed = c.closed /\ ctx'.poisoned = c.poisoned
        /\ \A o \in Pairs \cup Stages : o # p => ctx'.mem[o] = c.mem[o]
    <2>1. c.mem \in [Pairs \cup Stages -> Contents]
      BY <1>3, ContextParts DEF Cells
    <2>2. CASE ctx' = [c EXCEPT !.pool = @ \ {p}, !.own[h] = p, !.next = @ + 1]
      BY <1>3, <2>2 DEF Context
    <2>3. CASE ctx' = [c EXCEPT !.alive = @ \cup {p}, !.own[h] = p,
                                !.next = @ + 1, !.mem[p] = Junk]
      BY <1>3, <2>1, <2>3 DEF Context
    <2> QED
      BY <1>5, <2>2, <2>3
  <1>7. \A o \in Pairs : o # p => Settle(ctx')[o] = Settle(c)[o]
    <2>1. SameWork(c, ctx')
      BY <1>3, <1>6 DEF SameWork, Written
    <2>2. T \in SUBSET (Pairs \cup Stages) /\ Agree(c.mem, ctx'.mem, T)
      BY <1>6 DEF Agree
    <2>3. Within(c.rec, T) /\ Within(c.flight, T)
      BY ObjectAssumption DEF Within
    <2> HIDE DEF T
    <2>4. Matched(Settle(c), Settle(ctx'), c.mem, T)
      BY <1>3, <2>1, <2>2, <2>3, SettleAgrees
    <2> QED
      BY <2>4 DEF Matched, Agree, T
  <1>8. \A g \in Handles : ctx.own[g] # p
    <2>1. Apart(ctx, {}) /\ p # NoPair
      BY <1>1, ObjectAssumption DEF Whole, Sound
    <2> QED
      BY <1>5, <2>1 DEF Apart, Holding, Owned
  <1>9. /\ ctx'.own = [ctx.own EXCEPT ![h] = p] /\ Hushed(ctx') /\ ~Refuses(ctx)
        /\ ~Refuses(ctx') /\ Rested(ctx')
        /\ \A o \in Pairs : o # p => Settle(ctx')[o] = Settle(ctx)[o]
    BY <1>1, <1>3, <1>6, <1>7 DEF Same, Hushed, Refuses, Rested, Bears
  <1> QED
    BY <1>1, <1>2, <1>8, <1>9, CreateFollows

(* A staging pair that no batch copies from can be filled. *)
LEMMA StageTakenBears ==
  ASSUME NEW c, Whole(c), Named(c, {}), ~c.poisoned, Written(c),
         NEW s \in Stages, s \in StageChoices(c), NEW v \in Pushed
  PROVE  LET t == StageTaken(c, s, v)
         IN  /\ Sound(t, {s}, 0) /\ Calm(c, t) /\ Written(t) /\ Grounded(t)
             /\ Bears(c, t) /\ t.mem[s] = v /\ t.poisoned = c.poisoned
             /\ t.answer = c.answer
  <1> DEFINE t == StageTaken(c, s, v)
             T == (Pairs \cup Stages) \ {s}
  <1>1. c \in Context /\ c.mem \in Cells /\ Apart(c, {}) /\ Known(c, {}) /\ Grounded(c)
    BY ContextParts DEF Whole, Sound, Named
  <1>2. Sound(t, {s}, 0) /\ Calm(c, t)
    BY StageTakenSound
  <1>3. /\ Undisturbed(c, t) /\ t.flying = c.flying /\ t.ran = c.ran /\ t.answer = c.answer
        /\ t.wrote = c.wrote /\ t.poisoned = c.poisoned /\ t.rec = c.rec
        /\ t.flight = c.flight /\ t.mem[s] = v
        /\ \A o \in Pairs \cup Stages : o # s => t.mem[o] = c.mem[o]
    BY <1>1 DEF StageTaken, Undisturbed, Context, Cells
  <1> HIDE DEF t
  <1>4. Written(t) /\ t \in Context
    BY <1>2, <1>3, UndisturbedWritten DEF Sound
  <1>5. s \notin Uses(c.rec.cmds) /\ s \notin Uses(c.flight.cmds)
    <2>1. s \in c.pool \/ s \notin c.alive
      BY DEF StageChoices
    <2> QED
      BY <1>1, <2>1, HoldersExist DEF Known
  <1>6. Seen(c, t)
    <2>1. SameWork(c, t)
      BY <1>3, <1>4 DEF SameWork, Written
    <2>2. T \in SUBSET (Pairs \cup Stages) /\ Agree(c.mem, t.mem, T)
      BY <1>3 DEF Agree
    <2>3. Within(c.rec, T) /\ Within(c.flight, T)
      BY <1>5 DEF Within
    <2>4. Pairs \subseteq T
      BY ObjectAssumption
    <2> HIDE DEF T
    <2>5. Matched(Settle(c), Settle(t), c.mem, T)
      BY <1>1, <1>4, <2>1, <2>2, <2>3, SettleAgrees
    <2> QED
      BY <2>4, <2>5 DEF Matched, Agree, Seen
  <1>7. Bears(c, t) /\ Grounded(t)
    BY <1>1, <1>2, <1>3, <1>6 DEF Bears, Calm, Grounded, Rested, Hushed
  <1> QED
    BY <1>2, <1>3, <1>4, <1>7 DEF t

(* A command was recorded. *)
LEMMA RecordedPuts ==
  ASSUME NEW c, NEW T, Sound(c, T, 0), Written(c), Rested(c), NEW cmd \in Commands,
         Written(Recorded(c, cmd)), NEW v,
         v = IF IsDispatch(cmd) THEN cmd.value ELSE c.mem[cmd.from]
  PROVE  LET d == Recorded(c, cmd)
         IN  /\ Put(Settle(d), Settle(c), cmd.to, v) /\ Keeps(c, d)
             /\ Rest(c, d) /\ Rested(d)
  <1> DEFINE d == Recorded(c, cmd)
  <1>1. c \in Context /\ 0 \in Nat
    BY DEF Sound
  <1>2. Keeps(c, d)
    BY RecordedKeeps
  <1>3. Rest(c, d)
    BY <1>1, RecordedSound
  <1>4. Did(Settle(d), Settle(c), cmd)
    BY SettleRecorded
  <1>5. ~IsDispatch(cmd) => Settle(c)[cmd.from] = c.mem[cmd.from]
    BY <1>1, SettleType, CommandKinds
  <1> HIDE DEF d
  <1>6. Put(Settle(d), Settle(c), cmd.to, v)
    BY <1>4, <1>5 DEF Did, Put
  <1>7. Rested(d)
    BY <1>2, <1>3 DEF Rested, Keeps, Rest
  <1> QED
    BY <1>2, <1>3, <1>6, <1>7 DEF d

LEMMA UploadRecordedFollows ==
  ASSUME IInv, Named(ctx, {}), Written(ctx), Rested(ctx), NEW h \in Handles,
         NEW v \in Pushed, NEW s \in Stages, UploadRecorded(h, v, s),
         ctx' \in Context, Written(ctx')
  PROVE  Follows(ctx, ctx')
  <1> DEFINE c == Called(0)
             t == StageTaken(c, s, v)
             cmd == [from |-> s, to |-> ctx.own[h]]
             r == Recorded(t, cmd)
             q == [r EXCEPT !.rec.retired = @ \cup {s}]
             w == Writing(q, h)
  <1>1. /\ ctx.faults + 0 <= MaxFaults /\ Whole(ctx) /\ 0 \in Nat /\ ~ctx.poisoned
        /\ ~ctx.closed /\ ctx.own[h] # NoPair /\ s \in StageChoices(ctx)
    BY DEF UploadRecorded, Live, IInv
  <1>2. ctx' = w
    BY DEF UploadRecorded
  <1>3. /\ Whole(c) /\ Named(c, {}) /\ Same(ctx, c) /\ Written(c) /\ Bears(ctx, c)
        /\ Hushed(c) /\ Settle(c) = Settle(ctx)
    BY <1>1, CalledBears
  <1> HIDE DEF c
  <1>4. Fresh(c) /\ Bound(c) /\ s \in StageChoices(c) /\ c \in Context /\ ~c.poisoned
        /\ Rested(c)
    BY <1>1, <1>3 DEF Whole, Same, StageChoices, Sound, Bears
  <1>5. /\ Sound(t, {s}, 0) /\ Calm(c, t) /\ Written(t) /\ Grounded(t) /\ Bears(c, t)
        /\ t.mem[s] = v /\ t.poisoned = c.poisoned
    BY <1>3, <1>4, StageTakenBears
  <1> HIDE DEF t
  <1>6. cmd \in Commands /\ ~IsDispatch(cmd) /\ cmd.to = ctx.own[h] /\ cmd.from = s
    <2>1. ctx.own[h] \in Pairs
      BY <1>1, ContextParts DEF Whole, Sound
    <2> QED
      BY <2>1 DEF Commands, IsDispatch
  <1> HIDE DEF cmd
  <1>7. /\ Sound(r, {s}, 0) /\ Written(r) /\ r.open /\ Calm(t, r)
    <2>1. Sound(r, {s}, 0) /\ Rest(t, r) /\ r.kern = t.kern /\ r.open
      BY <1>1, <1>5, <1>6, RecordedSound
    <2>2. Written(r)
      BY <1>5, <1>6, RecordedWritten DEF Recordable
    <2> HIDE DEF r
    <2> QED
      BY <2>1, <2>2 DEF Rest, Calm
  <1>8. /\ Put(Settle(r), Settle(t), ctx.own[h], v) /\ Keeps(t, r) /\ Rest(t, r) /\ Rested(r)
    <2>1. Rested(t)
      BY <1>4, <1>5 DEF Bears
    <2> QED
      BY <1>5, <1>6, <1>7, <2>1, RecordedPuts
  <1> HIDE DEF r
  <1>9. Fresh(r) /\ Bound(r)
    BY <1>4, <1>5, <1>7, CalmOn, CalmParts
  <1>10. Whole(q) /\ Written(q) /\ Bears(r, q)
    BY <1>7, <1>9, RetirementHeld, RetirementWritten, RetirementBears
  <1> HIDE DEF q
  <1>11. /\ q.own = ctx.own /\ q.closed = ctx.closed /\ q.answer = NoAnswer /\ Rested(q)
         /\ (q.poisoned \/ Put(Settle(q), Settle(ctx), ctx.own[h], v))
    <2>1. Hushed(t) /\ Hushed(r) /\ Hushed(q)
      BY <1>3, <1>5, <1>8, <1>10 DEF Bears, Keeps, Hushed
    <2>2. Rested(q) /\ q.own = ctx.own /\ q.closed = ctx.closed
      BY <1>3, <1>5, <1>8, <1>10 DEF Bears, Rest
    <2>3. ~t.poisoned /\ Seen(ctx, t)
      BY <1>3, <1>4, <1>5 DEF Bears, Seen
    <2>4. q.poisoned \/ Put(Settle(q), Settle(ctx), ctx.own[h], v)
      <3>1. ctx.own[h] \in Pairs
        BY <1>1, ContextParts DEF Whole, Sound
      <3> QED
        BY <1>8, <1>10, <2>3, <3>1 DEF Bears, Seen, Put
    <2> QED
      BY <2>1, <2>2, <2>4 DEF Hushed
  <1>12. v \in Contents /\ ~Refuses(ctx)
    BY <1>1 DEF Contents, Refuses
  <1> QED
    BY <1>1, <1>2, <1>10, <1>11, <1>12, WritingFollows

LEMMA DispatchFollows ==
  ASSUME IInv, Named(ctx, {}), Written(ctx), Rested(ctx), NEW k \in Kernels, NEW v \in Pushed,
         NEW f \in Outcomes, NEW g \in Outcomes, Dispatch(k, v, f, g),
         ctx' \in Context, Written(ctx')
  PROVE  Follows(ctx, ctx')
  <1> DEFINE n == Cost(f, Idle) + Cost(g, Idle)
             c == Called(n)
             exhausted == c.kern[k].reuse = NoSet /\ c.kern[k].mark = ArenaSize
             l == Flush(c, "DescriptorsExhausted", f)
             a == IF exhausted THEN l ELSE c
             s == Acquired(a, k)
             cmd == [set |-> s.kern[k].reuse, to |-> c.kern[k].pending, value |-> v]
             r == Recorded(s, cmd)
             due == Due(r)
             z == Flush(r, "BatchFull", g)
             y == IF due THEN z ELSE r
             failed == exhausted /\ Failed(c, "DescriptorsExhausted", f)
             h == c.kern[k].bound
             w == Writing(y, h)
  <1>0. Live(n) /\ Dispatchable(k)
    BY DEF Dispatch
  <1>1. /\ ctx.faults + n <= MaxFaults /\ Whole(ctx) /\ n \in Nat /\ ~ctx.poisoned
        /\ ~ctx.closed /\ Dispatchable(k)
    BY <1>0, CostType DEF Live, IInv
  <1>1a. ctx \in Context
    BY <1>1 DEF Whole, Sound
  <1>2. ctx' = (IF failed THEN a ELSE w) /\ (f # Idle => failed)
    BY DEF Dispatch
  <1> HIDE DEF n, failed, due
  <1>3. /\ Whole(c) /\ Named(c, {}) /\ Same(ctx, c) /\ Written(c) /\ Bears(ctx, c)
        /\ Hushed(c)
    BY <1>1, CalledBears
  <1> HIDE DEF c
  <1>4. /\ c \in Context /\ ~c.poisoned /\ ~c.closed /\ c.kern[k].pending \in Pairs
        /\ c.kern[k].bound \in Handles /\ c.kern[k].built /\ Rested(c)
        /\ ctx.own[h] # NoPair /\ c.kern[k].pending = ctx.own[h]
    <2>1. c \in Context /\ Bound(c) /\ Tied(c)
      BY <1>3 DEF Whole, Sound, Named
    <2>2. c.kern[k] \in KernelStates /\ h # 0 /\ c.kern[k].built /\ c.own[h] # NoPair
          /\ c.own = ctx.own
      BY <1>1, <1>3, <2>1, ContextParts DEF Same, Dispatchable
    <2>3. h \in Handles
      BY <2>2 DEF KernelStates
    <2>4. c.kern[k].pending = c.own[h]
      BY <2>1, <2>2 DEF Tied
    <2>5. Rested(c)
      BY <1>3 DEF Bears
    <2> QED
      BY <1>1, <1>3, <2>1, <2>2, <2>3, <2>4, <2>5 DEF Same, Bound
  <1>5. /\ Whole(l) /\ Named(l, {}) /\ Written(l) /\ l.kern[k].mark = 0
        /\ (f = Idle => ~l.poisoned)
        /\ ~l.closed /\ l.kern[k].built /\ l.kern[k].pending = c.kern[k].pending
        /\ Bears(c, l)
    <2>1. /\ Whole(l) /\ Calm(c, l) /\ l.kern[k].mark = 0
          /\ FlushLeaves(c, l, Completing("DescriptorsExhausted"))
      BY <1>3, CalmFlush, FlushWhole
    <2>2. Named(l, {}) /\ (f = Idle => ~l.poisoned)
      BY <1>3, <1>4, FlushNamed
    <2>3. Written(l) /\ Bears(c, l)
      BY <1>3, <1>4, FlushWritten, FlushBears
    <2> HIDE DEF l
    <2>4. k \in Built(l)
      BY <1>4, <2>1, FlushHolders DEF Built
    <2> QED
      BY <1>4, <2>1, <2>2, <2>3, <2>4 DEF Calm, Built
  <1>6. /\ Whole(a) /\ Named(a, {}) /\ Written(a)
        /\ (a.kern[k].reuse = NoSet => a.kern[k].mark # ArenaSize)
        /\ (~failed => ~a.poisoned) /\ ~a.closed /\ a.kern[k].built
        /\ a.kern[k].pending = c.kern[k].pending
    <2>1. ArenaSize # 0
      BY BoundAssumption
    <2> HIDE DEF l
    <2> QED
      BY <1>2, <1>3, <1>4, <1>5, <2>1
  <1>7. Bears(ctx, a) /\ Hushed(a) /\ Rested(a) /\ a \in Context
    <2>1. Bears(ctx, l)
      BY <1>3, <1>5, BearsOn
    <2> HIDE DEF l
    <2>2. Bears(ctx, a) /\ a \in Context
      BY <1>3, <1>6, <2>1 DEF Whole, Sound
    <2> HIDE DEF a
    <2>3. Hushed(a)
      BY <1>3, <1>5, <2>2 DEF Bears, a
    <2> QED
      BY <2>2, <2>3 DEF Bears
  <1> HIDE DEF a
  <1>8. CASE failed
    <2>1. ctx' = a
      BY <1>2, <1>8
    <2> QED
      BY <1>1a, <1>6, <1>7, <2>1, BearsFollows
  <1>9. CASE ~failed
    <2>1. /\ Whole(s) /\ Named(s, {}) /\ Written(s) /\ Ready(s, k, c.kern[k].pending)
          /\ ~s.poisoned /\ Bears(a, s)
      BY <1>6, <1>9, AcquiredWhole, AcquiredNamed, AcquiredWritten, AcquiredBears
    <2> HIDE DEF s
    <2>2. /\ cmd \in Commands /\ Recordable(s, cmd) /\ IsDispatch(cmd)
          /\ cmd.to = ctx.own[h] /\ cmd.value = v
      <3>1. cmd \in Commands /\ IsDispatch(cmd) /\ cmd.value = v
        BY <1>4, <2>1 DEF Commands, Ready, IsDispatch
      <3>2. cmd.to = c.kern[k].pending /\ cmd.set = s.kern[k].reuse
        OBVIOUS
      <3> HIDE DEF cmd
      <3> QED
        BY <1>4, <2>1, <3>1, <3>2 DEF Ready, Recordable
    <2> HIDE DEF cmd
    <2>3. /\ Whole(r) /\ Written(r) /\ Put(Settle(r), Settle(s), ctx.own[h], v)
          /\ Keeps(s, r) /\ Rest(s, r) /\ Rested(r)
      <3>1. Sound(s, {}, 0) /\ Grounded(s) /\ Rested(s)
        BY <1>7, <2>1 DEF Whole, Named, Bears
      <3>2. Whole(r) /\ Written(r)
        BY <2>1, <2>2, <3>1, RecordedWhole, RecordedWritten
      <3> QED
        BY <2>1, <2>2, <3>1, <3>2, RecordedPuts
    <2> HIDE DEF r
    <2>4. Whole(z) /\ Written(z) /\ Bears(r, z)
      BY <2>3, FlushWhole, FlushWritten, FlushBears
    <2> HIDE DEF z
    <2>5. Whole(y) /\ Written(y) /\ (y = r \/ Bears(r, y))
      BY <2>3, <2>4
    <2> HIDE DEF y
    <2>6. /\ Hushed(y) /\ Rested(y) /\ y.own = ctx.own /\ y.closed = ctx.closed
          /\ (y.poisoned \/ Put(Settle(y), Settle(ctx), ctx.own[h], v))
      <3>1. Bears(ctx, s) /\ Hushed(s)
        BY <1>7, <2>1, BearsOn DEF Bears
      <3>2. Hushed(y)
        BY <2>3, <2>5, <3>1 DEF Bears, Keeps, Hushed
      <3>3. Rested(y) /\ y.own = ctx.own /\ y.closed = ctx.closed
        BY <2>3, <2>5, <3>1 DEF Bears, Rest
      <3>4. ctx.own[h] \in Pairs
        BY <1>4
      <3>5. Put(Settle(r), Settle(ctx), ctx.own[h], v)
        BY <2>1, <2>3, <3>1, <3>4 DEF Bears, Seen, Put
      <3> QED
        BY <2>5, <3>2, <3>3, <3>4, <3>5 DEF Bears, Seen, Put
    <2>7. ctx' = Writing(y, h) /\ v \in Contents /\ ~Refuses(ctx)
      BY <1>1, <1>2, <1>9 DEF Contents, Refuses
    <2> HIDE DEF h
    <2>8. h \in Handles /\ ctx.own[h] # NoPair
      BY <1>4 DEF h
    <2> QED
      BY <1>1, <2>5, <2>6, <2>7, <2>8, WritingFollows DEF Hushed
  <1> QED
    BY <1>8, <1>9

LEMMA ClearSettles ==
  ASSUME NEW c, Clear(c)
  PROVE  Settle(c) = c.mem
  BY SettleIdle DEF Clear, Emptied

(* A submission of its own, after a flush that left nothing in flight. *)
LEMMA OneShotParts ==
  ASSUME NEW c \in Context, NEW shot \in Shots, NEW m, NEW uses, NEW extra
  PROVE  LET d == OneShot(c, shot, m, uses, extra)
         IN  /\ d.ran = c.ran /\ d.answer = c.answer /\ d.wrote = c.wrote
             /\ shot \in {"ok", "idle"} => d.mem = m
             /\ shot = "fails" => d = c
             /\ shot \in {"ok", "idle", "fails"} \/ d.poisoned
  <1>1. shot \in {"ok", "idle", "fails", "lost", "unknown"}
    BY BoundAssumption DEF Shots
  <1>2. CASE shot \in {"ok", "idle"}
    BY <1>2 DEF OneShot, Context
  <1>3. CASE shot = "fails"
    BY <1>3 DEF OneShot
  <1>4. CASE shot = "lost"
    <2>1. OneShot(c, shot, m, uses, extra) = Poisoned(c, TRUE)
      BY <1>4 DEF OneShot
    <2> QED
      BY <1>4, <2>1 DEF Poisoned, Context
  <1>5. CASE shot = "unknown"
    <2> DEFINE no == FALSE
               p == Poisoned(c, no)
    <2>1. OneShot(c, shot, m, uses, extra) =
            [p EXCEPT !.leaked = @ + 2 + extra, !.scratch = @ + extra,
                      !.submissions = @ + 1, !.adrift = @ \cup uses]
      BY <1>5 DEF OneShot
    <2>2. p.poisoned /\ p.ran = c.ran /\ p.answer = c.answer /\ p.wrote = c.wrote
          /\ DOMAIN p = DOMAIN c
      BY DEF Poisoned, Context
    <2> HIDE DEF p
    <2>3. DOMAIN c = DOMAIN p /\ "poisoned" \in DOMAIN p /\ "ran" \in DOMAIN p
          /\ "answer" \in DOMAIN p /\ "wrote" \in DOMAIN p
      BY <2>2 DEF Context
    <2> QED
      BY <1>5, <2>1, <2>2, <2>3
  <1> QED
    BY <1>1, <1>2, <1>3, <1>4, <1>5

(* It puts what its command says. *)
Shoots(c, d, T, shot, p, v) ==
  /\ Clear(d) /\ Sound(d, T, 0) /\ Carried(c, d)
  /\ d.ran = c.ran /\ d.answer = c.answer /\ d.wrote = c.wrote
  /\ shot = "fails" => d = c
  /\ shot = "fails" \/ d.poisoned \/ Put(d.mem, c.mem, p, v)

LEMMA ShotPuts ==
  ASSUME NEW c, NEW T, Sound(c, T, 0), Clear(c), NEW cmd \in Commands, Fitting(c, cmd),
         NEW v, v = IF IsDispatch(cmd) THEN cmd.value ELSE c.mem[cmd.from],
         NEW shot \in Shots, NEW uses \in SUBSET Objects, NEW extra \in Nat
  PROVE  Shoots(c, OneShot(c, shot, Executed(c, c.mem, cmd), uses, extra), T, shot, cmd.to, v)
  <1> DEFINE m == Executed(c, c.mem, cmd)
             d == OneShot(c, shot, m, uses, extra)
             P == Pairs \cup Stages
  <1>1. c \in Context /\ 0 \in Nat /\ c.mem \in Cells /\ c.bindings \in Sets
    BY ContextParts DEF Sound
  <1>2. m \in Cells
    BY <1>1, ExecutedType
  <1>3. Did(m, c.mem, cmd)
    <2>1. Reading(cmd, P) /\ Agree(c.mem, c.mem, P)
      BY CommandKinds DEF Reading, Agree
    <2>2. P \in SUBSET (Pairs \cup Stages)
      OBVIOUS
    <2> HIDE DEF P
    <2> QED
      BY <1>1, <2>1, <2>2, ExecutedAgrees
  <1> HIDE DEF m
  <1>4. Sound(d, T, 0) /\ Carried(c, d)
    BY <1>1, <1>2, OneShotSound
  <1>5. /\ d.ran = c.ran /\ d.answer = c.answer /\ d.wrote = c.wrote
        /\ shot \in {"ok", "idle"} => d.mem = m
        /\ shot = "fails" => d = c
        /\ shot \in {"ok", "idle", "fails"} \/ d.poisoned
    BY <1>1, OneShotParts
  <1> HIDE DEF d
  <1>6. Clear(d)
    BY <1>4, ClearCarried
  <1>7. Put(m, c.mem, cmd.to, v)
    BY <1>3 DEF Did, Put
  <1>8. shot = "fails" \/ d.poisoned \/ Put(d.mem, c.mem, cmd.to, v)
    BY <1>5, <1>7
  <1> QED
    BY <1>4, <1>5, <1>6, <1>8 DEF d, m, Shoots

LEMMA DispatchTimedFollows ==
  ASSUME IInv, Named(ctx, {}), Written(ctx), Rested(ctx), NEW k \in Kernels, NEW v \in Pushed,
         NEW f \in Outcomes, NEW shot \in Shots, DispatchTimed(k, v, f, shot),
         ctx' \in Context, Written(ctx')
  PROVE  Follows(ctx, ctx')
  <1> DEFINE n == Cost(f, Idle) + Cost(shot, "ok")
             c == Called(n)
             a == Flush(c, "TimedDispatch", f)
             s == SetWritten(a, k)
             cmd == [set |-> NextSet(a, k), to |-> c.kern[k].pending, value |-> v]
             m == Executed(s, s.mem, cmd)
             u == Uses(<<cmd>>)
             o == OneShot(s, shot, m, u, 1)
             failed == Failed(c, "TimedDispatch", f)
             h == c.kern[k].bound
  <1>0. Live(n) /\ Dispatchable(k)
    BY DEF DispatchTimed
  <1>1. /\ ctx.faults + n <= MaxFaults /\ Whole(ctx) /\ n \in Nat /\ ~ctx.poisoned
        /\ ~ctx.closed
    BY <1>0, CostType DEF Live, IInv
  <1>1a. ctx \in Context
    BY <1>1 DEF Whole, Sound
  <1>2. /\ ctx' = IF failed THEN a
                  ELSE IF shot = "fails" THEN o ELSE Writing(o, h)
        /\ f # Idle => failed
    BY DEF DispatchTimed
  <1> HIDE DEF n, failed
  <1>3. /\ Whole(c) /\ Named(c, {}) /\ Same(ctx, c) /\ Written(c) /\ Bears(ctx, c)
        /\ Hushed(c)
    BY <1>1, CalledBears
  <1> HIDE DEF c
  <1>4. /\ c \in Context /\ ~c.poisoned /\ c.kern[k].pending \in Pairs
        /\ h \in Handles /\ Rested(c)
        /\ ctx.own[h] # NoPair /\ c.kern[k].pending = ctx.own[h]
    <2>1. c \in Context /\ Bound(c) /\ Tied(c)
      BY <1>3 DEF Whole, Sound, Named
    <2>2. c.kern[k] \in KernelStates /\ h # 0 /\ c.own[h] # NoPair /\ c.own = ctx.own
      BY <1>0, <1>1, <1>3, <2>1, ContextParts DEF Same, Dispatchable
    <2>3. h \in Handles
      BY <2>2 DEF KernelStates
    <2>4. c.kern[k].pending = c.own[h]
      BY <2>1, <2>2 DEF Tied
    <2>5. Rested(c)
      BY <1>3 DEF Bears
    <2> QED
      BY <1>1, <1>3, <2>1, <2>2, <2>3, <2>4, <2>5 DEF Same, Bound
  <1>5. /\ Whole(a) /\ Written(a) /\ (f = Idle => Clear(a) /\ ~a.poisoned)
        /\ a.kern[k].mark # ArenaSize /\ a.kern[k].pending = c.kern[k].pending
        /\ Bears(c, a)
    <2>1. Completing("TimedDispatch")
      BY DEF Completing
    <2>2. a.kern[k].mark = 0 /\ a.kern[k].pending = c.kern[k].pending
      BY <1>3, FlushWhole
    <2>3. Bears(c, a)
      BY <1>3, <1>4, FlushBears
    <2> QED
      BY <1>3, <1>4, <2>1, <2>2, <2>3, FlushClear, BoundAssumption
  <1> HIDE DEF a
  <1>6. Bears(ctx, a) /\ Hushed(a) /\ Rested(a) /\ a \in Context
    BY <1>3, <1>5, BearsOn DEF Bears, Whole, Sound
  <1>7. CASE failed
    <2>1. ctx' = a
      BY <1>2, <1>7
    <2> QED
      BY <1>1a, <1>5, <1>6, <2>1, BearsFollows
  <1>8. CASE ~failed
    <2>0. Clear(a) /\ ~a.poisoned
      BY <1>2, <1>5, <1>8
    <2>1. /\ Whole(s) /\ Clear(s) /\ NextSet(a, k) \in DescriptorSets /\ Rest(a, s)
          /\ s.bindings[NextSet(a, k)] = c.kern[k].pending
      <3>1. /\ Whole(s) /\ NextSet(a, k) \in DescriptorSets
            /\ Rest(a, s) /\ s.open = a.open /\ s.rec = a.rec
            /\ \A j \in Kernels : s.kern[j].reuse = a.kern[j].reuse
        BY <1>5, SetWrittenReuses
      <3>2. s.bindings = [a.bindings EXCEPT ![NextSet(a, k)] = a.kern[k].pending]
        <4>1. Sound(a, {}, 0) /\ 0 \in Nat
          BY <1>5 DEF Whole
        <4> QED
          BY <1>5, <4>1, SetWrittenSound, ZenonT(60)
      <3> HIDE DEF s
      <3>3. Clear(s)
        BY <2>0, <3>1, ClearKept DEF Rest
      <3>4. s.bindings[NextSet(a, k)] = c.kern[k].pending
        <4>1. a.bindings \in Sets
          BY <1>6, ContextParts
        <4> QED
          BY <1>5, <3>1, <3>2, <4>1 DEF Sets
      <3> QED
        BY <3>1, <3>3, <3>4
    <2>2. Keeps(a, s)
      BY <1>6, SetWrittenKeeps
    <2> HIDE DEF s
    <2>3. /\ cmd \in Commands /\ u \in SUBSET Objects /\ IsDispatch(cmd)
          /\ cmd.value = v /\ cmd.to = ctx.own[h] /\ Fitting(s, cmd)
      <3>1. cmd \in Commands /\ IsDispatch(cmd) /\ cmd.value = v
            /\ cmd.to = ctx.own[h] /\ cmd.set = NextSet(a, k)
        BY <1>4, <2>1 DEF Commands, IsDispatch
      <3> HIDE DEF cmd
      <3>2. <<cmd>> \in Seq(Commands)
        BY <3>1
      <3> QED
        BY <1>4, <2>1, <3>1, <3>2, UsesType DEF Fitting
    <2> HIDE DEF cmd, u, h
    <2>4. /\ Clear(o) /\ Sound(o, {}, 0) /\ Carried(s, o)
          /\ o.ran = s.ran /\ o.answer = s.answer /\ o.wrote = s.wrote
          /\ shot = "fails" => o = s
          /\ shot = "fails" \/ o.poisoned \/ Put(o.mem, s.mem, ctx.own[h], v)
      <3>1. Sound(s, {}, 0) /\ 1 \in Nat
        BY <2>1 DEF Whole
      <3>2. v = IF IsDispatch(cmd) THEN cmd.value ELSE s.mem[cmd.from]
        BY <2>3
      <3>3. Shoots(s, o, {}, shot, cmd.to, v)
        BY <2>1, <2>3, <3>1, <3>2, ShotPuts
      <3> HIDE DEF o
      <3> QED
        BY <2>3, <3>3 DEF Shoots
    <2>5. /\ Hushed(s) /\ Rested(s) /\ Bears(ctx, s) /\ s \in Context /\ Written(s)
          /\ Settle(s) = s.mem
      <3>1. Hushed(s) /\ Rested(s) /\ s \in Context /\ Written(s)
        BY <1>6, <2>1, <2>2, ClearWritten DEF Keeps, Hushed, Rested, Rest, Whole, Sound
      <3>2. Settle(s) = s.mem /\ Settle(a) = a.mem
        BY <2>0, <2>1, ClearSettles
      <3>3. Bears(ctx, s)
        BY <1>6, <2>0, <2>1, <2>2, <3>1, <3>2 DEF Bears, Rest, Keeps, Seen
      <3> QED
        BY <3>1, <3>2, <3>3
    <2>6. CASE shot = "fails"
      <3>1. ctx' = s
        BY <1>2, <1>8, <2>4, <2>6
      <3> QED
        BY <1>1a, <2>5, <3>1, BearsFollows
    <2>7. CASE shot # "fails"
      <3>1. ctx' = Writing(o, h) /\ v \in Contents /\ ~Refuses(ctx)
        BY <1>1, <1>2, <1>8, <2>7 DEF Contents, Refuses
      <3>2. Whole(o) /\ Written(o) /\ Rested(o) /\ Settle(o) = o.mem
        <4>1. Calm(s, o)
          BY <2>4 DEF Carried, Passed, Calm
        <4> QED
          BY <2>1, <2>4, <2>5, <4>1, CalmWhole, ClearWritten, ClearSettles
             DEF Rested, Carried
      <3> HIDE DEF o
      <3>3. /\ o.own = ctx.own /\ o.closed = ctx.closed /\ o.answer = NoAnswer
            /\ (o.poisoned \/ Put(Settle(o), Settle(ctx), ctx.own[h], v))
        <4>1. o.own = ctx.own /\ o.closed = ctx.closed /\ o.answer = NoAnswer
          BY <2>4, <2>5 DEF Carried, Passed, Bears, Hushed
        <4>2. ctx.own[h] \in Pairs /\ ~s.poisoned
          BY <1>4, <2>0, <2>1 DEF Rest
        <4>3. Seen(ctx, s)
          BY <2>5, <4>2 DEF Bears
        <4> QED
          BY <2>4, <2>5, <2>7, <3>2, <4>1, <4>2, <4>3 DEF Seen, Put
      <3>4. h \in Handles /\ ctx.own[h] # NoPair
        BY <1>4
      <3> QED
        BY <1>1, <3>1, <3>2, <3>3, <3>4, WritingFollows
    <2> QED
      BY <2>6, <2>7
  <1> QED
    BY <1>7, <1>8

LEMMA UploadNowFollows ==
  ASSUME IInv, Named(ctx, {}), Written(ctx), Rested(ctx), NEW h \in Handles,
         NEW v \in Pushed, NEW s \in Stages, NEW f \in Outcomes, NEW shot \in Shots,
         UploadNow(h, v, s, f, shot), ctx' \in Context, Written(ctx')
  PROVE  Follows(ctx, ctx')
  <1> DEFINE n == Cost(f, Idle) + Cost(shot, "ok")
             c == Called(n)
             a == Flush(c, "Upload", f)
             t == StageTaken(a, s, v)
             cmd == [from |-> s, to |-> ctx.own[h]]
             m == Executed(t, t.mem, cmd)
             u == Uses(<<cmd>>)
             done == OneShot(t, shot, m, u, 0)
             failed == Failed(c, "Upload", f)
             x == Recycled(done, {s})
             y == ReleasedOrLeaked(done, {s})
  <1>0. Live(n) /\ ctx.own[h] # NoPair /\ s \in StageChoices(a)
    BY DEF UploadNow
  <1>1. /\ ctx.faults + n <= MaxFaults /\ Whole(ctx) /\ n \in Nat /\ ~ctx.poisoned
        /\ ~ctx.closed /\ 0 \in Nat
    BY <1>0, CostType DEF Live, IInv
  <1>1a. ctx \in Context
    BY <1>1 DEF Whole, Sound
  <1>2. /\ ctx' = IF failed THEN a
                  ELSE IF shot = "ok" THEN Writing(x, h)
                  ELSE IF shot = "fails" THEN y ELSE Writing(y, h)
        /\ f # Idle => failed
    BY DEF UploadNow
  <1> HIDE DEF n, failed
  <1>3. /\ Whole(c) /\ Named(c, {}) /\ Same(ctx, c) /\ Written(c) /\ Bears(ctx, c)
        /\ Hushed(c)
    BY <1>1, CalledBears
  <1> HIDE DEF c
  <1>4. Fresh(c) /\ Bound(c) /\ ~c.poisoned /\ c \in Context /\ c.own = ctx.own /\ Rested(c)
    BY <1>1, <1>3 DEF Whole, Same, Sound, Bears
  <1>5. /\ Whole(a) /\ Calm(c, a) /\ Written(a) /\ Named(a, {}) /\ Bears(c, a)
        /\ (f = Idle => Clear(a) /\ ~a.poisoned)
    <2>1. Completing("Upload")
      BY DEF Completing
    <2>2. Named(a, {}) /\ Bears(c, a)
      BY <1>3, <1>4, FlushNamed, FlushBears
    <2> QED
      BY <1>3, <1>4, <2>1, <2>2, CalmFlush, FlushClear
  <1> HIDE DEF a
  <1>6. Bears(ctx, a) /\ Hushed(a) /\ Rested(a) /\ a \in Context
    BY <1>3, <1>5, BearsOn DEF Bears, Whole, Sound
  <1>7. CASE failed
    <2>1. ctx' = a
      BY <1>2, <1>7
    <2> QED
      BY <1>1a, <1>5, <1>6, <2>1, BearsFollows
  <1>8. CASE ~failed
    <2>0. Clear(a) /\ ~a.poisoned
      BY <1>2, <1>5, <1>8
    <2>1. /\ Sound(t, {s}, 0) /\ Calm(a, t) /\ Written(t) /\ Bears(a, t)
          /\ t.mem[s] = v /\ ~t.poisoned
      BY <1>0, <1>5, <2>0, StageTakenBears
    <2>1a. Clear(t)
      <3>1. /\ t.open = a.open /\ t.flying = a.flying /\ t.rec = a.rec
            /\ t.flight = a.flight /\ t.kern = a.kern
        BY <1>6 DEF StageTaken, Context
      <3> HIDE DEF t
      <3> QED
        BY <2>0, <3>1, ClearKept
    <2> HIDE DEF t
    <2>2. Settle(t) = t.mem /\ Bears(ctx, t) /\ Hushed(t) /\ Rested(t) /\ t \in Context
      BY <1>6, <2>1, <2>1a, ClearSettles, BearsOn DEF Bears, Sound
    <2>3. /\ cmd \in Commands /\ u \in SUBSET Objects /\ ~IsDispatch(cmd)
          /\ cmd.from = s /\ cmd.to = ctx.own[h] /\ ctx.own[h] \in Pairs
      <3>1. ctx.own[h] \in Pairs
        BY <1>0, <1>1a, ContextParts
      <3>2. cmd \in Commands /\ ~IsDispatch(cmd) /\ cmd.from = s /\ cmd.to = ctx.own[h]
        BY <3>1 DEF Commands, IsDispatch
      <3> HIDE DEF cmd
      <3>3. <<cmd>> \in Seq(Commands)
        BY <3>2
      <3> QED
        BY <3>1, <3>2, <3>3, UsesType
    <2> HIDE DEF cmd, u
    <2>4. Shoots(t, done, {s}, shot, ctx.own[h], v)
      <3>1. v = IF IsDispatch(cmd) THEN cmd.value ELSE t.mem[cmd.from]
        BY <2>1, <2>3
      <3>2. Fitting(t, cmd)
        BY <2>3 DEF Fitting
      <3>3. Shoots(t, done, {s}, shot, cmd.to, v)
        BY <1>1, <2>1, <2>1a, <2>3, <3>1, <3>2, ShotPuts
      <3> HIDE DEF done
      <3> QED
        BY <2>3, <3>3
    <2> HIDE DEF done
    <2>5. /\ Clear(done) /\ Sound(done, {s}, 0) /\ Carried(t, done) /\ done \in Context
          /\ done.ran = t.ran /\ done.answer = t.answer /\ done.wrote = t.wrote
          /\ Written(done) /\ Sound(done, {s} \cup {}, 0) /\ {s} \cap {} = {}
          /\ Fresh(done) /\ Bound(done)
      <3>1. {s} \cup {} = {s}
        OBVIOUS
      <3>2. Clear(done) /\ Sound(done, {s}, 0) /\ Carried(t, done)
            /\ done.ran = t.ran /\ done.answer = t.answer /\ done.wrote = t.wrote
        BY <2>4 DEF Shoots
      <3>3. Calm(c, done)
        BY <1>5, <2>1, <3>2, CalmOn DEF Carried, Passed, Calm
      <3> QED
        BY <1>4, <3>1, <3>2, <3>3, CalmParts, ClearWritten DEF Sound
    <2>6. ASSUME NEW z, Sound(z, {}, 0), Carried(done, z), Keeps(done, z)
          PROVE  /\ Whole(z) /\ Written(z) /\ Settle(z) = done.mem /\ Hushed(z) /\ Rested(z)
                 /\ z.own = ctx.own /\ z.closed = ctx.closed /\ (done.poisoned => z.poisoned)
      <3>1. Whole(z) /\ Clear(z)
        BY <2>5, <2>6, CalmParts, ClearCarried DEF Carried, Passed, Calm, Whole
      <3>2. Written(z) /\ Settle(z) = z.mem
        BY <3>1, ClearWritten, ClearSettles
      <3> QED
        BY <2>2, <2>5, <2>6, <3>1, <3>2 DEF Carried, Passed, Keeps, Hushed, Rested, Bears
    <2>7. /\ Sound(x, {}, 0) /\ Carried(done, x) /\ Keeps(done, x)
          /\ Sound(y, {}, 0) /\ Carried(done, y) /\ Keeps(done, y)
      BY <1>1, <2>5, RecycledSound, ReleasedOrLeakedSound, DisposalKeeps
    <2> HIDE DEF x, y
    <2>8. CASE shot = "fails"
      <3>1. ctx' = y /\ done = t
        BY <1>2, <1>8, <2>4, <2>8 DEF Shoots
      <3>2. /\ Whole(y) /\ Written(y) /\ Settle(y) = Settle(t) /\ Hushed(y) /\ Rested(y)
            /\ y.own = ctx.own /\ y.closed = ctx.closed /\ y \in Context
        BY <2>2, <2>6, <2>7, <3>1 DEF Whole, Sound
      <3>3. Bears(ctx, y)
        BY <1>1, <2>1, <2>2, <3>2 DEF Bears, Seen
      <3> QED
        BY <1>1a, <3>1, <3>2, <3>3, BearsFollows
    <2>9. CASE shot # "fails"
      <3>1. PICK z : ctx' = Writing(z, h) /\ Sound(z, {}, 0) /\ Carried(done, z) /\ Keeps(done, z)
        BY <1>2, <1>8, <2>7, <2>9
      <3>2. /\ Whole(z) /\ Written(z) /\ Settle(z) = done.mem /\ Hushed(z) /\ Rested(z)
            /\ z.own = ctx.own /\ z.closed = ctx.closed /\ (done.poisoned => z.poisoned)
        BY <2>6, <3>1
      <3>3. z.poisoned \/ Put(Settle(z), Settle(ctx), ctx.own[h], v)
        <4>1. Seen(ctx, t)
          BY <2>1, <2>2 DEF Bears
        <4>2. done.poisoned \/ Put(done.mem, t.mem, ctx.own[h], v)
          BY <2>4, <2>9 DEF Shoots
        <4> QED
          BY <2>2, <3>2, <4>1, <4>2 DEF Seen, Put
      <3>4. z.answer = NoAnswer /\ v \in Contents /\ ~Refuses(ctx)
        BY <1>1, <3>2 DEF Contents, Refuses, Hushed
      <3> QED
        BY <1>0, <1>1, <3>1, <3>2, <3>3, <3>4, WritingFollows
    <2> QED
      BY <2>8, <2>9
  <1> QED
    BY <1>7, <1>8

LEMMA ReadFollows ==
  ASSUME NEW c \in Context, NEW d \in Context, Written(c), Written(d), Rested(d),
         NEW h \in Handles, c.own[h] # NoPair, ~Refuses(c), ~Refuses(d),
         d.own = c.own, Seen(c, d), d.wrote = 0, d.answer = Settle(c)[c.own[h]]
  PROVE  Follows(c, d)
  <1>1. View(d) = View(c)
    <2>1. \A g \in Handles : View(d)[g] = View(c)[g]
      BY ViewParts DEF Seen
    <2> QED
      BY <2>1 DEF View
  <1>2. d.answer = View(c)[h] /\ View(c)[h] # Unheld
    BY ViewParts
  <1>3. Reads(c, d, h)
    BY <1>1, <1>2 DEF Reads, Accepts
  <1> QED
    BY <1>3 DEF Follows, Maps

LEMMA DownloadFollows ==
  ASSUME IInv, Named(ctx, {}), Written(ctx), Rested(ctx), NEW h \in Handles,
         NEW f \in Outcomes, NEW shot \in Shots, Download(h, f, shot),
         ctx' \in Context, Written(ctx')
  PROVE  Follows(ctx, ctx')
  <1> DEFINE n == Cost(f, Idle) + Cost(shot, "ok")
             c == Called(n)
             a == Flush(c, "Readback", f)
             u == {ctx.own[h]}
             m == a.mem
             o == OneShot(a, shot, m, u, 2)
             r == IF shot = "ok" THEN a.mem[ctx.own[h]] ELSE NoAnswer
             d == [o EXCEPT !.answer = r]
             failed == Failed(c, "Readback", f)
  <1>0. Live(n) /\ ctx.own[h] # NoPair
    BY DEF Download
  <1>1. /\ ctx.faults + n <= MaxFaults /\ Whole(ctx) /\ n \in Nat /\ ~ctx.poisoned
        /\ ~ctx.closed /\ 0 \in Nat /\ 2 \in Nat
    BY <1>0, CostType DEF Live, IInv
  <1>1a. ctx \in Context
    BY <1>1 DEF Whole, Sound
  <1>2. ctx' = (IF failed THEN a ELSE d) /\ (f # Idle => failed)
    BY DEF Download
  <1> HIDE DEF n, failed
  <1>3. /\ Whole(c) /\ Named(c, {}) /\ Same(ctx, c) /\ Written(c) /\ Bears(ctx, c)
        /\ Hushed(c)
    BY <1>1, CalledBears
  <1> HIDE DEF c
  <1>4. ~c.poisoned /\ c \in Context /\ Rested(c)
    BY <1>1, <1>3 DEF Whole, Same, Sound, Bears
  <1>5. Whole(a) /\ Written(a) /\ (f = Idle => Clear(a) /\ ~a.poisoned) /\ Bears(c, a)
    <2>1. Completing("Readback")
      BY DEF Completing
    <2> QED
      BY <1>3, <1>4, <2>1, FlushClear, FlushBears
  <1> HIDE DEF a
  <1>6. Bears(ctx, a) /\ Hushed(a) /\ Rested(a) /\ a \in Context
    BY <1>3, <1>5, BearsOn DEF Bears, Whole, Sound
  <1>7. CASE failed
    <2>1. ctx' = a
      BY <1>2, <1>7
    <2> QED
      BY <1>1a, <1>5, <1>6, <2>1, BearsFollows
  <1>8. CASE ~failed
    <2>1. Clear(a) /\ Sound(a, {}, 0) /\ ~a.poisoned /\ Settle(a) = m
      BY <1>2, <1>5, <1>8, ClearSettles DEF Whole
    <2>2. u \in SUBSET Objects /\ m \in Cells
      BY <1>0, <1>1a, <1>6, ContextParts DEF Objects
    <2>3. Seen(ctx, a) /\ ctx.own[h] \in Pairs
      BY <1>0, <1>1a, <1>6, <2>1, ContextParts DEF Bears
    <2>4. r = IF shot = "ok" THEN Settle(ctx)[ctx.own[h]] ELSE NoAnswer
      BY <2>1, <2>3 DEF Seen
    <2> HIDE DEF u, m, r
    <2>5. /\ Sound(o, {}, 0) /\ Carried(a, o) /\ o.ran = a.ran /\ o.wrote = a.wrote
          /\ (shot \in {"ok", "idle"} => o.mem = m)
          /\ (shot = "fails" => o = a)
          /\ (shot \in {"ok", "idle", "fails"} => ~o.poisoned)
          /\ (shot \in {"ok", "idle", "fails"} \/ o.poisoned)
      <3>1. Sound(o, {}, 0) /\ Carried(a, o)
            /\ (shot \in {"ok", "idle", "fails"} => o.poisoned = a.poisoned)
        BY <1>1, <2>1, <2>2, OneShotSound
      <3>2. /\ o.ran = a.ran /\ o.wrote = a.wrote
            /\ shot \in {"ok", "idle"} => o.mem = m
            /\ shot = "fails" => o = a
            /\ shot \in {"ok", "idle", "fails"} \/ o.poisoned
        BY <1>6, OneShotParts
      <3> HIDE DEF o
      <3> QED
        BY <2>1, <3>1, <3>2
    <2>6. ctx' = d
      BY <1>2, <1>8 DEF o, u, m, r
    <2> HIDE DEF o
    <2>7. Same(o, d) /\ d.wrote = o.wrote /\ d.answer = r
      BY <2>5 DEF Sound, Context, Same
    <2> HIDE DEF d
    <2>8. Clear(d) /\ Settle(d) = d.mem
      BY <2>1, <2>5, <2>7, ClearCarried, ClearSame, ClearSettles
    <2>9. /\ d.own = ctx.own /\ d.closed = ctx.closed /\ Rested(d) /\ d.wrote = 0
          /\ d.mem = o.mem /\ d.poisoned = o.poisoned
      BY <1>6, <2>5, <2>7 DEF Same, Carried, Passed, Bears, Rested, Hushed
    <2>10. CASE shot = "ok"
      <3>1. Seen(ctx, d)
        BY <2>1, <2>3, <2>5, <2>8, <2>9, <2>10 DEF Seen
      <3>2. ~Refuses(ctx) /\ ~Refuses(d)
        BY <1>1, <2>5, <2>9, <2>10 DEF Refuses
      <3>3. d.answer = Settle(ctx)[ctx.own[h]]
        BY <2>4, <2>7, <2>10
      <3> QED
        BY <1>0, <1>1a, <2>6, <2>9, <3>1, <3>2, <3>3, ReadFollows
    <2>11. CASE shot # "ok"
      <3>1. Hushed(d)
        BY <2>4, <2>7, <2>9, <2>11 DEF Hushed
      <3>2. d.poisoned \/ Seen(ctx, d)
        BY <2>1, <2>3, <2>5, <2>8, <2>9 DEF Seen, m
      <3>3. Bears(ctx, d)
        BY <1>1, <2>9, <3>1, <3>2 DEF Bears
      <3> QED
        BY <1>1a, <2>6, <3>1, <3>3, BearsFollows
    <2> QED
      BY <2>10, <2>11
  <1> QED
    BY <1>7, <1>8

LEMMA AbandonedKeeps ==
  ASSUME NEW c, Sound(c, {}, 0), Rested(c), NEW wait \in WaitResults
  PROVE  LET d == Abandoned(c, wait)
         IN  ~d.ran /\ d.answer = c.answer /\ d.wrote = c.wrote
  <1> DEFINE a == IF c.flying /\ c.poisoned
                  THEN Leaked([c EXCEPT !.leaked = @ + 2, !.flying = FALSE,
                                        !.flight = NoBatch, !.ran = FALSE,
                                        !.adrift = @ \cup Uses(c.flight.cmds)],
                              c.flight.retired)
                  ELSE Reaped(c, wait)
             d0 == [a EXCEPT !.open = FALSE, !.rec = NoBatch]
             d == SubmissionReleased(d0)
  <1>1. c \in Context /\ c.flight \in Batches /\ 0 \in Nat /\ 1 \in Nat /\ 0 + 1 = 1
    BY ContextParts DEF Sound
  <1>2. Sound(a, {}, 0) /\ ~a.ran /\ a.answer = c.answer /\ a.wrote = c.wrote
    <2>1. CASE c.flying /\ c.poisoned
      <3> DEFINE e1 == [c EXCEPT !.flying = FALSE, !.flight = NoBatch, !.ran = FALSE]
                 e2 == [e1 EXCEPT !.leaked = @ + 2]
                 ad == c.adrift \cup Uses(c.flight.cmds)
                 e3 == [e2 EXCEPT !.adrift = ad]
                 l == Leaked(e3, c.flight.retired)
      <3>1. Sound(e1, c.flight.retired \cup {}, 0 + 1) /\ c.flight.retired \cap {} = {}
        BY <1>1, <2>1, BatchLanded
      <3>2. ~e1.ran /\ e1.answer = c.answer /\ e1.wrote = c.wrote
        BY <1>1 DEF Context
      <3>3. e3 = [c EXCEPT !.leaked = @ + 2, !.flying = FALSE,
                           !.flight = NoBatch, !.ran = FALSE,
                           !.adrift = @ \cup Uses(c.flight.cmds)]
        BY <1>1 DEF Context
      <3> HIDE DEF e1
      <3>4. Sound(e2, c.flight.retired \cup {}, 0)
        BY <1>1, <3>1, StraySound
      <3>5. ad \in SUBSET Objects /\ e1 \in Context
        BY <1>1, <3>1, ContextParts, BatchParts DEF Sound
      <3>6. ~e2.ran /\ e2.answer = c.answer /\ e2.wrote = c.wrote
        BY <3>2, <3>5 DEF Context
      <3> HIDE DEF e2, ad
      <3>7. Sound(e3, c.flight.retired \cup {}, 0)
        BY <1>1, <3>4, <3>5, AdriftSound
      <3>8. ~e3.ran /\ e3.answer = c.answer /\ e3.wrote = c.wrote
        BY <3>4, <3>6 DEF Context, Sound
      <3>9. a = l
        BY <2>1, <3>3
      <3> HIDE DEF e3, a
      <3>10. Sound(l, {}, 0) /\ Keeps(e3, l)
        BY <1>1, <3>1, <3>7, LeakedSound, DisposalKeeps DEF Sound
      <3> HIDE DEF l
      <3> QED
        BY <3>8, <3>9, <3>10 DEF Keeps
    <2>2. CASE ~(c.flying /\ c.poisoned)
      <3>1. a = Reaped(c, wait)
        BY <2>2
      <3> HIDE DEF a
      <3> QED
        BY <1>1, <3>1, ReapedSound, ReapedKeeps
    <2> QED
      BY <2>1, <2>2
  <1>3. Abandoned(c, wait) = IF ~a.open THEN a
                             ELSE IF a.poisoned THEN Scrapped(d, a.rec.retired)
                             ELSE Recycled(d, a.rec.retired)
    BY DEF Abandoned
  <1> HIDE DEF a
  <1>4. CASE ~a.open
    BY <1>2, <1>3, <1>4
  <1>5. CASE a.open
    <2>1. Sound(d0, a.rec.retired \cup {}, 0 + 1) /\ a.rec.retired \cap {} = {}
      BY <1>1, <1>2, <1>5, BatchClosed
    <2>2. d0.ran = a.ran /\ d0.answer = a.answer /\ d0.wrote = a.wrote /\ d0 \in Context
      <3>1. d0 \in Context
        BY <2>1 DEF Sound
      <3> QED
        BY <1>2, <3>1 DEF Context, Sound
    <2> HIDE DEF d0
    <2>3. Keeps(d0, d) /\ d \in Context
      BY <1>1, <2>1, <2>2, SubmissionReleasedSound, DisposalKeeps DEF Sound
    <2> HIDE DEF d
    <2>4. Keeps(d, Scrapped(d, a.rec.retired)) /\ Keeps(d, Recycled(d, a.rec.retired))
      BY <2>3, DisposalKeeps
    <2>5. Keeps(d, Abandoned(c, wait))
      BY <1>3, <1>5, <2>4
    <2> QED
      BY <1>2, <2>2, <2>3, <2>5 DEF Keeps
  <1> QED
    BY <1>4, <1>5

LEMMA DiscardFollows ==
  ASSUME IInv, Named(ctx, {}), Written(ctx), Rested(ctx), NEW wait \in Waits,
         DiscardRecordedBatch(wait), ctx' \in Context, Written(ctx')
  PROVE  Follows(ctx, ctx')
  <1> DEFINE n == Cost(wait, "ok")
             c == Called(n)
             a == Abandoned(c, wait)
             w == Writing(a, Everything)
  <1>1. /\ ctx.faults + n <= MaxFaults /\ Whole(ctx) /\ n \in Nat /\ ~ctx.closed
    BY CostType DEF DiscardRecordedBatch, IInv
  <1>1a. ctx \in Context
    BY <1>1 DEF Whole, Sound
  <1>2. ctx' = w
    BY DEF DiscardRecordedBatch
  <1> HIDE DEF n
  <1>3. Whole(c) /\ Written(c) /\ Bears(ctx, c) /\ Hushed(c)
    BY <1>1, CalledBears
  <1> HIDE DEF c
  <1>4. wait \in WaitResults /\ Sound(c, {}, 0) /\ Rested(c)
    BY <1>3, BoundAssumption DEF Waits, WaitResults, Whole, Bears
  <1>5. Sound(a, {}, 0) /\ AbandonLeaves(c, a)
        /\ ~a.ran /\ a.answer = c.answer /\ a.wrote = c.wrote
    BY <1>4, AbandonedSound, AbandonedKeeps
  <1> HIDE DEF a
  <1>6. Whole(a) /\ a \in Context /\ Everything \in Handles \cup {0, Everything}
    BY <1>3, <1>5, CalmWhole DEF AbandonLeaves, Calm, Sound
  <1>7. Same(a, w)
    BY <1>6, WritingWhole
  <1>8. w.ran = a.ran /\ w.answer = a.answer
        /\ w.wrote = IF a.poisoned THEN 0 ELSE Everything
    BY <1>6, WritingSays
  <1> HIDE DEF w
  <1>9. /\ ~w.ran /\ w.answer = NoAnswer /\ w.own = ctx.own /\ w.closed = ctx.closed
        /\ (ctx.poisoned => w.poisoned)
        /\ w.wrote = IF w.poisoned THEN 0 ELSE Everything
    BY <1>3, <1>5, <1>7, <1>8 DEF AbandonLeaves, Same, Bears, Hushed
  <1>10. Rested(w)
    BY <1>9 DEF Rested
  <1>11. CASE w.poisoned
    BY <1>2, <1>9, <1>10, <1>11 DEF Follows, Maps, GivesUp, Refuses, Hushed
  <1>12. CASE ~w.poisoned
    <2>1. Accepts(ctx, w)
      BY <1>1, <1>9, <1>12 DEF Accepts, Refuses
    <2>2. w \in Context /\ Written(w)
      BY <1>2
    <2>3. /\ View(w) \in [Handles -> Contents \cup {Unheld}]
          /\ \A h \in Handles : View(w)[h] = Unheld <=> View(ctx)[h] = Unheld
      BY <1>1a, <1>9, <2>1, <2>2, ViewParts DEF Accepts
    <2>4. Discards(ctx, w)
      BY <1>9, <1>12, <2>1, <2>3 DEF Discards
    <2> QED
      BY <1>2, <1>10, <2>4 DEF Follows, Maps
  <1> QED
    BY <1>11, <1>12

LEMMA DropFollows ==
  ASSUME IInv, Named(ctx, {}), Written(ctx), Rested(ctx), NEW idle \in {"ok", "fails"},
         NEW wait \in Waits, Drop(idle, wait)
  PROVE  Follows(ctx, ctx')
  <1> DEFINE n == Cost(idle, "ok") + Cost(wait, "ok")
             e == Called(n)
             yes == TRUE
             c == [e EXCEPT !.closed = yes]
             o == Ran(c)
             b == [o.flight EXCEPT !.cmds = << >>]
             j == [o EXCEPT !.flight = b]
             i == IF idle = "ok" THEN j ELSE c
             a == Abandoned(i, wait)
             al == a.alive \ a.pool
             d == [a EXCEPT !.alive = al, !.pool = {}]
  <1>1. ctx.faults + n <= MaxFaults /\ Whole(ctx) /\ n \in Nat /\ 0 \in Nat
    <2>1. Cost(idle, "ok") \in Nat /\ Cost(wait, "ok") \in Nat
      BY CostType
    <2>2. ctx.faults + Cost(idle, "ok") + Cost(wait, "ok") <= MaxFaults /\ Whole(ctx)
      BY DEF Drop, IInv
    <2>3. ctx.faults \in Nat
      BY <2>2, ContextParts DEF Whole, Sound
    <2> QED
      BY <2>1, <2>2, <2>3
  <1>2. ctx' = IF c.poisoned /\ ~c.lost THEN c ELSE d
    BY DEF Drop
  <1>3. ctx'.closed
    BY BoundAssumption, DropHeld DEF Waits, WaitResults
  <1> HIDE DEF n
  <1>4. Whole(e) /\ Hushed(e) /\ Rested(e) /\ e \in Context
    BY <1>1, CalledBears DEF Bears
  <1> HIDE DEF e
  <1>5. yes \in BOOLEAN /\ yes
    OBVIOUS
  <1> HIDE DEF yes
  <1>6. Hushed(c) /\ Rested(c) /\ c \in Context
    <2>1. c \in Context
      BY <1>4, <1>5 DEF Context
    <2>2. c.answer = e.answer /\ c.wrote = e.wrote /\ c.flying = e.flying /\ c.ran = e.ran
      BY <1>4 DEF Context
    <2> QED
      BY <1>4, <2>1, <2>2 DEF Hushed, Rested
  <1>7. Sound(c, {}, 0)
    <2>1. Sound(e, {}, 0) /\ Stray(e, 0) >= 0
      BY <1>4 DEF Whole, Sound, Counted
    <2>3. /\ c.own = e.own /\ c.rec = e.rec /\ c.flight = e.flight /\ c.pool = e.pool
          /\ c.alive = e.alive /\ c.open = e.open /\ c.flying = e.flying
          /\ c.kern = e.kern /\ c.leaked = e.leaked /\ c.scratch = e.scratch
          /\ c.submissions = e.submissions
      BY <1>4 DEF Context
    <2> HIDE DEF c
    <2>4. Stray(c, 0) = Stray(e, 0) /\ Stray(e, 0) \in Int
      BY <1>1, <1>4, <2>3, StrayType DEF Stray
    <2>5. e.leaked \in Nat /\ e.scratch \in Nat
      BY <1>4, ContextParts
    <2> QED
      BY <1>6, <2>1, <2>3, <2>4, <2>5, Untouched
  <1> HIDE DEF c
  <1>8. Sound(o, {}, 0) /\ Carried(c, o) /\ o.answer = c.answer /\ (~c.flying => o = c)
    BY <1>1, <1>6, <1>7, RanSound, RanFlown DEF Ran
  <1> HIDE DEF o
  <1>9. o \in Context /\ o.flight \in Batches /\ Emptied(o) /\ Stray(o, 0) >= 0
        /\ Hushed(o) /\ Rested(o)
    BY <1>6, <1>8, ContextParts DEF Sound, Counted, Carried, Passed, Hushed, Rested
  <1>10. b \in Batches /\ b.retired = o.flight.retired
         /\ (o.flight = NoBatch => b = NoBatch)
    <2>1. << >> \in Seq(Commands)
      OBVIOUS
    <2>2. b \in Batches /\ b.retired = o.flight.retired
      BY <1>9, <2>1 DEF Batches
    <2>3. [NoBatch EXCEPT !.cmds = << >>] = NoBatch
      BY DEF NoBatch
    <2> QED
      BY <2>2, <2>3
  <1> HIDE DEF b
  <1>11. Sound(j, {}, 0) /\ Hushed(j) /\ Rested(j)
    <2>1. j \in Context
      BY <1>9, <1>10 DEF Context
    <2>2. /\ j.own = o.own /\ j.rec = o.rec /\ j.flight = b /\ j.pool = o.pool
          /\ j.alive = o.alive /\ j.open = o.open /\ j.flying = o.flying
          /\ j.kern = o.kern /\ j.leaked = o.leaked /\ j.scratch = o.scratch
          /\ j.submissions = o.submissions /\ j.ran = o.ran /\ j.answer = o.answer
          /\ j.wrote = o.wrote
      BY <1>9 DEF Context
    <2> HIDE DEF j
    <2>3. Stray(j, 0) = Stray(o, 0) /\ Stray(o, 0) \in Int
      BY <1>1, <1>9, <2>2, StrayType DEF Stray
    <2>4. o.leaked \in Nat /\ o.scratch \in Nat
      BY <1>9, ContextParts
    <2>5. Emptied(j)
      BY <1>9, <1>10, <2>2 DEF Emptied
    <2>6. Sound(j, {}, 0)
      BY <1>8, <1>9, <1>10, <2>1, <2>2, <2>3, <2>4, <2>5, SameHolders
    <2> QED
      BY <1>9, <2>2, <2>6 DEF Hushed, Rested
  <1> HIDE DEF j
  <1>12. Sound(i, {}, 0) /\ Hushed(i) /\ Rested(i)
    BY <1>6, <1>7, <1>11
  <1> HIDE DEF i
  <1>13. wait \in WaitResults
    BY BoundAssumption DEF Waits, WaitResults
  <1>14. ~a.ran /\ Hushed(a) /\ a \in Context
    BY <1>12, <1>13, AbandonedSound, AbandonedKeeps DEF Sound, Hushed
  <1> HIDE DEF a, al
  <1>15. ~d.ran /\ Hushed(d)
    BY <1>14 DEF Context, Hushed
  <1> HIDE DEF d
  <1>16. Hushed(ctx') /\ Rested(ctx')
    BY <1>2, <1>6, <1>15 DEF Rested
  <1> QED
    BY <1>3, <1>16 DEF Follows, Maps, GivesUp, Refuses

LEMMA NextFollows ==
  ASSUME IInv, Named(ctx, {}), Written(ctx), Rested(ctx), Next,
         ctx' \in Context, Written(ctx')
  PROVE  Follows(ctx, ctx')
  BY BufferFollows, FreeBufferFollows, BuildKernelFollows, DestroyKernelFollows,
     BindFollows, DispatchFollows, DispatchTimedFollows, UploadRecordedFollows,
     UploadNowFollows, DownloadFollows, SyncFollows, DiscardFollows, DropFollows,
     DeviceExecutesFollows DEF Next

LEMMA InitMaps ==
  ASSUME Init
  PROVE  Eager!Init /\ Rested(ctx)
  <1>1. /\ \A h \in Handles : ctx.own[h] = NoPair
        /\ ~ctx.poisoned /\ ~ctx.closed /\ ~ctx.ran
        /\ ctx.answer = NoAnswer /\ ctx.wrote = 0
    BY DEF Init
  <1>2. Readable = [h \in Handles |-> Unheld]
    BY <1>1 DEF Readable
  <1>3. Refusing = FALSE
    BY <1>1 DEF Refusing
  <1> QED
    BY <1>1, <1>2, <1>3 DEF Eager!Init, Rested

(* What the program reads is what it would read if every accepted call had *)
(* happened at once (lib.rs:3165-3183): every step of the context is a     *)
(* step of EagerContext or invisible to the program, however much is       *)
(* recorded or in flight and whatever fails.  The program must not discard *)
(* a batch while another is in flight, as for SetsHold.                    *)
THEOREM ReadbacksAreEager ==
  ASSUME ~AsyncFlush \/ ~MayDiscard
  PROVE  Spec => ReadbacksSeeEverything
  <1>1. Init => Eager!Init /\ Rested(ctx)
    BY InitMaps
  <1>2. ASSUME IInv, IInv', Named(ctx, {}), Written(ctx), Written(ctx)', Rested(ctx), [Next]_ctx
        PROVE  [Eager!Next]_(Eager!eager) /\ Rested(ctx)'
    <2>1. CASE Next
      <3>1. ctx \in Context /\ ctx' \in Context
        BY <1>2 DEF IInv, Whole, Sound
      <3>2. Written(ctx')
        BY <1>2 DEF Written, Fits, Below, Banked, OpenBank, IsDispatch
      <3>3. Follows(ctx, ctx')
        BY <1>2, <2>1, <3>1, <3>2, NextFollows
      <3>4. [Eager!Next]_(Eager!eager)
        BY <3>1, <3>3, MapsHeld DEF Follows
      <3>5. Rested(ctx)'
        BY <3>3 DEF Follows, Rested
      <3> QED
        BY <3>4, <3>5
    <2>2. CASE UNCHANGED ctx
      <3>1. UNCHANGED Readable
        BY <2>2 DEF Readable, Settled, Ran, RunAll, Executed, IsDispatch, Refusing
      <3>2. UNCHANGED Refusing /\ UNCHANGED ctx.answer /\ UNCHANGED ctx.wrote
        BY <2>2 DEF Refusing
      <3> QED
        BY <1>2, <2>2, <3>1, <3>2 DEF Eager!eager, Rested
    <2> QED
      BY <1>2, <2>1, <2>2
  <1> QED
    BY <1>1, <1>2, Invariance, NamesKept, SetsWritten, PTL
       DEF Spec, ReadbacksSeeEverything, Eager!Spec
=============================================================================
